------------------------------ MODULE Research ------------------------------
(***************************************************************************)
(* `irc research` (commands/research_cmd.py, research/): for each theme the *)
(* engines of its language are asked, the first hits read, and one answer  *)
(* of the language model written from them; then one file per theme, the   *)
(* status file that lists them, and only then the quality gate.  Scoring,  *)
(* the gold stage and the opportunity stage read the status first and the  *)
(* files after, and nothing locks the directory.  A text is what its words *)
(* come to, a citation its URL.                                            *)
(***************************************************************************)
EXTENDS Naturals, Sequences, FiniteSets, SequencesExt, Functions

CONSTANTS
    ThemeOrder,        \* the themes, in the order of _DEFAULT_THEMES
    ThemeLocale,       \* theme_locale, of each theme
    SectorTheme,       \* "holdings_sector", whose citations are filtered
    CriticalThemes,    \* _CRITICAL_THEMES
    EngineLocale,      \* the language of each search engine
    KeyRings,          \* which engines a run may have keys for, in build order
    AskedThemes,       \* what a run may be asked for: all themes, or --theme
    Offered,           \* the URLs an engine may have for a query, a blank one among them
    Canonical,         \* a URL under which the extractor may return a page
    Relevant,          \* the URLs a keyword of the holdings occurs in
    Trusted,           \* the URLs of primary, wire and paper hosts
    MaxHits, TopPages, MaxSources, MinCitations,
    MaxResearchRuns    \* bound

NoUrl  == "no url"
Themes == Range(ThemeOrder)
Locales == Range(ThemeLocale)
SearchFailed == [ok |-> FALSE, hits |-> <<>>]

ASSUME ResearchAssumption ==
    /\ DOMAIN ThemeLocale = Themes /\ SectorTheme \in Themes /\ CriticalThemes \subseteq Themes
    /\ \A keys \in KeyRings : Range(keys) \subseteq DOMAIN EngineLocale
    /\ \A asked \in AskedThemes : asked \in Seq(Themes) /\ asked # <<>>
    /\ MaxResearchRuns \in Nat
    /\ MaxHits \in Nat /\ TopPages \in Nat /\ MaxSources \in Nat /\ MinCitations \in Nat

VARIABLES
    research,   \* the run in progress, or how the last one ended
    library,    \* data/research: the status file and a file per theme
    reading     \* a stage that reads the directory

researchVars == <<research, library, reading>>

NoReports == [t \in {} |-> 0]
Put(f, t, v) == [u \in DOMAIN f \cup {t} |-> IF u = t THEN v ELSE f[u]]
Resting(run, rc) ==
    [at |-> "idle", run |-> run, rc |-> rc, keys |-> <<>>, asked |-> <<>>, todo |-> <<>>,
     reports |-> NoReports]

ResearchInit ==
    /\ research = Resting(0, 0)
    /\ library = [run |-> 0, reports |-> NoReports, torn |-> FALSE,
                  md |-> [t \in Themes |-> [run |-> 0, text |-> "none"]]]
    /\ reading = [at |-> "idle", run |-> 0, reports |-> NoReports, todo |-> {},
                  md |-> NoReports, alone |-> TRUE]

-----------------------------------------------------------------------------
(* One theme: search, extraction, synthesis.                               *)

FirstOf(s, n) == SubSeq(s, 1, IF Len(s) < n THEN Len(s) ELSE n)
Distinct(urls) ==
    FoldLeft(LAMBDA seen, u : IF u \in {NoUrl} \cup Range(seen) THEN seen ELSE Append(seen, u),
             <<>>, urls)

ProvidersForLocale(locale, keys) == SelectSeq(keys, LAMBDA e : EngineLocale[e] = locale)

\* An engine is asked for so many hits; it fails on a timeout, a status, a body
\* of another shape or an exception, each of which is a failed result.
Search == {SearchFailed} \cup {[ok |-> TRUE, hits |-> FirstOf(urls, MaxHits)] : urls \in Offered}
ProviderResults(engines) == [DOMAIN engines -> Search]
HitsFromResults(results) ==
    FirstOf(Distinct(FlattenSeq([i \in DOMAIN results |-> results[i].hits])), MaxHits)

\* extract_top_pages: each of the first hits comes back under its own URL,
\* under another, or not at all.
ExtractTopPages(hits) ==
    LET top == FirstOf(hits, TopPages)
    IN  {pages \in [DOMAIN top -> Range(top) \cup {Canonical, NoUrl}] :
            \A i \in DOMAIN top : pages[i] \in {top[i], Canonical, NoUrl}}

BuildSources(hits, pages) == Range(FirstOf(Distinct(pages \o hits), MaxSources))

Failed(why, lost) == [failure |-> why, cites |-> {}, text |-> "failure", lost |-> lost]
SynthesizeReport(cites, answer, lost) ==
    IF cites = {} THEN Failed("no sources", lost)
    ELSE IF answer = "error" THEN Failed("error", lost)
    ELSE [failure |-> "", cites |-> cites, text |-> answer, lost |-> lost]

\* filter_relevant_citations, _count_trusted_citations.
RelevantOf(cites) == cites \cap Relevant
TrustedOf(cites)  == cites \cap Trusted

ApplyRelevanceFilter(t, report) ==
    IF t # SectorTheme \/ report.cites = {} THEN report
    ELSE IF RelevantOf(report.cites) = {} THEN Failed("irrelevant", report.lost)
    ELSE [report EXCEPT !.cites = RelevantOf(@)]

-----------------------------------------------------------------------------
(* The run.                                                                *)

StartResearch ==
    /\ research.at = "idle" /\ research.run < MaxResearchRuns
    /\ \E keys \in KeyRings, asked \in AskedThemes :
         research' = IF keys = <<>> THEN Resting(research.run + 1, 2)
                     ELSE [Resting(research.run + 1, 0) EXCEPT
                              !.at = "themes", !.keys = keys, !.asked = asked, !.todo = asked]
    /\ UNCHANGED <<library, reading>>

\* What a theme without an engine in its language comes to.
NoProvider == Failed("no provider", FALSE)
ThemeOutcome(t, results, pages, answer) ==
    LET lost  == \E i \in DOMAIN results : ~results[i].ok
        cites == BuildSources(HitsFromResults(results), pages)
    IN  ApplyRelevanceFilter(t, SynthesizeReport(cites, answer, lost))
ThemeOutcomes(t) ==
    LET engines == ProvidersForLocale(ThemeLocale[t], research.keys)
    IN  IF engines = <<>> THEN {NoProvider}
        ELSE UNION {UNION {{ThemeOutcome(t, results, pages, answer) :
                               answer \in {"prose", "", "error"}} :
                           pages \in ExtractTopPages(HitsFromResults(results))} :
                    results \in ProviderResults(engines)}

BuildOne ==
    /\ research.at = "themes"
    /\ LET t == Head(research.todo) IN \E report \in ThemeOutcomes(t) :
         LET built == [research EXCEPT !.reports = Put(@, t, report), !.todo = Tail(@)]
         IN  research' = IF built.todo # <<>> THEN built
                         ELSE [built EXCEPT !.at = "files", !.todo = built.asked]
    /\ UNCHANGED <<library, reading>>

\* What the status file keeps of a report.
Listed(reports) == [t \in DOMAIN reports |-> [failure |-> reports[t].failure,
                                              cites |-> reports[t].cites]]

\* A defect: the status is written before the files it lists.
WriteReportLate ==
    /\ research.at = "files" /\ research.todo # <<>>
    /\ LET t == Head(research.todo)
       IN  library' = [library EXCEPT !.md[t] = [run |-> research.run,
                                                 text |-> research.reports[t].text],
                          !.run = research.run, !.reports = Listed(research.reports)]
    /\ research' = [research EXCEPT !.todo = Tail(@)]
    /\ reading' = [reading EXCEPT !.alone = FALSE]

\* write_research_outputs: the files of the themes, one atomic write each ...
WriteReport ==
    /\ research.at = "files" /\ research.todo # <<>>
    /\ LET t == Head(research.todo)
       IN  library' = [library EXCEPT !.md[t] = [run |-> research.run,
                                                 text |-> research.reports[t].text]]
    /\ research' = [research EXCEPT !.todo = Tail(@)]
    /\ reading' = [reading EXCEPT !.alone = FALSE]

\* ... and then the status.
WriteStatus ==
    /\ research.at = "files" /\ research.todo = <<>>
    /\ library' = [library EXCEPT !.run = research.run, !.reports = Listed(research.reports),
                                  !.torn = FALSE]
    /\ research' = [research EXCEPT !.at = "gate"]
    /\ UNCHANGED reading

Usable(report) == report.failure = ""
DeadLocale(reports, l) ==
    LET ofIt == {t \in DOMAIN reports : ThemeLocale[t] = l}
    IN  ofIt # {} /\ \A t \in ofIt : ~Usable(reports[t])
Successes(reports) == Cardinality({t \in DOMAIN reports : Usable(reports[t])})
DegradedCriticalThemes(reports) ==
    {t \in DOMAIN reports \cap CriticalThemes : ~Usable(reports[t]) \/ reports[t].lost}

EvaluateResearchQuality(reports) ==
    LET n  == Cardinality(DOMAIN reports)
        ok == Successes(reports)
    IN  IF n = 0 \/ 2 * ok < n \/ \E l \in Locales : DeadLocale(reports, l) THEN "fail"
        ELSE IF 10 * ok < 8 * n \/ Cardinality(DegradedCriticalThemes(reports)) >= 2 THEN "warn"
        ELSE "pass"

QualityGate ==
    /\ research.at = "gate"
    /\ LET rc == IF EvaluateResearchQuality(research.reports) = "fail" THEN 2 ELSE 0
       IN  research' = [Resting(research.run, rc) EXCEPT
                            !.reports = Listed(research.reports), !.asked = research.asked]
    /\ UNCHANGED <<library, reading>>

\* Killed, or an exception.
ResearchDies ==
    /\ research.at # "idle"
    /\ research' = Resting(research.run, 1)
    /\ library' = [library EXCEPT !.torn = @ \/ (research.at = "files"
                                                 /\ research.todo # research.asked)]
    /\ UNCHANGED reading

-----------------------------------------------------------------------------
(* A reader: load_theme_reports, and what scoring and opportunity make of it *)

StartReading ==
    /\ reading.at = "idle"
    /\ reading' = [at |-> "reading", run |-> library.run, reports |-> library.reports,
                   todo |-> DOMAIN library.reports,
                   md |-> NoReports,
                   alone |-> ~library.torn /\ (research.at = "files"
                                               => research.todo = research.asked)]
    /\ UNCHANGED <<research, library>>

\* In the order the status lists them.
Place(t) == CHOOSE i \in DOMAIN ThemeOrder : ThemeOrder[i] = t
ReadReport ==
    /\ reading.at = "reading"
    /\ \E t \in reading.todo :
         /\ \A u \in reading.todo : Place(t) <= Place(u)
         /\ reading' = [reading EXCEPT !.md = Put(@, t, library.md[t]), !.todo = @ \ {t}]
    /\ UNCHANGED <<research, library>>

ReadingEnds ==
    /\ reading.at = "reading" /\ reading.todo = {}
    /\ reading' = [reading EXCEPT !.at = "read"]
    /\ UNCHANGED <<research, library>>

\* _classify_theme_report, of a report that was loaded: its file is never
\* blank, the heading and the citations being part of what is loaded.
ClassifyThemeReport(listed, md) ==
    IF listed.failure = "no sources" THEN "search_empty"
    ELSE IF listed.failure # "" THEN "llm_failed"
    ELSE IF md.text = "none" THEN "search_empty"
    ELSE "usable"

\* _thesis_from_theme_report
Intact(listed, md) ==
    /\ ClassifyThemeReport(listed, md) = "usable"
    /\ Cardinality(listed.cites) >= MinCitations
    /\ TrustedOf(listed.cites) # {}

\* _summary_for_theme: the words the keyword rubric of scoring counts.
SummaryForTheme(listed, md) == IF listed.failure # "" THEN "" ELSE md.text

ResearchNext ==
    \/ StartResearch \/ BuildOne \/ WriteReport \/ WriteStatus \/ QualityGate \/ ResearchDies
    \/ StartReading \/ ReadReport \/ ReadingEnds
ResearchSpec == ResearchInit /\ [][ResearchNext]_researchVars

-----------------------------------------------------------------------------
(* Properties.                                                             *)

ResearchTypeOK ==
    /\ research.at \in {"idle", "themes", "files", "gate"} /\ research.rc \in 0..2
    /\ DOMAIN research.reports \subseteq Themes /\ research.run \in 0..MaxResearchRuns
    /\ DOMAIN library.reports \subseteq Themes /\ library.run \in 0..MaxResearchRuns
    /\ \A t \in Themes : library.md[t].text \in {"none", "failure", "prose", ""}
    /\ reading.at \in {"idle", "reading", "read"} /\ DOMAIN reading.md \subseteq Themes

\* Nothing locks the directory, but the order of the writes (files, then the
\* status) and of the reads (status, then files) protects a reader: whenever
\* it comes, and whatever run is killed, the words it reads are never older
\* than the citations it reads them with.
WordsAreNotStale ==
    \A t \in DOMAIN reading.md : reading.md[t].run >= reading.run

\* Between two runs the status vouches for the very files that are there,
\* unless the last one to write was cut between its first file and its status.
LibraryIsWhole ==
    research.at # "files" /\ ~library.torn
        => \A t \in DOMAIN library.reports : library.md[t].run = library.run

\* A stage that read while nobody wrote takes no line of failure for news, and
\* backs no thesis with a theme that failed.
ReaderIsNotMisled ==
    reading.at = "read" /\ reading.alone =>
        \A t \in DOMAIN reading.reports :
            /\ SummaryForTheme(reading.reports[t], reading.md[t]) # "failure"
            /\ Intact(reading.reports[t], reading.md[t]) => reading.md[t].text # "failure"

\* A run that ends well left on disk, for every language it was asked for, a
\* theme the opportunity stage can use.
GoodRunIsUsable ==
    research.at = "idle" /\ research.rc = 0 /\ research.asked # <<>> =>
        \A l \in {ThemeLocale[t] : t \in Range(research.asked)} :
            \E t \in DOMAIN library.reports :
               /\ ThemeLocale[t] = l
               /\ ClassifyThemeReport(library.reports[t], library.md[t]) = "usable"

ResearchKeepsItsWord ==
    ResearchTypeOK /\ WordsAreNotStale /\ LibraryIsWhole /\ ReaderIsNotMisled /\ GoodRunIsUsable
=============================================================================
