-------------------------------- MODULE Memo --------------------------------
(***************************************************************************)
(* `irc memo`: a language model writes the memo around tables it is told to *)
(* copy, a second one audits it, a citation gate reads it block by block,   *)
(* and only then does memo.md replace what an earlier run of the day left.  *)
(*                                                                         *)
(* A citation is the record of the evidence it stands for; MacroRef stands  *)
(* for the citations no fund owns. A memo is a sequence of blocks: what the *)
(* gate takes for one paragraph, one table row or bullet, or one heading.   *)
(***************************************************************************)
EXTENDS Naturals, FiniteSets, SequencesExt

CONSTANTS
    MemoFunds,      \* funds of the trade plan and of the opportunity report
    NameWithin,     \* NameWithin[f]: funds whose name holds that of f inside
    MemoInputs,     \* what outputs/<day> may offer the stage
    Passages,       \* blocks the model may write of its own
    MaxPassages,    \* at most this many of them
    CiteCap,        \* citations a table cell shows
    PromptCap,      \* evidence lines the model and the numeric audit are given
    MacroRef, NoMemo,
    MaxMemoRuns     \* runs of the stage

Legs == {"data", "information"}
\* None, one that only labels an action or denies it, one that advises it.
Words == {"none", "label", "action"}
Kinds == {"row", "para", "head"}
Verdicts == {"clear", "refused"}   \* silence is clear; words of refusal, or a row of high risk
MemoSteps == {"idle", "synth", "audit", "files", "verdict", "refuse", "unlink",
              "cite", "publish", "sweep"}

OnRecord(in) == {f \in MemoFunds : in.rows[f].published}
Publishable(e) == e.scope \in {"instrument", "constituent"}
IsAudited(es) ==
    /\ \A l \in Legs : \E e \in es : e.leg = l /\ Publishable(e)
    /\ \A e \in es : e # MacroRef /\ e.leg \in Legs /\ e.rank \in Nat
    /\ IsFiniteSet(es) /\ \A e, o \in es : e.rank = o.rank => e = o

\* A name that holds another is the longer of the two. What a report publishes has
\* a datum and an information of its own: the opportunity stage audits each row of
\* it and takes out the one that has not.
MemoAssumption ==
    /\ MaxMemoRuns \in Nat /\ MaxPassages \in Nat
    /\ NameWithin \in [MemoFunds -> SUBSET MemoFunds]
    /\ \A f \in MemoFunds : \A g \in NameWithin[f] : f \notin NameWithin[g]
    /\ \A b \in Passages : b.kind \in Kinds /\ b.words \in Words
    /\ \A in \in MemoInputs : /\ in.trades \in Seq(MemoFunds)
                              /\ \A f \in OnRecord(in) : IsAudited(in.rows[f].evidence)
                              /\ \A f, g \in OnRecord(in) :
                                     f # g => in.rows[f].evidence \cap in.rows[g].evidence = {}
ASSUME MemoAssumption

VARIABLES
    desk,     \* the run: its step, inputs, draft and audit notes
    shelf,    \* outputs/<today>: memo.md, memo_blocked.md, memo_audit.txt, citation_audit.json
    memoLog   \* history: runs so far, how the last ended, which never ended
memoVars == <<desk, shelf, memoLog>>

-----------------------------------------------------------------------------
(* The evidence of a fund, and what a cell shows of it.                    *)

\* citation_map.py: the citations of the published rows, by owner.
CitedMap(in) == [f \in OnRecord(in) |-> in.rows[f].evidence]
ConstituentCited(in, f, s) == {e \in in.rows[f].evidence : e.stock = s}
Stocks(in, f) == {e.stock : e \in {x \in in.rows[f].evidence : x.scope = "constituent"}}

Outranks(a, b) ==
    \/ Publishable(a) /\ ~Publishable(b)
    \/ Publishable(a) = Publishable(b) /\ a.rank > b.rank
Foremost(es) == {e \in es : \A o \in es \ {e} : Outranks(e, o)}
\* The `n` best of `es`.
Leading(es, n) == {e \in es : Cardinality({o \in es : Outranks(o, e)}) < n}

\* (A cell that merely shows the best, for comparison.)
SelectByRank(es) == Leading(es, CiteCap)
\* One publishable datum and one information first, and then by rank.
SelectCitations(es) ==
    LET slots == Foremost({e \in es : e.leg = "data" /\ Publishable(e)})
                 \cup Foremost({e \in es : e.leg = "information"})
    IN  slots \cup Leading(es \ slots, CiteCap - Cardinality(slots))

-----------------------------------------------------------------------------
(* The skeleton: the evidence pool and the tables the model must copy.     *)

\* What of the first i of a sequence is in S; and of the whole of it, in its
\* order (SelectSeq, in a form the provers can unfold).
KeptOf(s, S) ==
    LET kept[i \in 0..Len(s)] ==
            IF i = 0 THEN <<>>
            ELSE IF s[i] \in S THEN Append(kept[i - 1], s[i]) ELSE kept[i - 1]
    IN  kept
Among(s, S) == KeptOf(s, S)[Len(s)]

\* The trades whose fund is in the report, each once, in the plan's order.
PickedFunds(in) == Among(in.trades, OnRecord(in))
\* Broker cover of the top holdings too thin: to the tail of the table.
AdvisoryPartition(in) ==
    LET thin == {f \in OnRecord(in) : in.rows[f].thin}
    IN  Among(PickedFunds(in), OnRecord(in) \ thin) \o Among(PickedFunds(in), thin)

\* The action a state is rendered as; "slow_dca" is worded as conditional.
ActionWords(in, f) ==
    IF in.rows[f].state = "small_watch" /\ in.rows[f].valuation # "dear" THEN "label" ELSE "action"
PicksRow(in, f) ==
    [kind |-> "row", says |-> {f}, stocks |-> {}, cites |-> SelectCitations(in.rows[f].evidence),
     words |-> ActionWords(in, f), claim |-> "none", barred |-> FALSE]
PicksTable(in) ==
    [i \in DOMAIN AdvisoryPartition(in) |-> PicksRow(in, AdvisoryPartition(in)[i])]

\* The funds of the plan first, then the rest of the report but for the merely
\* watched; one line for a fund, and one for each citation selected of it.
PoolOrder(in) ==
    PickedFunds(in)
    \o SetToSeq({f \in OnRecord(in) \ ToSet(in.trades) : in.rows[f].state # "small_watch"})
EvidencePool(in) ==
    FlattenSeq([i \in DOMAIN PoolOrder(in) |->
        LET f == PoolOrder(in)[i]
        IN  [c \in 1..1 + Cardinality(SelectCitations(in.rows[f].evidence)) |->
               [fund |-> f, states |-> c = 1]]])
Prompted(in) == {f \in MemoFunds : \E i \in DOMAIN EvidencePool(in) :
                    i <= PromptCap /\ EvidencePool(in)[i] = [fund |-> f, states |-> TRUE]}

-----------------------------------------------------------------------------
(* The two readers of the draft that are programs.                         *)

\* The sections the model is forbidden to add go, headings and all.
Sanitize(draft) == Among(draft, {b \in ToSet(draft) : ~b.barred})

\* Prose that calls a fund cheap, or dear, against its valuation state; only
\* the funds whose line was among those given to the model are looked at.
ProseContradictions(draft, in) ==
    {f \in Prompted(in) : \E i \in DOMAIN draft :
        /\ f \in draft[i].says
        /\ \/ draft[i].claim = "cheap" /\ in.rows[f].valuation # "cheap"
           \/ draft[i].claim = "dear" /\ in.rows[f].valuation = "cheap"}

\* Where a name is written inside a longer one, only the longer one counts.
Mentions(b) == [fund : MemoFunds, inside : b.says]
Occurs(m) == m.fund = m.inside \/ m.inside \in NameWithin[m.fund]
InstrumentHits(b, in) ==
    {f \in OnRecord(in) : \E m \in Mentions(b) :
        /\ Occurs(m) /\ m.fund = f
        /\ ~\E l \in Mentions(b) : Occurs(l) /\ l.fund \in OnRecord(in) /\ l.fund # f
                                       /\ l.inside = m.inside /\ l.fund \in NameWithin[f]}
Owners(s, in) == {f \in OnRecord(in) : s \in Stocks(in, f)}
ConstituentHits(b, in) == {s \in b.stocks : Owners(s, in) # {}}

HasActionableKeyword(b) == b.words = "action"

\* What the last block that says so, up to block i, makes the fund whose holdings
\* are named from there on: a block about one fund makes it that fund, a heading
\* or a paragraph about none or several makes it none, and a row leaves it.
SectionOwner(draft, i, in) ==
    LET hits(j) == InstrumentHits(draft[j], in)
        setting == {j \in 1..i : draft[j].kind # "row" \/ Cardinality(hits(j)) = 1}
        last    == Max(setting)
    IN  IF setting = {} \/ draft[last].kind = "head" \/ Cardinality(hits(last)) # 1
        THEN {} ELSE hits(last)
\* A heading of the disclosures names the fund that what is below it is about.
Subsection(draft, i) ==
    LET heads == {j \in 1..i : draft[j].kind = "head" /\ draft[j].says # {}}
    IN  IF heads = {} THEN {} ELSE draft[Max(heads)].says

Cites(draft) == UNION {draft[i].cites : i \in DOMAIN draft}
LegsPresent(cited, marks) ==
    {l \in Legs : \E e \in cited \cap marks : e.leg = l /\ Publishable(e)}

Finding(holds, of, kind) == IF holds THEN {[of |-> of, kind |-> kind]} ELSE {}
\* A citation of a fund that the block does not name, and legs the memo lacks.
CheckInstrument(f, marks, hits, all, in) ==
    LET cited == CitedMap(in)
    IN  Finding(\E o \in OnRecord(in) \ (hits \cup {f}) : marks \cap cited[o] # {},
                f, "wrong_instrument_citation")
        \cup Finding(LegsPresent(cited[f], all) # Legs, f, "uncited_conclusion")

\* A holding is read for the fund the context names, if that fund holds it.
OwnerInContext(s, hits, sub, owner, in) ==
    LET context == IF sub # {} THEN sub ELSE owner
        named   == Owners(s, in) \cap hits
    IN  IF context # {} /\ context \subseteq Owners(s, in) THEN context
        ELSE IF Cardinality(named) = 1 THEN named
        ELSE IF Cardinality(Owners(s, in)) = 1 THEN Owners(s, in) ELSE {}
CheckConstituent(s, hits, sub, owner, all, in) ==
    LET whose == OwnerInContext(s, hits, sub, owner, in)
    IN  Finding(whose = {}, s, "ambiguous_constituent_reference")
        \cup UNION {Finding(LegsPresent(ConstituentCited(in, f, s), all) # Legs,
                            f, "uncited_conclusion") : f \in whose}

\* What the audit of block i finds. A paragraph takes over what is cited in the
\* one before it, unless the two name funds and no common one.
Nothing == [says |-> {}, cites |-> {}]
BlockFindings(draft, i, in) ==
    LET b       == draft[i]
        above   == IF i = 1 \/ draft[i - 1].kind = "row" THEN Nothing ELSE draft[i - 1]
        all     == Cites(draft)
        hits    == InstrumentHits(b, in)
        held    == ConstituentHits(b, in)
        carries == \/ hits = {} \/ InstrumentHits(above, in) = {}
                   \/ hits \cap InstrumentHits(above, in) # {}
        marks   == IF b.kind # "row" /\ carries THEN b.cites \cup above.cites ELSE b.cites
        sub     == Subsection(draft, i)
        owner   == SectionOwner(draft, i, in)
    IN  IF hits = {} /\ held = {}
        THEN Finding(marks = {}, MacroRef, "uncited_portfolio_conclusion")
        ELSE (UNION {CheckInstrument(f, marks, hits, all, in) : f \in hits})
             \cup UNION {CheckConstituent(s, hits, sub, owner, all, in) : s \in held}

ActionBlocks(draft) == {i \in DOMAIN draft : HasActionableKeyword(draft[i])}
UncitedConclusions(draft, in) ==
    IF OnRecord(in) = {} THEN {} ELSE UNION {BlockFindings(draft, i, in) : i \in ActionBlocks(draft)}

\* A pick that the table does not show both legs of.
MissingPickCitations(in) ==
    {[of |-> f, kind |-> "missing_pick_citation"] : f \in
        {g \in ToSet(PickedFunds(in)) :
            {e.leg : e \in SelectCitations(in.rows[g].evidence)} # Legs}}

-----------------------------------------------------------------------------
(* A run of the stage.                                                     *)

NoInput == [source |-> "none"]
NoNotes == [verdict |-> "clear", slips |-> {}]
MemoIdle == [step |-> "idle", in |-> NoInput, draft |-> <<>>, notes |-> NoNotes]

MemoInit ==
    /\ desk = MemoIdle
    /\ shelf = [memo |-> NoMemo, blocked |-> FALSE, audit |-> NoMemo,
                shadow |-> NoMemo]
    /\ memoLog = [runs |-> 0, ended |-> "none", torn |-> {}]

Leave(how) ==
    /\ desk' = MemoIdle
    /\ memoLog' = [memoLog EXCEPT !.ended = how]
Step(s) == desk' = [desk EXCEPT !.step = s]

\* The spend gate or stale data turn the stage away, or there is no scoring of
\* any day; or two published funds share a name and the alias map cannot be.
StartMemo ==
    /\ desk.step = "idle" /\ memoLog.runs < MaxMemoRuns
    /\ UNCHANGED shelf
    /\ \/ /\ desk' = MemoIdle
          /\ memoLog' = [memoLog EXCEPT !.runs = @ + 1, !.ended = "turned away"]
       \/ \E in \in MemoInputs :
            IF in.twins
            THEN /\ desk' = MemoIdle
                 /\ memoLog' = [memoLog EXCEPT !.runs = @ + 1, !.ended = "turned away"]
            ELSE /\ desk' = [MemoIdle EXCEPT !.step = "synth", !.in = in]
                 /\ memoLog' = [memoLog EXCEPT !.runs = @ + 1]

\* What comes of the tables the model is told to copy: a row may lose what it
\* cites, or get what is another fund's.
CopiedTables(in) ==
    LET table == PicksTable(in)
        Swap(t, i, j) == [t EXCEPT ![i].cites = t[j].cites]
    IN  {table} \cup {Swap(table, i, j) : i, j \in DOMAIN table}
        \cup {[table EXCEPT ![i].cites = {}] : i \in DOMAIN table}

\* The model writes passages of its own before the tables.
Synthesize ==
    /\ desk.step = "synth"
    /\ \E table \in CopiedTables(desk.in), own \in SeqOf(Passages, MaxPassages) :
         desk' = [desk EXCEPT !.step = "audit", !.draft = Sanitize(own \o table)]
    /\ UNCHANGED <<shelf, memoLog>>

\* The second model's word, with the program's findings put before it.
Audit ==
    /\ desk.step = "audit"
    /\ \E v \in Verdicts :
         desk' = [desk EXCEPT !.step = "files",
                    !.notes = [verdict |-> v, slips |-> ProseContradictions(desk.draft, desk.in)]]
    /\ UNCHANGED <<shelf, memoLog>>

AuditBlocks(notes) == notes.verdict = "refused"

\* qdii_premium.json, memo_audit.txt, memo_traceability.json
WriteAudit ==
    /\ desk.step = "files"
    /\ shelf' = [shelf EXCEPT !.audit = [run |-> memoLog.runs, notes |-> desk.notes]]
    /\ Step(IF AuditBlocks(desk.notes) THEN "refuse" ELSE "cite")
    /\ UNCHANGED memoLog

MemoFindings(draft, in) == MissingPickCitations(in) \cup UncitedConclusions(draft, in)

\* The findings overlay those of the opportunity stage; that the file cannot be
\* written changes nothing. outputs/<date> always enforces.
CitationGate ==
    /\ desk.step = "cite"
    /\ LET found == MemoFindings(desk.draft, desk.in)
       IN  /\ Step(IF found # {} THEN "refuse" ELSE "publish")
           /\ shelf' \in {shelf, [shelf EXCEPT !.shadow =
                                       [run |-> memoLog.runs, kinds |-> {x.kind : x \in found}]]}
    /\ UNCHANGED memoLog

WriteBlocked ==
    /\ desk.step = "refuse" /\ Step("unlink")
    /\ shelf' = [shelf EXCEPT !.blocked = TRUE]
    /\ UNCHANGED memoLog
RemoveStaleMemo ==
    /\ desk.step = "unlink" /\ Leave("refused")
    /\ shelf' = [shelf EXCEPT !.memo = NoMemo]

-----------------------------------------------------------------------------
(* What a memo may say, whatever reads it.                                 *)

\* The funds of the report that a block writes of, and those whose name it
\* writes inside the name of a fund that is not in the report.
WrittenOf(b, in) ==
    {f \in OnRecord(in) : f \in b.says \/ NameWithin[f] \cap (b.says \ OnRecord(in)) # {}}

\* Every action the memo advises on a fund of the report rests on a datum and
\* an information of that fund, in the memo, and the block that advises it
\* shows no evidence of a fund it does not write of; an action on a holding
\* rests on both for some fund that holds it; one on no fund in particular on
\* something cited there or in the block before.
BlockIsBacked(draft, i, in) ==
    LET b == draft[i]
        named == b.says \cap OnRecord(in)
        Shown(es) == LegsPresent(es, Cites(draft)) = Legs
    IN  /\ \A f \in named : Shown(in.rows[f].evidence)
        /\ named # {} => \A f \in OnRecord(in) \ WrittenOf(b, in) : b.cites \cap in.rows[f].evidence = {}
        /\ \A s \in ConstituentHits(b, in) :
               \E f \in Owners(s, in) : Shown(ConstituentCited(in, f, s))
        /\ WrittenOf(b, in) = {} /\ ConstituentHits(b, in) = {} =>
               \/ b.cites # {}
               \/ i # 1 /\ draft[i - 1].kind # "row" /\ draft[i - 1].cites # {}
Backed(draft, in) ==
    OnRecord(in) = {} \/ \A i \in ActionBlocks(draft) : BlockIsBacked(draft, i, in)

\* A draft that follows the rules it was given, but for sections it should not
\* have added: every row of the table as it was, and in each block of prose one
\* fund of the table at most, evidence of that fund only, both legs of a holding
\* it judges; in a block on no fund, the macro evidence.
Follows(b, in) ==
    /\ Cardinality(b.says) <= 1 /\ b.says \subseteq ToSet(PickedFunds(in))
    /\ b.says = {} => b.cites = {MacroRef} /\ b.stocks = {}
    /\ \A f \in b.says : b.cites \subseteq in.rows[f].evidence
    /\ \A f \in b.says, s \in b.stocks :
           s \in Stocks(in, f) /\ LegsPresent(ConstituentCited(in, f, s), b.cites) = Legs
Faithful(draft, in) ==
    /\ ToSet(PicksTable(in)) \subseteq ToSet(draft)
    /\ \A b \in ToSet(draft) \ ToSet(PicksTable(in)) :
           ~b.barred => b.kind # "head" /\ Follows(b, in)

\* What the properties tell memos apart by.
WriteMemo ==
    /\ desk.step = "publish" /\ Step("sweep")
    /\ shelf' = [shelf EXCEPT !.memo =
            [run |-> memoLog.runs, backed |-> Backed(desk.draft, desk.in),
             slips |-> ProseContradictions(desk.draft, desk.in)]]
    /\ UNCHANGED memoLog
RemoveStaleBlocked ==
    /\ desk.step = "sweep" /\ Leave("published")
    /\ shelf' = [shelf EXCEPT !.blocked = FALSE]

\* Killed, or the last error of a provider raised.
TearMemo ==
    /\ desk.step # "idle" /\ desk' = MemoIdle
    /\ memoLog' = [memoLog EXCEPT !.ended = "torn", !.torn = @ \cup {memoLog.runs}]
    /\ UNCHANGED shelf

\* The opportunity stage, run again between two memos, starts the log anew.
ShadowAnew ==
    /\ desk.step = "idle" /\ shelf.shadow # NoMemo
    /\ shelf' = [shelf EXCEPT !.shadow = NoMemo]
    /\ UNCHANGED <<desk, memoLog>>

MemoNext ==
    \/ StartMemo \/ Synthesize \/ Audit \/ WriteAudit \/ CitationGate
    \/ WriteBlocked \/ RemoveStaleMemo \/ WriteMemo \/ RemoveStaleBlocked
    \/ TearMemo \/ ShadowAnew
MemoSpec == MemoInit /\ [][MemoNext]_memoVars

-----------------------------------------------------------------------------
MemoTypeOK ==
    /\ desk.step \in MemoSteps /\ desk.notes.verdict \in Verdicts
    /\ \A i \in DOMAIN desk.draft : desk.draft[i].kind \in Kinds /\ desk.draft[i].words \in Words
    /\ desk.step = "idle" <=> desk = MemoIdle
    /\ shelf.blocked \in BOOLEAN /\ memoLog.runs \in 0..MaxMemoRuns
    /\ memoLog.ended \in {"none", "turned away", "published", "refused", "torn"}
    /\ memoLog.torn \subseteq 1..MaxMemoRuns

\* A memo on disk is backed, which is what the citation gate is for.
PublishedIsBacked == shelf.memo # NoMemo => shelf.memo.backed

\* What lies beside a memo does not contradict it: the audit of its own run did
\* not refuse it and says what the program found it to get wrong, and the log
\* of its own run holds no finding.
PublishedPassedGates ==
    shelf.memo # NoMemo =>
        /\ shelf.audit.run = shelf.memo.run =>
               ~AuditBlocks(shelf.audit.notes) /\ shelf.memo.slips \subseteq shelf.audit.notes.slips
        /\ shelf.shadow # NoMemo /\ shelf.shadow.run = shelf.memo.run => shelf.shadow.kinds = {}

\* Between runs memo.md and memo_blocked.md exclude each other, and a memo
\* stands beside an audit of another run, unless a run was torn after its audit.
VerdictStandsAlone ==
    desk.step = "idle" =>
        /\ shelf.memo # NoMemo /\ shelf.blocked => memoLog.torn # {}
        /\ shelf.memo # NoMemo /\ shelf.audit.run # shelf.memo.run =>
               shelf.audit.run \in memoLog.torn
        /\ memoLog.ended = "published" => shelf.memo.run = memoLog.runs /\ ~shelf.blocked
        /\ memoLog.ended = "refused" => shelf.memo = NoMemo /\ shelf.blocked

\* The citation gate refuses no draft that follows the rules: neither the names
\* that hide in longer names, nor what a paragraph carries over to the next,
\* nor what fits in a cell of the table, is held against it.
FaithfulIsPublished ==
    desk.step = "refuse" /\ ~AuditBlocks(desk.notes) => ~Faithful(desk.draft, desk.in)

MemoKeepsItsWord ==
    PublishedIsBacked /\ PublishedPassedGates /\ VerdictStandsAlone /\ FaithfulIsPublished
=============================================================================
