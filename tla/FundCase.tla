------------------------------- MODULE FundCase -------------------------------
(***************************************************************************)
(* What the opportunity stage makes of one fund: the snapshot its evidence *)
(* comes from (fundamentals/snapshot.py), the thesis and the four states   *)
(* (opportunity/thesis_evidence.py, states.py), Policy B (policy_b.py),    *)
(* the demotion of an active fund, the citation gate and the files of the  *)
(* run (commands/opportunity_cmd.py).  How a snapshot is cached and        *)
(* fetched again is OpportunityFetch; here it is the one just served.      *)
(***************************************************************************)
EXTENDS Integers, FiniteSets, FiniteSetsExt

CONSTANTS
    TopSlots,       \* the top holdings an active fund may disclose
    WeightTables,   \* functions from TopSlots to their weight in percent
    TopHoldings,    \* TOP_N_DEFAULT
    Percentiles,    \* percentiles a series may stand at
    Returns,        \* returns, in percent
    HeatInputs,     \* the inputs of _heat_score that a source may fill
    Scores,         \* contributions to _passive_quality_score, in hundredths
    IndexSize       \* constituents of an index snapshot

ASSUME FundCaseAssumption ==
    /\ IsFiniteSet(TopSlots)
    /\ WeightTables \subseteq [TopSlots -> Nat] /\ TopHoldings \in Nat \ {0}
    /\ Percentiles \subseteq 0..100 /\ Returns \subseteq Int /\ Scores \subseteq Int
    /\ HeatInputs \subseteq {"ret_1m", "ret_3m", "ret_6m", "ret_12m", "premium", "flow"}
    /\ IndexSize \in Nat

VARIABLE dossier    \* the fund in hand: what it is, its snapshot, its row

caseVars == dossier

Missing == -1000                        \* None, among numbers
Known(x) == x # Missing
BothLegs == {"data", "information"}
Classes == {"cn_equity_fund", "cn_etf", "cn_bond_fund", "gold", "qdii_global"}
EquityClasses == {"cn_equity_fund", "cn_etf", "qdii_global"}
NonIndexable == {"gold", "cn_bond_fund", "qdii_global"}

-----------------------------------------------------------------------------
(* Snapshots.                                                              *)

\* The feeds a holding of each listing is asked of, and the leg of each.
Feeds == {"filing", "broker", "news"}
Served(listing) ==
    CASE listing = "CN" -> Feeds
      [] listing = "HK" -> {"filing", "news"}
      [] OTHER -> {}
LegOf(feed) == IF feed = "filing" THEN "data" ELSE "information"

EvidenceForConstituent(listing, answered) ==
    [listing  |-> listing,
     evidence |-> Served(listing) \cap answered,
     failures |-> IF Served(listing) = {} THEN {"unsupported"}
                  ELSE Served(listing) \ answered]

FundLegs(answered) == BothLegs \cap answered

ActiveSnapshot(hs, weights, listing, answered, legs) ==
    [kind |-> "active", weight |-> [h \in hs |-> weights[h]],
     parts |-> [h \in hs |-> EvidenceForConstituent(listing[h], answered[h])],
     fund |-> FundLegs(legs),
     failed |-> hs = {} \/ legs # BothLegs]

FundLevelSnapshot(legs) == [kind |-> "fund level", fund |-> FundLegs(legs)]

\* A snapshot of an index, kept by `irc fundamentals snapshot` whatever came of
\* it: how many constituents grew, shrank, stood still, filed no growth or
\* filed nothing, and the lean of the brokers.
IndexSnapshots ==
    {s \in [kind : {"index"}, up : 0..IndexSize, down : 0..IndexSize, flat : 0..1, mute : 0..1,
            lost : 0..IndexSize, lean : {Missing, -1, 0, 1}] :
        s.up + s.down + s.flat + s.mute + s.lost = IndexSize}
Filings(s) == s.up + s.down + s.flat + s.mute

NoSnapshot == [kind |-> "none"]

-----------------------------------------------------------------------------
(* Policy B.                                                               *)

LegsOf(part) == {LegOf(e) : e \in part.evidence}
WeightOf(w, hs) == MapThenSumSet(LAMBDA h : w[h], hs)

ForeignListings == {"HK", "US"}
ForeignHeavy(s) ==
    LET hs == DOMAIN s.parts
        abroad == {h \in hs : s.parts[h].listing \in ForeignListings}
    IN  WeightOf(s.weight, hs) > 0 /\ 2 * WeightOf(s.weight, abroad) >= WeightOf(s.weight, hs)

Quorum == (TopHoldings + 1) \div 2

\* A defect: the quorum is cut off at its last place, ties or no ties.
MaterialWithoutTies(s) ==
    LET hs == DOMAIN s.parts
    IN  {h \in hs : Cardinality({k \in hs : s.weight[k] >= s.weight[h]}) <= Quorum}

\* The upper half of TopHoldings by weight, and whatever ties with its last.
Material(s) ==
    LET hs == DOMAIN s.parts
        AtOrAbove(h) == Cardinality({k \in hs : s.weight[k] >= s.weight[h]})
        past   == {h \in hs : AtOrAbove(h) >= Quorum}
        cutoff == IF past = {} THEN 0 ELSE Max({s.weight[h] : h \in past})
    IN  {h \in hs : s.weight[h] >= cutoff}

\* The rule that fires first and the gap it leaves, "" when it publishes.
PolicyB(s) ==
    LET hs == DOMAIN s.parts
        Lacks(leg, group) == \E h \in group : leg \notin LegsOf(s.parts[h])
        Fires(rule, gap) == [rule |-> rule, gap |-> gap]
    IN  IF hs = {} /\ s.failed THEN Fires("1", "holdings_fetch_failed")
        ELSE IF hs = {} \/ \E h \in hs : s.parts[h].evidence = {} /\ s.parts[h].failures = {}
             THEN Fires("2", "incomplete_constituent_record")
        ELSE IF ForeignHeavy(s)
             THEN Fires("2.5", IF s.fund = BothLegs THEN ""
                               ELSE "foreign_heavy_fund_level_evidence_missing")
        ELSE IF Lacks("data", hs) THEN Fires("3", "incomplete_constituent_data")
        ELSE IF Lacks("information", Material(s))
             THEN Fires("4", "insufficient_info_coverage_top_half")
        ELSE IF \E h \in hs : s.parts[h].evidence = {}
             THEN Fires("5", "incomplete_constituent_coverage")
        ELSE Fires("", "")

-----------------------------------------------------------------------------
(* The thesis.                                                             *)

\* What a theme report may be: its classification, and whether three of its
\* citations, one of them trusted, back it.
ThemeReports == {"skipped", "search_empty", "llm_failed", "few", "untrusted", "backed"}
NewsGap(report) ==
    CASE report = "skipped"      -> {"news_stage_skipped"}
      [] report = "search_empty" -> {"news_search_empty"}
      [] report = "llm_failed"   -> {"news_llm_failed"}
      [] OTHER -> {}

ConstituentGap(s, class) ==
    IF class \in NonIndexable THEN {"constituent_not_applicable"}
    ELSE IF s.kind = "none" THEN {"constituent_missing"}
    ELSE IF Filings(s) = 0 THEN {"constituent_fetch_failed"}   \* each left a reason
    ELSE {}

\* _classify_state, in percent of the constituents that report their growth.
ClassifyState(up, down, all, lean) ==
    IF 10 * down >= 6 * all THEN "falsified"
    ELSE IF 10 * up >= 6 * all /\ 10 * down < 3 * all /\ lean >= 0 THEN "intact"
    ELSE IF 10 * down >= 3 * all \/ lean < 0 THEN "under_pressure"
    ELSE "evidence_insufficient"

BrokerGap(lean) == IF lean = Missing THEN {"missing_broker_coverage"} ELSE {}

\* A thesis: its state, its gaps and the legs cited within the instrument.
DeriveLegacy(s, report, class) ==
    LET usable  == s.kind = "index" /\ Filings(s) > 0
        grown   == s.up + s.down + s.flat
        gaps    == NewsGap(report) \cup ConstituentGap(s, class)
        missing == {"missing_constituent_snapshot"}
    IN  IF usable /\ grown > 0
        THEN [thesis |-> ClassifyState(s.up, s.down, grown, IF s.lean = Missing THEN 0 ELSE s.lean),
              gaps |-> gaps \cup BrokerGap(s.lean),
              cites |-> IF s.lean = Missing THEN {"data"} ELSE BothLegs]
        ELSE [thesis |-> IF report = "backed" THEN "intact" ELSE "evidence_insufficient",
              gaps |-> gaps \cup missing, cites |-> {}]

DualLegState(flattened, fund) ==
    IF flattened # {} /\ flattened \cup fund = BothLegs THEN "intact" ELSE "evidence_insufficient"

DeriveThesis(s, report, class) ==
    CASE s.kind = "fund level" ->
            [thesis |-> IF s.fund = BothLegs THEN "intact" ELSE "evidence_insufficient",
             gaps |-> (IF "data" \in s.fund THEN {} ELSE {"fund_nav_unavailable"}) \cup
                      (IF "information" \in s.fund THEN {} ELSE {"fund_announcements_unavailable"}),
             cites |-> s.fund]
      [] s.kind = "active" ->
            LET flattened == UNION {LegsOf(s.parts[h]) : h \in DOMAIN s.parts}
            IN  [thesis |-> DualLegState(flattened, s.fund), gaps |-> {}, cites |-> flattened]
      [] OTHER -> DeriveLegacy(s, report, class)

\* Neither snapshot nor report: the thesis table of the theme.
TableThesis(told, drift, class) ==
    [thesis |-> IF told = "intact" /\ drift THEN "under_pressure" ELSE told,
     gaps |-> {"missing_constituent_snapshot", "news_stage_skipped",
               IF class \in NonIndexable THEN "constituent_not_applicable"
               ELSE "constituent_missing"},
     cites |-> {}]

\* _stamp_fund_level_evidence_from_verdict.
StampFundLevel(s, verdict) == IF verdict.rule = "2.5" /\ verdict.gap = "" THEN s.fund ELSE {}

-----------------------------------------------------------------------------
(* The other three states.                                                 *)

Band(pct) ==
    IF pct < 20 THEN "cheap" ELSE IF pct < 40 THEN "reasonable_low"
    ELSE IF pct < 70 THEN "fair" ELSE IF pct < 90 THEN "expensive" ELSE "very_expensive"
BondBand(pct) ==
    IF pct >= 80 THEN "cheap" ELSE IF pct >= 60 THEN "reasonable_low"
    ELSE IF pct >= 30 THEN "fair" ELSE IF pct >= 10 THEN "expensive" ELSE "very_expensive"

ClassifyValuation(class, metals, nav, fundamental, upside, yield) ==
    LET pct    == IF Known(fundamental) THEN fundamental ELSE nav
        notch  == class \in EquityClasses /\ upside = "cheap"
        banded == IF Band(pct) = "reasonable_low" /\ notch THEN "cheap" ELSE Band(pct)
    IN  IF class = "cn_bond_fund"
        THEN IF Known(yield) THEN BondBand(yield) ELSE "evidence_insufficient"
        ELSE IF \/ class \in EquityClasses /\ metals /\ ~Known(fundamental)
                \/ ~Known(pct)
             THEN "evidence_insufficient"
        ELSE banded

Gains == [ret_1m |-> 500, ret_3m |-> 250, ret_6m |-> 150, ret_12m |-> 100,
          premium |-> 4000, flow |-> 500]
Clamp(x) == IF x > 100 THEN 100 ELSE IF x < -100 THEN -100 ELSE x
Given(f) == {i \in DOMAIN f : Known(f[i])}

ClassifyHeat(heat) ==
    LET n     == Cardinality(Given(heat))
        score == MapThenSumSet(LAMBDA i : Clamp((heat[i] * Gains[i]) \div 100), Given(heat))
    IN  IF n < 2 THEN "evidence_insufficient"
        ELSE IF score >= 55 * n THEN "overheated"
        ELSE IF score >= 30 * n THEN "crowded"
        ELSE IF score <= -10 * n THEN "cold"
        ELSE "normal"

\* An active fund is graded on its manager's tenure too, and needs a stable
\* size to be strong.
ClassifyProduct(active, tenure, steady, parts) ==
    LET n     == Cardinality(Given(parts))
        score == MapThenSumSet(LAMBDA i : parts[i], Given(parts))
    IN  IF active
        THEN IF ~Known(tenure) THEN "evidence_insufficient"
             ELSE IF tenure < 2 \/ n < 2 THEN "weak"
             ELSE IF score >= 50 * n /\ tenure >= 5 /\ steady THEN "strong"
             ELSE IF score >= 0 THEN "acceptable" ELSE "weak"
        ELSE IF n < 2 THEN "evidence_insufficient"
             ELSE IF score >= 55 * n THEN "strong"
             ELSE IF score >= 10 * n THEN "acceptable"
             ELSE IF score >= -30 * n THEN "weak" ELSE "poor"

-----------------------------------------------------------------------------
(* The state of the fund, and what it advises.                             *)

Cheap      == {"cheap", "reasonable_low"}
Expensive  == {"expensive", "very_expensive"}
Hot        == {"crowded", "overheated"}

\* A defect: consensus that calls the fund rich does not bar buying it.
ComposeBlind(v, h, t, q, upside) ==
    IF t = "falsified" \/ q = "poor" THEN "exclude"
    ELSE IF /\ v \in Cheap /\ h \in {"cold", "normal"} /\ t = "intact"
            /\ q \in {"acceptable", "strong"}
         THEN "core_dca"
    ELSE IF v \in Expensive \/ h \in Hot THEN "pause_wait" ELSE "small_watch"

ComposeOpportunityState(v, h, t, q, upside) ==
    IF t = "falsified" \/ q = "poor" THEN "exclude"
    ELSE IF /\ v \in Cheap /\ h \in {"cold", "normal"} /\ t = "intact"
            /\ q \in {"acceptable", "strong"} /\ upside # "rich"
         THEN "core_dca"
    ELSE IF v \in Expensive \/ h \in Hot THEN "pause_wait" ELSE "small_watch"

\* derive_contributing_dimensions.
Dimensions(v, h, t, q, state) ==
    IF state = "exclude" THEN (IF t = "falsified" THEN {"thesis"} ELSE {}) \cup
                              (IF q = "poor" THEN {"product_quality"} ELSE {})
    ELSE IF state = "core_dca" THEN {"valuation", "heat", "thesis", "product_quality"}
    ELSE IF state = "pause_wait" THEN (IF v \in Expensive THEN {"valuation"} ELSE {}) \cup
                                      (IF h \in Hot THEN {"heat"} ELSE {})
    ELSE IF q = "weak" THEN {"product_quality"}
    ELSE IF t = "evidence_insufficient" THEN {"thesis"}
    ELSE IF v = "evidence_insufficient" THEN {"valuation"}
    ELSE IF h = "evidence_insufficient" THEN {"heat"}
    ELSE {}

DcaAction(r) ==
    IF r.state = "exclude" THEN "do_not_buy"
    ELSE IF r.thesis \in {"under_pressure", "falsified"} \/ r.state = "pause_wait" THEN "pause_dca"
    ELSE IF r.state = "small_watch" THEN "slow_dca"
    ELSE IF r.valuation = "cheap" /\ r.heat = "cold" /\ r.thesis = "intact" /\ r.product = "strong"
         THEN "accelerate_dca"
    ELSE "normal_dca"

\* A position: held or not, over its band or not, fallen by a fifth or not.
CasePositions == [held : BOOLEAN, over : BOOLEAN, fallen : BOOLEAN]
RiskAction(r, pos) ==
    IF r.thesis = "falsified" \/ r.product = "poor" THEN "exit_review"
    ELSE IF (pos.over \/ pos.held) /\ (r.valuation \in Expensive \/ r.heat \in Hot)
         THEN "trim_review"
    ELSE IF pos.fallen \/ r.thesis = "under_pressure" THEN "review_required"
    ELSE "none"

\* demote_unstable_active, once a passive fund of the theme is as good.
DemoteActive(class, r, rival) ==
    IF class = "cn_equity_fund" /\ rival /\ r.state # "exclude"
    THEN [r EXCEPT !.state = "small_watch", !.demoted = TRUE] ELSE r

-----------------------------------------------------------------------------
(* The run, one fund of it.                                                *)

Blocking(gaps) == gaps \ {"constituent_not_applicable"}    \* the blocking ones

\* The codes _classify_rejection_reason knows.
KnownCodes ==
    {"holdings_fetch_failed", "incomplete_constituent_record", "incomplete_constituent_data",
     "insufficient_info_coverage_top_half", "incomplete_constituent_coverage",
     "fund_nav_unavailable", "fund_announcements_unavailable", "missing_valuation_data",
     "missing_flow_or_return_data", "missing_product_metadata", "news_stage_skipped",
     "news_search_empty", "news_llm_failed", "missing_constituent_snapshot",
     "constituent_missing", "missing_broker_coverage", "missing_us_news_adapter",
     "qdii_information_unavailable", "citation_gate_blocked",
     "foreign_heavy_fund_level_evidence_missing"}

NoRow == [thesis |-> "", gaps |-> {}, cites |-> {}, hollow |-> FALSE,
          valuation |-> "", upside |-> "", heat |-> "", product |-> "", state |-> "",
          demoted |-> FALSE]

CaseInit ==
    \E class \in Classes, autobuild \in BOOLEAN, mapped \in BOOLEAN :
        /\ class # "cn_etf" => mapped       \* map_lookthrough names the others
        /\ dossier = [at |-> "start", class |-> class, autobuild |-> autobuild,
                      mapped |-> mapped, snap |-> NoSnapshot, row |-> NoRow, dims |-> {},
                      advice |-> {}, files |-> {}]

InCase(place) == dossier.at = place
ServeCase(place, s) == dossier' = [dossier EXCEPT !.at = place, !.snap = s]

\* build_snapshot and the dispatch of _build_rows: by kind when snapshots are
\* built, else by display name from what `irc fundamentals snapshot` kept.
ServeActive ==
    /\ InCase("start") /\ dossier.autobuild /\ dossier.class = "cn_equity_fund"
    /\ \E hs \in SUBSET TopSlots, w \in WeightTables, legs \in SUBSET BothLegs :
         \E listing \in [hs -> {"CN", "HK", "US"}], answered \in [hs -> SUBSET Feeds] :
            ServeCase("served", ActiveSnapshot(hs, w, listing, answered, legs))

ServeFundLevel ==
    /\ InCase("start") /\ dossier.autobuild /\ dossier.class # "cn_equity_fund" /\ dossier.mapped
    /\ \E legs \in SUBSET BothLegs : ServeCase("served", FundLevelSnapshot(legs))

ServeKept ==
    /\ InCase("start") /\ (dossier.autobuild => ~dossier.mapped)
    /\ \E s \in {NoSnapshot} \cup
              IF dossier.mapped /\ dossier.class \in {"cn_etf", "qdii_global"}
              THEN IndexSnapshots ELSE {} :
         ServeCase("served", s)

Thesis(t, hollow) ==
    dossier' = [dossier EXCEPT !.at = "thesis", !.snap = NoSnapshot,
                !.row = [@ EXCEPT !.thesis = t.thesis, !.gaps = t.gaps, !.cites = t.cites,
                                  !.hollow = hollow]]

\* find_incomplete_constituent_analyses: a holding with nothing but failures,
\* on a row that rule 2.5 has not published all the same.
Hollow(s, v) ==
    (\E h \in DOMAIN s.parts : s.parts[h].evidence = {}) /\ ~(v.rule = "2.5" /\ v.gap = "")

\* find_uncited_opportunity_rows, under the mode of the gate.
Uncited(r, mode) == r.cites # BothLegs /\ mode = "block"

\* The thesis, the verdict of Policy B and what it stamps on the row.
DeriveRow ==
    /\ InCase("served")
    /\ \E report \in ThemeReports, told \in {"intact", "under_pressure", "falsified",
                                             "evidence_insufficient"}, drift \in BOOLEAN :
         LET s == dossier.snap
             v == PolicyB(s)
             t == IF s.kind = "none" /\ report = "skipped"
                  THEN TableThesis(told, drift, dossier.class)
                  ELSE DeriveThesis(s, report, dossier.class)
         IN  IF s.kind # "active" THEN Thesis(t, FALSE)
             ELSE Thesis([t EXCEPT !.gaps = @ \cup ({v.gap} \ {""}),
                                   !.cites = @ \cup StampFundLevel(s, v)], Hollow(s, v))

GapIf(bad, code) == IF bad THEN {code} ELSE {}
FillRow(place, row) == dossier' = [dossier EXCEPT !.at = place, !.row = row]

Value ==
    /\ InCase("thesis")
    /\ \E nav, fundamental, yield \in Percentiles \cup {Missing}, metals \in BOOLEAN,
          upside \in {"none", "cheap", "neutral", "rich"} :
         FillRow("valued", [dossier.row EXCEPT
            !.valuation = ClassifyValuation(dossier.class, metals, nav, fundamental, upside, yield),
            !.upside = IF upside = "rich" THEN "rich" ELSE "none",
            !.gaps = @ \cup GapIf(~Known(nav) /\ ~Known(fundamental), "missing_valuation_data")])

Warm ==
    /\ InCase("valued")
    /\ \E heat \in [HeatInputs -> Returns \cup {Missing}] :
         FillRow("warmed", [dossier.row EXCEPT !.heat = ClassifyHeat(heat),
            !.gaps = @ \cup GapIf(Cardinality(Given(heat)) < 2, "missing_flow_or_return_data")])

\* A fund listed on the exchange is graded as a passive one, whatever its class.
Grade ==
    /\ InCase("warmed")
    /\ \E active \in {FALSE, dossier.class = "cn_equity_fund"} :
       \E parts \in [{"cost", "size", "error"} -> Scores \cup {Missing}],
          tenure \in IF active THEN {Missing, 1, 2, 5} ELSE {Missing}, steady \in {FALSE, active} :
         FillRow("graded", [dossier.row EXCEPT
            !.product = ClassifyProduct(active, tenure, steady, parts),
            !.gaps = @ \cup GapIf(~Known(parts["cost"]) /\ ~Known(parts["size"]),
                                  "missing_product_metadata")])

Compose ==
    /\ InCase("graded")
    /\ LET r == dossier.row
           state == ComposeOpportunityState(r.valuation, r.heat, r.thesis, r.product, r.upside)
       IN  dossier' = [dossier EXCEPT !.at = "composed", !.row.state = state,
                       !.dims = Dimensions(r.valuation, r.heat, r.thesis, r.product, state)]

Reduce ==
    /\ InCase("composed")
    /\ \E rival \in BOOLEAN :
         FillRow("kept", DemoteActive(dossier.class, dossier.row, rival))

CaseFiles == {"report", "cards", "rejections", "discipline"}
EndCase(place, files, advice) ==
    dossier' = [dossier EXCEPT !.at = place, !.files = files, !.advice = advice]

\* _write_opportunity_outputs: a row with a gap goes to the rejections, one
\* without passes the citation gate or aborts the run before anything is
\* written.  The report and the cards are written before a rejection is named.
WriteOutputs ==
    /\ InCase("kept")
    /\ \E pos \in CasePositions, mode \in {"block", "warn", "off"} :
         LET r == dossier.row
             gaps == Blocking(r.gaps)
         IN  IF gaps = {}
             THEN IF r.hollow \/ Uncited(r, mode)
                  THEN EndCase("aborted", {}, {})
                  ELSE EndCase("published", CaseFiles,
                            {[dca |-> DcaAction(r), risk |-> RiskAction(r, pos),
                              card |-> pos.held \/ r.state \in {"core_dca", "small_watch"}]})
             ELSE IF gaps \subseteq KnownCodes THEN EndCase("rejected", CaseFiles, {})
             ELSE EndCase("aborted", {"report", "cards"}, {})

CaseNext ==
    \/ ServeActive \/ ServeFundLevel \/ ServeKept \/ DeriveRow \/ Value \/ Warm
    \/ Grade \/ Compose \/ Reduce \/ WriteOutputs
CaseSpec == CaseInit /\ [][CaseNext]_caseVars

-----------------------------------------------------------------------------
CaseStates     == {"", "core_dca", "small_watch", "pause_wait", "exclude"}
CaseTypeOK ==
    /\ dossier.at \in {"start", "served", "thesis", "valued", "warmed", "graded", "composed",
                       "kept", "published", "rejected", "aborted"}
    /\ dossier.class \in Classes /\ dossier.row.state \in CaseStates
    /\ dossier.row.cites \subseteq BothLegs /\ dossier.files \subseteq CaseFiles
    /\ dossier.dims \subseteq {"valuation", "heat", "thesis", "product_quality"}

\* What Policy B is for, said without its order of rules: half the weight of
\* the fund abroad and both legs of the fund itself, or a filing of every
\* holding and a voice on each that fewer than a quorum outweigh.
Sufficient(s) ==
    LET hs == DOMAIN s.parts
        Outweighed(h) == Cardinality({k \in hs : s.weight[k] > s.weight[h]})
    IN  /\ hs # {}
        /\ IF ForeignHeavy(s) THEN s.fund = BothLegs
           ELSE \A h \in hs : /\ "filing" \in s.parts[h].evidence
                              /\ Outweighed(h) < Quorum =>
                                    s.parts[h].evidence \cap {"broker", "news"} # {}
PolicyBMeansSufficient ==
    InCase("served") /\ dossier.snap.kind = "active" =>
        (PolicyB(dossier.snap).gap = "" <=> Sufficient(dossier.snap))

\* What is published cites both legs whatever the mode of the gate, has no
\* hollow holding and no gap; so the gate itself never has to stop a run.
PublishedIsCited ==
    /\ InCase("published") => /\ dossier.row.cites = BothLegs /\ ~dossier.row.hollow
                          /\ Blocking(dossier.row.gaps) = {}
    /\ InCase("aborted") => "constituent_fetch_failed" \in dossier.row.gaps

\* From the snapshot builder to the gate: Policy B lets through just what has
\* the evidence, and nothing it let through is stopped or goes out uncited.
EvidenceCarriesThrough == PolicyBMeansSufficient /\ PublishedIsCited

\* The advice on a published fund hangs together: it is bought at pace only if
\* it is cheap by every measure, quiet and whole, nothing is added to what is up
\* for trimming or exit (a demoted fund apart), and a state other than a watch
\* names what brought it about.
AdviceHangsTogether ==
    InCase("published") => \A a \in dossier.advice :
        LET r == dossier.row
        IN  /\ a.dca \in {"normal_dca", "accelerate_dca"} =>
                  /\ a.risk \in {"none", "review_required"} /\ ~r.demoted
                  /\ r.thesis = "intact" /\ r.valuation \in Cheap /\ r.upside # "rich"
            /\ a.risk = "exit_review" => a.dca = "do_not_buy" /\ dossier.dims # {}
            /\ a.risk = "trim_review" /\ ~r.demoted => a.dca = "pause_dca" /\ dossier.dims # {}

\* "Gapped rows surface ONLY in `rejections.json` and the ... section of
\* `discipline_report.md`" (opportunity_cmd.py:1253).
GappedRowsSurface ==
    InCase("published") \/ InCase("rejected") \/ InCase("aborted") =>
        (Blocking(dossier.row.gaps) # {} => {"rejections", "discipline"} \subseteq dossier.files)
=============================================================================
