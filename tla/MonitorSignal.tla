----------------------------- MODULE MonitorSignal -----------------------------
(***************************************************************************)
(* One fund's reading in `irc monitor`: the NAV fetch, the two questions   *)
(* put to the language model, the metrics of the holdings, the six factor  *)
(* scores, the signal, and the gate that decides what is published.        *)
(*                                                                         *)
(* Scores, confidences, weights and flows are hundredths, and a quotient   *)
(* is rounded down to one.  Each step is one call that may fail.           *)
(***************************************************************************)
EXTENDS Integers, FiniteSets, Sequences, SequencesExt, FiniteSetsExt, Functions

CONSTANTS
    MonitorSet,     \* the funds: [profile, override, buy, sell, confidence, themes,
                    \*  pool, views, top, index, catalog]
    NavSeries,      \* what the NAV source may hold: [obs, trend, age, calendar,
                    \*  missed, gap]
    ThemeAnswers,   \* what the model may answer about themes: sequences of rows
    HoldingAnswers, \* and about holdings; a row is [key, impact, confidence, sound]
    KeyMeans,       \* key -> the holding it refers to
    Baskets,        \* holding -> [weight, self, rich, flow]
    MinObs,         \* history.minimum_observations
    NavStaleDays,   \* _NAV_STALE_DAYS
    SuiteReports    \* what a suite of the evaluation last reported: [overall, age]

Profiles == {"gold", "qdii_global", "active_cn_equity", "qdii_china_us_internet"}

\* The factors a profile weighs, and what they weigh unless the fund says otherwise.
Weights(profile) ==
    CASE profile = "gold" -> [trend |-> 45, macro_tilt |-> 35, heat |-> 20]
      [] profile = "qdii_global" ->
            [trend |-> 35, macro_tilt |-> 35, heat |-> 15, constituent |-> 15]
      [] profile = "active_cn_equity" ->
            [trend |-> 25, valuation |-> 20, flow |-> 15, heat |-> 10,
             macro_tilt |-> 15, constituent |-> 15]
      [] profile = "qdii_china_us_internet" ->
            [trend |-> 30, valuation |-> 20, heat |-> 15, macro_tilt |-> 20,
             constituent |-> 15]

Total(w, among) == SumFunctionOnSet(w, among)

\* The profile's weights under the fund's own.
EffectiveWeights(f) ==
    [factor \in DOMAIN Weights(f.profile) |->
        IF factor \in DOMAIN f.override THEN f.override[factor]
        ELSE Weights(f.profile)[factor]]

\* What monitor.yaml may say of a fund; with anything else it does not load.
IsMonitorFund(f) ==
    /\ f.profile \in Profiles /\ f.confidence \in 0 .. 100
    /\ DOMAIN f.override \subseteq DOMAIN Weights(f.profile)
    /\ \A factor \in DOMAIN f.override : f.override[factor] \in Nat
    /\ Total(EffectiveWeights(f), DOMAIN Weights(f.profile)) = 100
    /\ f.buy \in -100 .. 100 /\ f.sell \in -100 .. 100 /\ f.sell < f.buy
    /\ f.pool \in BOOLEAN /\ f.catalog \in BOOLEAN /\ f.index \in Int

\* Of the last observations of a NAV: the trading days in the widest gap between
\* two of them, whether or not there was a calendar to count them by, and the
\* days it spans.
IsNav(nav) ==
    /\ nav \in [obs : Nat, trend : Int, age : Int, calendar : BOOLEAN, missed : Nat, gap : Nat]
    /\ nav.missed > 0 => nav.missed < nav.gap

LooksThrough(profile) == profile = "active_cn_equity"

\* A row that passed the validation is in range (impact_validate.py); of the
\* others nothing is known.
AreImpactRows(rows) ==
    /\ rows \in Seq(Range(rows))
    /\ \A row \in Range(rows) :
           row.sound => row.impact \in -100 .. 100 /\ row.confidence \in 0 .. 100
\* What was fetched of the holdings has a row for each of them.
IsBasket(basket, top) ==
    /\ top \in Seq(DOMAIN basket)
    /\ \A h \in DOMAIN basket :
           /\ basket[h].weight \in Nat
           /\ basket[h].self \in Int /\ basket[h].rich \in Int /\ basket[h].flow \in Int

ASSUME SignalAssumption ==
    /\ MinObs \in Nat \ {0} /\ NavStaleDays \in Nat
    /\ \A f \in MonitorSet : IsMonitorFund(f)
    /\ \A f \in MonitorSet, basket \in Baskets :
           LooksThrough(f.profile) => IsBasket(basket, f.top)
    /\ \A rows \in ThemeAnswers \cup HoldingAnswers : AreImpactRows(rows)
    /\ \A nav \in NavSeries : IsNav(nav)
    /\ SuiteReports \subseteq
          [overall : {"PASS", "WARN", "FAIL", "SKIPPED", "absent"}, age : Int]

Absent == -999                  \* the value of a number nobody has
Unanchored == 999               \* a tracked index without a cached percentile
Raised == <<"raised">>          \* the call raised, or answered nothing
MinFamilies == 2
MinAvailableWeight == 60
SchemaRetries == 2
FlowFloor == 50                 \* of the weight of the five largest holdings
ValuationFloor == 40            \* of the NAV
FlowTopN == 5
FalseCheapRichness == 120
StaleEvalDays == 14
MissingTradingWarn == 2
WarnGapDays == 8

Suites == {"monitor_impact", "monitor_narrative"}
Biases == {"ADD_BIAS", "REDUCE_BIAS", "NEUTRAL"}

Family(factor) ==
    CASE factor = "trend" -> "price-momentum"
      [] factor = "valuation" -> "valuation"
      [] factor = "heat" -> "crowding"
      [] factor = "flow" -> "capital-flow"
      [] OTHER -> "news"

VARIABLES
    reading,   \* the fund being read and what is known of it so far
    suites,    \* suite -> its latest report
    asked,     \* the model calls that were billed
    outcome    \* the scores, the signal and what was published

signalVars == <<reading, suites, asked, outcome>>

NoScores == [f \in {} |-> 0]
NoOutcome == [scores |-> NoScores, status |-> "none", bias |-> "none", badge |-> "none",
              published |-> "none"]
NoNav == [obs |-> 0, trend |-> 0, age |-> 0, calendar |-> TRUE, missed |-> 0, gap |-> 0]
NoBasket == [h \in {} |-> 0]

SignalInit ==
    /\ \E f \in MonitorSet :
          reading = [at |-> "nav", fund |-> f, nav |-> NoNav, macro |-> <<>>,
                     holdings |-> <<>>, tries |-> 0, basket |-> NoBasket,
                     purchase |-> "unlisted"]
    /\ suites \in [Suites -> SuiteReports]
    /\ asked = 0
    /\ outcome = NoOutcome
-----------------------------------------------------------------------------
(* From what was fetched to the factor scores.                             *)

Mean(w, v, among) == Total([i \in among |-> w[i] * v[i]], among) \div Total(w, among)

\* A factor's score, or that it is not available.
Available(value, confidence) == [present |-> TRUE, value |-> value, confidence |-> confidence]
NotAvailable == [present |-> FALSE, value |-> 0, confidence |-> 0]

\* Richer than its industry by the threshold: withheld, and the worst band.
IndustryBand(rich) ==
    CASE rich <= 70 -> 100
      [] rich > 70 /\ rich <= 90 -> 50
      [] rich > 90 /\ rich <= 110 -> 0
      [] rich > 110 /\ rich < FalseCheapRichness -> -50
      [] rich >= FalseCheapRichness -> -100

DualTrack(self, rich) ==
    CASE self = Absent -> Absent
      [] self # Absent /\ rich = Absent -> self
      [] self # Absent /\ rich # Absent ->
            IF self > 0 /\ rich >= FalseCheapRichness THEN 0
            ELSE (60 * self + 40 * IndustryBand(rich)) \div 100

FlowBand(pct) ==
    CASE pct >= 300 -> 100
      [] pct >= 100 /\ pct < 300 -> 50
      [] pct > -100 /\ pct < 100 -> 0
      [] pct > -300 /\ pct <= -100 -> -50
      [] pct <= -300 -> -100

TopFive(r) == SubSeq(r.fund.top, 1, Min({FlowTopN, Len(r.fund.top)}))

\* What the holdings board has of each holding: the flow of the five largest
\* only, and no valuation without the catalog.
BoardRows(r) ==
    LET top == ToSet(TopFive(r))
    IN  [h \in ToSet(r.fund.top) \cap DOMAIN r.basket |->
           [weight |-> r.basket[h].weight,
            val    |-> IF r.fund.catalog
                       THEN DualTrack(r.basket[h].self, r.basket[h].rich) ELSE Absent,
            flow   |-> IF h \in top /\ r.basket[h].flow # Absent
                       THEN FlowBand(r.basket[h].flow) ELSE Absent]]

WeightsOf(rows) == [h \in DOMAIN rows |-> rows[h].weight]

AggregateValuation(rows) ==
    LET covered == {h \in DOMAIN rows : rows[h].val # Absent}
        w       == WeightsOf(rows)
    IN  IF Total(w, covered) = 0 \/ Total(w, covered) < ValuationFloor THEN NotAvailable
        ELSE Available(Mean(w, [h \in covered |-> rows[h].val], covered), 100)

AggregateFlow(r, rows) ==
    LET top     == ToSet(TopFive(r)) \cap DOMAIN rows
        covered == {h \in top : rows[h].flow # Absent}
        w       == WeightsOf(rows)
    IN  IF Total(w, covered) = 0 \/ 100 * Total(w, covered) < FlowFloor * Total(w, top)
        THEN NotAvailable
        ELSE Available(Mean(w, [h \in covered |-> rows[h].flow], covered), 100)

\* A tracked index answers for the valuation, whatever the holdings say.
Valuation(r, rows) ==
    IF r.fund.catalog /\ r.fund.index # Absent
    THEN IF r.fund.index = Unanchored THEN NotAvailable
         ELSE Available(r.fund.index, 100)
    ELSE IF DOMAIN rows = {} THEN NotAvailable ELSE AggregateValuation(rows)

Trend(nav) ==
    IF nav.obs < MinObs THEN NotAvailable ELSE Available(nav.trend, 100)

\* The only live leg of the crowding index is the purchase limit.
Heat(purchase) ==
    CASE purchase = "unlisted" -> NotAvailable
      [] purchase = "limited" -> Available(-50, 100)
      [] purchase = "open" -> Available(30, 100)

NewsFactor(rows, w) ==
    LET all == DOMAIN rows
    IN  IF Total(w, all) <= 0 THEN NotAvailable
        ELSE Available(
               Total([i \in all |-> w[i] * rows[i].impact * rows[i].confidence], all)
                   \div (100 * Total(w, all)),
               Mean(w, [i \in all |-> rows[i].confidence], all))

\* Rows on themes that are not the fund's are dropped; two themes at least.
MacroTilt(r) ==
    LET kept == {i \in DOMAIN r.macro : r.macro[i].key \in r.fund.themes}
    IN  IF Cardinality({r.macro[i].key : i \in kept}) < 2 THEN NotAvailable
        ELSE NewsFactor(Restrict(r.macro, kept), [i \in kept |-> 1])

\* A key names a holding by its code or by its name.
MatchesHolding(key, h) == key \in DOMAIN KeyMeans /\ KeyMeans[key] = h

\* One row per holding: the first of those the model is most confident of.
SelectByHolding(rows, top) ==
    LET of(h) == {i \in DOMAIN rows : MatchesHolding(rows[i].key, h)}
    IN  [h \in {g \in ToSet(top) : of(g) # {}} |->
           rows[Min({i \in of(h) :
                       \A j \in of(h) : rows[j].confidence <= rows[i].confidence})]]

Constituent(r, board) ==
    LET rows == SelectByHolding(r.holdings, TopFive(r))
    IN  IF DOMAIN rows = {} THEN NotAvailable
        ELSE NewsFactor(rows, WeightsOf(board))

FactorScores(r) ==
    LET board == BoardRows(r)
    IN  [trend |-> Trend(r.nav), valuation |-> Valuation(r, board), heat |-> Heat(r.purchase),
         macro_tilt |-> MacroTilt(r), constituent |-> Constituent(r, board),
         flow |-> AggregateFlow(r, board)]

\* The factors of the profile that are available, with their scores.
BuildFactorScores(r) ==
    LET all == FactorScores(r)
    IN  [f \in {g \in DOMAIN Weights(r.fund.profile) : all[g].present} |-> all[f]]
-----------------------------------------------------------------------------
(* From the factor scores to the signal, and to what is published.         *)

AvailableWeight(w, scores) == Total(w, DOMAIN scores)
Weighted(w, scores) == Total([f \in DOMAIN scores |-> w[f] * scores[f].value], DOMAIN scores)

\* The composite is Weighted / AvailableWeight, compared with the fund's bands.
Bias(f, w, scores) ==
    CASE Weighted(w, scores) >= f.buy * AvailableWeight(w, scores) -> "ADD_BIAS"
      [] Weighted(w, scores) <= f.sell * AvailableWeight(w, scores) -> "REDUCE_BIAS"
      [] OTHER -> "NEUTRAL"

EnoughWithoutFloor(w, scores) ==
    /\ "trend" \in DOMAIN scores
    /\ Cardinality({Family(f) : f \in DOMAIN scores}) >= MinFamilies

EnoughEvidence(w, scores) ==
    /\ "trend" \in DOMAIN scores
    /\ Cardinality({Family(f) : f \in DOMAIN scores}) >= MinFamilies
    /\ AvailableWeight(w, scores) >= MinAvailableWeight

ComputeSignal(fund, scores) ==
    LET w == EffectiveWeights(fund)
        confidence == Total([f \in DOMAIN scores |-> w[f] * scores[f].confidence], DOMAIN scores)
    IN  CASE ~EnoughEvidence(w, scores) ->
                [status |-> "insufficient_evidence", bias |-> "none"]
          [] EnoughEvidence(w, scores)
                /\ confidence < fund.confidence * AvailableWeight(w, scores) ->
                [status |-> "low_confidence", bias |-> "none"]
          [] OTHER -> [status |-> "ok", bias |-> Bias(fund, w, scores)]

\* Without a calendar the days are all there is to judge a gap by.
HasGap(nav) ==
    IF nav.calendar THEN nav.missed >= MissingTradingWarn ELSE nav.gap > WarnGapDays

NavQuality(nav) ==
    CASE nav.obs < MinObs \/ nav.age > NavStaleDays -> "FAIL"
      [] nav.obs >= MinObs /\ nav.age <= NavStaleDays ->
            IF HasGap(nav) THEN "WARN" ELSE "PASS"

CitationIntegrity(r) ==
    IF \A row \in ToSet(r.macro) \cup ToSet(r.holdings) : row.sound THEN "PASS" ELSE "FAIL"

\* A suite that did not report, was skipped, or reported long ago is UNKNOWN.
ResolveHealth(report) ==
    IF report.overall \in {"absent", "SKIPPED"} \/ report.age > StaleEvalDays
    THEN "UNKNOWN" ELSE report.overall

ApplyEvalGate(r) ==
    LET health == {NavQuality(r.nav), CitationIntegrity(r)}
                    \cup {ResolveHealth(suites[s]) : s \in Suites}
    IN  CASE "FAIL" \in health -> "gated"
          [] "FAIL" \notin health /\ health \cap {"WARN", "UNKNOWN"} # {} -> "caveated"
          [] OTHER -> "validated"

PublishedState(signal, badge) ==
    CASE signal.status # "ok" -> "NO_CALL"
      [] signal.status = "ok" /\ badge = "gated" -> "EVAL_GATED"
      [] signal.status = "ok" /\ badge # "gated" -> signal.bias
-----------------------------------------------------------------------------
(* The steps of a reading.                                                 *)

Move(to) == reading' = [to EXCEPT !.tries = 0]

FetchNav ==
    /\ reading.at = "nav"
    /\ \E nav \in NavSeries \cup {NoNav} :
          Move([reading EXCEPT !.at = "macro", !.nav = nav])
    /\ UNCHANGED <<suites, asked, outcome>>

\* One of the model's answers: every row is sound or none is taken, and it is
\* asked again at most SchemaRetries times.  An error ends the asking.
ValidateImpacts(rows) == \A row \in ToSet(rows) : row.sound

Gather(field, next, answers) ==
    \/ \* the call raises, or nothing comes back: nothing is billed
       Move([reading EXCEPT !.at = next]) /\ UNCHANGED asked
    \/ \E answer \in answers :
          /\ asked' = asked + 1
          /\ \/ /\ ValidateImpacts(answer)
                /\ Move([reading EXCEPT !.at = next, ![field] = answer])
             \/ /\ ~ValidateImpacts(answer) /\ reading.tries < SchemaRetries
                /\ reading' = [reading EXCEPT !.tries = @ + 1]
             \/ /\ ~ValidateImpacts(answer) /\ reading.tries = SchemaRetries
                /\ Move([reading EXCEPT !.at = next])
             \/ \* rows that are no objects, or none: nobody catches it, and
                \* the run ends without a brief
                Move([reading EXCEPT !.at = "died"])

AskThemes ==
    /\ reading.at = "macro"
    /\ \/ ~reading.fund.pool /\ Move([reading EXCEPT !.at = "holdings"]) /\ UNCHANGED asked
       \/ reading.fund.pool /\ Gather("macro", "holdings", ThemeAnswers)
    /\ UNCHANGED <<suites, outcome>>

AskHoldings ==
    /\ reading.at = "holdings"
    /\ LET asks == /\ LooksThrough(reading.fund.profile)
                   /\ reading.fund.views /\ reading.fund.top # <<>>
       IN  \/ ~asks /\ Move([reading EXCEPT !.at = "measure"]) /\ UNCHANGED asked
           \/ asks /\ Gather("holdings", "measure", HoldingAnswers)
    /\ UNCHANGED <<suites, outcome>>

MeasureHoldings ==
    /\ reading.at = "measure"
    /\ \E basket \in (IF LooksThrough(reading.fund.profile) /\ reading.fund.top # <<>>
                      THEN Baskets ELSE {NoBasket}), purchase \in {"limited", "open", "unlisted"} :
          reading' = [reading EXCEPT !.at = "score", !.basket = basket,
                                     !.purchase = purchase]
    /\ UNCHANGED <<suites, asked, outcome>>

Judge ==
    /\ reading.at = "score"
    /\ LET scores == BuildFactorScores(reading)
           signal == ComputeSignal(reading.fund, scores)
           badge  == ApplyEvalGate(reading)
       IN  outcome' = [scores |-> scores, status |-> signal.status, bias |-> signal.bias,
                       badge |-> badge, published |-> PublishedState(signal, badge)]
    /\ reading' = [reading EXCEPT !.at = "done"]
    /\ UNCHANGED <<suites, asked>>

SignalNext == FetchNav \/ AskThemes \/ AskHoldings \/ MeasureHoldings \/ Judge

SignalSpec == SignalInit /\ [][SignalNext]_signalVars
-----------------------------------------------------------------------------
(* Properties                                                              *)

SignalTypeOK ==
    /\ reading.at \in {"nav", "macro", "holdings", "measure", "score", "done", "died"}
    /\ reading.fund \in MonitorSet /\ reading.tries \in 0 .. SchemaRetries
    /\ asked \in 0 .. 2 * (SchemaRetries + 1)
    /\ outcome.published \in Biases \cup {"NO_CALL", "EVAL_GATED", "none"}

\* Weights are renormalised over the factors that are available, so a factor
\* lost to an outage shifts the composite.  It does not turn it round: had the
\* missing factors been there, and as contrary as they can be, an ADD_BIAS would
\* not have been a REDUCE_BIAS, nor the reverse, whatever the fund's own weights
\* (signal.py:84, the floor on the available weight).  That holds for bands as far
\* apart as the floor asks: the shipped 40 and -40 are, and resolve.py:30 takes
\* bands from monitor.yaml that are not.
MissingCannotReverse ==
    LET f       == reading.fund
        w       == EffectiveWeights(f)
        missing == Total(w, DOMAIN w \ DOMAIN outcome.scores)
        lost    == 100 - MinAvailableWeight
    IN  /\ /\ outcome.published = "ADD_BIAS"
           /\ MinAvailableWeight * f.buy - 100 * lost > 100 * f.sell
           => Weighted(w, outcome.scores) - 100 * missing > f.sell * 100
        /\ /\ outcome.published = "REDUCE_BIAS"
           /\ MinAvailableWeight * f.sell + 100 * lost < 100 * f.buy
           => Weighted(w, outcome.scores) + 100 * missing < f.buy * 100

\* A bias is published only on a NAV that is long and recent enough, on rows of
\* the model that are all sound, and while no suite freshly fails (gate.py:36).
\* It carries the validated badge only when both suites freshly pass and no two
\* trading days in a row are missing; without a trade calendar it may carry it
\* over as many as fit in a gap that is not warned of, which is seven
\* (structural.py:103).
BiasIsBacked ==
    outcome.published \in Biases =>
        /\ reading.nav.obs >= MinObs /\ reading.nav.age <= NavStaleDays
        /\ \A row \in ToSet(reading.macro) \cup ToSet(reading.holdings) : row.sound
        /\ \A s \in Suites : suites[s].overall = "FAIL" => suites[s].age > StaleEvalDays
        /\ outcome.badge = "validated" =>
              /\ reading.nav.missed <
                    (IF reading.nav.calendar THEN MissingTradingWarn ELSE WarnGapDays)
              /\ \A s \in Suites : suites[s].overall = "PASS" /\ suites[s].age <= StaleEvalDays

\* A bias is backed, and a missing factor could not have turned it round.
CallIsEarned == BiasIsBacked /\ MissingCannotReverse

\* A basket of stocks that all cost 1.2 times their industry or more is not
\* called cheap, however low each stands in its own history: its valuation adds
\* nothing to the composite while it still counts as covered (_dual_track.py:65).
\* And what the holdings board shows adds up to the factor published beside it,
\* unless a tracked index answered instead (structural.py:143, 209).
BasketIsNotFlattered ==
    reading.at = "done" =>
        LET board  == BoardRows(reading)
            w      == WeightsOf(board)
            priced == {h \in DOMAIN board : board[h].val # Absent}
            flows  == {h \in DOMAIN board : board[h].flow # Absent}
            valued == /\ "valuation" \in DOMAIN outcome.scores
                      /\ ~(reading.fund.catalog /\ reading.fund.index # Absent)
        IN  /\ /\ valued
               /\ \A h \in priced : reading.basket[h].rich # Absent /\ reading.basket[h].rich >= 120
               => outcome.scores["valuation"].value <= 0
            /\ valued => outcome.scores["valuation"].value
                           = Mean(w, [h \in priced |-> board[h].val], priced)
            /\ "flow" \in DOMAIN outcome.scores =>
                  outcome.scores["flow"].value = Mean(w, [h \in flows |-> board[h].flow], flows)

\* What is published of a fund is earned by its evidence, and flatters no basket.
SignalKeepsItsWord == CallIsEarned /\ BasketIsNotFlattered
=============================================================================
