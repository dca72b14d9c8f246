---------------------------- MODULE DecisionChain ----------------------------
(***************************************************************************)
(* What the last six stages of a pipeline run decide about each fund:      *)
(*                                                                         *)
(*   score        scoring.json             action, completeness, premium   *)
(*   allocate     proposed_allocation.yaml the funds selected per class    *)
(*   plan         trade_plan.yaml          what is bought for each of them *)
(*   opportunity  opportunity_report.json  states, after the theme         *)
(*                                         reduction, without gapped funds *)
(*   memo         memo.md, memo_traceability.json                          *)
(*   decision     decision_report.json     one status per scored fund      *)
(*                                                                         *)
(* Each stage reads the files of its predecessors, of today or, for want   *)
(* of them, of the latest earlier day, and a run may begin at any stage,   *)
(* halt or die after any: a sheet may be composed of files of different    *)
(* runs.  The runner itself is the subject of module Pipeline; here a      *)
(* stage is one step and only the marker of a halt is kept.                *)
(*                                                                         *)
(* A file is a function from the days on which it was written.             *)
(***************************************************************************)
EXTENDS Integers, FiniteSets

CONSTANTS
    Funds,        \* the watchlist: every fund is scored and reviewed
    Class,        \* fund -> asset class
    Index,        \* fund -> tracked index, NoIndex for an active fund
    NoIndex,
    Reachable,    \* funds one of the account's venues can trade
    Theme,        \* fund -> theme, NoTheme if it has none
    NoTheme,
    Key,          \* fund -> lookthrough key
    Active,       \* funds whose lookthrough target is an active fund
    Held,         \* funds in the account
    TopK,         \* PER_CLASS_TOP_K
    Outlooks,     \* what scoring may find
    Reviews,      \* what the opportunity states may be
    Qualities,    \* how the selection qualities may rank the funds, 1 best
    LastDay,      \* bounds the calendar
    MaxRuns       \* bounds the runs

QdiiClasses == {"us_etf", "hk_etf", "qdii_global"}
BuyActions  == {"buy_candidate", "strong_buy_candidate"}
AvoidActions == {"avoid", "strong_avoid"}
MaxPerTheme == 2

Scores == [action : BuyActions \cup AvoidActions \cup {"watch"},
           complete : BOOLEAN,                  \* >= MIN_BUY_COMPLETENESS
           premium : {"low", "high", "nan", "none"}]
Risks  == {"none", "trim_review", "exit_review", "review_required"}
States == {"core_dca", "small_watch", "pause_wait", "exclude"}

ASSUME FundAssumption ==
    /\ IsFiniteSet(Funds)
    /\ Reachable \subseteq Funds /\ Active \subseteq Funds /\ Held \subseteq Funds
    /\ DOMAIN Class = Funds /\ DOMAIN Index = Funds
    /\ DOMAIN Theme = Funds /\ DOMAIN Key = Funds
    /\ TopK \in Nat \ {0}
ASSUME InputAssumption ==
    /\ Outlooks \subseteq [Funds -> Scores]
    /\ Reviews \subseteq [Funds -> [state : States, risk : Risks, gap : BOOLEAN]]
    \* A tie, which the code breaks by the order of the rows, is left out.
    /\ \A q \in Qualities : /\ q \in [Funds -> Nat]
                             /\ \A f, g \in Funds : q[f] = q[g] => f = g
    /\ LastDay \in Nat \ {0} /\ MaxRuns \in Nat

Days == 1..LastDay

VARIABLES
    day, runs,
    at,         \* the stage in flight, "finish" before the runner's last
                \* step, "idle" between runs
    scoring, alloc, plan, opp,          \* the files, by day
    memo,       \* today's memo and its traceability: no stage reads older ones
    marker,     \* the days with a PIPELINE_HALTED.md
    sheet       \* the decision report, until the run that wrote it returns:
                \* no stage reads it

files == <<scoring, alloc, plan, opp, memo, marker>>

\* Never read by the program: the files of today older than a file they are
\* computed from, the days whose last report no decision has read, and, by
\* day with a report, the funds some decision named as newly core that have
\* been core in the last decided report of each such day since.
VARIABLES stale, undecided, told

ghosts == <<stale, undecided, told>>
vars == <<day, runs, at, files, sheet, ghosts>>

Stages == {"score", "allocate", "plan", "opportunity", "memo", "decision"}
Statuses == {"avoid", "blocked", "actionable_buy", "review_sell_later",
             "watch_only"}
Trades == [target : Funds, direct : BOOLEAN, proxied : BOOLEAN]

DayFile(f, Content) == DOMAIN f \subseteq Days /\ \A d \in DOMAIN f : f[d] \in Content

TypeOK ==
    /\ day \in Days /\ runs \in 0..MaxRuns
    /\ at \in Stages \cup {"finish", "idle"}
    /\ DayFile(scoring, Outlooks)
    /\ DayFile(alloc, SUBSET Funds)
    /\ DayFile(plan, SUBSET Trades)
    /\ \A d \in DOMAIN opp :
          /\ d \in Days
          /\ opp[d].kept \subseteq Funds
          /\ opp[d].gapped \subseteq opp[d].kept
          /\ opp[d].review \in [Funds -> [state : States, risk : Risks, gap : BOOLEAN]]
    /\ \A d \in DOMAIN memo :
          /\ d = day
          /\ memo[d].published \in BOOLEAN /\ memo[d].quoted \in BOOLEAN
          /\ \A f \in DOMAIN memo[d].picks : memo[d].picks[f] \in Statuses
    /\ \A d \in DOMAIN sheet :
          /\ d = day
          /\ sheet[d].status \in [Funds -> Statuses]
          /\ sheet[d].promoted \subseteq Funds
    /\ marker \subseteq Days
    /\ stale \subseteq Stages
    /\ undecided \subseteq Days
    /\ DayFile(told, SUBSET Funds)

Nowhere == [d \in {} |-> {}]

Init ==
    /\ day = 1 /\ runs = 0 /\ at = "idle"
    /\ scoring = Nowhere /\ alloc = Nowhere /\ plan = Nowhere
    /\ opp = Nowhere /\ memo = Nowhere /\ sheet = Nowhere
    /\ marker = {}
    /\ stale = Stages \ {"score", "decision"}
    /\ undecided = {} /\ told = Nowhere

LastOf(ds)    == CHOOSE d \in ds : \A e \in ds : e <= d
Latest(f)     == LastOf(DOMAIN f)
Write(f, v)   == [d \in DOMAIN f \cup {day} |-> IF d = day THEN v ELSE f[d]]
Exists(f)     == DOMAIN f # {}

-----------------------------------------------------------------------------
(* The runner.                                                             *)

Next1 == [score |-> "allocate", allocate |-> "plan", plan |-> "opportunity",
          opportunity |-> "memo", memo |-> "decision", decision |-> "finish"]
Proceed(s) == at = s /\ at' = Next1[s]

\* `irc run`: its ingest stage removes the marker of an earlier halt.
StartFull ==
    /\ at = "idle" /\ runs < MaxRuns
    /\ runs' = runs + 1 /\ at' = "score"
    /\ marker' = marker \ {day}
    /\ UNCHANGED <<day, scoring, alloc, plan, opp, memo, sheet, ghosts>>

\* `irc run --from s`, or --resume, leaves it.
StartFrom(s) ==
    /\ at = "idle" /\ runs < MaxRuns
    /\ runs' = runs + 1 /\ at' = s
    /\ UNCHANGED <<day, files, sheet, ghosts>>

\* A stage fails, for its own reasons or for want of its inputs.
Halt ==
    /\ at \in Stages
    /\ at' = "idle" /\ marker' = marker \cup {day}
    /\ UNCHANGED <<day, runs, scoring, alloc, plan, opp, memo, sheet, ghosts>>

Finish ==
    /\ at = "finish"
    /\ at' = "idle" /\ marker' = marker \ {day} /\ sheet' = Nowhere
    /\ UNCHANGED <<day, runs, scoring, alloc, plan, opp, memo, ghosts>>

Die ==
    /\ at # "idle"
    /\ at' = "idle" /\ sheet' = Nowhere
    /\ UNCHANGED <<day, runs, files, ghosts>>

NewDay ==
    /\ at = "idle" /\ day < LastDay
    /\ day' = day + 1
    /\ stale' = Stages \ {"score", "decision"} /\ memo' = Nowhere
    /\ UNCHANGED <<runs, at, scoring, alloc, plan, opp, marker, sheet, undecided, told>>

-----------------------------------------------------------------------------
(* Scoring, allocation, the trade plan.                                    *)

Score ==
    /\ Proceed("score")
    /\ \E o \in Outlooks : scoring' = Write(scoring, o)
    /\ stale' = Stages \ {"score", "decision"}
    /\ UNCHANGED <<day, runs, alloc, plan, opp, memo, sheet, marker, undecided, told>>

\* The composite ranks the funds of a class; only the outcome is kept, which
\* does not depend on the action a fund was given.
Selections ==
    {sel \in SUBSET Funds : \A c \in {Class[f] : f \in Funds} :
        LET all == {f \in Funds : Class[f] = c} IN
        Cardinality(sel \cap all) = IF Cardinality(all) < TopK
                                    THEN Cardinality(all) ELSE TopK}

\* Of the selected funds of a class that track one index, one is kept.
Deduped(sel) ==
    {kept \in SUBSET sel :
        /\ \A f, g \in kept : Class[f] = Class[g] /\ Index[f] = Index[g]
                              /\ Index[f] # NoIndex => f = g
        /\ \A f \in sel \ kept : \E g \in kept :
              Class[f] = Class[g] /\ Index[f] = Index[g] /\ Index[f] # NoIndex}

Made(s, fresh) == stale' = IF fresh THEN stale \ {s} ELSE stale \cup {s}
Outdating(s, fresh, later) ==
    stale' = later \cup (IF fresh THEN stale \ {s} ELSE stale \cup {s})

Allocate ==
    /\ Proceed("allocate")
    /\ Exists(scoring)
    /\ \E sel \in Selections : \E kept \in Deduped(sel) : alloc' = Write(alloc, kept)
    /\ Outdating("allocate", day \in DOMAIN scoring, {"plan", "memo"})
    /\ UNCHANGED <<day, runs, scoring, plan, opp, memo, sheet, marker, undecided, told>>

\* Cross-class substitution needs an index to match on; gold matches itself.
Substitutes(c, i) ==
    IF i # NoIndex /\ c \in {"cn_etf", "us_etf", "hk_etf"}
    THEN {c, "cn_equity_fund"} ELSE {c}
Proxies(f) ==
    {g \in Reachable \ {f} : /\ Class[g] \in Substitutes(Class[f], Index[f])
                             /\ Class[f] # "gold" => Index[g] = Index[f]}
ProxyOf(f) == CHOOSE g \in Proxies(f) : TRUE

\* A fund the account cannot trade is planned under its proxy's name.
TradeFor(f) ==
    IF f \in Reachable THEN [target |-> f, direct |-> TRUE, proxied |-> FALSE]
    ELSE IF Proxies(f) = {} THEN [target |-> f, direct |-> FALSE, proxied |-> FALSE]
    ELSE [target |-> ProxyOf(f), direct |-> FALSE, proxied |-> TRUE]

Plan ==
    /\ Proceed("plan")
    /\ Exists(alloc)
    /\ plan' = Write(plan, {TradeFor(f) : f \in alloc[Latest(alloc)]})
    /\ Outdating("plan", day \in DOMAIN alloc, {"memo"})
    /\ UNCHANGED <<day, runs, scoring, alloc, opp, memo, sheet, marker, undecided, told>>

-----------------------------------------------------------------------------
(* Opportunity: the reduction within a theme, then the partition into      *)
(* published and gapped rows.                                              *)

ThemeRows(t) == {f \in Funds : Theme[f] = t}

\* Of the funds of a theme that share a lookthrough key, the best.
KeyBest(t, q) ==
    {f \in ThemeRows(t) : \A g \in ThemeRows(t) : Key[g] = Key[f] => q[f] <= q[g]}
Best(t, q) ==
    {f \in KeyBest(t, q) :
        Cardinality({g \in KeyBest(t, q) : q[g] < q[f]}) < MaxPerTheme}

\* _apply_reduction keeps unthemed funds and, whatever their rank, held ones.
Kept(q) == ThemeRows(NoTheme) \cup Held
             \cup UNION {Best(t, q) : t \in {Theme[f] : f \in Funds} \ {NoTheme}}

\* An active fund no better than a passive one kept of its theme is demoted.
Demoted(kept, q, r) ==
    {f \in kept \cap Active :
        /\ r[f].state # "exclude" /\ Theme[f] # NoTheme
        /\ \E g \in kept \ Active : Theme[g] = Theme[f] /\ q[g] <= q[f]}

Report(q, r) ==
    LET kept == Kept(q)
        down == Demoted(kept, q, r)
    IN [kept   |-> kept,
        gapped |-> {f \in kept : r[f].gap},
        review |-> [f \in Funds |-> IF f \in down THEN [r[f] EXCEPT !.state = "small_watch"]
                                    ELSE r[f]]]

Opportunity ==
    /\ Proceed("opportunity")
    /\ Exists(scoring)
    /\ \E q \in Qualities : \E r \in Reviews : opp' = Write(opp, Report(q, r))
    /\ undecided' = undecided \cup {day}
    /\ Outdating("opportunity", day \in DOMAIN scoring, {"memo"})
    /\ UNCHANGED <<day, runs, scoring, alloc, plan, memo, sheet, marker, told>>

\* The rows of opportunity_report.json.
Published(d) == IF d \in DOMAIN opp THEN opp[d].kept \ opp[d].gapped ELSE {}
Row(d, f)    == opp[d].review[f]
Core(d)      == {f \in Published(d) : Row(d, f).state = "core_dca"}

-----------------------------------------------------------------------------
(* The verdict on a fund, by the memo and by the decision stage.           *)

Planned(d) == IF d \in DOMAIN plan THEN plan[d] ELSE {}
Targets(d) == {t.target : t \in Planned(d)}
TradeOf(d, f) == CHOOSE t \in Planned(d) : t.target = f

VenueOfTrade(t) == IF t.direct THEN "direct"
                   ELSE IF t.proxied THEN "proxy_available" ELSE "blocked_no_proxy"

\* derive_venue_status; a fund without a trade is looked up in the trades by
\* its own name, so a proxy is found for it only where it is one.
Venue(d, f, known) ==
    IF f \in Targets(d) THEN VenueOfTrade(TradeOf(d, f))
    ELSE IF ~known THEN "unknown"
    ELSE IF f \in Reachable THEN "direct" ELSE "blocked_no_proxy"

\* A mutant: a fund in the plan need not have been published.
BlockersUnpublished(halted, s, venue, narrative, unknown, high, excluded) ==
    {b \in {"pipeline_halted", "data_incomplete", "venue_blocked",
            "memo_narrative_only", "score_avoid", "qdii_premium_unknown",
            "qdii_premium_too_high"} :
        \/ b = "pipeline_halted" /\ halted
        \/ b = "data_incomplete" /\ ~s.complete
        \/ b = "venue_blocked" /\ venue = "blocked_no_proxy"
        \/ b = "memo_narrative_only" /\ narrative
        \/ b = "score_avoid" /\ s.action \in AvoidActions
        \/ b = "qdii_premium_unknown" /\ unknown
        \/ b = "qdii_premium_too_high" /\ high}

\* compute_blocking_reasons, which both stages call.
Blockers(halted, s, venue, narrative, unknown, high, excluded) ==
    {b \in {"pipeline_halted", "data_incomplete", "venue_blocked",
            "memo_narrative_only", "score_avoid", "qdii_premium_unknown",
            "qdii_premium_too_high", "opportunity_excluded"} :
        \/ b = "pipeline_halted" /\ halted
        \/ b = "data_incomplete" /\ ~s.complete
        \/ b = "venue_blocked" /\ venue = "blocked_no_proxy"
        \/ b = "memo_narrative_only" /\ narrative
        \/ b = "score_avoid" /\ s.action \in AvoidActions
        \/ b = "qdii_premium_unknown" /\ unknown
        \/ b = "qdii_premium_too_high" /\ high
        \/ b = "opportunity_excluded" /\ excluded}

\* A mutant: the portfolio action stands in for the status.
StatusOrAction(action, blockers, selected, pa) ==
    IF action \in AvoidActions THEN "avoid"
    ELSE IF blockers # {} THEN "blocked"
    ELSE IF action \in BuyActions /\ selected THEN "actionable_buy"
    ELSE pa

\* compute_decision_status.
Status(action, blockers, selected, pa) ==
    IF action \in AvoidActions THEN "avoid"
    ELSE IF blockers # {} THEN "blocked"
    ELSE IF action \in BuyActions /\ selected THEN "actionable_buy"
    ELSE IF pa \in {"trim_review", "exit_review", "review"} THEN "review_sell_later"
    ELSE "watch_only"

\* A mutant: what blocks buying blocks selling, too.
BlockedAction(risk, held, blockers, action, selected) ==
    IF blockers # {} THEN "no_trade"
    ELSE IF held /\ risk = "exit_review" THEN "exit_review"
    ELSE IF held /\ risk = "trim_review" THEN "trim_review"
    ELSE IF held /\ risk = "review_required" THEN "review"
    ELSE IF action \in BuyActions /\ selected THEN "buy"
    ELSE "no_trade"

\* map_portfolio_action: what is held may be sold whatever blocks buying.
PortfolioAction(risk, held, blockers, action, selected) ==
    IF held /\ risk = "exit_review" THEN "exit_review"
    ELSE IF held /\ risk = "trim_review" THEN "trim_review"
    ELSE IF held /\ risk = "review_required" THEN "review"
    ELSE IF blockers = {} /\ action \in BuyActions /\ selected THEN "buy"
    ELSE "no_trade"

QdiiBuy(f, s) == Class[f] \in QdiiClasses /\ s.action \in BuyActions

\* _decision_status_for_pick: coerces a premium that is not a number to none.
PickStatus(d, f) ==
    LET s == scoring[d][f] IN
    Status(s.action,
           Blockers(FALSE, s, VenueOfTrade(TradeOf(d, f)), FALSE,
                    QdiiBuy(f, s) /\ s.premium \in {"none", "nan"},
                    QdiiBuy(f, s) /\ s.premium = "high", FALSE),
           TRUE, "no_trade")

\* The trades with a published row; the rest are listed without a verdict.
Picks(d) == [f \in Targets(d) \cap Published(d) |-> PickStatus(d, f)]

\* The audit and the citation gate may refuse the draft; memo_traceability
\* is written before either.
MemoOutcome(published) ==
    /\ at = "memo"
    /\ Exists(scoring)
    /\ \E q \in BOOLEAN :
          memo' = Write(memo, [published |-> published, quoted |-> q,
                               picks |-> Picks(Latest(scoring))])
    /\ Made("memo", day \in DOMAIN scoring \cap DOMAIN plan \cap DOMAIN opp)
    /\ UNCHANGED <<day, runs, scoring, alloc, plan, opp, sheet, undecided, told>>

PublishMemo == MemoOutcome(TRUE) /\ at' = "decision" /\ UNCHANGED marker
BlockMemo   == MemoOutcome(FALSE) /\ at' = "idle" /\ marker' = marker \cup {day}

\* decide_row over the scored funds; known: the venue configuration loaded.
Verdict(f, known) ==
    LET s        == scoring[day][f]
        venue    == Venue(day, f, known)
        excluded == day \in DOMAIN opp /\ f \in Targets(day) \ Published(day)
        blockers == Blockers(day \in marker, s, venue, ~memo[day].quoted,
                             QdiiBuy(f, s) /\ s.premium = "none",
                             QdiiBuy(f, s) /\ s.premium = "high", excluded)
        listed   == f \in Published(day)
        pa       == PortfolioAction(IF listed THEN Row(day, f).risk ELSE "none",
                                    listed /\ f \in Held, blockers,
                                    s.action, f \in alloc[day])
    IN [status |-> Status(s.action, blockers, f \in alloc[day], pa), action |-> pa]

Earlier(f) == {d \in DOMAIN f : d < day}

ToldBefore   == IF Earlier(told) = {} THEN {} ELSE told[LastOf(Earlier(told))]

\* A mutant: today's own report is the prior one.
PromotionsSinceToday ==
    IF Earlier(opp) = {} THEN {} ELSE Core(day) \ Core(Latest(opp))

\* diff_promotions against the latest earlier report.
Promotions ==
    IF Earlier(opp) = {} THEN {} ELSE Core(day) \ Core(LastOf(Earlier(opp)))

Decision ==
    /\ Proceed("decision")
    /\ day \in DOMAIN scoring \cap DOMAIN alloc \cap DOMAIN plan \cap DOMAIN memo
    /\ \E known \in BOOLEAN :
          sheet' = Write(sheet, [status   |-> [f \in Funds |-> Verdict(f, known).status],
                                 action   |-> [f \in Funds |-> Verdict(f, known).action],
                                 promoted |-> Promotions,
                                 known    |-> known])
    /\ undecided' = undecided \ {day}
    /\ told' = IF day \notin DOMAIN opp THEN told
               ELSE Write(told, IF Earlier(opp) = {} THEN Core(day)
                                ELSE (ToldBefore \cap Core(day)) \cup Promotions)
    /\ UNCHANGED <<day, runs, files, stale>>

Next ==
    \/ StartFull \/ \E s \in Stages : StartFrom(s)
    \/ Halt \/ Finish \/ Die \/ NewDay
    \/ Score \/ Allocate \/ Plan \/ Opportunity
    \/ PublishMemo \/ BlockMemo \/ Decision

Spec == Init /\ [][Next]_vars

-----------------------------------------------------------------------------
(* Properties.  At "finish" the sheet of the day has just been written; it *)
(* is Consistent when none of its inputs is older than one of their own.   *)

Written    == at = "finish"
Consistent == Written /\ stale = {}
Actionable == {f \in Funds : sheet[day].status[f] = "actionable_buy"}

\* "actionable_buy" is what the report tells the reader to do today
\* (decision/report.py).  If its inputs belong together and the venue
\* configuration was read, such a fund can be bought under its own name: the
\* account reaches it, the plan trades it and no proxy instead, it was
\* published without an evidence gap, and no halt was pending.
ActionableIsExecutable ==
    Consistent /\ sheet[day].known =>
        \A f \in Actionable :
            /\ TradeFor(f).direct /\ TradeFor(f) \in plan[day]
            /\ f \in Published(day)
            /\ day \notin marker /\ memo[day].quoted

\* The memo's table and the decision report give a fund bought directly the
\* same verdict, though each computes it for itself (memo_cmd.py:589,
\* gates.py:84), once what only decision knows of the run is clear; decision
\* alone tells a fund to review from one to watch.
SameVerdict(f) ==
    \/ memo[day].picks[f] = sheet[day].status[f]
    \/ memo[day].picks[f] = "watch_only" /\ sheet[day].status[f] = "review_sell_later"
Comparable == Consistent /\ day \notin marker /\ memo[day].quoted

DirectPicksAgree ==
    Comparable => \A f \in DOMAIN memo[day].picks :
        TradeOf(day, f).direct /\ scoring[day][f].premium # "nan" => SameVerdict(f)

\* A sell or review signal on a fund that is held reaches the report whatever
\* blocks buying: a halt, missing data, an unreachable venue
\* (portfolio_action.py:24).
SellSignalsSurface ==
    Written => \A f \in Held \cap Published(day) :
        Row(day, f).risk # "none" =>
            sheet[day].action[f] \in {"trim_review", "exit_review", "review"}

\* The reduction leaves at most two funds of a theme, of different lookthrough
\* keys, beside those held, and none that is held goes unreviewed: it is
\* published or its gap is logged (opportunity_cmd.py:1180).
ThemesAreReduced ==
    \A d \in DOMAIN opp :
        LET new(t) == {f \in opp[d].kept \ Held : Theme[f] = t} IN
        /\ Held \subseteq opp[d].kept
        /\ \A f \in Funds : Theme[f] # NoTheme =>
              /\ Cardinality(new(Theme[f])) <= MaxPerTheme
              /\ \A g, h \in new(Theme[f]) : Key[g] = Key[h] => g = h

\* If a decision read the last report of every day, each fund that is core
\* today was named when it became so, or was core in the very first report:
\* no promotion is lost between two reports (decision_cmd.py:220).
NewcomersAreAnnounced ==
    Written /\ undecided = {} => \A f \in Core(day) : f \in told[day]

\* What the report tells the reader to buy can be bought, and the memo beside
\* it says the same of every fund bought under its own name.
BuysCanBeMade == ActionableIsExecutable /\ DirectPicksAgree

\* No fund drops out between the reports: none held is reduced away, a theme
\* keeps two at most, and one that became core was announced.
EveryFundIsFollowed == ThemesAreReduced /\ NewcomersAreAnnounced
=============================================================================
