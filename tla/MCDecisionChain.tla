--------------------------- MODULE MCDecisionChain ---------------------------
(***************************************************************************)
(* Four funds in one theme for TLC:                                        *)
(*   nasdaq   a US exchange fund the account cannot reach                  *)
(*   feeder   an off-exchange fund of the same index, its proxy            *)
(*   sp500    a US exchange fund the account can reach                     *)
(*   active   an active fund of the feeder's class, held                   *)
(* and, in behaviours of their own, the notifier of the wrappers, the memo *)
(* stage and the allocation of MCGoldAllocation: what a day tells its      *)
(* reader is the report of the first, the page of the second, the memo of  *)
(* the third and the proposal of the last.                                 *)
(***************************************************************************)
EXTENDS DecisionChain, Notify, Memo, MCGoldAllocation

VARIABLE mover   \* "chain", "notifier", "memo" or "gold"

MCFunds == {"nasdaq", "feeder", "sp500", "active"}
MCClass == [f \in MCFunds |-> IF f \in {"nasdaq", "sp500"} THEN "us_etf" ELSE "cn_equity_fund"]
MCIndex == [f \in MCFunds |-> IF f = "sp500" THEN "SP" ELSE IF f = "active" THEN "-" ELSE "NDX"]
MCReachable == {"feeder", "sp500", "active"}
MCTheme == [f \in MCFunds |-> "us"]
MCKey   == [f \in MCFunds |-> IF f = "active" THEN "own" ELSE MCIndex[f]]
MCActive == {"active"}
MCHeld   == {"active"}

Found(action, complete, premium) ==
    [action |-> action, complete |-> complete, premium |-> premium]
Buy   == Found("buy_candidate", TRUE, "low")
Watch == Found("watch", TRUE, "low")
Avoid == Found("avoid", TRUE, "low")
Look(f, s, a) == [nasdaq |-> Buy, feeder |-> f, sp500 |-> s, active |-> a]

MCOutlooks ==
    {Look(Buy, Found("buy_candidate", TRUE, "none"), Avoid),
     Look(Watch, Buy, Buy)}

State(state, risk, gap) == [state |-> state, risk |-> risk, gap |-> gap]
Fine   == State("core_dca", "none", FALSE)
Slow   == State("small_watch", "none", FALSE)
Gapped == State("small_watch", "none", TRUE)
Hot    == State("pause_wait", "trim_review", FALSE)
Broken == State("exclude", "exit_review", FALSE)
See(f, s, a) == [nasdaq |-> Fine, feeder |-> f, sp500 |-> s, active |-> a]

MCReviews == {See(Gapped, Slow, Broken), See(Fine, Fine, Hot)}

Ranked(a, b, c, d) == [f \in MCFunds |-> CASE f = a -> 1 [] f = b -> 2 [] f = c -> 3 [] f = d -> 4]
MCQualities ==
    {Ranked("feeder", "sp500", "nasdaq", "active")}

MCCaptures == { {"p", "q", "r", "s", "t"}, {"p", "q", "r", "s"}, {"p", "q", "r"} }

\* Two active funds, the name of one inside that of the other, both holding one stock.
MCMemoFunds == {"value", "valueplus"}
MCNameWithin == [f \in MCMemoFunds |-> IF f = "value" THEN {"valueplus"} ELSE {}]
Cited(f, leg, rank) ==
    [owner |-> f, leg |-> leg, scope |-> "instrument", stock |-> "-", rank |-> rank]
CitedOn(f, leg, s, rank) == [Cited(f, leg, rank) EXCEPT !.scope = "constituent", !.stock = s]
ValueEvidence ==
    {Cited("value", "data", 5), Cited("value", "data", 4),
     CitedOn("value", "data", "moutai", 3), CitedOn("value", "information", "moutai", 2),
     Cited("value", "information", 1)}
PlusEvidence ==
    {Cited("valueplus", "data", 3), Cited("valueplus", "information", 2),
     CitedOn("valueplus", "data", "moutai", 1)}
RowOf(e, s, v, thin) ==
    [published |-> TRUE, evidence |-> e, state |-> s, valuation |-> v, thin |-> thin]
Unpublished == [RowOf({}, "small_watch", "fair", FALSE) EXCEPT !.published = FALSE]
Offer(trades, v, p, twins) ==
    [source |-> "scoring", trades |-> trades, twins |-> twins,
     rows |-> [f \in MCMemoFunds |-> IF f = "value" THEN v ELSE p]]
MCMemoInputs ==
    {Offer(<<"value", "valueplus">>, RowOf(ValueEvidence, "core_dca", "cheap", TRUE),
           RowOf(PlusEvidence, "pause_wait", "dear", FALSE), FALSE),
     Offer(<<"valueplus">>, RowOf(ValueEvidence, "small_watch", "fair", FALSE),
           RowOf(PlusEvidence, "small_watch", "fair", FALSE), FALSE),
     Offer(<<"valueplus", "value">>, RowOf(ValueEvidence, "core_dca", "fair", FALSE),
           Unpublished, FALSE),
     Offer(<<"value">>, RowOf(ValueEvidence, "core_dca", "fair", FALSE),
           RowOf(PlusEvidence, "core_dca", "fair", FALSE), TRUE)}
Passage(kind, says, cites) ==
    [kind |-> kind, says |-> says, stocks |-> {}, cites |-> cites, words |-> "action",
     claim |-> "none", barred |-> FALSE]
MCPassages ==
    {Passage("para", {"value"}, {Cited("value", "data", 5)}),
     [Passage("para", {"valueplus"}, {Cited("valueplus", "data", 3)}) EXCEPT !.claim = "cheap"],
     [Passage("para", MCMemoFunds, {Cited("valueplus", "data", 3)}) EXCEPT !.words = "label"],
     Passage("para", {"valueplus"}, {}), Passage("para", {}, {}), Passage("para", {}, {MacroRef}),
     [Passage("row", {}, {}) EXCEPT !.stocks = {"moutai"}],
     [Passage("para", {"value"}, {e \in ValueEvidence : e.stock = "moutai"})
         EXCEPT !.stocks = {"moutai"}],
     [Passage("para", {"value"}, {Cited("valueplus", "data", 3)}) EXCEPT !.barred = TRUE],
     [Passage("head", {"value"}, {}) EXCEPT !.words = "none"]}

\* Those that do not move start in one way only.
MCReportInit ==
    /\ mover \in {"chain", "notifier", "memo", "gold"}
    /\ Init /\ NotifyInit /\ MemoInit /\ GoldInit
    /\ mover # "notifier" => InStore = FlowSymbols
MCReportNext ==
    /\ UNCHANGED mover
    /\ \/ mover = "chain" /\ Next /\ UNCHANGED <<notifyVars, memoVars, goldVars>>
       \/ mover = "notifier" /\ NotifyNext /\ UNCHANGED <<vars, memoVars, goldVars>>
       \/ mover = "memo" /\ MemoNext /\ UNCHANGED <<vars, notifyVars, goldVars>>
       \/ mover = "gold" /\ GoldNext /\ UNCHANGED <<vars, notifyVars, memoVars>>
MCReportSpec ==
    MCReportInit /\ [][MCReportNext]_<<mover, vars, notifyVars, memoVars, goldVars>>

\* The files of the chain, of the notifier and of the memo keep their shape.
ReportTypesOK == TypeOK /\ NotifyTypeOK /\ MemoTypeOK
=============================================================================
