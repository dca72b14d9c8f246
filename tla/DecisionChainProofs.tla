-------------------------- MODULE DecisionChainProofs --------------------------
(***************************************************************************)
(* What the reports of a day promise, for any watchlist, venues, scores,   *)
(* reviews and qualities, any number of runs that begin at any stage, and  *)
(* any halts and kills between them; before them in the chain, that gold's *)
(* tilt is earned and its weight stays in the band, for any targets, band, *)
(* score tables and prices; and of the memo, that its citation gate lets   *)
(* through what is backed and what follows its rules, and that no file of  *)
(* it contradicts another, for any evidence, draft, verdict and kill.      *)
(***************************************************************************)
EXTENDS MCDecisionChain, SumTheorems

-----------------------------------------------------------------------------
(* Files by day.                                                           *)

LEMMA WriteIs ==
    ASSUME NEW f, NEW v
    PROVE  /\ DOMAIN Write(f, v) = DOMAIN f \cup {day}
           /\ Write(f, v)[day] = v
           /\ \A d \in DOMAIN f \ {day} : Write(f, v)[d] = f[d]
  BY DEF Write

\* Of some days one is the last.
LEMMA LastIs ==
    ASSUME NEW ds, ds \subseteq Days, ds # {}
    PROVE  LastOf(ds) \in ds /\ \A e \in ds : e <= LastOf(ds)
<1>. DEFINE left == {LastDay - d : d \in ds}
<1>1. LastDay \in Nat /\ \A d \in ds : d \in 1..LastDay
  BY InputAssumption DEF Days
<1>2. left \subseteq Nat /\ left # {}
  BY <1>1
<1>3. PICK n \in left : \A m \in left : n <= m
  BY <1>2, HasLeast
<1>4. PICK d \in ds : n = LastDay - d
  BY <1>3
<1>5. ASSUME NEW e \in ds PROVE e <= d
  <2>1. n <= LastDay - e
    BY <1>3
  <2>2. LastDay \in Int /\ e \in Int /\ d \in Int
    BY <1>1
  <2>. HIDE DEF left
  <2>. QED
    BY <1>4, <2>1, <2>2
<1>. QED
  BY <1>5 DEF LastOf

-----------------------------------------------------------------------------
(* The plan.                                                               *)

\* A trade is the fund's own if the account reaches it, else that of a fund
\* it does reach, else one that cannot be made.
LEMMA TradeForIs ==
    ASSUME NEW f \in Funds
    PROVE  /\ TradeFor(f) \in Trades
           /\ f \in Reachable => TradeFor(f) = [target |-> f, direct |-> TRUE, proxied |-> FALSE]
           /\ f \notin Reachable =>
                 /\ ~TradeFor(f).direct
                 /\ TradeFor(f).proxied => TradeFor(f).target \in Reachable \ {f}
                 /\ ~TradeFor(f).proxied => TradeFor(f).target = f
<1>1. Proxies(f) \subseteq Reachable \ {f}
  BY DEF Proxies
<1>2. Proxies(f) # {} => ProxyOf(f) \in Proxies(f)
  BY DEF ProxyOf
<1>3. Reachable \subseteq Funds
  BY FundAssumption
<1>. QED
  BY <1>1, <1>2, <1>3 DEF TradeFor, Trades

-----------------------------------------------------------------------------
(* The reduction.                                                          *)

LEMMA KeptAreFunds == ASSUME NEW q PROVE Kept(q) \subseteq Funds
<1>1. \A t : Best(t, q) \subseteq Funds /\ ThemeRows(t) \subseteq Funds
  BY DEF Best, KeyBest, ThemeRows
<1>. QED
  BY <1>1, FundAssumption DEF Kept

Reviewed == [state : States, risk : Risks, gap : BOOLEAN]

LEMMA ReportIs ==
    ASSUME NEW q, NEW r \in Reviews
    PROVE  /\ Report(q, r).kept = Kept(q)
           /\ Report(q, r).kept \subseteq Funds
           /\ Report(q, r).gapped \subseteq Report(q, r).kept
           /\ Report(q, r).review \in [Funds -> Reviewed]
<1>1. r \in [Funds -> Reviewed]
  BY InputAssumption DEF Reviewed
<1>2. \A f \in Funds : [r[f] EXCEPT !.state = "small_watch"] \in Reviewed
  BY <1>1 DEF Reviewed, States
<1>. QED
  BY <1>1, <1>2, KeptAreFunds DEF Report

LEMMA AtMostTwo ==
    ASSUME NEW S, IsFiniteSet(S),
           \A a, b, c \in S : a = b \/ a = c \/ b = c
    PROVE  Cardinality(S) <= 2
<1>1. CASE S = {}
  BY <1>1, FS_EmptySet
<1>2. CASE S # {}
  <2>1. PICK a \in S : TRUE
    BY <1>2
  <2>2. CASE S = {a}
    BY <2>2, FS_Singleton
  <2>3. CASE S # {a}
    <3>1. PICK b \in S : b # a
      BY <2>1, <2>3
    <3>2. S = {a} \cup {b}
      BY <2>1, <3>1
    <3>3. Cardinality({a}) = 1 /\ IsFiniteSet({a})
      BY FS_Singleton
    <3>4. Cardinality({a} \cup {b}) = 2
      BY <3>1, <3>3, FS_AddElement
    <3>. QED
      BY <3>2, <3>4
  <2>. QED
    BY <2>2, <2>3
<1>. QED
  BY <1>1, <1>2

\* A theme has at most two best funds, of different keys.
LEMMA BestAreTwo ==
    ASSUME NEW q \in Qualities, NEW t
    PROVE  /\ IsFiniteSet(Best(t, q)) /\ Cardinality(Best(t, q)) <= 2
           /\ \A g, h \in Best(t, q) : Key[g] = Key[h] => g = h
<1>1. q \in [Funds -> Nat] /\ \A f, g \in Funds : q[f] = q[g] => f = g
  BY InputAssumption
<1>2. Best(t, q) \subseteq KeyBest(t, q) /\ KeyBest(t, q) \subseteq ThemeRows(t)
      /\ ThemeRows(t) \subseteq Funds
  BY DEF Best, KeyBest, ThemeRows
<1>3. IsFiniteSet(Best(t, q)) /\ IsFiniteSet(KeyBest(t, q))
  BY <1>2, FundAssumption, FS_Subset
<1>4. ASSUME NEW a \in Best(t, q), NEW b \in Best(t, q), NEW c \in Best(t, q),
             a # b, a # c, b # c, q[a] < q[c], q[b] < q[c]
      PROVE  FALSE
  <2>. DEFINE Better == {g \in KeyBest(t, q) : q[g] < q[c]}
  <2>1. {a} \cup {b} \subseteq Better
    BY <1>2, <1>4
  <2>2. IsFiniteSet(Better)
    BY <1>3, FS_Subset
  <2>3. Cardinality({a}) = 1 /\ IsFiniteSet({a})
    BY FS_Singleton
  <2>8. b \notin {a}
    BY <1>4
  <2>4. Cardinality({a} \cup {b}) = 2
    BY <2>3, <2>8, FS_AddElement
  <2>5. Cardinality({a} \cup {b}) <= Cardinality(Better)
    BY <2>1, <2>2, FS_Subset
  <2>6. Cardinality(Better) < 2
    BY DEF Best, MaxPerTheme
  <2>7. Cardinality(Better) \in Nat
    BY <2>2, FS_CardinalityType
  <2>. QED
    BY <2>4, <2>5, <2>6, <2>7
<1>5. \A a, b, c \in Best(t, q) : a = b \/ a = c \/ b = c
  <2>1. ASSUME NEW a \in Best(t, q), NEW b \in Best(t, q), NEW c \in Best(t, q),
               a # b, a # c, b # c
        PROVE  FALSE
    <3>1. /\ q[a] \in Nat /\ q[b] \in Nat /\ q[c] \in Nat
          /\ q[a] # q[b] /\ q[a] # q[c] /\ q[b] # q[c]
      BY <1>1, <1>2, <2>1
    <3>2. CASE q[a] < q[c] /\ q[b] < q[c]
      BY <1>4, <2>1, <3>2
    <3>3. CASE q[a] < q[b] /\ q[c] < q[b]
      BY <1>4, <2>1, <3>3
    <3>4. CASE q[b] < q[a] /\ q[c] < q[a]
      BY <1>4, <2>1, <3>4
    <3>. QED
      BY <3>1, <3>2, <3>3, <3>4
  <2>. QED
    BY <2>1
<1>6. Cardinality(Best(t, q)) <= 2
  BY <1>3, <1>5, AtMostTwo
<1>7. ASSUME NEW g \in Best(t, q), NEW h \in Best(t, q), Key[g] = Key[h]
      PROVE  g = h
  <2>1. g \in KeyBest(t, q) /\ h \in KeyBest(t, q) /\ g \in ThemeRows(t) /\ h \in ThemeRows(t)
    BY <1>2
  <2>2. q[g] <= q[h] /\ q[h] <= q[g]
    BY <1>7, <2>1 DEF KeyBest
  <2>3. g \in Funds /\ h \in Funds /\ q[g] \in Nat /\ q[h] \in Nat
    BY <1>1, <1>2
  <2>. QED
    BY <1>1, <2>2, <2>3
<1>. QED
  BY <1>3, <1>6, <1>7

-----------------------------------------------------------------------------
(* Types.                                                                  *)

LEMMA WriteDay ==
    ASSUME NEW f, NEW Content, NEW v \in Content, DayFile(f, Content), day \in Days
    PROVE  DayFile(Write(f, v), Content)
  BY DEF DayFile, Write

LEMMA StatusIs ==
    ASSUME NEW a, NEW b, NEW s, NEW pa
    PROVE  Status(a, b, s, pa) \in Statuses
  BY DEF Status, Statuses

LEMMA PublishedAreFunds ==
    ASSUME TypeOK, NEW d
    PROVE  Published(d) \subseteq Funds /\ Core(d) \subseteq Funds
  BY DEF TypeOK, Published, Core

LEMMA LatestIs ==
    ASSUME NEW f, DOMAIN f \subseteq Days, DOMAIN f # {}
    PROVE  Latest(f) \in DOMAIN f /\ \A d \in DOMAIN f : d <= Latest(f)
  BY LastIs DEF Latest

\* The report is composed in the step that reaches "finish".
SheetInHand == at # "finish" => DOMAIN sheet = {}

LEMMA TypesAtFirst == Init => TypeOK /\ SheetInHand
<1>. SUFFICES ASSUME Init PROVE TypeOK /\ SheetInHand
  OBVIOUS
<1>1. DOMAIN Nowhere = {}
  BY DEF Nowhere
<1>2. LastDay \in Nat \ {0} /\ MaxRuns \in Nat
  BY InputAssumption
<1>. QED
  BY <1>1, <1>2 DEF Init, TypeOK, DayFile, Days, Stages, SheetInHand

LEMMA TypesKept == TypeOK /\ SheetInHand /\ [Next]_vars => TypeOK'
<1>. SUFFICES ASSUME TypeOK, SheetInHand, [Next]_vars PROVE TypeOK'
  OBVIOUS
<1>0. DOMAIN Nowhere = {}
  BY DEF Nowhere
<1>1. CASE StartFull
  BY <1>1, InputAssumption DEF StartFull, TypeOK, DayFile, Stages, ghosts
<1>2. ASSUME NEW s \in Stages, StartFrom(s) PROVE TypeOK'
  BY <1>2, InputAssumption DEF StartFrom, TypeOK, DayFile, Stages, ghosts, files
<1>3. CASE Halt
  BY <1>3 DEF Halt, TypeOK, DayFile, ghosts
<1>4. CASE Finish
  BY <1>0, <1>4 DEF Finish, TypeOK, DayFile, ghosts
<1>5. CASE Die
  BY <1>0, <1>5 DEF Die, TypeOK, DayFile, ghosts, files
<1>6. CASE NewDay
  <2>1. day' \in Days
    BY <1>6, InputAssumption DEF NewDay, TypeOK, Days
  <2>2. DOMAIN memo' = {} /\ DOMAIN sheet = {}
    BY <1>0, <1>6 DEF NewDay, SheetInHand
  <2>. QED
    BY <1>6, <2>1, <2>2 DEF NewDay, TypeOK, DayFile, Stages
<1>7. CASE Score
  <2>1. PICK o \in Outlooks : scoring' = Write(scoring, o)
    BY <1>7 DEF Score
  <2>2. DayFile(scoring', Outlooks)
    BY <2>1, WriteDay DEF TypeOK
  <2>. QED
    BY <1>7, <2>2 DEF Score, Proceed, Next1, TypeOK, DayFile, Stages
<1>8. CASE Allocate
  <2>1. PICK kept \in SUBSET Funds : alloc' = Write(alloc, kept)
    BY <1>8 DEF Allocate, Selections, Deduped
  <2>2. DayFile(alloc', SUBSET Funds)
    BY <2>1, WriteDay DEF TypeOK
  <2>. QED
    BY <1>8, <2>2 DEF Allocate, Outdating, Proceed, Next1, TypeOK, DayFile, Stages
<1>9. CASE Plan
  <2>1. alloc[Latest(alloc)] \subseteq Funds
    BY <1>9, LatestIs DEF Plan, Exists, TypeOK, DayFile
  <2>2. {TradeFor(f) : f \in alloc[Latest(alloc)]} \in SUBSET Trades
    BY <2>1, TradeForIs
  <2>3. DayFile(plan', SUBSET Trades)
    BY <1>9, <2>2, WriteDay DEF Plan, TypeOK
  <2>. QED
    BY <1>9, <2>3 DEF Plan, Outdating, Proceed, Next1, TypeOK, DayFile, Stages
<1>10. CASE Opportunity
  <2>1. PICK q \in Qualities, r \in Reviews : opp' = Write(opp, Report(q, r))
    BY <1>10 DEF Opportunity
  <2>2. \A d \in DOMAIN opp' :
          /\ d \in Days
          /\ opp'[d].kept \subseteq Funds
          /\ opp'[d].gapped \subseteq opp'[d].kept
          /\ opp'[d].review \in [Funds -> Reviewed]
    <3>. DEFINE R == Report(q, r)
    <3>1. /\ R.kept \subseteq Funds /\ R.gapped \subseteq R.kept
          /\ R.review \in [Funds -> Reviewed]
      BY ReportIs
    <3>. HIDE DEF R
    <3>2. opp' = Write(opp, R)
      BY <2>1 DEF R
    <3>3. /\ DOMAIN opp' = DOMAIN opp \cup {day} /\ opp'[day] = R
          /\ \A d \in DOMAIN opp \ {day} : opp'[d] = opp[d]
      BY <3>2, WriteIs
    <3>. QED
      BY <3>1, <3>3 DEF TypeOK, Reviewed
  <2>. QED
    BY <1>10, <2>2 DEF Opportunity, Outdating, Proceed, Next1, TypeOK, DayFile, Stages, Reviewed
<1>11. ASSUME NEW p \in BOOLEAN, MemoOutcome(p), at' \in {"decision", "idle"},
              marker' \in {marker, marker \cup {day}}
       PROVE  TypeOK'
  <2>1. PICK q \in BOOLEAN :
          memo' = Write(memo, [published |-> p, quoted |-> q,
                               picks |-> Picks(Latest(scoring))])
    BY <1>11 DEF MemoOutcome
  <2>. DEFINE P == Picks(Latest(scoring))
  <2>2. \A f \in DOMAIN P : P[f] \in Statuses
    BY StatusIs DEF Picks, PickStatus
  <2>. HIDE DEF P
  <2>3. \A d \in DOMAIN memo' :
          /\ d = day
          /\ memo'[d].published \in BOOLEAN /\ memo'[d].quoted \in BOOLEAN
          /\ \A f \in DOMAIN memo'[d].picks : memo'[d].picks[f] \in Statuses
    <3>1. memo' = Write(memo, [published |-> p, quoted |-> q, picks |-> P])
      BY <2>1 DEF P
    <3>. DEFINE R == [published |-> p, quoted |-> q, picks |-> P]
    <3>2. R.published = p /\ R.quoted = q /\ R.picks = P
      OBVIOUS
    <3>. HIDE DEF R
    <3>3. memo' = Write(memo, R)
      BY <3>1 DEF R
    <3>4. /\ DOMAIN memo' = DOMAIN memo \cup {day} /\ memo'[day] = R
          /\ \A d \in DOMAIN memo \ {day} : memo'[d] = memo[d]
      BY <3>3 DEF Write
    <3>. QED
      BY <2>2, <3>2, <3>4 DEF TypeOK
  <2>. QED
    BY <1>11, <2>3 DEF MemoOutcome, Made, TypeOK, DayFile, Stages
<1>12. CASE Decision
  <2>1. PICK known \in BOOLEAN :
          sheet' = Write(sheet, [status   |-> [f \in Funds |-> Verdict(f, known).status],
                                 action   |-> [f \in Funds |-> Verdict(f, known).action],
                                 promoted |-> Promotions,
                                 known    |-> known])
    BY <1>12 DEF Decision
  <2>2. \A f \in Funds : Verdict(f, known).status \in Statuses
    BY StatusIs DEF Verdict
  <2>3. Promotions \subseteq Funds
    BY PublishedAreFunds DEF Promotions
  <2>4. \A d \in DOMAIN sheet' :
          /\ d = day
          /\ sheet'[d].status \in [Funds -> Statuses]
          /\ sheet'[d].promoted \subseteq Funds
    <3>. DEFINE S == [f \in Funds |-> Verdict(f, known).status]
                A == [f \in Funds |-> Verdict(f, known).action]
    <3>1. S \in [Funds -> Statuses]
      BY <2>2
    <3>. HIDE DEF S, A
    <3>2. sheet' = Write(sheet, [status |-> S, action |-> A, promoted |-> Promotions,
                                 known |-> known])
      BY <2>1 DEF S, A
    <3>. DEFINE R == [status |-> S, action |-> A, promoted |-> Promotions, known |-> known]
    <3>3. R.status = S /\ R.promoted = Promotions
      OBVIOUS
    <3>4. sheet' = Write(sheet, R)
      BY <3>2
    <3>. HIDE DEF R
    <3>5. /\ DOMAIN sheet' = DOMAIN sheet \cup {day} /\ sheet'[day] = R
          /\ \A d \in DOMAIN sheet \ {day} : sheet'[d] = sheet[d]
      BY <3>4, WriteIs
    <3>. QED
      BY <2>3, <3>1, <3>3, <3>5 DEF TypeOK
  <2>5. DayFile(told', SUBSET Funds)
    <3>. DEFINE news == IF Earlier(opp) = {} THEN Core(day)
                        ELSE (ToldBefore \cap Core(day)) \cup Promotions
    <3>1. news \in SUBSET Funds
      BY <2>3, PublishedAreFunds
    <3>. HIDE DEF news
    <3>2. told' = IF day \notin DOMAIN opp THEN told ELSE Write(told, news)
      BY <1>12 DEF Decision, news
    <3>. QED
      BY <3>1, <3>2, WriteDay DEF TypeOK
  <2>6. at' = "finish"
    BY <1>12 DEF Decision, Proceed, Next1
  <2>. QED
    BY <1>12, <2>4, <2>5, <2>6 DEF Decision, files, TypeOK, DayFile, Stages
<1>13. CASE UNCHANGED vars
  BY <1>13 DEF vars, files, ghosts, TypeOK, DayFile
<1>14. CASE PublishMemo
  BY <1>11, <1>14 DEF PublishMemo
<1>15. CASE BlockMemo
  BY <1>11, <1>15 DEF BlockMemo
<1>. QED
  BY <1>1, <1>2, <1>3, <1>4, <1>5, <1>6, <1>7, <1>8, <1>9, <1>10, <1>12, <1>13,
     <1>14, <1>15 DEF Next

LEMMA SheetInHandKept == TypeOK /\ SheetInHand /\ [Next]_vars => SheetInHand'
<1>. SUFFICES ASSUME TypeOK, SheetInHand, [Next]_vars, at' # "finish"
              PROVE  DOMAIN sheet' = {}
  BY DEF SheetInHand
<1>1. DOMAIN Nowhere = {}
  BY DEF Nowhere
<1>2. CASE Finish \/ Die
  BY <1>1, <1>2 DEF Finish, Die
<1>3. CASE Decision
  BY <1>3 DEF Decision, Proceed, Next1
<1>4. CASE at # "finish" /\ UNCHANGED sheet
  BY <1>4 DEF SheetInHand
<1>5. CASE UNCHANGED vars
  BY <1>5 DEF vars, SheetInHand
<1>6. StartFull \/ (\E s \in Stages : StartFrom(s)) \/ Halt \/ NewDay \/ Score \/ Allocate
        \/ Plan \/ Opportunity \/ PublishMemo \/ BlockMemo
      => at # "finish" /\ UNCHANGED sheet
  BY DEF StartFull, StartFrom, Halt, NewDay, Score, Allocate, Plan, Opportunity,
         PublishMemo, BlockMemo, MemoOutcome, Proceed, Stages
<1>. QED
  BY <1>2, <1>3, <1>4, <1>5, <1>6 DEF Next

LEMMA TypesAlways == Spec => [](TypeOK /\ SheetInHand)
  BY TypesAtFirst, TypesKept, SheetInHandKept, PTL DEF Spec

-----------------------------------------------------------------------------
(* What the report says of the funds that are held.                        *)

LEMMA OnlyDecisionWrites ==
    ASSUME [Next]_vars, at' = "finish"
    PROVE  Decision \/ UNCHANGED vars
  BY DEF Next, StartFull, StartFrom, Halt, Finish, Die, NewDay, Score, Allocate, Plan,
         Opportunity, PublishMemo, BlockMemo, Proceed, Next1, Stages, vars

\* What Decision leaves: a verdict on every fund, over files it does not touch.
LEMMA DecisionIs ==
    ASSUME TypeOK, Decision
    PROVE  /\ \E known \in BOOLEAN :
                 /\ sheet'[day].known = known
                 /\ \A f \in Funds : /\ sheet'[day].status[f] = Verdict(f, known).status
                                     /\ sheet'[day].action[f] = Verdict(f, known).action
           /\ UNCHANGED <<day, files, stale>>
           /\ day \in DOMAIN scoring /\ day \in DOMAIN alloc /\ day \in DOMAIN plan
           /\ day \in DOMAIN memo
<1>1. PICK known \in BOOLEAN :
        sheet' = Write(sheet, [status   |-> [f \in Funds |-> Verdict(f, known).status],
                               action   |-> [f \in Funds |-> Verdict(f, known).action],
                               promoted |-> Promotions,
                               known    |-> known])
  BY DEF Decision
<1>. DEFINE S == [f \in Funds |-> Verdict(f, known).status]
            A == [f \in Funds |-> Verdict(f, known).action]
<1>2. \A f \in Funds : S[f] = Verdict(f, known).status /\ A[f] = Verdict(f, known).action
  OBVIOUS
<1>. HIDE DEF S, A
<1>. DEFINE R == [status |-> S, action |-> A, promoted |-> Promotions, known |-> known]
<1>3. R.status = S /\ R.action = A /\ R.known = known
  OBVIOUS
<1>4. sheet' = Write(sheet, R)
  BY <1>1 DEF S, A
<1>. HIDE DEF R
<1>5. sheet'[day] = R
  BY <1>4 DEF Write
<1>6. /\ sheet'[day].known = known
      /\ \A f \in Funds : /\ sheet'[day].status[f] = Verdict(f, known).status
                          /\ sheet'[day].action[f] = Verdict(f, known).action
  BY <1>2, <1>3, <1>5
<1>7. /\ UNCHANGED <<day, files, stale>>
      /\ day \in DOMAIN scoring /\ day \in DOMAIN alloc /\ day \in DOMAIN plan
      /\ day \in DOMAIN memo
  BY DEF Decision
<1>. QED
  BY <1>6, <1>7

Signals == {"trim_review", "exit_review", "review"}

LEMMA SignalsAreHeard ==
    ASSUME TypeOK, NEW f \in Held \cap Published(day), Row(day, f).risk # "none", NEW known
    PROVE  Verdict(f, known).action \in Signals
<1>1. day \in DOMAIN opp /\ f \in Funds
  BY FundAssumption DEF Published
<1>2. Row(day, f).risk \in Risks
  BY <1>1 DEF TypeOK, Row
<1>3. Row(day, f).risk \in {"trim_review", "exit_review", "review_required"}
  BY <1>2 DEF Risks
<1>4. \A b, a, s : PortfolioAction(Row(day, f).risk, TRUE, b, a, s) \in Signals
  BY <1>3 DEF PortfolioAction, Signals
<1>. QED
  BY <1>4 DEF Verdict

LEMMA SignalsKept == TypeOK /\ SellSignalsSurface /\ [Next]_vars => SellSignalsSurface'
<1>. SUFFICES ASSUME TypeOK, SellSignalsSurface, [Next]_vars, at' = "finish",
                     NEW f \in Held \cap Published(day)', (Row(day, f).risk # "none")'
              PROVE  sheet'[day'].action[f] \in Signals
  BY DEF SellSignalsSurface, Written, Signals
<1>1. CASE UNCHANGED vars
  <2>1. UNCHANGED <<at, opp, sheet, day>>
    BY <1>1 DEF vars, files
  <2>2. f \in Held \cap Published(day) /\ Row(day, f).risk # "none"
    BY <2>1 DEF Published, Row
  <2>. QED
    BY <2>1, <2>2 DEF SellSignalsSurface, Written, Signals
<1>2. CASE Decision
  <2>1. UNCHANGED <<opp, day>>
    BY <1>2, DecisionIs DEF files
  <2>2. f \in Held \cap Published(day) /\ Row(day, f).risk # "none"
    BY <2>1 DEF Published, Row
  <2>3. \A known : Verdict(f, known).action \in Signals
    BY <2>2, SignalsAreHeard
  <2>4. f \in Funds
    BY <2>2, FundAssumption
  <2>. QED
    BY <1>2, <2>1, <2>3, <2>4, DecisionIs
<1>. QED
  BY <1>1, <1>2, OnlyDecisionWrites

\* A sell or review signal on a fund that is held reaches the report, whatever
\* blocks buying and whichever runs wrote the files.
THEOREM SellSignalsAreHeard == Spec => []SellSignalsSurface
<1>1. Init => SellSignalsSurface
  BY DEF Init, SellSignalsSurface, Written
<1>. QED
  BY <1>1, SignalsKept, TypesAlways, PTL DEF Spec

-----------------------------------------------------------------------------
(* The reduction, and the promotions from report to report.                *)

\* The funds of one theme a report keeps though they are not held.
Newly(rep, t) == {f \in rep.kept \ Held : Theme[f] = t}
Reduced(rep) ==
    /\ Held \subseteq rep.kept
    /\ \A f \in Funds : Theme[f] # NoTheme =>
          /\ Cardinality(Newly(rep, Theme[f])) <= 2
          /\ \A g, h \in Newly(rep, Theme[f]) : Key[g] = Key[h] => g = h

LEMMA ReportIsReduced ==
    ASSUME NEW q \in Qualities, NEW r \in Reviews
    PROVE  Reduced(Report(q, r))
<1>. DEFINE rep == Report(q, r)
<1>1. rep.kept = Kept(q)
  BY ReportIs
<1>. HIDE DEF rep
<1>2. ASSUME NEW f \in Funds, Theme[f] # NoTheme
      PROVE  Newly(rep, Theme[f]) \subseteq Best(Theme[f], q)
  <2>1. ASSUME NEW g \in Newly(rep, Theme[f]) PROVE g \in Best(Theme[f], q)
    <3>1. g \in Kept(q) \ Held /\ Theme[g] = Theme[f]
      BY <1>1 DEF Newly
    <3>2. g \notin ThemeRows(NoTheme)
      BY <1>2, <3>1 DEF ThemeRows
    <3>3. PICK t : g \in Best(t, q)
      BY <3>1, <3>2 DEF Kept
    <3>4. g \in ThemeRows(t)
      BY <3>3 DEF Best, KeyBest
    <3>5. t = Theme[f]
      BY <3>1, <3>4 DEF ThemeRows
    <3>. QED
      BY <3>3, <3>5
  <2>. QED
    BY <2>1
<1>3. ASSUME NEW f \in Funds, Theme[f] # NoTheme
      PROVE  /\ Cardinality(Newly(rep, Theme[f])) <= 2
             /\ \A g, h \in Newly(rep, Theme[f]) : Key[g] = Key[h] => g = h
  <2>. DEFINE N == Newly(rep, Theme[f])
              B == Best(Theme[f], q)
  <2>1. N \subseteq B
    BY <1>2, <1>3
  <2>2. /\ IsFiniteSet(B) /\ Cardinality(B) <= 2
        /\ \A g, h \in B : Key[g] = Key[h] => g = h
    BY BestAreTwo
  <2>. HIDE DEF N, B
  <2>3. IsFiniteSet(N) /\ Cardinality(N) <= Cardinality(B)
    BY <2>1, <2>2, FS_Subset
  <2>4. Cardinality(N) \in Nat /\ Cardinality(B) \in Nat
    BY <2>2, <2>3, FS_CardinalityType
  <2>5. Cardinality(N) <= 2 /\ \A g, h \in N : Key[g] = Key[h] => g = h
    BY <2>1, <2>2, <2>3, <2>4
  <2>. QED
    BY <2>5 DEF N
<1>4. Held \subseteq rep.kept
  BY <1>1 DEF Kept
<1>5. Reduced(rep)
  BY <1>3, <1>4 DEF Reduced
<1>. QED
  BY <1>5 DEF rep

LEMMA ThemesAre == ThemesAreReduced <=> \A d \in DOMAIN opp : Reduced(opp[d])
  BY DEF ThemesAreReduced, Reduced, Newly, MaxPerTheme

LEMMA OppWritten ==
    ASSUME Opportunity
    PROVE  \E q \in Qualities, r \in Reviews :
             /\ DOMAIN opp' = DOMAIN opp \cup {day} /\ opp'[day] = Report(q, r)
             /\ \A d \in DOMAIN opp \ {day} : opp'[d] = opp[d]
<1>1. PICK q \in Qualities, r \in Reviews : opp' = Write(opp, Report(q, r))
  BY DEF Opportunity
<1>. DEFINE R == Report(q, r)
<1>. HIDE DEF R
<1>2. opp' = Write(opp, R)
  BY <1>1 DEF R
<1>3. /\ DOMAIN opp' = DOMAIN opp \cup {day} /\ opp'[day] = R
      /\ \A d \in DOMAIN opp \ {day} : opp'[d] = opp[d]
  BY <1>2 DEF Write
<1>. QED
  BY <1>3 DEF R

LEMMA OthersKeepOpp ==
    ASSUME [Next]_vars PROVE Opportunity \/ UNCHANGED opp
  BY DEF Next, StartFull, StartFrom, Halt, Finish, Die, NewDay, Score, Allocate, Plan,
         PublishMemo, BlockMemo, MemoOutcome, Decision, files, vars

LEMMA ThemesKept == ThemesAreReduced /\ [Next]_vars => ThemesAreReduced'
<1>. SUFFICES ASSUME ThemesAreReduced, [Next]_vars PROVE ThemesAreReduced'
  OBVIOUS
<1>1. \A d \in DOMAIN opp : Reduced(opp[d])
  BY ThemesAre
<1>2. \A d \in DOMAIN opp' : Reduced(opp'[d])
  <2>1. CASE UNCHANGED opp
    BY <1>1, <2>1
  <2>2. CASE Opportunity
    <3>1. PICK q \in Qualities, r \in Reviews :
            /\ DOMAIN opp' = DOMAIN opp \cup {day} /\ opp'[day] = Report(q, r)
            /\ \A d \in DOMAIN opp \ {day} : opp'[d] = opp[d]
      BY <2>2, OppWritten
    <3>2. Reduced(Report(q, r))
      BY ReportIsReduced
    <3>. QED
      BY <1>1, <3>1, <3>2
  <2>. QED
    BY <2>1, <2>2, OthersKeepOpp
<1>. QED
  BY <1>2 DEF ThemesAreReduced, Reduced, Newly, MaxPerTheme

\* No file is of a day to come.
Past(f) == \A d \in DOMAIN f : d <= day
FilesArePast == Past(scoring) /\ Past(alloc) /\ Past(plan) /\ Past(opp) /\ Past(told)

LEMMA WriteIsPast ==
    ASSUME NEW f, NEW v, day \in Int, \A d \in DOMAIN f : d <= day
    PROVE  \A d \in DOMAIN Write(f, v) : d <= day
  BY DEF Write

LEMMA FilesArePastKept == TypeOK /\ FilesArePast /\ [Next]_vars => FilesArePast'
<1>. SUFFICES ASSUME TypeOK, FilesArePast, [Next]_vars PROVE FilesArePast'
  OBVIOUS
<1>0. day \in Int
  BY DEF TypeOK, Days
<1>1. CASE UNCHANGED <<day, scoring, alloc, plan, opp, told>>
  BY <1>1 DEF FilesArePast, Past
<1>2. CASE NewDay
  <2>1. day' = day + 1 /\ UNCHANGED <<scoring, alloc, plan, opp, told>>
    BY <1>2 DEF NewDay
  <2>2. /\ DayFile(scoring, Outlooks) /\ DayFile(alloc, SUBSET Funds)
        /\ DayFile(plan, SUBSET Trades) /\ DayFile(told, SUBSET Funds)
        /\ \A d \in DOMAIN opp : d \in Days
    BY DEF TypeOK
  <2>. QED
    BY <1>0, <2>1, <2>2 DEF FilesArePast, Past, DayFile, Days
<1>3. CASE Score
  <2>1. /\ UNCHANGED <<day, alloc, plan, opp, told>>
        /\ \E o : scoring' = Write(scoring, o)
    BY <1>3 DEF Score
  <2>. QED
    BY <1>0, <2>1, WriteIsPast DEF FilesArePast, Past
<1>4. CASE Allocate
  <2>1. /\ UNCHANGED <<day, scoring, plan, opp, told>>
        /\ \E o : alloc' = Write(alloc, o)
    BY <1>4 DEF Allocate
  <2>. QED
    BY <1>0, <2>1, WriteIsPast DEF FilesArePast, Past
<1>5. CASE Plan
  <2>1. /\ UNCHANGED <<day, scoring, alloc, opp, told>>
        /\ \E o : plan' = Write(plan, o)
    BY <1>5 DEF Plan
  <2>. QED
    BY <1>0, <2>1, WriteIsPast DEF FilesArePast, Past
<1>6. CASE Opportunity
  <2>1. /\ UNCHANGED <<day, scoring, alloc, plan, told>>
        /\ DOMAIN opp' = DOMAIN opp \cup {day}
    BY <1>6, OppWritten DEF Opportunity
  <2>. QED
    BY <1>0, <2>1 DEF FilesArePast, Past
<1>7. CASE Decision
  <2>1. /\ UNCHANGED <<day, scoring, alloc, plan, opp>>
        /\ told' = told \/ \E o : told' = Write(told, o)
    BY <1>7 DEF Decision, files
  <2>. QED
    BY <1>0, <2>1, WriteIsPast DEF FilesArePast, Past
<1>8. [Next]_vars => \/ NewDay \/ Score \/ Allocate \/ Plan \/ Opportunity \/ Decision
                     \/ UNCHANGED <<day, scoring, alloc, plan, opp, told>>
  BY DEF Next, StartFull, StartFrom, Halt, Finish, Die, PublishMemo, BlockMemo,
         MemoOutcome, files, ghosts, vars
<1>. QED
  BY <1>1, <1>2, <1>3, <1>4, <1>5, <1>6, <1>7, <1>8

\* What has been told of the funds that are core, by day with a report: all of
\* them, once every report up to that day's has been read by a decision.
CoreIsTold ==
    /\ DOMAIN told \subseteq DOMAIN opp
    /\ \A d \in DOMAIN opp :
          (\A e \in undecided : ~(e <= d)) => d \in DOMAIN told /\ Core(d) \subseteq told[d]

LEMMA DecisionTells ==
    ASSUME TypeOK, FilesArePast, CoreIsTold, Decision, day \in DOMAIN opp,
           \A e \in undecided \ {day} : ~(e <= day)
    PROVE  /\ DOMAIN told' = DOMAIN told \cup {day} /\ Core(day) \subseteq told'[day]
<1>. DEFINE news == IF Earlier(opp) = {} THEN Core(day)
                    ELSE (ToldBefore \cap Core(day)) \cup Promotions
<1>1. Core(day) \subseteq news
  <2>1. CASE Earlier(opp) = {}
    BY <2>1
  <2>2. CASE Earlier(opp) # {}
    <3>. DEFINE e == LastOf(Earlier(opp))
    <3>1. DOMAIN opp \subseteq Days /\ DOMAIN told \subseteq Days /\ day \in Int
      BY DEF TypeOK, DayFile, Days
    <3>2. e \in DOMAIN opp /\ e < day /\ \A d \in Earlier(opp) : d <= e
      BY <2>2, <3>1, LastIs DEF Earlier
    <3>3. e \in Int
      BY <3>1, <3>2 DEF Days
    <3>. HIDE DEF e
    <3>4. \A u \in undecided : ~(u <= e)
      <4>1. undecided \subseteq Days
        BY DEF TypeOK
      <4>. QED
        BY <3>1, <3>2, <3>3, <4>1 DEF Days
    <3>5. e \in DOMAIN told /\ Core(e) \subseteq told[e]
      BY <3>2, <3>4 DEF CoreIsTold
    <3>6. e \in Earlier(told) /\ Earlier(told) \subseteq Earlier(opp)
      BY <3>2, <3>5 DEF Earlier, CoreIsTold
    <3>7. LastOf(Earlier(told)) \in Earlier(told) /\ e <= LastOf(Earlier(told))
      BY <3>1, <3>6, LastIs DEF Earlier
    <3>8. LastOf(Earlier(told)) = e
      <4>1. LastOf(Earlier(told)) <= e /\ LastOf(Earlier(told)) \in Int
        BY <3>1, <3>2, <3>6, <3>7 DEF Earlier, Days
      <4>. QED
        BY <3>3, <3>7, <4>1
    <3>9. ToldBefore = told[e] /\ Promotions = Core(day) \ Core(e)
      BY <2>2, <3>6, <3>8 DEF ToldBefore, Promotions, e
    <3>. QED
      BY <2>2, <3>5, <3>9
  <2>. QED
    BY <2>1, <2>2
<1>. HIDE DEF news
<1>2. told' = Write(told, news)
  BY DEF Decision, news
<1>3. DOMAIN told' = DOMAIN told \cup {day} /\ told'[day] = news
  BY <1>2 DEF Write
<1>. QED
  BY <1>1, <1>3

LEMMA CoreIsToldKept ==
    TypeOK /\ FilesArePast /\ CoreIsTold /\ [Next]_vars => CoreIsTold'
<1>. SUFFICES ASSUME TypeOK, FilesArePast, CoreIsTold, [Next]_vars PROVE CoreIsTold'
  OBVIOUS
<1>0. day \in Int /\ DOMAIN opp \subseteq Int /\ \A d \in DOMAIN opp : d <= day
  BY DEF TypeOK, Days, FilesArePast, Past
<1>1. CASE UNCHANGED <<opp, told, undecided>>
  BY <1>1 DEF CoreIsTold, Core, Published, Row
<1>2. CASE Opportunity
  <2>1. /\ DOMAIN opp' = DOMAIN opp \cup {day}
        /\ \A d \in DOMAIN opp \ {day} : opp'[d] = opp[d]
    BY <1>2, OppWritten
  <2>2. told' = told /\ undecided' = undecided \cup {day}
    BY <1>2 DEF Opportunity
  <2>3. ASSUME NEW d \in DOMAIN opp', \A e \in undecided' : ~(e <= d)
        PROVE  d \in DOMAIN told' /\ Core(d)' \subseteq told'[d]
    <3>1. d # day /\ d \in DOMAIN opp
      BY <1>0, <2>1, <2>2, <2>3
    <3>2. d \in DOMAIN told /\ Core(d) \subseteq told[d]
      BY <2>2, <2>3, <3>1 DEF CoreIsTold
    <3>3. Core(d)' = Core(d)
      BY <2>1, <3>1 DEF Core, Published, Row
    <3>. QED
      BY <2>2, <3>2, <3>3
  <2>4. DOMAIN told' \subseteq DOMAIN opp'
    BY <2>1, <2>2 DEF CoreIsTold
  <2>5. \A d \in DOMAIN opp' :
          (\A e \in undecided' : ~(e <= d)) => d \in DOMAIN told' /\ Core(d)' \subseteq told'[d]
    BY <2>3
  <2>. QED
    BY <2>4, <2>5 DEF CoreIsTold
<1>3. CASE Decision
  <2>1. opp' = opp /\ undecided' = undecided \ {day}
    BY <1>3 DEF Decision, files
  <2>2. \A d : Core(d)' = Core(d)
    BY <2>1 DEF Core, Published, Row
  <2>3. /\ DOMAIN told' \subseteq DOMAIN told \cup {day}
        /\ DOMAIN told \subseteq DOMAIN told'
        /\ \A d \in DOMAIN told \ {day} : told'[d] = told[d]
        /\ day \notin DOMAIN opp => told' = told
    <3>1. told' = told \/ \E v : told' = Write(told, v)
      BY <1>3 DEF Decision
    <3>2. day \notin DOMAIN opp => told' = told
      BY <1>3 DEF Decision
    <3>. QED
      BY <3>1, <3>2 DEF Write
  <2>4. ASSUME NEW d \in DOMAIN opp, \A e \in undecided' : ~(e <= d)
        PROVE  d \in DOMAIN told' /\ Core(d) \subseteq told'[d]
    <3>1. CASE d = day
      BY <1>3, <2>1, <2>4, <3>1, DecisionTells
    <3>2. CASE d # day
      <4>1. ~(day <= d)
        BY <1>0, <3>2
      <4>2. d \in DOMAIN told /\ Core(d) \subseteq told[d]
        BY <2>1, <2>4, <4>1 DEF CoreIsTold
      <4>. QED
        BY <2>3, <3>2, <4>2
    <3>. QED
      BY <3>1, <3>2
  <2>5. DOMAIN told' \subseteq DOMAIN opp'
    BY <2>1, <2>3 DEF CoreIsTold
  <2>6. \A d \in DOMAIN opp' :
          (\A e \in undecided' : ~(e <= d)) => d \in DOMAIN told' /\ Core(d)' \subseteq told'[d]
    BY <2>1, <2>2, <2>4
  <2>. QED
    BY <2>5, <2>6 DEF CoreIsTold
<1>4. [Next]_vars => Opportunity \/ Decision \/ UNCHANGED <<opp, told, undecided>>
  BY DEF Next, StartFull, StartFrom, Halt, Finish, Die, NewDay, Score, Allocate, Plan,
         PublishMemo, BlockMemo, MemoOutcome, files, ghosts, vars
<1>. QED
  BY <1>1, <1>2, <1>3, <1>4

LEMMA ReportsAlways == Spec => [](FilesArePast /\ CoreIsTold /\ ThemesAreReduced)
<1>1. Init => FilesArePast /\ CoreIsTold /\ ThemesAreReduced
  <2>1. DOMAIN Nowhere = {}
    BY DEF Nowhere
  <2>. QED
    BY <2>1 DEF Init, FilesArePast, Past, CoreIsTold, ThemesAreReduced
<1>. QED
  BY <1>1, FilesArePastKept, CoreIsToldKept, ThemesKept, TypesAlways, PTL DEF Spec

\* No fund drops out between the reports: none that is held is reduced away,
\* at most two of a theme are kept beside those and of different keys, and a
\* fund that is core was announced, whatever runs, halts and kills there were
\* and however many days lie between two reports.
THEOREM FundsAreFollowed == Spec => []EveryFundIsFollowed
<1>1. FilesArePast /\ CoreIsTold /\ TypeOK => NewcomersAreAnnounced
  <2>. SUFFICES ASSUME FilesArePast, CoreIsTold, TypeOK, undecided = {},
                       NEW f \in Core(day)
                PROVE  f \in told[day]
    BY DEF NewcomersAreAnnounced
  <2>1. day \in DOMAIN opp
    BY DEF Core, Published
  <2>. QED
    BY <2>1 DEF CoreIsTold
<1>. QED
  BY <1>1, ReportsAlways, TypesAlways, PTL DEF EveryFundIsFollowed

-----------------------------------------------------------------------------
(* What is a buy can be bought: files that are not stale agree.            *)

FilesAgree ==
    /\ "plan" \notin stale =>
          /\ day \in DOMAIN plan /\ day \in DOMAIN alloc
          /\ plan[day] = {TradeFor(f) : f \in alloc[day]}
    /\ "opportunity" \notin stale => day \in DOMAIN opp
    /\ "memo" \notin stale =>
          /\ day \in DOMAIN memo
          /\ DOMAIN memo[day].picks = Targets(day) \cap Published(day)
          /\ \A f \in Targets(day) \cap Published(day) : memo[day].picks[f] = PickStatus(day, f)

\* TradeOf as a function of the file alone: which trade it names is fixed.
TradeIn(file, d, f) ==
    CHOOSE t \in (IF d \in DOMAIN file THEN file[d] ELSE {}) : t.target = f

LEMMA TradeOfKept ==
    ASSUME UNCHANGED plan, NEW d, NEW f
    PROVE  TradeOf(d, f)' = TradeOf(d, f)
<1>1. TradeOf(d, f) = TradeIn(plan, d, f)
  BY DEF TradeOf, Planned, TradeIn
<1>2. TradeOf(d, f)' = TradeIn(plan', d, f)
  BY DEF TradeOf, Planned, TradeIn
<1>. QED
  BY <1>1, <1>2

LEMMA PicksKept ==
    ASSUME UNCHANGED <<scoring, plan, opp>>, NEW d, NEW f
    PROVE  /\ PickStatus(d, f)' = PickStatus(d, f)
           /\ Targets(d)' = Targets(d) /\ Published(d)' = Published(d)
<1>1. TradeOf(d, f)' = TradeOf(d, f)
  BY TradeOfKept
<1>2. PickStatus(d, f)' = PickStatus(d, f)
  BY <1>1 DEF PickStatus, QdiiBuy, VenueOfTrade
<1>3. Targets(d)' = Targets(d) /\ Published(d)' = Published(d)
  BY DEF Targets, Planned, Published
<1>. QED
  BY <1>2, <1>3

LEMMA FilesAgreeKept ==
    TypeOK /\ FilesArePast /\ FilesAgree /\ [Next]_vars => FilesAgree'
<1>. SUFFICES ASSUME TypeOK, FilesArePast, FilesAgree, [Next]_vars PROVE FilesAgree'
  OBVIOUS
<1>0. day \in Days /\ DOMAIN scoring \subseteq Days /\ DOMAIN alloc \subseteq Days
  BY DEF TypeOK, DayFile
<1>1. CASE UNCHANGED <<day, scoring, alloc, plan, opp, memo, stale>>
  BY <1>1, PicksKept DEF FilesAgree
<1>2. CASE NewDay \/ Score
  <2>1. stale' = Stages \ {"score", "decision"}
    BY <1>2 DEF NewDay, Score
  <2>. QED
    BY <2>1 DEF FilesAgree, Stages
<1>3. CASE Allocate
  <2>1. "plan" \in stale' /\ "memo" \in stale' /\ ("opportunity" \in stale => "opportunity" \in stale')
        /\ UNCHANGED <<day, opp>>
    BY <1>3 DEF Allocate, Outdating
  <2>. QED
    BY <2>1 DEF FilesAgree
<1>4. CASE Plan
  <2>1. /\ "memo" \in stale' /\ ("opportunity" \in stale => "opportunity" \in stale')
        /\ day \notin DOMAIN alloc => "plan" \in stale'
        /\ UNCHANGED <<day, opp, alloc>>
        /\ plan' = Write(plan, {TradeFor(f) : f \in alloc[Latest(alloc)]})
    BY <1>4 DEF Plan, Outdating
  <2>2. ASSUME day \in DOMAIN alloc
        PROVE  day \in DOMAIN plan' /\ plan'[day] = {TradeFor(f) : f \in alloc[day]}
    <3>1. Latest(alloc) = day
      <4>1. Latest(alloc) \in DOMAIN alloc /\ day <= Latest(alloc)
        BY <1>0, <2>2, LatestIs
      <4>2. Latest(alloc) <= day
        BY <4>1 DEF FilesArePast, Past
      <4>. QED
        BY <1>0, <4>1, <4>2 DEF Days
    <3>. DEFINE v == {TradeFor(f) : f \in alloc[day]}
    <3>. HIDE DEF v
    <3>2. plan' = Write(plan, v)
      BY <2>1, <3>1 DEF v
    <3>3. day \in DOMAIN plan' /\ plan'[day] = v
      BY <3>2 DEF Write
    <3>. QED
      BY <3>3 DEF v
  <2>. QED
    BY <2>1, <2>2 DEF FilesAgree
<1>5. CASE Opportunity
  <2>1. /\ "memo" \in stale' /\ ("plan" \in stale => "plan" \in stale')
        /\ UNCHANGED <<day, plan, alloc>>
    BY <1>5 DEF Opportunity, Outdating
  <2>2. day \in DOMAIN opp'
    BY <1>5, OppWritten
  <2>. QED
    BY <2>1, <2>2 DEF FilesAgree
<1>6. ASSUME NEW p \in BOOLEAN, MemoOutcome(p) PROVE FilesAgree'
  <2>1. /\ ("plan" \in stale => "plan" \in stale')
        /\ ("opportunity" \in stale => "opportunity" \in stale')
        /\ day \notin DOMAIN scoring => "memo" \in stale'
        /\ UNCHANGED <<day, scoring, alloc, plan, opp>>
    BY <1>6 DEF MemoOutcome, Made
  <2>2. PICK q \in BOOLEAN :
          memo' = Write(memo, [published |-> p, quoted |-> q, picks |-> Picks(Latest(scoring))])
    BY <1>6 DEF MemoOutcome
  <2>3. ASSUME day \in DOMAIN scoring
        PROVE  /\ day \in DOMAIN memo'
               /\ DOMAIN memo'[day].picks = Targets(day) \cap Published(day)
               /\ \A f \in Targets(day) \cap Published(day) :
                     memo'[day].picks[f] = PickStatus(day, f)
    <3>1. Latest(scoring) = day
      <4>1. Latest(scoring) \in DOMAIN scoring /\ day <= Latest(scoring)
        BY <1>0, <2>3, LatestIs
      <4>2. Latest(scoring) <= day
        BY <4>1 DEF FilesArePast, Past
      <4>. QED
        BY <1>0, <4>1, <4>2 DEF Days
    <3>. DEFINE P == Picks(day)
                R == [published |-> p, quoted |-> q, picks |-> P]
    <3>2. /\ DOMAIN P = Targets(day) \cap Published(day)
          /\ \A f \in Targets(day) \cap Published(day) : P[f] = PickStatus(day, f)
      BY DEF Picks
    <3>. HIDE DEF P
    <3>3. R.picks = P
      OBVIOUS
    <3>4. memo' = Write(memo, R)
      BY <2>2, <3>1 DEF P
    <3>. HIDE DEF R
    <3>5. day \in DOMAIN memo' /\ memo'[day] = R
      BY <3>4 DEF Write
    <3>. QED
      BY <3>2, <3>3, <3>5
  <2>4. /\ \A f : PickStatus(day, f)' = PickStatus(day, f)
        /\ Targets(day)' = Targets(day) /\ Published(day)' = Published(day)
    BY <2>1, PicksKept
  <2>5. "memo" \notin stale' =>
          /\ day \in DOMAIN memo'
          /\ DOMAIN memo'[day].picks = Targets(day)' \cap Published(day)'
          /\ \A f \in Targets(day)' \cap Published(day)' :
                memo'[day].picks[f] = PickStatus(day, f)'
    BY <2>1, <2>3, <2>4
  <2>. QED
    BY <2>1, <2>5 DEF FilesAgree
<1>7. CASE PublishMemo \/ BlockMemo
  BY <1>6, <1>7 DEF PublishMemo, BlockMemo
<1>8. [Next]_vars => \/ NewDay \/ Score \/ Allocate \/ Plan \/ Opportunity
                     \/ PublishMemo \/ BlockMemo
                     \/ UNCHANGED <<day, scoring, alloc, plan, opp, memo, stale>>
  BY DEF Next, StartFull, StartFrom, Halt, Finish, Die, Decision, files, ghosts, vars
<1>. QED
  BY <1>1, <1>2, <1>3, <1>4, <1>5, <1>7, <1>8

\* The trade found under a fund's name is one of the plan's, for that fund.
LEMMA TradeOfIs ==
    ASSUME TypeOK, NEW f \in Targets(day)
    PROVE  /\ TradeOf(day, f) \in Planned(day) /\ TradeOf(day, f).target = f
           /\ TradeOf(day, f) \in Trades
<1>1. \E t \in Planned(day) : t.target = f
  BY DEF Targets
<1>2. TradeOf(day, f) \in Planned(day) /\ TradeOf(day, f).target = f
  BY <1>1 DEF TradeOf
<1>3. Planned(day) \subseteq Trades
  BY DEF Planned, TypeOK, DayFile
<1>. QED
  BY <1>2, <1>3

LEMMA PlannedIs ==
    ASSUME FilesAgree, TypeOK, "plan" \notin stale
    PROVE  /\ day \in DOMAIN plan /\ day \in DOMAIN alloc
           /\ alloc[day] \subseteq Funds
           /\ Planned(day) = {TradeFor(f) : f \in alloc[day]}
  BY DEF FilesAgree, TypeOK, DayFile, Planned

LEMMA BuyIsSound ==
    ASSUME TypeOK, FilesAgree, stale = {}, day \in DOMAIN memo, NEW f \in Funds,
           Verdict(f, TRUE).status = "actionable_buy"
    PROVE  /\ TradeFor(f).direct /\ TradeFor(f) \in plan[day]
           /\ f \in Published(day)
           /\ day \notin marker /\ memo[day].quoted
<1>. DEFINE s == scoring[day][f]
            venue == Venue(day, f, TRUE)
            excluded == day \in DOMAIN opp /\ f \in Targets(day) \ Published(day)
            blockers == Blockers(day \in marker, s, venue, ~memo[day].quoted,
                                 QdiiBuy(f, s) /\ s.premium = "none",
                                 QdiiBuy(f, s) /\ s.premium = "high", excluded)
            listed == f \in Published(day)
            pa == PortfolioAction(IF listed THEN Row(day, f).risk ELSE "none",
                                  listed /\ f \in Held, blockers,
                                  s.action, f \in alloc[day])
<1>1. Status(s.action, blockers, f \in alloc[day], pa) = "actionable_buy"
  BY DEF Verdict
<1>2. blockers = {} /\ f \in alloc[day]
  <2>. HIDE DEF blockers, pa
  <2>. QED
    BY <1>1 DEF Status
<1>3. day \notin marker /\ memo[day].quoted /\ venue # "blocked_no_proxy" /\ ~excluded
  <2>1. "pipeline_halted" \notin blockers /\ "venue_blocked" \notin blockers
        /\ "memo_narrative_only" \notin blockers /\ "opportunity_excluded" \notin blockers
    BY <1>2
  <2>. HIDE DEF s, venue, excluded
  <2>. QED
    BY <2>1 DEF Blockers
<1>. HIDE DEF blockers, pa
<1>4. /\ day \in DOMAIN plan /\ plan[day] = Planned(day)
      /\ Planned(day) = {TradeFor(g) : g \in alloc[day]} /\ alloc[day] \subseteq Funds
      /\ day \in DOMAIN opp
  BY PlannedIs DEF Planned, FilesAgree
<1>5. TradeFor(f) \in Planned(day)
  BY <1>2, <1>4
<1>6. f \in Reachable
  <2>. SUFFICES ASSUME f \notin Reachable PROVE FALSE
    OBVIOUS
  <2>1. CASE f \in Targets(day)
    <3>1. /\ TradeOf(day, f) \in Planned(day) /\ TradeOf(day, f).target = f
      BY <2>1, TradeOfIs
    <3>2. PICK g \in alloc[day] : TradeOf(day, f) = TradeFor(g)
      BY <1>4, <3>1
    <3>3. g \in Funds
      BY <1>4
    <3>4. ~TradeFor(g).direct /\ ~TradeFor(g).proxied
      BY <3>1, <3>2, <3>3, TradeForIs
    <3>5. venue = "blocked_no_proxy"
      BY <2>1, <3>2, <3>4 DEF Venue, VenueOfTrade
    <3>. QED
      BY <1>3, <3>5
  <2>2. CASE f \notin Targets(day)
    <3>1. venue = "blocked_no_proxy"
      BY <2>2 DEF Venue
    <3>. QED
      BY <1>3, <3>1
  <2>. QED
    BY <2>1, <2>2
<1>7. TradeFor(f) = [target |-> f, direct |-> TRUE, proxied |-> FALSE]
  BY <1>6, TradeForIs
<1>8. TradeFor(f).direct = TRUE /\ TradeFor(f).target = f
  BY <1>7
<1>9. f \in Targets(day)
  BY <1>5, <1>8 DEF Targets
<1>10. f \in Published(day)
  BY <1>3, <1>4, <1>9
<1>. QED
  BY <1>3, <1>4, <1>5, <1>8, <1>10

\* A fund bought under its own name gets one verdict from both stages.
LEMMA SameIsSaid ==
    ASSUME TypeOK, FilesAgree, stale = {}, day \in DOMAIN scoring, day \in DOMAIN memo,
           NEW f \in Targets(day) \cap Published(day), NEW known,
           TradeOf(day, f).direct, scoring[day][f].premium # "nan",
           day \notin marker, memo[day].quoted
    PROVE  \/ PickStatus(day, f) = Verdict(f, known).status
           \/ PickStatus(day, f) = "watch_only" /\ Verdict(f, known).status = "review_sell_later"
<1>. DEFINE s == scoring[day][f]
            venue == Venue(day, f, known)
            excluded == day \in DOMAIN opp /\ f \in Targets(day) \ Published(day)
            blockers == Blockers(day \in marker, s, venue, ~memo[day].quoted,
                                 QdiiBuy(f, s) /\ s.premium = "none",
                                 QdiiBuy(f, s) /\ s.premium = "high", excluded)
            mine == Blockers(FALSE, s, VenueOfTrade(TradeOf(day, f)), FALSE,
                             QdiiBuy(f, s) /\ s.premium \in {"none", "nan"},
                             QdiiBuy(f, s) /\ s.premium = "high", FALSE)
            listed == f \in Published(day)
            pa == PortfolioAction(IF listed THEN Row(day, f).risk ELSE "none",
                                  listed /\ f \in Held, blockers,
                                  s.action, f \in alloc[day])
<1>1. venue = "direct" /\ VenueOfTrade(TradeOf(day, f)) = "direct"
  BY DEF Venue, VenueOfTrade
<1>2. ~excluded
  OBVIOUS
<1>3. blockers = mine
  <2>. HIDE DEF venue, excluded, s
  <2>1. (QdiiBuy(f, s) /\ s.premium \in {"none", "nan"}) <=> (QdiiBuy(f, s) /\ s.premium = "none")
    BY DEF s
  <2>2. \A b : b \in blockers <=> b \in mine
    BY <1>1, <1>2, <2>1 DEF Blockers
  <2>. QED
    BY <2>2
<1>4. f \in alloc[day]
  <2>1. TradeOf(day, f) \in Planned(day) /\ TradeOf(day, f).target = f
    BY TradeOfIs
  <2>2. PICK g \in alloc[day] : TradeOf(day, f) = TradeFor(g)
    BY <2>1, PlannedIs
  <2>3. g \in Funds
    BY PlannedIs
  <2>4. g \in Reachable
    BY <2>2, <2>3, TradeForIs
  <2>5. TradeFor(g).target = g
    BY <2>3, <2>4, TradeForIs
  <2>. QED
    BY <2>1, <2>2, <2>5
<1>5. Verdict(f, known).status = Status(s.action, blockers, f \in alloc[day], pa)
  BY DEF Verdict
<1>6. PickStatus(day, f) = Status(s.action, mine, TRUE, "no_trade")
  BY DEF PickStatus
<1>. HIDE DEF blockers, mine, pa, s
<1>. QED
  BY <1>3, <1>4, <1>5, <1>6 DEF Status

LEMMA BuysKept ==
    TypeOK /\ FilesAgree /\ BuysCanBeMade /\ [Next]_vars => BuysCanBeMade'
<1>. SUFFICES ASSUME TypeOK, FilesAgree, BuysCanBeMade, [Next]_vars PROVE BuysCanBeMade'
  OBVIOUS
<1>1. CASE at' # "finish"
  BY <1>1 DEF BuysCanBeMade, ActionableIsExecutable, DirectPicksAgree, Comparable,
              Consistent, Written
<1>2. CASE UNCHANGED vars
  <2>1. UNCHANGED <<day, at, scoring, plan, opp, memo, marker, sheet, stale>>
    BY <1>2 DEF vars, files, ghosts
  <2>2. \A f : TradeOf(day, f)' = TradeOf(day, f)
    BY <2>1, TradeOfKept
  <2>3. ActionableIsExecutable'
    BY <2>1 DEF BuysCanBeMade, ActionableIsExecutable, Consistent, Written, Actionable,
                Published
  <2>4. DirectPicksAgree'
    BY <2>1, <2>2 DEF BuysCanBeMade, DirectPicksAgree, Comparable, Consistent, Written,
                      SameVerdict
  <2>. QED
    BY <2>3, <2>4 DEF BuysCanBeMade
<1>3. CASE Decision
  <2>1. PICK known \in BOOLEAN :
          /\ sheet'[day].known = known
          /\ \A f \in Funds : sheet'[day].status[f] = Verdict(f, known).status
    BY <1>3, DecisionIs
  <2>2. /\ UNCHANGED <<day, scoring, alloc, plan, opp, memo, marker, stale>>
        /\ day \in DOMAIN scoring /\ day \in DOMAIN memo
    BY <1>3, DecisionIs DEF files
  <2>3. ASSUME stale = {}, known, NEW f \in Funds, sheet'[day].status[f] = "actionable_buy"
        PROVE  /\ TradeFor(f).direct /\ TradeFor(f) \in plan[day]
               /\ f \in Published(day)
               /\ day \notin marker /\ memo[day].quoted
    <3>1. Verdict(f, TRUE).status = "actionable_buy"
      BY <2>1, <2>3
    <3>. QED
      BY <2>2, <2>3, <3>1, BuyIsSound
  <2>4. ActionableIsExecutable'
    <3>. SUFFICES ASSUME stale' = {}, sheet'[day].known,
                         NEW f \in Funds, sheet'[day].status[f] = "actionable_buy"
                  PROVE  /\ TradeFor(f).direct /\ TradeFor(f) \in plan'[day]
                         /\ f \in Published(day)'
                         /\ day \notin marker' /\ memo'[day].quoted
      BY <2>2 DEF ActionableIsExecutable, Consistent, Actionable
    <3>1. Published(day)' = Published(day)
      BY <2>2 DEF Published
    <3>. QED
      BY <2>1, <2>2, <2>3, <3>1
  <2>5. ASSUME stale = {}, day \notin marker, memo[day].quoted,
               NEW f \in DOMAIN memo[day].picks,
               TradeOf(day, f).direct, scoring[day][f].premium # "nan"
        PROVE  \/ memo[day].picks[f] = sheet'[day].status[f]
               \/ memo[day].picks[f] = "watch_only"
                    /\ sheet'[day].status[f] = "review_sell_later"
    <3>1. f \in Targets(day) \cap Published(day) /\ memo[day].picks[f] = PickStatus(day, f)
      BY <2>5 DEF FilesAgree
    <3>2. f \in Funds
      BY <3>1, PublishedAreFunds
    <3>3. \/ PickStatus(day, f) = Verdict(f, known).status
          \/ PickStatus(day, f) = "watch_only" /\ Verdict(f, known).status = "review_sell_later"
      BY <2>2, <2>5, <3>1, SameIsSaid
    <3>. QED
      BY <2>1, <3>1, <3>2, <3>3
  <2>6. DirectPicksAgree'
    <3>. SUFFICES ASSUME stale' = {}, day \notin marker', memo'[day].quoted,
                         NEW f \in DOMAIN memo'[day].picks,
                         TradeOf(day, f)'.direct, scoring'[day][f].premium # "nan"
                  PROVE  \/ memo'[day].picks[f] = sheet'[day].status[f]
                         \/ memo'[day].picks[f] = "watch_only"
                              /\ sheet'[day].status[f] = "review_sell_later"
      BY <2>2 DEF DirectPicksAgree, Comparable, Consistent, SameVerdict
    <3>1. TradeOf(day, f)' = TradeOf(day, f)
      BY <2>2, TradeOfKept
    <3>. QED
      BY <2>2, <2>5, <3>1
  <2>. QED
    BY <2>4, <2>6 DEF BuysCanBeMade
<1>. QED
  BY <1>1, <1>2, <1>3, OnlyDecisionWrites

LEMMA FilesAgreeAlways == Spec => []FilesAgree
<1>1. Init => FilesAgree
  BY DEF Init, FilesAgree, Stages
<1>. QED
  BY <1>1, FilesAgreeKept, TypesAlways, ReportsAlways, PTL DEF Spec

\* If the files of a day belong together and the venue configuration was
\* read, a fund the report calls a buy can be bought under its own name: the
\* account reaches it, the plan trades it, it was published and no halt was
\* pending; and the memo gives each fund bought directly the same verdict.
THEOREM BuysAreExecutable == Spec => []BuysCanBeMade
<1>1. Init => BuysCanBeMade
  BY DEF Init, BuysCanBeMade, ActionableIsExecutable, DirectPicksAgree, Comparable,
         Consistent, Written
<1>. QED
  BY <1>1, BuysKept, FilesAgreeAlways, TypesAlways, PTL DEF Spec

-----------------------------------------------------------------------------
(* The allocation.                                                         *)

\* What the CHOOSE of Max and Min comes to on two integers.
LEMMA MaxOfTwo ==
    ASSUME NEW a \in Int, NEW b \in Int
    PROVE  Max({a, b}) = IF a >= b THEN a ELSE b
<1>1. \E x \in {a, b} : \A y \in {a, b} : x >= y
  OBVIOUS
<1>2. /\ Max({a, b}) \in {a, b}
      /\ \A y \in {a, b} : Max({a, b}) >= y
  BY <1>1 DEF Max
<1> QED
  BY <1>2

LEMMA MinOfTwo ==
    ASSUME NEW a \in Int, NEW b \in Int
    PROVE  Min({a, b}) = IF a <= b THEN a ELSE b
<1>1. \E x \in {a, b} : \A y \in {a, b} : x =< y
  OBVIOUS
<1>2. /\ Min({a, b}) \in {a, b}
      /\ \A y \in {a, b} : Min({a, b}) =< y
  BY <1>1 DEF Min
<1> QED
  BY <1>2

-----------------------------------------------------------------------------
(* The tilt.                                                               *)

-----------------------------------------------------------------------------
(* The tilt.                                                               *)

LEMMA DriversTilt ==
    ASSUME NEW score
    PROVE  GoldTiltFromScore(score) \in {TiltOrder[i] : i \in 1..5}
<1> DEFINE passed == {i \in DOMAIN Floors : score >= Floors[i]}
<1>1. DOMAIN Floors = 1..4 /\ IsFiniteSet(1..4) /\ Cardinality(1..4) = 4
  <2>1. DOMAIN Floors = 1..4
    BY DEF Floors
  <2>2. /\ IsFiniteSet(1..4)
        /\ Cardinality(1..4) = IF 1 > 4 THEN 0 ELSE 4 - 1 + 1
    BY FS_Interval, 1 \in Int, 4 \in Int, Zenon
  <2> QED
    BY <2>1, <2>2
<1>2. passed \in SUBSET (1..4)
  BY <1>1
<1>3. IsFiniteSet(passed) /\ Cardinality(passed) <= 4
  BY <1>1, <1>2, FS_Subset
<1>4. Cardinality(passed) \in Nat
  BY <1>3, FS_CardinalityType
<1>5. 1 + Cardinality(passed) \in 1..5
  BY <1>3, <1>4
<1> QED
  BY <1>5 DEF GoldTiltFromScore

\* With one series missing the tilt is at most neutral_plus.
LEMMA CautiousTilt ==
    ASSUME NEW a \in {TiltOrder[i] : i \in 1..5}
    PROVE  MoreCautious(a, "neutral_plus") # "overweight"
<1> DEFINE First(i) == /\ TiltOrder[i] \in {a, "neutral_plus"}
                       /\ \A j \in 1..(i - 1) : TiltOrder[j] \notin {a, "neutral_plus"}
<1>1. /\ TiltOrder[1] = "underweight" /\ TiltOrder[2] = "neutral_minus"
      /\ TiltOrder[3] = "neutral" /\ TiltOrder[4] = "neutral_plus"
      /\ TiltOrder[5] = "overweight"
  BY DEF TiltOrder
<1>2. a \in {TiltOrder[1], TiltOrder[2], TiltOrder[3], TiltOrder[4], TiltOrder[5]}
  OBVIOUS
<1>3. \E i \in 1..5 : First(i)
  <2>1. CASE a = "underweight"
    BY <1>1, <2>1, First(1)
  <2>2. CASE a = "neutral_minus"
    <3>1. First(2)
      BY <1>1, <2>2
    <3> QED
      BY <3>1
  <2>3. CASE a = "neutral"
    <3>1. First(3)
      BY <1>1, <2>3
    <3> QED
      BY <3>1
  <2>4. CASE a \in {"neutral_plus", "overweight"}
    <3>1. First(4)
      BY <1>1, <2>4
    <3> QED
      BY <3>1
  <2> QED
    BY <1>1, <1>2, <2>1, <2>2, <2>3, <2>4
<1> DEFINE chosen == CHOOSE i \in 1..5 : First(i)
<1>4. chosen \in 1..5 /\ First(chosen)
  BY <1>3
<1>5. chosen # 5
  BY <1>1, <1>4
<1>6. TiltOrder[chosen] # "overweight"
  BY <1>1, <1>4, <1>5
<1>7. MoreCautious(a, "neutral_plus") = TiltOrder[chosen]
  BY DEF MoreCautious
<1> QED
  BY <1>6, <1>7

\* What a gold file may say: everything on both series, nothing on neither.
Earned(g) ==
    /\ g.tilt = "overweight" => g.missing = 0
    /\ g.missing = 2 => g.tilt = "neutral"

LEMMA CombinedTiltIsEarned ==
    ASSUME NEW regime, NEW score, NEW missing \in Nat
    PROVE  LET tilt == CombineTilts(regime, GoldTiltFromScore(score), missing)
           IN  /\ tilt = "overweight" => missing = 0
               /\ missing = 2 => tilt = "neutral"
<1>1. MoreCautious(GoldTiltFromScore(score), "neutral_plus") # "overweight"
  BY DriversTilt, CautiousTilt
<1> QED
  BY <1>1 DEF CombineTilts

\* Whatever the drivers and the series, what comes out is a tilt.
LEMMA CautiousTiltIsOne ==
    ASSUME NEW a \in Range(TiltOrder), NEW b \in Range(TiltOrder)
    PROVE  MoreCautious(a, b) \in Range(TiltOrder)
<1> DEFINE First(i) == /\ TiltOrder[i] \in {a, b}
                       /\ \A j \in 1..(i - 1) : TiltOrder[j] \notin {a, b}
           places == {i \in 1..5 : TiltOrder[i] \in {a, b}}
<1>1. DOMAIN TiltOrder = 1..5
  BY DEF TiltOrder
<1>2. PICK x \in DOMAIN TiltOrder : a = TiltOrder[x]
  BY DEF Range
<1>3. x \in places /\ places \subseteq Nat
  BY <1>1, <1>2
<1> HIDE DEF places
<1>4. PICK i \in places : \A j \in places : i <= j
  BY <1>3, HasLeast
<1> USE DEF places
<1>5. i \in 1..5 /\ First(i)
  BY <1>4
<1> DEFINE chosen == CHOOSE k \in 1..5 : First(k)
<1>6. chosen \in 1..5
  BY <1>5
<1>7. MoreCautious(a, b) = TiltOrder[chosen]
  BY DEF MoreCautious
<1> QED
  BY <1>1, <1>6, <1>7 DEF Range

LEMMA CombinedTiltIsOne ==
    ASSUME NEW regime, NEW score, NEW missing
    PROVE  CombineTilts(regime, GoldTiltFromScore(score), missing) \in Range(TiltOrder)
<1>1. /\ DOMAIN TiltOrder = 1..5
      /\ TiltOrder[3] = "neutral" /\ TiltOrder[4] = "neutral_plus"
  BY DEF TiltOrder
<1>2. \A i \in 1..5 : TiltOrder[i] \in Range(TiltOrder)
  BY <1>1 DEF Range
<1>3. GoldTiltFromScore(score) \in Range(TiltOrder)
  BY <1>2, DriversTilt
<1>4. "neutral" \in Range(TiltOrder) /\ "neutral_plus" \in Range(TiltOrder)
  BY <1>1, <1>2
<1>5. MoreCautious(GoldTiltFromScore(score), "neutral_plus") \in Range(TiltOrder)
  BY <1>3, <1>4, CautiousTiltIsOne
<1> QED
  BY <1>3, <1>4, <1>5 DEF CombineTilts

-----------------------------------------------------------------------------
(* The class weights.                                                      *)

\* The tilt moves gold inside its band, and beyond two points for one tilt only.
LEMMA GoldIsClamped ==
    ASSUME NEW tilt
    PROVE  /\ ApplyGoldTilt(tilt) \in GoldBand[1]..GoldBand[2]
           /\ ApplyGoldTilt(tilt) > Center["gold"] + 2 * Point => tilt = "overweight"
           /\ tilt \in {"neutral", "none"} => ApplyGoldTilt(tilt) = Center["gold"]
<1>1. /\ Center["gold"] \in Int /\ Point \in Nat
      /\ GoldBand[1] \in Int /\ GoldBand[2] \in Int
      /\ GoldBand[1] <= Center["gold"] /\ Center["gold"] <= GoldBand[2]
  BY GoldAssumption DEF Classes
<1>2. /\ TiltDelta(tilt) \in Int
      /\ tilt # "overweight" => TiltDelta(tilt) <= 2 * Point
      /\ tilt \in {"neutral", "none"} => TiltDelta(tilt) = 0
  BY <1>1 DEF TiltDelta
<1> DEFINE moved == Center["gold"] + TiltDelta(tilt)
<1>3. moved \in Int
  BY <1>1, <1>2
<1>4. Min({GoldBand[2], moved}) = IF GoldBand[2] <= moved THEN GoldBand[2] ELSE moved
  BY <1>1, <1>3, MinOfTwo
<1> DEFINE lowered == Min({GoldBand[2], moved})
<1>5. lowered \in Int
  BY <1>1, <1>3, <1>4
<1>6. Max({GoldBand[1], lowered}) = IF GoldBand[1] >= lowered THEN GoldBand[1] ELSE lowered
  BY <1>1, <1>5, MaxOfTwo
<1>7. ApplyGoldTilt(tilt) = Max({GoldBand[1], lowered})
  BY DEF ApplyGoldTilt
<1> HIDE DEF lowered
<1>8. lowered = IF GoldBand[2] <= moved THEN GoldBand[2] ELSE moved
  BY <1>4 DEF lowered
<1> QED
  BY <1>1, <1>2, <1>3, <1>6, <1>7, <1>8

\* What the numbers of an allocation are.
LEMMA GoldNumbers ==
    /\ "gold" \in Classes /\ IsFiniteSet(Classes) /\ Point \in Nat /\ Point > 0
    /\ Whole \in Nat /\ Whole = 100 * Point /\ Whole > 0
    /\ \A c \in Classes : Center[c] \in Nat
    /\ Center["gold"] < Whole
    /\ Others = Whole - Center["gold"] /\ Others \in Nat /\ Others > 0
    /\ SatelliteCap \in Nat
    /\ \A s \in Levels : s \in Int /\ Expo[s] \in Nat /\ Expo[s] > 0
<1>1. /\ "gold" \in Classes /\ IsFiniteSet(Classes) /\ Point \in Nat /\ Point > 0
      /\ Center \in [Classes -> Nat]
      /\ Whole = 100 * Point /\ SatelliteCap \in Nat /\ Center["gold"] \in 0..(Whole - 1)
      /\ \A s \in Levels : s \in Int /\ Expo[s] \in Nat /\ Expo[s] > 0
  BY GoldAssumption
<1>2. Whole \in Nat /\ Whole > 0
  BY <1>1
<1>3. Max({1, Whole - Center["gold"]})
        = IF 1 >= Whole - Center["gold"] THEN 1 ELSE Whole - Center["gold"]
  BY <1>1, <1>2, MaxOfTwo
<1>4. Others = Whole - Center["gold"] /\ Others \in Nat /\ Others > 0
  BY <1>1, <1>2, <1>3 DEF Others
<1> QED
  BY <1>1, <1>2, <1>4

\* Without remainder a quotient is one.
LEMMA WholeQuotient ==
    ASSUME NEW a \in Int, NEW b \in Nat, b > 0, a % b = 0
    PROVE  a \div b \in Int /\ (a \div b) * b = a
OBVIOUS
\* Without a tilt every class has its target.
LEMMA NeutralIsCenter == \A tilt \in {"neutral", "none"} : TargetWeights(tilt) = Center
<1> SUFFICES ASSUME NEW tilt \in {"neutral", "none"}
             PROVE  TargetWeights(tilt) = Center
  OBVIOUS
<1>1. Center \in [Classes -> Nat] /\ \A c \in Classes : Center[c] \in Nat
  BY GoldAssumption
<1>2. ApplyGoldTilt(tilt) = Center["gold"] /\ Center["gold"] \in Nat
  BY GoldIsClamped, GoldNumbers
<1>3. \A c \in Classes : Center[c] - ((Center["gold"] - Center["gold"]) * Center[c]) \div Others
                            = Center[c]
  BY <1>1, <1>2, GoldNumbers
<1>4. TargetWeights(tilt) =
        [c \in Classes |-> IF c = "gold" THEN Center["gold"]
           ELSE Center[c] - ((Center["gold"] - Center["gold"]) * Center[c]) \div Others]
  BY <1>2 DEF TargetWeights
<1>5. TargetWeights(tilt) = [c \in Classes |-> Center[c]]
  BY <1>3, <1>4
<1> QED
  BY <1>1, <1>5

LEMMA GoldWeight ==
    ASSUME NEW tilt
    PROVE  TargetWeights(tilt)["gold"] = ApplyGoldTilt(tilt)
BY GoldAssumption DEF TargetWeights


\* The class weights are the portfolio, whatever the tilt.
LEMMA ClassesAddUp ==
    ASSUME NEW tilt \in Range(TiltOrder)
    PROVE  /\ TargetWeights(tilt) \in [Classes -> Nat]
           /\ Total(TargetWeights(tilt)) = Whole
<1> DEFINE gold == ApplyGoldTilt(tilt)
           delta == gold - Center["gold"]
           given == [c \in Classes |-> (delta * Center[c]) \div Others]
           rest == Classes \ {"gold"}
           W == TargetWeights(tilt)
           share == [c \in Classes |-> Center[c] - given[c]]
<1>1. gold \in Int /\ gold >= 0 /\ gold <= Whole
  <2>1. gold \in GoldBand[1]..GoldBand[2]
    BY GoldIsClamped
  <2>2. GoldBand[1] \in 0..Whole /\ GoldBand[2] \in 0..Whole
    BY GoldAssumption
  <2> HIDE DEF gold
  <2> QED
    BY <2>1, <2>2, GoldNumbers
<1> HIDE DEF gold
<1>2. delta \in Int /\ delta <= Others
  BY <1>1, GoldNumbers
<1>3. \A c \in rest : (delta * Center[c]) % Others = 0
  BY UnitsAreFine DEF gold
<1> HIDE DEF delta
<1>4. ASSUME NEW c \in rest
      PROVE  /\ given[c] \in Int /\ given[c] * Others = delta * Center[c]
             /\ given[c] <= Center[c] /\ Center[c] \in Nat
  <2>1. Center[c] \in Nat /\ c \in Classes
    BY GoldNumbers
  <2>2. delta * Center[c] \in Int
    BY <1>2, <2>1
  <2> DEFINE p == delta * Center[c]
  <2>3. p \in Int /\ p % Others = 0
    BY <1>3, <2>2
  <2>4. given[c] = p \div Others
    BY <2>1
  <2> HIDE DEF p
  <2>5. p \div Others \in Int /\ (p \div Others) * Others = p
    BY <2>3, GoldNumbers, WholeQuotient
  <2>6. p <= Others * Center[c]
    BY <1>2, <2>1, GoldNumbers DEF p
  <2> HIDE DEF given
  <2> DEFINE q == given[c]
             k == Center[c]
             n == Others
  <2>7. q \in Int /\ k \in Nat /\ n \in Nat /\ n > 0 /\ q * n <= n * k
    BY <2>1, <2>4, <2>5, <2>6, GoldNumbers
  <2> HIDE DEF q, k, n
  <2>8. q <= k
    BY <2>7
  <2>9. q * n = p
    BY <2>4, <2>5 DEF q, n
  <2> QED
    BY <2>1, <2>7, <2>8, <2>9 DEF q, k, n, p
<1>5. W["gold"] = gold /\ \A c \in rest : W[c] = share[c]
  BY GoldNumbers DEF TargetWeights, gold, delta
<1>6. IsFiniteSet(rest) /\ IsFiniteSet(Classes) /\ Classes \ {"gold"} = rest
  BY GoldNumbers, FS_Subset
<1>7. \A c \in rest : given[c] \in Int /\ Center[c] \in Int /\ share[c] \in Int
                      /\ Center[c] = given[c] + share[c]
                      /\ given[c] * Others = delta * Center[c]
                      /\ share[c] >= 0
  BY <1>4
<1>8. W = [c \in Classes |-> W[c]] /\ DOMAIN W = Classes
  BY DEF TargetWeights
<1> HIDE DEF given, share, rest, W
<1>9. W \in [Classes -> Nat]
  <2>1. ASSUME NEW c \in Classes PROVE W[c] \in Nat
    BY <1>1, <1>5, <1>7 DEF rest
  <2> QED
    BY <1>8, <2>1
<1>10. SumFunctionOnSet(Center, rest)
         = SumFunctionOnSet(given, rest) + SumFunctionOnSet(share, rest)
  BY <1>6, <1>7, SumPointwise
<1>11. SumFunctionOnSet(given, rest) * Others = delta * SumFunctionOnSet(Center, rest)
  BY <1>2, <1>6, <1>7, SumInProportion, GoldNumbers
<1>12. SumFunctionOnSet(Center, rest) = Others
  <2>1. Whole = SumFunctionOnSet(Center, Classes)
    BY GoldAssumption DEF Whole, Total
  <2>2. \A c \in Classes : Center[c] \in Int
    BY GoldNumbers
  <2>3. SumFunctionOnSet(Center, Classes) = Center["gold"] + SumFunctionOnSet(Center, rest)
    BY <1>6, <2>2, GoldNumbers, SumOfOneMore
  <2>4. SumFunctionOnSet(Center, rest) \in Int
    BY <1>6, <1>7, SumIsInt
  <2> QED
    BY <2>1, <2>3, <2>4, GoldNumbers
<1>13. SumFunctionOnSet(given, rest) = delta
  <2> DEFINE s == SumFunctionOnSet(given, rest)
             n == Others
  <2>1. s \in Int /\ n \in Nat /\ n > 0 /\ s * n = delta * n
    BY <1>6, <1>7, <1>11, <1>12, SumIsInt, GoldNumbers
  <2> HIDE DEF s, n
  <2>2. s = delta
    BY <1>2, <2>1
  <2> QED
    BY <2>2 DEF s
<1>14. SumFunctionOnSet(W, rest) = SumFunctionOnSet(share, rest)
  BY <1>5, <1>6, SumSame
<1>15. SumFunctionOnSet(W, Classes) = W["gold"] + SumFunctionOnSet(W, rest)
  <2>1. \A c \in Classes : W[c] \in Int
    BY <1>9
  <2> QED
    BY <1>6, <2>1, GoldNumbers, SumOfOneMore
<1>16. SumFunctionOnSet(W, Classes) = Whole
  <2>1. SumFunctionOnSet(share, rest) \in Int
    BY <1>6, <1>7, SumIsInt
  <2> DEFINE s == SumFunctionOnSet(share, rest)
  <2>2. s \in Int /\ Others = delta + s
    BY <1>10, <1>12, <1>13, <2>1
  <2>3. SumFunctionOnSet(W, Classes) = gold + s
    BY <1>5, <1>14, <1>15
  <2> HIDE DEF s
  <2> QED
    BY <1>1, <2>2, <2>3, GoldNumbers DEF delta
<1> QED
  BY <1>8, <1>9, <1>16 DEF Total, W

-----------------------------------------------------------------------------
(* The funds that are chosen, and the share of each.                       *)

LEMMA ScoreTableIs ==
    ASSUME NEW table, IsTable(table)
    PROVE  /\ IsFiniteSet(DOMAIN table)
           /\ \A i \in DOMAIN table :
                 /\ i \in Int /\ table[i].class \in Classes /\ table[i].score \in Levels
                 /\ table[i].score \in Int /\ table[i].id \in Int
           /\ \A i, j \in DOMAIN table : table[i].id = table[j].id => i = j
<1>1. table \in Seq(Range(table))
  BY DEF IsTable
<1>2. Len(table) \in Nat /\ DOMAIN table = 1..Len(table)
  BY <1>1
<1>3. IsFiniteSet(1..Len(table))
  BY <1>2, FS_Interval
<1> QED
  BY <1>2, <1>3, GoldNumbers DEF IsTable

\* Funds are chosen in an order: the leaders of the roles, then the rest, by score.
LEMMA ScoresOrder ==
    ASSUME NEW table, IsTable(table)
    PROVE  /\ \A i \in DOMAIN table : ~Outscores(table, i, i)
           /\ \A i, j, k \in DOMAIN table :
                 Outscores(table, i, j) /\ Outscores(table, j, k) => Outscores(table, i, k)
           /\ \A i, j \in DOMAIN table :
                 i = j \/ Outscores(table, i, j) \/ Outscores(table, j, i)
<1>1. \A i \in DOMAIN table : i \in Int /\ table[i].score \in Int
  BY ScoreTableIs
<1>2. ASSUME NEW i \in DOMAIN table, NEW j \in DOMAIN table, NEW k \in DOMAIN table
      PROVE  /\ ~Outscores(table, i, i)
             /\ Outscores(table, i, j) /\ Outscores(table, j, k) => Outscores(table, i, k)
             /\ i = j \/ Outscores(table, i, j) \/ Outscores(table, j, i)
  BY <1>1 DEF Outscores
<1> QED
  BY <1>2

LEMMA PicksOrder ==
    ASSUME NEW table, IsTable(table)
    PROVE  /\ \A i \in DOMAIN table : ~PickedBefore(table, i, i)
           /\ \A i, j, k \in DOMAIN table :
                 PickedBefore(table, i, j) /\ PickedBefore(table, j, k)
                    => PickedBefore(table, i, k)
           /\ \A i, j \in DOMAIN table :
                 i = j \/ PickedBefore(table, i, j) \/ PickedBefore(table, j, i)
BY ScoresOrder DEF PickedBefore

LEMMA Selection ==
    ASSUME NEW table, IsTable(table), NEW c
    PROVE  /\ SelectTopK(table, c) \subseteq InClass(table, c)
           /\ InClass(table, c) \subseteq DOMAIN table
           /\ IsFiniteSet(InClass(table, c)) /\ IsFiniteSet(SelectTopK(table, c))
           /\ SelectTopK(table, c) = {i \in Selected(table) : table[i].class = c}
           /\ InClass(table, c) # {} => SelectTopK(table, c) # {}
<1>1. SelectTopK(table, c) \subseteq InClass(table, c) /\ InClass(table, c) \subseteq DOMAIN table
  BY DEF SelectTopK, InClass
<1>2. IsFiniteSet(InClass(table, c)) /\ IsFiniteSet(SelectTopK(table, c))
  BY <1>1, ScoreTableIs, FS_Subset
<1>3. SelectTopK(table, c) = {i \in Selected(table) : table[i].class = c}
  <2>1. \A i \in SelectTopK(table, c) : i \in DOMAIN table /\ table[i].class = c
    BY DEF SelectTopK, InClass
  <2> QED
    BY <2>1 DEF Selected
<1>4. ASSUME InClass(table, c) # {} PROVE SelectTopK(table, c) # {}
  <2> DEFINE S == InClass(table, c)
             R == {p \in S \X S : PickedBefore(table, p[1], p[2])}
  <2>1. \A i, j \in S : <<i, j>> \in R <=> PickedBefore(table, i, j)
    OBVIOUS
  <2>2. /\ \A i \in S : <<i, i>> \notin R
        /\ \A i, j, k \in S : <<i, j>> \in R /\ <<j, k>> \in R => <<i, k>> \in R
    <3> HIDE DEF S, R
    <3>1. S \subseteq DOMAIN table
      BY <1>1 DEF S
    <3> QED
      BY <2>1, <3>1, PicksOrder
  <2>3. IsFiniteSet(S) /\ S # {}
    BY <1>2, <1>4
  <2> HIDE DEF R, S
  <2>4. PICK i \in S : \A j \in S : <<j, i>> \notin R
    BY <2>2, <2>3, HasFirst
  <2>5. {j \in S : PickedBefore(table, j, i)} = {}
    BY <2>1, <2>4
  <2>6. Cardinality({j \in S : PickedBefore(table, j, i)}) = 0
    BY <2>5, FS_EmptySet
  <2>7. 0 < AllocTopK
    BY GoldAssumption
  <2>8. i \in SelectTopK(table, c)
    BY <2>6, <2>7 DEF SelectTopK, S
  <2> QED
    BY <2>8
<1> QED
  BY <1>1, <1>2, <1>3, <1>4

\* A class that has a fund is shared out among those it chose.
LEMMA SharesAddUp ==
    ASSUME NEW table, IsTable(table), NEW W \in [Classes -> Nat], IsExact(table, W)
    PROVE  /\ DOMAIN Sized(table, W) = Selected(table)
           /\ \A i \in Selected(table) :
                 /\ i \in DOMAIN table
                 /\ Sized(table, W)[i] \in Nat
                 /\ W[table[i].class] > 0 => Sized(table, W)[i] > 0
           /\ \A c \in Classes :
                 ClassWeight(table, Sized(table, W), Selected(table), c)
                    = IF InClass(table, c) = {} THEN 0 ELSE W[c]
<1> DEFINE chosen == Sized(table, W)
           pull == Pull(table)
<1>1. \A i \in DOMAIN table : pull[i] \in Nat /\ pull[i] > 0
  BY ScoreTableIs, GoldNumbers DEF Pull
<1>2. DOMAIN chosen = Selected(table)
      /\ \A i \in Selected(table) : chosen[i]
            = (W[table[i].class] * pull[i]) \div PullOn(table, table[i].class)
  BY DEF Sized
<1>3. \A i \in Selected(table) :
          (W[table[i].class] * pull[i]) % PullOn(table, table[i].class) = 0
  BY DEF IsExact
<1>4. \A c : PullOn(table, c) = SumFunctionOnSet(pull, SelectTopK(table, c))
  BY DEF PullOn
<1> HIDE DEF chosen, pull
<1>5. ASSUME NEW i \in Selected(table)
      PROVE  /\ i \in DOMAIN table /\ table[i].class \in Classes
             /\ PullOn(table, table[i].class) \in Nat /\ PullOn(table, table[i].class) > 0
             /\ chosen[i] \in Int
             /\ chosen[i] * PullOn(table, table[i].class) = W[table[i].class] * pull[i]
             /\ chosen[i] \in Nat /\ (W[table[i].class] > 0 => chosen[i] > 0)
  <2> DEFINE c == table[i].class
             S == SelectTopK(table, c)
             n == PullOn(table, c)
             a == W[c] * pull[i]
  <2>1. i \in DOMAIN table /\ i \in S
    BY DEF Selected
  <2>2. c \in Classes /\ IsFiniteSet(S) /\ S \subseteq DOMAIN table
    BY <2>1, ScoreTableIs, Selection
  <2>3. W[c] \in Nat /\ pull[i] \in Nat /\ pull[i] > 0
    BY <1>1, <2>1, <2>2
  <2>4. \A j \in S : pull[j] \in Nat /\ pull[j] \in Int /\ pull[j] >= 0
    BY <1>1, <2>2
  <2>5. n = SumFunctionOnSet(pull, S)
    BY <1>4
  <2>6. a \in Nat /\ (W[c] > 0 => a > 0)
    BY <2>3
  <2>7. a % n = 0 /\ chosen[i] = a \div n
    BY <1>2, <1>3
  <2> HIDE DEF n, S, a
  <2>8. n \in Nat
    BY <2>2, <2>4, <2>5, SumIsNat
  <2>9. n > 0
    <3>1. pull[i] <= n
      BY <2>1, <2>2, <2>4, <2>5, OneOfTheSum
    <3> QED
      BY <2>3, <2>8, <3>1
  <2>10. chosen[i] \in Int /\ chosen[i] * n = a
    BY <2>6, <2>7, <2>8, <2>9, WholeQuotient
  <2>11. chosen[i] \in Nat /\ (a > 0 => chosen[i] > 0)
    <3> DEFINE q == chosen[i]
    <3>1. q \in Int /\ q * n = a
      BY <2>10
    <3> HIDE DEF q
    <3>2. q >= 0
      BY <2>6, <2>8, <2>9, <3>1
    <3>3. a > 0 => q # 0
      BY <2>8, <3>1
    <3> QED
      BY <3>1, <3>2, <3>3 DEF q
  <2> QED
    BY <2>1, <2>2, <2>6, <2>8, <2>9, <2>10, <2>11 DEF n, a
<1>6. ASSUME NEW c \in Classes
      PROVE  ClassWeight(table, chosen, Selected(table), c)
                = IF InClass(table, c) = {} THEN 0 ELSE W[c]
  <2> DEFINE S == SelectTopK(table, c)
             n == PullOn(table, c)
             s == SumFunctionOnSet(chosen, S)
  <2>1. ClassWeight(table, chosen, Selected(table), c) = s
    <3>1. S = {i \in Selected(table) : table[i].class = c}
      BY Selection
    <3> QED
      BY <3>1 DEF ClassWeight
  <2>2. S \subseteq InClass(table, c) /\ IsFiniteSet(S)
    BY Selection
  <2>3. \A i \in S : i \in Selected(table) /\ table[i].class = c
    BY Selection
  <2>4. n = SumFunctionOnSet(pull, S)
    BY <1>4
  <2>5. \A i \in S : /\ chosen[i] \in Int /\ pull[i] \in Int
                     /\ chosen[i] * n = W[c] * pull[i]
                     /\ n \in Nat /\ n > 0
    BY <1>1, <1>5, <2>3
  <2>6. CASE InClass(table, c) = {}
    <3>1. S = {}
      BY <2>2, <2>6
    <3>2. s = 0
      BY <3>1, SumEmpty
    <3> QED
      BY <2>1, <2>6, <3>2
  <2>7. CASE InClass(table, c) # {}
    <3>1. S # {}
      BY <2>7, Selection
    <3>2. n \in Nat /\ n > 0 /\ n \in Int
      BY <2>5, <3>1
    <3>3. W[c] \in Int
      OBVIOUS
    <3> HIDE DEF n, S
    <3>4. SumFunctionOnSet(chosen, S) * n = W[c] * SumFunctionOnSet(pull, S)
      BY <2>2, <2>5, <3>2, <3>3, SumInProportion
    <3>5. s \in Int
      BY <2>2, <2>5, SumIsInt
    <3>6. s * n = W[c] * n
      BY <2>4, <3>4
    <3> DEFINE v == W[c]
    <3>7. v \in Int /\ s * n = v * n
      BY <3>3, <3>6
    <3> HIDE DEF s, v
    <3>8. s = v
      BY <3>2, <3>5, <3>7
    <3> QED
      BY <2>1, <2>7, <3>8 DEF v
  <2> QED
    BY <2>6, <2>7
<1> QED
  BY <1>2, <1>5, <1>6 DEF chosen

-----------------------------------------------------------------------------
(* One fund per index.                                                     *)

LEMMA BeatsOrder ==
    ASSUME NEW table, IsTable(table), NEW w, DOMAIN w \subseteq DOMAIN table,
           \A i \in DOMAIN w : w[i] \in Int
    PROVE  /\ \A i \in DOMAIN w : ~Beats(table, w, i, i)
           /\ \A i, j, k \in DOMAIN w :
                 Beats(table, w, i, j) /\ Beats(table, w, j, k) => Beats(table, w, i, k)
           /\ \A i, j \in DOMAIN w : i = j \/ Beats(table, w, i, j) \/ Beats(table, w, j, i)
<1>1. \A i \in DOMAIN w : w[i] \in Int /\ table[i].score \in Int /\ table[i].id \in Int
  BY ScoreTableIs
<1>2. \A i, j \in DOMAIN w : table[i].id = table[j].id => i = j
  BY ScoreTableIs
<1>3. ASSUME NEW i \in DOMAIN w, NEW j \in DOMAIN w, NEW k \in DOMAIN w
      PROVE  /\ ~Beats(table, w, i, i)
             /\ Beats(table, w, i, j) /\ Beats(table, w, j, k) => Beats(table, w, i, k)
             /\ i = j \/ Beats(table, w, i, j) \/ Beats(table, w, j, i)
  BY <1>1, <1>2 DEF Beats
<1> QED
  BY <1>3

\* Of the funds of an index one is kept, and only one.
LEMMA OneIsKept ==
    ASSUME NEW table, IsTable(table), NEW w, DOMAIN w \subseteq DOMAIN table,
           \A i \in DOMAIN w : w[i] \in Int
    PROVE  /\ Undropped(table, w) \subseteq DOMAIN w
           /\ \A j \in DOMAIN w : \E k \in Undropped(table, w) :
                 table[k].class = table[j].class /\ table[k].index = table[j].index
           /\ \A i, j \in Undropped(table, w) :
                 i # j /\ table[i].class = table[j].class =>
                     table[i].index = NoTrackedIndex \/ table[i].index # table[j].index
<1>1. ASSUME NEW j \in DOMAIN w
      PROVE  \E k \in Undropped(table, w) :
                 table[k].class = table[j].class /\ table[k].index = table[j].index
  <2> DEFINE S == {i \in DOMAIN w : /\ table[i].class = table[j].class
                                    /\ table[i].index = table[j].index}
             R == {p \in S \X S : Beats(table, w, p[1], p[2])}
  <2>1. \A i, k \in S : <<i, k>> \in R <=> Beats(table, w, i, k)
    OBVIOUS
  <2>2. S \subseteq DOMAIN w /\ j \in S
    OBVIOUS
  <2>3. IsFiniteSet(S)
    BY <2>2, ScoreTableIs, FS_Subset
  <2>4. /\ \A i \in S : <<i, i>> \notin R
        /\ \A i, k, l \in S : <<i, k>> \in R /\ <<k, l>> \in R => <<i, l>> \in R
    <3> HIDE DEF S, R
    <3> QED
      BY <2>1, <2>2, BeatsOrder
  <2> HIDE DEF R
  <2>5. PICK k \in S : \A i \in S : <<i, k>> \notin R
    <3> HIDE DEF S
    <3> QED
      BY <2>2, <2>3, <2>4, HasFirst
  <2>6. ASSUME IsDuplicate(table, w, k) PROVE FALSE
    <3>1. PICK i \in DOMAIN w : /\ table[i].class = table[k].class
                                /\ table[i].index = table[k].index /\ Beats(table, w, i, k)
      BY <2>6 DEF IsDuplicate
    <3>2. i \in S
      BY <3>1
    <3> QED
      BY <2>1, <2>5, <3>1, <3>2
  <2> QED
    BY <2>5, <2>6 DEF Undropped
<1>2. ASSUME NEW i \in Undropped(table, w), NEW j \in Undropped(table, w), i # j,
             table[i].class = table[j].class
      PROVE  table[i].index = NoTrackedIndex \/ table[i].index # table[j].index
  <2>1. i \in DOMAIN w /\ j \in DOMAIN w /\ ~IsDuplicate(table, w, i) /\ ~IsDuplicate(table, w, j)
    BY DEF Undropped
  <2>2. Beats(table, w, i, j) \/ Beats(table, w, j, i)
    BY <1>2, <2>1, BeatsOrder
  <2> QED
    BY <1>2, <2>1, <2>2 DEF IsDuplicate
<1> QED
  BY <1>1, <1>2 DEF Undropped

\* What a class has, its kept funds get.
LEMMA KeptAddUp ==
    ASSUME NEW table, IsTable(table), NEW W \in [Classes -> Nat], IsExact(table, W)
    PROVE  LET chosen == Sized(table, W)
               w == DropDuplicateIndexTrackers(table, chosen)
           IN  /\ DOMAIN w \subseteq Undropped(table, chosen)
               /\ \A i \in DOMAIN w : w[i] \in Nat
               /\ \A i \in Undropped(table, chosen) : W[table[i].class] > 0 => i \in DOMAIN w
               /\ \A c \in Classes : ClassWeight(table, w, DOMAIN w, c)
                                        = IF InClass(table, c) = {} THEN 0 ELSE W[c]
<1> DEFINE chosen == Sized(table, W)
           w == DropDuplicateIndexTrackers(table, chosen)
           D == Undropped(table, chosen)
           own(c) == ClassWeight(table, chosen, D, c)
           all(c) == ClassWeight(table, chosen, DOMAIN chosen, c)
           left == {j \in D : own(table[j].class) > 0}
           KeptAll ==
               /\ DOMAIN w \subseteq D
               /\ \A i \in DOMAIN w : w[i] \in Nat
               /\ \A i \in D : W[table[i].class] > 0 => i \in DOMAIN w
               /\ \A c \in Classes : ClassWeight(table, w, DOMAIN w, c)
                                        = IF InClass(table, c) = {} THEN 0 ELSE W[c]
<1> SUFFICES KeptAll
  OBVIOUS
<1>1. /\ DOMAIN chosen = Selected(table)
      /\ \A i \in DOMAIN chosen : /\ i \in DOMAIN table /\ chosen[i] \in Nat
                                  /\ W[table[i].class] > 0 => chosen[i] > 0
      /\ \A c \in Classes : all(c) = IF InClass(table, c) = {} THEN 0 ELSE W[c]
  BY SharesAddUp
<1>2. D \subseteq DOMAIN chosen /\ IsFiniteSet(DOMAIN chosen)
  <2>1. DOMAIN chosen \subseteq DOMAIN table
    BY <1>1
  <2>2. IsFiniteSet(DOMAIN chosen)
    BY <2>1, ScoreTableIs, FS_Subset
  <2> QED
    BY <2>2 DEF Undropped
<1>3. \A i \in D : own(table[i].class) > 0 =>
          (chosen[i] * all(table[i].class)) % own(table[i].class) = 0
  BY DEF IsExact
<1>4. \A j \in DOMAIN chosen : \E k \in D : table[k].class = table[j].class
  <2>1. DOMAIN chosen \subseteq DOMAIN table /\ \A i \in DOMAIN chosen : chosen[i] \in Int
    BY <1>1
  <2> HIDE DEF chosen
  <2> QED
    BY <2>1, OneIsKept
<1>5. w = IF D = DOMAIN chosen THEN w ELSE
              [i \in left |-> (chosen[i] * all(table[i].class)) \div own(table[i].class)]
  BY DEF DropDuplicateIndexTrackers, KeepAndPreserveClassTotals
<1>6. D = DOMAIN chosen => w = chosen
  BY DEF DropDuplicateIndexTrackers
<1>7. \A c : own(c) = SumFunctionOnSet(chosen, {i \in D : table[i].class = c})
  BY DEF ClassWeight
<1> HIDE DEF chosen, w, D
<1>8. ASSUME NEW c \in Classes PROVE own(c) \in Nat
  <2> DEFINE S == {i \in D : table[i].class = c}
  <2>1. S \subseteq DOMAIN chosen
    BY <1>2
  <2>2. IsFiniteSet(S) /\ \A i \in S : chosen[i] \in Nat
    BY <1>1, <1>2, <2>1, FS_Subset
  <2>3. own(c) = SumFunctionOnSet(chosen, S)
    BY <1>7
  <2> HIDE DEF S, own
  <2> QED
    BY <2>2, <2>3, SumIsNat
<1>9. ASSUME NEW i \in D, W[table[i].class] > 0 PROVE own(table[i].class) > 0
  <2> DEFINE c == table[i].class
             S == {j \in D : table[j].class = c}
  <2>1. c \in Classes /\ chosen[i] \in Nat /\ chosen[i] > 0
    BY <1>1, <1>2, <1>9, ScoreTableIs
  <2>2. S \subseteq DOMAIN chosen /\ i \in S
    BY <1>2
  <2>3. IsFiniteSet(S) /\ \A j \in S : chosen[j] \in Int /\ chosen[j] >= 0
    BY <1>1, <1>2, <2>2, FS_Subset
  <2>4. own(c) = SumFunctionOnSet(chosen, S) /\ own(c) \in Nat
    BY <1>7, <1>8, <2>1
  <2> HIDE DEF S, own
  <2>5. chosen[i] <= SumFunctionOnSet(chosen, S)
    BY <2>2, <2>3, OneOfTheSum
  <2>6. own(c) > 0
    BY <2>1, <2>4, <2>5
  <2> QED
    BY <2>6
<1>10. CASE D = DOMAIN chosen
  <2>1. \A c \in Classes : ClassWeight(table, w, DOMAIN w, c) = all(c)
    BY <1>6, <1>10
  <2> HIDE DEF all
  <2> QED
    BY <1>1, <1>6, <1>10, <2>1
<1>11. CASE D # DOMAIN chosen
  <2>1. DOMAIN w = left /\ \A i \in left :
            w[i] = (chosen[i] * all(table[i].class)) \div own(table[i].class)
    BY <1>5, <1>11
  <2>2. left \subseteq D /\ \A i \in left : table[i].class \in Classes
    BY <1>1, <1>2, ScoreTableIs
  <2>3. ASSUME NEW c \in Classes PROVE all(c) \in Nat
    BY <1>1
  <2>4. ASSUME NEW i \in left
        PROVE  w[i] \in Nat /\ w[i] * own(table[i].class) = all(table[i].class) * chosen[i]
    <3> DEFINE c == table[i].class
               n == own(c)
               t == all(c)
               a == chosen[i] * t
               q == w[i]
               v == chosen[i]
    <3>1. c \in Classes /\ n \in Nat /\ n > 0 /\ t \in Nat /\ v \in Nat
      BY <1>1, <1>2, <1>8, <2>2, <2>3
    <3>2. a % n = 0 /\ q = a \div n
      BY <1>3, <2>1
    <3>3. a \in Nat /\ a = t * v
      BY <3>1
    <3> HIDE DEF a, n, q, t, v, left
    <3>4. q \in Int /\ q * n = a
      BY <3>1, <3>2, <3>3, WholeQuotient
    <3>5. q >= 0
      BY <3>1, <3>3, <3>4
    <3>6. q \in Nat /\ q * n = t * v
      BY <3>3, <3>4, <3>5
    <3> QED
      BY <3>6 DEF q, n, t, v
  <2>5. ASSUME NEW c \in Classes
        PROVE  ClassWeight(table, w, DOMAIN w, c) = IF InClass(table, c) = {} THEN 0 ELSE W[c]
    <3> DEFINE S == {i \in left : table[i].class = c}
    <3>1. ClassWeight(table, w, DOMAIN w, c) = SumFunctionOnSet(w, S)
      BY <2>1 DEF ClassWeight
    <3>2. CASE own(c) > 0
      <4> DEFINE n == own(c)
                 t == all(c)
                 s == SumFunctionOnSet(w, S)
      <4>1. n \in Nat /\ n > 0 /\ t \in Nat
        BY <1>8, <2>3, <3>2
      <4>2. S = {i \in D : table[i].class = c}
        BY <3>2
      <4>3. S \subseteq DOMAIN chosen /\ S \subseteq left
        BY <1>2, <2>2
      <4>4. IsFiniteSet(S)
        BY <1>2, <4>3, FS_Subset
      <4>5. \A i \in S : w[i] \in Int /\ chosen[i] \in Int /\ w[i] * n = t * chosen[i]
        BY <1>1, <2>4, <4>3
      <4>6. n = SumFunctionOnSet(chosen, S)
        BY <1>7, <4>2
      <4>7. n \in Int /\ t \in Int
        BY <4>1
      <4> HIDE DEF n, t, S
      <4>8. SumFunctionOnSet(w, S) * n = t * SumFunctionOnSet(chosen, S)
        BY <4>4, <4>5, <4>7, SumInProportion
      <4>9. s \in Int /\ s * n = t * n
        BY <4>4, <4>5, <4>6, <4>8, SumIsInt
      <4> HIDE DEF s
      <4>10. s = t
        BY <4>1, <4>9
      <4> QED
        BY <1>1, <3>1, <4>10 DEF s, t
    <3>3. CASE ~(own(c) > 0)
      <4>1. S = {}
        BY <3>3
      <4>2. ClassWeight(table, w, DOMAIN w, c) = 0
        BY <3>1, <4>1, SumEmpty
      <4>3. ASSUME InClass(table, c) # {} PROVE W[c] = 0
        <5>1. PICK j : j \in Selected(table) /\ table[j].class = c
          BY <4>3, Selection
        <5>2. PICK k \in D : table[k].class = c
          BY <1>1, <1>4, <5>1
        <5>3. ~(W[c] > 0)
          BY <1>9, <3>3, <5>2
        <5>4. W[c] \in Nat
          OBVIOUS
        <5> QED
          BY <5>3, <5>4
      <4> QED
        BY <4>2, <4>3
    <3> QED
      BY <3>2, <3>3
  <2>6. \A i \in D : W[table[i].class] > 0 => i \in DOMAIN w
    BY <1>9, <2>1
  <2> QED
    BY <2>1, <2>2, <2>4, <2>5, <2>6
<1> QED
  BY <1>10, <1>11

-----------------------------------------------------------------------------
(* What is shaved off, and who takes it.                                   *)

\* Of s each of P takes what is from low to top, and in the order R one begins where
\* those before it have ended or later.
InTurn(P, R, s, low, top, took) ==
    /\ IsFiniteSet(P) /\ s \in Nat
    /\ \A i \in P : <<i, i>> \notin R
    /\ \A i, j, k \in P : <<i, j>> \in R /\ <<j, k>> \in R => <<i, k>> \in R
    /\ \A i, j \in P : i = j \/ <<i, j>> \in R \/ <<j, i>> \in R
    /\ \A i \in P : low[i] \in Nat /\ top[i] \in Nat /\ top[i] <= s
    /\ \A i \in P : took[i] = top[i] - low[i]
    /\ \A i, k \in P : <<k, i>> \in R => top[k] <= low[i]

\* They take no more than s.
LEMMA Poured ==
    ASSUME NEW P, NEW R, NEW s, NEW low, NEW top, NEW took, InTurn(P, R, s, low, top, took)
    PROVE  SumFunctionOnSet(took, P) <= s
<1> USE DEF InTurn
<1> DEFINE A == {t \in SUBSET P : \A i \in P :
                    (\A j \in t : <<j, i>> \in R) => SumFunctionOnSet(took, t) <= low[i]}
<1>1. \A i \in P : took[i] \in Int
  OBVIOUS
<1>2. ASSUME NEW t \in SUBSET P, t # {}
      PROVE  \E k \in t : \A j \in t \ {k} : <<j, k>> \in R
  <2> DEFINE Q == {p \in P \X P : <<p[2], p[1]>> \in R}
  <2>1. \A i, j \in P : <<i, j>> \in Q <=> <<j, i>> \in R
    OBVIOUS
  <2> HIDE DEF Q
  <2>2. /\ \A i \in t : <<i, i>> \notin Q
        /\ \A i, j, k \in t : <<i, j>> \in Q /\ <<j, k>> \in Q => <<i, k>> \in Q
    BY <2>1
  <2>3. IsFiniteSet(t)
    BY FS_Subset
  <2>4. PICK k \in t : \A j \in t : <<j, k>> \notin Q
    BY <1>2, <2>2, <2>3, HasFirst
  <2>5. \A j \in t \ {k} : <<j, k>> \in R
    BY <2>1, <2>4
  <2> QED
    BY <2>5
<1>3. ASSUME NEW t \in SUBSET P, NEW k \in t, \A j \in t \ {k} : <<j, k>> \in R,
             t \ {k} \in A
      PROVE  SumFunctionOnSet(took, t) <= top[k]
  <2>1. SumFunctionOnSet(took, t \ {k}) <= low[k]
    BY <1>3
  <2>2. IsFiniteSet(t) /\ \A j \in t : took[j] \in Int
    BY <1>1, FS_Subset
  <2>3. SumFunctionOnSet(took, t) = took[k] + SumFunctionOnSet(took, t \ {k})
    BY <2>2, SumOfOneMore
  <2>4. IsFiniteSet(t \ {k}) /\ \A j \in t \ {k} : took[j] \in Int
    BY <2>2, FS_Subset
  <2>5. SumFunctionOnSet(took, t \ {k}) \in Int
    BY <2>4, SumIsInt
  <2>6. took[k] = top[k] - low[k] /\ top[k] \in Nat /\ low[k] \in Nat
    OBVIOUS
  <2> QED
    BY <2>1, <2>3, <2>5, <2>6
<1>4. ASSUME NEW t \in SUBSET P, \A x \in t : t \ {x} \in A PROVE t \in A
  <2> SUFFICES ASSUME NEW i \in P, \A j \in t : <<j, i>> \in R
               PROVE  SumFunctionOnSet(took, t) <= low[i]
    OBVIOUS
  <2>1. CASE t = {}
    <3>1. SumFunctionOnSet(took, t) = 0
      BY <2>1, SumEmpty
    <3> QED
      BY <3>1
  <2>2. CASE t # {}
    <3>1. PICK k \in t : \A j \in t \ {k} : <<j, k>> \in R
      BY <1>2, <2>2
    <3>2. t \ {k} \in A
      BY <1>4, <3>1
    <3> HIDE DEF A
    <3>3. SumFunctionOnSet(took, t) <= top[k]
      BY <1>3, <3>1, <3>2
    <3>4. top[k] <= low[i] /\ top[k] \in Nat /\ low[i] \in Nat
      BY <3>1
    <3>5. SumFunctionOnSet(took, t) \in Int
      <4>1. IsFiniteSet(t) /\ \A j \in t : took[j] \in Int
        BY <1>1, FS_Subset
      <4> QED
        BY <4>1, SumIsInt
    <3> QED
      BY <3>3, <3>4, <3>5
  <2> QED
    BY <2>1, <2>2
<1>5. \A t \in SUBSET P : (\A x \in t : t \ {x} \in A) => t \in A
  BY <1>4
<1>6. SumFunctionOnSet(took, P) <= s
  <2>1. CASE P = {}
    BY <2>1, SumEmpty
  <2>2. CASE P # {}
    <3>1. PICK k \in P : \A j \in P \ {k} : <<j, k>> \in R
      BY <1>2, <2>2
    <3> DEFINE T == P \ {k}
    <3>2. T \in SUBSET P /\ IsFiniteSet(T)
      BY FS_Subset
    <3>3. \A t \in SUBSET T : (\A x \in t : t \ {x} \in A) => t \in A
      BY <1>5
    <3> HIDE DEF A, T
    <3>4. T \in A
      BY <3>2, <3>3, FiniteSetsGrow
    <3>5. SumFunctionOnSet(took, P) <= top[k]
      BY <1>3, <3>1, <3>4 DEF T
    <3>6. top[k] <= s /\ top[k] \in Nat
      BY <3>1
    <3>7. SumFunctionOnSet(took, P) \in Int
      BY <1>1, SumIsInt
    <3> QED
      BY <3>5, <3>6, <3>7
  <2> QED
    BY <2>1, <2>2
<1> QED
  BY <1>6

LEMMA PourOrder ==
    ASSUME NEW table, IsTable(table), NEW w, DOMAIN w \subseteq DOMAIN table,
           NEW regrouped \in BOOLEAN
    PROVE  LET P == Peers(table, w)
           IN  /\ \A i \in P : ~PouredBefore(table, regrouped, i, i)
               /\ \A i, j, k \in P :
                     PouredBefore(table, regrouped, i, j) /\ PouredBefore(table, regrouped, j, k)
                        => PouredBefore(table, regrouped, i, k)
               /\ \A i, j \in P : \/ i = j
                                  \/ PouredBefore(table, regrouped, i, j)
                                  \/ PouredBefore(table, regrouped, j, i)
<1> DEFINE P == Peers(table, w)
           Listed(i, j) == ListedBefore(table, regrouped, i, j)
           Before(i, j) == PouredBefore(table, regrouped, i, j)
<1>1. ASSUME NEW i \in P
      PROVE  /\ i \in DOMAIN table /\ table[i].score \in Int
             /\ Place(table[i].class) \in Int /\ QdiiOrder[Place(table[i].class)] = table[i].class
  <2>1. i \in DOMAIN table /\ table[i].score \in Int
    BY ScoreTableIs DEF Peers
  <2>2. table[i].class \in Range(QdiiOrder)
    BY DEF Peers, IsSatelliteQdii
  <2>3. \E p \in DOMAIN QdiiOrder : QdiiOrder[p] = table[i].class
    BY <2>2 DEF Range
  <2>4. /\ Place(table[i].class) \in DOMAIN QdiiOrder
        /\ QdiiOrder[Place(table[i].class)] = table[i].class
    BY <2>3 DEF Place
  <2>5. DOMAIN QdiiOrder \subseteq Int
    BY DEF QdiiOrder
  <2> QED
    BY <2>1, <2>4, <2>5
<1>2. ASSUME NEW i \in DOMAIN table, NEW j \in DOMAIN table, NEW k \in DOMAIN table
      PROVE  /\ ~Listed(i, i)
             /\ Listed(i, j) /\ Listed(j, k) => Listed(i, k)
             /\ i = j \/ Listed(i, j) \/ Listed(j, i)
  BY PicksOrder DEF ListedBefore
<1>3. ASSUME NEW i \in P, NEW j \in P, NEW k \in P
      PROVE  /\ ~Before(i, i)
             /\ Before(i, j) /\ Before(j, k) => Before(i, k)
             /\ i = j \/ Before(i, j) \/ Before(j, i)
  <2>1. /\ ~Listed(i, i)
        /\ Listed(i, j) /\ Listed(j, k) => Listed(i, k)
        /\ i = j \/ Listed(i, j) \/ Listed(j, i)
    BY <1>1, <1>2
  <2>2. \A x \in P : /\ table[x].score \in Int /\ Place(table[x].class) \in Int
                     /\ QdiiOrder[Place(table[x].class)] = table[x].class
    BY <1>1
  <2> QED
    BY <2>1, <2>2 DEF PouredBefore
<1> QED
  BY <1>3

\* No satellite ends above the cap; a fund that lost weight is one at the cap, one that
\* gained has a satellite in its class, and nobody gains what nobody lost.
LEMMA Capped ==
    ASSUME NEW table, IsTable(table), NEW w, DOMAIN w \subseteq DOMAIN table,
           \A i \in DOMAIN w : w[i] \in Nat, NEW regrouped \in BOOLEAN
    PROVE  LET rows == ApplySatelliteQdiiCap(table, w, regrouped)
           IN  /\ DOMAIN rows = DOMAIN w
               /\ \A i \in DOMAIN w :
                     /\ rows[i] \in Nat
                     /\ IsSatelliteQdii(table[i]) => rows[i] <= SatelliteCap
                     /\ rows[i] < w[i] => IsSatelliteQdii(table[i]) /\ rows[i] = SatelliteCap
                     /\ rows[i] > w[i] => i \in Peers(table, w)
               /\ Total(rows) <= Total(w)
<1> DEFINE D == DOMAIN w
           P == Peers(table, w)
           capped == CapSatelliteQdii(table, w)
           shaved == Total(w) - Total(capped)
           room == [i \in D |-> Headroom(table, capped, i)]
           took == RedistributeShavedToClass(table, capped, regrouped, shaved)
           rows == ApplySatelliteQdiiCap(table, w, regrouped)
           R == {p \in P \X P : PouredBefore(table, regrouped, p[1], p[2])}
           before == [i \in D |-> SumFunctionOnSet(room, {j \in P : <<j, i>> \in R})]
<1>1. IsFiniteSet(D) /\ P \subseteq D /\ IsFiniteSet(P)
  <2>1. P \subseteq D
    BY DEF Peers
  <2> QED
    BY <2>1, ScoreTableIs, FS_Subset
<1>2. /\ DOMAIN capped = D /\ Peers(table, capped) = P
      /\ \A i \in D : capped[i] = IF IsSatelliteQdii(table[i]) /\ w[i] > SatelliteCap
                                  THEN SatelliteCap ELSE w[i]
  BY DEF CapSatelliteQdii, Peers
<1> HIDE DEF capped
<1>3. \A i \in D : capped[i] \in Nat /\ capped[i] <= w[i]
                   /\ (IsSatelliteQdii(table[i]) => capped[i] <= SatelliteCap)
                   /\ (capped[i] < w[i] => IsSatelliteQdii(table[i]) /\ capped[i] = SatelliteCap)
  BY <1>2, GoldNumbers
<1>4. shaved \in Nat
  <2>1. Total(w) = SumFunctionOnSet(w, D) /\ Total(capped) = SumFunctionOnSet(capped, D)
    BY <1>2 DEF Total
  <2>2. \A i \in D : capped[i] \in Int /\ w[i] \in Int /\ capped[i] <= w[i]
    BY <1>3
  <2> HIDE DEF D
  <2>3. /\ SumFunctionOnSet(capped, D) <= SumFunctionOnSet(w, D)
        /\ SumFunctionOnSet(capped, D) \in Int /\ SumFunctionOnSet(w, D) \in Int
    BY <1>1, <2>2, SumIsMonotone, SumIsInt
  <2> QED
    BY <2>1, <2>3
<1> HIDE DEF shaved
<1>5. ASSUME NEW i \in D
      PROVE  room[i] = IF IsSatelliteQdii(table[i]) THEN SatelliteCap - capped[i] ELSE Whole
  <2>1. room[i] = Headroom(table, capped, i)
    OBVIOUS
  <2>2. CASE IsSatelliteQdii(table[i])
    <3> DEFINE gap == SatelliteCap - capped[i]
    <3>1. gap \in Nat
      BY <1>3, <2>2, GoldNumbers
    <3>2. room[i] = Max({0, gap})
      BY <2>1, <2>2 DEF Headroom
    <3> HIDE DEF gap
    <3>3. Max({0, gap}) = gap
      BY <3>1, MaxOfTwo
    <3> QED
      BY <2>2, <3>2, <3>3 DEF gap
  <2>3. CASE ~IsSatelliteQdii(table[i])
    BY <2>1, <2>3 DEF Headroom
  <2> QED
    BY <2>2, <2>3
<1> HIDE DEF room
<1>6. \A i \in D : room[i] \in Nat
  BY <1>3, <1>5, GoldNumbers
<1>7. \A i, j \in P : <<i, j>> \in R <=> PouredBefore(table, regrouped, i, j)
  OBVIOUS
<1>8. /\ \A i \in P : <<i, i>> \notin R
      /\ \A i, j, k \in P : <<i, j>> \in R /\ <<j, k>> \in R => <<i, k>> \in R
      /\ \A i, j \in P : i = j \/ <<i, j>> \in R \/ <<j, i>> \in R
  <2> HIDE DEF R, P
  <2> QED
    BY <1>7, PourOrder DEF P
<1>9. /\ DOMAIN took = D
      /\ \A i \in D \ P : took[i] = 0
      /\ \A i \in P : took[i] = Min({shaved, before[i] + room[i]}) - Min({shaved, before[i]})
  <2>1. took = [i \in D |->
            IF i \in P
            THEN Min({shaved,
                      SumFunctionOnSet(room, {j \in P : PouredBefore(table, regrouped, j, i)})
                        + room[i]})
                 - Min({shaved,
                      SumFunctionOnSet(room, {j \in P : PouredBefore(table, regrouped, j, i)})})
            ELSE 0]
    BY <1>2 DEF RedistributeShavedToClass, room
  <2>2. ASSUME NEW i \in P
        PROVE  before[i]
                 = SumFunctionOnSet(room, {j \in P : PouredBefore(table, regrouped, j, i)})
    <3>1. {j \in P : <<j, i>> \in R} = {j \in P : PouredBefore(table, regrouped, j, i)}
      OBVIOUS
    <3> HIDE DEF R, P
    <3>2. i \in D
      BY <1>1, <2>2
    <3> QED
      BY <3>1, <3>2
  <2> HIDE DEF before, took, P
  <2> QED
    BY <1>1, <2>1, <2>2
<1>10. \A i \in P : before[i] = SumFunctionOnSet(room, {j \in P : <<j, i>> \in R})
  <2> HIDE DEF P, R
  <2> QED
    BY <1>1
<1>11. \A i \in P : room[i] \in Nat
  BY <1>1, <1>6
<1>12. DOMAIN rows = D /\ \A i \in D : rows[i] = capped[i] + took[i]
  BY <1>2 DEF ApplySatelliteQdiiCap, capped, shaved
<1> HIDE DEF took, rows, before, R, P, D
<1>13. \A i \in P : before[i] \in Nat
  <2> SUFFICES ASSUME NEW i \in P PROVE before[i] \in Nat
    OBVIOUS
  <2> DEFINE T == {j \in P : <<j, i>> \in R}
  <2>1. IsFiniteSet(T) /\ \A j \in T : room[j] \in Nat
    BY <1>1, <1>11, FS_Subset
  <2>2. before[i] = SumFunctionOnSet(room, T)
    BY <1>10
  <2> HIDE DEF T
  <2> QED
    BY <2>1, <2>2, SumIsNat
<1>14. ASSUME NEW i \in P, NEW k \in P, <<k, i>> \in R
       PROVE  before[k] + room[k] <= before[i]
  <2> DEFINE T == {j \in P : <<j, k>> \in R}
             U == {j \in P : <<j, i>> \in R}
  <2>1. T \cup {k} \subseteq U /\ k \notin T
    BY <1>8, <1>14
  <2>2. IsFiniteSet(T) /\ IsFiniteSet(U)
    BY <1>1, FS_Subset
  <2>3. \A j \in U : room[j] \in Int /\ room[j] >= 0
    BY <1>11
  <2>4. before[k] = SumFunctionOnSet(room, T) /\ before[i] = SumFunctionOnSet(room, U)
    BY <1>10
  <2>5. \A j \in T \cup {k} : room[j] \in Int
    BY <2>1, <2>3
  <2> HIDE DEF T, U
  <2>6. SumFunctionOnSet(room, T \cup {k}) = room[k] + SumFunctionOnSet(room, T)
    BY <2>1, <2>2, <2>5, SumWith
  <2>7. SumFunctionOnSet(room, T \cup {k}) <= SumFunctionOnSet(room, U)
    BY <2>1, <2>2, <2>3, SumOfSome
  <2>8. before[k] \in Nat /\ room[k] \in Nat
    BY <1>11, <1>13
  <2> QED
    BY <2>4, <2>6, <2>7, <2>8
<1> DEFINE low == [i \in P |-> IF shaved <= before[i] THEN shaved ELSE before[i]]
           top == [i \in P |-> IF shaved <= before[i] + room[i] THEN shaved
                               ELSE before[i] + room[i]]
<1>15. ASSUME NEW i \in P
       PROVE  /\ low[i] \in Nat /\ top[i] \in Nat /\ top[i] <= shaved
              /\ took[i] = top[i] - low[i] /\ took[i] \in Nat /\ took[i] <= room[i]
  <2>1. shaved \in Nat /\ before[i] \in Nat /\ room[i] \in Nat
    BY <1>4, <1>11, <1>13
  <2>2. took[i] = Min({shaved, before[i] + room[i]}) - Min({shaved, before[i]})
    BY <1>9
  <2>3. Min({shaved, before[i] + room[i]}) = top[i] /\ Min({shaved, before[i]}) = low[i]
    BY <2>1, MinOfTwo
  <2> QED
    BY <2>1, <2>2, <2>3
<1>16. \A i, k \in P : <<k, i>> \in R => top[k] <= low[i]
  <2> SUFFICES ASSUME NEW i \in P, NEW k \in P, <<k, i>> \in R PROVE top[k] <= low[i]
    OBVIOUS
  <2>1. /\ shaved \in Nat /\ before[i] \in Nat /\ before[k] \in Nat /\ room[k] \in Nat
        /\ before[k] + room[k] <= before[i]
    BY <1>4, <1>11, <1>13, <1>14
  <2> QED
    BY <2>1
<1> HIDE DEF low, top
<1>17. SumFunctionOnSet(took, P) <= shaved
  <2>1. /\ IsFiniteSet(P)
        /\ \A i \in P : <<i, i>> \notin R
        /\ \A i, j, k \in P : <<i, j>> \in R /\ <<j, k>> \in R => <<i, k>> \in R
        /\ \A i, j \in P : i = j \/ <<i, j>> \in R \/ <<j, i>> \in R
    BY <1>1, <1>8
  <2>2. /\ \A i \in P : low[i] \in Nat /\ top[i] \in Nat /\ top[i] <= shaved
        /\ \A i \in P : took[i] = top[i] - low[i]
        /\ \A i, k \in P : <<k, i>> \in R => top[k] <= low[i]
    BY <1>15, <1>16
  <2>3. InTurn(P, R, shaved, low, top, took)
    BY <1>4, <2>1, <2>2 DEF InTurn
  <2> QED
    BY <2>3, Poured
<1>18. \A i \in D : took[i] \in Nat /\ took[i] <= room[i] /\ (took[i] > 0 => i \in P)
  BY <1>6, <1>9, <1>15
<1>19. ASSUME NEW i \in D
       PROVE  /\ rows[i] \in Nat
              /\ IsSatelliteQdii(table[i]) => rows[i] <= SatelliteCap
              /\ rows[i] < w[i] => IsSatelliteQdii(table[i]) /\ rows[i] = SatelliteCap
              /\ rows[i] > w[i] => i \in P
  <2>1. /\ rows[i] = capped[i] + took[i] /\ capped[i] \in Nat /\ took[i] \in Nat
        /\ took[i] <= room[i] /\ w[i] \in Nat
    BY <1>3, <1>12, <1>18 DEF D
  <2> QED
    BY <1>3, <1>5, <1>18, <2>1, GoldNumbers
<1>20. Total(rows) <= Total(w)
  <2>1. SumFunctionOnSet(rows, D) = SumFunctionOnSet(capped, D) + SumFunctionOnSet(took, D)
    <3>1. \A i \in D : capped[i] \in Int /\ took[i] \in Int /\ rows[i] = capped[i] + took[i]
      BY <1>3, <1>12, <1>18
    <3> QED
      BY <1>1, <3>1, SumPointwise
  <2>2. SumFunctionOnSet(took, D) = SumFunctionOnSet(took, P)
    <3> DEFINE Q == D \ P
    <3>1. IsFiniteSet(Q) /\ \A i \in Q : took[i] = 0
      BY <1>1, <1>9, FS_Subset
    <3>2. \A i \in D : took[i] \in Int
      BY <1>18
    <3>3. SumFunctionOnSet(took, D) = SumFunctionOnSet(took, P) + SumFunctionOnSet(took, D \ P)
      BY <1>1, <3>2, SumOfParts
    <3>4. SumFunctionOnSet(took, P) \in Int
      BY <1>1, <1>15, SumIsInt
    <3> HIDE DEF Q
    <3>5. SumFunctionOnSet(took, Q) = 0
      BY <3>1, SumOfNothing
    <3> QED
      BY <3>3, <3>4, <3>5 DEF Q
  <2>3. /\ Total(w) = SumFunctionOnSet(w, D) /\ Total(capped) = SumFunctionOnSet(capped, D)
        /\ Total(rows) = SumFunctionOnSet(rows, D)
    BY <1>2, <1>12 DEF Total, D
  <2>4. SumFunctionOnSet(capped, D) \in Int /\ SumFunctionOnSet(w, D) \in Int
        /\ SumFunctionOnSet(took, P) \in Int
    <3>1. \A i \in D : capped[i] \in Int /\ w[i] \in Int
      BY <1>3 DEF D
    <3>2. \A i \in P : took[i] \in Int
      BY <1>15
    <3> QED
      BY <1>1, <3>1, <3>2, SumIsInt
  <2>5. shaved = Total(w) - Total(capped)
    BY DEF shaved
  <2> QED
    BY <1>17, <2>1, <2>2, <2>3, <2>4, <2>5
<1> QED
  BY <1>12, <1>19, <1>20 DEF rows, D, P

-----------------------------------------------------------------------------
(* The allocation of a table, for class weights that are the portfolio.    *)

Allots(table, W) ==
    IsTable(table) /\ W \in [Classes -> Nat] /\ Total(W) = Whole /\ IsExact(table, W)
SharesKept(table, W) == DropDuplicateIndexTrackers(table, Sized(table, W))
RowsOf(table, W) == Allocation(table, Sized(table, W))

LEMMA SharesKeptAre ==
    ASSUME NEW table, NEW W, Allots(table, W)
    PROVE  LET w == SharesKept(table, W)
               D == DOMAIN w
           IN  /\ D \subseteq Undropped(table, Sized(table, W)) /\ D \subseteq Selected(table)
               /\ D \subseteq DOMAIN table /\ IsFiniteSet(D)
               /\ \A i \in D : w[i] \in Nat /\ table[i].class \in Classes
               /\ \A c \in Classes : ClassWeight(table, w, D, c)
                                        = IF InClass(table, c) = {} THEN 0 ELSE W[c]
               /\ Total(w) <= Whole
<1> DEFINE w == SharesKept(table, W)
           D == DOMAIN w
           F == [c \in Classes |-> ClassWeight(table, w, D, c)]
           kind == [i \in D |-> table[i].class]
<1>1. IsTable(table) /\ W \in [Classes -> Nat] /\ Total(W) = Whole /\ IsExact(table, W)
  BY DEF Allots
<1>2. /\ D \subseteq Undropped(table, Sized(table, W))
      /\ \A i \in D : w[i] \in Nat
      /\ \A c \in Classes : ClassWeight(table, w, D, c)
                               = IF InClass(table, c) = {} THEN 0 ELSE W[c]
  BY <1>1, KeptAddUp DEF SharesKept
<1>3. D \subseteq Selected(table)
  BY <1>1, <1>2, SharesAddUp DEF Undropped
<1>4. D \subseteq DOMAIN table /\ IsFiniteSet(D) /\ \A i \in D : table[i].class \in Classes
  <2>1. D \subseteq DOMAIN table
    BY <1>3 DEF Selected
  <2> QED
    BY <1>1, <2>1, ScoreTableIs, FS_Subset
<1>5. SumFunctionOnSet(w, D) = SumFunctionOnSet(F, Classes)
  <2>1. \A c \in Classes : F[c] = SumFunctionOnSet(w, {i \in D : kind[i] = c})
    <3> SUFFICES ASSUME NEW c \in Classes
                 PROVE  F[c] = SumFunctionOnSet(w, {i \in D : kind[i] = c})
      OBVIOUS
    <3>1. {i \in D : kind[i] = c} = {i \in D : table[i].class = c}
      OBVIOUS
    <3>2. F[c] = SumFunctionOnSet(w, {i \in D : table[i].class = c})
      BY DEF ClassWeight
    <3> HIDE DEF D, kind, F
    <3> QED
      BY <3>1, <3>2
  <2>2. \A i \in D : kind[i] \in Classes /\ w[i] \in Int
    BY <1>2, <1>4
  <2> HIDE DEF D, kind, F
  <2>3. IsByKind(F, Classes, w, D, kind)
    BY <2>1, <2>2 DEF IsByKind
  <2> QED
    BY <1>4, <2>2, <2>3, GoldNumbers, SumByKind
<1>6. \A c \in Classes : F[c] \in Int /\ W[c] \in Int /\ F[c] <= W[c]
  BY <1>1, <1>2
<1> HIDE DEF F
<1>7. SumFunctionOnSet(F, Classes) <= SumFunctionOnSet(W, Classes)
  BY <1>6, GoldNumbers, SumIsMonotone
<1>8. Total(W) = SumFunctionOnSet(W, Classes) /\ Total(w) = SumFunctionOnSet(w, D)
  <2>1. DOMAIN W = Classes
    BY <1>1
  <2> QED
    BY <2>1 DEF Total
<1>9. Total(w) <= Whole
  BY <1>1, <1>5, <1>7, <1>8
<1> QED
  BY <1>2, <1>3, <1>4, <1>9

LEMMA RowsAre ==
    ASSUME NEW table, NEW W, Allots(table, W)
    PROVE  LET w == SharesKept(table, W)
               rows == RowsOf(table, W)
           IN  /\ DOMAIN rows = DOMAIN w
               /\ \A i \in DOMAIN w :
                     /\ rows[i] \in 0..Whole
                     /\ IsSatelliteQdii(table[i]) => rows[i] <= SatelliteCap
                     /\ rows[i] < w[i] => IsSatelliteQdii(table[i]) /\ rows[i] = SatelliteCap
                     /\ rows[i] > w[i] => i \in Peers(table, w)
               /\ Total(rows) \in 0..Whole
<1> DEFINE w == SharesKept(table, W)
           D == DOMAIN w
           rows == RowsOf(table, W)
           regrouped == DOMAIN w = DOMAIN Sized(table, W)
<1>1. rows = ApplySatelliteQdiiCap(table, w, regrouped) /\ regrouped \in BOOLEAN
  BY DEF RowsOf, Allocation, SharesKept
<1>2. /\ IsTable(table) /\ D \subseteq DOMAIN table /\ IsFiniteSet(D)
      /\ \A i \in D : w[i] \in Nat
      /\ Total(w) <= Whole
  BY SharesKeptAre DEF Allots
<1> HIDE DEF w, rows, regrouped
<1>3. /\ DOMAIN rows = D
      /\ \A i \in D :
            /\ rows[i] \in Nat
            /\ IsSatelliteQdii(table[i]) => rows[i] <= SatelliteCap
            /\ rows[i] < w[i] => IsSatelliteQdii(table[i]) /\ rows[i] = SatelliteCap
            /\ rows[i] > w[i] => i \in Peers(table, w)
      /\ Total(rows) <= Total(w)
  BY <1>1, <1>2, Capped
<1>4. Total(rows) = SumFunctionOnSet(rows, D) /\ Total(w) = SumFunctionOnSet(w, D)
  BY <1>3 DEF Total
<1> HIDE DEF D
<1>5. SumFunctionOnSet(rows, D) \in Nat /\ SumFunctionOnSet(w, D) \in Nat
  BY <1>2, <1>3, SumIsNat
<1>6. Total(rows) \in 0..Whole
  BY <1>2, <1>3, <1>4, <1>5, GoldNumbers
<1>7. ASSUME NEW i \in D PROVE rows[i] \in 0..Whole
  <2>1. \A j \in D : rows[j] \in Int /\ rows[j] >= 0
    BY <1>3
  <2>2. rows[i] <= SumFunctionOnSet(rows, D)
    BY <1>2, <2>1, OneOfTheSum
  <2> QED
    BY <1>3, <1>4, <1>6, <2>2, GoldNumbers
<1>8. /\ DOMAIN rows = D
      /\ \A i \in D :
            /\ rows[i] \in 0..Whole
            /\ IsSatelliteQdii(table[i]) => rows[i] <= SatelliteCap
            /\ rows[i] < w[i] => IsSatelliteQdii(table[i]) /\ rows[i] = SatelliteCap
            /\ rows[i] > w[i] => i \in Peers(table, w)
      /\ Total(rows) \in 0..Whole
  BY <1>3, <1>6, <1>7
<1> QED
  BY <1>8 DEF w, rows, D

\* A class that has a fund gets its weight but for the cap.
LEMMA ClassesAreServed ==
    ASSUME NEW table, NEW W, Allots(table, W), NEW c \in Classes, InClass(table, c) # {}
    PROVE  LET rows == RowsOf(table, W)
               held == {i \in DOMAIN rows : table[i].class = c}
               weight == ClassWeight(table, rows, DOMAIN rows, c)
               satellites == {i \in held : IsSatelliteQdii(table[i])}
           IN  /\ W[c] > 0 => held # {}
               /\ weight < W[c] => \E i \in satellites : rows[i] = SatelliteCap
               /\ weight > W[c] => satellites # {}
<1> DEFINE rows == RowsOf(table, W)
           w == SharesKept(table, W)
           held == {i \in DOMAIN rows : table[i].class = c}
           satellites == {i \in held : IsSatelliteQdii(table[i])}
<1>1. /\ DOMAIN rows = DOMAIN w
      /\ \A i \in DOMAIN w :
            /\ rows[i] \in Int
            /\ rows[i] < w[i] => IsSatelliteQdii(table[i]) /\ rows[i] = SatelliteCap
            /\ rows[i] > w[i] => i \in Peers(table, w)
  BY RowsAre
<1>2. /\ IsFiniteSet(DOMAIN w) /\ \A i \in DOMAIN w : w[i] \in Nat
      /\ ClassWeight(table, w, DOMAIN w, c) = W[c]
  BY SharesKeptAre
<1>3. /\ ClassWeight(table, w, DOMAIN w, c) = SumFunctionOnSet(w, held)
      /\ ClassWeight(table, rows, DOMAIN rows, c) = SumFunctionOnSet(rows, held)
  <2>1. held = {i \in DOMAIN w : table[i].class = c}
    BY <1>1
  <2> HIDE DEF rows, w
  <2> QED
    BY <2>1 DEF ClassWeight
<1> HIDE DEF rows, w
<1>4. held \subseteq DOMAIN w
  BY <1>1
<1>5. IsFiniteSet(held) /\ \A i \in held : rows[i] \in Int /\ w[i] \in Int
  BY <1>1, <1>2, <1>4, FS_Subset
<1>6. W[c] > 0 => held # {}
  <2>1. held = {} => SumFunctionOnSet(w, held) = 0
    BY SumEmpty
  <2> HIDE DEF held
  <2> QED
    BY <1>2, <1>3, <2>1
<1>7. ASSUME SumFunctionOnSet(rows, held) < W[c]
      PROVE  \E i \in satellites : rows[i] = SatelliteCap
  <2>1. SumFunctionOnSet(rows, held) < SumFunctionOnSet(w, held)
    BY <1>2, <1>3, <1>7
  <2> HIDE DEF held
  <2>2. PICK i \in held : rows[i] < w[i]
    BY <1>5, <2>1, GreaterSum
  <2>3. IsSatelliteQdii(table[i]) /\ rows[i] = SatelliteCap
    BY <1>1, <1>4, <2>2
  <2> QED
    BY <2>2, <2>3
<1>8. ASSUME SumFunctionOnSet(rows, held) > W[c] PROVE satellites # {}
  <2>1. SumFunctionOnSet(w, held) < SumFunctionOnSet(rows, held)
    <3>1. SumFunctionOnSet(w, held) = W[c]
      BY <1>2, <1>3
    <3> QED
      BY <1>8, <3>1
  <2>2. \E i \in held : w[i] < rows[i]
    <3> HIDE DEF held
    <3> QED
      BY <1>5, <2>1, GreaterSum
  <2>3. PICK i \in held : w[i] < rows[i]
    BY <2>2
  <2>4. i \in Peers(table, w)
    BY <1>1, <1>4, <1>5, <2>3
  <2>5. PICK j \in DOMAIN w : table[j].class = table[i].class /\ IsSatelliteQdii(table[j])
    BY <2>4 DEF Peers
  <2> QED
    BY <1>1, <2>3, <2>5
<1>9. LET weight == ClassWeight(table, rows, DOMAIN rows, c)
      IN  /\ W[c] > 0 => held # {}
          /\ weight < W[c] => \E i \in satellites : rows[i] = SatelliteCap
          /\ weight > W[c] => satellites # {}
  BY <1>3, <1>6, <1>7, <1>8
<1> QED
  BY <1>9 DEF rows

\* No class holds two funds of one index.
LEMMA IndexesDiffer ==
    ASSUME NEW table, NEW W, Allots(table, W)
    PROVE  LET rows == RowsOf(table, W)
           IN  \A i, j \in DOMAIN rows :
                  i # j /\ table[i].class = table[j].class =>
                      table[i].index = NoTrackedIndex \/ table[i].index # table[j].index
<1> DEFINE chosen == Sized(table, W)
           rows == RowsOf(table, W)
<1>1. IsTable(table) /\ DOMAIN chosen \subseteq DOMAIN table
      /\ \A i \in DOMAIN chosen : chosen[i] \in Int
  BY SharesAddUp DEF Allots
<1>2. DOMAIN rows \subseteq Undropped(table, chosen)
  BY RowsAre, SharesKeptAre
<1>3. \A i, j \in Undropped(table, chosen) :
          i # j /\ table[i].class = table[j].class =>
              table[i].index = NoTrackedIndex \/ table[i].index # table[j].index
  <2> HIDE DEF chosen
  <2> QED
    BY <1>1, OneIsKept
<1> HIDE DEF chosen, rows
<1>4. \A i, j \in DOMAIN rows :
          i # j /\ table[i].class = table[j].class =>
              table[i].index = NoTrackedIndex \/ table[i].index # table[j].index
  BY <1>2, <1>3
<1> QED
  BY <1>4 DEF rows

\* While its class has a slot for every role, a role keeps its leader, or loses it to a
\* kept fund of the same index.
LEMMA LeaderIsChosen ==
    ASSUME NEW table, IsTable(table), NEW i \in DOMAIN table,
           Cardinality({table[j].role : j \in InClass(table, table[i].class)}) <= AllocTopK
    PROVE  \E l \in SelectTopK(table, table[i].class) : table[l].role = table[i].role
<1> DEFINE C == InClass(table, table[i].class)
           S == {j \in C : table[j].role = table[i].role}
           Q(l) == {j \in C : PickedBefore(table, j, l)}
           roles == {table[j].role : j \in C}
           N == DOMAIN table
<1>1. C \subseteq N /\ IsFiniteSet(C) /\ i \in C /\ \A j \in C : table[j].class = table[i].class
  BY Selection DEF InClass
<1>2. PICK l \in S : \A j \in S : ~Outscores(table, j, l)
  <2> DEFINE R == {p \in S \X S : Outscores(table, p[1], p[2])}
  <2>1. \A j, k \in S : <<j, k>> \in R <=> Outscores(table, j, k)
    OBVIOUS
  <2>2. S \subseteq N /\ S # {} /\ IsFiniteSet(S)
    BY <1>1, FS_Subset
  <2> HIDE DEF S, R, N
  <2>3. /\ \A j \in S : <<j, j>> \notin R
        /\ \A j, k, m \in S : <<j, k>> \in R /\ <<k, m>> \in R => <<j, m>> \in R
    BY <2>1, <2>2, ScoresOrder DEF N
  <2> QED
    BY <2>1, <2>2, <2>3, HasFirst
<1>3. l \in C /\ l \in N /\ table[l].role = table[i].role /\ table[l].class = table[i].class
  BY <1>1, <1>2
<1>4. \A j \in S : j = l \/ Outscores(table, l, j)
  <2>1. \A j \in S : j \in DOMAIN table
    BY <1>1
  <2> QED
    BY <1>2, <1>3, <2>1, ScoresOrder
<1> HIDE DEF C
<1>5. LeadsItsRole(table, l)
  BY <1>3, <1>4 DEF LeadsItsRole, C
<1>6. \A j \in C : table[j].class = table[i].class /\ j \in N
  BY <1>1
<1>7. \A j \in Q(l) : LeadsItsRole(table, j) /\ j # l /\ j \in C
  BY <1>3, <1>5, <1>6, PicksOrder DEF PickedBefore
<1>8. ASSUME NEW j \in C, NEW k \in C, LeadsItsRole(table, j), LeadsItsRole(table, k),
             table[j].role = table[k].role
      PROVE  j = k
  <2>1. InClass(table, table[j].class) = C /\ InClass(table, table[k].class) = C
    BY <1>6 DEF C
  <2>2. (k = j \/ Outscores(table, j, k)) /\ (j = k \/ Outscores(table, k, j))
    BY <1>8, <2>1 DEF LeadsItsRole
  <2>3. ~(Outscores(table, j, k) /\ Outscores(table, k, j))
    BY <1>6, ScoresOrder
  <2> QED
    BY <2>2, <2>3
<1>9. IsFiniteSet(roles)
  <2> DEFINE t == [j \in C |-> table[j].role]
  <2>1. {t[j] : j \in C} = roles
    OBVIOUS
  <2> HIDE DEF t, roles
  <2>2. IsFiniteSet({t[j] : j \in C})
    BY <1>1, FiniteImage
  <2> QED
    BY <2>1, <2>2
<1>10. Cardinality(Q(l)) < AllocTopK
  <2> DEFINE q == Q(l)
             rest == roles \ {table[l].role}
             f == [j \in q |-> table[j].role]
  <2>1. \A j \in q : j \in C /\ table[j].role \in rest
    BY <1>3, <1>5, <1>7, <1>8
  <2>2. \A j, k \in q : table[j].role = table[k].role => j = k
    BY <1>7, <1>8
  <2>3. table[l].role \in roles
    BY <1>3
  <2>4. /\ IsFiniteSet(rest) /\ Cardinality(rest) = Cardinality(roles) - 1
        /\ Cardinality(roles) \in Nat
    <3> HIDE DEF roles
    <3> QED
      BY <1>9, <2>3, FS_RemoveElement, FS_CardinalityType
  <2>5. f \in Injection(q, rest)
    <3> HIDE DEF q, rest
    <3>1. f \in [q -> rest]
      BY <2>1
    <3>2. \A j, k \in q : f[j] = f[k] => j = k
      BY <2>2
    <3> HIDE DEF f
    <3> QED
      BY <3>1, <3>2 DEF Injection, IsInjective
  <2> HIDE DEF q, rest, f
  <2>6. IsFiniteSet(q) /\ Cardinality(q) <= Cardinality(rest) /\ Cardinality(q) \in Nat
    BY <2>4, <2>5, FS_Injection, FS_CardinalityType
  <2>7. Cardinality(roles) <= AllocTopK /\ AllocTopK \in Nat
    BY GoldAssumption DEF C
  <2>8. Cardinality(q) < AllocTopK
    <3> HIDE DEF roles
    <3> QED
      BY <2>4, <2>6, <2>7
  <2> QED
    BY <2>8 DEF q
<1>11. l \in SelectTopK(table, table[i].class)
  BY <1>3, <1>10 DEF SelectTopK, C
<1> QED
  BY <1>3, <1>11

LEMMA RolesAreServed ==
    ASSUME NEW table, NEW W, Allots(table, W), NEW i \in DOMAIN table,
           W[table[i].class] > 0,
           Cardinality({table[j].role : j \in InClass(table, table[i].class)}) <= AllocTopK
    PROVE  LET chosen == Sized(table, W)
               peers == InClass(table, table[i].class)
               kept == peers \cap DOMAIN RowsOf(table, W)
           IN  \/ \E j \in kept : table[j].role = table[i].role
               \/ \E j \in peers \cap DOMAIN chosen :
                     /\ table[j].role = table[i].role /\ table[j].index # NoTrackedIndex
                     /\ \E k \in kept : table[k].index = table[j].index /\ k # j
<1> DEFINE chosen == Sized(table, W)
           peers == InClass(table, table[i].class)
           rows == RowsOf(table, W)
           kept == peers \cap DOMAIN rows
           D == Undropped(table, chosen)
           Served ==
               \/ \E j \in kept : table[j].role = table[i].role
               \/ \E j \in peers \cap DOMAIN chosen :
                     /\ table[j].role = table[i].role /\ table[j].index # NoTrackedIndex
                     /\ \E k \in kept : table[k].index = table[j].index /\ k # j
<1> SUFFICES Served
  OBVIOUS
<1>1. IsTable(table) /\ W \in [Classes -> Nat] /\ IsExact(table, W)
  BY DEF Allots
<1>2. PICK l \in SelectTopK(table, table[i].class) : table[l].role = table[i].role
  BY <1>1, LeaderIsChosen
<1>3. l \in peers /\ l \in DOMAIN chosen /\ table[l].class = table[i].class
  <2>1. l \in Selected(table) /\ l \in peers /\ table[l].class = table[i].class
    BY <1>1, <1>2, Selection
  <2> QED
    BY <1>1, <2>1, SharesAddUp
<1>4. DOMAIN chosen \subseteq DOMAIN table /\ \A j \in DOMAIN chosen : chosen[j] \in Int
  BY <1>1, SharesAddUp
<1>5. DOMAIN rows = DOMAIN SharesKept(table, W)
  BY RowsAre
<1>6. \A k \in D : W[table[k].class] > 0 => k \in DOMAIN rows
  BY <1>1, <1>5, KeptAddUp DEF SharesKept
<1>7. D \subseteq DOMAIN chosen
  BY DEF Undropped
<1> HIDE DEF chosen, rows, D
<1>8. CASE l \in D
  BY <1>2, <1>3, <1>6, <1>8
<1>9. CASE l \notin D
  <2>1. IsDuplicate(table, chosen, l)
    BY <1>3, <1>9 DEF Undropped, D
  <2>2. table[l].index # NoTrackedIndex
    BY <2>1 DEF IsDuplicate
  <2>3. PICK k \in D : table[k].class = table[l].class /\ table[k].index = table[l].index
    BY <1>1, <1>3, <1>4, OneIsKept DEF D
  <2>4. k \in DOMAIN rows /\ k # l
    BY <1>3, <1>6, <1>9, <2>3
  <2>5. k \in peers
    BY <1>3, <1>4, <1>7, <2>3 DEF InClass
  <2> QED
    BY <1>2, <1>3, <2>2, <2>3, <2>4, <2>5
<1> QED
  BY <1>8, <1>9

-----------------------------------------------------------------------------
(* The invariant.                                                          *)

\* A proposal was sized by the gold file it read, and is the allocation of a table of
\* some day for the class weights of a tilt.
SizedByGold(p) ==
    /\ Earned(p.gold)
    /\ p.classes = TargetWeights(IF p.gold = NoGold THEN "neutral" ELSE p.gold.tilt)
IsAllocation(p) ==
    /\ \E tilt \in Range(TiltOrder) : p.classes = TargetWeights(tilt)
    /\ \E d \in GoldDays : p.from.rows \in Tables[d]
    /\ p.chosen = Sized(p.from.rows, p.classes)
    /\ p.rows = Allocation(p.from.rows, p.chosen)
    /\ p.residual = Max({0, Whole - Total(p.rows)})

\* Every gold file is earned and says a tilt, and the scores are a table of some day.
GoldInv ==
    /\ goldDay \in GoldDays
    /\ goldFile \in [GoldDays -> {goldFile[d] : d \in GoldDays}]
    /\ \A d \in GoldDays :
          Earned(goldFile[d]) /\ (goldFile[d] = NoGold \/ goldFile[d].tilt \in Range(TiltOrder))
    /\ scored.day \in 0..goldDay
    /\ scored.day # 0 => \E d \in GoldDays : scored.rows \in Tables[d]
    /\ proposed.made => SizedByGold(proposed) /\ IsAllocation(proposed)

LEMMA GoldInvInit == GoldInit => GoldInv
<1> SUFFICES ASSUME GoldInit PROVE GoldInv
  OBVIOUS
<1>1. /\ goldDay = 1 /\ scored.day = 0 /\ goldFile = [d \in GoldDays |-> NoGold]
      /\ ~proposed.made
  BY DEF GoldInit, NoProposal
<1>2. LastGoldDay \in Nat /\ LastGoldDay # 0
  BY GoldAssumption
<1>3. goldDay \in GoldDays /\ scored.day \in 0..goldDay
  BY <1>1, <1>2 DEF GoldDays
<1>4. Earned(NoGold)
  BY DEF NoGold, Earned
<1> QED
  BY <1>1, <1>3, <1>4 DEF GoldInv

LEMMA GoldInvStep == GoldInv /\ [GoldNext]_goldVars => GoldInv'
<1> SUFFICES ASSUME GoldInv, [GoldNext]_goldVars PROVE GoldInv'
  OBVIOUS
<1> USE DEF GoldInv
<1>1. ASSUME NEW fresh \in BOOLEAN, NEW listed \in BOOLEAN, NEW priced \in BOOLEAN,
             RunGold(fresh, listed, priced)
      PROVE  GoldInv'
  <2>1. PICK m \in Markets, score \in DriverScores,
             missing \in SUBSET {"cb_purchases", "etf_holdings"} :
          goldFile' = [goldFile EXCEPT ![goldDay] =
              [regime |-> ClassifyRegime(m), drivers |-> GoldTiltFromScore(score),
               missing |-> Cardinality(missing),
               tilt |-> CombineTilts(ClassifyRegime(m), GoldTiltFromScore(score),
                                     Cardinality(missing))]]
    BY <1>1 DEF RunGold
  <2>2. Cardinality(missing) \in Nat
    <3>1. IsFiniteSet({} \cup {"cb_purchases"})
      BY FS_EmptySet, FS_AddElement
    <3>2. IsFiniteSet(({} \cup {"cb_purchases"}) \cup {"etf_holdings"})
      BY <3>1, FS_AddElement
    <3>3. ({} \cup {"cb_purchases"}) \cup {"etf_holdings"} = {"cb_purchases", "etf_holdings"}
      OBVIOUS
    <3>4. IsFiniteSet(missing)
      BY <3>2, <3>3, FS_Subset
    <3> QED
      BY <3>4, FS_CardinalityType
  <2>3. Earned(goldFile'[goldDay])
    BY <2>1, <2>2, CombinedTiltIsEarned DEF Earned
  <2>4. goldFile'[goldDay].tilt \in Range(TiltOrder)
    BY <2>1, CombinedTiltIsOne
  <2>5. \A d \in GoldDays : d # goldDay => goldFile'[d] = goldFile[d]
    BY <2>1
  <2>6. UNCHANGED <<goldDay, scored, proposed>>
    BY <1>1 DEF RunGold
  <2>7. DOMAIN goldFile' = GoldDays
    BY <2>1
  <2> QED
    BY <2>1, <2>3, <2>4, <2>5, <2>6, <2>7
<1>2. ASSUME NEW table \in Tables[goldDay], WriteScores(table) PROVE GoldInv'
  <2>1. /\ scored' = [day |-> goldDay, rows |-> table]
        /\ UNCHANGED <<goldDay, goldFile, proposed>>
    BY <1>2 DEF WriteScores
  <2>2. scored'.day \in 0..goldDay' /\ scored'.rows \in Tables[goldDay]
    BY <2>1 DEF GoldDays
  <2> QED
    BY <2>1, <2>2
<1>3. CASE RunAllocate
  <2>1. scored.day \in GoldDays
    <3>1. scored.day \in 0..goldDay /\ goldDay \in GoldDays /\ scored.day # 0
      BY <1>3 DEF RunAllocate
    <3>2. LastGoldDay \in Nat
      BY GoldAssumption
    <3> HIDE DEF GoldInv
    <3> QED
      BY <3>1, <3>2 DEF GoldDays
  <2> DEFINE gold == goldFile[scored.day]
             tilt == IF gold = NoGold THEN "neutral" ELSE gold.tilt
  <2>2. Earned(gold) /\ tilt \in Range(TiltOrder)
    <3>1. TiltOrder[3] = "neutral" /\ 3 \in DOMAIN TiltOrder
      BY DEF TiltOrder
    <3>2. "neutral" \in Range(TiltOrder)
      BY <3>1 DEF Range
    <3> QED
      BY <2>1, <3>2
  <2>3. /\ proposed'.from = scored /\ proposed'.gold = gold
        /\ proposed'.classes = TargetWeights(tilt)
        /\ proposed'.chosen = Sized(scored.rows, proposed'.classes)
        /\ proposed'.rows = Allocation(scored.rows, proposed'.chosen)
        /\ proposed'.residual = Max({0, Whole - Total(proposed'.rows)})
    BY <1>3 DEF RunAllocate
  <2>4. UNCHANGED <<goldDay, scored, goldFile>>
    BY <1>3 DEF RunAllocate
  <2>5. SizedByGold(proposed')
    BY <2>2, <2>3 DEF SizedByGold
  <2>6. \E d \in GoldDays : scored.rows \in Tables[d]
    BY <1>3 DEF RunAllocate
  <2>7. IsAllocation(proposed')
    BY <2>2, <2>3, <2>6 DEF IsAllocation
  <2> QED
    BY <2>4, <2>5, <2>7
<1>4. CASE NextGoldDay
  <2>1. goldDay \in 1..LastGoldDay /\ goldDay < LastGoldDay /\ goldDay' = goldDay + 1
    BY <1>4 DEF NextGoldDay, GoldDays
  <2>2. LastGoldDay \in Nat
    BY GoldAssumption
  <2>3. goldDay' \in GoldDays /\ scored.day \in 0..goldDay'
    <3>1. scored.day \in 0..goldDay
      OBVIOUS
    <3> HIDE DEF GoldInv
    <3> QED
      BY <2>1, <2>2, <3>1 DEF GoldDays
  <2>4. ~proposed'.made /\ UNCHANGED <<scored, goldFile>>
    BY <1>4 DEF NextGoldDay, NoProposal
  <2> QED
    BY <2>3, <2>4
<1>5. CASE UNCHANGED goldVars
  BY <1>5 DEF goldVars
<1> QED
  BY <1>1, <1>2, <1>3, <1>4, <1>5 DEF GoldNext

\* So a proposal allots.
LEMMA ProposalAllots ==
    ASSUME GoldInv, proposed.made
    PROVE  /\ Allots(proposed.from.rows, proposed.classes)
           /\ proposed.chosen = Sized(proposed.from.rows, proposed.classes)
           /\ proposed.rows = RowsOf(proposed.from.rows, proposed.classes)
           /\ proposed.residual = Max({0, Whole - Total(proposed.rows)})
<1>1. IsAllocation(proposed)
  BY DEF GoldInv
<1>2. PICK tilt \in Range(TiltOrder) : proposed.classes = TargetWeights(tilt)
  BY <1>1 DEF IsAllocation
<1>3. PICK d \in GoldDays : proposed.from.rows \in Tables[d]
  BY <1>1 DEF IsAllocation
<1>4. IsTable(proposed.from.rows) /\ IsExact(proposed.from.rows, TargetWeights(tilt))
  BY <1>3, GoldAssumption, UnitsAreFine DEF GoldDays
<1>5. Allots(proposed.from.rows, proposed.classes)
  BY <1>2, <1>4, ClassesAddUp DEF Allots
<1> QED
  BY <1>1, <1>5 DEF IsAllocation, RowsOf

\* The run Decision checks these as parts of AllocationAddsUp (gold_cmd.py:73,
\* target_weights.py:27): for any targets, band, scores and prices, full weight is
\* given only on both WGC series, the center is kept on neither, and the band holds.
THEOREM TiltEarned == GoldSpec => [](TiltIsEarned /\ GoldStaysInBand)
<1>1. GoldInv => TiltIsEarned /\ GoldStaysInBand
  <2> SUFFICES ASSUME GoldInv, proposed.made
               PROVE  TiltIsEarned /\ GoldStaysInBand
    BY DEF TiltIsEarned, GoldStaysInBand
  <2> DEFINE tilt == IF proposed.gold = NoGold THEN "neutral" ELSE proposed.gold.tilt
  <2>1. Earned(proposed.gold) /\ proposed.classes = TargetWeights(tilt)
    BY DEF GoldInv, SizedByGold
  <2>2. proposed.classes["gold"] = ApplyGoldTilt(tilt)
    BY <2>1, GoldWeight
  <2>3. proposed.classes["gold"] > Center["gold"] + 2 * Point => proposed.gold.missing = 0
    BY <2>1, <2>2, GoldIsClamped DEF Earned
  <2>4. proposed.gold = NoGold \/ proposed.gold.missing = 2 => proposed.classes = Center
    BY <2>1, NeutralIsCenter DEF Earned
  <2>5. proposed.classes["gold"] \in GoldBand[1]..GoldBand[2]
    BY <2>2, GoldIsClamped
  <2> QED
    BY <2>3, <2>4, <2>5 DEF TiltIsEarned, GoldStaysInBand
<1> QED
  BY <1>1, GoldInvInit, GoldInvStep, PTL DEF GoldSpec

\* The run Decision checks this (allocation/pipeline.py:181, target_weights.py:140): for any
\* targets, score tables, exponentials and cap, the weights of the funds and the cash are
\* the portfolio; no satellite passes the cap, no class holds an index twice; a class gets
\* its weight but for the cap, and a role with a slot keeps a fund.
THEOREM AllocationsAddUp == GoldSpec => []AllocationAddsUp
<1>1. GoldInv => /\ GoldTypeOK /\ NothingIsLost /\ BetsStaySmall
                 /\ ClassesGetTheirWeight /\ RolesKeepTheirPlace
  <2> SUFFICES ASSUME GoldInv
               PROVE  /\ GoldTypeOK /\ NothingIsLost /\ BetsStaySmall
                      /\ ClassesGetTheirWeight /\ RolesKeepTheirPlace
    OBVIOUS
  <2> DEFINE table == proposed.from.rows
             W == proposed.classes
             rows == proposed.rows
  <2>1. ASSUME proposed.made
        PROVE  /\ Allots(table, W) /\ rows = RowsOf(table, W)
               /\ proposed.chosen = Sized(table, W)
    BY <2>1, ProposalAllots
  <2>2. GoldTypeOK
    <3>1. \A d \in GoldDays : goldFile[d] # NoGold => goldFile[d].tilt \in Range(TiltOrder)
      BY DEF GoldInv
    <3>2. ASSUME proposed.made PROVE \A i \in DOMAIN rows : rows[i] \in 0..Whole
      <4> HIDE DEF rows, table, W
      <4> QED
        BY <2>1, <3>2, RowsAre
    <3> QED
      BY <3>1, <3>2 DEF GoldTypeOK, GoldInv
  <2>3. NothingIsLost
    <3> SUFFICES ASSUME proposed.made
                 PROVE  Total(rows) + proposed.residual = Whole /\ Total(W) = Whole
      BY DEF NothingIsLost
    <3>1. proposed.residual = Max({0, Whole - Total(rows)})
      BY ProposalAllots
    <3> HIDE DEF rows, table, W
    <3>2. Total(rows) \in 0..Whole
      BY <2>1, RowsAre
    <3>3. Whole - Total(rows) \in Nat
      BY <3>2, GoldNumbers
    <3>4. Max({0, Whole - Total(rows)}) = Whole - Total(rows)
      BY <3>3, MaxOfTwo
    <3> QED
      BY <2>1, <3>1, <3>2, <3>4, GoldNumbers DEF Allots
  <2>4. BetsStaySmall
    <3> SUFFICES ASSUME proposed.made
                 PROVE  /\ \A i \in DOMAIN rows :
                              IsSatelliteQdii(table[i]) => rows[i] <= SatelliteCap
                        /\ \A i, j \in DOMAIN rows :
                              i # j /\ table[i].class = table[j].class =>
                                  \/ table[i].index = NoTrackedIndex
                                  \/ table[i].index # table[j].index
      BY DEF BetsStaySmall
    <3> HIDE DEF rows, table, W
    <3> QED
      BY <2>1, RowsAre, IndexesDiffer
  <2>5. ClassesGetTheirWeight
    <3> SUFFICES ASSUME proposed.made, NEW r \in Range(table)
                 PROVE  LET c == r.class
                            held == {i \in DOMAIN rows : table[i].class = c}
                            weight == ClassWeight(table, rows, DOMAIN rows, c)
                            satellites == {i \in held : IsSatelliteQdii(table[i])}
                        IN  /\ W[c] > 0 => held # {}
                            /\ weight < W[c] => \E i \in satellites : rows[i] = SatelliteCap
                            /\ weight > W[c] => satellites # {}
      BY DEF ClassesGetTheirWeight
    <3> HIDE DEF rows, table, W
    <3>1. PICK i \in DOMAIN table : r = table[i]
      BY DEF Range
    <3>2. i \in InClass(table, r.class)
      BY <3>1 DEF InClass
    <3>3. r.class \in Classes
      BY <2>1, <3>1, ScoreTableIs DEF Allots
    <3> QED
      BY <2>1, <3>2, <3>3, ClassesAreServed
  <2>6. RolesKeepTheirPlace
    <3> SUFFICES ASSUME proposed.made, NEW i \in DOMAIN table, W[table[i].class] > 0,
                        Cardinality({table[j].role : j \in InClass(table, table[i].class)})
                           <= AllocTopK
                 PROVE  LET peers == InClass(table, table[i].class)
                            kept == peers \cap DOMAIN rows
                        IN  \/ \E j \in kept : table[j].role = table[i].role
                            \/ \E j \in peers \cap DOMAIN proposed.chosen :
                                  /\ table[j].role = table[i].role
                                  /\ table[j].index # NoTrackedIndex
                                  /\ \E k \in kept : table[k].index = table[j].index /\ k # j
      BY DEF RolesKeepTheirPlace
    <3> HIDE DEF rows, table, W
    <3> QED
      BY <2>1, RolesAreServed
  <2> QED
    BY <2>2, <2>3, <2>4, <2>5, <2>6
<1>2. TiltIsEarned /\ GoldStaysInBand /\ GoldInv => AllocationAddsUp
  BY <1>1 DEF AllocationAddsUp
<1> QED
  BY <1>2, TiltEarned, GoldInvInit, GoldInvStep, PTL DEF GoldSpec

-----------------------------------------------------------------------------
(* What is kept of a sequence, and the tables of the memo.                  *)

\* What is kept of the first i of s, from one i to the next.
KeptNext(k, s, S, i) == IF s[i] \in S THEN Append(k[i - 1], s[i]) ELSE k[i - 1]
Keeps(k, s, S, T, n) ==
    k \in [0..n -> Seq(T)] /\ k[0] = <<>> /\ \A i \in 1..n : k[i] = KeptNext(k, s, S, i)

LEMMA KeepsExists ==
    ASSUME NEW T, NEW s \in Seq(T), NEW S
    PROVE  \E k : Keeps(k, s, S, T, Len(s))
<1>. DEFINE n == Len(s)
            reached == {m \in 0..n : \E k : Keeps(k, s, S, T, m)}
<1>1. n \in Nat /\ \A i \in 1..n : s[i] \in T
  OBVIOUS
<1>2. 0 \in reached
  <2>. DEFINE k == [i \in 0..0 |-> <<>>]
  <2>1. Keeps(k, s, S, T, 0)
    BY DEF Keeps
  <2>. QED
    BY <1>1, <2>1
<1>3. ASSUME NEW i \in 1..n, i - 1 \in reached PROVE i \in reached
  <2>. PICK k : Keeps(k, s, S, T, i - 1)
    BY <1>3
  <2>1. /\ k \in [0..(i-1) -> Seq(T)] /\ k[0] = <<>>
        /\ \A j \in 1..(i-1) : k[j] = KeptNext(k, s, S, j)
    BY DEF Keeps
  <2>2. KeptNext(k, s, S, i) \in Seq(T)
    BY <1>1, <2>1 DEF KeptNext
  <2>. DEFINE g == [j \in 0..i |-> IF j = i THEN KeptNext(k, s, S, i) ELSE k[j]]
  <2>3. g \in [0..i -> Seq(T)]
    BY <2>1, <2>2
  <2>4. g[0] = <<>>
    BY <2>1
  <2>5. ASSUME NEW j \in 1..i PROVE g[j] = KeptNext(g, s, S, j)
    <3>1. g[j-1] = k[j-1]
      OBVIOUS
    <3>2. KeptNext(g, s, S, j) = KeptNext(k, s, S, j)
      BY <3>1 DEF KeptNext
    <3>3. g[j] = KeptNext(k, s, S, j)
      <4>1. CASE j = i
        BY <4>1
      <4>2. CASE j # i
        <5>1. j \in 1..(i-1) /\ g[j] = k[j]
          BY <4>2
        <5>. QED
          BY <2>1, <5>1
      <4>. QED
        BY <4>1, <4>2
    <3>. QED
      BY <3>2, <3>3
  <2>. HIDE DEF g
  <2>6. Keeps(g, s, S, T, i)
    BY <2>3, <2>4, <2>5 DEF Keeps
  <2>. QED
    BY <2>6
<1>. HIDE DEF reached
<1>4. 0..n \subseteq reached
  BY <1>1, <1>2, <1>3, UpTo
<1>. QED
  BY <1>1, <1>4 DEF reached

\* KeptOf is a function by recursion, which is what solves its equation.
LEMMA KeptIs ==
    ASSUME NEW T, NEW s \in Seq(T), NEW S
    PROVE  Keeps(KeptOf(s, S), s, S, T, Len(s))
<1>. DEFINE n == Len(s)
            Eq(k) == k = [i \in 0..Len(s) |->
                       IF i = 0 THEN <<>>
                       ELSE IF s[i] \in S THEN Append(k[i - 1], s[i]) ELSE k[i - 1]]
<1>1. n \in Nat /\ \A i \in 1..n : s[i] \in T
  OBVIOUS
<1>2. PICK k : Keeps(k, s, S, T, n)
  BY KeepsExists
<1>3. Eq(k)
  <2>. DEFINE G(i) == IF i = 0 THEN <<>>
                      ELSE IF s[i] \in S THEN Append(k[i - 1], s[i]) ELSE k[i - 1]
  <2>1. ASSUME NEW i \in 0..n PROVE k[i] = G(i)
    <3>1. CASE i = 0
      BY <1>2, <3>1 DEF Keeps
    <3>2. CASE i # 0
      <4>1. i \in 1..n
        BY <1>1, <3>2
      <4>. QED
        BY <1>2, <3>2, <4>1 DEF Keeps, KeptNext
    <3>. QED
      BY <3>1, <3>2
  <2>2. k = [i \in 0..n |-> k[i]]
    BY <1>2 DEF Keeps
  <2>. HIDE DEF G
  <2>3. k = [i \in 0..n |-> G(i)]
    BY <2>1, <2>2
  <2>. QED
    BY <2>3 DEF G
<1>4. Eq(KeptOf(s, S))
  BY <1>3, Zenon DEF KeptOf
<1>. DEFINE kept == KeptOf(s, S)
            H(i) == IF i = 0 THEN <<>>
                    ELSE IF s[i] \in S THEN Append(kept[i - 1], s[i]) ELSE kept[i - 1]
<1>. HIDE DEF kept
<1>5. kept = [i \in 0..n |-> H(i)]
  BY <1>4 DEF kept
<1>. HIDE DEF H
<1>6. \A i \in 0..n : kept[i] = H(i)
  BY <1>5
<1>7. kept[0] = <<>>
  BY <1>1, <1>6 DEF H
<1>8. ASSUME NEW i \in 1..n PROVE kept[i] = KeptNext(kept, s, S, i)
  <2>1. i \in 0..n /\ i # 0
    BY <1>1
  <2>. QED
    BY <1>6, <2>1 DEF H, KeptNext
<1>. DEFINE good == {i \in 0..n : kept[i] \in Seq(T)}
<1>9. 0 \in good
  <2>1. <<>> \in Seq(T) /\ 0 \in 0..n
    BY <1>1
  <2>. QED
    BY <1>7, <2>1
<1>10. ASSUME NEW i \in 1..n, i - 1 \in good PROVE i \in good
  <2>1. kept[i - 1] \in Seq(T) /\ s[i] \in T /\ i \in 0..n
    BY <1>1, <1>10
  <2>2. kept[i] = KeptNext(kept, s, S, i)
    BY <1>8
  <2>3. KeptNext(kept, s, S, i) \in Seq(T)
    BY <2>1 DEF KeptNext
  <2>. QED
    BY <2>1, <2>2, <2>3
<1>. HIDE DEF good
<1>11. 0..n \subseteq good
  BY <1>1, <1>9, <1>10, UpTo
<1>12. kept \in [0..n -> Seq(T)]
  BY <1>5, <1>11 DEF good
<1>. QED
  BY <1>7, <1>8, <1>12 DEF Keeps, kept

LEMMA Appended ==
    ASSUME NEW U, NEW t \in Seq(U), NEW e \in U
    PROVE  Append(t, e) \in Seq(U) /\ ToSet(Append(t, e)) = ToSet(t) \cup {e}
<1>1. Append(t, e) \in Seq(U) /\ Len(Append(t, e)) = Len(t) + 1 /\ Len(t) \in Nat
  OBVIOUS
<1>2. \A i \in 1..Len(t) : Append(t, e)[i] = t[i]
  OBVIOUS
<1>3. Append(t, e)[Len(t) + 1] = e
  OBVIOUS
<1>4. DOMAIN t = 1..Len(t) /\ DOMAIN Append(t, e) = 1..(Len(t) + 1)
  BY <1>1
<1>5. \A i \in 1..(Len(t) + 1) : i \in 1..Len(t) \/ i = Len(t) + 1
  BY <1>1
<1>. QED
  BY <1>1, <1>2, <1>3, <1>4, <1>5 DEF ToSet

\* What is kept of a sequence is what of it is in the set, and nothing else.
LEMMA AmongIs ==
    ASSUME NEW T, NEW s \in Seq(T), NEW S
    PROVE  Among(s, S) \in Seq(T \cap S) /\ ToSet(Among(s, S)) = ToSet(s) \cap S
<1>. DEFINE kept == KeptOf(s, S)
            n == Len(s)
            Right(i) == kept[i] \in Seq(T \cap S) /\ ToSet(kept[i]) = {s[j] : j \in 1..i} \cap S
            right == {i \in 0..n : Right(i)}
<1>1. n \in Nat /\ DOMAIN s = 1..n /\ \A i \in 1..n : s[i] \in T
  OBVIOUS
<1>2. Keeps(kept, s, S, T, n)
  BY KeptIs
<1>. HIDE DEF kept
<1>3. Right(0)
  BY <1>2 DEF ToSet, Keeps
<1>4. ASSUME NEW i \in 1..n, Right(i - 1) PROVE Right(i)
  <2>. DEFINE t == kept[i - 1]
  <2>1. t \in Seq(T \cap S) /\ ToSet(t) = {s[j] : j \in 1..i - 1} \cap S
    BY <1>4
  <2>2. kept[i] = IF s[i] \in S THEN Append(t, s[i]) ELSE t
    BY <1>2 DEF Keeps, KeptNext
  <2>. HIDE DEF t
  <2>3. {s[j] : j \in 1..i} = {s[j] : j \in 1..i - 1} \cup {s[i]}
    BY <1>1
  <2>4. CASE s[i] \in S
    <3>1. s[i] \in T \cap S
      BY <1>1, <2>4
    <3>2. /\ Append(t, s[i]) \in Seq(T \cap S)
          /\ ToSet(Append(t, s[i])) = ToSet(t) \cup {s[i]}
      BY <2>1, <3>1, Appended
    <3>. QED
      BY <2>1, <2>2, <2>3, <2>4, <3>1, <3>2
  <2>5. CASE s[i] \notin S
    BY <2>1, <2>2, <2>3, <2>5
  <2>. QED
    BY <2>4, <2>5
<1>. HIDE DEF Right
<1>5. 0 \in right
  BY <1>1, <1>3
<1>6. ASSUME NEW i \in 1..n, i - 1 \in right PROVE i \in right
  BY <1>4, <1>6
<1>. HIDE DEF right
<1>7. 0..n \subseteq right
  BY <1>1, <1>5, <1>6, UpTo
<1>8. Right(n)
  BY <1>1, <1>7 DEF right
<1>. QED
  BY <1>1, <1>8 DEF Right, ToSet, Among, kept

-----------------------------------------------------------------------------
(* What passes the citation gate is backed.                                *)

\* A block is read to be about the funds of the report it names, and about no
\* fund of which it does not write.
LEMMA HitsAre ==
    ASSUME NEW b, NEW in
    PROVE  /\ b.says \cap OnRecord(in) \subseteq InstrumentHits(b, in)
           /\ InstrumentHits(b, in) \subseteq WrittenOf(b, in)
<1>1. \A f \in MemoFunds : \A g \in NameWithin[f] : f \notin NameWithin[g]
  BY MemoAssumption DEF MemoAssumption
<1>2. OnRecord(in) \subseteq MemoFunds
  BY DEF OnRecord
<1>3. ASSUME NEW f \in b.says \cap OnRecord(in) PROVE f \in InstrumentHits(b, in)
  <2>. DEFINE m == [fund |-> f, inside |-> f]
  <2>1. m \in Mentions(b) /\ Occurs(m) /\ m.fund = f
    BY <1>2 DEF Mentions, Occurs
  <2>2. ASSUME NEW l \in Mentions(b), Occurs(l), l.fund \in OnRecord(in), l.fund # f,
               l.inside = m.inside, l.fund \in NameWithin[f]
        PROVE  FALSE
    BY <1>1, <1>2, <2>2 DEF Mentions, Occurs
  <2>. QED
    BY <2>1, <2>2 DEF InstrumentHits
<1>4. ASSUME NEW f \in InstrumentHits(b, in) PROVE f \in WrittenOf(b, in)
  <2>1. f \in OnRecord(in)
    BY DEF InstrumentHits
  <2>2. PICK m \in Mentions(b) : /\ Occurs(m) /\ m.fund = f
           /\ ~\E l \in Mentions(b) : Occurs(l) /\ l.fund \in OnRecord(in) /\ l.fund # f
                                      /\ l.inside = m.inside /\ l.fund \in NameWithin[f]
    BY DEF InstrumentHits
  <2>. DEFINE h == m.inside
              l == [fund |-> h, inside |-> h]
  <2>3. h \in b.says /\ (h = f \/ h \in NameWithin[f])
    BY <2>2 DEF Mentions, Occurs
  <2>4. CASE h # f /\ h \in OnRecord(in)
    <3>1. l \in Mentions(b) /\ Occurs(l) /\ l.fund = h /\ l.inside = h
      BY <1>2, <2>3, <2>4 DEF Mentions, Occurs
    <3>. QED
      BY <2>2, <2>3, <2>4, <3>1
  <2>5. CASE h = f \/ h \notin OnRecord(in)
    BY <2>1, <2>3, <2>5 DEF WrittenOf
  <2>. QED
    BY <2>4, <2>5
<1>. QED
  BY <1>3, <1>4

LEMMA FindingIs ==
    ASSUME NEW holds \in BOOLEAN, NEW of, NEW kind
    PROVE  Finding(holds, of, kind) = {} <=> ~holds
BY DEF Finding

\* A fund in whose name nothing is found, and a holding.
LEMMA InstrumentPasses ==
    ASSUME NEW f, NEW marks, NEW hits, NEW all, NEW in
    PROVE  CheckInstrument(f, marks, hits, all, in) = {} <=>
              /\ \A o \in OnRecord(in) \ (hits \cup {f}) : marks \cap CitedMap(in)[o] = {}
              /\ LegsPresent(CitedMap(in)[f], all) = Legs
BY DEF CheckInstrument, Finding
LEMMA ConstituentPasses ==
    ASSUME NEW s, NEW hits, NEW sub, NEW owner, NEW all, NEW in
    PROVE  CheckConstituent(s, hits, sub, owner, all, in) = {} <=>
              /\ OwnerInContext(s, hits, sub, owner, in) # {}
              /\ \A f \in OwnerInContext(s, hits, sub, owner, in) :
                     LegsPresent(ConstituentCited(in, f, s), all) = Legs
BY DEF CheckConstituent, Finding

LEMMA OwnerOwns ==
    ASSUME NEW s, NEW hits, NEW sub, NEW owner, NEW in
    PROVE  OwnerInContext(s, hits, sub, owner, in) \subseteq Owners(s, in)
BY DEF OwnerInContext

LEMMA GateIsSound ==
    ASSUME NEW draft, NEW in, UncitedConclusions(draft, in) = {}
    PROVE  Backed(draft, in)
<1>. SUFFICES ASSUME OnRecord(in) # {}, NEW i \in ActionBlocks(draft)
     PROVE BlockIsBacked(draft, i, in)
  BY DEF Backed
<1>. DEFINE b       == draft[i]
            above   == IF i = 1 \/ draft[i - 1].kind = "row" THEN Nothing ELSE draft[i - 1]
            all     == Cites(draft)
            hits    == InstrumentHits(b, in)
            held    == ConstituentHits(b, in)
            carries == \/ hits = {} \/ InstrumentHits(above, in) = {}
                       \/ hits \cap InstrumentHits(above, in) # {}
            marks   == IF b.kind # "row" /\ carries THEN b.cites \cup above.cites ELSE b.cites
            sub     == Subsection(draft, i)
            owner   == SectionOwner(draft, i, in)
<1>1. BlockFindings(draft, i, in) = {}
  BY DEF UncitedConclusions
<1>2. IF hits = {} /\ held = {}
      THEN Finding(marks = {}, MacroRef, "uncited_portfolio_conclusion") = {}
      ELSE /\ \A f \in hits : CheckInstrument(f, marks, hits, all, in) = {}
           /\ \A s \in held : CheckConstituent(s, hits, sub, owner, all, in) = {}
  <2>1. BlockFindings(draft, i, in) =
          IF hits = {} /\ held = {}
          THEN Finding(marks = {}, MacroRef, "uncited_portfolio_conclusion")
          ELSE (UNION {CheckInstrument(f, marks, hits, all, in) : f \in hits})
               \cup UNION {CheckConstituent(s, hits, sub, owner, all, in) : s \in held}
    BY DEF BlockFindings
  <2>. HIDE DEF b, above, all, hits, held, carries, marks, sub, owner
  <2>2. CASE hits = {} /\ held = {}
    BY <1>1, <2>1, <2>2
  <2>3. CASE ~(hits = {} /\ held = {})
    <3>. DEFINE I == UNION {CheckInstrument(f, marks, hits, all, in) : f \in hits}
                C == UNION {CheckConstituent(s, hits, sub, owner, all, in) : s \in held}
    <3>0. I \cup C = {}
      BY <1>1, <2>1, <2>3, Zenon
    <3>1. I = {} /\ C = {}
      <4>. HIDE DEF I, C
      <4>. QED
        BY <3>0
    <3>2. \A f \in hits : CheckInstrument(f, marks, hits, all, in)
                            \subseteq UNION {CheckInstrument(g, marks, hits, all, in) : g \in hits}
      OBVIOUS
    <3>3. \A s \in held : CheckConstituent(s, hits, sub, owner, all, in)
                            \subseteq UNION {CheckConstituent(t, hits, sub, owner, all, in) : t \in held}
      OBVIOUS
    <3>. QED
      BY <2>3, <3>1, <3>2, <3>3
  <2>. QED
    BY <2>2, <2>3
<1>3. b.cites \subseteq marks
  OBVIOUS
<1>4. b.says \cap OnRecord(in) \subseteq hits /\ hits \subseteq WrittenOf(b, in) /\ hits \subseteq OnRecord(in)
  BY HitsAre DEF InstrumentHits
<1>5. \A f \in OnRecord(in) : CitedMap(in)[f] = in.rows[f].evidence
  BY DEF CitedMap
<1>6. hits = {} /\ held = {} => marks # {}
  BY <1>2 DEF Finding
<1>7. marks # {} => \/ b.cites # {}
                    \/ i # 1 /\ draft[i - 1].kind # "row" /\ draft[i - 1].cites # {}
  BY DEF Nothing
<1>. HIDE DEF b, above, all, hits, held, carries, marks, sub, owner
<1>8. \A f \in hits : LegsPresent(in.rows[f].evidence, all) = Legs
  BY <1>2, <1>4, <1>5, InstrumentPasses
<1>9. \A f \in OnRecord(in) \ hits : hits # {} => b.cites \cap in.rows[f].evidence = {}
  <2>. SUFFICES ASSUME NEW f \in OnRecord(in) \ hits, NEW h \in hits PROVE b.cites \cap in.rows[f].evidence = {}
    OBVIOUS
  <2>1. marks \cap CitedMap(in)[f] = {}
    BY <1>2, InstrumentPasses
  <2>. QED
    BY <1>3, <1>5, <2>1
<1>10. \A s \in held : \E f \in Owners(s, in) : LegsPresent(ConstituentCited(in, f, s), all) = Legs
  <2>. TAKE s \in held
  <2>1. CheckConstituent(s, hits, sub, owner, all, in) = {}
    BY <1>2
  <2>. QED
    BY <2>1, ConstituentPasses, OwnerOwns
<1>. QED
  BY <1>4, <1>6, <1>7, <1>8, <1>9, <1>10 DEF BlockIsBacked, b, all, held

-----------------------------------------------------------------------------
(* What follows the rules passes the citation gate.                        *)


\* Of finitely many things that are ranked, one is ranked as high as any.
LEMMA HasForemost ==
    ASSUME NEW S, IsFiniteSet(S), S # {}, \A e \in S : e.rank \in Nat
    PROVE  \E e \in S : \A o \in S : o.rank <= e.rank
<1>. DEFINE n == Cardinality(S)
<1>1. n \in Nat /\ ExistsBijection(1..n, S)
  BY FS_CardinalityType
<1>2. PICK g \in [1..n -> S] : \A e \in S : \E j \in 1..n : g[j] = e
  BY <1>1 DEF ExistsBijection, Bijection, Surjection
<1>. HIDE DEF n
<1>. DEFINE Highest(m) == m = 0 \/ \E e \in S : \A j \in 1..m : g[j].rank <= e.rank
            reached == {m \in 0..n : Highest(m)}
<1>3. 0 \in reached
  BY <1>1
<1>4. ASSUME NEW m \in 1..n, m - 1 \in reached PROVE m \in reached
  <2>1. m - 1 \in 0..n /\ Highest(m - 1) /\ g[m] \in S /\ g[m].rank \in Nat
    BY <1>1, <1>4
  <2>2. CASE m = 1
    BY <1>1, <2>1, <2>2
  <2>3. CASE m # 1
    <3>1. PICK e \in S : \A j \in 1..(m - 1) : g[j].rank <= e.rank
      BY <1>1, <2>1, <2>3
    <3>2. \A j \in 1..m : g[j] \in S /\ g[j].rank \in Nat /\ (j = m \/ j \in 1..(m - 1))
      BY <1>1
    <3>3. CASE g[m].rank <= e.rank
      <4>1. \A j \in 1..m : g[j].rank <= e.rank
        BY <3>1, <3>2, <3>3
      <4>. QED
        BY <1>1, <4>1
    <3>4. CASE ~(g[m].rank <= e.rank)
      <4>1. \A j \in 1..m : g[j].rank <= g[m].rank
        BY <2>1, <3>1, <3>2, <3>4
      <4>. QED
        BY <1>1, <2>1, <4>1
    <3>. QED
      BY <3>3, <3>4
  <2>. QED
    BY <2>2, <2>3
<1>. HIDE DEF reached
<1>5. 0..n \subseteq reached
  BY <1>1, <1>3, <1>4, UpTo
<1>6. n # 0
  BY <1>2
<1>65. n \in reached
  BY <1>1, <1>5
<1>7. PICK e \in S : \A j \in 1..n : g[j].rank <= e.rank
  BY <1>6, <1>65 DEF reached
<1>. QED
  BY <1>2, <1>7

\* Of audited evidence that has something to publish, one is foremost, and it is
\* something to publish.
LEMMA ForemostShows ==
    ASSUME NEW es, IsAudited(es), NEW E \in SUBSET es, \E e \in E : Publishable(e)
    PROVE  \E e \in Foremost(E) : Publishable(e)
<1>. DEFINE P == {e \in E : Publishable(e)}
<1>1. IsFiniteSet(es) /\ \A e, o \in es : e.rank \in Nat /\ (e.rank = o.rank => e = o)
  BY DEF IsAudited
<1>2. IsFiniteSet(P) /\ P # {} /\ P \subseteq es
  BY <1>1, FS_Subset
<1>3. PICK e \in P : \A o \in P : o.rank <= e.rank
  BY <1>1, <1>2, HasForemost
<1>4. ASSUME NEW o \in E \ {e} PROVE Outranks(e, o)
  <2>1. CASE Publishable(o)
    <3>1. o.rank <= e.rank /\ o.rank # e.rank /\ o.rank \in Nat /\ e.rank \in Nat
      BY <1>1, <1>2, <1>3, <1>4, <2>1
    <3>2. e.rank > o.rank
      BY <3>1
    <3>. QED
      BY <2>1, <3>2 DEF Outranks
  <2>2. CASE ~Publishable(o)
    BY <2>2 DEF Outranks
  <2>. QED
    BY <2>1, <2>2
<1>. QED
  BY <1>4 DEF Foremost

\* A cell shows a datum and an information of audited evidence, and only that.
LEMMA CellShows ==
    ASSUME NEW es, IsAudited(es)
    PROVE  /\ SelectCitations(es) \subseteq es
           /\ \A l \in Legs : \E e \in SelectCitations(es) : e.leg = l /\ Publishable(e)
<1>. DEFINE data == Foremost({e \in es : e.leg = "data" /\ Publishable(e)})
            info == Foremost({e \in es : e.leg = "information"})
            rest == Leading(es \ (data \cup info), CiteCap - Cardinality(data \cup info))
<1>1. SelectCitations(es) = (data \cup info) \cup rest
  BY DEF SelectCitations
<1>2. data \subseteq {e \in es : e.leg = "data"} /\ info \subseteq {e \in es : e.leg = "information"}
  BY DEF Foremost
<1>3. rest \subseteq es
  BY DEF Leading
<1>4. \A l \in Legs : \E e \in es : e.leg = l /\ Publishable(e)
  BY DEF IsAudited
<1>5. \E e \in data : Publishable(e)
  BY <1>4, ForemostShows DEF Legs
<1>6. \E e \in info : Publishable(e)
  BY <1>4, ForemostShows DEF Legs
<1>. HIDE DEF data, info, rest
<1>. QED
  BY <1>1, <1>2, <1>3, <1>5, <1>6 DEF Legs

LEMMA RangeIsFinite ==
    ASSUME NEW T, NEW s \in Seq(T)
    PROVE  IsFiniteSet(ToSet(s))
<1>1. Len(s) \in Nat /\ IsFiniteSet(1..Len(s)) /\ DOMAIN s = 1..Len(s)
  BY FS_Interval
<1>2. s \in Surjection(1..Len(s), ToSet(s))
  BY <1>1 DEF Surjection, ToSet
<1>. QED
  BY <1>1, <1>2, FS_Surjection

\* The rows of the table are the picks, each with its cell.
LEMMA TableIs ==
    ASSUME NEW in \in MemoInputs
    PROVE  /\ ToSet(PickedFunds(in)) \subseteq OnRecord(in)
           /\ AdvisoryPartition(in) \in Seq(MemoFunds)
           /\ ToSet(PicksTable(in)) = {PicksRow(in, f) : f \in ToSet(PickedFunds(in))}
<1>. DEFINE thin == {f \in OnRecord(in) : in.rows[f].thin}
            picks == PickedFunds(in)
            first == Among(picks, OnRecord(in) \ thin)
            tail == Among(picks, thin)
<1>1. in.trades \in Seq(MemoFunds)
  BY MemoAssumption DEF MemoAssumption
<1>2. picks \in Seq(MemoFunds \cap OnRecord(in)) /\ ToSet(picks) \subseteq OnRecord(in)
  BY <1>1, AmongIs DEF PickedFunds
<1>3. picks \in Seq(OnRecord(in)) /\ OnRecord(in) \subseteq MemoFunds
  BY <1>2 DEF OnRecord
<1>. HIDE DEF picks, thin
<1>4. /\ first \in Seq(OnRecord(in)) /\ ToSet(first) = ToSet(picks) \cap (OnRecord(in) \ thin)
      /\ tail \in Seq(OnRecord(in)) /\ ToSet(tail) = ToSet(picks) \cap thin
  <2>1. /\ first \in Seq(OnRecord(in) \cap (OnRecord(in) \ thin))
        /\ tail \in Seq(OnRecord(in) \cap thin)
    BY <1>3, AmongIs
  <2>2. /\ ToSet(first) = ToSet(picks) \cap (OnRecord(in) \ thin)
        /\ ToSet(tail) = ToSet(picks) \cap thin
    BY <1>3, AmongIs
  <2>. HIDE DEF first, tail
  <2>. QED
    BY <2>1, <2>2
<1>5. AdvisoryPartition(in) = first \o tail
  BY DEF AdvisoryPartition, picks, thin
<1>. HIDE DEF first, tail
<1>6. ToSet(first \o tail) = ToSet(picks)
  <2>1. /\ Len(first \o tail) = Len(first) + Len(tail) /\ Len(first) \in Nat /\ Len(tail) \in Nat
        /\ DOMAIN (first \o tail) = 1..(Len(first) + Len(tail))
        /\ DOMAIN first = 1..Len(first) /\ DOMAIN tail = 1..Len(tail)
    BY <1>4
  <2>2. \A i \in 1..Len(first) : (first \o tail)[i] = first[i]
    BY <1>4
  <2>3. \A i \in 1..Len(tail) : (first \o tail)[Len(first) + i] = tail[i]
    BY <1>4
  <2>4. \A i \in 1..(Len(first) + Len(tail)) :
           i \in 1..Len(first) \/ \E j \in 1..Len(tail) : i = Len(first) + j
    <3>. TAKE i \in 1..(Len(first) + Len(tail))
    <3>1. CASE i <= Len(first)
      BY <2>1, <3>1
    <3>2. CASE ~(i <= Len(first))
      <4>1. i - Len(first) \in 1..Len(tail) /\ i = Len(first) + (i - Len(first))
        BY <2>1, <3>2
      <4>. QED
        BY <4>1
    <3>. QED
      BY <3>1, <3>2
  <2>5. \A i \in 1..Len(first) : i \in 1..(Len(first) + Len(tail))
    BY <2>1
  <2>6. \A i \in 1..Len(tail) : Len(first) + i \in 1..(Len(first) + Len(tail))
    BY <2>1
  <2>7. ToSet(first \o tail) = ToSet(first) \cup ToSet(tail)
    <3>. DEFINE s == first \o tail
    <3>1. DOMAIN s = 1..(Len(first) + Len(tail))
      BY <2>1
    <3>2. \A i \in DOMAIN first : s[i] = first[i] /\ i \in DOMAIN s
      BY <2>1, <2>2, <2>5
    <3>3. \A i \in DOMAIN tail : s[Len(first) + i] = tail[i] /\ Len(first) + i \in DOMAIN s
      BY <2>1, <2>3, <2>6
    <3>4. \A i \in DOMAIN s : (\E j \in DOMAIN first : s[i] = first[j])
                               \/ \E j \in DOMAIN tail : s[i] = tail[j]
      <4>. TAKE i \in DOMAIN s
      <4>1. CASE i \in 1..Len(first)
        BY <2>1, <2>2, <4>1
      <4>2. CASE \E j \in 1..Len(tail) : i = Len(first) + j
        BY <2>1, <2>3, <4>2
      <4>. QED
        BY <2>4, <3>1, <4>1, <4>2
    <3>. HIDE DEF s
    <3>5. ToSet(s) = ToSet(first) \cup ToSet(tail)
      BY <3>2, <3>3, <3>4 DEF ToSet
    <3>. QED
      BY <3>5 DEF s
  <2>8. ToSet(picks) \subseteq OnRecord(in) /\ thin \subseteq OnRecord(in)
    BY <1>2 DEF thin
  <2>. QED
    BY <1>4, <2>7, <2>8
<1>7. AdvisoryPartition(in) \in Seq(MemoFunds)
  BY <1>3, <1>4, <1>5
<1>8. ToSet(PicksTable(in)) = {PicksRow(in, f) : f \in ToSet(AdvisoryPartition(in))}
  BY DEF PicksTable, ToSet
<1>. QED
  BY <1>2, <1>5, <1>6, <1>7, <1>8 DEF picks

\* A block of a faithful draft: of one fund of the table at most, which is what
\* the gate takes it to be about, and shows nothing of another.
LEMMA FaithfulBlock ==
    ASSUME NEW in \in MemoInputs, NEW draft, Faithful(draft, in),
           NEW b \in ToSet(draft), ~b.barred
    PROVE  /\ b.kind # "head" /\ InstrumentHits(b, in) = b.says /\ b.says \subseteq OnRecord(in)
           /\ b.says = {} => b.cites = {MacroRef} /\ b.stocks = {}
           /\ b.says # {} => \E f \in ToSet(PickedFunds(in)) :
                 /\ b.says = {f} /\ b.cites \subseteq in.rows[f].evidence
                 /\ \A s \in b.stocks : f \in Owners(s, in)
                        /\ LegsPresent(ConstituentCited(in, f, s), b.cites) = Legs
<1>. DEFINE picks == ToSet(PickedFunds(in))
<1>1. picks \subseteq OnRecord(in) /\ ToSet(PicksTable(in)) = {PicksRow(in, f) : f \in picks}
  BY TableIs
<1>2. /\ b.kind # "head" /\ b.says \subseteq picks
      /\ b.says = {} => b.cites = {MacroRef} /\ b.stocks = {}
      /\ b.says # {} => \E f \in picks :
            /\ b.says = {f} /\ b.cites \subseteq in.rows[f].evidence
            /\ \A s \in b.stocks : s \in Stocks(in, f)
                   /\ LegsPresent(ConstituentCited(in, f, s), b.cites) = Legs
  <2>1. CASE b \in ToSet(PicksTable(in))
    <3>1. PICK f \in picks : b = PicksRow(in, f)
      BY <1>1, <2>1
    <3>2. /\ b.kind = "row" /\ b.says = {f} /\ b.stocks = {}
          /\ b.cites = SelectCitations(in.rows[f].evidence)
      BY <3>1 DEF PicksRow
    <3>3. IsAudited(in.rows[f].evidence)
      BY <1>1, MemoAssumption DEF MemoAssumption
    <3>4. b.cites \subseteq in.rows[f].evidence
      BY <3>2, <3>3, CellShows
    <3>. QED
      BY <3>2, <3>4
  <2>2. CASE b \notin ToSet(PicksTable(in))
    <3>1. b.kind # "head" /\ Follows(b, in)
      BY <2>2 DEF Faithful
    <3>2. /\ Cardinality(b.says) <= 1 /\ b.says \subseteq picks
          /\ b.says = {} => b.cites = {MacroRef} /\ b.stocks = {}
          /\ \A f \in b.says : b.cites \subseteq in.rows[f].evidence
          /\ \A f \in b.says : \A s \in b.stocks :
                 s \in Stocks(in, f) /\ LegsPresent(ConstituentCited(in, f, s), b.cites) = Legs
      BY <3>1 DEF Follows
    <3>3. IsFiniteSet(b.says)
      <4>1. in.trades \in Seq(MemoFunds)
        BY MemoAssumption DEF MemoAssumption
      <4>2. PickedFunds(in) \in Seq(MemoFunds \cap OnRecord(in))
        BY <4>1, AmongIs DEF PickedFunds
      <4>3. IsFiniteSet(picks)
        BY <4>2, RangeIsFinite
      <4>. QED
        BY <3>2, <4>3, FS_Subset
    <3>4. b.says # {} => \E f : b.says = {f}
      <4>1. Cardinality(b.says) \in Nat /\ (Cardinality(b.says) = 0 <=> b.says = {})
        BY <3>3, FS_CardinalityType, FS_EmptySet
      <4>2. b.says # {} => Cardinality(b.says) = 1
        BY <3>2, <4>1
      <4>. QED
        BY <3>3, <4>2, FS_Singleton
    <3>. QED
      BY <3>1, <3>2, <3>4
  <2>. QED
    BY <2>1, <2>2
<1>3. InstrumentHits(b, in) = b.says
  BY <1>1, <1>2, HitsAre DEF WrittenOf
<1>4. \A f \in picks : \A s \in Stocks(in, f) : f \in Owners(s, in)
  BY <1>1 DEF Owners
<1>. HIDE DEF picks
<1>5. b.says # {} => \E f \in picks :
            /\ b.says = {f} /\ b.cites \subseteq in.rows[f].evidence
            /\ \A s \in b.stocks : f \in Owners(s, in)
                   /\ LegsPresent(ConstituentCited(in, f, s), b.cites) = Legs
  BY <1>2, <1>4
<1>. QED
  BY <1>1, <1>2, <1>3, <1>5 DEF picks

\* Legs once shown stay shown as more is cited.
LEMMA MoreIsShown ==
    ASSUME NEW es, NEW some, NEW all, some \subseteq all, LegsPresent(es, some) = Legs
    PROVE  LegsPresent(es, all) = Legs
BY DEF LegsPresent

\* Every pick has its row in a faithful draft, and so both its legs.
LEMMA FaithfulShows ==
    ASSUME NEW in \in MemoInputs, NEW draft, Faithful(draft, in),
           NEW f \in ToSet(PickedFunds(in))
    PROVE  LegsPresent(CitedMap(in)[f], Cites(draft)) = Legs
<1>1. f \in OnRecord(in) /\ PicksRow(in, f) \in ToSet(draft)
  BY TableIs DEF Faithful
<1>2. PICK i \in DOMAIN draft : draft[i] = PicksRow(in, f)
  BY <1>1 DEF ToSet
<1>3. SelectCitations(in.rows[f].evidence) \subseteq Cites(draft)
  BY <1>2 DEF Cites, PicksRow
<1>4. IsAudited(in.rows[f].evidence)
  BY <1>1, MemoAssumption DEF MemoAssumption
<1>5. CitedMap(in)[f] = in.rows[f].evidence
  BY <1>1 DEF CitedMap
<1>. QED
  BY <1>3, <1>4, <1>5, CellShows DEF LegsPresent

LEMMA OneOfIt == ASSUME NEW f PROVE Cardinality({f}) = 1
  BY FS_Singleton

\* Under a block about one fund, in a draft without headings, the context of a
\* holding is that fund.
LEMMA ContextIs ==
    ASSUME NEW in, NEW draft, NEW T, draft \in Seq(T), NEW i \in DOMAIN draft, NEW f,
           \A j \in DOMAIN draft : draft[j].kind # "head",
           InstrumentHits(draft[i], in) = {f}
    PROVE  Subsection(draft, i) = {} /\ SectionOwner(draft, i, in) = {f}
<1>1. Len(draft) \in Nat /\ DOMAIN draft = 1..Len(draft) /\ i \in 1..i /\ i \in Nat
  OBVIOUS
<1>2. \A j \in 1..i : j \in DOMAIN draft /\ j <= i
  BY <1>1
<1>3. Subsection(draft, i) = {}
  BY <1>2 DEF Subsection
<1>. DEFINE hits(j) == InstrumentHits(draft[j], in)
            setting == {j \in 1..i : draft[j].kind # "row" \/ Cardinality(hits(j)) = 1}
<1>4. Cardinality(hits(i)) = 1 /\ hits(i) = {f} /\ i \in setting /\ draft[i].kind # "head"
  BY <1>1, OneOfIt
<1>5. Max(setting) = i
  <2>1. \A y \in setting : y \in Nat /\ i >= y
    BY <1>1, <1>2
  <2>2. \A x \in setting : (\A y \in setting : x >= y) => x = i
    BY <1>1, <1>4, <2>1
  <2>. HIDE DEF setting
  <2>. QED
    BY <1>4, <2>1, <2>2 DEF Max
<1>6. SectionOwner(draft, i, in) =
        IF setting = {} \/ draft[Max(setting)].kind = "head" \/ Cardinality(hits(Max(setting))) # 1
        THEN {} ELSE hits(Max(setting))
  BY DEF SectionOwner
<1>. HIDE DEF setting, hits
<1>7. setting # {} /\ Cardinality(hits(Max(setting))) = 1 /\ draft[Max(setting)].kind # "head"
  BY <1>4, <1>5
<1>. QED
  BY <1>3, <1>4, <1>5, <1>6, <1>7

\* The gate finds nothing in a draft that follows the rules.
LEMMA GateIsFair ==
    ASSUME NEW in \in MemoInputs, NEW T, NEW draft \in Seq(T), Faithful(draft, in),
           \A b \in ToSet(draft) : ~b.barred
    PROVE  MemoFindings(draft, in) = {}
<1>. DEFINE picks == ToSet(PickedFunds(in))
<1>1. picks \subseteq OnRecord(in)
  BY TableIs
<1>2. MissingPickCitations(in) = {}
  <2>1. ASSUME NEW g \in picks PROVE {e.leg : e \in SelectCitations(in.rows[g].evidence)} = Legs
    <3>1. IsAudited(in.rows[g].evidence)
      BY <1>1, MemoAssumption DEF MemoAssumption
    <3>2. \A e \in in.rows[g].evidence : e.leg \in Legs
      BY <3>1 DEF IsAudited
    <3>. QED
      BY <3>1, <3>2, CellShows
  <2>. QED
    BY <2>1 DEF MissingPickCitations
<1>3. \A j \in DOMAIN draft : draft[j] \in ToSet(draft)
  BY DEF ToSet
<1>4. ASSUME NEW i \in DOMAIN draft PROVE BlockFindings(draft, i, in) = {}
  <2>. DEFINE b       == draft[i]
              above   == IF i = 1 \/ draft[i - 1].kind = "row" THEN Nothing ELSE draft[i - 1]
              all     == Cites(draft)
              hits    == InstrumentHits(b, in)
              held    == ConstituentHits(b, in)
              carries == \/ hits = {} \/ InstrumentHits(above, in) = {}
                         \/ hits \cap InstrumentHits(above, in) # {}
              marks   == IF b.kind # "row" /\ carries THEN b.cites \cup above.cites ELSE b.cites
              sub     == Subsection(draft, i)
              owner   == SectionOwner(draft, i, in)
  <2>0. BlockFindings(draft, i, in) =
          IF hits = {} /\ held = {}
          THEN Finding(marks = {}, MacroRef, "uncited_portfolio_conclusion")
          ELSE (UNION {CheckInstrument(f, marks, hits, all, in) : f \in hits})
               \cup UNION {CheckConstituent(s, hits, sub, owner, all, in) : s \in held}
    BY DEF BlockFindings
  <2>1. b.cites \subseteq marks /\ marks \subseteq b.cites \cup above.cites
        /\ b.cites \subseteq all /\ held \subseteq b.stocks
        /\ (marks # b.cites => carries)
    BY DEF Cites, ConstituentHits
  <2>2. /\ hits = b.says
        /\ b.says = {} => b.cites = {MacroRef} /\ b.stocks = {}
        /\ b.says # {} => \E f \in picks :
              /\ b.says = {f} /\ b.cites \subseteq in.rows[f].evidence
              /\ \A s \in b.stocks : f \in Owners(s, in)
                     /\ LegsPresent(ConstituentCited(in, f, s), b.cites) = Legs
    BY <1>3, FaithfulBlock
  <2>3. InstrumentHits(above, in) = {} => above.cites \subseteq {MacroRef}
    <3>1. CASE above = Nothing
      BY <3>1 DEF Nothing
    <3>2. CASE i # 1 /\ above = draft[i - 1]
      <4>1. i - 1 \in DOMAIN draft
        BY <3>2
      <4>2. /\ InstrumentHits(above, in) = above.says
            /\ above.says = {} => above.cites = {MacroRef}
        BY <1>3, <3>2, <4>1, FaithfulBlock
      <4>. QED
        BY <4>2
    <3>. QED
      BY <3>1, <3>2
  <2>4. \A f \in InstrumentHits(above, in) : above.cites \subseteq in.rows[f].evidence
    <3>1. CASE above = Nothing
      BY <3>1 DEF Nothing
    <3>2. CASE i # 1 /\ above = draft[i - 1]
      <4>1. i - 1 \in DOMAIN draft
        BY <3>2
      <4>2. /\ InstrumentHits(above, in) = above.says
            /\ above.says # {} => \E f \in picks :
                  above.says = {f} /\ above.cites \subseteq in.rows[f].evidence
        BY <1>3, <3>2, <4>1, FaithfulBlock
      <4>. QED
        BY <4>2
    <3>. QED
      BY <3>1, <3>2
  <2>5. hits # {} => \A j \in DOMAIN draft : draft[j].kind # "head"
    BY <1>3, FaithfulBlock
  <2>6. \A f \in picks : hits = {f} => sub = {} /\ owner = {f}
    BY <2>5, ContextIs
  <2>. HIDE DEF b, above, all, hits, held, marks, sub, owner
  <2>7. CASE hits = {}
    <3>1. held = {} /\ marks # {}
      BY <2>1, <2>2, <2>7
    <3>. QED
      BY <2>0, <2>7, <3>1 DEF Finding
  <2>8. CASE hits # {}
    <3>1. PICK f \in picks :
            /\ hits = {f} /\ b.cites \subseteq in.rows[f].evidence
            /\ \A s \in b.stocks : f \in Owners(s, in)
                   /\ LegsPresent(ConstituentCited(in, f, s), b.cites) = Legs
      BY <2>2, <2>8
    <3>2. f \in OnRecord(in)
      BY <1>1
    <3>3. marks \subseteq in.rows[f].evidence \cup {MacroRef}
      BY <2>1, <2>3, <2>4, <3>1
    <3>4. CheckInstrument(f, marks, hits, all, in) = {}
      <4>1. ASSUME NEW o \in OnRecord(in) \ (hits \cup {f}) PROVE marks \cap CitedMap(in)[o] = {}
        <5>1. in.rows[f].evidence \cap in.rows[o].evidence = {}
          BY <3>2, <4>1, MemoAssumption DEF MemoAssumption
        <5>2. MacroRef \notin in.rows[o].evidence
          <6>1. IsAudited(in.rows[o].evidence)
            BY <4>1, MemoAssumption DEF MemoAssumption
          <6>. QED
            BY <6>1 DEF IsAudited
        <5>3. CitedMap(in)[o] = in.rows[o].evidence
          BY <4>1 DEF CitedMap
        <5>. QED
          BY <3>3, <5>1, <5>2, <5>3
      <4>2. LegsPresent(CitedMap(in)[f], all) = Legs
        BY FaithfulShows DEF all
      <4>. QED
        BY <4>1, <4>2, InstrumentPasses
    <3>5. ASSUME NEW s \in held PROVE CheckConstituent(s, hits, sub, owner, all, in) = {}
      <4>1. /\ f \in Owners(s, in)
            /\ LegsPresent(ConstituentCited(in, f, s), b.cites) = Legs
        BY <2>1, <3>1
      <4>2. OwnerInContext(s, hits, sub, owner, in) = {f}
        BY <2>6, <3>1, <4>1 DEF OwnerInContext
      <4>3. LegsPresent(ConstituentCited(in, f, s), all) = Legs
        BY <2>1, <4>1, MoreIsShown
      <4>. QED
        BY <4>2, <4>3, ConstituentPasses
    <3>6. \A g \in hits : CheckInstrument(g, marks, hits, all, in) = {}
      BY <3>1, <3>4
    <3>7. UNION {CheckInstrument(g, marks, hits, all, in) : g \in hits} = {}
      BY <3>6
    <3>8. UNION {CheckConstituent(s, hits, sub, owner, all, in) : s \in held} = {}
      BY <3>5
    <3>. QED
      BY <2>0, <2>8, <3>7, <3>8
  <2>. QED
    BY <2>7, <2>8
<1>5. UncitedConclusions(draft, in) = {}
  BY <1>4 DEF UncitedConclusions, ActionBlocks
<1>. QED
  BY <1>2, <1>5 DEF MemoFindings

-----------------------------------------------------------------------------
(* The files of the memo stage.                                            *)

MemoShape ==
    /\ desk = [step |-> desk.step, in |-> desk.in, draft |-> desk.draft, notes |-> desk.notes]
    /\ shelf = [memo |-> shelf.memo, blocked |-> shelf.blocked, audit |-> shelf.audit,
                shadow |-> shelf.shadow]
    /\ memoLog = [runs |-> memoLog.runs, ended |-> memoLog.ended, torn |-> memoLog.torn]
    /\ memoLog.runs \in Nat

\* The audit on the shelf is of the run in hand once that has written it.
AuditInHand ==
    desk.step \in {"refuse", "unlink", "cite", "publish", "sweep"} =>
        shelf.audit.run = memoLog.runs /\ shelf.audit.notes = desk.notes

\* The notes are what the audit's reader found in the draft, and the run goes
\* the way they say.
NotesAreOfDraft ==
    /\ desk.step \in {"files", "cite", "publish"} =>
           desk.notes.slips = ProseContradictions(desk.draft, desk.in)
    /\ desk.step \in {"cite", "publish"} => ~AuditBlocks(desk.notes)

\* A memo on the shelf is of the run in hand only at the run's end, and the log
\* of findings is of that run only once its gate has looked.
MemoIsOfRun ==
    shelf.memo # NoMemo =>
        /\ shelf.memo.run \in Nat
        /\ desk.step \in {"idle", "sweep"} => shelf.memo.run <= memoLog.runs
        /\ desk.step \notin {"idle", "sweep"} => shelf.memo.run < memoLog.runs
        /\ desk.step = "sweep" => shelf.memo.run = memoLog.runs
ShadowIsOfRun ==
    shelf.shadow # NoMemo =>
        /\ shelf.shadow.run \in Nat /\ shelf.shadow.run <= memoLog.runs
        /\ desk.step \in {"synth", "audit", "files", "cite"} => shelf.shadow.run < memoLog.runs
        /\ desk.step = "publish" /\ shelf.shadow.run = memoLog.runs => shelf.shadow.kinds = {}

\* VerdictStandsAlone, at every step of a run.
VerdictsInHand ==
    /\ shelf.memo # NoMemo /\ shelf.blocked =>
           memoLog.torn # {} \/ desk.step \in {"unlink", "sweep"}
    /\ shelf.memo # NoMemo /\ shelf.audit.run # shelf.memo.run =>
           \/ shelf.audit.run \in memoLog.torn
           \/ desk.step \in {"refuse", "unlink", "cite", "publish"}
    /\ desk.step = "sweep" => shelf.memo.run = memoLog.runs
    /\ desk.step = "unlink" => shelf.blocked
    /\ desk.step = "idle" /\ memoLog.ended = "published" =>
           shelf.memo.run = memoLog.runs /\ ~shelf.blocked
    /\ desk.step = "idle" /\ memoLog.ended = "refused" => shelf.memo = NoMemo /\ shelf.blocked

MemoInv ==
    /\ MemoShape /\ AuditInHand /\ NotesAreOfDraft /\ MemoIsOfRun /\ ShadowIsOfRun
    /\ VerdictsInHand /\ PublishedPassedGates

LEMMA MemoInitially == MemoInit => MemoInv
BY DEF MemoInit, MemoIdle, MemoInv, MemoShape, AuditInHand, NotesAreOfDraft, MemoIsOfRun,
   ShadowIsOfRun, VerdictsInHand, PublishedPassedGates

LEMMA MemoStep == MemoInv /\ MemoNext => MemoInv'
<1>. SUFFICES ASSUME MemoInv, MemoNext PROVE MemoInv'
  OBVIOUS
<1>. USE DEF MemoInv
<1>0. /\ desk = [step |-> desk.step, in |-> desk.in, draft |-> desk.draft, notes |-> desk.notes]
      /\ shelf = [memo |-> shelf.memo, blocked |-> shelf.blocked, audit |-> shelf.audit,
                  shadow |-> shelf.shadow]
      /\ memoLog = [runs |-> memoLog.runs, ended |-> memoLog.ended, torn |-> memoLog.torn]
      /\ memoLog.runs \in Nat
  BY DEF MemoShape
<1>. USE DEF AuditInHand, NotesAreOfDraft, MemoIsOfRun, ShadowIsOfRun, VerdictsInHand,
             PublishedPassedGates, MemoShape
<1>1. CASE StartMemo
  <2>1. desk.step = "idle" /\ UNCHANGED shelf
    BY <1>1 DEF StartMemo
  <2>2. \/ /\ desk' = MemoIdle
           /\ memoLog' = [memoLog EXCEPT !.runs = @ + 1, !.ended = "turned away"]
        \/ \E in \in MemoInputs :
              /\ desk' = [MemoIdle EXCEPT !.step = "synth", !.in = in]
              /\ memoLog' = [memoLog EXCEPT !.runs = @ + 1]
    BY <1>1 DEF StartMemo
  <2>3. /\ memoLog'.runs = memoLog.runs + 1 /\ memoLog'.torn = memoLog.torn
        /\ memoLog' = [runs |-> memoLog'.runs, ended |-> memoLog'.ended, torn |-> memoLog'.torn]
    BY <1>0, <2>2
  <2>4. desk' = [step |-> desk'.step, in |-> desk'.in, draft |-> desk'.draft, notes |-> desk'.notes]
    BY <2>2 DEF MemoIdle
  <2>5. \/ desk'.step = "idle" /\ memoLog'.ended = "turned away"
        \/ desk'.step = "synth"
    <3>1. CASE desk' = MemoIdle
               /\ memoLog' = [memoLog EXCEPT !.runs = @ + 1, !.ended = "turned away"]
      <4>1. desk'.step = "idle"
        BY <3>1 DEF MemoIdle
      <4>2. memoLog'.ended = "turned away"
        BY <1>0, <3>1
      <4>. QED
        BY <4>1, <4>2
    <3>2. CASE \E in \in MemoInputs : desk' = [MemoIdle EXCEPT !.step = "synth", !.in = in]
      BY <3>2 DEF MemoIdle
    <3>. QED
      BY <2>2, <3>1, <3>2
  <2>6. MemoShape'
    BY <1>0, <2>1, <2>3, <2>4
  <2>61. AuditInHand' /\ NotesAreOfDraft'
    BY <2>5
  <2>65. /\ memoLog.runs \in Nat /\ memoLog'.runs = memoLog.runs + 1
         /\ \A n \in Nat : n <= memoLog.runs => n < memoLog'.runs /\ n <= memoLog'.runs
    BY <1>0, <2>3
  <2>7. MemoIsOfRun'
    BY <2>1, <2>5, <2>65
  <2>71. ShadowIsOfRun'
    BY <2>1, <2>5, <2>65
  <2>8. VerdictsInHand' /\ PublishedPassedGates'
    BY <1>0, <2>1, <2>3, <2>5
  <2>. QED
    BY <2>6, <2>61, <2>7, <2>71, <2>8
<1>2. CASE Synthesize
  <2>1. /\ desk.step = "synth" /\ desk'.step = "audit" /\ UNCHANGED <<shelf, memoLog>>
        /\ desk' = [step |-> desk'.step, in |-> desk'.in, draft |-> desk'.draft, notes |-> desk'.notes]
    BY <1>0, <1>2 DEF Synthesize
  <2>. QED
    BY <1>0, <2>1
<1>3. CASE Audit
  <2>1. /\ desk.step = "audit" /\ desk'.step = "files" /\ UNCHANGED <<shelf, memoLog>>
        /\ desk' = [step |-> desk'.step, in |-> desk'.in, draft |-> desk'.draft, notes |-> desk'.notes]
        /\ desk'.draft = desk.draft /\ desk'.in = desk.in
    BY <1>0, <1>3 DEF Audit
  <2>2. desk'.notes.slips = ProseContradictions(desk.draft, desk.in)
    BY <1>0, <1>3 DEF Audit
  <2>3. desk'.notes.slips = ProseContradictions(desk'.draft, desk'.in)
    BY <2>1, <2>2
  <2>. QED
    BY <1>0, <2>1, <2>3
<1>4. CASE WriteAudit
  <2>1. /\ desk.step = "files" /\ UNCHANGED memoLog
        /\ desk' = [desk EXCEPT !.step = desk'.step]
        /\ desk'.step = IF AuditBlocks(desk.notes) THEN "refuse" ELSE "cite"
        /\ shelf' = [shelf EXCEPT !.audit = [run |-> memoLog.runs, notes |-> desk.notes]]
    BY <1>0, <1>4 DEF WriteAudit, Step
  <2>2. /\ desk'.in = desk.in /\ desk'.draft = desk.draft /\ desk'.notes = desk.notes
        /\ desk' = [step |-> desk'.step, in |-> desk'.in, draft |-> desk'.draft, notes |-> desk'.notes]
        /\ shelf'.memo = shelf.memo /\ shelf'.blocked = shelf.blocked /\ shelf'.shadow = shelf.shadow
        /\ shelf'.audit.run = memoLog.runs /\ shelf'.audit.notes = desk.notes
        /\ shelf' = [memo |-> shelf'.memo, blocked |-> shelf'.blocked, audit |-> shelf'.audit,
                     shadow |-> shelf'.shadow]
    BY <1>0, <2>1
  <2>. QED
    BY <1>0, <2>1, <2>2
<1>5. CASE CitationGate
  <2>. DEFINE found == MemoFindings(desk.draft, desk.in)
  <2>1. /\ desk.step = "cite" /\ UNCHANGED memoLog
        /\ desk' = [desk EXCEPT !.step = desk'.step]
        /\ desk'.step = IF found # {} THEN "refuse" ELSE "publish"
        /\ \/ shelf' = shelf
           \/ shelf' = [shelf EXCEPT !.shadow =
                           [run |-> memoLog.runs, kinds |-> {x.kind : x \in found}]]
    BY <1>0, <1>5 DEF CitationGate, Step
  <2>2. found = {} => {x.kind : x \in found} = {}
    OBVIOUS
  <2>. HIDE DEF found
  <2>3. /\ desk'.in = desk.in /\ desk'.draft = desk.draft /\ desk'.notes = desk.notes
        /\ desk' = [step |-> desk'.step, in |-> desk'.in, draft |-> desk'.draft, notes |-> desk'.notes]
        /\ shelf'.memo = shelf.memo /\ shelf'.blocked = shelf.blocked /\ shelf'.audit = shelf.audit
        /\ shelf' = [memo |-> shelf'.memo, blocked |-> shelf'.blocked, audit |-> shelf'.audit,
                     shadow |-> shelf'.shadow]
        /\ \/ shelf'.shadow = shelf.shadow
           \/ shelf'.shadow.run = memoLog.runs /\ (found = {} => shelf'.shadow.kinds = {})
    BY <1>0, <2>1, <2>2
  <2>. QED
    BY <1>0, <2>1, <2>3
<1>6. CASE WriteBlocked
  <2>1. /\ desk.step = "refuse" /\ UNCHANGED memoLog
        /\ desk' = [desk EXCEPT !.step = "unlink"]
        /\ shelf' = [shelf EXCEPT !.blocked = TRUE]
    BY <1>6 DEF WriteBlocked, Step
  <2>2. /\ desk'.step = "unlink" /\ desk'.notes = desk.notes
        /\ desk' = [step |-> desk'.step, in |-> desk'.in, draft |-> desk'.draft, notes |-> desk'.notes]
        /\ shelf'.memo = shelf.memo /\ shelf'.blocked /\ shelf'.shadow = shelf.shadow
        /\ shelf'.audit = shelf.audit
        /\ shelf' = [memo |-> shelf'.memo, blocked |-> shelf'.blocked, audit |-> shelf'.audit,
                     shadow |-> shelf'.shadow]
    BY <1>0, <2>1
  <2>. QED
    BY <1>0, <2>1, <2>2
<1>7. CASE RemoveStaleMemo
  <2>1. /\ desk.step = "unlink" /\ desk' = MemoIdle
        /\ memoLog' = [memoLog EXCEPT !.ended = "refused"]
        /\ shelf' = [shelf EXCEPT !.memo = NoMemo]
    BY <1>7 DEF RemoveStaleMemo, Leave
  <2>2. /\ desk'.step = "idle"
        /\ desk' = [step |-> desk'.step, in |-> desk'.in, draft |-> desk'.draft, notes |-> desk'.notes]
        /\ memoLog'.runs = memoLog.runs /\ memoLog'.ended = "refused" /\ memoLog'.torn = memoLog.torn
        /\ memoLog' = [runs |-> memoLog'.runs, ended |-> memoLog'.ended, torn |-> memoLog'.torn]
        /\ shelf'.memo = NoMemo /\ shelf'.blocked = shelf.blocked /\ shelf'.shadow = shelf.shadow
        /\ shelf'.audit = shelf.audit
        /\ shelf' = [memo |-> shelf'.memo, blocked |-> shelf'.blocked, audit |-> shelf'.audit,
                     shadow |-> shelf'.shadow]
    BY <1>0, <2>1 DEF MemoIdle
  <2>. QED
    BY <1>0, <2>1, <2>2
<1>8. CASE WriteMemo
  <2>1. /\ desk.step = "publish" /\ UNCHANGED memoLog
        /\ desk' = [desk EXCEPT !.step = "sweep"]
        /\ shelf'.memo.run = memoLog.runs
        /\ shelf'.memo.slips = ProseContradictions(desk.draft, desk.in)
        /\ shelf' = [shelf EXCEPT !.memo = shelf'.memo]
    BY <1>0, <1>8 DEF WriteMemo, Step
  <2>2. /\ desk'.step = "sweep" /\ desk'.notes = desk.notes
        /\ desk' = [step |-> desk'.step, in |-> desk'.in, draft |-> desk'.draft, notes |-> desk'.notes]
        /\ shelf'.blocked = shelf.blocked /\ shelf'.shadow = shelf.shadow
        /\ shelf'.audit = shelf.audit
        /\ shelf' = [memo |-> shelf'.memo, blocked |-> shelf'.blocked, audit |-> shelf'.audit,
                     shadow |-> shelf'.shadow]
    BY <1>0, <2>1
  <2>. QED
    BY <1>0, <2>1, <2>2
<1>9. CASE RemoveStaleBlocked
  <2>1. /\ desk.step = "sweep" /\ desk' = MemoIdle
        /\ memoLog' = [memoLog EXCEPT !.ended = "published"]
        /\ shelf' = [shelf EXCEPT !.blocked = FALSE]
    BY <1>9 DEF RemoveStaleBlocked, Leave
  <2>2. /\ desk'.step = "idle"
        /\ desk' = [step |-> desk'.step, in |-> desk'.in, draft |-> desk'.draft, notes |-> desk'.notes]
        /\ memoLog'.runs = memoLog.runs /\ memoLog'.ended = "published" /\ memoLog'.torn = memoLog.torn
        /\ memoLog' = [runs |-> memoLog'.runs, ended |-> memoLog'.ended, torn |-> memoLog'.torn]
        /\ shelf'.memo = shelf.memo /\ ~shelf'.blocked /\ shelf'.shadow = shelf.shadow
        /\ shelf'.audit = shelf.audit
        /\ shelf' = [memo |-> shelf'.memo, blocked |-> shelf'.blocked, audit |-> shelf'.audit,
                     shadow |-> shelf'.shadow]
    BY <1>0, <2>1 DEF MemoIdle
  <2>. QED
    BY <1>0, <2>1, <2>2
<1>10. CASE TearMemo
  <2>1. /\ desk.step # "idle" /\ desk' = MemoIdle /\ UNCHANGED shelf
        /\ memoLog' = [memoLog EXCEPT !.ended = "torn", !.torn = @ \cup {memoLog.runs}]
    BY <1>10 DEF TearMemo
  <2>2. /\ desk'.step = "idle"
        /\ desk' = [step |-> desk'.step, in |-> desk'.in, draft |-> desk'.draft, notes |-> desk'.notes]
        /\ memoLog'.runs = memoLog.runs /\ memoLog'.ended = "torn"
        /\ memoLog'.torn = memoLog.torn \cup {memoLog.runs}
        /\ memoLog' = [runs |-> memoLog'.runs, ended |-> memoLog'.ended, torn |-> memoLog'.torn]
    BY <1>0, <2>1 DEF MemoIdle
  <2>. QED
    BY <1>0, <2>1, <2>2
<1>11. CASE ShadowAnew
  <2>1. /\ desk.step = "idle" /\ UNCHANGED <<desk, memoLog>>
        /\ shelf' = [shelf EXCEPT !.shadow = NoMemo]
    BY <1>11 DEF ShadowAnew
  <2>2. /\ shelf'.memo = shelf.memo /\ shelf'.blocked = shelf.blocked
        /\ shelf'.audit = shelf.audit /\ shelf'.shadow = NoMemo
        /\ shelf' = [memo |-> shelf'.memo, blocked |-> shelf'.blocked, audit |-> shelf'.audit,
                     shadow |-> shelf'.shadow]
    BY <1>0, <2>1
  <2>. QED
    BY <1>0, <2>1, <2>2
<1>. QED
  BY <1>1, <1>2, <1>3, <1>4, <1>5, <1>6, <1>7, <1>8, <1>9, <1>10, <1>11 DEF MemoNext

-----------------------------------------------------------------------------
(* The draft in hand, and the memo that comes of it.                       *)

\* What the model wrote, once the sections it was not to add are gone.
FitToRead(draft) ==
    /\ draft \in Seq(ToSet(draft))
    /\ \A b \in ToSet(draft) : b.kind \in Kinds /\ b.words \in Words /\ ~b.barred

DraftInHand ==
    /\ desk.step \in MemoSteps /\ (desk.step = "idle" <=> desk = MemoIdle)
    /\ desk.step # "idle" => desk.in \in MemoInputs /\ memoLog.runs # 0
    /\ FitToRead(desk.draft)

\* The gate lets a draft go on, and the audit or the gate stops it.
GateInHand ==
    /\ desk.step = "publish" => MemoFindings(desk.draft, desk.in) = {}
    /\ desk.step = "refuse" =>
           AuditBlocks(desk.notes) \/ MemoFindings(desk.draft, desk.in) # {}

ShelfTyped ==
    /\ desk.notes.verdict \in Verdicts
    /\ shelf.blocked \in BOOLEAN /\ memoLog.runs \in 0..MaxMemoRuns
    /\ memoLog.ended \in {"none", "turned away", "published", "refused", "torn"}
    /\ memoLog.torn \subseteq 1..MaxMemoRuns

DraftInv == DraftInHand /\ GateInHand /\ ShelfTyped /\ PublishedIsBacked

LEMMA Joined ==
    ASSUME NEW T, NEW s \in Seq(T), NEW t \in Seq(T)
    PROVE  s \o t \in Seq(T)
OBVIOUS

LEMMA OwnRange ==
    ASSUME NEW T, NEW s \in Seq(T)
    PROVE  s \in Seq(ToSet(s)) /\ ToSet(s) \subseteq T
<1>1. Len(s) \in Nat /\ s \in [1..Len(s) -> T] /\ DOMAIN s = 1..Len(s)
  OBVIOUS
<1>2. s \in [1..Len(s) -> ToSet(s)]
  BY <1>1 DEF ToSet
<1>. QED
  BY <1>1, <1>2 DEF ToSet

LEMMA SynthesisFits ==
    ASSUME NEW in \in MemoInputs, NEW table \in CopiedTables(in),
           NEW own \in SeqOf(Passages, MaxPassages)
    PROVE  FitToRead(Sanitize(own \o table))
<1>. DEFINE Typed(b) == b.kind \in Kinds /\ b.words \in Words
            picks == PicksTable(in)
            T == Passages \cup ToSet(table)
            draft == own \o table
            S == {b \in ToSet(draft) : ~b.barred}
<1>1. own \in Seq(Passages) /\ \A b \in Passages : Typed(b)
  <2>1. PICK m \in 0..MaxPassages : own \in [1..m -> Passages]
    BY DEF SeqOf
  <2>2. m \in Nat
    BY <2>1, MemoAssumption DEF MemoAssumption
  <2>. QED
    BY <2>1, <2>2, MemoAssumption DEF MemoAssumption
<1>2. PICK n \in Nat : DOMAIN picks = 1..n
  <2>1. AdvisoryPartition(in) \in Seq(MemoFunds)
    BY TableIs
  <2>2. DOMAIN AdvisoryPartition(in) = 1..Len(AdvisoryPartition(in)) /\ Len(AdvisoryPartition(in)) \in Nat
    BY <2>1
  <2>. QED
    BY <2>2 DEF PicksTable
<1>3. \A i \in 1..n : picks[i].kind = "row" /\ picks[i].words \in Words
                       /\ picks[i] = PicksRow(in, AdvisoryPartition(in)[i])
  BY <1>2 DEF PicksTable, PicksRow, ActionWords, Words
<1>4. /\ table = [i \in 1..n |-> table[i]]
      /\ \A i \in 1..n : table[i].kind = "row" /\ table[i].words \in Words
  <2>1. picks = [i \in 1..n |-> picks[i]]
    BY <1>2 DEF PicksTable
  <2>2. \/ table = picks
        \/ \E i \in 1..n : \E v : table = [picks EXCEPT ![i].cites = v]
    <3>1. \/ table = picks
          \/ \E i \in 1..n : \E j \in 1..n : table = [picks EXCEPT ![i].cites = picks[j].cites]
          \/ \E i \in 1..n : table = [picks EXCEPT ![i].cites = {}]
      BY <1>2 DEF CopiedTables
    <3>. QED
      BY <3>1
  <2>3. CASE table = picks
    BY <1>3, <2>1, <2>3
  <2>4. ASSUME NEW i \in 1..n, NEW v, table = [picks EXCEPT ![i].cites = v]
        PROVE  /\ table = [j \in 1..n |-> table[j]]
               /\ \A j \in 1..n : table[j].kind = "row" /\ table[j].words \in Words
    <3>. DEFINE row == [picks[i] EXCEPT !.cites = v]
    <3>1. table = [picks EXCEPT ![i] = row]
      BY <2>4
    <3>2. row.kind = "row" /\ row.words \in Words
      <4>1. /\ picks[i] = PicksRow(in, AdvisoryPartition(in)[i])
            /\ picks[i].kind = "row" /\ picks[i].words \in Words
        BY <1>3
      <4>. HIDE DEF picks
      <4>. QED
        BY <4>1 DEF PicksRow
    <3>. HIDE DEF row, picks
    <3>3. table = [j \in 1..n |-> IF j = i THEN row ELSE picks[j]]
      BY <2>1, <3>1
    <3>4. \A j \in 1..n : table[j] = IF j = i THEN row ELSE picks[j]
      BY <3>3
    <3>5. table = [j \in 1..n |-> table[j]]
      BY <3>3
    <3>. QED
      BY <1>3, <3>2, <3>4, <3>5
  <2>. QED
    BY <2>2, <2>3, <2>4
<1>. HIDE DEF picks
<1>5. table \in Seq(ToSet(table)) /\ \A b \in ToSet(table) : Typed(b)
  <2>1. DOMAIN table = 1..n
    BY <1>4
  <2>2. table \in [1..n -> ToSet(table)]
    BY <1>4, <2>1 DEF ToSet
  <2>3. \A b \in ToSet(table) : Typed(b)
    BY <1>4, <2>1 DEF ToSet, Kinds
  <2>. QED
    BY <2>2, <2>3
<1>6. own \in Seq(T) /\ table \in Seq(T)
  BY <1>1, <1>5
<1>7. draft \in Seq(T)
  BY <1>6, Joined
<1>8. \A b \in T : Typed(b)
  BY <1>1, <1>5
<1>. HIDE DEF T, draft, Typed
<1>9. Among(draft, S) \in Seq(T \cap S) /\ ToSet(Among(draft, S)) = ToSet(draft) \cap S
  BY <1>7, AmongIs
<1>10. ToSet(draft) \subseteq T
  BY <1>7, OwnRange
<1>11. Among(draft, S) \in Seq(ToSet(Among(draft, S)))
  BY <1>9, OwnRange
<1>. QED
  BY <1>8, <1>9, <1>10, <1>11 DEF FitToRead, Sanitize, draft, Typed

LEMMA DraftInitially == MemoInit => DraftInv
<1>. SUFFICES ASSUME MemoInit PROVE DraftInv
  OBVIOUS
<1>1. /\ desk = MemoIdle /\ shelf.memo = NoMemo /\ shelf.blocked = FALSE
      /\ memoLog.runs = 0 /\ memoLog.ended = "none" /\ memoLog.torn = {}
  BY DEF MemoInit
<1>2. desk.step = "idle" /\ desk.draft = <<>> /\ desk.notes.verdict = "clear"
  BY <1>1 DEF MemoIdle, NoNotes
<1>3. FitToRead(<<>>)
  BY DEF FitToRead, ToSet
<1>4. MaxMemoRuns \in Nat
  BY MemoAssumption DEF MemoAssumption
<1>5. DraftInHand
  <2>1. FitToRead(desk.draft) /\ desk.step \in MemoSteps
    BY <1>2, <1>3 DEF MemoSteps
  <2>. QED
    BY <1>1, <1>2, <2>1 DEF DraftInHand
<1>6. ShelfTyped
  <2>1. shelf.blocked \in BOOLEAN
    BY <1>1
  <2>2. memoLog.runs \in 0..MaxMemoRuns /\ memoLog.torn \subseteq 1..MaxMemoRuns
    BY <1>1, <1>4
  <2>. QED
    BY <1>1, <1>2, <2>1, <2>2 DEF ShelfTyped, Verdicts
<1>. QED
  BY <1>1, <1>2, <1>5, <1>6 DEF DraftInv, GateInHand, PublishedIsBacked

\* A run that leaves the desk to the next leaves it empty.
LEMMA IdleIsFit ==
    ASSUME desk' = MemoIdle PROVE DraftInHand' /\ GateInHand' /\ desk'.notes.verdict \in Verdicts
<1>1. desk'.step = "idle" /\ desk'.draft = <<>> /\ desk'.notes.verdict = "clear"
  BY DEF MemoIdle, NoNotes
<1>2. FitToRead(<<>>)
  BY DEF FitToRead, ToSet
<1>. QED
  BY <1>1, <1>2 DEF DraftInHand, GateInHand, MemoSteps, Verdicts

LEMMA DraftStep == MemoShape /\ DraftInv /\ MemoNext => DraftInv'
<1>. SUFFICES ASSUME MemoShape, DraftInv, MemoNext PROVE DraftInv'
  OBVIOUS
<1>0. /\ desk = [step |-> desk.step, in |-> desk.in, draft |-> desk.draft, notes |-> desk.notes]
      /\ shelf = [memo |-> shelf.memo, blocked |-> shelf.blocked, audit |-> shelf.audit,
                  shadow |-> shelf.shadow]
      /\ memoLog = [runs |-> memoLog.runs, ended |-> memoLog.ended, torn |-> memoLog.torn]
      /\ MaxMemoRuns \in Nat
  BY MemoAssumption DEF MemoShape, MemoAssumption
<1>i. DraftInHand /\ GateInHand /\ ShelfTyped /\ PublishedIsBacked
  BY DEF DraftInv
<1>t. memoLog.runs \in 0..MaxMemoRuns /\ (desk.step # "idle" => memoLog.runs # 0)
  BY <1>i DEF DraftInHand, ShelfTyped
<1>. SUFFICES DraftInHand' /\ GateInHand' /\ ShelfTyped' /\ PublishedIsBacked'
  BY DEF DraftInv
<1>. DEFINE Same == /\ desk'.in = desk.in /\ desk'.draft = desk.draft /\ desk'.notes = desk.notes
                    /\ desk'.step \in MemoSteps \ {"idle"} /\ desk.step # "idle"
            Sheet(s) == s.memo = shelf.memo /\ s.blocked = shelf.blocked
<1>k. ASSUME Same, UNCHANGED memoLog PROVE DraftInHand' /\ desk'.notes.verdict \in Verdicts
  <2>1. desk.step # "idle" /\ desk'.step # "idle" /\ desk'.step \in MemoSteps
    BY <1>k
  <2>2. /\ desk.in \in MemoInputs /\ memoLog.runs # 0 /\ FitToRead(desk.draft)
        /\ desk.notes.verdict \in Verdicts
    BY <1>i, <2>1 DEF DraftInHand, ShelfTyped
  <2>3. desk' # MemoIdle
    BY <2>1 DEF MemoIdle
  <2>4. /\ desk'.in \in MemoInputs /\ memoLog'.runs # 0 /\ desk'.notes.verdict \in Verdicts
        /\ desk'.draft = desk.draft
    BY <1>k, <2>2
  <2>5. FitToRead(desk'.draft)
    BY <2>2, <2>4
  <2>. QED
    BY <2>1, <2>3, <2>4, <2>5 DEF DraftInHand
<1>1. CASE StartMemo
  <2>1. /\ desk.step = "idle" /\ memoLog.runs < MaxMemoRuns /\ UNCHANGED shelf
        /\ \/ /\ desk' = MemoIdle
              /\ memoLog' = [memoLog EXCEPT !.runs = @ + 1, !.ended = "turned away"]
           \/ \E in \in MemoInputs :
                 /\ desk' = [MemoIdle EXCEPT !.step = "synth", !.in = in]
                 /\ memoLog' = [memoLog EXCEPT !.runs = @ + 1]
    BY <1>1 DEF StartMemo
  <2>2. /\ memoLog'.runs = memoLog.runs + 1 /\ memoLog'.torn = memoLog.torn
        /\ memoLog'.ended \in {memoLog.ended, "turned away"}
    BY <1>0, <2>1
  <2>3. memoLog'.runs \in 0..MaxMemoRuns /\ memoLog'.runs # 0 /\ shelf' = shelf
    <3>1. memoLog.runs < MaxMemoRuns /\ memoLog'.runs = memoLog.runs + 1 /\ MaxMemoRuns \in Nat
      BY <1>0, <2>1, <2>2
    <3>2. memoLog'.runs \in 0..MaxMemoRuns /\ memoLog'.runs # 0
      BY <1>t, <3>1
    <3>. QED
      BY <2>1, <3>2
  <2>4. DraftInHand' /\ GateInHand' /\ desk'.notes.verdict \in Verdicts
    <3>1. CASE desk' = MemoIdle
      BY <3>1, IdleIsFit
    <3>2. CASE \E in \in MemoInputs : desk' = [MemoIdle EXCEPT !.step = "synth", !.in = in]
      <4>1. /\ desk'.step = "synth" /\ desk'.in \in MemoInputs /\ desk'.draft = <<>>
            /\ desk'.notes.verdict = "clear"
        BY <3>2 DEF MemoIdle, NoNotes
      <4>2. FitToRead(<<>>)
        BY DEF FitToRead, ToSet
      <4>3. desk' # MemoIdle
        BY <4>1 DEF MemoIdle
      <4>. QED
        BY <2>3, <4>1, <4>2, <4>3 DEF DraftInHand, GateInHand, MemoSteps, Verdicts
    <3>. QED
      BY <2>1, <3>1, <3>2
  <2>5. ShelfTyped' /\ PublishedIsBacked'
    BY <1>i, <2>2, <2>3, <2>4 DEF ShelfTyped, PublishedIsBacked
  <2>. QED
    BY <2>4, <2>5
<1>2. CASE Synthesize
  <2>1. /\ desk.step = "synth" /\ UNCHANGED <<shelf, memoLog>>
        /\ \E table \in CopiedTables(desk.in) : \E own \in SeqOf(Passages, MaxPassages) :
             desk' = [desk EXCEPT !.step = "audit", !.draft = Sanitize(own \o table)]
    BY <1>2 DEF Synthesize
  <2>2. desk.in \in MemoInputs
    BY <1>i, <2>1 DEF DraftInHand
  <2>3. PICK table \in CopiedTables(desk.in) : \E own \in SeqOf(Passages, MaxPassages) :
             desk' = [desk EXCEPT !.step = "audit", !.draft = Sanitize(own \o table)]
    BY <2>1
  <2>4. PICK own \in SeqOf(Passages, MaxPassages) :
             desk' = [desk EXCEPT !.step = "audit", !.draft = Sanitize(own \o table)]
    BY <2>3
  <2>5. FitToRead(Sanitize(own \o table))
    BY <2>2, SynthesisFits
  <2>6. /\ desk'.step = "audit" /\ desk'.draft = Sanitize(own \o table)
        /\ desk'.in = desk.in /\ desk'.notes = desk.notes
    BY <1>0, <2>4
  <2>7. desk' # MemoIdle
    BY <2>6 DEF MemoIdle
  <2>. QED
    BY <1>i, <2>1, <2>2, <2>5, <2>6, <2>7
       DEF DraftInHand, GateInHand, ShelfTyped, PublishedIsBacked, MemoSteps
<1>3. CASE Audit
  <2>1. desk.step = "audit" /\ UNCHANGED <<shelf, memoLog>>
    BY <1>3 DEF Audit
  <2>2. /\ desk'.step = "files" /\ desk'.notes.verdict \in Verdicts
        /\ desk'.draft = desk.draft /\ desk'.in = desk.in
    BY <1>0, <1>3 DEF Audit
  <2>3. desk' # MemoIdle
    BY <2>2 DEF MemoIdle
  <2>. QED
    BY <1>i, <2>1, <2>2, <2>3
       DEF DraftInHand, GateInHand, ShelfTyped, PublishedIsBacked, MemoSteps
<1>4. CASE WriteAudit
  <2>1. /\ desk.step = "files" /\ UNCHANGED memoLog
        /\ desk'.step = IF AuditBlocks(desk.notes) THEN "refuse" ELSE "cite"
        /\ Same /\ Sheet(shelf')
    BY <1>0, <1>4 DEF WriteAudit, Step, MemoSteps
  <2>2. DraftInHand' /\ desk'.notes.verdict \in Verdicts
    BY <1>k, <2>1
  <2>3. GateInHand'
    BY <2>1 DEF GateInHand
  <2>. QED
    BY <1>i, <2>1, <2>2, <2>3 DEF ShelfTyped, PublishedIsBacked
<1>5. CASE CitationGate
  <2>. DEFINE found == MemoFindings(desk.draft, desk.in)
  <2>1. /\ desk.step = "cite" /\ UNCHANGED memoLog
        /\ desk'.step = IF found # {} THEN "refuse" ELSE "publish"
        /\ Same /\ Sheet(shelf')
    BY <1>0, <1>5 DEF CitationGate, Step, MemoSteps
  <2>2. DraftInHand' /\ desk'.notes.verdict \in Verdicts
    BY <1>k, <2>1
  <2>3. GateInHand'
    BY <2>1 DEF GateInHand
  <2>. QED
    BY <1>i, <2>1, <2>2, <2>3 DEF ShelfTyped, PublishedIsBacked
<1>6. CASE WriteBlocked
  <2>1. /\ desk.step = "refuse" /\ desk'.step = "unlink" /\ UNCHANGED memoLog
        /\ Same /\ shelf'.memo = shelf.memo /\ shelf'.blocked = TRUE
    BY <1>0, <1>6 DEF WriteBlocked, Step, MemoSteps
  <2>2. DraftInHand' /\ desk'.notes.verdict \in Verdicts
    BY <1>k, <2>1
  <2>. QED
    BY <1>i, <2>1, <2>2 DEF GateInHand, ShelfTyped, PublishedIsBacked
<1>7. CASE RemoveStaleMemo
  <2>1. /\ desk' = MemoIdle /\ memoLog'.runs = memoLog.runs /\ memoLog'.torn = memoLog.torn
        /\ memoLog'.ended = "refused" /\ shelf'.memo = NoMemo /\ shelf'.blocked = shelf.blocked
    BY <1>0, <1>7 DEF RemoveStaleMemo, Leave
  <2>. QED
    BY <1>i, <2>1, IdleIsFit DEF ShelfTyped, PublishedIsBacked
<1>8. CASE WriteMemo
  <2>1. /\ desk.step = "publish" /\ desk'.step = "sweep" /\ UNCHANGED memoLog
        /\ Same /\ shelf'.blocked = shelf.blocked
        /\ shelf'.memo.backed = Backed(desk.draft, desk.in)
    BY <1>0, <1>8 DEF WriteMemo, Step, MemoSteps
  <2>2. DraftInHand' /\ desk'.notes.verdict \in Verdicts
    BY <1>k, <2>1
  <2>3. UncitedConclusions(desk.draft, desk.in) = {}
    BY <1>i, <2>1 DEF GateInHand, MemoFindings
  <2>4. PublishedIsBacked'
    BY <2>1, <2>3, GateIsSound DEF PublishedIsBacked
  <2>. QED
    BY <1>i, <2>1, <2>2, <2>4 DEF GateInHand, ShelfTyped
<1>9. CASE RemoveStaleBlocked
  <2>1. /\ desk' = MemoIdle /\ memoLog'.runs = memoLog.runs /\ memoLog'.torn = memoLog.torn
        /\ memoLog'.ended = "published" /\ shelf'.memo = shelf.memo /\ shelf'.blocked = FALSE
    BY <1>0, <1>9 DEF RemoveStaleBlocked, Leave
  <2>. QED
    BY <1>i, <2>1, IdleIsFit DEF ShelfTyped, PublishedIsBacked
<1>10. CASE TearMemo
  <2>1. /\ desk.step # "idle" /\ desk' = MemoIdle /\ UNCHANGED shelf
        /\ memoLog'.runs = memoLog.runs /\ memoLog'.torn = memoLog.torn \cup {memoLog.runs}
        /\ memoLog'.ended = "torn"
    BY <1>0, <1>10 DEF TearMemo
  <2>2. memoLog.runs \in 1..MaxMemoRuns
    BY <1>0, <1>t, <2>1
  <2>. QED
    BY <1>i, <2>1, <2>2, IdleIsFit DEF ShelfTyped, PublishedIsBacked
<1>11. CASE ShadowAnew
  <2>1. /\ UNCHANGED <<desk, memoLog>> /\ Sheet(shelf')
    BY <1>0, <1>11 DEF ShadowAnew
  <2>. QED
    BY <1>i, <2>1 DEF DraftInHand, GateInHand, ShelfTyped, PublishedIsBacked
<1>. QED
  BY <1>1, <1>2, <1>3, <1>4, <1>5, <1>6, <1>7, <1>8, <1>9, <1>10, <1>11 DEF MemoNext

LEMMA FaithfulPasses == DraftInv => FaithfulIsPublished
<1>. SUFFICES ASSUME DraftInv, desk.step = "refuse", ~AuditBlocks(desk.notes),
                     Faithful(desk.draft, desk.in)
              PROVE  FALSE
  BY DEF FaithfulIsPublished
<1>1. /\ desk.in \in MemoInputs /\ desk.draft \in Seq(ToSet(desk.draft))
      /\ \A b \in ToSet(desk.draft) : ~b.barred
      /\ MemoFindings(desk.draft, desk.in) # {}
  BY DEF DraftInv, DraftInHand, GateInHand, FitToRead
<1>. QED
  BY <1>1, GateIsFair

LEMMA MemoTyped == DraftInv => MemoTypeOK
<1>. SUFFICES ASSUME DraftInv PROVE MemoTypeOK
  OBVIOUS
<1>1. \A i \in DOMAIN desk.draft : desk.draft[i] \in ToSet(desk.draft)
  BY DEF ToSet
<1>. QED
  BY <1>1 DEF DraftInv, DraftInHand, ShelfTyped, FitToRead, MemoTypeOK

LEMMA MemoKept == MemoInv /\ DraftInv /\ [MemoNext]_memoVars => (MemoInv /\ DraftInv)'
<1>1. MemoInv /\ DraftInv /\ UNCHANGED memoVars => (MemoInv /\ DraftInv)'
  <2>1. MemoInv /\ UNCHANGED memoVars => MemoInv'
    BY DEF memoVars, MemoInv, MemoShape, AuditInHand, NotesAreOfDraft, MemoIsOfRun,
       ShadowIsOfRun, VerdictsInHand, PublishedPassedGates
  <2>2. DraftInv /\ UNCHANGED memoVars => DraftInv'
    BY DEF memoVars, DraftInv, DraftInHand, GateInHand, ShelfTyped, PublishedIsBacked
  <2>. QED
    BY <2>1, <2>2
<1>2. MemoInv /\ DraftInv /\ MemoNext => (MemoInv /\ DraftInv)'
  BY MemoStep, DraftStep DEF MemoInv
<1>. QED
  BY <1>1, <1>2

LEMMA MemoAlways == MemoSpec => [](MemoInv /\ DraftInv)
  BY MemoInitially, DraftInitially, MemoKept, PTL DEF MemoSpec

\* Whatever the models write and whichever run is torn at whichever of its files:
\* a memo that is published rests on what it cites, what lies beside it does not
\* contradict it, a memo and a refusal are never the verdicts of one run, and the
\* gate holds nothing against a draft that follows its rules (citation_validator.py,
\* find_uncited_conclusions; memo_cmd.py).
THEOREM MemoIsHonest == MemoSpec => []MemoKeepsItsWord
<1>1. MemoInv => VerdictStandsAlone /\ PublishedPassedGates
  BY DEF MemoInv, VerdictsInHand, VerdictStandsAlone
<1>2. MemoInv /\ DraftInv => MemoKeepsItsWord
  BY <1>1, FaithfulPasses DEF DraftInv, MemoKeepsItsWord
<1>. QED
  BY <1>2, MemoAlways, PTL

-----------------------------------------------------------------------------
(* The days, the files and the pages of the notifier, and the types of all *)
(* three together.                                                         *)

Severities == {"failed", "halted", "stale", "degraded", "action", "clean", "died"}

LEMMA SaidIs ==
    ASSUME NEW kind \in {"flow-capture", "monitor", "weekly"}, NEW o, o.health \subseteq Items,
           NEW onClean, Say(kind, o, onClean)
    PROVE  /\ said'.kind \in {"none", "flow-capture", "monitor", "weekly"}
           /\ said'.severity \in Severities
           /\ said'.outcome.health \subseteq Items /\ said'.sent \subseteq Channels
<1>. DEFINE d == ClassifyRunOutcome(o, onClean)
<1>1. PICK down \in SUBSET Channels :
        said' = [kind |-> kind, outcome |-> o, severity |-> d.severity,
                 notify |-> d.notify, down |-> down, sent |-> Dispatch(d, down)]
  BY DEF Say
<1>2. Decide(o) \in Severities \ {"degraded"}
  BY DEF Decide, Severities
<1>3. d.severity \in Severities
  BY <1>2 DEF ClassifyRunOutcome, ApplyHealth, Severities
<1>4. Dispatch(d, down) \subseteq Channels
  BY DEF Dispatch
<1>. HIDE DEF d
<1>. QED
  BY <1>1, <1>3, <1>4

LEMMA HealthIsOfItems ==
    /\ \A d : FlowCaptureHealth(d) \subseteq Items
    /\ \A trace, d : MonitorHealth(trace, d) \subseteq Items
    /\ \A gold \in {"bad", "old", "some", "fresh"} : WeeklyHealth(gold) \subseteq Items
<1>1. HealthUnknown \subseteq Items
  BY DEF HealthUnknown, Warn, Items
<1>2. ASSUME NEW d PROVE FlowCaptureHealth(d) \subseteq Items
  <2>1. CaptureCoverageItems(d) \subseteq Items
    BY <1>1 DEF CaptureCoverageItems, Warn, Items
  <2>2. RotationHealth(radars[d]) \subseteq Items
    BY <1>1 DEF RotationHealth, Warn, Items
  <2>3. {Info("rotation_recovered")} \subseteq Items
    BY DEF Info, Items
  <2>. QED
    BY <2>1, <2>2, <2>3 DEF FlowCaptureHealth
<1>3. ASSUME NEW trace, NEW d PROVE MonitorHealth(trace, d) \subseteq Items
  <2>1. FlowItems(d) \subseteq Items
    BY DEF FlowItems, Warn, Items
  <2>2. (CASE trace.pe = "DARK"  -> {Warn("board_pe_dark")}
           [] trace.pe = "STALE" -> {Info("board_pe_stale")}
           [] OTHER -> {}) \subseteq Items
    BY DEF Warn, Info, Items
  <2>3. {Warn("signal_not_ok")} \subseteq Items
    BY DEF Warn, Items
  <2>. QED
    BY <1>1, <2>1, <2>2, <2>3 DEF MonitorHealth
<1>4. ASSUME NEW gold \in {"bad", "old", "some", "fresh"} PROVE WeeklyHealth(gold) \subseteq Items
  <2>1. {Warn("macro_driver_stale")} \subseteq Items /\ {Info("driver_unavailable")} \subseteq Items
    BY DEF Warn, Info, Items
  <2>. QED
    BY <1>1, <2>1 DEF WeeklyHealth
<1>. QED
  BY <1>2, <1>3, <1>4

LEMMA NotifyBounds ==
    /\ FirstNotifyDay \in Nat \ {0} /\ LastNotifyDay \in Nat /\ FirstNotifyDay <= LastNotifyDay
    /\ MaxChains \in Nat
  BY NotifyAssumption

LEMMA NotifyTypedAtFirst == NotifyInit => NotifyTypeOK
<1>. SUFFICES ASSUME NotifyInit PROVE NotifyTypeOK
  OBVIOUS
<1>1. FirstNotifyDay - 1 \in 0..LastNotifyDay /\ 0 \in 0..LastNotifyDay
  BY NotifyBounds
<1>11. nday \in NotifyDays
  <2>1. FirstNotifyDay \in FirstNotifyDay..LastNotifyDay
    BY NotifyBounds
  <2>. QED
    BY <2>1 DEF NotifyInit, NotifyDays
<1>2. newest \in [FlowSymbols -> 0..LastNotifyDay]
  BY <1>1 DEF NotifyInit
<1>3. radars \in [NotifyDays -> RadarFile] /\ flowFile = "readable"
  BY DEF NotifyInit, RadarFile
<1>4. chain \in [at : {"idle", "captured", "rotated", "told"}, rc : {0, 1, 124},
                 rotated : {"pending", "ran", "died"}, runs : 0..MaxChains]
  <2>1. chain = [at |-> "idle", rc |-> 0, rotated |-> "pending", runs |-> 0]
    BY DEF NotifyInit
  <2>2. 0 \in 0..MaxChains
    BY NotifyBounds
  <2>. QED
    BY <2>1, <2>2
<1>5. said.kind = "none" /\ said.severity = "clean" /\ said.outcome.health = {} /\ said.sent = {}
  BY DEF NotifyInit, NoPage, PlainOutcome
<1>. QED
  BY <1>11, <1>2, <1>3, <1>4, <1>5 DEF NotifyTypeOK

LEMMA NotifyTypedKept == NotifyTypeOK /\ [NotifyNext]_notifyVars => NotifyTypeOK'
<1>. SUFFICES ASSUME NotifyTypeOK, [NotifyNext]_notifyVars PROVE NotifyTypeOK'
  OBVIOUS
<1>. DEFINE Chains == [at : {"idle", "captured", "rotated", "told"}, rc : {0, 1, 124},
                       rotated : {"pending", "ran", "died"}, runs : 0..MaxChains]
            Files == /\ nday \in NotifyDays /\ radars \in [NotifyDays -> RadarFile]
                     /\ newest \in [FlowSymbols -> 0..LastNotifyDay]
                     /\ flowFile \in {"readable", "unreadable"}
            Page(s) == /\ s.kind \in {"none", "flow-capture", "monitor", "weekly"}
                       /\ s.severity \in Severities
                       /\ s.outcome.health \subseteq Items /\ s.sent \subseteq Channels
<1>i. NotifyTypeOK <=> Files /\ chain \in Chains /\ Page(said)
  BY DEF NotifyTypeOK, Severities
<1>j. NotifyTypeOK' <=> Files' /\ chain' \in Chains /\ Page(said')
  BY DEF NotifyTypeOK, Severities
<1>k. Files /\ chain \in Chains /\ Page(said)
  BY <1>i
<1>l. Page(NoPage)
  BY DEF NoPage, PlainOutcome, Severities
<1>m. /\ nday \in 0..LastNotifyDay /\ 0 \in 0..LastNotifyDay
      /\ chain.runs < MaxChains => chain.runs + 1 \in 0..MaxChains
      /\ 0 \in 0..MaxChains
  <2>1. nday \in FirstNotifyDay..LastNotifyDay
    BY <1>k DEF NotifyDays
  <2>2. chain.runs \in 0..MaxChains
    BY <1>k
  <2>. QED
    BY <2>1, <2>2, NotifyBounds
<1>. HIDE DEF Page
<1>1. CASE ChainCaptures
  <2>1. /\ UNCHANGED <<nday, radars>> /\ flowFile' \in {flowFile, "readable"} /\ said' = NoPage
        /\ chain.runs < MaxChains
        /\ chain' = [at |-> "captured", rc |-> 0, rotated |-> "pending", runs |-> chain.runs + 1]
    BY <1>1 DEF ChainCaptures
  <2>2. PICK C \in Captures \cup {{}} : newest' = [s \in FlowSymbols |->
                              IF s \in C THEN nday
                              ELSE IF flowFile = "unreadable" /\ C # {} THEN 0 ELSE newest[s]]
    BY <1>1 DEF ChainCaptures
  <2>3. newest' \in [FlowSymbols -> 0..LastNotifyDay]
    BY <1>k, <1>m, <2>2
  <2>4. chain' \in Chains
    BY <1>m, <2>1
  <2>. QED
    BY <1>j, <1>k, <1>l, <2>1, <2>3, <2>4
<1>2. CASE ChainCaptureFails
  <2>1. /\ chain.runs < MaxChains /\ said' = NoPage
        /\ UNCHANGED <<nday, radars, newest, flowFile>>
    BY <1>2 DEF ChainCaptureFails
  <2>2. chain' \in Chains
    <3>1. PICK rc \in {1, 124} : chain' = [at |-> "captured", rc |-> rc, rotated |-> "pending",
                                          runs |-> chain.runs + 1]
      BY <1>2 DEF ChainCaptureFails
    <3>2. rc \in {0, 1, 124} /\ chain.runs + 1 \in 0..MaxChains
      BY <1>m, <2>1
    <3>. QED
      BY <3>1, <3>2
  <2>. QED
    BY <1>j, <1>k, <1>l, <2>1, <2>2
<1>3. CASE ChainRotates
  <2>1. radars' \in [NotifyDays -> RadarFile]
    BY <1>3, <1>k DEF ChainRotates, RadarFile
  <2>2. chain' \in Chains
    <3>1. PICK r \in {"ran", "died"} : chain' = [chain EXCEPT !.at = "rotated", !.rotated = r]
      BY <1>3 DEF ChainRotates
    <3>2. chain' = [at |-> "rotated", rc |-> chain.rc, rotated |-> r, runs |-> chain.runs]
      BY <1>k, <3>1
    <3>3. chain.rc \in {0, 1, 124} /\ chain.runs \in 0..MaxChains
      BY <1>k
    <3>. QED
      BY <3>2, <3>3
  <2>3. said' = NoPage /\ UNCHANGED <<nday, newest, flowFile>>
    BY <1>3 DEF ChainRotates
  <2>. QED
    BY <1>j, <1>k, <1>l, <2>1, <2>2, <2>3
<1>4. CASE ChainNotifies
  <2>. DEFINE o == PlainOutcome(chain.rc, radars[nday] # "absent", FlowCaptureHealth(nday),
                               Recovered(nday))
  <2>1. /\ Say("flow-capture", o, FALSE) /\ chain' = [chain EXCEPT !.at = "told"]
        /\ UNCHANGED <<nday, radars, newest, flowFile>>
    BY <1>4 DEF ChainNotifies
  <2>2. o.health \subseteq Items
    BY HealthIsOfItems DEF PlainOutcome
  <2>3. chain' \in Chains
    BY <1>k, <2>1
  <2>. HIDE DEF o
  <2>4. Page(said')
    BY <2>1, <2>2, SaidIs DEF Page
  <2>. QED
    BY <1>j, <1>k, <2>1, <2>3, <2>4
<1>5. CASE MonitorNotifies
  <2>1. UNCHANGED <<nday, radars, newest, flowFile, chain>>
    BY <1>5, Zenon DEF MonitorNotifies
  <2>2. PICK rc \in {0, 1, 124}, written \in BOOLEAN, onClean \in BOOLEAN :
          \E trace \in [shape : {"good"}, pe : {"FRESH", "STALE", "DARK"}, signals : {"ok", "not ok"}]
                       \cup {[shape |-> "bad"]} :
              Say("monitor", PlainOutcome(rc, written, MonitorHealth(trace, nday), FALSE), onClean)
    BY <1>5, Zenon DEF MonitorNotifies
  <2>3. PICK trace \in [shape : {"good"}, pe : {"FRESH", "STALE", "DARK"}, signals : {"ok", "not ok"}]
                      \cup {[shape |-> "bad"]} :
              Say("monitor", PlainOutcome(rc, written, MonitorHealth(trace, nday), FALSE), onClean)
    BY <2>2, Zenon
  <2>4. PlainOutcome(rc, written, MonitorHealth(trace, nday), FALSE).health \subseteq Items
    <3>1. MonitorHealth(trace, nday) \subseteq Items
      BY HealthIsOfItems
    <3>. QED
      BY <3>1 DEF PlainOutcome
  <2>5. Page(said')
    BY <2>3, <2>4, SaidIs DEF Page
  <2>. QED
    BY <1>j, <1>k, <2>1, <2>5
<1>6. CASE WeeklyNotifies
  <2>1. UNCHANGED <<nday, radars, newest, flowFile, chain>>
    BY <1>6, Zenon DEF WeeklyNotifies
  <2>2. \E rc, dir, marks, report, onClean : \E gold \in {"bad", "old", "some", "fresh"} :
           \/ Say("weekly", WeeklyOutcome(rc, dir, marks, report, gold), onClean)
           \/ DieBeforeSaying("weekly", WeeklyOutcome(rc, dir, marks, report, gold))
    BY <1>6 DEF WeeklyNotifies
  <2>3. PICK rc, dir, marks, report, onClean : \E gold \in {"bad", "old", "some", "fresh"} :
           \/ Say("weekly", WeeklyOutcome(rc, dir, marks, report, gold), onClean)
           \/ DieBeforeSaying("weekly", WeeklyOutcome(rc, dir, marks, report, gold))
    BY <2>2
  <2>4. PICK gold \in {"bad", "old", "some", "fresh"} :
           \/ Say("weekly", WeeklyOutcome(rc, dir, marks, report, gold), onClean)
           \/ DieBeforeSaying("weekly", WeeklyOutcome(rc, dir, marks, report, gold))
    BY <2>3
  <2>5. WeeklyOutcome(rc, dir, marks, report, gold).health \subseteq Items
    BY HealthIsOfItems DEF WeeklyOutcome, PlainOutcome
  <2>6. Page(said')
    BY <2>4, <2>5, SaidIs DEF Page, DieBeforeSaying, Severities
  <2>. QED
    BY <1>j, <1>k, <2>1, <2>6
<1>7. CASE NotifyDayTurns
  <2>1. /\ nday < LastNotifyDay /\ nday' = nday + 1 /\ said' = NoPage
        /\ chain' = [at |-> "idle", rc |-> 0, rotated |-> "pending", runs |-> 0]
        /\ UNCHANGED <<radars, newest, flowFile>>
    BY <1>7 DEF NotifyDayTurns
  <2>2. chain' \in Chains
    BY <1>m, <2>1
  <2>3. nday' \in NotifyDays
    <3>1. nday \in FirstNotifyDay..LastNotifyDay
      BY <1>k DEF NotifyDays
    <3>2. nday' = nday + 1 /\ nday < LastNotifyDay
      BY <2>1
    <3>3. nday + 1 \in FirstNotifyDay..LastNotifyDay
      BY <3>1, <3>2, NotifyBounds
    <3>. QED
      BY <3>2, <3>3 DEF NotifyDays
  <2>. QED
    BY <1>j, <1>k, <1>l, <2>1, <2>2, <2>3
<1>8. CASE RadarGoesBad
  <2>1. radars' \in [NotifyDays -> RadarFile]
    BY <1>8, <1>k DEF RadarGoesBad, RadarFile
  <2>2. said' = NoPage /\ UNCHANGED <<nday, newest, flowFile, chain>>
    BY <1>8 DEF RadarGoesBad
  <2>. QED
    BY <1>j, <1>k, <1>l, <2>1, <2>2
<1>9. CASE FlowStoreGoesBad
  <2>1. flowFile' = "unreadable" /\ said' = NoPage /\ UNCHANGED <<nday, radars, newest, chain>>
    BY <1>9 DEF FlowStoreGoesBad
  <2>. QED
    BY <1>j, <1>k, <1>l, <2>1
<1>10. CASE UNCHANGED notifyVars
  BY <1>10, <1>j, <1>k DEF notifyVars
<1>. QED
  BY <1>1, <1>2, <1>3, <1>4, <1>5, <1>6, <1>7, <1>8, <1>9, <1>10 DEF NotifyNext

\* Whichever of the four moves, the files of the chain, of the notifier and of the
\* memo keep their shape (decision/, notify/classify.py, memo_cmd.py).
THEOREM ReportTypes == MCReportSpec => []ReportTypesOK
<1>. DEFINE Inv == /\ TypeOK /\ SheetInHand /\ NotifyTypeOK
                   /\ MemoInv /\ DraftInv
<1>1. MCReportInit => Inv
  BY TypesAtFirst, NotifyTypedAtFirst, MemoInitially, DraftInitially DEF MCReportInit
<1>2. Inv /\ [MCReportNext]_<<mover, vars, notifyVars, memoVars, goldVars>> => Inv'
  <2>. SUFFICES ASSUME Inv, [MCReportNext]_<<mover, vars, notifyVars, memoVars, goldVars>>
       PROVE Inv'
    OBVIOUS
  <2>1. [Next]_vars /\ [NotifyNext]_notifyVars /\ [MemoNext]_memoVars
    BY DEF MCReportNext
  <2>2. (TypeOK /\ SheetInHand)'
    BY <2>1, TypesKept, SheetInHandKept
  <2>3. NotifyTypeOK'
    BY <2>1, NotifyTypedKept
  <2>4. (MemoInv /\ DraftInv)'
    BY <2>1, MemoKept
  <2>. QED
    BY <2>2, <2>3, <2>4
<1>3. Inv => ReportTypesOK
  BY MemoTyped DEF ReportTypesOK
<1>. QED
  BY <1>1, <1>2, <1>3, PTL DEF MCReportSpec
=============================================================================
