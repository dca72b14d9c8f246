----------------------- MODULE OpportunityFetchProofs -----------------------
(***************************************************************************)
(* For any processes, funds, days, quarters and budgets, and whoever dies: *)
(* that the plan's lock excludes and that a fund its state file names is   *)
(* not fetched again, whether or not the day changes under a run; and,     *)
(* while it does not, that a run makes no more calls than its gate let     *)
(* through, that a credited fund is served a snapshot of the day and that  *)
(* the cache only improves.  Then of the parts that share its run, and no  *)
(* variable with it: for any holdings, weights and answers, that a fund's  *)
(* evidence carries from its snapshot to the page and the advice on it     *)
(* hangs together; for any tables, frames and failures, that ingest keeps  *)
(* its word; and for any catalogue, that discovery's sheets account for    *)
(* every fund of it.                                                       *)
(***************************************************************************)
EXTENDS MCOpportunityFetch, SumTheorems

\* First is a member of a set of numbers that has one.
LEMMA FirstIsMember ==
    ASSUME NEW S, S \subseteq Nat, S # {}
    PROVE  First(S) \in S
BY HasLeast DEF First

LEMMA FundsAreNumbers == Funds \subseteq Nat /\ Funds # {}
BY FundAssumption DEF Funds

LEMMA FirstOfSome ==
    ASSUME NEW S \in SUBSET Funds, S # {}
    PROVE  First(S) \in S
BY FundsAreNumbers, FirstIsMember

LEMMA FirstDayFirstFund == First(Funds) \in Funds /\ 1 \in Days
<1>1. First(Funds) \in Funds
  BY FirstOfSome, FundsAreNumbers
<1>2. 1 \in Days
  BY BoundAssumption DEF Days
<1> QED
  BY <1>1, <1>2

-----------------------------------------------------------------------------
(* The types the argument rests on: those of the lock, the state file and  *)
(* what a process knows of its plan.  How many calls it expects is left    *)
(* open: it is a sum over the funds.                                       *)

Places == {"idle"} \cup Waiting \cup Looping

Plan(j) == [day |-> j.day, rebuild |-> j.rebuild, credit |-> j.credit,
            items |-> j.items, planned |-> j.planned]

JobShape ==
    /\ job = [p \in Procs |-> Plan(job[p])]
    /\ \A p \in Procs : /\ job[p].day \in Days
                        /\ job[p].credit \subseteq Active
                        /\ job[p].items \subseteq Active

Shape ==
    /\ clock \in Days
    /\ pc \in [Procs -> Places]
    /\ lock \in [Days -> Procs \cup {None}]
    /\ state \in [Days -> {None} \cup SUBSET Active]
    /\ todo \in [Procs -> SUBSET Funds]
    /\ cur \in [Procs -> Funds]
    /\ JobShape

LEMMA PlanUpdate ==
    ASSUME NEW j, j = Plan(j), NEW v
    PROVE  /\ [j EXCEPT !.planned = v] = [day |-> j.day, rebuild |-> j.rebuild,
                 credit |-> j.credit, items |-> j.items, planned |-> v]
           /\ [j EXCEPT !.items = v] = [day |-> j.day, rebuild |-> j.rebuild,
                 credit |-> j.credit, items |-> v, planned |-> j.planned]
<1> DEFINE r == Plan(j)
<1>1. [r EXCEPT !.planned = v] = [day |-> r.day, rebuild |-> r.rebuild,
                 credit |-> r.credit, items |-> r.items, planned |-> v]
  BY DEF Plan
<1>2. [r EXCEPT !.items = v] = [day |-> r.day, rebuild |-> r.rebuild,
                 credit |-> r.credit, items |-> v, planned |-> r.planned]
  BY DEF Plan
<1> QED
  BY <1>1, <1>2, Zenon

\* A new plan that is one, and of the plan's day and funds, leaves the shape.
LEMMA JobUpdate ==
    ASSUME JobShape, NEW p \in Procs, NEW j, j = Plan(j), j.day \in Days,
           j.credit \subseteq Active, j.items \subseteq Active,
           job' = [job EXCEPT ![p] = j]
    PROVE  JobShape' /\ job'[p] = j /\ \A q \in Procs \ {p} : job'[q] = job[q]
<1>1. job'[p] = j /\ \A q \in Procs \ {p} : job'[q] = job[q]
  BY DEF JobShape
<1>2. job' = [q \in Procs |-> Plan(job'[q])]
  <2>1. job' = [q \in Procs |-> IF q = p THEN j ELSE job[q]]
    BY DEF JobShape
  <2>2. \A q \in Procs : job[q] = Plan(job[q])
    BY DEF JobShape
  <2>3. \A q \in Procs : job'[q] = Plan(job'[q])
    BY <1>1, <2>2, Zenon
  <2> QED
    BY <2>1, <2>3
<1> QED
  BY <1>1, <1>2 DEF JobShape

\* The gate adds what the plan is expected to cost, and nothing else.
LEMMA GatePlan ==
    ASSUME JobShape, NEW p \in Procs, NEW n, job' = [job EXCEPT ![p].planned = n]
    PROVE  /\ JobShape' /\ \A q \in Procs \ {p} : job'[q] = job[q]
           /\ \A q \in Procs : /\ job'[q].day = job[q].day
                               /\ job'[q].credit = job[q].credit
                               /\ job'[q].items = job[q].items
<1> DEFINE j == [job[p] EXCEPT !.planned = n]
<1>1. job[p] = Plan(job[p])
  BY DEF JobShape
<1>2. j = [day |-> job[p].day, rebuild |-> job[p].rebuild,
           credit |-> job[p].credit, items |-> job[p].items, planned |-> n]
  BY <1>1, PlanUpdate
<1>3. /\ j = Plan(j) /\ j.day \in Days /\ j.day = job[p].day
      /\ j.credit \subseteq Active /\ j.items \subseteq Active
      /\ j.credit = job[p].credit /\ j.items = job[p].items
  BY <1>2 DEF JobShape, Plan
<1>4. job' = [job EXCEPT ![p] = j]
  OBVIOUS
<1> HIDE DEF j
<1>5. JobShape' /\ job'[p] = j /\ \A q \in Procs \ {p} : job'[q] = job[q]
  BY <1>3, <1>4, JobUpdate
<1> QED
  BY <1>3, <1>5

\* A save adds a fund to the process's copy, and nothing else.
LEMMA SavePlan ==
    ASSUME JobShape, NEW p \in Procs, NEW items, job' = [job EXCEPT ![p].items = items]
    PROVE  /\ items \subseteq Active => JobShape'
           /\ job'[p].items = items
           /\ \A q \in Procs \ {p} : job'[q] = job[q]
           /\ \A q \in Procs : job'[q].day = job[q].day /\ job'[q].credit = job[q].credit
<1> DEFINE j == [job[p] EXCEPT !.items = items]
<1>1. job[p] = Plan(job[p])
  BY DEF JobShape
<1>2. j = [day |-> job[p].day, rebuild |-> job[p].rebuild,
           credit |-> job[p].credit, items |-> items, planned |-> job[p].planned]
  BY <1>1, PlanUpdate
<1>3. /\ j = Plan(j) /\ j.day \in Days /\ j.day = job[p].day
      /\ j.credit \subseteq Active /\ j.credit = job[p].credit /\ j.items = items
  BY <1>2 DEF JobShape, Plan
<1>4. job' = [job EXCEPT ![p] = j]
  OBVIOUS
<1>5. job'[p] = j /\ \A q \in Procs \ {p} : job'[q] = job[q]
  BY <1>4 DEF JobShape
<1> HIDE DEF j
<1>6. items \subseteq Active => JobShape'
  BY <1>3, <1>4, JobUpdate
<1> QED
  BY <1>3, <1>5, <1>6

\* Only an active fund is probed, repaired or put into the state file.
ActiveInHand ==
    \A p \in Procs : pc[p] \in {"probe", "cached", "save"} => cur[p] \in Active

\* A process in the loop holds the lock of its day.
HoldsLock == \A p \in Procs : pc[p] \in Looping => lock[job[p].day] = p

LockInv == Shape /\ ActiveInHand /\ HoldsLock

LEMMA LockInvExcludes == LockInv => OneFetcher
BY DEF LockInv, HoldsLock, OneFetcher

LEMMA InitLock == Init => LockInv
<1> SUFFICES ASSUME Init PROVE LockInv
  OBVIOUS
<1>1. First(Funds) \in Funds /\ 1 \in Days
  BY FirstDayFirstFund
<1>2. JobShape
  BY <1>1 DEF Init, JobShape, Plan, NoJob
<1> QED
  BY <1>1, <1>2 DEF Init, LockInv, Shape, Places, ActiveInHand, HoldsLock, Looping

LEMMA GoPlaces ==
    ASSUME Shape, NEW p \in Procs, NEW from, NEW to, Go(p, from, to)
    PROVE  /\ pc[p] = from /\ pc'[p] = to
           /\ \A q \in Procs \ {p} : pc'[q] = pc[q]
           /\ to \in Places => pc' \in [Procs -> Places]
BY DEF Go, Shape

\* A process that goes loses nothing but what was its own.
LEMMA LeaveLock ==
    ASSUME LockInv, NEW p \in Procs, Leave(p)
    PROVE  LockInv'
<1> USE DEF LockInv
<1>1. First(Funds) \in Funds /\ 1 \in Days
  BY FirstDayFirstFund
<1>2. JobShape'
  BY <1>1 DEF Leave, Shape, JobShape, Plan, NoJob
<1>3. Shape'
  <2>1. pc' \in [Procs -> Places]
    BY DEF Leave, Shape, Places
  <2>2. lock' \in [Days -> Procs \cup {None}]
    BY DEF Leave, Shape
  <2> QED
    BY <1>1, <1>2, <2>1, <2>2 DEF Leave, Shape
<1>4. ActiveInHand'
  BY DEF Leave, Shape, ActiveInHand
<1>5. HoldsLock'
  <2> SUFFICES ASSUME NEW q \in Procs, pc'[q] \in Looping
               PROVE  lock'[job'[q].day] = q
    BY DEF HoldsLock
  <2>1. q # p
    BY DEF Leave, Shape, Looping
  <2>2. pc'[q] = pc[q] /\ job'[q] = job[q]
    BY <2>1 DEF Leave, Shape, JobShape
  <2>3. lock[job[q].day] = q /\ job[q].day \in Days
    BY <2>2 DEF HoldsLock, Shape, JobShape
  <2> QED
    BY <2>1, <2>2, <2>3 DEF Leave
<1> QED
  BY <1>3, <1>4, <1>5

\* A step inside the loop that leaves the lock and the plan alone.
LEMMA LoopLock ==
    ASSUME LockInv, NEW p \in Procs, NEW from \in Looping, NEW to \in Looping,
           Go(p, from, to), UNCHANGED <<lock, clock, job>>,
           state' \in [Days -> {None} \cup SUBSET Active],
           todo' \in [Procs -> SUBSET Funds], cur' \in [Procs -> Funds],
           \A q \in Procs \ {p} : cur'[q] = cur[q],
           to \in {"probe", "cached", "save"} => cur'[p] \in Active
    PROVE  LockInv'
<1> USE DEF LockInv
<1>1. Shape'
  BY GoPlaces DEF Shape, JobShape, Places
<1>2. ActiveInHand'
  BY GoPlaces DEF ActiveInHand
<1>3. HoldsLock'
  BY GoPlaces DEF HoldsLock
<1> QED
  BY <1>1, <1>2, <1>3

LEMMA StepLock == LockInv /\ [Next]_vars => LockInv'
<1> SUFFICES ASSUME LockInv, [Next]_vars PROVE LockInv'
  OBVIOUS
<1> USE DEF LockInv
<1>1. ASSUME NEW p \in Procs, Begin(p) PROVE LockInv'
  <2>1. pc[p] = "idle" /\ pc'[p] = "gate" /\ pc' \in [Procs -> Places]
        /\ \A q \in Procs \ {p} : pc'[q] = pc[q]
    BY <1>1, GoPlaces DEF Begin, Places, Waiting
  <2>2. clock \in Days /\ Items(clock) \subseteq Active
    BY DEF Shape, Items
  <2>3. PICK rebuild \in BOOLEAN :
           job' = [job EXCEPT ![p] =
                     [day |-> clock, rebuild |-> rebuild, credit |-> Items(clock),
                      items |-> Items(clock), planned |-> 0]]
    BY <1>1 DEF Begin
  <2>4. JobShape' /\ \A q \in Procs \ {p} : job'[q] = job[q]
    BY <2>2, <2>3 DEF Shape, JobShape, Plan
  <2>5. Shape'
    BY <1>1, <2>1, <2>4 DEF Begin, Shape, world
  <2>6. ActiveInHand'
    BY <1>1, <2>1 DEF Begin, ActiveInHand
  <2>7. HoldsLock'
    BY <1>1, <2>1, <2>4 DEF Begin, HoldsLock, Looping, world
  <2> QED
    BY <2>5, <2>6, <2>7
<1>2. ASSUME NEW p \in Procs, Gate(p) PROVE LockInv'
  <2>1. PICK budget \in Budgets :
           \/ Leave(p)
           \/ /\ Go(p, "gate", "lock")
              /\ job' = [job EXCEPT ![p].planned = Planned(p)]
              /\ UNCHANGED <<world, todo, cur, hand, calls, turned, runs, raced, fate>>
    BY <1>2 DEF Gate
  <2>2. CASE Leave(p)
    BY <2>2, LeaveLock
  <2>3. CASE /\ Go(p, "gate", "lock")
             /\ job' = [job EXCEPT ![p].planned = Planned(p)]
             /\ UNCHANGED <<world, todo, cur, hand, calls, turned, runs, raced, fate>>
    <3>1. pc[p] = "gate" /\ pc'[p] = "lock" /\ pc' \in [Procs -> Places]
          /\ \A q \in Procs \ {p} : pc'[q] = pc[q]
      BY <2>3, GoPlaces DEF Places, Waiting
    <3>2. JobShape' /\ \A q \in Procs \ {p} : job'[q] = job[q]
      BY <2>3, GatePlan DEF Shape
    <3>3. Shape'
      BY <2>3, <3>1, <3>2 DEF Shape, world
    <3>4. ActiveInHand'
      BY <2>3, <3>1 DEF ActiveInHand
    <3>5. HoldsLock'
      BY <2>3, <3>1, <3>2 DEF HoldsLock, Looping, world
    <3> QED
      BY <3>3, <3>4, <3>5
  <2> QED
    BY <2>1, <2>2, <2>3
<1>3. ASSUME NEW p \in Procs, Lock(p) PROVE LockInv'
  <2>1. pc[p] \in Waiting /\ pc'[p] = "next" /\ pc' \in [Procs -> Places]
        /\ \A q \in Procs \ {p} : pc'[q] = pc[q]
    BY <1>3, GoPlaces DEF Lock, Places, Waiting, Looping
  <2>2. Shape'
    BY <1>3, <2>1 DEF Lock, Shape, JobShape
  <2>3. ActiveInHand'
    BY <1>3, <2>1 DEF Lock, ActiveInHand
  <2>4. HoldsLock'
    <3> SUFFICES ASSUME NEW q \in Procs, pc'[q] \in Looping
                 PROVE  lock'[job'[q].day] = q
      BY DEF HoldsLock
    <3>1. job[q].day \in Days /\ job' = job
      BY <1>3 DEF Lock, Shape, JobShape
    <3>2. CASE q = p
      BY <1>3, <3>1, <3>2 DEF Lock, Shape
    <3>3. CASE q # p
      <4>1. lock[job[q].day] = q /\ q # None
        BY <2>1, <3>3, FundAssumption DEF HoldsLock
      <4>2. job[q].day # job[p].day
        BY <1>3, <4>1 DEF Lock, Free
      <4> QED
        BY <1>3, <3>1, <4>1, <4>2 DEF Lock, Shape
    <3> QED
      BY <3>2, <3>3
  <2> QED
    BY <2>2, <2>3, <2>4
<1>4. ASSUME NEW p \in Procs, Busy(p) PROVE LockInv'
  <2>1. CASE Leave(p)
    BY <2>1, LeaveLock
  <2>2. CASE /\ Go(p, "lock", "retry")
             /\ UNCHANGED <<world, job, todo, cur, hand, calls, turned, runs, raced, fate>>
    <3>1. pc'[p] = "retry" /\ pc' \in [Procs -> Places]
          /\ \A q \in Procs \ {p} : pc'[q] = pc[q]
      BY <2>2, GoPlaces DEF Places, Waiting
    <3>2. Shape' /\ ActiveInHand'
      BY <2>2, <3>1 DEF Shape, JobShape, ActiveInHand, world
    <3>3. HoldsLock'
      BY <2>2, <3>1 DEF HoldsLock, Looping, world
    <3> QED
      BY <3>2, <3>3
  <2> QED
    BY <1>4, <2>1, <2>2 DEF Busy
<1>5. ASSUME NEW p \in Procs, NextFund(p) PROVE LockInv'
  <2> DEFINE f == First(todo[p])
  <2>1. todo[p] \in SUBSET Funds /\ f \in todo[p] /\ f \in Funds
    BY <1>5, FirstOfSome DEF NextFund, Shape
  <2>2. PICK h, to : Take(p, f, h, to) /\ to \in Looping
                     /\ (to \in {"probe", "cached", "save"} => f \in Active)
    BY <1>5 DEF NextFund, TakeCredited, TakeToBuild, TakeToProbe, TakeCached, Looping
  <2>3. /\ todo' \in [Procs -> SUBSET Funds] /\ cur' \in [Procs -> Funds]
        /\ cur'[p] = f /\ \A q \in Procs \ {p} : cur'[q] = cur[q]
    BY <2>1, <2>2 DEF Take, Shape
  <2>4. UNCHANGED <<lock, clock, job, state>> /\ Go(p, "next", to) /\ "next" \in Looping
    BY <2>2 DEF Take, world, Looping
  <2>5. state' \in [Days -> {None} \cup SUBSET Active]
    BY <2>4 DEF Shape
  <2> QED
    BY <2>2, <2>3, <2>4, <2>5, LoopLock
<1>6. ASSUME NEW p \in Procs,
             ProbeTurns(p) \/ ProbeHolds(p) \/ Repair(p) \/ NoRepair(p) \/ Build(p)
             \/ WriteCache(p) \/ EndLoop(p) \/ Unlink(p)
      PROVE  LockInv'
  <2>1. PICK from \in Looping, to \in Looping :
           /\ Go(p, from, to)
           /\ to \in {"probe", "cached", "save"} => cur[p] \in Active
    <3>1. CASE ProbeTurns(p)
      BY <3>1 DEF ProbeTurns, Looping
    <3>2. CASE ProbeHolds(p)
      BY <3>2 DEF ProbeHolds, Looping, Go, ActiveInHand
    <3>3. CASE Repair(p)
      BY <3>3 DEF Repair, Looping, Go, ActiveInHand
    <3>4. CASE NoRepair(p)
      BY <3>4 DEF NoRepair, Looping, Go, ActiveInHand
    <3>5. CASE Build(p)
      BY <3>5 DEF Build, Looping
    <3>6. CASE WriteCache(p)
      BY <3>6 DEF WriteCache, Looping
    <3>7. CASE EndLoop(p)
      BY <3>7 DEF EndLoop, Looping
    <3>8. CASE Unlink(p)
      BY <3>8 DEF Unlink, Looping
    <3> QED
      BY <1>6, <3>1, <3>2, <3>3, <3>4, <3>5, <3>6, <3>7, <3>8
  <2>2. UNCHANGED <<lock, clock, job, todo, cur>>
    BY <1>6 DEF ProbeTurns, ProbeHolds, Repair, NoRepair, Build, WriteCache, EndLoop,
                Unlink, world
  <2>3. state' \in [Days -> {None} \cup SUBSET Active]
    BY <1>6 DEF ProbeTurns, ProbeHolds, Repair, NoRepair, Build, WriteCache, EndLoop,
                Unlink, world, Shape
  <2>4. todo' \in [Procs -> SUBSET Funds] /\ cur' \in [Procs -> Funds]
    BY <2>2 DEF Shape
  <2> QED
    BY <2>1, <2>2, <2>3, <2>4, LoopLock
<1>7. ASSUME NEW p \in Procs, SaveState(p) PROVE LockInv'
  <2>1. pc[p] = "save" /\ pc'[p] = "next" /\ pc' \in [Procs -> Places]
        /\ \A q \in Procs \ {p} : pc'[q] = pc[q]
    BY <1>7, GoPlaces DEF SaveState, Places, Looping
  <2>2. cur[p] \in Active /\ job[p].items \cup {cur[p]} \subseteq Active
    BY <2>1 DEF ActiveInHand, Shape, JobShape
  <2>3. JobShape' /\ \A q \in Procs : job'[q].day = job[q].day
    BY <1>7, <2>2, SavePlan DEF SaveState, Shape
  <2>4. state' \in [Days -> {None} \cup SUBSET Active]
    BY <1>7, <2>2 DEF SaveState, Shape
  <2>5. Shape'
    BY <1>7, <2>1, <2>3, <2>4 DEF SaveState, Shape
  <2>6. ActiveInHand'
    BY <1>7, <2>1 DEF SaveState, ActiveInHand
  <2>7. HoldsLock'
    BY <1>7, <2>1, <2>3 DEF SaveState, HoldsLock, Looping
  <2> QED
    BY <2>5, <2>6, <2>7
<1>8. ASSUME NEW p \in Procs, Close(p) \/ Die(p) PROVE LockInv'
  BY <1>8, LeaveLock DEF Close, Die
<1>9. CASE Tick
  <2>1. clock' \in Days
    BY <1>9, BoundAssumption DEF Tick, Shape, Days
  <2> QED
    BY <1>9, <2>1 DEF Tick, Shape, JobShape, ActiveInHand, HoldsLock
<1>10. CASE Disclose
  BY <1>10 DEF Disclose, Shape, JobShape, ActiveInHand, HoldsLock
<1>11. CASE UNCHANGED vars
  BY <1>11 DEF vars, world, Shape, JobShape, ActiveInHand, HoldsLock
<1> QED
  BY <1>1, <1>2, <1>3, <1>4, <1>5, <1>6, <1>7, <1>8, <1>9, <1>10, <1>11
     DEF Next, Step

\* However many processes run the command, whoever dies and whatever the date
\* does, no two of them are in the loop of one plan at once.
THEOREM FetchExcludes == Spec => []OneFetcher
<1>1. Init => LockInv
  BY InitLock
<1>2. LockInv /\ [Next]_vars => LockInv'
  BY StepLock
<1>3. LockInv => OneFetcher
  BY LockInvExcludes
<1> QED
  BY <1>1, <1>2, <1>3, PTL DEF Spec

-----------------------------------------------------------------------------
(* That what is done is not done again: the copy of the state file a       *)
(* process works from is the file, because whoever changes the file holds  *)
(* the lock and marks those that wait.                                     *)

Fetching == {"probe", "cached", "build", "write", "save"}
Started  == (Waiting \cup Looping) \ {"close"}

CopyIsTheFile ==
    \A p \in Procs \ raced : pc[p] \in Started => Items(job[p].day) = job[p].items

\* A fund to come that the file names is one the process was credited.
DoneIsCredited == \A p \in Procs : job[p].items \cap todo[p] \subseteq job[p].credit

\* The fund in hand is not to come again, and not yet in the file.
HandIsNew ==
    \A p \in Procs : pc[p] \in Fetching =>
        cur[p] \notin todo[p] /\ cur[p] \notin job[p].items

FileInv == CopyIsTheFile /\ DoneIsCredited /\ HandIsNew

LEMMA FileInvSpares == FileInv => CompletedIsNotRefetched
BY DEF FileInv, CopyIsTheFile, HandIsNew, CompletedIsNotRefetched, Fetching, Started, Looping

LEMMA InitFile == Init => FileInv
BY DEF Init, FileInv, CopyIsTheFile, DoneIsCredited, HandIsNew, NoJob, Started,
       Waiting, Looping, Fetching

LEMMA LeaveFile ==
    ASSUME LockInv, FileInv, NEW p \in Procs, Leave(p)
    PROVE  FileInv'
<1>1. /\ pc'[p] = "idle" /\ job'[p] = NoJob /\ todo'[p] = {}
      /\ \A q \in Procs \ {p} :
            pc'[q] = pc[q] /\ job'[q] = job[q] /\ todo'[q] = todo[q] /\ cur'[q] = cur[q]
      /\ state' = state /\ raced' = raced \ {p}
  BY DEF Leave, LockInv, Shape, JobShape
<1>2. CopyIsTheFile'
  BY <1>1 DEF FileInv, CopyIsTheFile, Items, Started, Waiting, Looping
<1>3. DoneIsCredited'
  BY <1>1 DEF FileInv, DoneIsCredited
<1>4. HandIsNew'
  BY <1>1 DEF FileInv, HandIsNew, Fetching
<1> QED
  BY <1>2, <1>3, <1>4 DEF FileInv

\* A step that leaves the file and the plan alone.
LEMMA QuietFile ==
    ASSUME LockInv, FileInv, NEW p \in Procs, NEW from \in Started, NEW to,
           Go(p, from, to), UNCHANGED <<state, job>>, raced \subseteq raced',
           todo'[p] \subseteq todo[p],
           \A q \in Procs \ {p} : todo'[q] = todo[q] /\ cur'[q] = cur[q],
           to \in Fetching => cur'[p] \notin todo'[p] /\ cur'[p] \notin job[p].items
    PROVE  FileInv'
<1>1. pc[p] = from /\ pc'[p] = to /\ \A q \in Procs \ {p} : pc'[q] = pc[q]
  BY GoPlaces DEF LockInv
<1>2. CopyIsTheFile'
  BY <1>1 DEF FileInv, CopyIsTheFile, Items
<1>3. DoneIsCredited'
  BY DEF FileInv, DoneIsCredited
<1>4. HandIsNew'
  BY <1>1 DEF FileInv, HandIsNew
<1> QED
  BY <1>2, <1>3, <1>4 DEF FileInv

\* Whoever changes the file of a day disturbs those that wait for its lock, and
\* no other process is past it.
LEMMA NoReaderOfTheDay ==
    ASSUME LockInv, NEW p \in Procs, NEW q \in Procs \ {p}, pc[p] \in Looping,
           Disturb(p), q \notin raced', pc[q] \in Started
    PROVE  job[q].day # job[p].day /\ q \notin raced
<1>1. pc[q] \in Looping
  BY DEF Disturb, Started
<1> QED
  BY <1>1, LockInvExcludes DEF OneFetcher, Disturb

LEMMA StepFile == LockInv /\ FileInv /\ [Next]_vars => FileInv'
<1> SUFFICES ASSUME LockInv, FileInv, [Next]_vars PROVE FileInv'
  OBVIOUS
<1>1. ASSUME NEW p \in Procs, Begin(p) PROVE FileInv'
  <2>1. pc[p] = "idle" /\ pc'[p] = "gate" /\ \A q \in Procs \ {p} : pc'[q] = pc[q]
    BY <1>1, GoPlaces DEF Begin, LockInv
  <2>2. PICK rebuild \in BOOLEAN :
           job' = [job EXCEPT ![p] =
                     [day |-> clock, rebuild |-> rebuild, credit |-> Items(clock),
                      items |-> Items(clock), planned |-> 0]]
    BY <1>1 DEF Begin
  <2>3. /\ job'[p].day = clock /\ job'[p].items = Items(clock)
        /\ job'[p].credit = Items(clock)
        /\ \A q \in Procs \ {p} : job'[q] = job[q]
    BY <2>2 DEF LockInv, Shape, JobShape
  <2>4. \A q \in Procs \ {p} : todo'[q] = todo[q]
    BY <1>1 DEF Begin, LockInv, Shape
  <2>5. UNCHANGED <<state, cur, raced>>
    BY <1>1 DEF Begin, world
  <2>6. CopyIsTheFile'
    BY <2>1, <2>3, <2>5 DEF FileInv, CopyIsTheFile, Items
  <2>7. DoneIsCredited'
    BY <2>3, <2>4 DEF FileInv, DoneIsCredited
  <2>8. HandIsNew'
    BY <2>1, <2>3, <2>4, <2>5 DEF FileInv, HandIsNew, Fetching
  <2> QED
    BY <2>6, <2>7, <2>8 DEF FileInv
<1>2. ASSUME NEW p \in Procs, Gate(p) PROVE FileInv'
  <2>1. CASE Leave(p)
    BY <2>1, LeaveFile
  <2>2. CASE /\ Go(p, "gate", "lock")
             /\ job' = [job EXCEPT ![p].planned = Planned(p)]
             /\ UNCHANGED <<world, todo, cur, hand, calls, turned, runs, raced, fate>>
    <3>1. pc[p] = "gate" /\ pc'[p] = "lock" /\ \A q \in Procs \ {p} : pc'[q] = pc[q]
      BY <2>2, GoPlaces DEF LockInv
    <3>2. \A q \in Procs : /\ job'[q].day = job[q].day
                           /\ job'[q].credit = job[q].credit
                           /\ job'[q].items = job[q].items
      BY <2>2, GatePlan DEF LockInv, Shape
    <3>3. CopyIsTheFile'
      BY <2>2, <3>1, <3>2 DEF FileInv, CopyIsTheFile, Items, world, Started, Waiting
    <3>4. DoneIsCredited'
      BY <2>2, <3>2 DEF FileInv, DoneIsCredited
    <3>5. HandIsNew'
      BY <2>2, <3>1, <3>2 DEF FileInv, HandIsNew, Fetching
    <3> QED
      BY <3>3, <3>4, <3>5 DEF FileInv
  <2> QED
    BY <1>2, <2>1, <2>2 DEF Gate
<1>3. ASSUME NEW p \in Procs, Lock(p) PROVE FileInv'
  <2>1. PICK from \in Started : Go(p, from, "next")
    BY <1>3 DEF Lock, Started, Waiting
  <2>2. UNCHANGED <<state, job, todo, cur, raced>>
    BY <1>3 DEF Lock
  <2> QED
    BY <2>1, <2>2, QuietFile DEF Fetching
<1>4. ASSUME NEW p \in Procs, Busy(p) PROVE FileInv'
  <2>1. CASE Leave(p)
    BY <2>1, LeaveFile
  <2>2. CASE /\ Go(p, "lock", "retry")
             /\ UNCHANGED <<world, job, todo, cur, hand, calls, turned, runs, raced, fate>>
    BY <2>2, QuietFile DEF Fetching, Started, Waiting, world
  <2> QED
    BY <1>4, <2>1, <2>2 DEF Busy
<1>5. ASSUME NEW p \in Procs, NextFund(p) PROVE FileInv'
  <2> DEFINE f == First(todo[p])
  <2>1. f \in todo[p]
    BY <1>5, FirstOfSome DEF NextFund, LockInv, Shape
  <2>2. PICK h, to : Take(p, f, h, to) /\ (to \in Fetching => f \notin job[p].credit)
    BY <1>5 DEF NextFund, TakeCredited, TakeToBuild, TakeToProbe, TakeCached, Fetching
  <2>3. /\ todo'[p] = todo[p] \ {f} /\ cur'[p] = f
        /\ \A q \in Procs \ {p} : todo'[q] = todo[q] /\ cur'[q] = cur[q]
    BY <2>2 DEF Take, LockInv, Shape
  <2>4. to \in Fetching => cur'[p] \notin todo'[p] /\ cur'[p] \notin job[p].items
    BY <2>1, <2>2, <2>3 DEF FileInv, DoneIsCredited
  <2>5. UNCHANGED <<state, job, raced>> /\ Go(p, "next", to) /\ "next" \in Started
    BY <2>2 DEF Take, world, Started, Looping
  <2> QED
    BY <2>3, <2>4, <2>5, QuietFile
<1>6. ASSUME NEW p \in Procs,
             ProbeTurns(p) \/ ProbeHolds(p) \/ Repair(p) \/ NoRepair(p) \/ Build(p)
             \/ WriteCache(p) \/ EndLoop(p)
      PROVE  FileInv'
  <2>1. PICK from \in Started, to \in Looping :
           Go(p, from, to) /\ (to \in Fetching => from \in Fetching)
    <3>1. CASE ProbeTurns(p)
      BY <3>1 DEF ProbeTurns, Started, Looping, Fetching
    <3>2. CASE ProbeHolds(p)
      BY <3>2 DEF ProbeHolds, Started, Looping, Fetching
    <3>3. CASE Repair(p)
      BY <3>3 DEF Repair, Started, Looping, Fetching
    <3>4. CASE NoRepair(p)
      BY <3>4 DEF NoRepair, Started, Looping, Fetching
    <3>5. CASE Build(p)
      BY <3>5 DEF Build, Started, Looping, Fetching
    <3>6. CASE WriteCache(p)
      BY <3>6 DEF WriteCache, Started, Looping, Fetching
    <3>7. CASE EndLoop(p)
      BY <3>7 DEF EndLoop, Started, Looping, Fetching
    <3> QED
      BY <1>6, <3>1, <3>2, <3>3, <3>4, <3>5, <3>6, <3>7
  <2>2. UNCHANGED <<state, job, todo, cur>>
    BY <1>6 DEF ProbeTurns, ProbeHolds, Repair, NoRepair, Build, WriteCache, EndLoop, world
  <2>3. raced \subseteq raced'
    BY <1>6 DEF ProbeTurns, ProbeHolds, Repair, NoRepair, Build, WriteCache, EndLoop,
                Disturb
  <2>4. to \in Fetching => cur[p] \notin todo[p] /\ cur[p] \notin job[p].items
    BY <2>1, GoPlaces DEF FileInv, HandIsNew, LockInv
  <2> QED
    BY <2>1, <2>2, <2>3, <2>4, QuietFile
<1>7. ASSUME NEW p \in Procs, SaveState(p) PROVE FileInv'
  <2> DEFINE items == job[p].items \cup {cur[p]}
  <2>1. pc[p] = "save" /\ pc'[p] = "next" /\ \A q \in Procs \ {p} : pc'[q] = pc[q]
    BY <1>7, GoPlaces DEF SaveState, LockInv
  <2>2. /\ job'[p].items = items
        /\ \A q \in Procs : job'[q].day = job[q].day /\ job'[q].credit = job[q].credit
        /\ \A q \in Procs \ {p} : job'[q] = job[q]
    BY <1>7, SavePlan DEF SaveState, LockInv, Shape
  <2>3. /\ job[p].day \in Days /\ \A q \in Procs : job[q].day \in Days
        /\ items # None
    <3>1. cur[p] \in Active /\ job[p].items \subseteq Active
      BY <2>1 DEF LockInv, ActiveInHand, Shape, JobShape
    <3> QED
      BY <3>1, FundAssumption DEF LockInv, Shape, JobShape
  <2>4. /\ state'[job[p].day] = items
        /\ \A d \in Days \ {job[p].day} : state'[d] = state[d]
    BY <1>7, <2>3 DEF SaveState, LockInv, Shape
  <2>5. UNCHANGED <<todo, cur>> /\ Disturb(p)
    BY <1>7 DEF SaveState
  <2>6. CopyIsTheFile'
    <3> SUFFICES ASSUME NEW q \in Procs \ raced', pc'[q] \in Started
                 PROVE  Items(job[q].day)' = job'[q].items
      BY DEF CopyIsTheFile
    <3>1. CASE q = p
      BY <2>2, <2>3, <2>4, <3>1 DEF Items
    <3>2. CASE q # p
      <4>1. job[q].day # job[p].day /\ q \notin raced /\ pc[q] \in Started
        BY <2>1, <2>5, <3>2, NoReaderOfTheDay DEF Looping
      <4>2. Items(job[q].day) = job[q].items
        BY <4>1 DEF FileInv, CopyIsTheFile
      <4> QED
        BY <2>2, <2>3, <2>4, <3>2, <4>1, <4>2 DEF Items
    <3> QED
      BY <3>1, <3>2
  <2>7. DoneIsCredited'
    <3>1. cur[p] \notin todo[p]
      BY <2>1 DEF FileInv, HandIsNew, Fetching
    <3> QED
      BY <2>2, <2>5, <3>1 DEF FileInv, DoneIsCredited
  <2>8. HandIsNew'
    BY <2>1, <2>2, <2>5 DEF FileInv, HandIsNew, Fetching
  <2> QED
    BY <2>6, <2>7, <2>8 DEF FileInv
<1>8. ASSUME NEW p \in Procs, Unlink(p) PROVE FileInv'
  <2>1. pc[p] = "unlink" /\ pc'[p] = "close" /\ \A q \in Procs \ {p} : pc'[q] = pc[q]
    BY <1>8, GoPlaces DEF Unlink, LockInv
  <2>2. UNCHANGED <<job, todo, cur>> /\ Disturb(p)
    BY <1>8 DEF Unlink
  <2>3. \A q \in Procs : job[q].day \in Days
    BY DEF LockInv, Shape, JobShape
  <2>4. \A d \in Days \ {job[p].day} : state'[d] = state[d]
    BY <1>8 DEF Unlink, LockInv, Shape
  <2>5. CopyIsTheFile'
    <3> SUFFICES ASSUME NEW q \in Procs \ raced', pc'[q] \in Started
                 PROVE  Items(job[q].day)' = job'[q].items
      BY DEF CopyIsTheFile
    <3>1. q # p
      BY <2>1 DEF Started
    <3>2. job[q].day # job[p].day /\ q \notin raced /\ pc[q] \in Started
      BY <2>1, <2>2, <3>1, NoReaderOfTheDay DEF Looping
    <3>3. Items(job[q].day) = job[q].items
      BY <3>2 DEF FileInv, CopyIsTheFile
    <3> QED
      BY <2>2, <2>3, <2>4, <3>2, <3>3 DEF Items
  <2>6. DoneIsCredited' /\ HandIsNew'
    BY <2>1, <2>2 DEF FileInv, DoneIsCredited, HandIsNew, Fetching
  <2> QED
    BY <2>5, <2>6 DEF FileInv
<1>9. ASSUME NEW p \in Procs, Close(p) \/ Die(p) PROVE FileInv'
  BY <1>9, LeaveFile DEF Close, Die
<1>10. CASE Tick \/ Disclose \/ UNCHANGED vars
  BY <1>10 DEF Tick, Disclose, vars, world, FileInv, CopyIsTheFile, DoneIsCredited,
               HandIsNew, Items
<1> QED
  BY <1>1, <1>2, <1>3, <1>4, <1>5, <1>6, <1>7, <1>8, <1>9, <1>10 DEF Next, Step

\* A fund the plan has completed is not fetched again by a run that read its
\* file after it was completed, for any processes and interleaving of them.
THEOREM CompletedIsSpared == Spec => []CompletedIsNotRefetched
<1>1. Init => LockInv /\ FileInv
  BY InitLock, InitFile
<1>2. LockInv /\ FileInv /\ [Next]_vars => (LockInv /\ FileInv)'
  BY StepLock, StepFile
<1>3. LockInv /\ FileInv => CompletedIsNotRefetched
  BY FileInvSpares
<1> QED
  BY <1>1, <1>2, <1>3, PTL DEF Spec

-----------------------------------------------------------------------------
(* The rest of the types: the cache, what a process has in hand and what   *)
(* it counts.  They are inductive only with the shape of the plan and with *)
(* the fact that a snapshot is in hand when one is probed, repaired or     *)
(* written.                                                                *)

LEMMA HasGreatest ==
    ASSUME NEW n \in Nat, NEW S \in SUBSET (1..n), S # {}
    PROVE  \E q \in S : \A r \in S : r <= q
<1> DEFINE T == {n - q : q \in S}
<1>1. PICK t \in T : \A u \in T : t <= u
  <2>1. \A q \in S : n - q \in Nat
    OBVIOUS
  <2>2. T \subseteq Nat /\ T # {}
    BY <2>1
  <2> QED
    BY <2>2, HasLeast
<1>2. PICK q \in S : t = n - q
  OBVIOUS
<1>3. ASSUME NEW r \in S PROVE r <= q
  <2>1. n - r \in T
    OBVIOUS
  <2>2. t <= n - r
    BY <1>1, <2>1
  <2> QED
    BY <1>2, <2>2
<1> QED
  BY <1>3

CacheTyped ==
    /\ disclosed \in Quarters
    /\ cache \in [Funds -> [Quarters -> Entries \cup {None}]]

LEMMA LatestIsHeld ==
    ASSUME CacheTyped, NEW f \in Funds, Cached(f)
    PROVE  /\ Latest(f) \in Quarters /\ Entry(f) \in Entries
           /\ cache[f][Latest(f)] # None
           /\ \A r \in Held(f) : r <= Latest(f)
<1>1. Held(f) \in SUBSET (1..LastQuarter) /\ Held(f) # {} /\ LastQuarter \in Nat
  BY BoundAssumption DEF Held, Cached, Quarters
<1>2. \E q \in Held(f) : \A r \in Held(f) : r <= q
  BY <1>1, HasGreatest
<1>3. Latest(f) \in Held(f) /\ \A r \in Held(f) : r <= Latest(f)
  BY <1>2 DEF Latest
<1> QED
  BY <1>3 DEF Held, Entry, CacheTyped

HandThere ==
    \A p \in Procs :
        /\ pc[p] \in {"probe", "cached"} => hand[p].e # None /\ hand[p].q \in Quarters
        /\ pc[p] = "write" => hand[p].e # None

HandTyped == hand \in [Procs -> Hands] /\ HandThere

CountTyped ==
    /\ job \in [Procs -> Jobs]
    /\ calls \in [Procs -> Nat] /\ turned \in [Procs -> Nat] /\ runs \in Nat
    /\ raced \subseteq Procs
    /\ fate \in [Days -> [Active -> Fates]]

TypeInv == LockInv /\ CacheTyped /\ HandTyped /\ CountTyped

LEMMA TypeInvTypes == TypeInv => TypeOK
BY DEF TypeInv, LockInv, Shape, CacheTyped, HandTyped, CountTyped, TypeOK, Places

LEMMA NoneIsNoEntry == None \notin Entries
BY FundAssumption

LEMMA InitTypes == Init => TypeInv
<1> SUFFICES ASSUME Init PROVE TypeInv
  OBVIOUS
<1>1. LockInv
  BY InitLock
<1>2. CacheTyped
  <2>1. disclosed \in Quarters
    BY BoundAssumption DEF Init, Quarters
  <2>2. \A e \in {None} \cup {x \in Entries : x.probed = 0} :
           [q \in Quarters |-> IF q = 1 THEN e ELSE None] \in [Quarters -> Entries \cup {None}]
    OBVIOUS
  <2>3. {[q \in Quarters |-> IF q = 1 THEN e ELSE None] :
            e \in {None} \cup {x \in Entries : x.probed = 0}}
        \subseteq [Quarters -> Entries \cup {None}]
    BY <2>2
  <2>4. cache \in [Funds -> {[q \in Quarters |-> IF q = 1 THEN e ELSE None] :
                               e \in {None} \cup {x \in Entries : x.probed = 0}}]
    BY DEF Init
  <2>5. cache \in [Funds -> [Quarters -> Entries \cup {None}]]
    BY <2>3, <2>4
  <2> QED
    BY <2>1, <2>5 DEF CacheTyped
<1>3. HandTyped
  <2>1. NoHand \in Hands
    BY BoundAssumption DEF NoHand, Hands
  <2> QED
    BY <2>1 DEF Init, HandTyped, HandThere
<1>4. CountTyped
  <2>1. NoJob \in Jobs
    BY FirstDayFirstFund DEF NoJob, Jobs
  <2> QED
    BY <2>1 DEF Init, CountTyped, Fates
<1> QED
  BY <1>1, <1>2, <1>3, <1>4 DEF TypeInv

\* What a fund is expected to cost, and how many calls some of them are.
LEMMA PerActiveIsNumber == PerActive \in Nat /\ PerActive >= PerFundLevel + 1 /\ PerFundLevel = 4
BY BoundAssumption DEF PerActive, PerFundLevel

LEMMA CostIsNumber ==
    ASSUME NEW p, NEW f
    PROVE  FundCost(p, f) \in 0..PerActive
<1>1. ActiveCost(p, f) \in 0..PerActive
  BY PerActiveIsNumber DEF ActiveCost
<1>2. NavCost(p, f) \in 0..PerActive
  BY PerActiveIsNumber DEF NavCost
<1> QED
  BY <1>1, <1>2 DEF FundCost

LEMMA AheadIsFinite ==
    ASSUME NEW p, NEW F \in SUBSET Funds
    PROVE  IsFiniteSet(Ahead(p, F)) /\ Cardinality(Ahead(p, F)) \in Nat
<1>1. IsFiniteSet(Funds)
  BY FundAssumption, FS_Union DEF Funds
<1>2. IsFiniteSet(F)
  BY <1>1, FS_Subset
<1>3. IsFiniteSet(1..PerActive)
  BY PerActiveIsNumber, FS_Interval
<1>4. IsFiniteSet(F \X (1..PerActive))
  BY <1>2, <1>3, FS_Product
<1>5. Ahead(p, F) \in SUBSET (F \X (1..PerActive))
  BY DEF Ahead
<1>6. IsFiniteSet(Ahead(p, F))
  BY <1>4, <1>5, FS_Subset
<1> QED
  BY <1>6, FS_CardinalityType

LEMMA LeaveTypes ==
    ASSUME TypeInv, NEW p \in Procs, Leave(p)
    PROVE  TypeInv'
<1>1. LockInv'
  BY LeaveLock DEF TypeInv
<1>2. CacheTyped'
  BY DEF TypeInv, CacheTyped, Leave
<1>3. HandTyped'
  <2>1. NoHand \in Hands
    BY BoundAssumption DEF NoHand, Hands
  <2>2. hand' \in [Procs -> Hands]
    BY <2>1 DEF TypeInv, HandTyped, Leave
  <2>3. pc'[p] = "idle" /\ \A q \in Procs \ {p} : pc'[q] = pc[q] /\ hand'[q] = hand[q]
    BY DEF TypeInv, LockInv, Shape, HandTyped, Leave
  <2>4. HandThere'
    BY <2>3 DEF TypeInv, HandTyped, HandThere
  <2> QED
    BY <2>2, <2>4 DEF HandTyped
<1>4. CountTyped'
  <2>1. NoJob \in Jobs
    BY FirstDayFirstFund DEF NoJob, Jobs
  <2> QED
    BY <2>1 DEF TypeInv, CountTyped, Leave
<1> QED
  BY <1>1, <1>2, <1>3, <1>4 DEF TypeInv

\* A step that changes neither the cache nor what is in hand and what is
\* known of the plan.
LEMMA QuietTypes ==
    ASSUME TypeInv, LockInv', NEW p \in Procs, NEW from, NEW to, Go(p, from, to),
           UNCHANGED <<disclosed, cache, hand, job, calls, turned, runs, fate>>,
           raced' \subseteq Procs,
           to \notin {"probe", "cached", "write"}
    PROVE  TypeInv'
<1>1. pc'[p] = to /\ \A q \in Procs \ {p} : pc'[q] = pc[q]
  BY GoPlaces DEF TypeInv, LockInv
<1>2. CacheTyped'
  BY DEF TypeInv, CacheTyped
<1>3. HandTyped'
  BY <1>1 DEF TypeInv, HandTyped, HandThere
<1>4. CountTyped'
  BY DEF TypeInv, CountTyped
<1> QED
  BY <1>2, <1>3, <1>4 DEF TypeInv

LEMMA DisturbTyped ==
    ASSUME raced \subseteq Procs, NEW p, Disturb(p)
    PROVE  raced' \subseteq Procs
BY DEF Disturb

LEMMA PutTyped ==
    ASSUME CacheTyped, NEW f, NEW q, NEW e \in Entries, Put(f, q, e), UNCHANGED disclosed
    PROVE  CacheTyped'
BY DEF CacheTyped, Put

LEMMA EndedTyped ==
    ASSUME fate \in [Days -> [Active -> Fates]], NEW p, NEW how \in Fates, Ended(p, how)
    PROVE  fate' \in [Days -> [Active -> Fates]]
BY DEF Ended

LEMMA StepTypes == TypeInv /\ [Next]_vars => TypeInv'
<1> SUFFICES ASSUME TypeInv, [Next]_vars PROVE TypeInv'
  OBVIOUS
<1> LockInv'
  BY StepLock DEF TypeInv
<1>1. ASSUME NEW p \in Procs, Begin(p) PROVE TypeInv'
  <2>1. PICK rebuild \in BOOLEAN :
           job' = [job EXCEPT ![p] =
                     [day |-> clock, rebuild |-> rebuild, credit |-> Items(clock),
                      items |-> Items(clock), planned |-> 0]]
    BY <1>1 DEF Begin
  <2>2. clock \in Days /\ Items(clock) \subseteq Active
    BY DEF TypeInv, LockInv, Shape, Items
  <2>3. job' \in [Procs -> Jobs]
    BY <2>1, <2>2 DEF TypeInv, CountTyped, Jobs
  <2>4. CountTyped'
    BY <1>1, <2>3 DEF Begin, TypeInv, CountTyped
  <2>5. pc'[p] = "gate" /\ \A q \in Procs \ {p} : pc'[q] = pc[q]
    BY <1>1, GoPlaces DEF Begin, TypeInv, LockInv
  <2>6. HandTyped' /\ CacheTyped'
    BY <1>1, <2>5 DEF Begin, TypeInv, HandTyped, HandThere, CacheTyped, world
  <2> QED
    BY <2>4, <2>6 DEF TypeInv
<1>2. ASSUME NEW p \in Procs, Gate(p) PROVE TypeInv'
  <2>1. CASE Leave(p)
    BY <2>1, LeaveTypes
  <2>2. CASE /\ Go(p, "gate", "lock")
             /\ job' = [job EXCEPT ![p].planned = Planned(p)]
             /\ UNCHANGED <<world, todo, cur, hand, calls, turned, runs, raced, fate>>
    <3>1. Planned(p) \in Nat
      BY AheadIsFinite DEF Planned
    <3>2. job' \in [Procs -> Jobs]
      BY <2>2, <3>1 DEF TypeInv, CountTyped, Jobs
    <3>3. pc'[p] = "lock" /\ \A q \in Procs \ {p} : pc'[q] = pc[q]
      BY <2>2, GoPlaces DEF TypeInv, LockInv
    <3>4. HandTyped' /\ CacheTyped'
      BY <2>2, <3>3 DEF TypeInv, HandTyped, HandThere, CacheTyped, world
    <3>5. CountTyped'
      BY <2>2, <3>2 DEF TypeInv, CountTyped
    <3> QED
      BY <3>4, <3>5 DEF TypeInv
  <2> QED
    BY <1>2, <2>1, <2>2 DEF Gate
<1>3. ASSUME NEW p \in Procs, Lock(p) PROVE TypeInv'
  BY <1>3, QuietTypes DEF Lock, TypeInv, CountTyped
<1>4. ASSUME NEW p \in Procs, Busy(p) PROVE TypeInv'
  BY <1>4, QuietTypes, LeaveTypes DEF Busy, world, TypeInv, CountTyped
<1>5. ASSUME NEW p \in Procs, NextFund(p) PROVE TypeInv'
  <2> DEFINE f == First(todo[p])
  <2>1. f \in Funds
    BY <1>5, FirstOfSome DEF NextFund, TypeInv, LockInv, Shape
  <2>2. /\ NoHand \in Hands
        /\ \A how \in {"credited", "cached"} : Loaded(f, how) \in Hands
    <3>1. NoHand \in Hands
      BY BoundAssumption DEF NoHand, Hands
    <3>2. ASSUME NEW how \in {"credited", "cached"}, Cached(f) PROVE Loaded(f, how) \in Hands
      <4>1. Latest(f) \in Quarters /\ Entry(f) \in Entries
        BY <2>1, <3>2, LatestIsHeld DEF TypeInv
      <4>2. Latest(f) \in 0..LastQuarter
        BY <4>1 DEF Quarters
      <4> QED
        BY <3>2, <4>1, <4>2 DEF Loaded, Hands
    <3>3. ASSUME NEW how \in {"credited", "cached"}, ~Cached(f) PROVE Loaded(f, how) \in Hands
      BY <3>3, BoundAssumption DEF Loaded, Hands
    <3> QED
      BY <3>1, <3>2, <3>3
  <2>3. PICK h \in Hands, to \in Looping :
           /\ Take(p, f, h, to)
           /\ to # "write"
           /\ to \in {"probe", "cached"} => Cached(f) /\ h = Loaded(f, "cached")
    <3>1. CASE TakeCredited(p, f)
      BY <2>2, <3>1 DEF TakeCredited, Looping
    <3>2. CASE TakeToBuild(p, f)
      BY <2>2, <3>2 DEF TakeToBuild, Looping
    <3>3. CASE TakeToProbe(p, f)
      BY <2>2, <3>3 DEF TakeToProbe, Usable, Looping
    <3>4. CASE TakeCached(p, f)
      BY <2>2, <3>4 DEF TakeCached, Usable, Looping
    <3> QED
      BY <1>5, <3>1, <3>2, <3>3, <3>4 DEF NextFund
  <2>4. hand'[p] = h /\ \A q \in Procs \ {p} : hand'[q] = hand[q]
    BY <2>3 DEF Take, TypeInv, HandTyped
  <2>5. pc'[p] = to /\ \A q \in Procs \ {p} : pc'[q] = pc[q]
    BY <2>3, GoPlaces DEF Take, TypeInv, LockInv
  <2>6. to \in {"probe", "cached"} => h.e # None /\ h.q \in Quarters
    BY <2>1, <2>3, LatestIsHeld, NoneIsNoEntry DEF TypeInv, Loaded
  <2>7. hand' \in [Procs -> Hands]
    BY <2>3 DEF Take, TypeInv, HandTyped
  <2>8. HandThere'
    BY <2>3, <2>4, <2>5, <2>6 DEF TypeInv, HandTyped, HandThere
  <2>9. CacheTyped' /\ CountTyped'
    BY <2>3 DEF Take, world, TypeInv, CacheTyped, CountTyped
  <2> QED
    BY <2>7, <2>8, <2>9 DEF TypeInv, HandTyped
<1>6. ASSUME NEW p \in Procs, ProbeTurns(p) PROVE TypeInv'
  <2>1. pc'[p] = "build" /\ \A q \in Procs \ {p} : pc'[q] = pc[q]
    BY <1>6, GoPlaces DEF ProbeTurns, TypeInv, LockInv
  <2>2. HandTyped' /\ CacheTyped'
    BY <1>6, <2>1 DEF ProbeTurns, TypeInv, HandTyped, HandThere, CacheTyped, world
  <2>3. CountTyped'
    BY <1>6 DEF ProbeTurns, Cost, TypeInv, CountTyped
  <2> QED
    BY <2>2, <2>3 DEF TypeInv
<1>7. ASSUME NEW p \in Procs, ProbeHolds(p) PROVE TypeInv'
  <2> DEFINE e == [hand[p].e EXCEPT !.probed = job[p].day]
  <2>1. pc[p] = "probe" /\ pc'[p] = "cached" /\ \A q \in Procs \ {p} : pc'[q] = pc[q]
    BY <1>7, GoPlaces DEF ProbeHolds, TypeInv, LockInv
  <2>2. hand[p] \in Hands /\ hand[p].e \in Entries /\ hand[p].q \in Quarters
    BY <2>1 DEF TypeInv, HandTyped, HandThere, Hands
  <2>3. job[p].day \in 0..LastDay
    BY DEF TypeInv, LockInv, Shape, JobShape, Days
  <2>4. e \in Entries
    BY <2>2, <2>3 DEF Entries
  <2>5. \/ Put(cur[p], hand[p].q, e) /\ hand' = [hand EXCEPT ![p].e = e] /\ Disturb(p)
        \/ UNCHANGED <<cache, hand, raced>>
    BY <1>7 DEF ProbeHolds
  <2>6. UNCHANGED <<disclosed, job, turned, runs, fate>> /\ Cost(p, 1)
    BY <1>7 DEF ProbeHolds
  <2> HIDE DEF e
  <2>7. CacheTyped'
    BY <2>4, <2>5, <2>6, PutTyped DEF TypeInv, CacheTyped
  <2>8. raced' \subseteq Procs
    BY <2>5, DisturbTyped DEF TypeInv, CountTyped
  <2>9. CountTyped'
    BY <2>6, <2>8 DEF TypeInv, CountTyped, Cost
  <2>10. HandTyped'
    <3>1. CASE hand' = [hand EXCEPT ![p].e = e]
      <4>1. hand'[p].e = e /\ hand'[p].q = hand[p].q /\ hand'[p] \in Hands
        BY <2>2, <2>4, <3>1 DEF TypeInv, HandTyped, Hands
      <4>2. \A q \in Procs \ {p} : hand'[q] = hand[q]
        BY <3>1 DEF TypeInv, HandTyped
      <4>3. hand' \in [Procs -> Hands]
        BY <3>1, <4>1, <4>2 DEF TypeInv, HandTyped
      <4> QED
        BY <2>1, <2>2, <2>4, <4>1, <4>2, <4>3, NoneIsNoEntry DEF TypeInv, HandTyped, HandThere
    <3>2. CASE hand' = hand
      BY <2>1, <2>2, <3>2, NoneIsNoEntry DEF TypeInv, HandTyped, HandThere
    <3> QED
      BY <2>5, <3>1, <3>2
  <2> QED
    BY <2>7, <2>9, <2>10 DEF TypeInv
<1>8. ASSUME NEW p \in Procs, Repair(p) PROVE TypeInv'
  <2>1. pc[p] = "cached" /\ pc'[p] = "save" /\ \A q \in Procs \ {p} : pc'[q] = pc[q]
    BY <1>8, GoPlaces DEF Repair, TypeInv, LockInv
  <2>2. hand[p] \in Hands /\ hand[p].e \in Entries
    BY <2>1 DEF TypeInv, HandTyped, HandThere, Hands
  <2>3. PICK fresh \in SUBSET Legs :
           LET e == [hand[p].e EXCEPT !.legs = Merged(@, fresh)]
           IN  /\ hand' = [hand EXCEPT ![p].e = e]
               /\ \/ fresh # {} /\ Put(cur[p], hand[p].q, e) /\ Disturb(p)
                  \/ UNCHANGED <<cache, raced>>
    BY <1>8 DEF Repair
  <2> DEFINE e == [hand[p].e EXCEPT !.legs = Merged(@, fresh)]
  <2>4. e \in Entries
    BY <2>2 DEF Entries, Merged
  <2>5. /\ hand' = [hand EXCEPT ![p].e = e]
        /\ \/ Put(cur[p], hand[p].q, e) /\ Disturb(p)
           \/ UNCHANGED <<cache, raced>>
    BY <2>3
  <2> HIDE DEF e
  <2>6. UNCHANGED <<disclosed, job, turned, runs, fate>> /\ Cost(p, PerFundLevel)
    BY <1>8 DEF Repair
  <2>7. CacheTyped'
    BY <2>4, <2>5, <2>6, PutTyped DEF TypeInv, CacheTyped
  <2>8. raced' \subseteq Procs
    BY <2>5, DisturbTyped DEF TypeInv, CountTyped
  <2>9. CountTyped'
    BY <2>6, <2>8, PerActiveIsNumber DEF TypeInv, CountTyped, Cost
  <2>10. hand'[p] \in Hands /\ \A q \in Procs \ {p} : hand'[q] = hand[q]
    BY <2>2, <2>4, <2>5 DEF TypeInv, HandTyped, Hands
  <2>11. hand' \in [Procs -> Hands]
    BY <2>5, <2>10 DEF TypeInv, HandTyped
  <2>12. HandTyped'
    BY <2>1, <2>10, <2>11 DEF TypeInv, HandTyped, HandThere
  <2> QED
    BY <2>7, <2>9, <2>12 DEF TypeInv
<1>9. ASSUME NEW p \in Procs, NoRepair(p) \/ EndLoop(p) \/ Unlink(p) PROVE TypeInv'
  <2>1. raced' \subseteq Procs
    BY <1>9, DisturbTyped DEF NoRepair, EndLoop, Unlink, TypeInv, CountTyped
  <2> QED
    BY <1>9, <2>1, QuietTypes DEF NoRepair, EndLoop, Unlink, world
<1>10. ASSUME NEW p \in Procs, Build(p) PROVE TypeInv'
  <2>1. pc'[p] = "write" /\ \A q \in Procs \ {p} : pc'[q] = pc[q]
    BY <1>10, GoPlaces DEF Build, TypeInv, LockInv
  <2>2. PICK q \in {0, disclosed}, gap \in BOOLEAN, legs \in SUBSET Legs :
           hand' = [hand EXCEPT ![p] =
                      [e |-> [gap |-> gap, legs |-> legs, probed |-> job[p].day],
                       q |-> q, how |-> "built"]]
    <3>1. CASE cur[p] \in Active /\ cur[p] \in Foreign
      BY <1>10, <3>1 DEF Build
    <3>2. CASE cur[p] \in Active /\ cur[p] \notin Foreign
      BY <1>10, <3>2 DEF Build
    <3>3. CASE cur[p] \notin Active /\ cur[p] \in Foreign
      BY <1>10, <3>3 DEF Build
    <3>4. CASE cur[p] \notin Active /\ cur[p] \notin Foreign
      BY <1>10, <3>4 DEF Build
    <3> QED
      BY <3>1, <3>2, <3>3, <3>4
  <2> DEFINE e == [gap |-> gap, legs |-> legs, probed |-> job[p].day]
  <2>3. e \in Entries
    BY DEF TypeInv, LockInv, Shape, JobShape, Days, Entries
  <2>4. q \in 0..LastQuarter
    BY BoundAssumption DEF TypeInv, CacheTyped, Quarters
  <2>5. hand' = [hand EXCEPT ![p] = [e |-> e, q |-> q, how |-> "built"]]
    BY <2>2
  <2> HIDE DEF e
  <2>6. [e |-> e, q |-> q, how |-> "built"] \in Hands
    BY <2>3, <2>4 DEF Hands
  <2>7. hand' \in [Procs -> Hands]
    BY <2>5, <2>6 DEF TypeInv, HandTyped
  <2>8. hand'[p].e = e /\ \A r \in Procs \ {p} : hand'[r] = hand[r]
    BY <2>5 DEF TypeInv, HandTyped
  <2>9. HandTyped'
    BY <2>1, <2>3, <2>7, <2>8, NoneIsNoEntry DEF TypeInv, HandTyped, HandThere
  <2>10. CacheTyped'
    BY <1>10 DEF Build, world, TypeInv, CacheTyped
  <2>11. CountTyped'
    BY <1>10, PerActiveIsNumber DEF Build, Cost, TypeInv, CountTyped
  <2> QED
    BY <2>9, <2>10, <2>11 DEF TypeInv
<1>11. ASSUME NEW p \in Procs, WriteCache(p) PROVE TypeInv'
  <2>1. pc[p] = "write" /\ pc'[p] \in {"save", "next"} /\ \A q \in Procs \ {p} : pc'[q] = pc[q]
    BY <1>11, GoPlaces DEF WriteCache, TypeInv, LockInv
  <2>2. hand[p].e \in Entries
    BY <2>1 DEF TypeInv, HandTyped, HandThere, Hands
  <2>3. \/ Put(cur[p], hand[p].q, hand[p].e) /\ Disturb(p) /\ Ended(p, "kept")
        \/ UNCHANGED <<cache, raced>> /\ Ended(p, "lost")
    BY <1>11 DEF WriteCache
  <2>4. UNCHANGED <<disclosed, job, hand, calls, turned, runs>>
    BY <1>11 DEF WriteCache
  <2>5. CacheTyped'
    BY <2>2, <2>3, <2>4, PutTyped DEF TypeInv, CacheTyped
  <2>6. raced' \subseteq Procs
    BY <2>3, DisturbTyped DEF TypeInv, CountTyped
  <2>7. fate' \in [Days -> [Active -> Fates]]
    BY <2>3, EndedTyped DEF TypeInv, CountTyped, Fates
  <2>8. CountTyped'
    BY <2>4, <2>6, <2>7 DEF TypeInv, CountTyped
  <2>9. HandTyped'
    BY <2>1, <2>4 DEF TypeInv, HandTyped, HandThere
  <2> QED
    BY <2>5, <2>8, <2>9 DEF TypeInv
<1>12. ASSUME NEW p \in Procs, SaveState(p) PROVE TypeInv'
  <2>1. pc[p] = "save" /\ pc'[p] = "next" /\ \A q \in Procs \ {p} : pc'[q] = pc[q]
    BY <1>12, GoPlaces DEF SaveState, TypeInv, LockInv
  <2>2. job[p].items \cup {cur[p]} \in SUBSET Active
    BY <2>1 DEF TypeInv, LockInv, ActiveInHand, Shape, JobShape
  <2>3. job' \in [Procs -> Jobs]
    BY <1>12, <2>2 DEF SaveState, TypeInv, CountTyped, Jobs
  <2>4. raced' \subseteq Procs
    BY <1>12, DisturbTyped DEF SaveState, TypeInv, CountTyped
  <2>5. CountTyped'
    BY <1>12, <2>3, <2>4 DEF SaveState, TypeInv, CountTyped
  <2>6. NoHand \in Hands
    BY BoundAssumption DEF NoHand, Hands
  <2>7. hand' \in [Procs -> Hands] /\ \A q \in Procs \ {p} : hand'[q] = hand[q]
    BY <1>12, <2>6 DEF SaveState, TypeInv, HandTyped
  <2>8. HandTyped'
    BY <2>1, <2>7 DEF TypeInv, HandTyped, HandThere
  <2>9. CacheTyped'
    BY <1>12 DEF SaveState, TypeInv, CacheTyped
  <2> QED
    BY <2>5, <2>8, <2>9 DEF TypeInv
<1>13. ASSUME NEW p \in Procs, Close(p) \/ Die(p) PROVE TypeInv'
  BY <1>13, LeaveTypes DEF Close, Die
<1>14. CASE Tick \/ UNCHANGED vars
  BY <1>14 DEF Tick, vars, world, TypeInv, CacheTyped, HandTyped, HandThere, CountTyped
<1>15. CASE Disclose
  <2>1. disclosed' \in Quarters
    BY <1>15, BoundAssumption DEF Disclose, TypeInv, CacheTyped, Quarters
  <2> QED
    BY <1>15, <2>1 DEF Disclose, TypeInv, CacheTyped, HandTyped, HandThere, CountTyped
<1> QED
  BY <1>1, <1>2, <1>3, <1>4, <1>5, <1>6, <1>7, <1>8, <1>9, <1>10, <1>11, <1>12,
     <1>13, <1>14, <1>15 DEF Next, Step

\* Every variable of the fetch engine keeps to its type.
THEOREM FetchTypes == Spec => []TypeOK
BY InitTypes, StepTypes, TypeInvTypes, PTL DEF Spec

-----------------------------------------------------------------------------
(* The calls.  While the date does not change under a run, the runs that   *)
(* are in hand are of one day, so one process at a time is in the loop,    *)
(* and what the gate has counted stays what it was until the process comes *)
(* to it: the calls made, the ones the fund in hand still needs and the    *)
(* ones ahead are never more than the plan.                                *)

OfToday == \A p \in Procs : pc[p] # "idle" => job[p].day = clock

FreshStart ==
    \A p \in Procs :
        /\ pc[p] \in Waiting \cup {"idle"} => calls[p] = 0 /\ turned[p] = 0
        /\ pc[p] \in Waiting => todo[p] = Funds

RepairCost(p) == IF LegMissing(cur[p], hand[p].e) THEN PerFundLevel ELSE 0

\* What the fund in hand may still take.
Due(p) == IF pc[p] = "probe" THEN 1 + RepairCost(p)
          ELSE IF pc[p] = "cached" THEN RepairCost(p)
          ELSE IF pc[p] = "build"
               THEN IF cur[p] \in Active THEN PerActive ELSE PerFundLevel
               ELSE 0

InPlan(p) ==
    calls[p] + Due(p) + Cardinality(Ahead(p, todo[p]))
        <= job[p].planned + PerActive * turned[p]

PlanHolds ==
    \A p \in Procs \ raced : pc[p] \in Looping \cup {"lock", "retry"} => InPlan(p)

CallInv == OfToday /\ FreshStart /\ PlanHolds

LEMMA DueIsNumber == \A p : Due(p) \in Nat
BY PerActiveIsNumber DEF Due, RepairCost

LEMMA CallInvIsWithinPlan == TypeInv /\ CallInv => CallsWithinPlan
<1> SUFFICES ASSUME TypeInv, CallInv, NEW p \in Procs \ raced, pc[p] \in Looping
             PROVE  calls[p] <= job[p].planned + PerActive * turned[p]
  BY DEF CallsWithinPlan
<1> DEFINE n == Cardinality(Ahead(p, todo[p]))
<1> DEFINE b == job[p].planned + PerActive * turned[p]
<1>1. n \in Nat
  BY AheadIsFinite DEF TypeInv, LockInv, Shape
<1>2. calls[p] \in Nat /\ job[p].planned \in Nat /\ turned[p] \in Nat
  BY DEF TypeInv, CountTyped, Jobs
<1>3. b \in Nat
  BY <1>2, PerActiveIsNumber
<1>4. calls[p] + Due(p) + n <= b
  BY DEF CallInv, PlanHolds, InPlan
<1> HIDE DEF n, b
<1>5. calls[p] <= b
  BY <1>1, <1>2, <1>3, <1>4, DueIsNumber
<1> QED
  BY <1>5 DEF b

\* The calls ahead for a fund are as many as it costs, and come off together.
LEMMA AheadTaken ==
    ASSUME NEW p, NEW F \in SUBSET Funds, NEW f \in F
    PROVE  Cardinality(Ahead(p, F)) = Cardinality(Ahead(p, F \ {f})) + FundCost(p, f)
<1> DEFINE c == FundCost(p, f)
           own == {<<f, i>> : i \in 1..c}
           rest == Ahead(p, F \ {f})
<1>1. c \in Nat /\ c <= PerActive /\ PerActive \in Nat
  BY CostIsNumber, PerActiveIsNumber
<1>2. IsFiniteSet(1..c) /\ Cardinality(1..c) = c
  BY <1>1, FS_Interval
<1>3. IsFiniteSet(own) /\ Cardinality(own) = c
  <2> DEFINE g == [i \in 1..c |-> <<f, i>>]
  <2>1. g \in Bijection(1..c, own)
    <3>1. g \in [1..c -> own]
      OBVIOUS
    <3>2. \A i, j \in 1..c : g[i] = g[j] => i = j
      OBVIOUS
    <3>3. \A x \in own : \E i \in 1..c : g[i] = x
      OBVIOUS
    <3> QED
      BY <3>1, <3>2, <3>3 DEF Bijection, Injection, Surjection, IsInjective
  <2>2. ExistsBijection(1..c, own)
    BY <2>1, Zenon DEF ExistsBijection
  <2> QED
    BY <1>2, <2>2, FS_Bijection
<1>4. Ahead(p, F) = rest \cup own
  <2>1. ASSUME NEW x \in Ahead(p, F) PROVE x \in rest \cup own
    <3>1. x \in F \X (1..PerActive) /\ x[2] <= FundCost(p, x[1])
      BY <2>1 DEF Ahead
    <3>2. CASE x[1] = f
      <4>1. x = <<f, x[2]>> /\ x[2] \in 1..c
        BY <1>1, <3>1, <3>2
      <4> QED
        BY <4>1
    <3>3. CASE x[1] # f
      BY <3>1, <3>3 DEF Ahead
    <3> QED
      BY <3>2, <3>3
  <2>2. ASSUME NEW x \in rest PROVE x \in Ahead(p, F)
    BY <2>2 DEF Ahead
  <2>3. ASSUME NEW i \in 1..c PROVE <<f, i>> \in Ahead(p, F)
    BY <1>1, <2>3 DEF Ahead
  <2> QED
    BY <2>1, <2>2, <2>3
<1>5. rest \cap own = {}
  BY DEF Ahead
<1>6. IsFiniteSet(rest) /\ Cardinality(rest) \in Nat
  <2>1. F \ {f} \in SUBSET Funds
    OBVIOUS
  <2> QED
    BY <2>1, AheadIsFinite
<1> HIDE DEF own, rest
<1>7. Cardinality(rest \cup own) = Cardinality(rest) + Cardinality(own) - Cardinality({})
  BY <1>3, <1>5, <1>6, FS_Union
<1>8. Cardinality({}) = 0
  BY FS_EmptySet
<1> HIDE DEF c
<1>9. Cardinality(Ahead(p, F)) = Cardinality(rest) + c
  BY <1>1, <1>3, <1>4, <1>6, <1>7, <1>8
<1> QED
  BY <1>9 DEF rest, c

LEMMA AheadOfNone == \A p : Cardinality(Ahead(p, {})) = 0
<1>1. \A p : Ahead(p, {}) = {}
  BY DEF Ahead
<1> QED
  BY <1>1, FS_EmptySet

\* The calls ahead stay the same while the funds to come keep their snapshots.
LEMMA AheadSame ==
    ASSUME NEW p, NEW F, \A f \in F : cache'[f] = cache[f],
           job'[p].day = job[p].day, job'[p].rebuild = job[p].rebuild,
           job'[p].credit = job[p].credit
    PROVE  Ahead(p, F)' = Ahead(p, F)
<1>1. ASSUME NEW f \in F PROVE FundCost(p, f)' = FundCost(p, f)
  <2>1. Held(f)' = Held(f)
    BY <1>1 DEF Held
  <2>2. Latest(f)' = Latest(f)
    BY <2>1 DEF Latest
  <2>3. Cached(f)' = Cached(f)
    BY <2>1 DEF Cached
  <2>4. Entry(f)' = Entry(f)
    BY <1>1, <2>2 DEF Entry
  <2>5. ActiveCost(p, f)' = ActiveCost(p, f)
    BY <2>3, <2>4 DEF ActiveCost, Stale, LegMissing
  <2>6. NavCost(p, f)' = NavCost(p, f)
    BY <2>3, <2>4 DEF NavCost, Stale
  <2> QED
    BY <2>5, <2>6 DEF FundCost
<1>2. \A c \in F \X (1..PerActive) : FundCost(p, c[1])' = FundCost(p, c[1])
  BY <1>1
<1> QED
  BY <1>2 DEF Ahead

\* No other process is in the loop.
LEMMA Alone ==
    ASSUME LockInv, OfToday, NEW p \in Procs, NEW q \in Procs,
           pc[p] \in Looping, pc[q] \in Looping
    PROVE  p = q
<1>1. pc[p] # "idle" /\ pc[q] # "idle"
  BY DEF Looping
<1>2. job[p].day = job[q].day
  BY <1>1 DEF OfToday
<1> QED
  BY <1>2, LockInvExcludes DEF OneFetcher

\* A process is as it was, and the cache is, too, unless the process is marked.
LEMMA OtherInPlan ==
    ASSUME TypeInv, CallInv, NEW q \in Procs \ raced,
           pc[q] \in Looping \cup {"lock", "retry"},
           pc'[q] = pc[q], job'[q] = job[q], todo'[q] = todo[q], cur'[q] = cur[q],
           hand'[q] = hand[q], calls'[q] = calls[q], turned'[q] = turned[q],
           cache' = cache
    PROVE  InPlan(q)'
<1>1. Ahead(q, todo[q])' = Ahead(q, todo[q])
  BY AheadSame
<1>2. Due(q)' = Due(q)
  BY DEF Due, RepairCost, LegMissing
<1>3. InPlan(q)
  BY DEF CallInv, PlanHolds
<1> QED
  BY <1>1, <1>2, <1>3 DEF InPlan

\* A step of a process touches nothing that is another one's.
Acts(p) == Begin(p) \/ Step(p) \/ Die(p)

LEMMA OthersKept ==
    ASSUME TypeInv, NEW p \in Procs, NEW q \in Procs \ {p}, Acts(p)
    PROVE  /\ pc'[q] = pc[q] /\ job'[q] = job[q] /\ todo'[q] = todo[q]
           /\ cur'[q] = cur[q] /\ hand'[q] = hand[q]
           /\ calls'[q] = calls[q] /\ turned'[q] = turned[q]
<1> USE DEF TypeInv, LockInv, Shape, HandTyped, CountTyped
<1>1. CASE Leave(p)
  BY <1>1 DEF Leave
<1>2. CASE Begin(p)
  BY <1>2 DEF Begin, Go
<1>3. CASE Gate(p) /\ ~Leave(p)
  BY <1>3 DEF Gate, Go
<1>4. CASE Lock(p)
  BY <1>4 DEF Lock, Go
<1>5. CASE Busy(p) /\ ~Leave(p)
  BY <1>5 DEF Busy, Go
<1>6. CASE NextFund(p)
  <2>1. PICK f, h, to : Take(p, f, h, to)
    BY <1>6 DEF NextFund, TakeCredited, TakeToBuild, TakeToProbe, TakeCached
  <2> QED
    BY <2>1 DEF Take, Go
<1>7. CASE ProbeTurns(p)
  BY <1>7 DEF ProbeTurns, Go, Cost
<1>8. CASE ProbeHolds(p)
  BY <1>8 DEF ProbeHolds, Go, Cost
<1>9. CASE Repair(p)
  BY <1>9 DEF Repair, Go, Cost
<1>10. CASE NoRepair(p) \/ EndLoop(p) \/ Unlink(p)
  BY <1>10 DEF NoRepair, EndLoop, Unlink, Go
<1>11. CASE Build(p)
  BY <1>11 DEF Build, Go, Cost
<1>12. CASE WriteCache(p)
  BY <1>12 DEF WriteCache, Go
<1>13. CASE SaveState(p)
  BY <1>13 DEF SaveState, Go
<1> QED
  BY <1>1, <1>2, <1>3, <1>4, <1>5, <1>6, <1>7, <1>8, <1>9, <1>10, <1>11, <1>12, <1>13
     DEF Acts, Step, Die, Close, Gate, Busy

\* Whoever writes the cache is in the loop, and marks those that wait.
LEMMA CacheWriter ==
    ASSUME NEW p \in Procs, Acts(p)
    PROVE  \/ cache' = cache
           \/ pc[p] \in Looping /\ Disturb(p) /\ \E e : Put(cur[p], hand[p].q, e)
<1>1. CASE Leave(p)
  BY <1>1 DEF Leave
<1>2. CASE Begin(p) \/ (Gate(p) /\ ~Leave(p)) \/ Lock(p) \/ (Busy(p) /\ ~Leave(p))
  BY <1>2 DEF Begin, Gate, Lock, Busy, world
<1>3. CASE NextFund(p)
  BY <1>3 DEF NextFund, TakeCredited, TakeToBuild, TakeToProbe, TakeCached, Take, world
<1>4. CASE ProbeHolds(p)
  BY <1>4 DEF ProbeHolds, Go, Looping
<1>5. CASE Repair(p)
  BY <1>5 DEF Repair, Go, Looping
<1>6. CASE WriteCache(p)
  BY <1>6 DEF WriteCache, Go, Looping
<1>7. CASE ProbeTurns(p) \/ NoRepair(p) \/ EndLoop(p) \/ Unlink(p) \/ Build(p) \/ SaveState(p)
  BY <1>7 DEF ProbeTurns, NoRepair, EndLoop, Unlink, Build, SaveState, world
<1> QED
  BY <1>1, <1>2, <1>3, <1>4, <1>5, <1>6, <1>7 DEF Acts, Step, Die, Close, Gate, Busy

\* Marks are only taken off the one that leaves.
LEMMA MarksStay ==
    ASSUME NEW p \in Procs, NEW q \in Procs \ {p}, Acts(p), q \notin raced'
    PROVE  q \notin raced
<1>1. CASE Leave(p)
  BY <1>1 DEF Leave
<1>2. CASE Begin(p) \/ (Gate(p) /\ ~Leave(p)) \/ Lock(p) \/ (Busy(p) /\ ~Leave(p))
  BY <1>2 DEF Begin, Gate, Lock, Busy, world
<1>3. CASE NextFund(p)
  BY <1>3 DEF NextFund, TakeCredited, TakeToBuild, TakeToProbe, TakeCached, Take, world
<1>4. CASE ProbeHolds(p) \/ Repair(p) \/ WriteCache(p)
  BY <1>4 DEF ProbeHolds, Repair, WriteCache, Disturb
<1>5. CASE ProbeTurns(p) \/ NoRepair(p) \/ EndLoop(p) \/ Unlink(p) \/ Build(p) \/ SaveState(p)
  BY <1>5 DEF ProbeTurns, NoRepair, EndLoop, Unlink, Build, SaveState, world, Disturb
<1> QED
  BY <1>1, <1>2, <1>3, <1>4, <1>5 DEF Acts, Step, Die, Close, Gate, Busy

\* What the other runs have left of their plan, a step of one leaves them.
LEMMA OthersInPlan ==
    ASSUME TypeInv, CallInv, NEW p \in Procs, Acts(p), NEW q \in Procs \ {p},
           q \notin raced', pc'[q] \in Looping \cup {"lock", "retry"}
    PROVE  InPlan(q)'
<1>1. pc[q] \in Looping \cup {"lock", "retry"} /\ q \notin raced
  BY OthersKept, MarksStay
<1>2. cache' = cache
  <2>1. CASE pc[p] \in Looping /\ Disturb(p)
    <3>1. pc[q] \in Looping
      BY <1>1, <2>1 DEF Disturb, Waiting
    <3> QED
      BY <2>1, <3>1, Alone DEF TypeInv, CallInv
  <2> QED
    BY <2>1, CacheWriter
<1> QED
  BY <1>1, <1>2, OthersKept, OtherInPlan

\* A step pays for its calls out of what was due, out of what was ahead or, if
\* a probe has turned, out of the allowance for a full fetch.
LEMMA Spend ==
    ASSUME TypeInv, TypeInv', NEW p \in Procs, InPlan(p),
           NEW n \in Nat, calls'[p] = calls[p] + n,
           NEW t \in {0, 1}, turned'[p] = turned[p] + t,
           job'[p].planned = job[p].planned,
           n + Due(p)' + Cardinality(Ahead(p, todo[p]))'
              <= Due(p) + Cardinality(Ahead(p, todo[p])) + PerActive * t
    PROVE  InPlan(p)'
<1> DEFINE a == Cardinality(Ahead(p, todo[p]))
           b == Cardinality(Ahead(p, todo[p]))'
           c == calls[p]
           m == turned[p]
           j == job[p].planned
<1>1. a \in Nat /\ b \in Nat
  <2>1. todo[p] \in SUBSET Funds /\ todo'[p] \in SUBSET Funds
    BY DEF TypeInv, LockInv, Shape
  <2>3. IsFiniteSet(Funds)
    BY FundAssumption, FS_Union DEF Funds
  <2>2. IsFiniteSet(todo'[p])
    BY <2>1, <2>3, FS_Subset
  <2>4. IsFiniteSet(1..PerActive)
    BY PerActiveIsNumber, FS_Interval
  <2>5. IsFiniteSet(todo'[p] \X (1..PerActive))
    BY <2>2, <2>4, FS_Product
  <2>6. Ahead(p, todo[p])' \in SUBSET (todo'[p] \X (1..PerActive))
    BY DEF Ahead
  <2>7. IsFiniteSet(Ahead(p, todo[p])')
    BY <2>5, <2>6, FS_Subset
  <2>8. b \in Nat
    BY <2>7, FS_CardinalityType
  <2> QED
    BY <2>1, <2>8, AheadIsFinite
<1>2. c \in Nat /\ m \in Nat /\ j \in Nat
  BY DEF TypeInv, CountTyped, Jobs
<1>3. PerActive \in Nat
  BY PerActiveIsNumber
<1>4. Due(p) \in Nat /\ Due(p)' \in Nat
  <2>1. Due(p)' \in Nat
    BY PerActiveIsNumber DEF Due, RepairCost
  <2> QED
    BY <2>1, DueIsNumber
<1>5. c + Due(p) + a <= j + PerActive * m
  BY DEF InPlan
<1>6. PerActive * (m + t) = PerActive * m + PerActive * t
  <2>1. \A x \in Nat, y \in Nat : x * (y + 1) = x * y + x
    OBVIOUS
  <2>2. CASE t = 0
    BY <1>2, <1>3, <2>2
  <2>3. CASE t = 1
    BY <1>2, <1>3, <2>1, <2>3
  <2> QED
    BY <2>2, <2>3
<1>7. PerActive * m \in Nat /\ PerActive * t \in Nat
  BY <1>2, <1>3
<1>8. n + Due(p)' + b <= Due(p) + a + PerActive * t
  OBVIOUS
<1>9. (c + n) + Due(p)' + b <= j + PerActive * (m + t)
  <2> DEFINE x == PerActive * m
             y == PerActive * t
             d == Due(p)
             e == Due(p)'
  <2>1. x \in Nat /\ y \in Nat /\ d \in Nat /\ e \in Nat
    BY <1>4, <1>7
  <2>2. c + d + a <= j + x /\ n + e + b <= d + a + y /\ PerActive * (m + t) = x + y
    BY <1>5, <1>6, <1>8
  <2> HIDE DEF x, y, d, e, a, b, c, m, j
  <2>3. (c + n) + e + b <= j + (x + y)
    BY <1>1, <1>2, <2>1, <2>2
  <2> QED
    BY <2>2, <2>3 DEF e, b, c, j, m
<1> QED
  BY <1>9 DEF InPlan

\* A step that leaves the plan, the funds to come and their snapshots alone.
LEMMA SpendDue ==
    ASSUME TypeInv, TypeInv', NEW p \in Procs, InPlan(p),
           NEW n \in Nat, calls'[p] = calls[p] + n,
           NEW t \in {0, 1}, turned'[p] = turned[p] + t,
           job'[p].planned = job[p].planned, job'[p].day = job[p].day,
           job'[p].rebuild = job[p].rebuild, job'[p].credit = job[p].credit,
           todo'[p] = todo[p], \A f \in todo[p] : cache'[f] = cache[f],
           n + Due(p)' <= Due(p) + PerActive * t
    PROVE  InPlan(p)'
<1>1. Ahead(p, todo[p])' = Ahead(p, todo[p])
  <2>1. \A f \in todo[p] : cache'[f] = cache[f]
    OBVIOUS
  <2>2. todo'[p] = todo[p]
    OBVIOUS
  <2> QED
    BY <2>1, <2>2, AheadSame
<1> DEFINE a == Cardinality(Ahead(p, todo[p]))
<1>2. a \in Nat
  BY AheadIsFinite DEF TypeInv, LockInv, Shape
<1>3. a' = a
  BY <1>1
<1>4. Due(p) \in Nat /\ Due(p)' \in Nat
  <2>1. Due(p)' \in Nat
    BY PerActiveIsNumber DEF Due, RepairCost
  <2> QED
    BY <2>1, DueIsNumber
<1>5. PerActive * t \in Nat
  BY PerActiveIsNumber
<1>6. n + Due(p)' + a' <= Due(p) + a + PerActive * t
  <2> DEFINE y == PerActive * t
             d == Due(p)
             e == Due(p)'
             z == a'
  <2>1. n + e <= d + y /\ z = a /\ d \in Nat /\ e \in Nat /\ y \in Nat
    BY <1>3, <1>4, <1>5
  <2> HIDE DEF a, y, d, e, z
  <2>2. n + e + z <= d + a + y
    BY <1>2, <2>1
  <2> QED
    BY <2>2 DEF y, d, e, z
<1> HIDE DEF a
<1>7. n + Due(p)' + Cardinality(Ahead(p, todo[p]))'
              <= Due(p) + Cardinality(Ahead(p, todo[p])) + PerActive * t
  BY <1>6 DEF a
<1> QED
  BY <1>7, Spend

\* What a step of the loop takes leaves the funds to come their snapshots.
LEMMA ToComeKeep ==
    ASSUME TypeInv, FileInv, NEW p \in Procs, Acts(p), pc[p] \in Fetching
    PROVE  \A f \in todo[p] : cache'[f] = cache[f]
<1>1. cur[p] \notin todo[p] /\ todo[p] \subseteq Funds
  BY DEF FileInv, HandIsNew, TypeInv, LockInv, Shape
<1>2. CASE \E e : Put(cur[p], hand[p].q, e)
  BY <1>1, <1>2 DEF Put, TypeInv, CacheTyped
<1>3. CASE cache' = cache
  BY <1>3
<1> QED
  BY <1>2, <1>3, CacheWriter

\* Coming to a fund takes what it was expected to cost off what is ahead.
LEMMA TakeInPlan ==
    ASSUME TypeInv, TypeInv', FileInv, CallInv, NEW p \in Procs, InPlan(p), NextFund(p)
    PROVE  InPlan(p)'
<1> DEFINE f == First(todo[p])
           T == todo[p]
           c == FundCost(p, f)
<1>1. f \in T /\ f \in Funds /\ T \in SUBSET Funds
  BY FirstOfSome DEF NextFund, TypeInv, LockInv, Shape
<1>2. PICK h, to :
         /\ Take(p, f, h, to)
         /\ \/ to = "next"
            \/ to = "build" /\ (IF f \in Active THEN PerActive ELSE PerFundLevel) <= c
            \/ to \in {"probe", "cached"} /\ h = Loaded(f, "cached") /\ Cached(f)
               /\ (IF to = "probe" THEN 1 ELSE 0)
                  + (IF LegMissing(f, Entry(f)) THEN PerFundLevel ELSE 0) <= c
  <2>1. CASE TakeCredited(p, f)
    BY <2>1 DEF TakeCredited
  <2>2. CASE TakeToBuild(p, f)
    <3>1. Take(p, f, NoHand, "build") /\ f \notin job[p].credit /\ ~Usable(p, f)
      BY <2>2 DEF TakeToBuild
    <3>2. (IF f \in Active THEN PerActive ELSE PerFundLevel) <= c
      <4>1. CASE f \in Active
        <5>1. c = PerActive
          BY <3>1, <4>1, FundAssumption DEF Usable, FundCost, ActiveCost
        <5> QED
          BY <4>1, <5>1, PerActiveIsNumber
      <4>2. CASE f \notin Active
        <5>1. c = PerFundLevel
          BY <1>1, <3>1, <4>2 DEF Usable, FundCost, NavCost, Funds
        <5> QED
          BY <4>2, <5>1, PerActiveIsNumber
      <4> QED
        BY <4>1, <4>2
    <3> QED
      BY <3>1, <3>2
  <2>3. CASE TakeToProbe(p, f)
    <3>1. /\ Take(p, f, Loaded(f, "cached"), "probe") /\ f \in Active \ job[p].credit
          /\ Usable(p, f) /\ Stale(Entry(f), job[p].day)
      BY <2>3 DEF TakeToProbe
    <3>2. Cached(f) /\ ~job[p].rebuild /\ ~Entry(f).gap
      BY <3>1 DEF Usable
    <3>3. c = 1 + (IF LegMissing(f, Entry(f)) THEN PerFundLevel ELSE 0)
      BY <3>1, <3>2 DEF FundCost, ActiveCost
    <3> QED
      BY <3>1, <3>2, <3>3, PerActiveIsNumber
  <2>4. CASE TakeCached(p, f)
    <3>1. /\ Take(p, f, Loaded(f, "cached"), IF f \in Active THEN "cached" ELSE "next")
          /\ f \notin job[p].credit
          /\ Usable(p, f) /\ ~Stale(Entry(f), job[p].day)
      BY <2>4 DEF TakeCached
    <3>2. CASE f \in Active
      <4>1. Cached(f) /\ ~job[p].rebuild /\ ~Entry(f).gap
        BY <3>1, <3>2 DEF Usable
      <4>2. c = 0 + (IF LegMissing(f, Entry(f)) THEN PerFundLevel ELSE 0)
        BY <3>1, <3>2, <4>1 DEF FundCost, ActiveCost
      <4> QED
        BY <3>1, <3>2, <4>1, <4>2, PerActiveIsNumber
    <3>3. CASE f \notin Active
      BY <3>1, <3>3
    <3> QED
      BY <3>2, <3>3
  <2> QED
    BY <2>1, <2>2, <2>3, <2>4 DEF NextFund
<1>3. /\ pc[p] = "next" /\ pc'[p] = to /\ cur'[p] = f /\ todo'[p] = T \ {f}
      /\ hand'[p] = h /\ UNCHANGED <<cache, job, calls, turned>>
  BY <1>2 DEF Take, Go, world, TypeInv, LockInv, Shape, HandTyped
<1>4. Due(p) = 0
  BY <1>3 DEF Due
<1>5. Due(p)' <= c
  <2>1. c \in Nat /\ PerFundLevel = 4
    BY CostIsNumber, PerActiveIsNumber
  <2>2. CASE to = "next"
    BY <1>3, <2>1, <2>2 DEF Due
  <2>3. CASE to = "build" /\ (IF f \in Active THEN PerActive ELSE PerFundLevel) <= c
    BY <1>3, <2>3 DEF Due
  <2>4. CASE /\ to \in {"probe", "cached"} /\ h = Loaded(f, "cached") /\ Cached(f)
             /\ (IF to = "probe" THEN 1 ELSE 0)
                  + (IF LegMissing(f, Entry(f)) THEN PerFundLevel ELSE 0) <= c
    <3>1. h.e = Entry(f)
      BY <2>4 DEF Loaded
    <3>2. RepairCost(p)' = IF LegMissing(f, Entry(f)) THEN PerFundLevel ELSE 0
      BY <1>3, <3>1 DEF RepairCost, LegMissing
    <3> QED
      BY <1>3, <2>1, <2>4, <3>2 DEF Due
  <2> QED
    BY <1>2, <2>2, <2>3, <2>4
<1>6. PICK F : F = T \ {f}
  OBVIOUS
<1>7. Ahead(p, F)' = Ahead(p, F)
  BY <1>3, AheadSame
<1>8. Ahead(p, todo[p])' = Ahead(p, F)'
  BY <1>3, <1>6
<1>9. Cardinality(Ahead(p, T)) = Cardinality(Ahead(p, F)) + c
  BY <1>1, <1>6, AheadTaken
<1>10. 0 + Due(p)' + Cardinality(Ahead(p, todo[p]))'
          <= Due(p) + Cardinality(Ahead(p, todo[p])) + PerActive * 0
  <2> DEFINE x == Cardinality(Ahead(p, F))
             d == Due(p)'
             z == Cardinality(Ahead(p, todo[p]))'
  <2>1. x \in Nat
    BY <1>1, <1>6, AheadIsFinite
  <2>2. c \in Nat /\ PerActive \in Nat
    BY CostIsNumber, PerActiveIsNumber
  <2>3. d \in Nat
    BY PerActiveIsNumber DEF Due, RepairCost
  <2>4. z = x
    BY <1>7, <1>8
  <2>5. d <= c
    BY <1>5
  <2> HIDE DEF x, d, z, c
  <2>6. 0 + d + z <= 0 + (x + c) + PerActive * 0
    BY <2>1, <2>2, <2>3, <2>4, <2>5
  <2> QED
    BY <1>4, <1>9, <2>6 DEF x, d, z
<1>11. calls'[p] = calls[p] + 0 /\ turned'[p] = turned[p] + 0
  BY <1>3 DEF TypeInv, CountTyped
<1> QED
  BY <1>3, <1>10, <1>11, Spend

\* Nor does any other step of the process overdraw its plan.
LEMMA OwnInPlan ==
    ASSUME TypeInv, TypeInv', FileInv, CallInv, NEW p \in Procs, Acts(p),
           p \notin raced', pc'[p] \in Looping \cup {"lock", "retry"}
    PROVE  InPlan(p)'
<1>1. ~Leave(p)
  BY DEF Leave, TypeInv, LockInv, Shape, Looping
<1>2. ~Begin(p)
  BY GoPlaces DEF Begin, TypeInv, LockInv, Looping
<1>3. calls[p] \in Nat /\ turned[p] \in Nat
  BY DEF TypeInv, CountTyped
<1>4. CASE Gate(p)
  <2>1. /\ Go(p, "gate", "lock")
        /\ job' = [job EXCEPT ![p].planned = Planned(p)]
        /\ UNCHANGED <<world, todo, cur, hand, calls, turned, runs, raced, fate>>
    BY <1>1, <1>4 DEF Gate
  <2>2. pc[p] = "gate" /\ pc'[p] = "lock"
    BY <2>1, GoPlaces DEF TypeInv, LockInv
  <2>3. /\ job'[p].planned = Planned(p) /\ job'[p].day = job[p].day
        /\ job'[p].rebuild = job[p].rebuild /\ job'[p].credit = job[p].credit
    BY <2>1 DEF TypeInv, CountTyped, Jobs
  <2>4. calls[p] = 0 /\ turned[p] = 0 /\ todo[p] = Funds
    BY <2>2 DEF CallInv, FreshStart, Waiting
  <2>5. UNCHANGED <<cache, calls, turned, todo>>
    BY <2>1 DEF world
  <2>6. PICK F : F = Funds
    OBVIOUS
  <2>7. Ahead(p, F)' = Ahead(p, F)
    BY <2>3, <2>5, AheadSame
  <2>8. Ahead(p, todo[p])' = Ahead(p, F)'
    BY <2>4, <2>5, <2>6
  <2>9. Cardinality(Ahead(p, todo[p]))' = Planned(p)
    BY <2>6, <2>7, <2>8 DEF Planned
  <2>10. Planned(p) \in Nat
    BY AheadIsFinite DEF Planned
  <2>11. Due(p)' = 0
    BY <2>2 DEF Due
  <2>12. calls'[p] = 0 /\ turned'[p] = 0
    BY <2>4, <2>5
  <2>13. PerActive * 0 = 0
    BY PerActiveIsNumber
  <2> DEFINE n == Planned(p)
             z == Cardinality(Ahead(p, todo[p]))'
  <2> HIDE DEF n, z
  <2>14. calls'[p] + Due(p)' + z <= job'[p].planned + PerActive * turned'[p]
    BY <2>3, <2>9, <2>10, <2>11, <2>12, <2>13 DEF n, z
  <2> QED
    BY <2>14 DEF InPlan, z
<1>5. CASE ~Gate(p)
  <2>1. pc[p] \in Looping \cup {"lock", "retry"} /\ p \notin raced
    <3>1. CASE Lock(p) \/ Busy(p)
      BY <1>1, <3>1 DEF Lock, Busy, Go, world
    <3>2. CASE NextFund(p)
      BY <3>2 DEF NextFund, TakeCredited, TakeToBuild, TakeToProbe, TakeCached, Take, Go,
                  Looping
    <3>3. CASE ProbeHolds(p) \/ Repair(p) \/ WriteCache(p)
      BY <3>3 DEF ProbeHolds, Repair, WriteCache, Disturb, Go, Looping
    <3>4. CASE ProbeTurns(p) \/ NoRepair(p) \/ Build(p)
      BY <3>4 DEF ProbeTurns, NoRepair, Build, Go, Looping
    <3>5. CASE SaveState(p) \/ EndLoop(p) \/ Unlink(p)
      BY <3>5 DEF SaveState, EndLoop, Unlink, Disturb, Go, Looping
    <3> QED
      BY <1>1, <1>2, <1>5, <3>1, <3>2, <3>3, <3>4, <3>5 DEF Acts, Step, Close, Die
  <2>2. InPlan(p)
    BY <2>1 DEF CallInv, PlanHolds
  <2>3. CASE NextFund(p)
    BY <2>2, <2>3, TakeInPlan
  <2>4. CASE Lock(p) \/ Busy(p) \/ EndLoop(p) \/ Unlink(p) \/ NoRepair(p) \/ SaveState(p) \/ WriteCache(p)
    <3>1. /\ pc[p] \in {"lock", "retry", "next", "unlink", "cached", "save", "write"}
          /\ pc'[p] \in {"next", "retry", "unlink", "close", "save"}
      BY <1>1, <2>4, GoPlaces DEF Lock, Busy, EndLoop, Unlink, NoRepair, SaveState, WriteCache,
         TypeInv, LockInv
    <3>2. UNCHANGED <<calls, turned, todo>>
      BY <1>1, <2>4 DEF Lock, Busy, EndLoop, Unlink, NoRepair, SaveState, WriteCache
    <3>3. /\ job'[p].planned = job[p].planned /\ job'[p].day = job[p].day
          /\ job'[p].rebuild = job[p].rebuild /\ job'[p].credit = job[p].credit
      <4>1. CASE SaveState(p)
        BY <4>1 DEF SaveState, TypeInv, CountTyped, Jobs
      <4>2. CASE ~SaveState(p)
        BY <1>1, <2>4, <4>2 DEF Lock, Busy, EndLoop, Unlink, NoRepair, WriteCache
      <4> QED
        BY <4>1, <4>2
    <3>4. \A f \in todo[p] : cache'[f] = cache[f]
      <4>1. CASE WriteCache(p)
        <5>1. pc[p] \in Fetching
          BY <4>1 DEF WriteCache, Go, Fetching
        <5> QED
          BY <5>1, ToComeKeep
      <4>2. CASE ~WriteCache(p)
        BY <1>1, <2>4, <4>2 DEF Lock, Busy, EndLoop, Unlink, NoRepair, SaveState, world
      <4> QED
        BY <4>1, <4>2
    <3>5. Due(p)' = 0 /\ Due(p) \in Nat /\ PerActive * 0 = 0
      BY <3>1, DueIsNumber, PerActiveIsNumber DEF Due
    <3>6. 0 + Due(p)' <= Due(p) + PerActive * 0
      BY <3>5
    <3> QED
      BY <1>3, <2>2, <3>2, <3>3, <3>4, <3>6, SpendDue
  <2>5. CASE ProbeTurns(p) \/ ProbeHolds(p) \/ Repair(p) \/ Build(p)
    <3>1. pc[p] \in Fetching
      BY <2>5 DEF ProbeTurns, ProbeHolds, Repair, Build, Go, Fetching
    <3>2. \A f \in todo[p] : cache'[f] = cache[f]
      BY <3>1, ToComeKeep
    <3>3. UNCHANGED <<job, todo, cur>>
      BY <2>5 DEF ProbeTurns, ProbeHolds, Repair, Build
    <3>4. PerActive * 0 = 0 /\ PerActive * 1 = PerActive
      BY PerActiveIsNumber
    <3>5. RepairCost(p) \in {0, PerFundLevel}
      BY DEF RepairCost
    <3>6. CASE ProbeTurns(p)
      <4>1. pc[p] = "probe" /\ pc'[p] = "build"
        BY <3>6, GoPlaces DEF ProbeTurns, TypeInv, LockInv
      <4>2. calls'[p] = calls[p] + 1 /\ turned'[p] = turned[p] + 1
        BY <3>6 DEF ProbeTurns, Cost, TypeInv, CountTyped
      <4>3. Due(p)' <= PerActive /\ Due(p) >= 1 /\ Due(p)' \in Nat /\ Due(p) \in Nat
        BY <3>3, <3>5, <4>1, PerActiveIsNumber DEF Due
      <4>4. 1 + Due(p)' <= Due(p) + PerActive * 1
        BY <3>4, <4>3, PerActiveIsNumber
      <4> QED
        BY <2>2, <3>2, <3>3, <4>2, <4>4, SpendDue
    <3>7. CASE ProbeHolds(p)
      <4>1. pc[p] = "probe" /\ pc'[p] = "cached"
        BY <3>7, GoPlaces DEF ProbeHolds, TypeInv, LockInv
      <4>2. calls'[p] = calls[p] + 1 /\ turned'[p] = turned[p] + 0
        BY <1>3, <3>7 DEF ProbeHolds, Cost, TypeInv, CountTyped
      <4>3. hand[p] \in Hands /\ hand[p].e \in Entries
        BY <4>1 DEF TypeInv, HandTyped, HandThere, Hands
      <4>4. hand'[p].e.legs = hand[p].e.legs
        <5>1. CASE hand' = [hand EXCEPT ![p].e = [hand[p].e EXCEPT !.probed = job[p].day]]
          BY <4>3, <5>1 DEF TypeInv, HandTyped, Hands, Entries
        <5>2. CASE hand' = hand
          BY <5>2
        <5> QED
          BY <3>7, <5>1, <5>2 DEF ProbeHolds
      <4>5. RepairCost(p)' = RepairCost(p)
        BY <3>3, <4>4 DEF RepairCost, LegMissing
      <4>6. Due(p)' = RepairCost(p) /\ Due(p) = 1 + RepairCost(p)
        BY <4>1, <4>5 DEF Due
      <4>7. 1 + Due(p)' <= Due(p) + PerActive * 0
        BY <3>4, <3>5, <4>6, PerActiveIsNumber
      <4> QED
        BY <2>2, <3>2, <3>3, <4>2, <4>7, SpendDue
    <3>8. CASE Repair(p)
      <4>1. pc[p] = "cached" /\ pc'[p] = "save" /\ LegMissing(cur[p], hand[p].e)
        BY <3>8, GoPlaces DEF Repair, TypeInv, LockInv
      <4>2. calls'[p] = calls[p] + PerFundLevel /\ turned'[p] = turned[p] + 0
        BY <1>3, <3>8 DEF Repair, Cost, TypeInv, CountTyped
      <4>3. Due(p)' = 0 /\ Due(p) = PerFundLevel
        BY <4>1 DEF Due, RepairCost
      <4>4. PerFundLevel + Due(p)' <= Due(p) + PerActive * 0
        BY <3>4, <4>3, PerActiveIsNumber
      <4> QED
        BY <2>2, <3>2, <3>3, <4>2, <4>4, SpendDue, PerActiveIsNumber
    <3>9. CASE Build(p)
      <4>1. pc[p] = "build" /\ pc'[p] = "write"
        BY <3>9, GoPlaces DEF Build, TypeInv, LockInv
      <4> DEFINE n == IF cur[p] \in Active THEN PerActive ELSE PerFundLevel
      <4>2. calls'[p] = calls[p] + n /\ turned'[p] = turned[p] + 0
        BY <1>3, <3>9 DEF Build, Cost, TypeInv, CountTyped
      <4>3. Due(p)' = 0 /\ Due(p) = n /\ n \in Nat
        BY <4>1, PerActiveIsNumber DEF Due
      <4> HIDE DEF n
      <4>4. n + Due(p)' <= Due(p) + PerActive * 0
        BY <3>4, <4>3, PerActiveIsNumber
      <4> QED
        BY <2>2, <3>2, <3>3, <4>2, <4>3, <4>4, SpendDue
    <3> QED
      BY <2>5, <3>6, <3>7, <3>8, <3>9
  <2> QED
    BY <1>1, <1>2, <1>5, <2>3, <2>4, <2>5 DEF Acts, Step, Close, Die
<1> QED
  BY <1>4, <1>5

LEMMA InitCalls == Init => CallInv
<1> SUFFICES ASSUME Init PROVE CallInv
  OBVIOUS
<1>1. \A p \in Procs : pc[p] = "idle" /\ calls[p] = 0 /\ turned[p] = 0
  BY DEF Init
<1> QED
  BY <1>1 DEF CallInv, OfToday, FreshStart, PlanHolds, Waiting, Looping

LEMMA StepToday ==
    ASSUME ~Midnight, TypeInv, TypeInv', OfToday, [Next]_vars
    PROVE  OfToday'
<1>1. ASSUME NEW p \in Procs, Acts(p) PROVE OfToday'
  <2>1. UNCHANGED clock
    <3>1. CASE Leave(p)
      BY <3>1 DEF Leave
    <3>2. CASE Begin(p) \/ (Gate(p) /\ ~Leave(p)) \/ Lock(p) \/ (Busy(p) /\ ~Leave(p))
      BY <3>2 DEF Begin, Gate, Lock, Busy, world
    <3>3. CASE NextFund(p)
      BY <3>3 DEF NextFund, TakeCredited, TakeToBuild, TakeToProbe, TakeCached, Take, world
    <3>4. CASE ProbeHolds(p) \/ Repair(p) \/ WriteCache(p) \/ SaveState(p) \/ Unlink(p)
      BY <3>4 DEF ProbeHolds, Repair, WriteCache, SaveState, Unlink
    <3>5. CASE ProbeTurns(p) \/ NoRepair(p) \/ EndLoop(p) \/ Build(p)
      BY <3>5 DEF ProbeTurns, NoRepair, EndLoop, Build, world
    <3> QED
      BY <1>1, <3>1, <3>2, <3>3, <3>4, <3>5 DEF Acts, Step, Die, Close, Gate, Busy
  <2>2. \A q \in Procs \ {p} : pc'[q] # "idle" => job'[q].day = clock'
    BY <1>1, <2>1, OthersKept DEF OfToday
  <2>3. pc'[p] # "idle" => job'[p].day = clock'
    <3>1. CASE Leave(p)
      BY <3>1 DEF Leave, TypeInv, LockInv, Shape
    <3>2. CASE Begin(p)
      BY <2>1, <3>2 DEF Begin, TypeInv, CountTyped
    <3>3. CASE ~Leave(p) /\ ~Begin(p)
      <4>1. pc[p] # "idle"
        BY <1>1, <3>3 DEF Acts, Step, Die, Close, Gate, Busy, Lock, NextFund, TakeCredited,
           TakeToBuild, TakeToProbe, TakeCached, Take, ProbeHolds, ProbeTurns, Repair,
           NoRepair, Build, WriteCache, SaveState, EndLoop, Unlink, Go
      <4>2. job'[p].day = job[p].day
        <5>1. CASE Gate(p)
          BY <3>3, <5>1, GatePlan DEF Gate, TypeInv, LockInv, Shape
        <5>2. CASE SaveState(p)
          BY <5>2, SavePlan DEF SaveState, TypeInv, LockInv, Shape
        <5>3. CASE ~Gate(p) /\ ~SaveState(p)
          BY <1>1, <3>3, <5>3 DEF Acts, Step, Die, Close, Busy, Lock, NextFund,
             TakeCredited, TakeToBuild, TakeToProbe, TakeCached, Take, ProbeHolds,
             ProbeTurns, Repair, NoRepair, Build, WriteCache, EndLoop, Unlink
        <5> QED
          BY <5>1, <5>2, <5>3
      <4> QED
        BY <2>1, <4>1, <4>2 DEF OfToday
    <3> QED
      BY <3>1, <3>2, <3>3
  <2> QED
    BY <2>2, <2>3 DEF OfToday
<1>2. CASE Tick
  BY <1>2 DEF Tick, OfToday
<1>3. CASE Disclose \/ UNCHANGED vars
  BY <1>3 DEF Disclose, vars, world, OfToday
<1> QED
  BY <1>1, <1>2, <1>3 DEF Next, Acts

LEMMA StepFresh ==
    ASSUME TypeInv, FreshStart, [Next]_vars
    PROVE  FreshStart'
<1>1. ASSUME NEW p \in Procs, Acts(p) PROVE FreshStart'
  <2>1. \A q \in Procs \ {p} :
           /\ pc'[q] \in Waiting \cup {"idle"} => calls'[q] = 0 /\ turned'[q] = 0
           /\ pc'[q] \in Waiting => todo'[q] = Funds
    BY <1>1, OthersKept DEF FreshStart
  <2>2. /\ pc'[p] \in Waiting \cup {"idle"} => calls'[p] = 0 /\ turned'[p] = 0
        /\ pc'[p] \in Waiting => todo'[p] = Funds
    <3>1. CASE Leave(p)
      BY <3>1 DEF Leave, TypeInv, LockInv, Shape, CountTyped, Waiting
    <3>2. CASE Begin(p)
      BY <3>2 DEF Begin, Go, TypeInv, LockInv, Shape, FreshStart, Waiting
    <3>3. CASE (Gate(p) \/ Busy(p)) /\ ~Leave(p)
      <4>1. UNCHANGED <<calls, turned, todo>> /\ pc[p] \in Waiting
        BY <3>3 DEF Gate, Busy, Go, Waiting
      <4> QED
        BY <4>1 DEF FreshStart
    <3>4. CASE Lock(p)
      BY <3>4, GoPlaces DEF Lock, TypeInv, LockInv, Waiting
    <3>5. CASE NextFund(p)
      <4>1. PICK to \in Looping : Go(p, "next", to)
        BY <3>5 DEF NextFund, TakeCredited, TakeToBuild, TakeToProbe, TakeCached, Take, Looping
      <4> QED
        BY <4>1, GoPlaces DEF TypeInv, LockInv, Waiting, Looping
    <3>6. CASE ProbeHolds(p) \/ ProbeTurns(p) \/ Repair(p) \/ NoRepair(p) \/ Build(p)
               \/ WriteCache(p) \/ SaveState(p) \/ EndLoop(p) \/ Unlink(p)
      <4>1. PICK from, to : Go(p, from, to) /\ to \notin Waiting \cup {"idle"}
        <5>1. CASE ProbeHolds(p) \/ ProbeTurns(p)
          BY <5>1 DEF ProbeHolds, ProbeTurns, Waiting
        <5>2. CASE Repair(p) \/ NoRepair(p)
          BY <5>2 DEF Repair, NoRepair, Waiting
        <5>5. CASE Build(p)
          <6>1. Go(p, "build", "write")
            BY <5>5 DEF Build
          <6> QED
            BY <6>1 DEF Waiting
        <5>3. CASE WriteCache(p)
          BY <5>3 DEF WriteCache, Waiting
        <5>4. CASE SaveState(p) \/ EndLoop(p) \/ Unlink(p)
          BY <5>4 DEF SaveState, EndLoop, Unlink, Waiting
        <5> QED
          BY <3>6, <5>1, <5>2, <5>3, <5>4, <5>5
      <4> QED
        BY <4>1, GoPlaces DEF TypeInv, LockInv
    <3> QED
      BY <1>1, <3>1, <3>2, <3>3, <3>4, <3>5, <3>6 DEF Acts, Step, Die, Close, Gate, Busy
  <2> QED
    BY <2>1, <2>2 DEF FreshStart
<1>2. CASE Tick \/ Disclose \/ UNCHANGED vars
  BY <1>2 DEF Tick, Disclose, vars, FreshStart
<1> QED
  BY <1>1, <1>2 DEF Next, Acts

LEMMA StepCalls ==
    ASSUME ~Midnight, TypeInv, TypeInv', FileInv, CallInv, [Next]_vars
    PROVE  CallInv'
<1>1. OfToday' /\ FreshStart'
  BY StepToday, StepFresh DEF CallInv
<1>2. ASSUME NEW p \in Procs, Acts(p) PROVE PlanHolds'
  <2> SUFFICES ASSUME NEW q \in Procs \ raced', pc'[q] \in Looping \cup {"lock", "retry"}
               PROVE  InPlan(q)'
    BY DEF PlanHolds
  <2>1. CASE q = p
    BY <1>2, <2>1, OwnInPlan
  <2>2. CASE q # p
    BY <1>2, <2>2, OthersInPlan
  <2> QED
    BY <2>1, <2>2
<1>3. ASSUME Tick \/ Disclose \/ UNCHANGED vars PROVE PlanHolds'
  <2> SUFFICES ASSUME NEW q \in Procs \ raced', pc'[q] \in Looping \cup {"lock", "retry"}
               PROVE  InPlan(q)'
    BY DEF PlanHolds
  <2>1. UNCHANGED <<cache, pc, job, todo, cur, hand, calls, turned, raced>>
    BY <1>3 DEF Tick, Disclose, vars, world
  <2>2. q \in Procs \ raced /\ pc[q] \in Looping \cup {"lock", "retry"}
    BY <2>1
  <2>3. /\ pc'[q] = pc[q] /\ job'[q] = job[q] /\ todo'[q] = todo[q]
        /\ cur'[q] = cur[q] /\ hand'[q] = hand[q]
        /\ calls'[q] = calls[q] /\ turned'[q] = turned[q] /\ cache' = cache
    BY <2>1
  <2> QED
    BY <2>2, <2>3, OtherInPlan
<1> QED
  BY <1>1, <1>2, <1>3 DEF Next, Acts, CallInv

\* While no date change falls into a run: one run of a plan at a time is in the
\* loop, a fund that is done is not fetched again, and a run makes no more calls
\* than its gate let through.
THEOREM NothingIsWasted == ASSUME ~Midnight PROVE Spec => []NoCallIsWasted
<1> DEFINE Inv == TypeInv /\ FileInv /\ CallInv
<1>1. Init => Inv
  BY InitTypes, InitFile, InitCalls
<1>2. Inv /\ [Next]_vars => Inv'
  <2> SUFFICES ASSUME Inv, [Next]_vars PROVE Inv'
    OBVIOUS
  <2>1. TypeInv'
    BY StepTypes
  <2>2. FileInv'
    BY StepFile DEF TypeInv
  <2>3. CallInv'
    BY <2>1, StepCalls
  <2> QED
    BY <2>1, <2>2, <2>3
<1>3. Inv => NoCallIsWasted
  BY LockInvExcludes, FileInvSpares, CallInvIsWithinPlan DEF TypeInv, NoCallIsWasted
<1> QED
  BY <1>1, <1>2, <1>3, PTL DEF Spec

-----------------------------------------------------------------------------
(* The cache.  What a run has in hand is the fund's latest snapshot, or    *)
(* one it has built today; no snapshot is of the future, in its date or in *)
(* its quarter, so what is written becomes the latest one; and what was    *)
(* kept on a day is dated that day until the day is over.                  *)

Past ==
    \A f \in Funds, q \in Quarters : cache[f][q] # None =>
        cache[f][q].probed <= clock /\ q <= disclosed

FateAhead == \A d \in Days : d > clock => \A f \in Active : fate[d][f] = "none"

KeptIsToday ==
    \A f \in Active : fate[clock][f] = "kept" =>
        Cached(f) /\ Entry(f).probed = clock

HandIsEntry ==
    \A p \in Procs : pc[p] \in {"probe", "cached"} =>
        Cached(cur[p]) /\ hand[p].e = Entry(cur[p]) /\ hand[p].q = Latest(cur[p])

BuiltToday ==
    \A p \in Procs : pc[p] = "write" =>
        /\ hand[p].how = "built" /\ hand[p].e.probed = job[p].day
        /\ hand[p].q <= disclosed
        /\ hand[p].q # 0 => \A r \in Held(cur[p]) : r <= hand[p].q

NothingInHand ==
    \A p \in Procs : pc[p] \in Waiting \cup {"idle"} => hand[p].how = "nothing"

CacheInv ==
    /\ Past /\ FateAhead /\ KeptIsToday
    /\ HandIsEntry /\ BuiltToday /\ NothingInHand /\ CreditIsBacked

LEMMA InitCache == Init => CacheInv
<1> SUFFICES ASSUME Init PROVE CacheInv
  OBVIOUS
<1>1. \A f \in Funds, q \in Quarters : cache[f][q] # None => cache[f][q].probed = 0 /\ q = 1
  <2> SUFFICES ASSUME NEW f \in Funds, NEW q \in Quarters, cache[f][q] # None
               PROVE  cache[f][q].probed = 0 /\ q = 1
    OBVIOUS
  <2>1. cache[f] \in {[r \in Quarters |-> IF r = 1 THEN e ELSE None] :
                         e \in {None} \cup {x \in Entries : x.probed = 0}}
    BY DEF Init
  <2>2. PICK e \in {None} \cup {x \in Entries : x.probed = 0} :
                cache[f] = [r \in Quarters |-> IF r = 1 THEN e ELSE None]
    BY <2>1
  <2>3. cache[f][q] = IF q = 1 THEN e ELSE None
    BY <2>2
  <2> QED
    BY <2>2, <2>3
<1>2. clock = 1 /\ disclosed = 1
  BY DEF Init
<1>3. Past
  BY <1>1, <1>2 DEF Past
<1>4. \A p \in Procs : pc[p] = "idle" /\ hand[p].how = "nothing"
  BY DEF Init, NoHand
<1>5. \A d \in Days, f \in Active : fate[d][f] = "none"
  BY DEF Init
<1>6. FateAhead /\ KeptIsToday
  BY <1>2, <1>5, FirstDayFirstFund DEF FateAhead, KeptIsToday
<1>7. HandIsEntry /\ BuiltToday /\ NothingInHand /\ CreditIsBacked
  BY <1>4 DEF HandIsEntry, BuiltToday, NothingInHand, CreditIsBacked
<1> QED
  BY <1>3, <1>6, <1>7 DEF CacheInv

\* A snapshot put at a quarter as late as any becomes the fund's latest.
LEMMA PutLatest ==
    ASSUME CacheTyped, CacheTyped', NEW f \in Funds, NEW q \in Quarters, NEW e \in Entries,
           \A r \in Held(f) : r <= q, Put(f, q, e)
    PROVE  /\ Cached(f)' /\ Latest(f)' = q /\ Entry(f)' = e
           /\ cache'[f] = [cache[f] EXCEPT ![q] = e]
           /\ \A g \in Funds \ {f} : cache'[g] = cache[g]
<1>1. cache' = [cache EXCEPT ![f] = [cache[f] EXCEPT ![q] = e]]
  BY DEF Put
<1>2. cache[f] \in [Quarters -> Entries \cup {None}]
  BY DEF CacheTyped
<1>3. /\ cache'[f] = [cache[f] EXCEPT ![q] = e]
      /\ \A g \in Funds \ {f} : cache'[g] = cache[g]
  BY <1>1 DEF CacheTyped
<1>4. cache'[f][q] = e /\ \A r \in Quarters \ {q} : cache'[f][r] = cache[f][r]
  BY <1>2, <1>3
<1>5. q \in Held(f)' /\ \A r \in Held(f)' : r <= q
  <2>1. q \in Held(f)'
    BY <1>4, NoneIsNoEntry DEF Held
  <2>2. ASSUME NEW r \in Held(f)' PROVE r <= q
    <3>1. r \in Quarters /\ q \in Nat
      BY BoundAssumption DEF Held, Quarters
    <3>2. CASE r = q
      BY <3>1, <3>2
    <3>3. CASE r # q
      BY <1>4, <3>1, <3>3 DEF Held
    <3> QED
      BY <3>2, <3>3
  <2> QED
    BY <2>1, <2>2
<1>6. \A r \in Held(f)' : (\A s \in Held(f)' : s <= r) => r = q
  <2>1. Held(f)' \subseteq Int /\ q \in Int
    BY BoundAssumption DEF Held, Quarters
  <2> QED
    BY <1>5, <2>1
<1>7. Latest(f)' = q
  <2>1. Latest(f)' = CHOOSE r \in Held(f)' : \A s \in Held(f)' : s <= r
    BY DEF Latest
  <2> QED
    BY <1>5, <1>6, <2>1
<1>8. Cached(f)'
  BY <1>5 DEF Cached
<1>9. Entry(f)' = e
  BY <1>4, <1>7 DEF Entry
<1> QED
  BY <1>3, <1>7, <1>8, <1>9

LEMMA CacheSame ==
    ASSUME NEW f, cache'[f] = cache[f]
    PROVE  /\ Held(f)' = Held(f) /\ Cached(f)' = Cached(f)
           /\ Latest(f)' = Latest(f) /\ Entry(f)' = Entry(f)
<1>1. Held(f)' = Held(f)
  BY DEF Held
<1>2. Latest(f)' = Latest(f) /\ Cached(f)' = Cached(f)
  BY <1>1 DEF Latest, Cached
<1> QED
  BY <1>1, <1>2 DEF Entry

\* What is true of another run's hand stays true: whoever writes is alone.
LEMMA OthersHand ==
    ASSUME TypeInv, OfToday, CacheInv, NEW p \in Procs, Acts(p), UNCHANGED <<clock, disclosed>>,
           fate' = fate \/ pc[p] \in Looping,
           NEW q \in Procs \ {p}
    PROVE  /\ pc'[q] \in {"probe", "cached"} =>
                 Cached(cur[q])' /\ hand'[q].e = Entry(cur[q])' /\ hand'[q].q = Latest(cur[q])'
           /\ pc'[q] = "write" =>
                 /\ hand'[q].how = "built" /\ hand'[q].e.probed = job'[q].day
                 /\ hand'[q].q <= disclosed'
                 /\ hand'[q].q # 0 => \A r \in Held(cur[q])' : r <= hand'[q].q
           /\ pc'[q] \in Waiting \cup {"idle"} => hand'[q].how = "nothing"
           /\ pc'[q] = "next" /\ hand'[q].how = "credited"
                 /\ fate'[job'[q].day][cur'[q]] = "kept"
              => hand'[q].e # None /\ hand'[q].e.probed = job'[q].day
<1>1. /\ pc'[q] = pc[q] /\ job'[q] = job[q] /\ cur'[q] = cur[q] /\ hand'[q] = hand[q]
  BY OthersKept
<1>2. CASE pc[q] \notin Looping
  BY <1>1, <1>2 DEF CacheInv, NothingInHand, Looping
<1>3. CASE pc[q] \in Looping
  <2>1. pc[p] \notin Looping
    BY <1>3, Alone DEF TypeInv
  <2>2. cache' = cache /\ fate' = fate
    BY <2>1, CacheWriter
  <2>3. PICK f : f = cur[q]
    OBVIOUS
  <2>4. /\ Held(f)' = Held(f) /\ Cached(f)' = Cached(f)
        /\ Latest(f)' = Latest(f) /\ Entry(f)' = Entry(f)
    BY <2>2, CacheSame
  <2>5. /\ Held(cur[q])' = Held(cur[q]) /\ Cached(cur[q])' = Cached(cur[q])
        /\ Latest(cur[q])' = Latest(cur[q]) /\ Entry(cur[q])' = Entry(cur[q])
    BY <1>1, <2>3, <2>4
  <2> QED
    BY <1>1, <2>2, <2>5 DEF CacheInv, HandIsEntry, BuiltToday, NothingInHand, CreditIsBacked
<1> QED
  BY <1>2, <1>3

\* What the last four conjuncts of CacheInv say of one process.
HandIsRight(p) ==
    /\ pc[p] \in {"probe", "cached"} =>
          Cached(cur[p]) /\ hand[p].e = Entry(cur[p]) /\ hand[p].q = Latest(cur[p])
    /\ pc[p] = "write" =>
          /\ hand[p].how = "built" /\ hand[p].e.probed = job[p].day
          /\ hand[p].q <= disclosed
          /\ hand[p].q # 0 => \A r \in Held(cur[p]) : r <= hand[p].q
    /\ pc[p] \in Waiting \cup {"idle"} => hand[p].how = "nothing"
    /\ pc[p] = "next" /\ hand[p].how = "credited" /\ fate[job[p].day][cur[p]] = "kept"
          => hand[p].e # None /\ hand[p].e.probed = job[p].day

HandsAreRight == \A p \in Procs : HandIsRight(p)

\* A step that writes neither the cache nor a fund's fate.
LEMMA SilentCache ==
    ASSUME TypeInv, OfToday, CacheInv, NEW p \in Procs, Acts(p),
           UNCHANGED <<clock, disclosed, cache, fate>>, HandIsRight(p)'
    PROVE  CacheInv'
<1>1. \A q \in Procs \ {p} : HandIsRight(q)'
  BY OthersHand DEF HandIsRight
<1>2. HandsAreRight'
  BY <1>1 DEF HandsAreRight
<1>3. (HandIsEntry /\ BuiltToday /\ NothingInHand /\ CreditIsBacked)'
  BY <1>2 DEF HandsAreRight, HandIsRight, HandIsEntry, BuiltToday, NothingInHand, CreditIsBacked
<1>4. Past' /\ FateAhead'
  BY DEF CacheInv, Past, FateAhead
<1>5. KeptIsToday'
  <2> SUFFICES ASSUME NEW f \in Active, fate'[clock'][f] = "kept"
               PROVE  Cached(f)' /\ Entry(f)'.probed = clock'
    BY DEF KeptIsToday
  <2>1. Cached(f)' = Cached(f) /\ Entry(f)' = Entry(f)
    BY CacheSame
  <2> QED
    BY <2>1 DEF CacheInv, KeptIsToday
<1> QED
  BY <1>3, <1>4, <1>5 DEF CacheInv

\* A step that puts at a fund's latest quarter, or at one as late, a snapshot
\* dated today or as the one that was there.
LEMMA PutToday ==
    ASSUME TypeInv, TypeInv', OfToday, CacheInv, NEW p \in Procs, Acts(p), pc[p] \in Looping,
           UNCHANGED <<clock, disclosed>>,
           NEW f \in Funds, NEW q \in Quarters, NEW e \in Entries, q <= disclosed,
           \A r \in Held(f) : r <= q,
           Put(f, q, e), e.probed <= clock,
           \/ e.probed = clock
           \/ Cached(f) /\ e.probed = Entry(f).probed /\ fate' = fate,
           \A d \in Days, g \in Active : d # clock \/ g # f => fate'[d][g] = fate[d][g],
           HandIsRight(p)'
    PROVE  CacheInv'
<1>1. clock \in Days
  BY DEF TypeInv, LockInv, Shape
<1>2. /\ Cached(f)' /\ Latest(f)' = q /\ Entry(f)' = e
      /\ cache'[f] = [cache[f] EXCEPT ![q] = e]
      /\ \A g \in Funds \ {f} : cache'[g] = cache[g]
  BY PutLatest DEF TypeInv
<1>3. \A g \in Funds \ {f} : Cached(g)' = Cached(g) /\ Entry(g)' = Entry(g)
  BY <1>2, CacheSame
<1>4. Past'
  <2> SUFFICES ASSUME NEW g \in Funds, NEW r \in Quarters, cache'[g][r] # None
               PROVE  cache'[g][r].probed <= clock' /\ r <= disclosed'
    BY DEF Past
  <2>1. CASE g = f /\ r = q
    BY <1>2, <2>1 DEF TypeInv, CacheTyped
  <2>2. CASE ~(g = f /\ r = q)
    <3>1. cache'[g][r] = cache[g][r]
      BY <1>2, <2>2 DEF TypeInv, CacheTyped
    <3> QED
      BY <3>1 DEF CacheInv, Past
  <2> QED
    BY <2>1, <2>2
<1>5. FateAhead'
  <2> SUFFICES ASSUME NEW d \in Days, d > clock', NEW g \in Active
               PROVE  fate'[d][g] = "none"
    BY DEF FateAhead
  <2>1. d # clock /\ d > clock
    BY <1>1 DEF Days
  <2> QED
    BY <2>1 DEF CacheInv, FateAhead
<1>6. KeptIsToday'
  <2> SUFFICES ASSUME NEW g \in Active, fate'[clock'][g] = "kept"
               PROVE  Cached(g)' /\ Entry(g)'.probed = clock'
    BY DEF KeptIsToday
  <2>1. CASE g # f
    <3>1. fate[clock][g] = "kept"
      BY <1>1, <2>1
    <3>2. g \in Funds \ {f}
      BY <2>1 DEF Funds
    <3> QED
      BY <1>3, <3>1, <3>2 DEF CacheInv, KeptIsToday
  <2>2. CASE g = f /\ e.probed = clock
    BY <1>2, <2>2
  <2>3. CASE g = f /\ Cached(f) /\ e.probed = Entry(f).probed /\ fate' = fate
    <3>1. fate[clock][g] = "kept"
      BY <2>3
    <3>2. Entry(f).probed = clock
      BY <2>3, <3>1 DEF CacheInv, KeptIsToday
    <3> QED
      BY <1>2, <2>3, <3>2
  <2> QED
    BY <2>1, <2>2, <2>3
<1>7. \A r \in Procs \ {p} : HandIsRight(r)'
  BY OthersHand DEF HandIsRight
<1>8. HandsAreRight'
  BY <1>7 DEF HandsAreRight
<1>9. (HandIsEntry /\ BuiltToday /\ NothingInHand /\ CreditIsBacked)'
  BY <1>8 DEF HandsAreRight, HandIsRight, HandIsEntry, BuiltToday, NothingInHand, CreditIsBacked
<1> QED
  BY <1>4, <1>5, <1>6, <1>9 DEF CacheInv

\* What each writer of the cache writes.
LEMMA ProbeWrites ==
    ASSUME TypeInv, OfToday, CacheInv, NEW p \in Procs, ProbeHolds(p), ~UNCHANGED <<cache, hand>>
    PROVE  LET e == [hand[p].e EXCEPT !.probed = clock]
           IN  /\ Put(cur[p], hand[p].q, e) /\ hand' = [hand EXCEPT ![p].e = e]
               /\ hand[p].q \in Quarters /\ hand[p].q = Latest(cur[p])
               /\ hand[p].q <= disclosed
               /\ hand[p].e = Entry(cur[p]) /\ Cached(cur[p]) /\ e \in Entries
               /\ e.probed = clock /\ e.legs = hand[p].e.legs
<1>1. pc[p] = "probe" /\ hand[p].q = disclosed
  BY DEF ProbeHolds, Go
<1>2. job[p].day = clock
  BY <1>1 DEF OfToday
<1>3. hand[p].e \in Entries /\ hand[p].q \in Quarters
  BY <1>1 DEF TypeInv, HandTyped, HandThere, Hands
<1>4. Cached(cur[p]) /\ hand[p].e = Entry(cur[p]) /\ hand[p].q = Latest(cur[p])
  BY <1>1 DEF CacheInv, HandIsEntry
<1>5. clock \in 0..LastDay /\ hand[p].q <= disclosed
  BY <1>1 DEF TypeInv, LockInv, Shape, Days, CacheTyped, Quarters
<1> DEFINE e == [hand[p].e EXCEPT !.probed = clock]
<1>6. e \in Entries /\ e.probed = clock /\ e.legs = hand[p].e.legs
  BY <1>3, <1>5 DEF Entries
<1>7. Put(cur[p], hand[p].q, e) /\ hand' = [hand EXCEPT ![p].e = e]
  BY <1>2 DEF ProbeHolds
<1> QED
  BY <1>3, <1>4, <1>5, <1>6, <1>7

LEMMA RepairWrites ==
    ASSUME TypeInv, OfToday, CacheInv, NEW p \in Procs, Repair(p), cache' # cache
    PROVE  \E e \in Entries :
              /\ Put(cur[p], hand[p].q, e) /\ hand' = [hand EXCEPT ![p].e = e]
              /\ hand[p].q \in Quarters /\ hand[p].q = Latest(cur[p])
              /\ hand[p].e = Entry(cur[p]) /\ Cached(cur[p])
              /\ e.probed = hand[p].e.probed /\ hand[p].e.legs \subseteq e.legs
<1>1. pc[p] = "cached"
  BY DEF Repair, Go
<1>2. hand[p].e \in Entries /\ hand[p].q \in Quarters
  BY <1>1 DEF TypeInv, HandTyped, HandThere, Hands
<1>3. Cached(cur[p]) /\ hand[p].e = Entry(cur[p]) /\ hand[p].q = Latest(cur[p])
  BY <1>1 DEF CacheInv, HandIsEntry
<1>4. PICK fresh \in SUBSET Legs :
         LET e == [hand[p].e EXCEPT !.legs = Merged(@, fresh)]
         IN  hand' = [hand EXCEPT ![p].e = e] /\ Put(cur[p], hand[p].q, e)
  BY DEF Repair
<1> DEFINE e == [hand[p].e EXCEPT !.legs = Merged(@, fresh)]
<1>5. e \in Entries /\ e.probed = hand[p].e.probed /\ hand[p].e.legs \subseteq e.legs
  BY <1>2 DEF Entries, Merged
<1>6. hand' = [hand EXCEPT ![p].e = e] /\ Put(cur[p], hand[p].q, e)
  BY <1>4
<1> HIDE DEF e
<1> QED
  BY <1>2, <1>3, <1>5, <1>6

LEMMA BuildWrites ==
    ASSUME TypeInv, OfToday, CacheInv, NEW p \in Procs, WriteCache(p), cache' # cache
    PROVE  /\ Put(cur[p], hand[p].q, hand[p].e) /\ Ended(p, "kept")
           /\ hand[p].q \in Quarters /\ hand[p].q <= disclosed
           /\ \A r \in Held(cur[p]) : r <= hand[p].q
           /\ hand[p].e \in Entries /\ hand[p].e.probed = clock
<1>1. pc[p] = "write"
  BY DEF WriteCache, Go
<1>2. job[p].day = clock
  BY <1>1 DEF OfToday
<1>3. hand[p].q # 0 /\ Put(cur[p], hand[p].q, hand[p].e) /\ Ended(p, "kept")
  BY DEF WriteCache
<1>4. hand[p].e \in Entries /\ hand[p].q \in 0..LastQuarter
  BY <1>1 DEF TypeInv, HandTyped, HandThere, Hands
<1>5. hand[p].q \in Quarters
  BY <1>3, <1>4, BoundAssumption DEF Quarters
<1> QED
  BY <1>1, <1>2, <1>3, <1>4, <1>5 DEF CacheInv, BuiltToday

\* A process's own hand after a step of its own.
LEMMA OwnHand ==
    ASSUME TypeInv, TypeInv', FileInv, OfToday, OfToday', CacheInv, NEW p \in Procs, Acts(p)
    PROVE  HandIsRight(p)'
<1>1. CASE Leave(p)
  <2>1. pc'[p] = "idle" /\ hand'[p] = NoHand
    BY <1>1 DEF Leave, TypeInv, LockInv, Shape, HandTyped
  <2> QED
    BY <2>1 DEF HandIsRight, NoHand, Waiting
<1>2. CASE (Begin(p) \/ Gate(p) \/ Lock(p) \/ Busy(p)) /\ ~Leave(p)
  <2>1. PICK from \in Waiting \cup {"idle"}, to \in Waiting \cup {"next"} : Go(p, from, to)
    BY <1>2 DEF Begin, Gate, Lock, Busy, Waiting
  <2>2. pc[p] = from /\ pc'[p] = to
    BY <2>1, GoPlaces DEF TypeInv, LockInv
  <2>3. hand' = hand
    BY <1>2 DEF Begin, Gate, Lock, Busy
  <2>4. hand'[p].how = "nothing"
    BY <2>2, <2>3 DEF CacheInv, NothingInHand
  <2>5. pc'[p] \notin {"probe", "cached", "write"}
    BY <2>2 DEF Waiting
  <2> QED
    BY <2>4, <2>5 DEF HandIsRight
<1>3. CASE NextFund(p)
  <2>1. PICK f : f = First(todo[p])
    OBVIOUS
  <2>2. f \in Funds
    BY <1>3, <2>1, FirstOfSome DEF NextFund, TypeInv, LockInv, Shape
  <2>3. cache' = cache /\ fate' = fate /\ job' = job
    BY <1>3 DEF NextFund, TakeCredited, TakeToBuild, TakeToProbe, TakeCached, Take, world
  <2>4. Latest(f)' = Latest(f) /\ Cached(f)' = Cached(f) /\ Entry(f)' = Entry(f)
    BY <2>3, CacheSame
  <2>5. job[p].day = clock
    <3>1. pc[p] = "next"
      BY <1>3 DEF NextFund, TakeCredited, TakeToBuild, TakeToProbe, TakeCached, Take, Go
    <3> QED
      BY <3>1 DEF OfToday
  <2>6. ASSUME NEW h, NEW to, Take(p, f, h, to)
        PROVE  pc'[p] = to /\ cur'[p] = f /\ hand'[p] = h
    BY <2>6 DEF Take, Go, TypeInv, LockInv, Shape, HandTyped
  <2>7. CASE TakeCredited(p, f)
    <3>1. /\ pc'[p] = "next" /\ cur'[p] = f /\ hand'[p] = Loaded(f, "credited")
          /\ f \in job[p].credit
      BY <2>6, <2>7 DEF TakeCredited
    <3>2. ASSUME fate[clock][f] = "kept"
          PROVE  hand'[p].e # None /\ hand'[p].e.probed = clock
      <4>1. f \in Active
        BY <3>1 DEF TypeInv, LockInv, Shape, JobShape
      <4>2. Cached(f) /\ Entry(f).probed = clock
        BY <3>2, <4>1 DEF CacheInv, KeptIsToday
      <4>3. Entry(f) # None
        BY <2>2, <4>2, LatestIsHeld, NoneIsNoEntry DEF TypeInv
      <4> QED
        BY <3>1, <4>2, <4>3 DEF Loaded
    <3> QED
      BY <2>3, <2>5, <3>1, <3>2 DEF HandIsRight, Waiting
  <2>8. CASE TakeToBuild(p, f)
    <3>1. pc'[p] = "build"
      BY <2>6, <2>8 DEF TakeToBuild
    <3> QED
      BY <3>1 DEF HandIsRight, Waiting
  <2>9. CASE TakeToProbe(p, f) \/ TakeCached(p, f)
    <3>1. pc'[p] \in {"probe", "cached", "next"} /\ cur'[p] = f /\ hand'[p] = Loaded(f, "cached")
      BY <2>6, <2>9 DEF TakeToProbe, TakeCached
    <3>2. Cached(f)
      BY <2>9 DEF TakeToProbe, TakeCached, Usable
    <3>3. hand'[p] = [e |-> Entry(f), q |-> Latest(f), how |-> "cached"]
      BY <3>1, <3>2 DEF Loaded
    <3>4. Cached(cur[p])' /\ Entry(cur[p])' = Entry(f) /\ Latest(cur[p])' = Latest(f)
      BY <2>4, <3>1, <3>2
    <3> QED
      BY <3>1, <3>3, <3>4 DEF HandIsRight, Waiting
  <2> QED
    BY <1>3, <2>1, <2>7, <2>8, <2>9 DEF NextFund
<1>4. CASE ProbeTurns(p) \/ NoRepair(p) \/ Repair(p) \/ EndLoop(p) \/ Unlink(p)
  <2>1. PICK from \in Looping, to \in {"build", "save", "unlink", "close"} : Go(p, from, to)
    <3>1. CASE Repair(p)
      <4>1. Go(p, "cached", "save")
        BY <3>1 DEF Repair
      <4> QED
        BY <4>1 DEF Looping
    <3>2. CASE ~Repair(p)
      BY <1>4, <3>2 DEF ProbeTurns, NoRepair, EndLoop, Unlink, Looping
    <3> QED
      BY <3>1, <3>2
  <2>2. pc'[p] = to
    BY <2>1, GoPlaces DEF TypeInv, LockInv
  <2> QED
    BY <2>2 DEF HandIsRight, Waiting
<1>5. CASE ProbeHolds(p)
  <2>1. pc[p] = "probe" /\ pc'[p] = "cached" /\ cur' = cur
    BY <1>5, GoPlaces DEF ProbeHolds, TypeInv, LockInv
  <2>2. PICK f : f = cur[p]
    OBVIOUS
  <2>3. f \in Funds
    BY <2>2 DEF TypeInv, LockInv, Shape
  <2>4. CASE ~UNCHANGED <<cache, hand>>
    <3> DEFINE e == [hand[p].e EXCEPT !.probed = clock]
    <3>1. /\ Put(f, hand[p].q, e) /\ hand' = [hand EXCEPT ![p].e = e]
          /\ hand[p].q \in Quarters /\ hand[p].q = Latest(f)
          /\ Cached(f) /\ e \in Entries
      BY <1>5, <2>2, <2>4, ProbeWrites
    <3>2. hand[p] \in Hands
      BY DEF TypeInv, HandTyped
    <3> HIDE DEF e
    <3>3. hand'[p].e = e /\ hand'[p].q = hand[p].q
      BY <3>1, <3>2 DEF TypeInv, HandTyped, Hands
    <3>4. \A r \in Held(f) : r <= hand[p].q
      BY <2>3, <3>1, LatestIsHeld DEF TypeInv
    <3>5. PICK q : q = hand[p].q
      OBVIOUS
    <3>6. PICK x : x = e
      OBVIOUS
    <3>7. Cached(f)' /\ Latest(f)' = q /\ Entry(f)' = x
      <4>1. Put(f, q, x) /\ q \in Quarters /\ x \in Entries /\ \A r \in Held(f) : r <= q
        BY <3>1, <3>4, <3>5, <3>6 DEF Put
      <4> QED
        BY <2>3, <4>1, PutLatest DEF TypeInv
    <3>8. Cached(cur[p])' /\ Latest(cur[p])' = q /\ Entry(cur[p])' = x
      BY <2>1, <2>2, <3>7
    <3> QED
      BY <2>1, <3>3, <3>5, <3>6, <3>8 DEF HandIsRight, Waiting
  <2>5. CASE UNCHANGED <<cache, hand>>
    <3>1. Latest(f)' = Latest(f) /\ Cached(f)' = Cached(f) /\ Entry(f)' = Entry(f)
      BY <2>5, CacheSame
    <3>2. /\ Latest(cur[p])' = Latest(cur[p]) /\ Cached(cur[p])' = Cached(cur[p])
          /\ Entry(cur[p])' = Entry(cur[p])
      BY <2>1, <2>2, <3>1
    <3>3. Cached(cur[p]) /\ hand[p].e = Entry(cur[p]) /\ hand[p].q = Latest(cur[p])
      BY <2>1 DEF CacheInv, HandIsEntry
    <3> QED
      BY <2>1, <2>5, <3>2, <3>3 DEF HandIsRight, Waiting
  <2> QED
    BY <2>4, <2>5
<1>6. CASE Build(p)
  <2>1. pc'[p] = "write" /\ pc[p] = "build" /\ UNCHANGED <<cur, job, cache, disclosed>>
    BY <1>6, GoPlaces DEF Build, world, TypeInv, LockInv
  <2>2. hand'[p].how = "built" /\ hand'[p].e.probed = job[p].day /\ hand'[p].q \in {0, disclosed}
    BY <1>6 DEF Build, TypeInv, HandTyped
  <2>3. disclosed \in Nat
    BY BoundAssumption DEF TypeInv, CacheTyped, Quarters
  <2>4. PICK f : f = cur[p]
    OBVIOUS
  <2>5. \A r \in Held(f) : r <= disclosed
    BY <2>4 DEF CacheInv, Past, Held, TypeInv, LockInv, Shape
  <2>6. Held(f)' = Held(f)
    BY <2>1, CacheSame
  <2>7. Held(cur[p])' = Held(f)
    BY <2>1, <2>4, <2>6
  <2> QED
    BY <2>1, <2>2, <2>3, <2>5, <2>7 DEF HandIsRight, Waiting
<1>7. CASE WriteCache(p)
  <2>1. pc[p] = "write" /\ pc'[p] \in {"save", "next"} /\ hand' = hand
    BY <1>7, GoPlaces DEF WriteCache, TypeInv, LockInv
  <2>2. hand[p].how = "built"
    BY <2>1 DEF CacheInv, BuiltToday
  <2> QED
    BY <2>1, <2>2 DEF HandIsRight, Waiting
<1>8. CASE SaveState(p)
  <2>1. pc'[p] = "next" /\ hand'[p] = NoHand
    BY <1>8, GoPlaces DEF SaveState, TypeInv, LockInv, HandTyped
  <2> QED
    BY <2>1 DEF HandIsRight, NoHand, Waiting
<1> QED
  BY <1>1, <1>2, <1>3, <1>4, <1>5, <1>6, <1>7, <1>8 DEF Acts, Step, Close, Die

\* A fund's fate is written by the one that writes the cache, and of its day.
LEMMA FateOfToday ==
    ASSUME TypeInv, OfToday, NEW p \in Procs, WriteCache(p)
    PROVE  /\ \A d \in Days, g \in Active : d # clock \/ g # cur[p] => fate'[d][g] = fate[d][g]
           /\ Ended(p, "lost") /\ cache' = cache =>
                 \A g \in Active : fate'[clock][g] = "kept" => fate[clock][g] = "kept"
<1>1. job[p].day = clock /\ clock \in Days
  BY DEF WriteCache, Go, OfToday, TypeInv, LockInv, Shape
<1>2. fate \in [Days -> [Active -> Fates]]
  BY DEF TypeInv, CountTyped
<1>3. PICK how \in {"kept", "lost"} : Ended(p, how)
  BY DEF WriteCache
<1>4. \A d \in Days, g \in Active : d # clock \/ g # cur[p] => fate'[d][g] = fate[d][g]
  BY <1>1, <1>2, <1>3 DEF Ended
<1>5. ASSUME Ended(p, "lost"), NEW g \in Active, fate'[clock][g] = "kept"
      PROVE  fate[clock][g] = "kept"
  <2>1. CASE g = cur[p]
    BY <1>1, <1>2, <1>5, <2>1 DEF Ended
  <2>2. CASE g # cur[p]
    BY <1>1, <1>4, <1>5, <2>2
  <2> QED
    BY <2>1, <2>2
<1> QED
  BY <1>4, <1>5

LEMMA StepCache ==
    ASSUME ~Midnight, TypeInv, TypeInv', FileInv, OfToday, OfToday', CacheInv, [Next]_vars
    PROVE  CacheInv'
<1>1. ASSUME NEW p \in Procs, Acts(p) PROVE CacheInv'
  <2>1. HandIsRight(p)'
    BY <1>1, OwnHand
  <2>2. PICK f : f = cur[p]
    OBVIOUS
  <2>3. f \in Funds /\ clock \in Days
    BY <2>2 DEF TypeInv, LockInv, Shape
  <2>4. CASE ProbeHolds(p) \/ Repair(p) \/ WriteCache(p)
    <3>1. UNCHANGED <<clock, disclosed>> /\ pc[p] \in Looping
      BY <2>4 DEF ProbeHolds, Repair, WriteCache, Go, Looping
    <3>2. ProbeHolds(p) \/ Repair(p) => fate' = fate
      BY DEF ProbeHolds, Repair
    <3>3. CASE ~WriteCache(p) /\ cache' = cache
      BY <1>1, <2>1, <2>4, <3>1, <3>2, <3>3, SilentCache
    <3>4. CASE ProbeHolds(p) /\ cache' # cache
      <4> DEFINE e == [hand[p].e EXCEPT !.probed = clock]
      <4>1. /\ Put(f, hand[p].q, e) /\ hand[p].q \in Quarters /\ hand[p].q = Latest(f)
            /\ hand[p].q <= disclosed /\ e \in Entries /\ e.probed = clock /\ Cached(f)
        BY <2>2, <3>4, ProbeWrites
      <4>2. \A r \in Held(f) : r <= hand[p].q
        BY <2>3, <4>1, LatestIsHeld DEF TypeInv
      <4> HIDE DEF e
      <4>3. PICK q, x : q = hand[p].q /\ x = e
        OBVIOUS
      <4>4. /\ Put(f, q, x) /\ q \in Quarters /\ q <= disclosed /\ x \in Entries
            /\ x.probed = clock /\ x.probed <= clock /\ \A r \in Held(f) : r <= q
        BY <2>3, <4>1, <4>2, <4>3 DEF Put, Days
      <4> QED
        BY <1>1, <2>1, <2>3, <3>1, <3>2, <3>4, <4>4, PutToday
    <3>5. CASE Repair(p) /\ cache' # cache
      <4>1. PICK x \in Entries :
              /\ Put(f, hand[p].q, x) /\ hand[p].q \in Quarters /\ hand[p].q = Latest(f)
              /\ hand[p].e = Entry(f) /\ Cached(f) /\ x.probed = hand[p].e.probed
        BY <2>2, <3>5, RepairWrites
      <4>2. /\ \A r \in Held(f) : r <= hand[p].q
            /\ cache[f][hand[p].q] # None
        BY <2>3, <4>1, LatestIsHeld DEF TypeInv
      <4>3. PICK q : q = hand[p].q
        OBVIOUS
      <4>4. q \in Quarters /\ cache[f][q] # None /\ cache[f][q] = Entry(f)
        BY <4>1, <4>2, <4>3 DEF Entry
      <4>5. /\ Put(f, q, x) /\ q <= disclosed
            /\ x.probed = Entry(f).probed /\ x.probed <= clock /\ \A r \in Held(f) : r <= q
        BY <2>3, <4>1, <4>2, <4>3, <4>4 DEF Put, CacheInv, Past
      <4> QED
        BY <1>1, <2>1, <2>3, <3>1, <3>2, <3>5, <4>1, <4>4, <4>5, PutToday
    <3>6. CASE WriteCache(p) /\ cache' # cache
      <4>1. /\ Put(f, hand[p].q, hand[p].e) /\ hand[p].q \in Quarters /\ hand[p].q <= disclosed
            /\ \A r \in Held(f) : r <= hand[p].q
            /\ hand[p].e \in Entries /\ hand[p].e.probed = clock
        BY <2>2, <3>6, BuildWrites
      <4>2. PICK q, x : q = hand[p].q /\ x = hand[p].e
        OBVIOUS
      <4>3. /\ Put(f, q, x) /\ q \in Quarters /\ q <= disclosed /\ x \in Entries
            /\ x.probed = clock /\ x.probed <= clock /\ \A r \in Held(f) : r <= q
        BY <2>3, <4>1, <4>2 DEF Put, Days
      <4>4. \A d \in Days, g \in Active : d # clock \/ g # f => fate'[d][g] = fate[d][g]
        BY <2>2, <3>6, FateOfToday
      <4> QED
        BY <1>1, <2>1, <2>3, <3>1, <4>3, <4>4, PutToday
    <3>7. CASE WriteCache(p) /\ cache' = cache
      <4>1. CASE Ended(p, "lost")
        <5>1. /\ \A d \in Days, g \in Active : d # clock => fate'[d][g] = fate[d][g]
              /\ \A g \in Active : fate'[clock][g] = "kept" => fate[clock][g] = "kept"
          BY <3>7, <4>1, FateOfToday
        <5>2. \A q \in Procs \ {p} : HandIsRight(q)'
          BY <1>1, <3>1, OthersHand DEF HandIsRight
        <5>3. HandsAreRight'
          BY <2>1, <5>2 DEF HandsAreRight
        <5>4. (HandIsEntry /\ BuiltToday /\ NothingInHand /\ CreditIsBacked)'
          BY <5>3 DEF HandsAreRight, HandIsRight, HandIsEntry, BuiltToday, NothingInHand,
             CreditIsBacked
        <5>5. Past'
          BY <3>1, <3>7 DEF CacheInv, Past
        <5>6. FateAhead'
          <6> SUFFICES ASSUME NEW d \in Days, d > clock', NEW g \in Active
                       PROVE  fate'[d][g] = "none"
            BY DEF FateAhead
          <6>1. d # clock /\ d > clock
            BY <2>3, <3>1 DEF Days
          <6> QED
            BY <5>1, <6>1 DEF CacheInv, FateAhead
        <5>7. KeptIsToday'
          <6> SUFFICES ASSUME NEW g \in Active, fate'[clock'][g] = "kept"
                       PROVE  Cached(g)' /\ Entry(g)'.probed = clock'
            BY DEF KeptIsToday
          <6>1. Cached(g)' = Cached(g) /\ Entry(g)' = Entry(g)
            BY <3>7, CacheSame
          <6>2. fate[clock][g] = "kept"
            BY <3>1, <5>1
          <6> QED
            BY <3>1, <6>1, <6>2 DEF CacheInv, KeptIsToday
        <5> QED
          BY <5>4, <5>5, <5>6, <5>7 DEF CacheInv
      <4>2. CASE ~Ended(p, "lost")
        <5>1. /\ Put(cur[p], hand[p].q, hand[p].e) /\ hand[p].q # 0
              /\ Ended(p, "kept")
          BY <3>7, <4>2 DEF WriteCache
        <5>2. pc[p] = "write" /\ job[p].day = clock
          BY <3>7 DEF WriteCache, Go, OfToday
        <5>3. hand[p].e \in Entries /\ hand[p].q \in Quarters
          <6>1. hand[p].e \in Entries /\ hand[p].q \in 0..LastQuarter
            BY <5>2 DEF TypeInv, HandTyped, HandThere, Hands
          <6> QED
            BY <5>1, <6>1, BoundAssumption DEF Quarters
        <5>4. PICK q, x : q = hand[p].q /\ x = hand[p].e
          OBVIOUS
        <5>5. /\ Put(f, q, x) /\ q \in Quarters /\ q <= disclosed /\ x \in Entries
              /\ x.probed = clock /\ x.probed <= clock /\ \A r \in Held(f) : r <= q
          BY <2>2, <2>3, <5>1, <5>2, <5>3, <5>4 DEF Put, Days, CacheInv, BuiltToday
        <5>6. \A d \in Days, g \in Active : d # clock \/ g # f => fate'[d][g] = fate[d][g]
          BY <2>2, <3>7, FateOfToday
        <5> QED
          BY <1>1, <2>1, <2>3, <3>1, <5>5, <5>6, PutToday
      <4> QED
        BY <4>1, <4>2
    <3> QED
      BY <2>4, <3>3, <3>4, <3>5, <3>6, <3>7
  <2>5. CASE ~(ProbeHolds(p) \/ Repair(p) \/ WriteCache(p))
    <3>1. UNCHANGED <<clock, disclosed, cache, fate>>
      <4>1. CASE Leave(p)
        BY <4>1 DEF Leave
      <4>2. CASE (Begin(p) \/ Gate(p) \/ Lock(p) \/ Busy(p)) /\ ~Leave(p)
        BY <4>2 DEF Begin, Gate, Lock, Busy, world
      <4>3. CASE NextFund(p)
        BY <4>3 DEF NextFund, TakeCredited, TakeToBuild, TakeToProbe, TakeCached, Take, world
      <4>4. CASE ProbeTurns(p) \/ NoRepair(p) \/ EndLoop(p) \/ Build(p)
        BY <4>4 DEF ProbeTurns, NoRepair, EndLoop, Build, world
      <4>5. CASE SaveState(p) \/ Unlink(p)
        BY <4>5 DEF SaveState, Unlink
      <4> QED
        BY <1>1, <2>5, <4>1, <4>2, <4>3, <4>4, <4>5 DEF Acts, Step, Close, Die
    <3> QED
      BY <1>1, <2>1, <3>1, SilentCache
  <2> QED
    BY <2>4, <2>5
<1>2. CASE Tick
  <2>1. /\ clock' = clock + 1 /\ clock \in Days /\ clock' \in Days
        /\ \A p \in Procs : pc'[p] = "idle" /\ hand'[p] = hand[p] /\ pc[p] = "idle"
        /\ UNCHANGED <<cache, disclosed, fate>>
    BY <1>2 DEF Tick, TypeInv, LockInv, Shape
  <2>2. Past'
    <3> SUFFICES ASSUME NEW f \in Funds, NEW q \in Quarters, cache'[f][q] # None
                 PROVE  cache'[f][q].probed <= clock' /\ q <= disclosed'
      BY DEF Past
    <3>1. cache[f][q] # None /\ cache[f][q].probed <= clock /\ q <= disclosed
      BY <2>1 DEF CacheInv, Past
    <3>2. cache[f][q].probed \in Int
      BY <3>1 DEF TypeInv, CacheTyped, Entries
    <3> QED
      BY <2>1, <3>1, <3>2 DEF Days
  <2>3. FateAhead'
    BY <2>1 DEF CacheInv, FateAhead, Days
  <2>4. KeptIsToday'
    <3>1. \A f \in Active : fate[clock'][f] = "none"
      BY <2>1 DEF CacheInv, FateAhead, Days
    <3> QED
      BY <2>1, <3>1 DEF KeptIsToday
  <2>5. (HandIsEntry /\ BuiltToday /\ NothingInHand /\ CreditIsBacked)'
    BY <2>1 DEF CacheInv, HandIsEntry, BuiltToday, NothingInHand, CreditIsBacked
  <2> QED
    BY <2>2, <2>3, <2>4, <2>5 DEF CacheInv
<1>3. CASE Disclose
  <2>1. /\ disclosed' = disclosed + 1 /\ disclosed \in Nat
        /\ UNCHANGED <<clock, cache, pc, job, cur, hand, fate>>
    BY <1>3, BoundAssumption DEF Disclose, TypeInv, CacheTyped, Quarters
  <2>2. Past'
    BY <2>1, BoundAssumption DEF CacheInv, Past, Quarters
  <2>3. FateAhead'
    BY <2>1 DEF CacheInv, FateAhead
  <2>4. KeptIsToday'
    BY <2>1 DEF CacheInv, KeptIsToday, Cached, Held, Entry, Latest
  <2>5. HandIsEntry'
    BY <2>1 DEF CacheInv, HandIsEntry, Cached, Held, Entry, Latest
  <2>6. BuiltToday'
    <3> SUFFICES ASSUME NEW p \in Procs, pc'[p] = "write"
                 PROVE  /\ hand'[p].how = "built" /\ hand'[p].e.probed = job'[p].day
                        /\ hand'[p].q <= disclosed'
                        /\ hand'[p].q # 0 => \A r \in Held(cur[p])' : r <= hand'[p].q
      BY DEF BuiltToday
    <3>1. hand[p].q \in Int
      BY DEF TypeInv, HandTyped, Hands
    <3>2. Held(cur[p])' = Held(cur[p])
      BY <2>1 DEF Held
    <3> QED
      BY <2>1, <3>1, <3>2 DEF CacheInv, BuiltToday
  <2>7. NothingInHand' /\ CreditIsBacked'
    BY <2>1 DEF CacheInv, NothingInHand, CreditIsBacked
  <2> QED
    BY <2>2, <2>3, <2>4, <2>5, <2>6, <2>7 DEF CacheInv
<1>4. CASE UNCHANGED vars
  <2>1. UNCHANGED <<clock, disclosed, cache, pc, job, cur, hand, fate>>
    BY <1>4 DEF vars, world
  <2>2. Past' /\ FateAhead' /\ NothingInHand' /\ CreditIsBacked'
    BY <2>1 DEF CacheInv, Past, FateAhead, NothingInHand, CreditIsBacked
  <2>3. KeptIsToday' /\ HandIsEntry'
    BY <2>1 DEF CacheInv, KeptIsToday, HandIsEntry, Cached, Held, Entry, Latest
  <2>4. BuiltToday'
    BY <2>1 DEF CacheInv, BuiltToday, Held
  <2> QED
    BY <2>2, <2>3, <2>4 DEF CacheInv
<1> QED
  BY <1>1, <1>2, <1>3, <1>4 DEF Next, Acts

\* What a step writes is no worse than what was there.
LEMMA StepImproves ==
    ASSUME TypeInv, OfToday, CacheInv, [Next]_vars,
           NEW f \in Funds, NEW q \in Quarters, cache[f][q] # None
    PROVE  /\ cache'[f][q] # None
           /\ cache'[f][q].probed >= cache[f][q].probed
           /\ \/ cache[f][q].legs \subseteq cache'[f][q].legs
              \/ \E p \in Procs : pc[p] = "write"
<1>1. cache[f][q] \in Entries /\ cache[f][q].probed \in Int /\ cache[f][q].probed <= clock
  BY DEF TypeInv, CacheTyped, Entries, CacheInv, Past
<1>2. CASE cache'[f][q] = cache[f][q]
  BY <1>1, <1>2
<1>3. CASE cache'[f][q] # cache[f][q]
  <2>1. PICK p \in Procs : Acts(p)
    BY <1>3 DEF Next, Acts, Tick, Disclose, vars, world
  <2>2. ASSUME NEW g \in Funds, NEW r, NEW e \in Entries, Put(g, r, e)
        PROVE  f = g /\ q = r /\ cache'[f][q] = e
    BY <1>3, <2>2 DEF Put, TypeInv, CacheTyped
  <2>3. cur[p] \in Funds
    BY DEF TypeInv, LockInv, Shape
  <2>4. CASE ProbeHolds(p)
    <3> DEFINE e == [hand[p].e EXCEPT !.probed = clock]
    <3>1. /\ Put(cur[p], hand[p].q, e) /\ hand[p].q = Latest(cur[p])
          /\ hand[p].e = Entry(cur[p]) /\ e \in Entries
          /\ e.probed = clock /\ e.legs = hand[p].e.legs
      BY <1>3, <2>4, ProbeWrites
    <3> HIDE DEF e
    <3>2. f = cur[p] /\ q = hand[p].q /\ cache'[f][q] = e
      BY <2>2, <2>3, <3>1
    <3>3. cache[f][q] = hand[p].e
      BY <3>1, <3>2 DEF Entry
    <3> QED
      BY <1>1, <3>1, <3>2, <3>3, NoneIsNoEntry
  <2>5. CASE Repair(p)
    <3>1. PICK e \in Entries :
              /\ Put(cur[p], hand[p].q, e) /\ hand[p].q = Latest(cur[p])
              /\ hand[p].e = Entry(cur[p])
              /\ e.probed = hand[p].e.probed /\ hand[p].e.legs \subseteq e.legs
      BY <1>3, <2>5, RepairWrites
    <3>2. f = cur[p] /\ q = hand[p].q /\ cache'[f][q] = e
      BY <2>2, <2>3, <3>1
    <3>3. cache[f][q] = hand[p].e
      BY <3>1, <3>2 DEF Entry
    <3> QED
      BY <1>1, <3>1, <3>2, <3>3, NoneIsNoEntry
  <2>6. CASE WriteCache(p)
    <3>1. Put(cur[p], hand[p].q, hand[p].e) /\ hand[p].e \in Entries /\ hand[p].e.probed = clock
      BY <1>3, <2>6, BuildWrites
    <3>2. cache'[f][q] = hand[p].e
      BY <2>2, <2>3, <3>1
    <3>3. pc[p] = "write"
      BY <2>6 DEF WriteCache, Go
    <3> QED
      BY <1>1, <3>1, <3>2, <3>3, NoneIsNoEntry
  <2>7. CASE ~(ProbeHolds(p) \/ Repair(p) \/ WriteCache(p))
    <3>1. cache' = cache
      <4>1. CASE Leave(p)
        BY <4>1 DEF Leave
      <4>2. CASE (Begin(p) \/ Gate(p) \/ Lock(p) \/ Busy(p)) /\ ~Leave(p)
        BY <4>2 DEF Begin, Gate, Lock, Busy, world
      <4>3. CASE NextFund(p)
        BY <4>3 DEF NextFund, TakeCredited, TakeToBuild, TakeToProbe, TakeCached, Take, world
      <4>4. CASE ProbeTurns(p) \/ NoRepair(p) \/ EndLoop(p) \/ Build(p)
        BY <4>4 DEF ProbeTurns, NoRepair, EndLoop, Build, world
      <4>5. CASE SaveState(p) \/ Unlink(p)
        BY <4>5 DEF SaveState, Unlink
      <4> QED
        BY <2>1, <2>7, <4>1, <4>2, <4>3, <4>4, <4>5 DEF Acts, Step, Close, Die
    <3> QED
      BY <1>3, <3>1
  <2> QED
    BY <2>4, <2>5, <2>6, <2>7
<1> QED
  BY <1>2, <1>3

FetchInv == TypeInv /\ FileInv /\ OfToday /\ CacheInv

LEMMA InitFetch == Init => FetchInv
BY InitTypes, InitFile, InitCalls, InitCache DEF FetchInv, CallInv

LEMMA StepFetch == ASSUME ~Midnight PROVE FetchInv /\ [Next]_vars => FetchInv'
<1> SUFFICES ASSUME FetchInv, [Next]_vars PROVE FetchInv'
  OBVIOUS
<1>1. TypeInv'
  BY StepTypes DEF FetchInv
<1>2. FileInv'
  BY StepFile DEF FetchInv, TypeInv
<1>3. OfToday'
  BY <1>1, StepToday DEF FetchInv
<1>4. CacheInv'
  BY <1>1, <1>3, StepCache DEF FetchInv
<1> QED
  BY <1>1, <1>2, <1>3, <1>4 DEF FetchInv

\* While no date change falls into a run, a fund a resumed run credits, and
\* whose snapshot has reached the cache, is served a snapshot of the day.
THEOREM CreditsAreBacked == ASSUME ~Midnight PROVE Spec => []CreditIsBacked
<1>1. FetchInv /\ [Next]_vars => FetchInv'
  BY StepFetch
<1>2. FetchInv => CreditIsBacked
  BY DEF FetchInv, CacheInv
<1> QED
  BY InitFetch, <1>1, <1>2, PTL DEF Spec

\* And no step of any run makes a cached snapshot worse, a full fetch apart.
THEOREM CacheImproves == ASSUME ~Midnight PROVE Spec => CacheOnlyImproves
<1>1. FetchInv /\ [Next]_vars => FetchInv'
  BY StepFetch
<1>2. FetchInv /\ [Next]_vars =>
        [\A f \in Funds, q \in Quarters :
           cache[f][q] # None =>
              /\ cache'[f][q] # None
              /\ cache'[f][q].probed >= cache[f][q].probed
              /\ \/ cache[f][q].legs \subseteq cache'[f][q].legs
                 \/ \E p \in Procs : pc[p] = "write"]_vars
  BY StepImproves DEF FetchInv
<1> QED
  BY InitFetch, <1>1, <1>2, PTL DEF Spec, CacheOnlyImproves

-----------------------------------------------------------------------------
(* Policy B.  The code cuts the top half off at the weight of its last     *)
(* place; what it is for is said by how many holdings outweigh one.        *)

LEMMA LightestIs ==
    ASSUME NEW S, S # {}, NEW w, \A h \in S : w[h] \in Nat
    PROVE  \E m \in S : \A h \in S : w[m] <= w[h]
<1>. DEFINE W == {w[h] : h \in S}
<1>1. PICK n \in W : \A m \in W : n <= m
  <2>1. W \subseteq Nat /\ W # {}
    OBVIOUS
  <2>. QED
    BY <2>1, HasLeast
<1>2. PICK m \in S : n = w[m]
  OBVIOUS
<1>. QED
  BY <1>1, <1>2

\* The heaviest is the one outweighed by the fewest.
LEMMA HeaviestIs ==
    ASSUME NEW S, S # {}, IsFiniteSet(S), NEW w, \A h \in S : w[h] \in Nat
    PROVE  \E m \in S : \A h \in S : w[h] <= w[m]
<1>. DEFINE Above(h) == {k \in S : w[k] > w[h]}
            count == [h \in S |-> Cardinality(Above(h))]
<1>1. \A h \in S : IsFiniteSet(Above(h)) /\ count[h] \in Nat
  BY FS_Subset, FS_CardinalityType
<1>2. PICK m \in S : \A h \in S : count[m] <= count[h]
  <2>. HIDE DEF count
  <2>. QED
    BY <1>1, LightestIs
<1>3. ASSUME NEW k \in S, w[k] > w[m] PROVE FALSE
  <2>1. Above(k) \subseteq Above(m) /\ k \in Above(m) /\ k \notin Above(k)
    BY <1>3
  <2>2. Cardinality(Above(k)) <= Cardinality(Above(m))
        /\ Cardinality(Above(k)) # Cardinality(Above(m))
    BY <1>1, <2>1, FS_Subset
  <2>3. count[m] <= count[k] /\ count[m] \in Nat /\ count[k] \in Nat
    BY <1>1, <1>2
  <2>. QED
    BY <2>2, <2>3
<1>. QED
  BY <1>3

LEMMA QuorumIsSome == Quorum \in Nat /\ Quorum > 0
<1>1. TopHoldings \in Nat /\ TopHoldings >= 1
  BY FundCaseAssumption
<1>2. \A n \in Nat : n >= 1 => (n + 1) \div 2 \in Nat /\ (n + 1) \div 2 > 0
  OBVIOUS
<1>. QED
  BY <1>1, <1>2 DEF Quorum

\* A snapshot of an active fund: finitely many holdings, each with a weight.
Disclosed(s) ==
    /\ IsFiniteSet(DOMAIN s.parts) /\ \A h \in DOMAIN s.parts : s.weight[h] \in Nat

LEMMA MaterialIs ==
    ASSUME NEW s, Disclosed(s), NEW h \in DOMAIN s.parts
    PROVE  h \in Material(s)
             <=> Cardinality({k \in DOMAIN s.parts : s.weight[k] > s.weight[h]}) < Quorum
<1>. DEFINE hs == DOMAIN s.parts
            w  == s.weight
            AtOrAbove(g) == {k \in hs : w[k] >= w[g]}
            Above(g)     == {k \in hs : w[k] > w[g]}
            past   == {g \in hs : Cardinality(AtOrAbove(g)) >= Quorum}
            cutoff == IF past = {} THEN 0 ELSE Max({w[g] : g \in past})
<1>1. h \in Material(s) <=> w[h] >= cutoff
  BY DEF Material
<1>2. IsFiniteSet(hs) /\ \A g \in hs : w[g] \in Nat
  BY DEF Disclosed
<1>3. \A g \in hs : /\ IsFiniteSet(Above(g)) /\ Cardinality(Above(g)) \in Nat
                    /\ IsFiniteSet(AtOrAbove(g)) /\ Cardinality(AtOrAbove(g)) \in Nat
  BY <1>2, FS_Subset, FS_CardinalityType
<1>4. Quorum \in Nat /\ Quorum > 0
  BY QuorumIsSome
<1>5. past # {} =>
         /\ \E g \in past : cutoff = w[g]
         /\ \A g \in past : w[g] <= cutoff
  <2>. SUFFICES ASSUME past # {}
                PROVE  /\ \E g \in past : cutoff = w[g]
                       /\ \A g \in past : w[g] <= cutoff
    OBVIOUS
  <2>. DEFINE W == {w[g] : g \in past}
  <2>1. IsFiniteSet(past)
    BY <1>2, FS_Subset
  <2>2. PICK m \in past : \A g \in past : w[g] <= w[m]
    <3>. HIDE DEF past
    <3>. QED
      BY <1>2, <2>1, HeaviestIs DEF past
  <2>3. w[m] \in W /\ \A n \in W : n <= w[m] /\ n \in Nat
    BY <1>2, <2>2
  <2>4. Max(W) \in W /\ \A n \in W : n <= Max(W)
    <3>. HIDE DEF W
    <3>1. \E x \in W : \A y \in W : x >= y
      BY <2>3
    <3>. QED
      BY <2>3, <3>1 DEF Max
  <2>5. cutoff = Max(W)
    OBVIOUS
  <2>. HIDE DEF cutoff
  <2>. QED
    BY <2>4, <2>5
<1>9. /\ \A g \in past : g \in hs /\ Cardinality(AtOrAbove(g)) >= Quorum
      /\ \A g \in hs : Cardinality(AtOrAbove(g)) >= Quorum => g \in past
      /\ past = {} => cutoff = 0
  OBVIOUS
<1>10. /\ \A g \in hs, k \in hs : k \in Above(g) <=> w[k] > w[g]
       /\ \A g \in hs, k \in hs : k \in AtOrAbove(g) <=> w[k] >= w[g]
       /\ \A g \in hs : Above(g) \subseteq hs /\ AtOrAbove(g) \subseteq hs
  OBVIOUS
<1>8. cutoff \in Nat
  <2>. HIDE DEF past
  <2>. QED
    BY <1>2, <1>5, <1>9
<1>11. h \in hs /\ w[h] \in Nat
  BY <1>2
<1>. HIDE DEF cutoff, past, Above, AtOrAbove
<1>6. ASSUME w[h] < cutoff PROVE Cardinality(Above(h)) >= Quorum
  <2>1. past # {}
    BY <1>6, <1>9, <1>11
  <2>2. PICK g \in past : cutoff = w[g]
    BY <1>5, <2>1
  <2>3. AtOrAbove(g) \subseteq Above(h)
    BY <1>2, <1>6, <1>9, <1>10, <2>2
  <2>4. Cardinality(AtOrAbove(g)) <= Cardinality(Above(h))
    <3>1. IsFiniteSet(Above(h))
      BY <1>3
    <3>. QED
      BY <2>3, <3>1, FS_Subset
  <2>. QED
    BY <1>3, <1>4, <1>9, <2>2, <2>4
<1>7. ASSUME Cardinality(Above(h)) >= Quorum PROVE w[h] < cutoff
  <2>1. Above(h) # {}
    BY <1>4, <1>7, FS_EmptySet
  <2>2. PICK m \in Above(h) : \A k \in Above(h) : w[m] <= w[k]
    <3>1. \A k \in Above(h) : w[k] \in Nat
      BY <1>2, <1>10
    <3>. QED
      BY <2>1, <3>1, LightestIs
  <2>3. m \in hs /\ w[m] > w[h] /\ Above(h) \subseteq AtOrAbove(m)
    BY <1>2, <1>10, <2>2
  <2>4. Cardinality(Above(h)) <= Cardinality(AtOrAbove(m))
    <3>1. IsFiniteSet(AtOrAbove(m))
      BY <1>3, <2>3
    <3>. QED
      BY <2>3, <3>1, FS_Subset
  <2>5. m \in past
    BY <1>3, <1>4, <1>7, <1>9, <2>3, <2>4
  <2>6. w[m] <= cutoff
    BY <1>5, <2>5
  <2>. QED
    BY <1>2, <1>8, <2>3, <2>6
<1>. QED
  <2>1. Cardinality(Above(h)) \in Nat
    BY <1>3
  <2>2. h \in Material(s) <=> Cardinality(Above(h)) < Quorum
    BY <1>1, <1>4, <1>6, <1>7, <1>8, <1>11, <2>1
  <2>. QED
    BY <2>2 DEF Above

\* What the builder leaves of an active fund: no holding lacks evidence without
\* a reason why.
ActiveShape(s) ==
    /\ s.kind = "active" /\ s.fund \subseteq BothLegs /\ (DOMAIN s.parts = {} => s.failed)
    /\ Disclosed(s)
    /\ \A h \in DOMAIN s.parts : /\ s.parts[h].evidence \subseteq Feeds
                                 /\ s.parts[h].evidence = {} => s.parts[h].failures # {}

LEMMA SnapshotIsShaped ==
    ASSUME NEW hs \in SUBSET TopSlots, NEW w \in WeightTables, NEW listing, NEW answered,
           NEW legs
    PROVE  ActiveShape(ActiveSnapshot(hs, w, listing, answered, legs))
<1>. DEFINE s == ActiveSnapshot(hs, w, listing, answered, legs)
<1>1. /\ s.kind = "active" /\ s.fund = BothLegs \cap legs /\ DOMAIN s.parts = hs
      /\ s.failed = (hs = {} \/ legs # BothLegs)
      /\ s.weight = [h \in hs |-> w[h]]
      /\ \A h \in hs : s.parts[h] = EvidenceForConstituent(listing[h], answered[h])
  BY DEF ActiveSnapshot, FundLegs
<1>2. IsFiniteSet(hs) /\ \A h \in hs : w[h] \in Nat
  BY FundCaseAssumption, FS_Subset
<1>3. ASSUME NEW h \in hs
      PROVE  /\ s.parts[h].evidence \subseteq Feeds
             /\ s.parts[h].evidence = {} => s.parts[h].failures # {}
  <2>. DEFINE part == EvidenceForConstituent(listing[h], answered[h])
  <2>1. s.parts[h] = part
    BY <1>1
  <2>3. /\ part.evidence = Served(listing[h]) \cap answered[h]
        /\ part.failures = IF Served(listing[h]) = {} THEN {"unsupported"}
                           ELSE Served(listing[h]) \ answered[h]
    BY DEF EvidenceForConstituent
  <2>2. Served(listing[h]) \subseteq Feeds
    BY DEF Served, Feeds
  <2>. HIDE DEF s, part
  <2>. QED
    BY <2>1, <2>2, <2>3
<1>. HIDE DEF s
<1>4. Disclosed(s)
  BY <1>1, <1>2 DEF Disclosed
<1>. QED
  BY <1>1, <1>3, <1>4 DEF ActiveShape, s

LEMMA LegsAre ==
    ASSUME NEW part, part.evidence \subseteq Feeds
    PROVE  /\ LegsOf(part) \subseteq BothLegs
           /\ "data" \in LegsOf(part) <=> "filing" \in part.evidence
           /\ "information" \in LegsOf(part) <=> part.evidence \cap {"broker", "news"} # {}
<1>1. \A l : l \in LegsOf(part) <=> \E e \in part.evidence : l = LegOf(e)
  BY DEF LegsOf
<1>2. \A e \in part.evidence : e \in {"filing", "broker", "news"}
  BY DEF Feeds
<1>. QED
  BY <1>1, <1>2 DEF LegOf, BothLegs

Voiced(s, h) == s.parts[h].evidence \cap {"broker", "news"} # {}

\* The rules in their order come to this.
LEMMA PolicyBIs ==
    ASSUME NEW s, ActiveShape(s)
    PROVE  LET hs == DOMAIN s.parts
           IN  /\ hs = {} => PolicyB(s).gap # ""
               /\ hs # {} /\ ForeignHeavy(s) =>
                     /\ PolicyB(s).gap = "" <=> s.fund = BothLegs
                     /\ PolicyB(s).rule = "2.5"
               /\ hs # {} /\ ~ForeignHeavy(s) =>
                     (PolicyB(s).gap = "" <=>
                        /\ \A h \in hs : "filing" \in s.parts[h].evidence
                        /\ \A h \in Material(s) : Voiced(s, h))
               /\ PolicyB(s).gap \in KnownCodes \cup {""}
<1>. DEFINE hs == DOMAIN s.parts
            Lacks(leg, group) == \E h \in group : leg \notin LegsOf(s.parts[h])
<1>1. Material(s) \subseteq hs
  BY DEF Material
<1>2. /\ Lacks("data", hs) <=> \E h \in hs : "filing" \notin s.parts[h].evidence
      /\ Lacks("information", Material(s)) <=> \E h \in Material(s) : ~Voiced(s, h)
  BY <1>1, LegsAre DEF ActiveShape, Voiced
<1>3. ~\E h \in hs : s.parts[h].evidence = {} /\ s.parts[h].failures = {}
  BY DEF ActiveShape
<1>4. (\E h \in hs : s.parts[h].evidence = {}) => Lacks("data", hs)
  BY <1>2
<1>. DEFINE P == PolicyB(s)
<1>5. hs = {} => P.gap = "holdings_fetch_failed"
  BY DEF PolicyB, ActiveShape
<1>6. hs # {} /\ ForeignHeavy(s) =>
         /\ P.gap = IF s.fund = BothLegs THEN "" ELSE "foreign_heavy_fund_level_evidence_missing"
         /\ P.rule = "2.5"
  BY <1>3 DEF PolicyB
<1>7. hs # {} /\ ~ForeignHeavy(s) =>
         P.gap = IF Lacks("data", hs) THEN "incomplete_constituent_data"
                 ELSE IF Lacks("information", Material(s))
                 THEN "insufficient_info_coverage_top_half" ELSE ""
  BY <1>3, <1>4 DEF PolicyB
<1>. HIDE DEF P, Lacks
<1>8. hs # {} /\ ~ForeignHeavy(s) =>
         /\ P.gap = "" <=> ~Lacks("data", hs) /\ ~Lacks("information", Material(s))
         /\ P.gap \in {"", "incomplete_constituent_data", "insufficient_info_coverage_top_half"}
  BY <1>7
<1>9. hs # {} /\ ForeignHeavy(s) =>
         /\ P.gap = "" <=> s.fund = BothLegs
         /\ P.rule = "2.5"
         /\ P.gap \in {"", "foreign_heavy_fund_level_evidence_missing"}
  BY <1>6
<1>. QED
  BY <1>2, <1>5, <1>8, <1>9 DEF P, KnownCodes

LEMMA PolicyBSuffices ==
    ASSUME NEW s, ActiveShape(s)
    PROVE  PolicyB(s).gap = "" <=> Sufficient(s)
<1>. DEFINE hs == DOMAIN s.parts
            Outweighed(h) == Cardinality({k \in hs : s.weight[k] > s.weight[h]})
<1>1. Disclosed(s)
  BY DEF ActiveShape
<1>2. \A h \in hs : h \in Material(s) <=> Outweighed(h) < Quorum
  BY <1>1, MaterialIs
<1>3. Material(s) \subseteq hs
  BY DEF Material
<1>4. Sufficient(s) <=>
         /\ hs # {}
         /\ IF ForeignHeavy(s) THEN s.fund = BothLegs
            ELSE \A h \in hs : /\ "filing" \in s.parts[h].evidence
                               /\ Outweighed(h) < Quorum => Voiced(s, h)
  BY DEF Sufficient, Voiced
<1>. HIDE DEF Outweighed
<1>. QED
  BY <1>2, <1>3, <1>4, PolicyBIs

-----------------------------------------------------------------------------
(* From the snapshot to the gate.                                          *)

CaseFields == {"at", "class", "autobuild", "mapped", "snap", "row", "dims", "advice", "files"}
RowFields  == {"thesis", "gaps", "cites", "hollow", "valuation", "upside", "heat", "product",
               "state", "demoted"}

\* What may be served: an active fund's holdings, the legs of a fund, what was
\* kept of an index, or nothing.
ServedShape(s) ==
    \/ ActiveShape(s)
    \/ s.kind = "fund level" /\ s.fund \subseteq BothLegs
    \/ s.kind = "index"
    \/ s.kind = "none"

RowCodes == KnownCodes \cup {"constituent_not_applicable", "constituent_fetch_failed"}

\* A row is gapped, or it cites both legs and no holding of it is hollow.
Carried(gaps, cites, hollow) ==
    gaps \subseteq RowCodes /\ (Blocking(gaps) = {} => cites = BothLegs /\ ~hollow)

\* The four states of a row make its state, unless a rival demoted it.
Weighed(r, dims) ==
    LET own == ComposeOpportunityState(r.valuation, r.heat, r.thesis, r.product, r.upside)
    IN  /\ dims = Dimensions(r.valuation, r.heat, r.thesis, r.product, own)
        /\ IF r.demoted THEN r.state = "small_watch" /\ own # "exclude" ELSE r.state = own

RowPlaces == {"thesis", "valued", "warmed", "graded", "composed", "kept", "published"}

Undemoted == {"start", "served", "thesis", "valued", "warmed", "graded", "composed"}

CaseInv ==
    /\ DOMAIN dossier = CaseFields /\ DOMAIN dossier.row = RowFields
    /\ InCase("served") => ServedShape(dossier.snap)
    /\ dossier.at \in RowPlaces =>
          Carried(dossier.row.gaps, dossier.row.cites, dossier.row.hollow)
    /\ dossier.at \in Undemoted => dossier.row.demoted = FALSE
    /\ dossier.at \in {"composed", "kept", "published"} => Weighed(dossier.row, dossier.dims)
    /\ PublishedIsCited /\ AdviceHangsTogether

LEMMA FundLevelCarries ==
    ASSUME NEW s, s.kind = "fund level", s.fund \subseteq BothLegs, NEW report, NEW class
    PROVE  LET t == DeriveThesis(s, report, class) IN Carried(t.gaps, t.cites, FALSE)
<1>1. /\ DeriveThesis(s, report, class).cites = s.fund
      /\ DeriveThesis(s, report, class).gaps =
            (IF "data" \in s.fund THEN {} ELSE {"fund_nav_unavailable"}) \cup
            (IF "information" \in s.fund THEN {} ELSE {"fund_announcements_unavailable"})
  BY DEF DeriveThesis
<1>. QED
  BY <1>1 DEF Carried, RowCodes, KnownCodes, Blocking, BothLegs

LEMMA LegacyCarries ==
    ASSUME NEW s, s.kind = "index" \/ s.kind = "none", NEW report, NEW class
    PROVE  LET t == DeriveThesis(s, report, class) IN Carried(t.gaps, t.cites, FALSE)
<1>. DEFINE t == DeriveLegacy(s, report, class)
<1>1. DeriveThesis(s, report, class) = t
  BY DEF DeriveThesis
<1>2. NewsGap(report) \subseteq KnownCodes
  BY DEF NewsGap, KnownCodes
<1>3. ConstituentGap(s, class) \subseteq RowCodes
  BY DEF ConstituentGap, RowCodes, KnownCodes
<1>4. BrokerGap(s.lean) \subseteq KnownCodes
  BY DEF BrokerGap, KnownCodes
<1>5. \/ /\ t.gaps = NewsGap(report) \cup ConstituentGap(s, class) \cup BrokerGap(s.lean)
         /\ t.cites = IF s.lean = Missing THEN {"data"} ELSE BothLegs
      \/ t.gaps = NewsGap(report) \cup ConstituentGap(s, class)
                  \cup {"missing_constituent_snapshot"}
  BY DEF DeriveLegacy
<1>6. "missing_constituent_snapshot" \in KnownCodes
  BY DEF KnownCodes
<1>. HIDE DEF t
<1>7. t.gaps \subseteq RowCodes
  BY <1>2, <1>3, <1>4, <1>5, <1>6 DEF RowCodes
<1>8. ASSUME Blocking(t.gaps) = {} PROVE t.cites = BothLegs
  <2>1. "missing_constituent_snapshot" \notin t.gaps /\ "missing_broker_coverage" \notin t.gaps
    BY <1>8 DEF Blocking
  <2>. QED
    BY <1>5, <2>1 DEF BrokerGap
<1>. QED
  BY <1>1, <1>7, <1>8 DEF Carried

LEMMA TableCarries ==
    ASSUME NEW told, NEW drift, NEW class
    PROVE  LET t == TableThesis(told, drift, class) IN Carried(t.gaps, t.cites, FALSE)
<1>1. TableThesis(told, drift, class).gaps =
         {"missing_constituent_snapshot", "news_stage_skipped",
          IF class \in NonIndexable THEN "constituent_not_applicable" ELSE "constituent_missing"}
  BY DEF TableThesis
<1>. QED
  BY <1>1 DEF Carried, RowCodes, KnownCodes, Blocking

LEMMA ActiveCarries ==
    ASSUME NEW s, ActiveShape(s), NEW report, NEW class
    PROVE  LET t == DeriveThesis(s, report, class)
               v == PolicyB(s)
           IN  Carried(t.gaps \cup ({v.gap} \ {""}), t.cites \cup StampFundLevel(s, v),
                       Hollow(s, v))
<1>. DEFINE hs == DOMAIN s.parts
            v == PolicyB(s)
            flattened == UNION {LegsOf(s.parts[h]) : h \in hs}
            t == DeriveThesis(s, report, class)
            cites == t.cites \cup StampFundLevel(s, v)
<1>1. t.gaps = {} /\ t.cites = flattened
  BY DEF DeriveThesis, ActiveShape
<1>2. \A h \in hs : /\ LegsOf(s.parts[h]) \subseteq flattened
                    /\ LegsOf(s.parts[h]) \subseteq BothLegs
                    /\ "data" \in LegsOf(s.parts[h]) <=> "filing" \in s.parts[h].evidence
                    /\ "information" \in LegsOf(s.parts[h]) <=> Voiced(s, h)
  BY LegsAre DEF ActiveShape, Voiced
<1>3. flattened \subseteq BothLegs
  BY <1>2
<1>4. ASSUME v.gap = "", ForeignHeavy(s) PROVE cites = BothLegs /\ ~Hollow(s, v)
  <2>1. hs # {} /\ s.fund = BothLegs /\ v.rule = "2.5"
    BY <1>4, PolicyBIs
  <2>2. StampFundLevel(s, v) = BothLegs
    BY <1>4, <2>1 DEF StampFundLevel
  <2>3. ~Hollow(s, v)
    BY <1>4, <2>1 DEF Hollow
  <2>. QED
    BY <1>1, <1>3, <2>2, <2>3
<1>5. ASSUME v.gap = "", ~ForeignHeavy(s) PROVE cites = BothLegs /\ ~Hollow(s, v)
  <2>1. /\ hs # {} /\ \A h \in hs : "filing" \in s.parts[h].evidence
        /\ \A h \in Material(s) : Voiced(s, h)
    BY <1>5, PolicyBIs
  <2>2. Disclosed(s)
    BY DEF ActiveShape
  <2>3. PICK m \in hs : \A h \in hs : s.weight[h] <= s.weight[m]
    <3>1. IsFiniteSet(hs) /\ \A h \in hs : s.weight[h] \in Nat
      BY <2>2 DEF Disclosed
    <3>. DEFINE w == s.weight
    <3>2. \E m \in hs : \A h \in hs : w[h] <= w[m]
      <4>. HIDE DEF hs, w
      <4>1. \A h \in hs : w[h] \in Nat
        BY <3>1 DEF w
      <4>. QED
        BY <2>1, <3>1, <4>1, HeaviestIs
    <3>. QED
      BY <3>2
  <2>4. {k \in hs : s.weight[k] > s.weight[m]} = {}
    BY <2>2, <2>3 DEF Disclosed
  <2>5. m \in Material(s)
    <3>1. Cardinality({k \in hs : s.weight[k] > s.weight[m]}) = 0
      BY <2>4, FS_EmptySet
    <3>. QED
      BY <2>2, <3>1, MaterialIs, QuorumIsSome
  <2>6. "data" \in flattened /\ "information" \in flattened
    BY <1>2, <2>1, <2>5
  <2>7. ~Hollow(s, v)
    BY <2>1 DEF Hollow
  <2>8. StampFundLevel(s, v) \subseteq BothLegs
    BY DEF StampFundLevel, ActiveShape
  <2>. QED
    BY <1>1, <1>3, <2>6, <2>7, <2>8 DEF BothLegs
<1>6. v.gap \in KnownCodes \cup {""}
  BY PolicyBIs
<1>7. v.gap # "" /\ v.gap \in KnownCodes => v.gap # "constituent_not_applicable"
  BY DEF KnownCodes
<1>. HIDE DEF v, cites, t
<1>8. /\ t.gaps \cup ({v.gap} \ {""}) \subseteq RowCodes
      /\ Blocking(t.gaps \cup ({v.gap} \ {""})) = {} => v.gap = ""
  BY <1>1, <1>6, <1>7 DEF RowCodes, Blocking
<1>. QED
  BY <1>4, <1>5, <1>8 DEF Carried, v, cites, t

\* What a fund is advised follows from its four states.
LEMMA AdviceFollows ==
    ASSUME NEW r, NEW dims, Weighed(r, dims), NEW pos
    PROVE  /\ DcaAction(r) \in {"normal_dca", "accelerate_dca"} =>
                 /\ RiskAction(r, pos) \in {"none", "review_required"} /\ ~r.demoted
                 /\ r.thesis = "intact" /\ r.valuation \in Cheap /\ r.upside # "rich"
           /\ RiskAction(r, pos) = "exit_review" => DcaAction(r) = "do_not_buy" /\ dims # {}
           /\ RiskAction(r, pos) = "trim_review" /\ ~r.demoted =>
                 DcaAction(r) = "pause_dca" /\ dims # {}
<1>. DEFINE own == ComposeOpportunityState(r.valuation, r.heat, r.thesis, r.product, r.upside)
<1>1. /\ own \in {"exclude", "core_dca", "pause_wait", "small_watch"}
      /\ own = "exclude" <=> r.thesis = "falsified" \/ r.product = "poor"
      /\ own = "core_dca" => /\ r.valuation \in Cheap /\ r.heat \in {"cold", "normal"}
                             /\ r.thesis = "intact" /\ r.upside # "rich"
      /\ own = "pause_wait" => r.valuation \in Expensive \/ r.heat \in Hot
      /\ own = "small_watch" => ~(r.valuation \in Expensive \/ r.heat \in Hot)
  BY DEF ComposeOpportunityState
<1>2. r.valuation \in Cheap => r.valuation \notin Expensive
  BY DEF Cheap, Expensive
<1>3. r.heat \in {"cold", "normal"} => r.heat \notin Hot
  BY DEF Hot
<1>4. own \in {"exclude", "pause_wait"} => dims # {}
  BY <1>1 DEF Weighed, Dimensions
<1>5. IF r.demoted THEN r.state = "small_watch" /\ own # "exclude" ELSE r.state = own
  BY DEF Weighed
<1>6. /\ RiskAction(r, pos) = "exit_review" <=> r.thesis = "falsified" \/ r.product = "poor"
      /\ RiskAction(r, pos) = "trim_review" => r.valuation \in Expensive \/ r.heat \in Hot
      /\ RiskAction(r, pos) \in {"exit_review", "trim_review", "review_required", "none"}
  BY DEF RiskAction
<1>7. /\ DcaAction(r) \in {"normal_dca", "accelerate_dca"} =>
            r.state \notin {"exclude", "pause_wait", "small_watch"}
      /\ r.state = "exclude" => DcaAction(r) = "do_not_buy"
      /\ r.state = "pause_wait" => DcaAction(r) = "pause_dca"
  BY DEF DcaAction
<1>. HIDE DEF own
<1>. QED
  BY <1>1, <1>2, <1>3, <1>4, <1>5, <1>6, <1>7

LEMMA CaseInitially == CaseInit => CaseInv
<1>. SUFFICES ASSUME CaseInit PROVE CaseInv
  OBVIOUS
<1>1. PICK class \in Classes, autobuild \in BOOLEAN, mapped \in BOOLEAN :
         dossier = [at |-> "start", class |-> class, autobuild |-> autobuild,
                    mapped |-> mapped, snap |-> NoSnapshot, row |-> NoRow, dims |-> {},
                    advice |-> {}, files |-> {}]
  BY DEF CaseInit
<1>2. /\ dossier.at = "start" /\ dossier.row = NoRow
      /\ DOMAIN dossier = CaseFields
  BY <1>1 DEF CaseFields
<1>3. DOMAIN dossier.row = RowFields
  BY <1>2 DEF NoRow, RowFields
<1>4. NoRow.demoted = FALSE
  BY DEF NoRow
<1>. QED
  BY <1>2, <1>3, <1>4 DEF CaseInv, InCase, RowPlaces, PublishedIsCited, AdviceHangsTogether

\* A fund is served what has a shape.
LEMMA ServingIsShaped ==
    ASSUME CaseInv, InCase("start"), NEW s, ServedShape(s), ServeCase("served", s)
    PROVE  CaseInv'
<1>1. /\ dossier'.at = "served" /\ dossier'.snap = s /\ dossier'.row = dossier.row
      /\ DOMAIN dossier' = CaseFields
  BY DEF CaseInv, ServeCase, CaseFields
<1>. QED
  BY <1>1 DEF CaseInv, InCase, Undemoted, RowPlaces, PublishedIsCited, AdviceHangsTogether

\* The thesis of a row carries its evidence.
LEMMA ThesisCarries ==
    ASSUME CaseInv, InCase("served"), NEW t, NEW hollow, Carried(t.gaps, t.cites, hollow),
           Thesis(t, hollow)
    PROVE  CaseInv'
<1>1. /\ dossier'.at = "thesis"
      /\ dossier'.row = [dossier.row EXCEPT !.thesis = t.thesis, !.gaps = t.gaps,
                                            !.cites = t.cites, !.hollow = hollow]
      /\ DOMAIN dossier' = CaseFields
  BY DEF CaseInv, Thesis, CaseFields
<1>2. /\ dossier'.row.gaps = t.gaps /\ dossier'.row.cites = t.cites
      /\ dossier'.row.hollow = hollow /\ dossier'.row.demoted = FALSE
      /\ DOMAIN dossier'.row = RowFields
  BY <1>1 DEF CaseInv, InCase, Undemoted, RowFields
<1>. QED
  BY <1>1, <1>2 DEF CaseInv, InCase, RowPlaces, PublishedIsCited, AdviceHangsTogether

\* A step along the row that keeps its evidence, or adds a known gap to it.
LEMMA GapsCarry ==
    ASSUME NEW gaps, NEW cites, NEW hollow, Carried(gaps, cites, hollow), NEW bad,
           NEW code \in KnownCodes
    PROVE  Carried(gaps \cup GapIf(bad, code), cites, hollow)
<1>1. code # "constituent_not_applicable"
  BY DEF KnownCodes
<1>2. GapIf(bad, code) \subseteq KnownCodes
  BY DEF GapIf
<1>. QED
  BY <1>1, <1>2 DEF Carried, RowCodes, Blocking

LEMMA RowStepCarries ==
    ASSUME CaseInv, NEW r, NEW bad, NEW code \in KnownCodes,
           \/ InCase("thesis") /\ FillRow("valued", r)
           \/ InCase("valued") /\ FillRow("warmed", r)
           \/ InCase("warmed") /\ FillRow("graded", r),
           DOMAIN r = RowFields, r.gaps = dossier.row.gaps \cup GapIf(bad, code),
           r.cites = dossier.row.cites, r.hollow = dossier.row.hollow,
           r.demoted = dossier.row.demoted
    PROVE  CaseInv'
<1>1. /\ dossier'.at \in {"valued", "warmed", "graded"} /\ dossier'.row = r
      /\ DOMAIN dossier' = CaseFields
  BY DEF CaseInv, CaseFields, FillRow
<1>2. /\ dossier.at \in RowPlaces /\ dossier.at \in Undemoted
  BY DEF InCase, RowPlaces, Undemoted
<1>3. Carried(r.gaps, r.cites, r.hollow)
  BY <1>2, GapsCarry DEF CaseInv
<1>4. r.demoted = FALSE
  BY <1>2 DEF CaseInv
<1>. QED
  BY <1>1, <1>3, <1>4 DEF CaseInv, InCase, Undemoted, RowPlaces, PublishedIsCited,
                          AdviceHangsTogether

LEMMA OutputsKeepCaseInv == CaseInv /\ WriteOutputs => CaseInv'
<1>. SUFFICES ASSUME CaseInv, WriteOutputs PROVE CaseInv'
  OBVIOUS
<1>. DEFINE r == dossier.row
            gaps == Blocking(r.gaps)
<1>1. InCase("kept") /\ Carried(r.gaps, r.cites, r.hollow) /\ Weighed(r, dossier.dims)
  BY DEF WriteOutputs, CaseInv, InCase, RowPlaces
<1>2. PICK pos \in CasePositions, mode \in {"block", "warn", "off"} :
         IF gaps = {}
         THEN IF r.hollow \/ Uncited(r, mode)
              THEN EndCase("aborted", {}, {})
              ELSE EndCase("published", CaseFiles,
                        {[dca |-> DcaAction(r), risk |-> RiskAction(r, pos),
                          card |-> pos.held \/ r.state \in {"core_dca", "small_watch"}]})
         ELSE IF gaps \subseteq KnownCodes THEN EndCase("rejected", CaseFiles, {})
         ELSE EndCase("aborted", {"report", "cards"}, {})
  BY DEF WriteOutputs
<1>3. \A place, written, advice :
         EndCase(place, written, advice) =>
            /\ dossier'.at = place /\ dossier'.row = r /\ dossier'.dims = dossier.dims
            /\ dossier'.advice = advice /\ DOMAIN dossier' = CaseFields
  BY DEF EndCase, CaseInv, CaseFields
<1>4. CASE gaps = {}
  <2>1. r.cites = BothLegs /\ ~r.hollow /\ ~Uncited(r, mode)
    BY <1>1, <1>4 DEF Carried, Uncited
  <2>. DEFINE a == [dca |-> DcaAction(r), risk |-> RiskAction(r, pos),
                    card |-> pos.held \/ r.state \in {"core_dca", "small_watch"}]
  <2>2. EndCase("published", CaseFiles, {a})
    BY <1>2, <1>4, <2>1
  <2>3. a.dca = DcaAction(r) /\ a.risk = RiskAction(r, pos)
    OBVIOUS
  <2>. HIDE DEF a, r, gaps
  <2>4. dossier'.at = "published" /\ dossier'.row = r /\ dossier'.dims = dossier.dims
        /\ dossier'.advice = {a} /\ DOMAIN dossier' = CaseFields
    BY <1>3, <2>2
  <2>5. PublishedIsCited'
    BY <1>4, <2>1, <2>4 DEF PublishedIsCited, InCase, gaps, r
  <2>6. AdviceHangsTogether'
    BY <1>1, <2>3, <2>4, AdviceFollows DEF AdviceHangsTogether
  <2>7. DOMAIN r = RowFields
    BY DEF CaseInv, r
  <2>. QED
    BY <1>1, <2>4, <2>5, <2>6, <2>7 DEF CaseInv, InCase, Undemoted
<1>5. CASE gaps # {} /\ gaps \subseteq KnownCodes
  <2>1. EndCase("rejected", CaseFiles, {})
    BY <1>2, <1>5
  <2>2. dossier'.at = "rejected" /\ dossier'.row = r /\ DOMAIN dossier' = CaseFields
    BY <1>3, <2>1
  <2>. QED
    BY <2>2 DEF CaseInv, InCase, Undemoted, RowPlaces, PublishedIsCited, AdviceHangsTogether
<1>6. CASE ~(gaps \subseteq KnownCodes)
  <2>1. EndCase("aborted", {"report", "cards"}, {})
    BY <1>2, <1>6
  <2>2. dossier'.at = "aborted" /\ dossier'.row = r /\ DOMAIN dossier' = CaseFields
    BY <1>3, <2>1
  <2>3. "constituent_fetch_failed" \in r.gaps
    BY <1>1, <1>6 DEF Carried, RowCodes, Blocking
  <2>. QED
    BY <2>2, <2>3 DEF CaseInv, InCase, Undemoted, RowPlaces, PublishedIsCited,
                      AdviceHangsTogether
<1>. QED
  BY <1>4, <1>5, <1>6

LEMMA CaseInvariant == CaseSpec => []CaseInv
<1>1. CaseInv /\ [CaseNext]_caseVars => CaseInv'
  <2>. SUFFICES ASSUME CaseInv, [CaseNext]_caseVars PROVE CaseInv'
    OBVIOUS
  <2>1. CASE ServeActive
    <3>1. PICK hs \in SUBSET TopSlots, w \in WeightTables, legs \in SUBSET BothLegs :
             \E listing \in [hs -> {"CN", "HK", "US"}], answered \in [hs -> SUBSET Feeds] :
                ServeCase("served", ActiveSnapshot(hs, w, listing, answered, legs))
      BY <2>1 DEF ServeActive
    <3>2. PICK listing \in [hs -> {"CN", "HK", "US"}], answered \in [hs -> SUBSET Feeds] :
             ServeCase("served", ActiveSnapshot(hs, w, listing, answered, legs))
      BY <3>1
    <3>3. ServedShape(ActiveSnapshot(hs, w, listing, answered, legs))
      BY SnapshotIsShaped DEF ServedShape
    <3>4. InCase("start")
      BY <2>1 DEF ServeActive
    <3>. QED
      BY <3>2, <3>3, <3>4, ServingIsShaped
  <2>2. CASE ServeFundLevel
    <3>1. PICK legs \in SUBSET BothLegs : ServeCase("served", FundLevelSnapshot(legs))
      BY <2>2 DEF ServeFundLevel
    <3>2. ServedShape(FundLevelSnapshot(legs))
      BY DEF ServedShape, FundLevelSnapshot, FundLegs
    <3>3. InCase("start")
      BY <2>2 DEF ServeFundLevel
    <3>. QED
      BY <3>1, <3>2, <3>3, ServingIsShaped
  <2>3. CASE ServeKept
    <3>1. PICK s : /\ s = NoSnapshot \/ s \in IndexSnapshots
                   /\ ServeCase("served", s)
      BY <2>3 DEF ServeKept
    <3>2. s.kind \in {"none", "index"}
      <4>1. NoSnapshot.kind = "none"
        BY DEF NoSnapshot
      <4>2. \A i \in IndexSnapshots : i.kind = "index"
        BY DEF IndexSnapshots
      <4>. QED
        BY <3>1, <4>1, <4>2
    <3>3. InCase("start")
      BY <2>3 DEF ServeKept
    <3>4. ServedShape(s)
      BY <3>2 DEF ServedShape
    <3>. QED
      BY <3>1, <3>3, <3>4, ServingIsShaped
  <2>4. CASE DeriveRow
    <3>. DEFINE s == dossier.snap
                v == PolicyB(s)
                T(report, told, drift) ==
                   IF s.kind = "none" /\ report = "skipped"
                   THEN TableThesis(told, drift, dossier.class)
                   ELSE DeriveThesis(s, report, dossier.class)
                A(t) == [t EXCEPT !.gaps = @ \cup ({v.gap} \ {""}),
                                  !.cites = @ \cup StampFundLevel(s, v)]
    <3>1. PICK report, told, drift :
             IF s.kind # "active" THEN Thesis(T(report, told, drift), FALSE)
             ELSE Thesis(A(T(report, told, drift)), Hollow(s, v))
      BY <2>4 DEF DeriveRow
    <3>. DEFINE t == T(report, told, drift)
    <3>2. InCase("served") /\ ServedShape(s)
      BY <2>4 DEF DeriveRow, CaseInv
    <3>3. CASE s.kind # "active"
      <4>1. Carried(t.gaps, t.cites, FALSE)
        <5>1. \/ t = TableThesis(told, drift, dossier.class)
              \/ t = DeriveThesis(s, report, dossier.class)
          OBVIOUS
        <5>2. \/ s.kind = "fund level" /\ s.fund \subseteq BothLegs
              \/ s.kind \in {"index", "none"}
          BY <3>2, <3>3 DEF ServedShape, ActiveShape
        <5>. HIDE DEF t, s
        <5>3. CASE t = TableThesis(told, drift, dossier.class)
          BY <5>3, TableCarries
        <5>4. CASE t = DeriveThesis(s, report, dossier.class) /\ s.kind = "fund level"
          BY <5>2, <5>4, FundLevelCarries
        <5>5. CASE t = DeriveThesis(s, report, dossier.class) /\ s.kind # "fund level"
          <6>1. s.kind = "index" \/ s.kind = "none"
            BY <5>2, <5>5
          <6>2. LET u == DeriveThesis(s, report, dossier.class)
                IN  Carried(u.gaps, u.cites, FALSE)
            BY <6>1, LegacyCarries
          <6>. QED
            BY <5>5, <6>2
        <5>. QED
          BY <5>1, <5>3, <5>4, <5>5
      <4>2. Thesis(t, FALSE)
        BY <3>1, <3>3
      <4>. HIDE DEF t, s
      <4>. QED
        BY <3>2, <4>1, <4>2, ThesisCarries
    <3>4. CASE s.kind = "active"
      <4>1. ActiveShape(s) /\ t = DeriveThesis(s, report, dossier.class)
        BY <3>2, <3>4 DEF ServedShape
      <4>2. DOMAIN t = {"thesis", "gaps", "cites"}
        <5>. HIDE DEF t, s
        <5>. QED
          BY <4>1, <3>4 DEF DeriveThesis
      <4>3. Carried(t.gaps \cup ({v.gap} \ {""}), t.cites \cup StampFundLevel(s, v),
                    Hollow(s, v))
        <5>. HIDE DEF t, s
        <5>. QED
          BY <4>1, ActiveCarries
      <4>4. /\ A(t).gaps = t.gaps \cup ({v.gap} \ {""})
            /\ A(t).cites = t.cites \cup StampFundLevel(s, v)
        <5>. HIDE DEF t, s, v
        <5>. QED
          BY <4>2
      <4>5. Thesis(A(t), Hollow(s, v))
        BY <3>1, <3>4
      <4>. HIDE DEF A, t, s, v
      <4>. QED
        BY <3>2, <4>3, <4>4, <4>5, ThesisCarries
    <3>. QED
      BY <3>3, <3>4
  <2>5. CASE Value
    <3>1. PICK nav, fundamental, yield \in Percentiles \cup {Missing}, metals \in BOOLEAN,
               upside \in {"none", "cheap", "neutral", "rich"} :
             FillRow("valued", [dossier.row EXCEPT
                !.valuation = ClassifyValuation(dossier.class, metals, nav, fundamental,
                                                upside, yield),
                !.upside = IF upside = "rich" THEN "rich" ELSE "none",
                !.gaps = @ \cup GapIf(~Known(nav) /\ ~Known(fundamental), "missing_valuation_data")])
      BY <2>5 DEF Value
    <3>. DEFINE bad == ~Known(nav) /\ ~Known(fundamental)
                r == [dossier.row EXCEPT
                !.valuation = ClassifyValuation(dossier.class, metals, nav, fundamental,
                                                upside, yield),
                !.upside = IF upside = "rich" THEN "rich" ELSE "none",
                        !.gaps = @ \cup GapIf(bad, "missing_valuation_data")]
    <3>2. /\ DOMAIN r = RowFields /\ r.cites = dossier.row.cites
          /\ r.hollow = dossier.row.hollow /\ r.demoted = dossier.row.demoted
          /\ r.gaps = dossier.row.gaps \cup GapIf(bad, "missing_valuation_data")
      <4>. HIDE DEF bad
      <4>. QED
        BY DEF CaseInv, RowFields
    <3>3. FillRow("valued", r)
      BY <3>1
    <3>4. "missing_valuation_data" \in KnownCodes
      BY DEF KnownCodes
    <3>5. InCase("thesis")
      BY <2>5 DEF Value
    <3>. HIDE DEF r, bad
    <3>. QED
      BY <3>2, <3>3, <3>4, <3>5, RowStepCarries
  <2>6. CASE Warm
    <3>1. PICK heat \in [HeatInputs -> Returns \cup {Missing}] :
             FillRow("warmed", [dossier.row EXCEPT !.heat = ClassifyHeat(heat),
                !.gaps = @ \cup GapIf(Cardinality(Given(heat)) < 2, "missing_flow_or_return_data")])
      BY <2>6 DEF Warm
    <3>. DEFINE bad == Cardinality(Given(heat)) < 2
                r == [dossier.row EXCEPT !.heat = ClassifyHeat(heat),
                        !.gaps = @ \cup GapIf(bad, "missing_flow_or_return_data")]
    <3>2. /\ DOMAIN r = RowFields /\ r.cites = dossier.row.cites
          /\ r.hollow = dossier.row.hollow /\ r.demoted = dossier.row.demoted
          /\ r.gaps = dossier.row.gaps \cup GapIf(bad, "missing_flow_or_return_data")
      <4>. HIDE DEF bad
      <4>. QED
        BY DEF CaseInv, RowFields
    <3>3. FillRow("warmed", r)
      BY <3>1
    <3>4. "missing_flow_or_return_data" \in KnownCodes
      BY DEF KnownCodes
    <3>5. InCase("valued")
      BY <2>6 DEF Warm
    <3>. HIDE DEF r, bad
    <3>. QED
      BY <3>2, <3>3, <3>4, <3>5, RowStepCarries
  <2>7. CASE Grade
    <3>1. PICK active, parts, tenure, steady :
             FillRow("graded", [dossier.row EXCEPT
                !.product = ClassifyProduct(active, tenure, steady, parts),
                !.gaps = @ \cup GapIf(~Known(parts["cost"]) /\ ~Known(parts["size"]), "missing_product_metadata")])
      BY <2>7 DEF Grade
    <3>. DEFINE bad == ~Known(parts["cost"]) /\ ~Known(parts["size"])
                r == [dossier.row EXCEPT
                !.product = ClassifyProduct(active, tenure, steady, parts),
                        !.gaps = @ \cup GapIf(bad, "missing_product_metadata")]
    <3>2. /\ DOMAIN r = RowFields /\ r.cites = dossier.row.cites
          /\ r.hollow = dossier.row.hollow /\ r.demoted = dossier.row.demoted
          /\ r.gaps = dossier.row.gaps \cup GapIf(bad, "missing_product_metadata")
      <4>. HIDE DEF bad
      <4>. QED
        BY DEF CaseInv, RowFields
    <3>3. FillRow("graded", r)
      BY <3>1
    <3>4. "missing_product_metadata" \in KnownCodes
      BY DEF KnownCodes
    <3>5. InCase("warmed")
      BY <2>7 DEF Grade
    <3>. HIDE DEF r, bad
    <3>. QED
      BY <3>2, <3>3, <3>4, <3>5, RowStepCarries
  <2>8. CASE Compose
    <3>. DEFINE r == dossier.row
                own == ComposeOpportunityState(r.valuation, r.heat, r.thesis, r.product,
                                               r.upside)
                dims == Dimensions(r.valuation, r.heat, r.thesis, r.product, own)
    <3>1. InCase("graded") /\ dossier' = [dossier EXCEPT !.at = "composed", !.row.state = own,
                                                         !.dims = dims]
      BY <2>8 DEF Compose
    <3>2. r.demoted = FALSE /\ Carried(r.gaps, r.cites, r.hollow)
      BY <3>1 DEF CaseInv, InCase, RowPlaces, Undemoted
    <3>. HIDE DEF own, dims
    <3>3. /\ dossier'.at = "composed" /\ dossier'.dims = dims
          /\ dossier'.row = [r EXCEPT !.state = own] /\ DOMAIN dossier' = CaseFields
      BY <3>1 DEF CaseInv, CaseFields
    <3>4. /\ DOMAIN dossier'.row = RowFields /\ dossier'.row.state = own
          /\ dossier'.row.gaps = r.gaps /\ dossier'.row.cites = r.cites
          /\ dossier'.row.hollow = r.hollow /\ dossier'.row.demoted = r.demoted
          /\ dossier'.row.valuation = r.valuation /\ dossier'.row.heat = r.heat
          /\ dossier'.row.thesis = r.thesis /\ dossier'.row.product = r.product
          /\ dossier'.row.upside = r.upside
      BY <3>3 DEF CaseInv, RowFields
    <3>5. Weighed(dossier'.row, dossier'.dims)
      BY <3>2, <3>3, <3>4 DEF Weighed, own, dims
    <3>6. Carried(dossier'.row.gaps, dossier'.row.cites, dossier'.row.hollow)
      BY <3>2, <3>4
    <3>7. dossier'.row.demoted = FALSE
      BY <3>2, <3>4
    <3>. HIDE DEF r
    <3>. QED
      BY <3>3, <3>4, <3>5, <3>6, <3>7
         DEF CaseInv, InCase, PublishedIsCited, AdviceHangsTogether
  <2>9. CASE Reduce
    <3>. DEFINE r == dossier.row
    <3>1. PICK n : /\ InCase("composed")
                   /\ FillRow("kept", n)
                   /\ n = r \/ (r.state # "exclude"
                                /\ n = [r EXCEPT !.state = "small_watch", !.demoted = TRUE])
      BY <2>9 DEF Reduce, DemoteActive
    <3>2. /\ r.demoted = FALSE /\ Carried(r.gaps, r.cites, r.hollow)
          /\ Weighed(r, dossier.dims)
      BY <3>1 DEF CaseInv, InCase, RowPlaces, Undemoted
    <3>3. /\ dossier'.at = "kept" /\ dossier'.dims = dossier.dims /\ dossier'.row = n
          /\ DOMAIN dossier' = CaseFields
      BY <3>1 DEF CaseInv, CaseFields, FillRow
    <3>4. DOMAIN n = RowFields /\ n.gaps = r.gaps /\ n.cites = r.cites /\ n.hollow = r.hollow
      BY <3>1 DEF CaseInv, RowFields
    <3>5. Weighed(n, dossier.dims)
      <4>1. CASE n = r
        BY <3>2, <4>1
      <4>2. CASE n = [r EXCEPT !.state = "small_watch", !.demoted = TRUE] /\ r.state # "exclude"
        <5>1. /\ n.valuation = r.valuation /\ n.heat = r.heat /\ n.thesis = r.thesis
              /\ n.product = r.product /\ n.upside = r.upside
              /\ n.state = "small_watch" /\ n.demoted = TRUE
          BY <4>2 DEF CaseInv, RowFields
        <5>. HIDE DEF r
        <5>. QED
          BY <3>2, <4>2, <5>1 DEF Weighed
      <4>. QED
        BY <3>1, <4>1, <4>2
    <3>6. Carried(n.gaps, n.cites, n.hollow)
      BY <3>2, <3>4
    <3>. QED
      BY <3>3, <3>4, <3>5, <3>6
         DEF CaseInv, InCase, Undemoted, PublishedIsCited, AdviceHangsTogether
  <2>10. CASE WriteOutputs
    BY <2>10, OutputsKeepCaseInv
  <2>11. CASE UNCHANGED caseVars
    BY <2>11 DEF caseVars, CaseInv, InCase, PublishedIsCited, AdviceHangsTogether
  <2>. QED
    BY <2>1, <2>2, <2>3, <2>4, <2>5, <2>6, <2>7, <2>8, <2>9, <2>10, <2>11 DEF CaseNext
<1>. QED
  BY <1>1, CaseInitially, PTL DEF CaseSpec

\* From the snapshot builder to the citation gate: an active fund passes Policy B
\* just when its evidence suffices, and whatever has no blocking gap cites both
\* legs and has no hollow holding, so the gate stops nothing it let through.
THEOREM EvidenceReachesThePage == CaseSpec => []EvidenceCarriesThrough
<1>1. CaseInv => EvidenceCarriesThrough
  <2>1. CaseInv => PolicyBMeansSufficient
    <3>. SUFFICES ASSUME CaseInv, InCase("served"), dossier.snap.kind = "active"
                  PROVE  PolicyB(dossier.snap).gap = "" <=> Sufficient(dossier.snap)
      BY DEF PolicyBMeansSufficient
    <3>1. ActiveShape(dossier.snap)
      BY DEF CaseInv, ServedShape
    <3>. QED
      BY <3>1, PolicyBSuffices
  <2>. QED
    BY <2>1 DEF CaseInv, EvidenceCarriesThrough
<1>. QED
  BY <1>1, CaseInvariant, PTL

\* The advice on a published fund agrees with its four states and with itself.
THEOREM AdviceIsCoherent == CaseSpec => []AdviceHangsTogether
<1>1. CaseInv => AdviceHangsTogether
  BY DEF CaseInv
<1>. QED
  BY <1>1, CaseInvariant, PTL

-----------------------------------------------------------------------------
(* Ingest.                                                                 *)

RunFields == {"at", "todo", "prices", "navs", "eastmoney", "fetched"}

\* The run, its sweeps and the dates of the tables.
RunShape ==
    /\ DOMAIN ingest = RunFields /\ ingest.prices \in Nat /\ ingest.navs \in Nat
    /\ ingest.at = "off" => ingest = Idle
    /\ ingest.at = "prices" => ingest.todo \in Seq(ToSet(OnExchange))
    /\ ingest.at = "broad" => ingest.todo \in Seq(ToSet(BroadKeys))
    /\ ingest.at = "navs" => ingest.todo \in Seq(ToSet(OffExchange))
TableShape ==
    /\ halfDay \in Nat /\ manifestAt \in Int
    /\ quotes \in [Quoted -> Int] /\ \A i \in Quoted : quotes[i] <= halfDay
    /\ DOMAIN series = ToSet(BroadKeys) \cup SectorKeys \cup Stocks

\* What the run counts it wrote today, and it has told of no failure yet.
RunIsCounted ==
    /\ ingest.prices > 0 => \E i \in ToSet(OnExchange) : quotes[i] = halfDay
    /\ ingest.navs > 0 => \E i \in ToSet(OffExchange) : quotes[i] = halfDay
    /\ ingest.at # "off" => sidecar = "none"
    /\ ingest.at = "manifest" => ~NothingFetched

\* The manifest is no younger than the data.
ManifestIsBacked ==
    manifestAt # Never =>
        /\ OnExchange # <<>> => \E i \in ToSet(OnExchange) : quotes[i] >= manifestAt
        /\ OffExchange # <<>> => \E i \in ToSet(OffExchange) : quotes[i] >= manifestAt

\* What the sweep has in hand: of a broad index both axes, of a sector a window.
IsWindow(s) == s.pe \subseteq s.days /\ s.days \subseteq 0 .. halfDay
SweepIsWhole ==
    IF ingest.at = "accumulate"
    THEN /\ DOMAIN ingest.fetched = SectorKeys
         /\ \A k \in SectorKeys : IsWindow(ingest.fetched[k])
    ELSE /\ DOMAIN ingest.fetched \subseteq ToSet(BroadKeys)
         /\ \A k \in DOMAIN ingest.fetched : ingest.fetched[k].pe # {} /\ ingest.fetched[k].pb # {}

SectorsAreDated ==
    \A k \in SectorKeys : IsWindow(series[k])

\* Nothing but stocks is held.
HoldingsAreStocks ==
    /\ DOMAIN holdingRows = DOMAIN Eligible /\ DOMAIN snapshotFile = DOMAIN Eligible
    /\ \A f \in DOMAIN Eligible :
          /\ snapshotFile[f].tickers \subseteq Stocks
          /\ \A d \in DOMAIN holdingRows[f] : holdingRows[f][d] \subseteq Stocks

IngestInv ==
    /\ RunShape /\ TableShape /\ RunIsCounted /\ ManifestIsBacked /\ SweepIsWhole
    /\ SectorsAreDated /\ HoldingsAreStocks

\* No stock is an index.
LEMMA StocksAreApart == Stocks \cap (ToSet(BroadKeys) \cup SectorKeys) = {}
  BY IngestAssumption DEF Stocks

LEMMA HasMost ==
    ASSUME NEW S, S # {}, S \subseteq Int, NEW top \in Int, \A x \in S : x <= top
    PROVE  \E n \in S : \A m \in S : n >= m
<1>. DEFINE T == {top - x : x \in S}
<1>1. T \subseteq Nat /\ T # {}
  <2>1. \A x \in S : x \in Int /\ x <= top
    OBVIOUS
  <2>2. \A x \in S : top - x \in Nat
    BY <2>1
  <2>. QED
    BY <2>2
<1>2. PICK t \in T : \A u \in T : t <= u
  <2>. HIDE DEF T
  <2>. QED
    BY <1>1, HasLeast
<1>3. PICK n \in S : t = top - n
  OBVIOUS
<1>4. \A m \in S : top - m \in T
  OBVIOUS
<1>. HIDE DEF T
<1>. QED
  BY <1>2, <1>3, <1>4

LEMMA IdleIs ==
    /\ DOMAIN Idle = RunFields /\ Idle.at = "off" /\ Idle.prices = 0 /\ Idle.navs = 0
    /\ DOMAIN Idle.fetched = {} /\ Idle.todo = <<>>
  BY DEF Idle, RunFields

\* A step of the run to a stage and its list.
LEMMA GotoIs ==
    ASSUME NEW r, DOMAIN r = RunFields, NEW stage, NEW list, Goto(r, stage, list)
    PROVE  /\ ingest'.at = stage /\ ingest'.todo = list /\ ingest'.prices = r.prices
           /\ ingest'.navs = r.navs /\ ingest'.fetched = r.fetched
           /\ DOMAIN ingest' = RunFields
  BY DEF Goto, RunFields

LEMMA IngestInitially == IngestInit => IngestInv
<1>. SUFFICES ASSUME IngestInit PROVE IngestInv
  OBVIOUS
<1>. USE DEF IngestInit
<1>1. RunShape
  BY IdleIs DEF RunShape
<1>2. TableShape
  BY DEF TableShape, Never
<1>3. RunIsCounted
  BY IdleIs DEF RunIsCounted
<1>4. ManifestIsBacked
  BY DEF ManifestIsBacked
<1>5. SweepIsWhole
  BY IdleIs DEF SweepIsWhole, IsWindow
<1>6. SectorsAreDated
  <2>1. \A k \in SectorKeys : series[k] = NoSeries
    OBVIOUS
  <2>. QED
    BY <2>1 DEF SectorsAreDated, IsWindow, NoSeries
<1>7. HoldingsAreStocks
  <2>1. \A f \in DOMAIN Eligible : snapshotFile[f].tickers = {} /\ DOMAIN holdingRows[f] = {}
    BY DEF NoFiling, NoReports
  <2>. QED
    BY <2>1 DEF HoldingsAreStocks
<1>. QED
  BY <1>1, <1>2, <1>3, <1>4, <1>5, <1>6, <1>7 DEF IngestInv


\* The steps that fetch and write nothing.
PlainStep ==
    \/ StartIngest \/ Preflight \/ UpsertInstruments \/ PricesDone \/ NavsDone \/ ClearHalted
    \/ KillIngest \/ RunnerHalts \/ PassHalfDay

LEMMA PlainStepKeeps == IngestInv /\ PlainStep => IngestInv'
<1>. SUFFICES ASSUME IngestInv, PlainStep PROVE IngestInv'
  OBVIOUS
<1>. USE IngestAssumption, IdleIs, GotoIs DEF IngestInv, PlainStep, StartIngest, Preflight,
         UpsertInstruments, PricesDone, NavsDone, ClearHalted, KillIngest, RunnerHalts,
         PassHalfDay, tables, files, Halt
<1>1. RunShape'
  BY DEF RunShape, TableShape
<1>2. TableShape'
  BY DEF TableShape, RunShape
<1>3. RunIsCounted'
  BY DEF RunIsCounted, RunShape, TableShape
<1>4. ManifestIsBacked'
  BY DEF ManifestIsBacked, RunShape, TableShape
<1>5. SweepIsWhole'
  <2>1. /\ ingest'.at # "accumulate"
        /\ \/ DOMAIN ingest'.fetched = {}
           \/ ingest.at # "accumulate" /\ ingest'.fetched = ingest.fetched
    BY DEF RunShape
  <2>. QED
    BY <2>1 DEF SweepIsWhole
<1>6. SectorsAreDated'
  BY DEF SectorsAreDated, IsWindow, RunShape, TableShape
<1>7. HoldingsAreStocks'
  BY DEF HoldingsAreStocks, RunShape, TableShape
<1>. QED
  BY <1>1, <1>2, <1>3, <1>4, <1>5, <1>6, <1>7

\* One instrument of a list is over.
NextOfList ==
    /\ DOMAIN ingest' = RunFields /\ ingest'.at = ingest.at /\ ingest'.todo = Tail(ingest.todo)
    /\ ingest'.fetched = ingest.fetched

\* Writing today's quotes leaves none older.
LEMMA QuotesAreNewer ==
    ASSUME TableShape, NEW i \in Quoted, quotes' = [quotes EXCEPT ![i] = halfDay],
           halfDay' = halfDay, series' = series, manifestAt' = manifestAt
    PROVE  /\ TableShape' /\ quotes'[i] = halfDay
           /\ \A j \in Quoted : quotes'[j] >= quotes[j]
           /\ \A j \in Quoted : quotes[j] = halfDay => quotes'[j] = halfDay
  BY DEF TableShape

\* A list's next instrument was written, failed, or ended the run.
LEMMA ListStepKeeps ==
    ASSUME IngestInv, ingest.todo # <<>>, NEW i \in Quoted, i = Head(ingest.todo),
           UNCHANGED <<halfDay, described, series, holdingRows, snapshotFile, ingests>>,
           \/ ingest.at = "prices" /\ i \in ToSet(OnExchange)
           \/ ingest.at = "navs" /\ i \in ToSet(OffExchange),
           \/ Halt("db_write_failed") /\ UNCHANGED quotes
           \/ /\ NextOfList /\ UNCHANGED <<quotes, files>>
              /\ ingest'.prices = ingest.prices /\ ingest'.navs = ingest.navs
           \/ /\ NextOfList /\ UNCHANGED files
              /\ quotes' = [quotes EXCEPT ![i] = halfDay]
              /\ \/ /\ ingest.at = "prices" /\ ingest'.prices = ingest.prices + 1
                    /\ ingest'.navs = ingest.navs
                 \/ /\ ingest.at = "navs" /\ ingest'.navs = ingest.navs + 1
                    /\ ingest'.prices = ingest.prices
    PROVE  IngestInv'
<1>1. CASE Halt("db_write_failed") /\ UNCHANGED quotes
  BY <1>1, IdleIs DEF Halt, IngestInv, RunShape, TableShape, RunIsCounted,
     ManifestIsBacked, SweepIsWhole, SectorsAreDated, IsWindow, HoldingsAreStocks
<1>2. CASE NextOfList /\ ~(Halt("db_write_failed") /\ UNCHANGED quotes)
  <2>1. RunShape'
    BY <1>2 DEF NextOfList, IngestInv, RunShape
  <2>2. /\ TableShape' /\ \A j \in Quoted : quotes'[j] >= quotes[j]
        /\ \A j \in Quoted : quotes[j] = halfDay => quotes'[j] = halfDay
        /\ quotes' # quotes => quotes'[i] = halfDay
        /\ \A j \in Quoted : quotes[j] \in Int /\ quotes'[j] \in Int
    <3>1. CASE UNCHANGED <<quotes, files>>
      BY <3>1 DEF IngestInv, TableShape, files
    <3>2. CASE UNCHANGED files /\ quotes' = [quotes EXCEPT ![i] = halfDay]
      <4>1. TableShape /\ manifestAt' = manifestAt
        BY <3>2 DEF IngestInv, files
      <4>2. /\ TableShape' /\ quotes'[i] = halfDay
            /\ \A j \in Quoted : quotes'[j] >= quotes[j]
            /\ \A j \in Quoted : quotes[j] = halfDay => quotes'[j] = halfDay
        BY <3>2, <4>1, QuotesAreNewer
      <4>. QED
        BY <4>1, <4>2 DEF TableShape
    <3>. QED
      BY <1>2, <3>1, <3>2
  <2>3. RunIsCounted'
    <3>1. ToSet(OnExchange) \subseteq Quoted /\ ToSet(OffExchange) \subseteq Quoted
      BY DEF Quoted
    <3>2. sidecar' = sidecar /\ halfDay' = halfDay
      BY <1>2 DEF files
    <3>3. ingest'.prices > 0 => \E j \in ToSet(OnExchange) : quotes'[j] = halfDay'
      <4>1. CASE ingest'.prices = ingest.prices
        BY <2>2, <3>1, <3>2, <4>1 DEF IngestInv, RunIsCounted
      <4>2. CASE ingest'.prices # ingest.prices
        BY <1>2, <4>2 DEF IngestInv, TableShape
      <4>. QED
        BY <4>1, <4>2
    <3>4. ingest'.navs > 0 => \E j \in ToSet(OffExchange) : quotes'[j] = halfDay'
      <4>1. CASE ingest'.navs = ingest.navs
        BY <2>2, <3>1, <3>2, <4>1 DEF IngestInv, RunIsCounted
      <4>2. CASE ingest'.navs # ingest.navs
        BY <1>2, <4>2 DEF IngestInv, TableShape
      <4>. QED
        BY <4>1, <4>2
    <3>. QED
      BY <1>2, <3>2, <3>3, <3>4 DEF NextOfList, IngestInv, RunIsCounted
  <2>4. ManifestIsBacked'
    <3>1. manifestAt' = manifestAt /\ manifestAt \in Int
      BY <1>2 DEF files, IngestInv, TableShape
    <3>2. ToSet(OnExchange) \subseteq Quoted /\ ToSet(OffExchange) \subseteq Quoted
      BY DEF Quoted
    <3>3. \A j \in Quoted : quotes[j] >= manifestAt => quotes'[j] >= manifestAt
      BY <2>2, <3>1
    <3>. QED
      BY <3>1, <3>2, <3>3 DEF IngestInv, ManifestIsBacked
  <2>. QED
    BY <1>2, <2>1, <2>2, <2>3, <2>4
       DEF NextOfList, IngestInv, SweepIsWhole, SectorsAreDated, IsWindow, HoldingsAreStocks
<1>. QED
  BY <1>1, <1>2

LEMMA FetchPriceKeeps == IngestInv /\ FetchPrice => IngestInv'
<1>. SUFFICES ASSUME IngestInv, FetchPrice PROVE IngestInv'
  OBVIOUS
<1>1. PICK exhausted \in BOOLEAN, outcome \in {"rows", "fails", "unwritten"} :
         LET now == [[ingest EXCEPT !.todo = Tail(ingest.todo)]
                        EXCEPT !.eastmoney = ingest.eastmoney /\ ~exhausted]
         IN  \/ /\ quotes' = [quotes EXCEPT ![Head(ingest.todo)] = halfDay]
                /\ ingest' = [now EXCEPT !.prices = @ + 1]
                /\ UNCHANGED files
             \/ ingest' = now /\ UNCHANGED <<quotes, files>>
             \/ Halt("db_write_failed") /\ UNCHANGED quotes
  BY DEF FetchPrice, IngestInv, RunShape, RunFields
<1>2. /\ ingest.at = "prices" /\ ingest.todo # <<>>
      /\ UNCHANGED <<halfDay, described, series, holdingRows, snapshotFile, ingests>>
  BY DEF FetchPrice
<1>. DEFINE e == ingest.eastmoney /\ ~exhausted
            now == [[ingest EXCEPT !.todo = Tail(ingest.todo)] EXCEPT !.eastmoney = e]
<1>3. /\ DOMAIN now = RunFields /\ now.at = ingest.at /\ now.todo = Tail(ingest.todo)
      /\ now.fetched = ingest.fetched /\ now.prices = ingest.prices /\ now.navs = ingest.navs
  <2>. HIDE DEF e
  <2>. QED
    BY DEF IngestInv, RunShape, RunFields
<1>4. \/ /\ quotes' = [quotes EXCEPT ![Head(ingest.todo)] = halfDay]
         /\ ingest' = [now EXCEPT !.prices = @ + 1]
         /\ UNCHANGED files
      \/ ingest' = now /\ UNCHANGED <<quotes, files>>
      \/ Halt("db_write_failed") /\ UNCHANGED quotes
  BY <1>1
<1>5. Head(ingest.todo) \in ToSet(OnExchange) /\ Head(ingest.todo) \in Quoted
  BY <1>2 DEF IngestInv, RunShape, Quoted
<1>. HIDE DEF now, e
<1>6. [now EXCEPT !.prices = @ + 1].prices = ingest.prices + 1
      /\ [now EXCEPT !.prices = @ + 1].navs = ingest.navs
      /\ [now EXCEPT !.prices = @ + 1].at = ingest.at
      /\ [now EXCEPT !.prices = @ + 1].todo = Tail(ingest.todo)
      /\ [now EXCEPT !.prices = @ + 1].fetched = ingest.fetched
      /\ DOMAIN [now EXCEPT !.prices = @ + 1] = RunFields
  BY <1>3 DEF RunFields
<1>. QED
  BY <1>2, <1>3, <1>4, <1>5, <1>6, ListStepKeeps DEF NextOfList

LEMMA FetchFundNavKeeps == IngestInv /\ FetchFundNav => IngestInv'
<1>. SUFFICES ASSUME IngestInv, FetchFundNav PROVE IngestInv'
  OBVIOUS
<1>1. /\ ingest.at = "navs" /\ ingest.todo # <<>>
      /\ UNCHANGED <<halfDay, described, series, holdingRows, snapshotFile, ingests>>
  BY DEF FetchFundNav
<1>2. Head(ingest.todo) \in ToSet(OffExchange) /\ Head(ingest.todo) \in Quoted
  BY <1>1 DEF IngestInv, RunShape, Quoted
<1>3. \/ Halt("db_write_failed") /\ UNCHANGED quotes
      \/ /\ NextOfList /\ UNCHANGED <<quotes, files>>
         /\ ingest'.prices = ingest.prices /\ ingest'.navs = ingest.navs
      \/ /\ NextOfList /\ UNCHANGED files
         /\ quotes' = [quotes EXCEPT ![Head(ingest.todo)] = halfDay]
         /\ ingest'.navs = ingest.navs + 1 /\ ingest'.prices = ingest.prices
  BY DEF FetchFundNav, IngestInv, RunShape, RunFields, NextOfList
<1>. QED
  BY <1>1, <1>2, <1>3, ListStepKeeps

LEMMA FetchBroadIndexKeeps == IngestInv /\ FetchBroadIndex => IngestInv'
<1>. SUFFICES ASSUME IngestInv, FetchBroadIndex PROVE IngestInv'
  OBVIOUS
<1>1. /\ ingest.at = "broad" /\ ingest.todo # <<>>
      /\ UNCHANGED <<halfDay, tables, snapshotFile, files, ingests>>
  BY DEF FetchBroadIndex
<1>2. Head(ingest.todo) \in ToSet(BroadKeys) /\ Tail(ingest.todo) \in Seq(ToSet(BroadKeys))
  BY <1>1 DEF IngestInv, RunShape
<1>3. /\ DOMAIN ingest' = RunFields /\ ingest'.at = "broad"
      /\ ingest'.prices = ingest.prices /\ ingest'.navs = ingest.navs
      /\ ingest'.todo \in Seq(ToSet(BroadKeys)) /\ SweepIsWhole'
  <2>1. PICK pe, pb \in {Throttled} \cup AsOfNow(Frames) :
           IF Throttled \in {pe, pb} THEN Goto(ingest, "broad", <<>>)
           ELSE ingest' = [ingest EXCEPT !.todo = Tail(@),
                              !.fetched = TakeFrame(@, Head(ingest.todo),
                                 [days |-> pe \cup pb, pe |-> pe, pb |-> pb])]
    BY DEF FetchBroadIndex
  <2>2. CASE Goto(ingest, "broad", <<>>)
    <3>1. /\ DOMAIN ingest' = RunFields /\ ingest'.at = "broad" /\ ingest'.todo = <<>>
          /\ ingest'.prices = ingest.prices /\ ingest'.navs = ingest.navs
          /\ ingest'.fetched = ingest.fetched
      BY <2>2 DEF Goto, IngestInv, RunShape, RunFields
    <3>. QED
      BY <1>1, <3>1 DEF IngestInv, SweepIsWhole
  <2>. DEFINE frame == [days |-> pe \cup pb, pe |-> pe, pb |-> pb]
              got == TakeFrame(ingest.fetched, Head(ingest.todo), frame)
  <2>3. CASE ingest' = [ingest EXCEPT !.todo = Tail(ingest.todo), !.fetched = got]
    <3>1. /\ DOMAIN got \subseteq ToSet(BroadKeys)
          /\ \A k \in DOMAIN got : got[k].pe # {} /\ got[k].pb # {}
      <4>1. \/ got = ingest.fetched
            \/ /\ got = TakeAnyFrame(ingest.fetched, Head(ingest.todo), frame)
               /\ frame.pe # {} /\ frame.pb # {}
        BY DEF TakeFrame
      <4>. HIDE DEF got, frame
      <4>. QED
        BY <1>1, <1>2, <4>1 DEF TakeAnyFrame, IngestInv, SweepIsWhole
    <3>. HIDE DEF got
    <3>2. /\ DOMAIN ingest' = RunFields /\ ingest'.at = "broad"
          /\ ingest'.prices = ingest.prices /\ ingest'.navs = ingest.navs
          /\ ingest'.todo = Tail(ingest.todo) /\ ingest'.fetched = got
      BY <1>1, <2>3 DEF IngestInv, RunShape, RunFields
    <3>. QED
      BY <1>2, <3>1, <3>2 DEF SweepIsWhole, IsWindow
  <2>. QED
    BY <2>1, <2>2, <2>3
<1>. QED
  BY <1>1, <1>3 DEF tables, files, IngestInv, RunShape, TableShape, RunIsCounted,
     ManifestIsBacked, SectorsAreDated, IsWindow, HoldingsAreStocks

LEMMA CommitBroadKeeps == IngestInv /\ CommitBroad => IngestInv'
<1>. SUFFICES ASSUME IngestInv, CommitBroad PROVE IngestInv'
  OBVIOUS
<1>1. /\ ingest.at = "broad"
      /\ UNCHANGED <<halfDay, described, quotes, holdingRows, snapshotFile, files, ingests>>
      /\ DOMAIN series' = DOMAIN series
      /\ \A k \in SectorKeys : series'[k] = series[k]
  <2>1. \A k \in SectorKeys : k \notin DOMAIN ingest.fetched /\ k \in DOMAIN series
    BY IngestAssumption DEF CommitBroad, IngestInv, SweepIsWhole, TableShape
  <2>. QED
    BY <2>1 DEF CommitBroad
<1>2. /\ DOMAIN ingest' = RunFields /\ ingest'.at = "sector"
      /\ ingest'.prices = ingest.prices /\ ingest'.navs = ingest.navs
      /\ DOMAIN ingest'.fetched = {}
  BY IdleIs DEF CommitBroad, Goto, IngestInv, RunShape, RunFields
<1>. QED
  BY <1>1, <1>2 DEF files, IngestInv, RunShape, TableShape, RunIsCounted, ManifestIsBacked,
     SweepIsWhole, SectorsAreDated, IsWindow, HoldingsAreStocks

\* A sector's window adds to its history, and blanks what it has no PE for.
LEMMA WindowAdds ==
    ASSUME halfDay \in Nat, NEW old, IsWindow(old), NEW frame, IsWindow(frame)
    PROVE  LET new   == UpsertSeries(old, frame)
               blank == frame.days \ frame.pe
           IN  /\ old.days \subseteq new.days /\ IsWindow(new)
               /\ old.pe \ new.pe \subseteq blank
               /\ PeIsGrounded(old) /\ ~PeIsGrounded(new) =>
                     blank \cap (old.pe \cup {Max(new.days)}) # {}
<1>. DEFINE new   == UpsertSeries(old, frame)
            blank == frame.days \ frame.pe
<1>1. new.days = old.days \cup frame.days /\ new.pe = (old.pe \ frame.days) \cup frame.pe
  BY DEF UpsertSeries
<1>. HIDE DEF new
<1>2. old.days \subseteq new.days /\ IsWindow(new) /\ old.pe \ new.pe \subseteq blank
  BY <1>1 DEF IsWindow
<1>3. ASSUME PeIsGrounded(old), blank \cap (old.pe \cup {Max(new.days)}) = {}
      PROVE  PeIsGrounded(new)
  <2>1. IsFiniteSet(new.pe) /\ old.pe \subseteq new.pe
    <3>1. IsFiniteSet(0 .. halfDay)
      BY FS_Interval
    <3>2. new.pe \subseteq 0 .. halfDay
      BY <1>2 DEF IsWindow
    <3>3. old.pe \subseteq new.pe
      BY <1>1, <1>3
    <3>. QED
      BY <3>1, <3>2, <3>3, FS_Subset
  <2>2. Cardinality(old.pe) <= Cardinality(new.pe) /\ Cardinality(new.pe) \in Nat
        /\ Cardinality(old.pe) \in Nat
    BY <2>1, FS_Subset, FS_CardinalityType
  <2>3. Cardinality(new.pe) >= MinPoints
    BY <1>3, <2>2, IngestAssumption DEF PeIsGrounded
  <2>4. /\ new.days # {} /\ new.days \subseteq Int
        /\ \A d \in new.days : d <= halfDay
    <3>1. old.days # {}
      BY <1>3 DEF PeIsGrounded
    <3>. QED
      BY <1>2, <3>1 DEF IsWindow
  <2>5. Max(new.days) \in new.days /\ \A d \in new.days : Max(new.days) >= d
    <3>1. \E x \in new.days : \A y \in new.days : x >= y
      BY <2>4, HasMost
    <3>. QED
      BY <3>1 DEF Max
  <2>6. Max(new.days) \in new.pe
    <3>1. CASE Max(new.days) \in frame.days
      BY <1>1, <1>3, <3>1
    <3>2. CASE Max(new.days) \notin frame.days
      <4>1. Max(new.days) \in old.days /\ \A d \in old.days : Max(new.days) >= d
        BY <1>1, <2>5, <3>2
      <4>2. Max(old.days) = Max(new.days)
        <5>1. Max(old.days) \in old.days /\ \A d \in old.days : Max(old.days) >= d
          BY <4>1 DEF Max
        <5>2. Max(old.days) \in Int /\ Max(new.days) \in Int
          BY <2>4, <2>5, <5>1, <4>1, <1>1
        <5>. QED
          BY <4>1, <5>1, <5>2
      <4>. QED
        BY <1>3, <2>1, <4>2 DEF PeIsGrounded
    <3>. QED
      BY <3>1, <3>2
  <2>. QED
    BY <2>3, <2>4, <2>6 DEF PeIsGrounded
<1>. QED
  BY <1>2, <1>3 DEF new

LEMMA FetchSectorsKeeps == IngestInv /\ FetchSectors => IngestInv'
<1>. SUFFICES ASSUME IngestInv, FetchSectors PROVE IngestInv'
  OBVIOUS
<1>1. /\ ingest.at = "sector"
      /\ UNCHANGED <<halfDay, tables, snapshotFile, files, ingests>>
  BY DEF FetchSectors
<1>2. PICK frames \in [SectorKeys -> SectorFrames] :
         Goto([ingest EXCEPT !.fetched = frames], "accumulate", <<>>)
  BY DEF FetchSectors
<1>3. /\ DOMAIN ingest' = RunFields /\ ingest'.at = "accumulate" /\ ingest'.todo = <<>>
      /\ ingest'.prices = ingest.prices /\ ingest'.navs = ingest.navs
      /\ ingest'.fetched = frames
  BY <1>2 DEF Goto, IngestInv, RunShape, RunFields
<1>4. \A k \in SectorKeys : IsWindow(frames[k])
  <2>1. ASSUME NEW k \in SectorKeys PROVE IsWindow(frames[k])
    <3>1. PICK w \in Windows : w.days \subseteq 0 .. halfDay /\ frames[k] = SectorFrame(w)
      BY <2>1 DEF SectorFrames
    <3>. QED
      BY <3>1, IngestAssumption DEF SectorFrame, IsWindow
  <2>. QED
    BY <2>1
<1>5. SweepIsWhole'
  BY <1>1, <1>3, <1>4 DEF SweepIsWhole, IsWindow
<1>. QED
  BY <1>1, <1>3, <1>5 DEF tables, files, IngestInv, RunShape, TableShape, RunIsCounted,
     ManifestIsBacked, SectorsAreDated, IsWindow, HoldingsAreStocks, NothingFetched

\* What a commit of the sectors does to each of them.
LEMMA SectorsAfter ==
    ASSUME IngestInv, CommitSectors, NEW k \in SectorKeys
    PROVE  /\ IsWindow(series'[k]) /\ series[k].days \subseteq series'[k].days
           /\ series[k].pe \ series'[k].pe \subseteq Blanked(k)
           /\ PeIsGrounded(series[k]) /\ ~PeIsGrounded(series'[k]) =>
                 Blanked(k) \cap (series[k].pe \cup {Max(series'[k].days)}) # {}
<1>1. k \in DOMAIN series /\ IsWindow(series[k]) /\ halfDay \in Nat
  BY DEF IngestInv, TableShape, SectorsAreDated, IsWindow
<1>2. IsWindow(ingest.fetched[k]) /\ Blanked(k) = ingest.fetched[k].days \ ingest.fetched[k].pe
  BY DEF CommitSectors, IngestInv, SweepIsWhole, IsWindow, Blanked
<1>3. CASE series'[k] = UpsertSeries(series[k], ingest.fetched[k])
  BY <1>1, <1>2, <1>3, WindowAdds
<1>4. CASE series'[k] = series[k]
  BY <1>1, <1>4
<1>. QED
  BY <1>1, <1>3, <1>4 DEF CommitSectors

LEMMA CommitSectorsKeeps == IngestInv /\ CommitSectors => IngestInv'
<1>. SUFFICES ASSUME IngestInv, CommitSectors PROVE IngestInv'
  OBVIOUS
<1>1. /\ ingest.at = "accumulate"
      /\ UNCHANGED <<halfDay, described, quotes, holdingRows, snapshotFile, files, ingests>>
      /\ DOMAIN series' = DOMAIN series
  BY DEF CommitSectors
<1>2. SectorsAreDated'
  BY <1>1, SectorsAfter DEF SectorsAreDated, IsWindow
<1>3. /\ DOMAIN ingest' = RunFields /\ ingest'.at = "navs" /\ ingest'.todo = OffExchange
      /\ ingest'.prices = ingest.prices /\ ingest'.navs = ingest.navs
      /\ DOMAIN ingest'.fetched = {}
  BY IdleIs DEF CommitSectors, Goto, IngestInv, RunShape, RunFields
<1>. QED
  BY <1>1, <1>2, <1>3, IngestAssumption DEF files, IngestInv, RunShape, TableShape, RunIsCounted,
     ManifestIsBacked, SweepIsWhole, IsWindow, HoldingsAreStocks

\* Holdings are added to, of stocks alone.
HoldingsGrow ==
    \A f \in DOMAIN Eligible : \A d \in DOMAIN holdingRows[f] :
       d \in DOMAIN holdingRows'[f] /\ holdingRows[f][d] \subseteq holdingRows'[f][d]

LEMMA StoringAdds ==
    ASSUME HoldingsAreStocks, NEW f, NEW s, StoreHoldings(f, s),
           f \in DOMAIN Eligible => s.tickers \subseteq Stocks, snapshotFile' = snapshotFile
    PROVE  HoldingsAreStocks' /\ HoldingsGrow
<1>. DEFINE row == [d \in DOMAIN holdingRows[f] \cup {s.report} |->
                     IF d = s.report
                     THEN s.tickers \cup
                          (IF d \in DOMAIN holdingRows[f] THEN holdingRows[f][d] ELSE {})
                     ELSE holdingRows[f][d]]
<1>1. holdingRows' = [holdingRows EXCEPT ![f] = row]
  BY DEF StoreHoldings
<1>2. f \in DOMAIN Eligible =>
         /\ DOMAIN holdingRows[f] \subseteq DOMAIN row
         /\ \A d \in DOMAIN row : row[d] \subseteq Stocks
         /\ \A d \in DOMAIN holdingRows[f] : holdingRows[f][d] \subseteq row[d]
  BY DEF HoldingsAreStocks
<1>. HIDE DEF row
<1>3. /\ DOMAIN holdingRows' = DOMAIN Eligible
      /\ \A g \in DOMAIN Eligible : holdingRows'[g] = IF g = f THEN row ELSE holdingRows[g]
  BY <1>1 DEF HoldingsAreStocks
<1>. QED
  BY <1>2, <1>3 DEF HoldingsAreStocks, HoldingsGrow

LEMMA IngestHoldingsGrow == IngestInv /\ IngestHoldings => HoldingsAreStocks' /\ HoldingsGrow
<1>. SUFFICES ASSUME IngestInv, IngestHoldings PROVE HoldingsAreStocks' /\ HoldingsGrow
  OBVIOUS
<1>1. CASE holdingRows' = holdingRows
  BY <1>1 DEF IngestHoldings, IngestInv, HoldingsAreStocks, HoldingsGrow
<1>2. CASE \E s \in HoldingsSources(Head(ingest.todo)) : StoreHoldings(Head(ingest.todo), s)
  <2>. DEFINE f == Head(ingest.todo)
  <2>1. PICK s \in HoldingsSources(f) : StoreHoldings(f, s)
    BY <1>2
  <2>2. ASSUME f \in DOMAIN Eligible PROVE s.tickers \subseteq Stocks
    <3>1. \A t \in SnapshotsSeen : t.tickers \subseteq Stocks
      BY DEF Stocks
    <3>2. NoFiling.tickers = {} /\ snapshotFile[f].tickers \subseteq Stocks
      BY <2>2 DEF NoFiling, IngestInv, HoldingsAreStocks
    <3>3. s \in SnapshotsSeen \/ s = NoFiling \/ s = snapshotFile[f]
      BY <2>1 DEF HoldingsSources, FiledByNow
    <3>. QED
      BY <3>1, <3>2, <3>3
  <2>. QED
    BY <2>1, <2>2, StoringAdds DEF IngestInv, IngestHoldings
<1>. QED
  BY <1>1, <1>2 DEF IngestHoldings

LEMMA IngestHoldingsKeeps == IngestInv /\ IngestHoldings => IngestInv'
<1>. SUFFICES ASSUME IngestInv, IngestHoldings PROVE IngestInv'
  OBVIOUS
<1>1. /\ ingest.at = "holdings"
      /\ UNCHANGED <<halfDay, described, quotes, series, snapshotFile, files, ingests>>
  BY DEF IngestHoldings
<1>2. /\ DOMAIN ingest' = RunFields /\ ingest'.at = ingest.at /\ ingest'.prices = ingest.prices
      /\ ingest'.navs = ingest.navs /\ ingest'.fetched = ingest.fetched
  BY DEF IngestHoldings, IngestInv, RunShape, RunFields
<1>. QED
  BY <1>1, <1>2, IngestHoldingsGrow DEF files, IngestInv, RunShape, TableShape, RunIsCounted,
     ManifestIsBacked, SweepIsWhole, SectorsAreDated, IsWindow

LEMMA EndIngestKeeps == IngestInv /\ EndIngest => IngestInv'
<1>. SUFFICES ASSUME IngestInv, EndIngest PROVE IngestInv'
  OBVIOUS
<1>. USE IngestAssumption, IdleIs, GotoIs DEF IngestInv, EndIngest, tables, files, Halt
<1>1. RunShape'
  BY DEF RunShape, TableShape
<1>2. TableShape'
  BY DEF TableShape, RunShape
<1>3. RunIsCounted'
  <2>1. CASE Halt("akshare_empty")
    BY <2>1 DEF RunIsCounted
  <2>2. CASE ~NothingFetched /\ Goto(ingest, "manifest", <<>>) /\ UNCHANGED files
    <3>1. ingest'.prices = ingest.prices /\ ingest'.navs = ingest.navs
      BY <2>2 DEF RunShape
    <3>. QED
      BY <2>2, <3>1 DEF RunIsCounted, RunShape, NothingFetched
  <2>. QED
    BY <2>1, <2>2
<1>4. ManifestIsBacked'
  BY DEF ManifestIsBacked, RunShape, TableShape
<1>5. SweepIsWhole'
  <2>1. ingest.at = "holdings" /\ ingest'.at # "accumulate"
        /\ (DOMAIN ingest'.fetched = {} \/ ingest'.fetched = ingest.fetched)
    BY DEF RunShape
  <2>. QED
    BY <2>1 DEF SweepIsWhole
<1>6. SectorsAreDated'
  BY DEF SectorsAreDated, IsWindow, RunShape, TableShape
<1>7. HoldingsAreStocks'
  BY DEF HoldingsAreStocks, RunShape, TableShape
<1>. QED
  BY <1>1, <1>2, <1>3, <1>4, <1>5, <1>6, <1>7

LEMMA WriteManifestKeeps == IngestInv /\ WriteManifest => IngestInv'
<1>. SUFFICES ASSUME IngestInv, WriteManifest PROVE IngestInv'
  OBVIOUS
<1>. USE IngestAssumption, IdleIs, GotoIs DEF IngestInv, WriteManifest, tables, files, Halt
<1>1. RunShape'
  BY DEF RunShape, TableShape
<1>2. TableShape'
  BY DEF TableShape, RunShape
<1>3. RunIsCounted'
  BY DEF RunIsCounted, RunShape, TableShape
<1>4. ManifestIsBacked'
  <2>1. ~NothingFetched
    BY DEF RunIsCounted
  <2>2. /\ OnExchange # <<>> => ingest.prices > 0
        /\ OffExchange # <<>> => ingest.navs > 0
    BY <2>1 DEF NothingFetched, RunShape
  <2>. QED
    BY <2>2 DEF ManifestIsBacked, RunIsCounted, TableShape
<1>5. SweepIsWhole'
  BY DEF SweepIsWhole, IsWindow, RunShape, TableShape
<1>6. SectorsAreDated'
  BY DEF SectorsAreDated, IsWindow, RunShape, TableShape
<1>7. HoldingsAreStocks'
  BY DEF HoldingsAreStocks, RunShape, TableShape
<1>. QED
  BY <1>1, <1>2, <1>3, <1>4, <1>5, <1>6, <1>7

LEMMA RefreshStockKeeps == IngestInv /\ RefreshStock => IngestInv'
<1>. SUFFICES ASSUME IngestInv, RefreshStock PROVE IngestInv'
  OBVIOUS
<1>1. UNCHANGED <<halfDay, described, quotes, holdingRows, snapshotFile, files, ingest, ingests>>
  BY DEF RefreshStock
<1>2. PICK c, frame : c \in Stocks /\ series' = [series EXCEPT ![c] = UpsertSeries(@, frame)]
  BY DEF RefreshStock, IngestInv, HoldingsAreStocks
<1>3. DOMAIN series' = DOMAIN series /\ \A k \in SectorKeys : series'[k] = series[k]
  BY <1>2, StocksAreApart DEF IngestInv, TableShape
<1>. QED
  BY <1>1, <1>3 DEF files, IngestInv, RunShape, TableShape, RunIsCounted,
     ManifestIsBacked, SweepIsWhole, SectorsAreDated, IsWindow, HoldingsAreStocks, NothingFetched

LEMMA SaveSnapshotKeeps == IngestInv /\ SaveSnapshot => IngestInv'
<1>. SUFFICES ASSUME IngestInv, SaveSnapshot PROVE IngestInv'
  OBVIOUS
<1>. USE IngestAssumption, IdleIs, GotoIs DEF IngestInv, SaveSnapshot, tables, files, Halt
<1>1. RunShape'
  BY DEF RunShape, TableShape
<1>2. TableShape'
  BY DEF TableShape, RunShape
<1>3. RunIsCounted'
  BY DEF RunIsCounted, RunShape, TableShape
<1>4. ManifestIsBacked'
  BY DEF ManifestIsBacked, RunShape, TableShape
<1>5. SweepIsWhole'
  BY DEF SweepIsWhole, IsWindow, RunShape, TableShape
<1>6. SectorsAreDated'
  BY DEF SectorsAreDated, IsWindow, RunShape, TableShape
<1>7. HoldingsAreStocks'
  <2>1. PICK f \in DOMAIN Eligible, s \in SnapshotsSeen :
           snapshotFile' = [snapshotFile EXCEPT ![f] = s]
    BY DEF FiledByNow
  <2>2. s.tickers \subseteq Stocks
    BY DEF Stocks
  <2>3. DOMAIN snapshotFile' = DOMAIN Eligible
        /\ \A g \in DOMAIN Eligible : snapshotFile'[g] = IF g = f THEN s ELSE snapshotFile[g]
    BY <2>1 DEF HoldingsAreStocks
  <2>. QED
    BY <2>2, <2>3 DEF HoldingsAreStocks
<1>. QED
  BY <1>1, <1>2, <1>3, <1>4, <1>5, <1>6, <1>7

LEMMA IngestInvariant == IngestSpec => []IngestInv
<1>1. IngestInv /\ [IngestNext]_ingestVars => IngestInv'
  <2>1. IngestInv /\ IngestNext => IngestInv'
    BY PlainStepKeeps, FetchPriceKeeps, FetchBroadIndexKeeps, CommitBroadKeeps,
       FetchSectorsKeeps, CommitSectorsKeeps, FetchFundNavKeeps, IngestHoldingsKeeps, EndIngestKeeps,
       WriteManifestKeeps, RefreshStockKeeps, SaveSnapshotKeeps
       DEF IngestNext, PlainStep
  <2>2. IngestInv /\ UNCHANGED ingestVars => IngestInv'
    BY DEF ingestVars, IngestInv, RunShape, TableShape, RunIsCounted, ManifestIsBacked,
       SweepIsWhole, SectorsAreDated, IsWindow, HoldingsAreStocks, NothingFetched
  <2>. QED
    BY <2>1, <2>2
<1>. QED
  BY <1>1, IngestInitially, PTL DEF IngestSpec

LEMMA ManifestMeansFetched == IngestInv => FreshMeansFetched
<1>. SUFFICES ASSUME IngestInv, manifestAt # Never, halfDay - manifestAt <= MaxAge
              PROVE  /\ OnExchange # <<>> =>
                           \E i \in ToSet(OnExchange) : halfDay - quotes[i] <= MaxAge
                     /\ OffExchange # <<>> =>
                           \E i \in ToSet(OffExchange) : halfDay - quotes[i] <= MaxAge
  BY DEF FreshMeansFetched, IngestIsFresh
<1>1. \A i \in Quoted : quotes[i] >= manifestAt => halfDay - quotes[i] <= MaxAge
  BY IngestAssumption DEF IngestInv, TableShape
<1>2. ToSet(OnExchange) \subseteq Quoted /\ ToSet(OffExchange) \subseteq Quoted
  BY DEF Quoted
<1>. QED
  BY <1>1, <1>2 DEF IngestInv, ManifestIsBacked

LEMMA SweepsLoseNothing == IngestInv /\ IngestNext => SweepLosesNothing
<1>. SUFFICES ASSUME IngestInv, IngestNext PROVE SweepLosesNothing
  OBVIOUS
<1>1. CASE series' = series
  BY <1>1 DEF SweepLosesNothing
<1>2. CASE CommitBroad
  <2>1. ASSUME series' = [k \in DOMAIN series |->
                             IF k \in DOMAIN ingest.fetched THEN ingest.fetched[k] ELSE series[k]]
        PROVE  SweepLosesNothing
    <3>1. \A k \in ToSet(BroadKeys) \cup SectorKeys :
             series'[k] = IF k \in DOMAIN ingest.fetched THEN ingest.fetched[k] ELSE series[k]
      BY <2>1 DEF IngestInv, TableShape
    <3>2. \A k \in SectorKeys : k \notin DOMAIN ingest.fetched
      BY <1>2, IngestAssumption DEF CommitBroad, IngestInv, SweepIsWhole
    <3>3. \A k \in SectorKeys : series'[k] = series[k]
      BY <3>1, <3>2
    <3>. QED
      BY <1>2, <3>1, <3>3 DEF CommitBroad, SweepLosesNothing, IngestInv, SweepIsWhole
  <2>. QED
    BY <1>1, <1>2, <2>1 DEF CommitBroad
<1>3. CASE CommitSectors
  <2>1. ASSUME NEW k \in ToSet(BroadKeys) PROVE series'[k] = series[k]
    BY <1>3, IngestAssumption DEF CommitSectors, IngestInv, TableShape
  <2>. QED
    BY <1>3, <2>1, SectorsAfter DEF SweepLosesNothing
<1>4. CASE RefreshStock
  <2>1. PICK c, frame : c \in Stocks /\ series' = [series EXCEPT ![c] = UpsertSeries(@, frame)]
    BY <1>4 DEF RefreshStock, IngestInv, HoldingsAreStocks
  <2>2. \A k \in ToSet(BroadKeys) \cup SectorKeys : series'[k] = series[k]
    BY <2>1, StocksAreApart DEF IngestInv, TableShape
  <2>. QED
    BY <2>2 DEF SweepLosesNothing
<1>. QED
  BY <1>1, <1>2, <1>3, <1>4
     DEF IngestNext, StartIngest, Preflight, UpsertInstruments, FetchPrice, PricesDone,
         FetchBroadIndex, FetchSectors, FetchFundNav, NavsDone, IngestHoldings, EndIngest,
         WriteManifest, ClearHalted, KillIngest, RunnerHalts, SaveSnapshot, PassHalfDay, tables

LEMMA NothingIsFalselyFresh == IngestInv /\ IngestNext => NoFalseFreshness
<1>. SUFFICES ASSUME IngestInv, IngestNext PROVE NoFalseFreshness
  OBVIOUS
<1>1. HoldingsGrow
  <2>1. CASE holdingRows' = holdingRows
    BY <2>1 DEF HoldingsGrow
  <2>2. CASE IngestHoldings
    BY <2>2, IngestHoldingsGrow
  <2>. QED
    BY <2>1, <2>2
       DEF IngestNext, StartIngest, Preflight, UpsertInstruments, FetchPrice, PricesDone,
           FetchBroadIndex, CommitBroad, FetchSectors, CommitSectors, FetchFundNav, NavsDone, EndIngest,
           WriteManifest, ClearHalted, KillIngest, RunnerHalts, RefreshStock, SaveSnapshot,
           PassHalfDay, tables
<1>2. manifestAt' # manifestAt => sidecar = "none" /\ ~NothingFetched
  <2>1. CASE WriteManifest
    BY <2>1 DEF WriteManifest, IngestInv, RunIsCounted
  <2>2. CASE ~WriteManifest
    BY <2>2
       DEF IngestNext, StartIngest, Preflight, UpsertInstruments, FetchPrice, PricesDone,
           FetchBroadIndex, CommitBroad, FetchSectors, CommitSectors, FetchFundNav, NavsDone, IngestHoldings,
           EndIngest, ClearHalted, KillIngest, RunnerHalts, RefreshStock, SaveSnapshot,
           PassHalfDay, files, Halt
  <2>. QED
    BY <2>1, <2>2
<1>. QED
  BY <1>1, <1>2 DEF NoFalseFreshness, HoldingsGrow

\* Through any halts, kills, failed writes, throttled sweeps and refreshed stocks,
\* what ingest tells the later stages is so: data the manifest calls fresh were
\* fetched, an index's history is replaced whole or added to and loses a PE only to
\* a day its provider gave without one, holdings are never withdrawn, and the manifest is dated only by a run that told of no failure.
THEOREM IngestIsTrusted == IngestSpec => IngestKeepsItsWord
<1>1. IngestInv /\ [IngestNext]_ingestVars
         => [SweepLosesNothing /\ NoFalseFreshness]_ingestVars
  BY SweepsLoseNothing, NothingIsFalselyFresh
<1>. QED
  BY <1>1, IngestInvariant, ManifestMeansFetched, PTL DEF IngestSpec, IngestKeepsItsWord

-----------------------------------------------------------------------------
(* The universe.                                                           *)

\* Before is a strict order, total but for equal sequences.
LEMMA BeforeIsStrict ==
    ASSUME NEW n \in Nat, NEW p \in [1..n -> Int]
    PROVE  ~Before(p, p)
BY DEF Before

LEMMA BeforeIsTotal ==
    ASSUME NEW n \in Nat, NEW p \in [1..n -> Int], NEW q \in [1..n -> Int], p # q
    PROVE  Before(p, q) \/ Before(q, p)
<1>. DEFINE apart == {k \in 1..n : p[k] # q[k]}
<1>1. apart # {} /\ apart \subseteq Nat
  OBVIOUS
<1>2. PICK k \in apart : \A j \in apart : k <= j
  BY <1>1, HasLeast
<1>3. \A j \in 1..k - 1 : p[j] = q[j]
  BY <1>2
<1>4. p[k] < q[k] \/ q[k] < p[k]
  BY <1>2
<1>. QED
  BY <1>2, <1>3, <1>4 DEF Before

LEMMA BeforeIsTransitive ==
    ASSUME NEW n \in Nat, NEW p \in [1..n -> Int], NEW q \in [1..n -> Int],
           NEW r \in [1..n -> Int], Before(p, q), Before(q, r)
    PROVE  Before(p, r)
<1>1. PICK k \in 1..n : p[k] < q[k] /\ \A j \in 1..k - 1 : p[j] = q[j]
  BY DEF Before
<1>2. PICK l \in 1..n : q[l] < r[l] /\ \A j \in 1..l - 1 : q[j] = r[j]
  BY DEF Before
<1>3. CASE k <= l
  <2>1. p[k] < r[k] /\ \A j \in 1..k - 1 : p[j] = r[j]
    BY <1>1, <1>2, <1>3
  <2>. QED
    BY <2>1 DEF Before
<1>4. CASE l < k
  <2>1. p[l] < r[l] /\ \A j \in 1..l - 1 : p[j] = r[j]
    BY <1>1, <1>2, <1>4
  <2>. QED
    BY <2>1 DEF Before
<1>. QED
  BY <1>3, <1>4

LEMMA OrdersAreSequences ==
    /\ \A f \in DOMAIN Offered : ShareOrder(f) \in [1..3 -> Int] /\ ShareOrder(f)[3] = f
    /\ \A f \in DOMAIN Offered, t \in ReturnTables :
           CandidateRank(f, t) \in [1..4 -> Int] /\ CandidateRank(f, t)[4] = f
<1>1. ASSUME NEW f \in DOMAIN Offered
      PROVE  ShareOrder(f) \in [1..3 -> Int] /\ ShareOrder(f)[3] = f
  <2>1. Offered[f].share \in Int /\ f \in Int
    <3>1. IsCatalogFund(Offered[f]) /\ DOMAIN Offered \subseteq Nat
      BY DiscoveryAssumption
    <3>2. f \in Int
      BY <3>1
    <3>3. Offered[f].share \in Nat
      BY <3>1 DEF IsCatalogFund
    <3>. QED
      BY <3>2, <3>3
  <2>2. (IF Offered[f].of # "" THEN 1 ELSE 0) \in Int
    OBVIOUS
  <2>. DEFINE a == Offered[f].share
              b == IF Offered[f].of # "" THEN 1 ELSE 0
  <2>3. ShareOrder(f) = <<a, b, f>> /\ a \in Int /\ b \in Int
    BY <2>1, <2>2 DEF ShareOrder
  <2>. HIDE DEF a, b
  <2>. QED
    BY <2>1, <2>3
<1>2. ASSUME NEW f \in DOMAIN Offered, NEW t \in ReturnTables
      PROVE  CandidateRank(f, t) \in [1..4 -> Int] /\ CandidateRank(f, t)[4] = f
  <2>1. f \in Int /\ (f \in DOMAIN t => -t[f] \in Int)
    <3>1. IsRankTable(t) /\ DOMAIN Offered \subseteq Nat
      BY DiscoveryAssumption
    <3>. QED
      BY <3>1 DEF IsRankTable
  <2>. DEFINE a == IF Offered[f].of # "" THEN 1 ELSE 0
              b == IF f \in DOMAIN t THEN 0 ELSE 1
              c == IF f \in DOMAIN t THEN -t[f] ELSE 0
  <2>2. a \in Int /\ b \in Int /\ c \in Int
    BY <2>1
  <2>3. CandidateRank(f, t) = <<a, b, c, f>>
    BY DEF CandidateRank
  <2>. HIDE DEF a, b, c
  <2>. QED
    BY <2>1, <2>2, <2>3
<1>. QED
  BY <1>1, <1>2

LEMMA ProductsOnce ==
    ASSUME NEW funds \in SUBSET DOMAIN Offered,
           NEW f \in DedupeShareClasses(funds), NEW g \in DedupeShareClasses(funds),
           Offered[f].base = Offered[g].base
    PROVE  f = g
<1>. SUFFICES ASSUME f # g PROVE FALSE
  OBVIOUS
<1>1. f \in funds /\ g \in funds /\ ~Before(ShareOrder(f), ShareOrder(g))
      /\ ~Before(ShareOrder(g), ShareOrder(f))
  BY DEF DedupeShareClasses
<1>2. ShareOrder(f) # ShareOrder(g)
  BY <1>1, OrdersAreSequences
<1>. QED
  BY <1>1, <1>2, OrdersAreSequences, BeforeIsTotal

\* Of some funds of one group, each with fewer than k of the group before it,
\* there are no more than k.
LEMMA FirstOnes ==
    ASSUME NEW group, IsFiniteSet(group), group \subseteq DOMAIN Offered,
           NEW t \in ReturnTables, NEW k \in Nat,
           NEW some \in SUBSET group,
           \A f \in some :
               Cardinality({g \in group : Before(CandidateRank(g, t), CandidateRank(f, t))}) < k
    PROVE  Cardinality(some) <= k
<1>. DEFINE ahead(f) == {g \in group : Before(CandidateRank(g, t), CandidateRank(f, t))}
            n == [f \in some |-> Cardinality(ahead(f))]
            left == {k - n[f] : f \in some}
<1>1. \A f : IsFiniteSet(ahead(f)) /\ Cardinality(ahead(f)) \in Nat
  BY FS_Subset, FS_CardinalityType
<1>2. IsFiniteSet(some) /\ Cardinality(some) \in Nat
  BY FS_Subset, FS_CardinalityType
<1>3. n \in [some -> Nat] /\ \A f \in some : n[f] = Cardinality(ahead(f)) /\ n[f] < k
  BY <1>1
<1>4. CASE some = {}
  BY <1>4, FS_EmptySet
<1>5. CASE some # {}
  <2>. HIDE DEF n
  <2>0. \A f \in some : n[f] \in Nat /\ n[f] < k /\ k - n[f] \in Nat
    <3>1. \A f \in some : n[f] < k
      BY <1>3
    <3>2. \A f \in some : n[f] \in Nat
      BY <1>3
    <3>3. \A i \in Nat : i < k => k - i \in Nat
      OBVIOUS
    <3>. HIDE DEF ahead, left
    <3>. QED
      BY <3>1, <3>2, <3>3
  <2>1. left \subseteq Nat /\ left # {}
    BY <1>5, <2>0
  <2>2. PICK m \in some : \A f \in some : k - n[m] <= k - n[f]
    <3>1. PICK x \in left : \A y \in left : x <= y
      BY <2>1, HasLeast
    <3>. QED
      BY <3>1
  <2>3. \A f \in some : n[f] <= n[m]
    BY <1>3, <2>2
  <2>4. ASSUME NEW f \in some, f # m
        PROVE  f \in ahead(m)
    <3>1. /\ CandidateRank(f, t) \in [1..4 -> Int] /\ CandidateRank(m, t) \in [1..4 -> Int]
          /\ CandidateRank(f, t) # CandidateRank(m, t)
      BY <2>4, OrdersAreSequences
    <3>2. SUFFICES ASSUME Before(CandidateRank(m, t), CandidateRank(f, t)) PROVE FALSE
      BY <3>1, BeforeIsTotal
    <3>3. ahead(m) \subseteq ahead(f)
      BY <3>1, <3>2, OrdersAreSequences, BeforeIsTransitive
    <3>4. m \in ahead(f) /\ m \notin ahead(m)
      BY <3>1, <3>2, BeforeIsStrict
    <3>5. /\ Cardinality(ahead(m)) <= Cardinality(ahead(f))
          /\ Cardinality(ahead(m)) # Cardinality(ahead(f))
      BY <1>1, <3>3, <3>4, FS_Subset
    <3>6. n[m] <= n[f] /\ n[m] # n[f]
      BY <1>3, <3>5
    <3>. QED
      BY <1>3, <2>3, <3>6
  <2>5. some \ {m} \subseteq ahead(m)
    BY <2>4
  <2>6. Cardinality(some \ {m}) <= Cardinality(ahead(m)) /\ Cardinality(ahead(m)) = n[m]
    <3>. HIDE DEF ahead
    <3>. QED
      BY <1>1, <1>3, <2>5, FS_Subset
  <2>7. Cardinality(some \ {m}) = Cardinality(some) - 1
    BY <1>2, FS_RemoveElement
  <2>. QED
    BY <1>2, <2>0, <2>6, <2>7
<1>. QED
  BY <1>4, <1>5

LEMMA BuildIsClean ==
    ASSUME NEW catalog \in SUBSET DOMAIN Offered, NEW t \in ReturnTables,
           generated' = ApplyCaps(Candidates(catalog), t)
    PROVE  generated' \subseteq DOMAIN Offered /\ UniverseIsClean'
<1>. DEFINE funds == Candidates(catalog)
<1>0. /\ funds \subseteq DedupeShareClasses(catalog) /\ funds \subseteq DOMAIN Offered
      /\ \A f \in funds : Offered[f].class # "none"
  BY DEF Candidates, ExcludeFeeders, Classified, DedupeShareClasses
<1>1. generated' \subseteq funds
  BY DEF ApplyCaps
<1>2. ASSUME NEW f \in generated', NEW g \in generated', Offered[f].base = Offered[g].base
      PROVE  f = g
  BY <1>0, <1>1, <1>2, ProductsOnce
<1>3. ASSUME NEW f \in generated', NEW g \in generated', Offered[g].class = "cn_etf"
      PROVE  Offered[f].of # Offered[g].base
  <2>1. g \in Classified(DedupeShareClasses(catalog)) /\ f \in funds
    BY <1>1 DEF Candidates, ExcludeFeeders
  <2>2. Offered[f].of # "" => Offered[f].of # Offered[g].base
    BY <1>3, <2>1 DEF Candidates, ExcludeFeeders
  <2>3. Offered[g].base # ""
    BY <1>0, <1>1, <1>3, DiscoveryAssumption DEF IsCatalogFund
  <2>. QED
    BY <2>2, <2>3
<1>4. ASSUME NEW f \in generated'
      PROVE  Cardinality({g \in generated' : CapKey(g) = CapKey(f)}) <= Caps[CapKey(f)]
  <2>. DEFINE group == {g \in funds : CapKey(g) = CapKey(f)}
              some  == {g \in generated' : CapKey(g) = CapKey(f)}
  <2>1. IsFiniteSet(group) /\ group \subseteq DOMAIN Offered
    BY <1>0, FS_Subset, DiscoveryAssumption
  <2>2. Caps[CapKey(f)] \in Nat
    BY <1>0, <1>1, CapAssumption
  <2>3. some \subseteq group
    BY <1>1
  <2>4. ASSUME NEW g \in some
        PROVE  Cardinality({h \in group : Before(CandidateRank(h, t), CandidateRank(g, t))})
                   < Caps[CapKey(f)]
    <3>1. Cardinality({h \in funds : CapKey(h) = CapKey(g)
                          /\ Before(CandidateRank(h, t), CandidateRank(g, t))})
              < Caps[CapKey(g)]
      BY DEF ApplyCaps
    <3>2. {h \in group : Before(CandidateRank(h, t), CandidateRank(g, t))}
          = {h \in funds : CapKey(h) = CapKey(g)
                /\ Before(CandidateRank(h, t), CandidateRank(g, t))}
      OBVIOUS
    <3>. QED
      BY <3>1, <3>2
  <2>. HIDE DEF group, some
  <2>5. Cardinality(some) <= Caps[CapKey(f)]
    BY <2>1, <2>2, <2>3, <2>4, FirstOnes
  <2>. QED
    BY <2>5 DEF some
<1>. QED
  BY <1>0, <1>1, <1>2, <1>3, <1>4 DEF UniverseIsClean

-----------------------------------------------------------------------------
(* The sheets.                                                             *)

AllFunds == DOMAIN Offered \cup DOMAIN Handmade

\* The rows an order of the funds of a set that have a role asks about.
Asked(order) == {order[i] : i \in DOMAIN order}

LEMMA OrderAsksAll ==
    ASSUME NEW funds, IsFiniteSet(funds), NEW order \in InRoleOrder(funds)
    PROVE  /\ \E n \in Nat : order \in [1..n -> Placed(funds)]
           /\ \A i, j \in DOMAIN order : i # j => order[i] # order[j]
           /\ Asked(order) = Placed(funds)
<1>. DEFINE S == Placed(funds)
            n == Cardinality(S)
<1>1. IsFiniteSet(S) /\ n \in Nat
  BY FS_Subset, FS_CardinalityType DEF Placed
<1>2. order \in [1..n -> S] /\ \A i, j \in 1..n : i # j => order[i] # order[j]
  BY DEF InRoleOrder, SetToSeqs
<1>. HIDE DEF S
<1>3. order \in Injection(1..n, S)
  BY <1>2 DEF Injection, IsInjective
<1>4. Cardinality(1..n) = n
  BY <1>1, FS_Interval
<1>5. order \in Surjection(1..n, S)
  BY <1>1, <1>3, <1>4, FS_Injection
<1>6. Asked(order) = S
  BY <1>2, <1>5 DEF Surjection, Asked
<1>. QED
  BY <1>1, <1>2, <1>6 DEF S

DiscShape ==
    /\ generated \subseteq DOMAIN Offered
    /\ meta \in [AllFunds -> MetaRows] /\ history \in [AllFunds -> HistoryRows]
    /\ builds \in 0..MaxBuilds /\ discovers \in Nat
    /\ disc = [at |-> disc.at, todo |-> disc.todo, tries |-> disc.tries,
               universe |-> disc.universe, screen |-> disc.screen, listed |-> disc.listed,
               dropped |-> disc.dropped]
    /\ disc.at \in {"off", "reasons", "diagnostics", "rejections", "done"}
    /\ disc.tries \in 0..MaxRetries
    /\ sheets = [watchlist |-> sheets.watchlist, rejections |-> sheets.rejections]
    /\ sheets.watchlist.run \in 0..discovers /\ sheets.rejections.run \in 0..discovers

\* What a run knows of the tables is what they still say.
ScreenIsCurrent ==
    /\ disc.at # "off" =>
           /\ disc.universe = Universe
           /\ disc.screen = Screen(Universe, meta, history)
    /\ disc.screen.quality \subseteq disc.universe
       \/ discovers = 0

\* The funds with a role are those still to be asked about, listed or dropped.
ToAsk == Asked(disc.todo)
EachIsOnce ==
    /\ \E n \in Nat : disc.todo \in [1..n -> ToAsk]
    /\ \A i, j \in DOMAIN disc.todo : i # j => disc.todo[i] # disc.todo[j]
    /\ disc.listed \cap disc.dropped = {}
    /\ ToAsk \cap (disc.listed \cup disc.dropped) = {}
    /\ discovers > 0 =>
           disc.listed \cup disc.dropped \cup ToAsk = Placed(disc.screen.quality)

SheetsAreOfRun ==
    /\ disc.at \in {"diagnostics", "rejections", "done"} => disc.todo = <<>>
    /\ disc.at = "reasons" => sheets.watchlist.run < discovers
    /\ disc.at \in {"reasons", "diagnostics", "rejections"} => sheets.rejections.run < discovers
    /\ disc.at # "off" => discovers > 0
    /\ discovers > 0 /\ sheets.watchlist.run = discovers =>
           sheets.watchlist.rows = disc.listed /\ disc.todo = <<>>
    /\ discovers > 0 /\ sheets.rejections.run = discovers =>
           sheets.rejections.rows = RejectionRows(disc.universe, disc.screen)

\* The funds no role took are those of the screen without one.
OrphansAreApart ==
    discovers > 0 => disc.screen.orphans = disc.screen.quality \ Placed(disc.screen.quality)

DiscInv ==
    /\ DiscShape /\ ScreenIsCurrent /\ EachIsOnce /\ SheetsAreOfRun /\ OrphansAreApart
    /\ UniverseIsClean

LEMMA DiscInvTypes == DiscInv => DiscoveryTypeOK
BY DEF DiscInv, DiscShape, DiscoveryTypeOK

LEMMA EmptyAsksNone == Asked(<<>>) = {} /\ <<>> \in [1..0 -> Asked(<<>>)]
BY DEF Asked

LEMMA DiscInvAccounts == DiscInv => SheetsAccountForAll
<1>. SUFFICES ASSUME DiscInv, sheets.watchlist.run = sheets.rejections.run,
                     sheets.watchlist.run = discovers, discovers > 0
              PROVE  /\ disc.listed \cap sheets.rejections.rows = {}
                     /\ disc.universe = sheets.watchlist.rows \cup sheets.rejections.rows
                                        \cup disc.dropped
                     /\ disc.dropped \cap (sheets.watchlist.rows \cup sheets.rejections.rows) = {}
  BY DEF SheetsAccountForAll
<1>. DEFINE quality == disc.screen.quality
<1>1. /\ sheets.watchlist.rows = disc.listed /\ disc.todo = <<>>
      /\ sheets.rejections.rows = RejectionRows(disc.universe, disc.screen)
  BY DEF DiscInv, SheetsAreOfRun
<1>2. disc.listed \cup disc.dropped = Placed(quality) /\ disc.listed \cap disc.dropped = {}
  BY <1>1, EmptyAsksNone DEF DiscInv, EachIsOnce, ToAsk
<1>3. quality \subseteq disc.universe /\ Placed(quality) \subseteq quality
  BY DEF DiscInv, ScreenIsCurrent, Placed, DiscShape
<1>4. RejectionRows(disc.universe, disc.screen) = disc.universe \ Placed(quality)
  BY <1>3 DEF DiscInv, RejectionRows, FilteredRows, OrphansAreApart
<1>. QED
  BY <1>1, <1>2, <1>3, <1>4

\* What the two filters let through.
LEMMA QualityIsGrounded ==
    ASSUME DiscShape, NEW f \in Screen(Universe, meta, history).quality
    PROVE  /\ meta[f] \in {"young", "seasoned"} /\ history[f] # "none"
           /\ NeedsTenure(f) => meta[f] = "seasoned"
           /\ f \notin Banned /\ RowOf(f).theme \notin ExcludedThemes
<1>1. f \in Universe /\ HardReasons(f, meta[f], history[f]) = {}
      /\ QualityReasons(f, meta[f], history[f]) = {}
  BY DEF Screen
<1>2. f \in AllFunds
  BY <1>1 DEF Universe, AllFunds, DiscShape
<1>3. meta[f] \in MetaRows
  BY <1>2 DEF DiscShape
<1>4. \A holds, text : holds \in BOOLEAN /\ Reason(holds, text) = {} => ~holds
  BY DEF Reason
<1>5. /\ f \notin Banned /\ RowOf(f).theme \notin ExcludedThemes
      /\ meta[f] # "absent" /\ meta[f] # "blank" /\ meta[f] # "poor"
  BY <1>1 DEF HardReasons, Reason
<1>6. history[f] # "none" /\ ~(history[f] # "none" /\ NeedsTenure(f) /\ meta[f] # "seasoned")
  BY <1>1 DEF QualityReasons, Reason
<1>. QED
  BY <1>3, <1>5, <1>6 DEF MetaRows

LEMMA DiscInvGrounds == DiscInv => ListedOnEvidence
<1>. SUFFICES ASSUME DiscInv, disc.at \in {"diagnostics", "rejections", "done"},
                     NEW f \in disc.listed
              PROVE  /\ meta[f] \in {"young", "seasoned"} /\ history[f] # "none"
                     /\ NeedsTenure(f) => meta[f] = "seasoned"
                     /\ f \notin Banned /\ RowOf(f).theme \notin ExcludedThemes
  BY DEF ListedOnEvidence
<1>1. f \in disc.screen.quality
  BY DEF DiscInv, EachIsOnce, SheetsAreOfRun, Placed
<1>2. disc.screen = Screen(Universe, meta, history)
  BY DEF DiscInv, ScreenIsCurrent
<1>. QED
  BY <1>1, <1>2, QualityIsGrounded DEF DiscInv

LEMMA DiscInitially == DiscoveryInit => DiscInv
<1>. SUFFICES ASSUME DiscoveryInit PROVE DiscInv
  OBVIOUS
<1>1. disc = NoRun /\ generated = {} /\ discovers = 0 /\ builds = 0
      /\ sheets = [watchlist |-> NoSheet, rejections |-> NoSheet]
  BY DEF DiscoveryInit
<1>2. meta \in [AllFunds -> MetaRows] /\ history \in [AllFunds -> HistoryRows]
  <2>1. "absent" \in MetaRows /\ "none" \in HistoryRows
    BY DEF MetaRows, HistoryRows
  <2>2. meta \in [AllFunds -> {"absent"}] /\ history \in [AllFunds -> {"none"}]
    BY DEF DiscoveryInit, AllFunds
  <2>. QED
    BY <2>1, <2>2
<1>3. DiscShape
  <2>1. disc.at = "off" /\ disc.tries = 0
    BY <1>1 DEF NoRun
  <2>2. MaxRetries \in Nat /\ MaxBuilds \in Nat
    BY DiscoveryAssumption
  <2>3. disc = [at |-> disc.at, todo |-> disc.todo, tries |-> disc.tries,
               universe |-> disc.universe, screen |-> disc.screen, listed |-> disc.listed,
               dropped |-> disc.dropped]
    BY <1>1 DEF NoRun
  <2>. QED
    BY <1>1, <1>2, <2>1, <2>2, <2>3 DEF DiscShape, NoSheet
<1>4. ScreenIsCurrent /\ SheetsAreOfRun /\ OrphansAreApart
  BY <1>1 DEF NoRun, NoSheet, ScreenIsCurrent, SheetsAreOfRun, OrphansAreApart
<1>5. EachIsOnce
  <2>1. disc.todo = <<>> /\ disc.listed = {} /\ disc.dropped = {} /\ ToAsk = Asked(<<>>)
    BY <1>1 DEF NoRun, ToAsk
  <2>2. \E n \in Nat : disc.todo \in [1..n -> ToAsk]
    BY <2>1, EmptyAsksNone
  <2>. QED
    BY <1>1, <2>1, <2>2, EmptyAsksNone DEF EachIsOnce
<1>6. UniverseIsClean
  BY <1>1 DEF UniverseIsClean
<1>. QED
  BY <1>3, <1>4, <1>5, <1>6 DEF DiscInv

\* What is left to ask about once the first has been.
LEMMA TailAsks ==
    ASSUME NEW S, NEW n \in Nat, NEW order \in [1..n -> S], order # <<>>,
           \A i, j \in DOMAIN order : i # j => order[i] # order[j]
    PROVE  /\ Head(order) \in Asked(order)
           /\ Asked(Tail(order)) = Asked(order) \ {Head(order)}
           /\ \E k \in Nat : Tail(order) \in [1..k -> Asked(Tail(order))]
           /\ \A i, j \in DOMAIN Tail(order) : i # j => Tail(order)[i] # Tail(order)[j]
<1>1. order \in Seq(S) /\ Len(order) = n /\ DOMAIN order = 1..n
  OBVIOUS
<1>2. n # 0
  BY <1>1
<1>3. /\ Head(order) = order[1] /\ 1 \in 1..n
      /\ Len(Tail(order)) = n - 1 /\ DOMAIN Tail(order) = 1..n - 1
      /\ Tail(order) \in Seq(S)
      /\ \A i \in 1..n - 1 : Tail(order)[i] = order[i + 1] /\ i + 1 \in 1..n
  BY <1>1, <1>2
<1>4. Head(order) \in Asked(order)
  BY <1>1, <1>3 DEF Asked
<1>5. \A i, j \in DOMAIN Tail(order) : i # j => Tail(order)[i] # Tail(order)[j]
  BY <1>1, <1>3
<1>6. ASSUME NEW x \in Asked(Tail(order))
      PROVE  x \in Asked(order) \ {Head(order)}
  <2>1. PICK i \in 1..n - 1 : x = order[i + 1]
    BY <1>3 DEF Asked
  <2>2. i + 1 \in 1..n /\ i + 1 # 1
    BY <1>3
  <2>. QED
    BY <1>1, <1>3, <2>1, <2>2 DEF Asked
<1>7. ASSUME NEW x \in Asked(order) \ {Head(order)}
      PROVE  x \in Asked(Tail(order))
  <2>1. PICK i \in 1..n : x = order[i]
    BY <1>1 DEF Asked
  <2>2. i # 1
    BY <1>3, <2>1
  <2>3. i - 1 \in 1..n - 1 /\ (i - 1) + 1 = i
    BY <2>2
  <2>. QED
    BY <1>3, <2>1, <2>3 DEF Asked
<1>8. Tail(order) \in [1..n - 1 -> Asked(Tail(order))] /\ n - 1 \in Nat
  <2>. DEFINE rest == Tail(order)
  <2>3. rest \in Seq(S) /\ Len(rest) = n - 1
    BY <1>3
  <2>4. rest \in [1..Len(rest) -> S]
    <3>. HIDE DEF rest
    <3>. QED
      BY <2>3
  <2>5. rest \in [1..n - 1 -> S]
    BY <2>3, <2>4
  <2>1. rest = [i \in 1..n - 1 |-> rest[i]]
    <3>. HIDE DEF rest
    <3>. QED
      BY <2>5
  <2>2. \A i \in 1..n - 1 : Tail(order)[i] \in Asked(Tail(order))
    BY <1>3 DEF Asked
  <2>. QED
    BY <1>2, <2>1, <2>2
<1>. QED
  BY <1>4, <1>5, <1>6, <1>7, <1>8

\* A step of a run past its start that leaves the tables alone.
LEMMA DiscStep == DiscInv /\ DiscoveryNext => DiscInv'
<1>. SUFFICES ASSUME DiscInv, DiscoveryNext PROVE DiscInv'
  OBVIOUS
<1>0. /\ disc = [at |-> disc.at, todo |-> disc.todo, tries |-> disc.tries,
               universe |-> disc.universe, screen |-> disc.screen, listed |-> disc.listed,
               dropped |-> disc.dropped]
      /\ sheets = [watchlist |-> sheets.watchlist, rejections |-> sheets.rejections]
      /\ discovers \in Nat /\ MaxRetries \in Nat
      /\ disc.at \in {"off", "reasons", "diagnostics", "rejections", "done"}
      /\ disc.tries \in 0..MaxRetries
      /\ sheets.watchlist.run \in 0..discovers /\ sheets.rejections.run \in 0..discovers
      /\ builds \in 0..MaxBuilds /\ MaxBuilds \in Nat
      /\ generated \subseteq DOMAIN Offered
      /\ meta \in [AllFunds -> MetaRows] /\ history \in [AllFunds -> HistoryRows]
  BY DiscoveryAssumption DEF DiscInv, DiscShape
<1>1. CASE BuildUniverse
  <2>1. /\ disc.at = "off" /\ builds' \in 0..MaxBuilds
        /\ UNCHANGED <<meta, history, sheets, diagnosed, disc, discovers>>
    BY <1>0, <1>1 DEF BuildUniverse
  <2>2. generated' \subseteq DOMAIN Offered /\ UniverseIsClean'
    <3>1. CASE generated' = generated
      BY <3>1 DEF DiscInv, DiscShape, UniverseIsClean
    <3>2. CASE \E catalog \in SUBSET DOMAIN Offered, returns \in ReturnTables :
                  generated' = ApplyCaps(Candidates(catalog), returns)
      BY <3>2, BuildIsClean
    <3>. QED
      BY <1>1, <3>1, <3>2 DEF BuildUniverse
  <2>3. DiscShape'
    BY <2>1, <2>2 DEF DiscInv, DiscShape
  <2>4. ScreenIsCurrent' /\ EachIsOnce' /\ SheetsAreOfRun' /\ OrphansAreApart'
    BY <2>1 DEF DiscInv, ScreenIsCurrent, EachIsOnce, SheetsAreOfRun, OrphansAreApart, ToAsk
  <2>. QED
    BY <2>2, <2>3, <2>4 DEF DiscInv
<1>2. CASE IngestTables
  <2>1. /\ disc.at = "off"
        /\ UNCHANGED <<generated, builds, sheets, diagnosed, disc, discovers>>
    BY <1>2 DEF IngestTables
  <2>2. meta' \in [AllFunds -> MetaRows] /\ history' \in [AllFunds -> HistoryRows]
    <3>1. PICK f \in Universe, m \in MetaSeen, h \in HistorySeen :
            meta' = [meta EXCEPT ![f] = m] /\ history' = [history EXCEPT ![f] = h]
      BY <1>2 DEF IngestTables
    <3>2. m \in MetaRows /\ h \in HistoryRows
      BY DiscoveryAssumption
    <3>. QED
      BY <1>0, <3>1, <3>2
  <2>3. DiscShape'
    BY <2>1, <2>2 DEF DiscInv, DiscShape
  <2>4. ScreenIsCurrent' /\ EachIsOnce' /\ SheetsAreOfRun' /\ OrphansAreApart'
    BY <2>1 DEF DiscInv, ScreenIsCurrent, EachIsOnce, SheetsAreOfRun, OrphansAreApart, ToAsk
  <2>5. UniverseIsClean'
    BY <2>1 DEF DiscInv, UniverseIsClean
  <2>. QED
    BY <2>3, <2>4, <2>5 DEF DiscInv
<1>3. CASE StartDiscover
  <2>. DEFINE s == Screen(Universe, meta, history)
  <2>1. /\ disc.at = "off" /\ discovers' = discovers + 1
        /\ UNCHANGED <<generated, builds, meta, history, sheets, diagnosed>>
    BY <1>3 DEF StartDiscover
  <2>2. PICK order \in InRoleOrder(s.quality) :
          disc' = [NoRun EXCEPT !.at = "reasons", !.universe = Universe, !.screen = s,
                                !.todo = order]
    BY <1>3 DEF StartDiscover
  <2>3. s.quality \subseteq Universe /\ s.orphans = s.quality \ Placed(s.quality)
    BY DEF Screen
  <2>4. IsFiniteSet(s.quality)
    <3>1. IsFiniteSet(generated) /\ IsFiniteSet(DOMAIN Handmade)
      BY <1>0, FS_Subset, DiscoveryAssumption
    <3>2. IsFiniteSet(Universe)
      BY <3>1, FS_Union DEF Universe
    <3>. QED
      BY <2>3, <3>2, FS_Subset
  <2>. HIDE DEF s
  <2>5. /\ disc'.at = "reasons" /\ disc'.todo = order /\ disc'.tries = 0
        /\ disc'.universe = Universe /\ disc'.screen = s
        /\ disc'.listed = {} /\ disc'.dropped = {}
        /\ disc' = [at |-> disc'.at, todo |-> disc'.todo, tries |-> disc'.tries,
               universe |-> disc'.universe, screen |-> disc'.screen, listed |-> disc'.listed,
               dropped |-> disc'.dropped]
    BY <2>2 DEF NoRun
  <2>6. /\ \E n \in Nat : order \in [1..n -> Placed(s.quality)]
        /\ \A i, j \in DOMAIN order : i # j => order[i] # order[j]
        /\ Asked(order) = Placed(s.quality)
    BY <2>4, OrderAsksAll
  <2>7. DiscShape'
    BY <1>0, <2>1, <2>5 DEF DiscInv, DiscShape
  <2>8. ScreenIsCurrent'
    BY <2>1, <2>3, <2>5 DEF ScreenIsCurrent, Universe, s
  <2>9. EachIsOnce'
    <3>1. ToAsk' = Placed(s.quality)
      BY <2>5, <2>6 DEF ToAsk
    <3>. QED
      BY <2>5, <2>6, <3>1 DEF EachIsOnce
  <2>10. SheetsAreOfRun'
    BY <1>0, <2>1, <2>5 DEF SheetsAreOfRun
  <2>11. OrphansAreApart' /\ UniverseIsClean'
    BY <2>1, <2>3, <2>5 DEF DiscInv, OrphansAreApart, UniverseIsClean
  <2>. QED
    BY <2>7, <2>8, <2>9, <2>10, <2>11 DEF DiscInv
<1>4. CASE WriteReason
  <2>. DEFINE f == Head(disc.todo)
              rest == Tail(disc.todo)
  <2>1. /\ disc.at = "reasons" /\ disc.todo # <<>>
        /\ UNCHANGED <<generated, builds, meta, history, sheets, diagnosed, discovers>>
    BY <1>4 DEF WriteReason
  <2>2. PICK n \in Nat : disc.todo \in [1..n -> ToAsk]
    BY DEF DiscInv, EachIsOnce
  <2>3. /\ f \in ToAsk /\ Asked(rest) = ToAsk \ {f}
        /\ \E k \in Nat : rest \in [1..k -> Asked(rest)]
        /\ \A i, j \in DOMAIN rest : i # j => rest[i] # rest[j]
    BY <2>1, <2>2, TailAsks DEF DiscInv, EachIsOnce, ToAsk
  <2>4. \/ disc' = [disc EXCEPT !.todo = rest, !.tries = 0, !.listed = disc.listed \cup {f}]
        \/ disc.tries < MaxRetries /\ disc' = [disc EXCEPT !.tries = disc.tries + 1]
        \/ disc' = [disc EXCEPT !.todo = rest, !.tries = 0, !.dropped = disc.dropped \cup {f}]
    BY <1>0, <1>4 DEF WriteReason
  <2>. HIDE DEF f, rest
  <2>5. /\ disc'.at = "reasons" /\ disc'.universe = disc.universe /\ disc'.screen = disc.screen
        /\ disc'.tries \in 0..MaxRetries
        /\ disc' = [at |-> disc'.at, todo |-> disc'.todo, tries |-> disc'.tries,
               universe |-> disc'.universe, screen |-> disc'.screen, listed |-> disc'.listed,
               dropped |-> disc'.dropped]
        /\ \/ /\ disc'.todo = rest /\ disc'.listed = disc.listed \cup {f}
              /\ disc'.dropped = disc.dropped
           \/ /\ disc'.todo = disc.todo /\ disc'.listed = disc.listed
              /\ disc'.dropped = disc.dropped
           \/ /\ disc'.todo = rest /\ disc'.listed = disc.listed
              /\ disc'.dropped = disc.dropped \cup {f}
    <3>1. disc'.tries \in 0..MaxRetries
      <4>1. disc'.tries = 0 \/ (disc.tries < MaxRetries /\ disc'.tries = disc.tries + 1)
        BY <1>0, <2>4
      <4>. QED
        BY <1>0, <4>1
    <3>2. /\ disc'.at = "reasons" /\ disc'.universe = disc.universe
          /\ disc'.screen = disc.screen
      BY <1>0, <2>1, <2>4
    <3>3. disc' = [at |-> disc'.at, todo |-> disc'.todo, tries |-> disc'.tries,
               universe |-> disc'.universe, screen |-> disc'.screen, listed |-> disc'.listed,
               dropped |-> disc'.dropped]
      BY <1>0, <2>4
    <3>4. \/ /\ disc'.todo = rest /\ disc'.listed = disc.listed \cup {f}
             /\ disc'.dropped = disc.dropped
          \/ /\ disc'.todo = disc.todo /\ disc'.listed = disc.listed
             /\ disc'.dropped = disc.dropped
          \/ /\ disc'.todo = rest /\ disc'.listed = disc.listed
             /\ disc'.dropped = disc.dropped \cup {f}
      BY <1>0, <2>4
    <3>. QED
      BY <3>1, <3>2, <3>3, <3>4
  <2>6. DiscShape'
    BY <1>0, <2>1, <2>5 DEF DiscShape
  <2>7. ScreenIsCurrent' /\ OrphansAreApart' /\ UniverseIsClean'
    BY <2>1, <2>5 DEF DiscInv, ScreenIsCurrent, OrphansAreApart, UniverseIsClean, Universe
  <2>8. SheetsAreOfRun'
    BY <1>0, <2>1, <2>5 DEF DiscInv, SheetsAreOfRun
  <2>9. EachIsOnce'
    <3>0. /\ disc.listed \cap disc.dropped = {}
          /\ ToAsk \cap (disc.listed \cup disc.dropped) = {}
          /\ discovers > 0 =>
                disc.listed \cup disc.dropped \cup ToAsk = Placed(disc.screen.quality)
      BY DEF DiscInv, EachIsOnce
    <3>1. CASE disc'.todo = disc.todo /\ disc'.listed = disc.listed /\ disc'.dropped = disc.dropped
      BY <2>1, <2>5, <3>1 DEF DiscInv, EachIsOnce, ToAsk
    <3>2. CASE disc'.todo = rest
      <4>1. ToAsk' = ToAsk \ {f}
        BY <2>3, <3>2 DEF ToAsk
      <4>2. \E k \in Nat : disc'.todo \in [1..k -> ToAsk']
        BY <2>3, <3>2 DEF ToAsk
      <4>3. \A i, j \in DOMAIN disc'.todo : i # j => disc'.todo[i] # disc'.todo[j]
        BY <2>3, <3>2
      <4>4. CASE disc'.listed = disc.listed \cup {f} /\ disc'.dropped = disc.dropped
        BY <2>1, <2>3, <2>5, <3>0, <4>1, <4>2, <4>3, <4>4 DEF EachIsOnce
      <4>5. CASE disc'.listed = disc.listed /\ disc'.dropped = disc.dropped \cup {f}
        BY <2>1, <2>3, <2>5, <3>0, <4>1, <4>2, <4>3, <4>5 DEF EachIsOnce
      <4>6. CASE disc'.listed = disc.listed /\ disc'.dropped = disc.dropped /\ disc'.todo = disc.todo
        BY <3>1, <4>6
      <4>. QED
        BY <2>5, <4>4, <4>5, <4>6
    <3>. QED
      BY <2>5, <3>1, <3>2
  <2>. QED
    BY <2>6, <2>7, <2>8, <2>9 DEF DiscInv
<1>5. CASE WriteWatchlist
  <2>1. /\ disc.at = "reasons" /\ disc.todo = <<>>
        /\ sheets' = [sheets EXCEPT !.watchlist = [run |-> discovers, rows |-> disc.listed]]
        /\ disc' = [disc EXCEPT !.at = "diagnostics"]
        /\ UNCHANGED <<generated, builds, meta, history, diagnosed, discovers>>
    BY <1>5 DEF WriteWatchlist
  <2>2. /\ disc'.at = "diagnostics" /\ disc'.universe = disc.universe /\ disc'.screen = disc.screen
        /\ disc'.todo = disc.todo /\ disc'.tries = disc.tries
        /\ disc'.listed = disc.listed /\ disc'.dropped = disc.dropped
        /\ disc' = [at |-> disc'.at, todo |-> disc'.todo, tries |-> disc'.tries,
               universe |-> disc'.universe, screen |-> disc'.screen, listed |-> disc'.listed,
               dropped |-> disc'.dropped]
    BY <1>0, <2>1
  <2>3. /\ sheets'.watchlist.run = discovers /\ sheets'.watchlist.rows = disc.listed
        /\ sheets'.rejections = sheets.rejections
        /\ sheets' = [watchlist |-> sheets'.watchlist, rejections |-> sheets'.rejections]
    BY <1>0, <2>1
  <2>4. DiscShape'
    BY <1>0, <2>1, <2>2, <2>3 DEF DiscShape
  <2>0. UNCHANGED <<generated, meta, history, discovers>>
    BY <2>1
  <2>5. ScreenIsCurrent' /\ OrphansAreApart' /\ UniverseIsClean' /\ EachIsOnce'
    <3>1. ScreenIsCurrent' /\ OrphansAreApart' /\ UniverseIsClean'
      BY <2>0, <2>1, <2>2 DEF DiscInv, ScreenIsCurrent, OrphansAreApart, UniverseIsClean, Universe
    <3>2. EachIsOnce'
      BY <2>0, <2>2 DEF DiscInv, EachIsOnce, ToAsk
    <3>. QED
      BY <3>1, <3>2
  <2>6. SheetsAreOfRun'
    BY <1>0, <2>1, <2>2, <2>3 DEF DiscInv, SheetsAreOfRun
  <2>. QED
    BY <2>4, <2>5, <2>6 DEF DiscInv
<1>6. CASE WriteDiagnostics
  <2>1. /\ disc.at = "diagnostics" /\ disc' = [disc EXCEPT !.at = "rejections"]
        /\ UNCHANGED <<generated, builds, meta, history, sheets, discovers>>
    BY <1>6 DEF WriteDiagnostics
  <2>2. /\ disc'.at = "rejections" /\ disc'.universe = disc.universe /\ disc'.screen = disc.screen
        /\ disc'.todo = disc.todo /\ disc'.tries = disc.tries
        /\ disc'.listed = disc.listed /\ disc'.dropped = disc.dropped
        /\ disc' = [at |-> disc'.at, todo |-> disc'.todo, tries |-> disc'.tries,
               universe |-> disc'.universe, screen |-> disc'.screen, listed |-> disc'.listed,
               dropped |-> disc'.dropped]
    BY <1>0, <2>1
  <2>4. DiscShape'
    BY <1>0, <2>1, <2>2 DEF DiscShape
  <2>5. ScreenIsCurrent' /\ OrphansAreApart' /\ UniverseIsClean' /\ EachIsOnce'
    BY <2>1, <2>2 DEF DiscInv, ScreenIsCurrent, OrphansAreApart, UniverseIsClean, Universe,
       EachIsOnce, ToAsk
  <2>6. SheetsAreOfRun'
    BY <1>0, <2>1, <2>2 DEF DiscInv, SheetsAreOfRun
  <2>. QED
    BY <2>4, <2>5, <2>6 DEF DiscInv
<1>7. CASE WriteRejections
  <2>1. /\ disc.at = "rejections"
        /\ sheets' = [sheets EXCEPT !.rejections =
                     [run |-> discovers, rows |-> RejectionRows(disc.universe, disc.screen)]]
        /\ disc' = [disc EXCEPT !.at = "done"]
        /\ UNCHANGED <<generated, builds, meta, history, diagnosed, discovers>>
    BY <1>7 DEF WriteRejections
  <2>2. /\ disc'.at = "done" /\ disc'.universe = disc.universe /\ disc'.screen = disc.screen
        /\ disc'.todo = disc.todo /\ disc'.tries = disc.tries
        /\ disc'.listed = disc.listed /\ disc'.dropped = disc.dropped
        /\ disc' = [at |-> disc'.at, todo |-> disc'.todo, tries |-> disc'.tries,
               universe |-> disc'.universe, screen |-> disc'.screen, listed |-> disc'.listed,
               dropped |-> disc'.dropped]
    BY <1>0, <2>1
  <2>3. /\ sheets'.rejections.run = discovers
        /\ sheets'.rejections.rows = RejectionRows(disc.universe, disc.screen)
        /\ sheets'.watchlist = sheets.watchlist
        /\ sheets' = [watchlist |-> sheets'.watchlist, rejections |-> sheets'.rejections]
    BY <1>0, <2>1
  <2>4. DiscShape'
    BY <1>0, <2>1, <2>2, <2>3 DEF DiscShape
  <2>5. ScreenIsCurrent' /\ OrphansAreApart' /\ UniverseIsClean' /\ EachIsOnce'
    BY <2>1, <2>2 DEF DiscInv, ScreenIsCurrent, OrphansAreApart, UniverseIsClean, Universe,
       EachIsOnce, ToAsk
  <2>6. SheetsAreOfRun'
    BY <1>0, <2>1, <2>2, <2>3 DEF DiscInv, SheetsAreOfRun
  <2>. QED
    BY <2>4, <2>5, <2>6 DEF DiscInv
<1>8. CASE EndDiscover
  <2>1. /\ disc.at # "off" /\ disc' = [disc EXCEPT !.at = "off"]
        /\ UNCHANGED <<generated, builds, meta, history, sheets, diagnosed, discovers>>
    BY <1>8 DEF EndDiscover
  <2>2. /\ disc'.at = "off" /\ disc'.universe = disc.universe /\ disc'.screen = disc.screen
        /\ disc'.todo = disc.todo /\ disc'.tries = disc.tries
        /\ disc'.listed = disc.listed /\ disc'.dropped = disc.dropped
        /\ disc' = [at |-> disc'.at, todo |-> disc'.todo, tries |-> disc'.tries,
               universe |-> disc'.universe, screen |-> disc'.screen, listed |-> disc'.listed,
               dropped |-> disc'.dropped]
    BY <1>0, <2>1
  <2>4. DiscShape'
    BY <1>0, <2>1, <2>2 DEF DiscShape
  <2>5. ScreenIsCurrent' /\ OrphansAreApart' /\ UniverseIsClean' /\ EachIsOnce'
    BY <2>1, <2>2 DEF DiscInv, ScreenIsCurrent, OrphansAreApart, UniverseIsClean, Universe,
       EachIsOnce, ToAsk
  <2>6. SheetsAreOfRun'
    BY <1>0, <2>1, <2>2 DEF DiscInv, SheetsAreOfRun
  <2>. QED
    BY <2>4, <2>5, <2>6 DEF DiscInv
<1>. QED
  BY <1>1, <1>2, <1>3, <1>4, <1>5, <1>6, <1>7, <1>8 DEF DiscoveryNext

LEMMA DiscInvariant == DiscoverySpec => []DiscInv
<1>1. DiscInv /\ UNCHANGED discVars => DiscInv'
  BY DEF discVars, DiscInv, DiscShape, ScreenIsCurrent, EachIsOnce, SheetsAreOfRun,
     OrphansAreApart, UniverseIsClean, ToAsk, Universe
<1>. QED
  BY <1>1, DiscInitially, DiscStep, PTL DEF DiscoverySpec

\* For any catalogue, tables, caps and answers of the model, and a run killed
\* between any two of its files: the universe follows a product once and no
\* group beyond its cap, two sheets of one run account for all of it, and no
\* fund is listed on data that were not there.
THEOREM DiscoveryAccounts == DiscoverySpec => []DiscoveryAccountsForAll
<1>1. DiscInv => DiscoveryAccountsForAll
  BY DiscInvAccounts, DiscInvGrounds DEF DiscInv, DiscoveryAccountsForAll
<1>. QED
  BY <1>1, DiscInvariant, PTL

-----------------------------------------------------------------------------
(* The types of the four that share the run.                               *)

\* What is cited is a leg of the evidence, whatever it was derived from.
LEMMA LegsAreCited ==
    ASSUME NEW s, ServedShape(s), NEW report, NEW class
    PROVE  DeriveThesis(s, report, class).cites \subseteq BothLegs
<1>1. CASE s.kind = "fund level"
  <2>1. s.fund \subseteq BothLegs
    BY <1>1 DEF ServedShape, ActiveShape
  <2>. QED
    BY <1>1, <2>1 DEF DeriveThesis
<1>2. CASE s.kind = "active"
  <2>1. \A h \in DOMAIN s.parts : LegsOf(s.parts[h]) \subseteq BothLegs
    BY <1>2, LegsAre DEF ServedShape, ActiveShape
  <2>2. DeriveThesis(s, report, class).cites = UNION {LegsOf(s.parts[h]) : h \in DOMAIN s.parts}
    BY <1>2 DEF DeriveThesis
  <2>. QED
    BY <2>1, <2>2
<1>3. CASE s.kind \notin {"fund level", "active"}
  <2>1. DeriveThesis(s, report, class) = DeriveLegacy(s, report, class)
    BY <1>3 DEF DeriveThesis
  <2>2. DeriveLegacy(s, report, class).cites \subseteq BothLegs
    BY DEF DeriveLegacy, BothLegs
  <2>. QED
    BY <2>1, <2>2
<1>. QED
  BY <1>1, <1>2, <1>3

LEMMA StatesAre ==
    ASSUME NEW v, NEW h, NEW t, NEW q, NEW upside, NEW own
    PROVE  /\ ComposeOpportunityState(v, h, t, q, upside) \in CaseStates
           /\ Dimensions(v, h, t, q, own) \subseteq {"valuation", "heat", "thesis", "product_quality"}
  BY DEF ComposeOpportunityState, CaseStates, Dimensions

LEMMA CaseTypesAtFirst == CaseInit => CaseTypeOK
<1>. SUFFICES ASSUME CaseInit PROVE CaseTypeOK
  OBVIOUS
<1>1. PICK class \in Classes, autobuild \in BOOLEAN, mapped \in BOOLEAN :
         dossier = [at |-> "start", class |-> class, autobuild |-> autobuild,
                    mapped |-> mapped, snap |-> NoSnapshot, row |-> NoRow, dims |-> {},
                    advice |-> {}, files |-> {}]
  BY DEF CaseInit
<1>2. NoRow.state = "" /\ NoRow.cites = {}
  BY DEF NoRow
<1>. QED
  BY <1>1, <1>2 DEF CaseTypeOK, CaseStates

\* A step that leaves the parts of a row the types speak of.
LEMMA FillKeepsTypes ==
    ASSUME CaseInv, CaseTypeOK, NEW place \in {"valued", "warmed", "graded", "kept"}, NEW r,
           r.cites = dossier.row.cites, r.state \in CaseStates, FillRow(place, r)
    PROVE  CaseTypeOK'
<1>1. /\ dossier'.at = place /\ dossier'.row = r /\ dossier'.class = dossier.class
      /\ dossier'.files = dossier.files /\ dossier'.dims = dossier.dims
  BY DEF FillRow, CaseInv, CaseFields
<1>. QED
  BY <1>1 DEF CaseTypeOK

LEMMA ThesisKeepsTypes ==
    ASSUME CaseInv, CaseTypeOK, NEW t, t.cites \subseteq BothLegs, NEW hollow, Thesis(t, hollow)
    PROVE  CaseTypeOK'
<1>1. /\ dossier'.at = "thesis" /\ dossier'.class = dossier.class
      /\ dossier'.files = dossier.files /\ dossier'.dims = dossier.dims
      /\ dossier'.row = [dossier.row EXCEPT !.thesis = t.thesis, !.gaps = t.gaps,
                                            !.cites = t.cites, !.hollow = hollow]
  BY DEF Thesis, CaseInv, CaseFields
<1>2. dossier'.row.cites = t.cites /\ dossier'.row.state = dossier.row.state
  BY <1>1 DEF CaseInv, RowFields
<1>. QED
  BY <1>1, <1>2 DEF CaseTypeOK

LEMMA CaseTypesKept == CaseInv /\ CaseTypeOK /\ [CaseNext]_caseVars => CaseTypeOK'
<1>. SUFFICES ASSUME CaseInv, CaseTypeOK, [CaseNext]_caseVars PROVE CaseTypeOK'
  OBVIOUS
<1>1. CASE ServeActive \/ ServeFundLevel \/ ServeKept
  <2>1. \E s : ServeCase("served", s)
    BY <1>1 DEF ServeActive, ServeFundLevel, ServeKept
  <2>2. /\ dossier'.at = "served" /\ dossier'.class = dossier.class /\ dossier'.row = dossier.row
        /\ dossier'.files = dossier.files /\ dossier'.dims = dossier.dims
    BY <2>1 DEF ServeCase, CaseInv, CaseFields
  <2>. QED
    BY <2>2 DEF CaseTypeOK
<1>2. CASE DeriveRow
  <2>. DEFINE s == dossier.snap
              v == PolicyB(s)
              T(report, told, drift) ==
                 IF s.kind = "none" /\ report = "skipped"
                 THEN TableThesis(told, drift, dossier.class)
                 ELSE DeriveThesis(s, report, dossier.class)
              A(t) == [t EXCEPT !.gaps = @ \cup ({v.gap} \ {""}),
                                !.cites = @ \cup StampFundLevel(s, v)]
  <2>1. PICK report, told, drift :
           IF s.kind # "active" THEN Thesis(T(report, told, drift), FALSE)
           ELSE Thesis(A(T(report, told, drift)), Hollow(s, v))
    BY <1>2 DEF DeriveRow
  <2>. DEFINE t == T(report, told, drift)
  <2>2. ServedShape(s)
    BY <1>2 DEF DeriveRow, CaseInv
  <2>3. t.cites \subseteq BothLegs
    <3>1. \/ t = TableThesis(told, drift, dossier.class)
          \/ t = DeriveThesis(s, report, dossier.class)
      OBVIOUS
    <3>2. TableThesis(told, drift, dossier.class).cites = {}
      BY DEF TableThesis
    <3>. HIDE DEF t, s
    <3>. QED
      BY <2>2, <3>1, <3>2, LegsAreCited
  <2>4. CASE s.kind # "active"
    <3>1. Thesis(t, FALSE)
      BY <2>1, <2>4
    <3>. HIDE DEF t
    <3>. QED
      BY <2>3, <3>1, ThesisKeepsTypes
  <2>5. CASE s.kind = "active"
    <3>1. t = DeriveThesis(s, report, dossier.class)
      BY <2>5
    <3>2. DOMAIN t = {"thesis", "gaps", "cites"}
      <4>. HIDE DEF t, s
      <4>. QED
        BY <2>5, <3>1 DEF DeriveThesis
    <3>3. A(t).cites = t.cites \cup StampFundLevel(s, v)
      <4>. HIDE DEF t, s, v
      <4>. QED
        BY <3>2
    <3>4. StampFundLevel(s, v) \subseteq BothLegs
      <4>1. s.fund \subseteq BothLegs
        BY <2>2, <2>5 DEF ServedShape, ActiveShape
      <4>. HIDE DEF s, v
      <4>. QED
        BY <4>1 DEF StampFundLevel
    <3>5. Thesis(A(t), Hollow(s, v))
      BY <2>1, <2>5
    <3>. HIDE DEF A, t, s, v
    <3>. QED
      BY <2>3, <3>3, <3>4, <3>5, ThesisKeepsTypes
  <2>. QED
    BY <2>4, <2>5
<1>3. CASE Value
  <2>1. PICK valuation, upside, more :
           FillRow("valued", [dossier.row EXCEPT !.valuation = valuation, !.upside = upside,
                                                 !.gaps = @ \cup more])
    BY <1>3 DEF Value
  <2>. DEFINE r == [dossier.row EXCEPT !.valuation = valuation, !.upside = upside,
                                       !.gaps = @ \cup more]
  <2>2. r.cites = dossier.row.cites /\ r.state = dossier.row.state
    BY DEF CaseInv, RowFields
  <2>3. FillRow("valued", r)
    BY <2>1
  <2>. HIDE DEF r
  <2>. QED
    BY <2>2, <2>3, FillKeepsTypes DEF CaseTypeOK
<1>4. CASE Warm
  <2>1. PICK heat, more :
           FillRow("warmed", [dossier.row EXCEPT !.heat = heat, !.gaps = @ \cup more])
    BY <1>4 DEF Warm
  <2>. DEFINE r == [dossier.row EXCEPT !.heat = heat, !.gaps = @ \cup more]
  <2>2. r.cites = dossier.row.cites /\ r.state = dossier.row.state
    BY DEF CaseInv, RowFields
  <2>3. FillRow("warmed", r)
    BY <2>1
  <2>. HIDE DEF r
  <2>. QED
    BY <2>2, <2>3, FillKeepsTypes DEF CaseTypeOK
<1>5. CASE Grade
  <2>1. PICK product, more :
           FillRow("graded", [dossier.row EXCEPT !.product = product, !.gaps = @ \cup more])
    BY <1>5 DEF Grade
  <2>. DEFINE r == [dossier.row EXCEPT !.product = product, !.gaps = @ \cup more]
  <2>2. r.cites = dossier.row.cites /\ r.state = dossier.row.state
    BY DEF CaseInv, RowFields
  <2>3. FillRow("graded", r)
    BY <2>1
  <2>. HIDE DEF r
  <2>. QED
    BY <2>2, <2>3, FillKeepsTypes DEF CaseTypeOK
<1>6. CASE Compose
  <2>1. PICK own, dims :
           /\ dossier' = [dossier EXCEPT !.at = "composed", !.row.state = own, !.dims = dims]
           /\ own \in CaseStates
           /\ dims \subseteq {"valuation", "heat", "thesis", "product_quality"}
    BY <1>6, StatesAre DEF Compose
  <2>2. /\ dossier'.at = "composed" /\ dossier'.class = dossier.class
        /\ dossier'.files = dossier.files /\ dossier'.dims = dims
        /\ dossier'.row = [dossier.row EXCEPT !.state = own]
    BY <2>1 DEF CaseInv, CaseFields
  <2>3. dossier'.row.state = own /\ dossier'.row.cites = dossier.row.cites
    BY <2>2 DEF CaseInv, RowFields
  <2>. QED
    BY <2>1, <2>2, <2>3 DEF CaseTypeOK
<1>7. CASE Reduce
  <2>1. PICK rival : FillRow("kept", DemoteActive(dossier.class, dossier.row, rival))
    BY <1>7 DEF Reduce
  <2>. DEFINE r == DemoteActive(dossier.class, dossier.row, rival)
  <2>2. r.cites = dossier.row.cites /\ r.state \in {dossier.row.state, "small_watch"}
    BY DEF DemoteActive, CaseInv, RowFields
  <2>3. FillRow("kept", r) /\ r.state \in CaseStates
    BY <2>1, <2>2 DEF CaseTypeOK, CaseStates
  <2>. HIDE DEF r
  <2>. QED
    BY <2>2, <2>3, FillKeepsTypes
<1>8. CASE WriteOutputs
  <2>1. \E place \in {"published", "rejected", "aborted"}, written \in SUBSET CaseFiles :
           \E advice : EndCase(place, written, advice)
    BY <1>8 DEF WriteOutputs, CaseFiles
  <2>2. PICK place \in {"published", "rejected", "aborted"}, written \in SUBSET CaseFiles :
           \E advice : EndCase(place, written, advice)
    BY <2>1
  <2>3. /\ dossier'.at = place /\ dossier'.class = dossier.class /\ dossier'.row = dossier.row
        /\ dossier'.files = written /\ dossier'.dims = dossier.dims
    BY <2>2 DEF EndCase, CaseInv, CaseFields
  <2>. QED
    BY <2>3 DEF CaseTypeOK
<1>9. CASE UNCHANGED caseVars
  BY <1>9 DEF caseVars, CaseTypeOK
<1>. QED
  BY <1>1, <1>2, <1>3, <1>4, <1>5, <1>6, <1>7, <1>8, <1>9 DEF CaseNext

LEMMA CaseTypes == CaseSpec => []CaseTypeOK
BY CaseInvariant, CaseTypesAtFirst, CaseTypesKept, PTL DEF CaseSpec

\* A value stands on one of its days, on disk and in the sweep's hands.
Stands(s) == s.pe \cup s.pb \subseteq s.days
SeriesStand ==
    /\ \A k \in DOMAIN series : Stands(series[k])
    /\ \A k \in DOMAIN ingest.fetched : Stands(ingest.fetched[k])

\* No report is of a day to come.
ReportsArePast ==
    \A f \in DOMAIN Eligible : /\ DOMAIN holdingRows[f] \subseteq 0 .. halfDay
                               /\ snapshotFile[f].report \in {Never} \cup 0 .. halfDay

\* The clock, the runs and what they have written, and when.
DatesTyped ==
    /\ halfDay \in 0 .. LastHalfDay /\ ingests \in 0 .. MaxIngests
    /\ described \subseteq Quoted
    /\ \A i \in Quoted : quotes[i] \in {Never} \cup 0 .. halfDay
    /\ manifestAt \in {Never} \cup 0 .. halfDay /\ haltedFile \in BOOLEAN
    /\ ingest.at \in {"off", "preflight", "metadata", "prices", "broad", "sector", "accumulate",
                      "navs", "holdings", "manifest", "unlink"}

LEMMA IngestTypesAtFirst == IngestInit => SeriesStand /\ ReportsArePast /\ DatesTyped
<1>. SUFFICES ASSUME IngestInit PROVE SeriesStand /\ ReportsArePast /\ DatesTyped
  OBVIOUS
<1>1. SeriesStand
  <2>1. Stands(NoSeries)
    BY DEF Stands, NoSeries
  <2>. QED
    BY <2>1, IdleIs DEF IngestInit, SeriesStand
<1>2. ReportsArePast
  <2>1. NoFiling.report = Never /\ DOMAIN NoReports = {}
    BY DEF NoFiling, NoReports
  <2>. QED
    BY <2>1 DEF IngestInit, ReportsArePast
<1>3. DatesTyped
  <2>1. \A i \in Quoted : quotes[i] = Never
    BY DEF IngestInit
  <2>2. halfDay \in 0 .. LastHalfDay /\ ingests \in 0 .. MaxIngests
    BY IngestAssumption DEF IngestInit
  <2>. QED
    BY <2>1, <2>2, IdleIs DEF IngestInit, DatesTyped
<1>. QED
  BY <1>1, <1>2, <1>3

\* Upserting rows that stand into rows that do.
LEMMA UpsertStands ==
    ASSUME NEW old, NEW frame, Stands(old), Stands(frame)
    PROVE  Stands(UpsertSeries(old, frame))
  BY DEF Stands, UpsertSeries

LEMMA SeriesStandKept == IngestInv /\ SeriesStand /\ [IngestNext]_ingestVars => SeriesStand'
<1>. SUFFICES ASSUME IngestInv, SeriesStand, [IngestNext]_ingestVars PROVE SeriesStand'
  OBVIOUS
<1>1. CASE PlainStep
  <2>1. series' = series
    BY <1>1 DEF PlainStep, StartIngest, Preflight, UpsertInstruments, PricesDone, NavsDone,
       ClearHalted, KillIngest, RunnerHalts, PassHalfDay, tables
  <2>2. ingest'.fetched = ingest.fetched \/ DOMAIN ingest'.fetched = {}
    BY <1>1, IdleIs, GotoIs DEF PlainStep, StartIngest, Preflight, UpsertInstruments, PricesDone,
       NavsDone, ClearHalted, KillIngest, RunnerHalts, PassHalfDay, Halt, IngestInv, RunShape
  <2>. QED
    BY <2>1, <2>2 DEF SeriesStand
<1>2. CASE FetchPrice \/ FetchFundNav \/ IngestHoldings
  <2>1. series' = series
    BY <1>2 DEF FetchPrice, FetchFundNav, IngestHoldings
  <2>2. ingest'.fetched = ingest.fetched \/ DOMAIN ingest'.fetched = {}
    BY <1>2, IdleIs DEF FetchPrice, FetchFundNav, IngestHoldings, Halt, IngestInv, RunShape,
       RunFields
  <2>. QED
    BY <2>1, <2>2 DEF SeriesStand
<1>3. CASE FetchBroadIndex
  <2>1. series' = series
    BY <1>3 DEF FetchBroadIndex, tables
  <2>2. PICK pe, pb \in {Throttled} \cup AsOfNow(Frames) :
           IF Throttled \in {pe, pb} THEN Goto(ingest, "broad", <<>>)
           ELSE ingest' = [ingest EXCEPT !.todo = Tail(@),
                              !.fetched = TakeFrame(@, Head(ingest.todo),
                                 [days |-> pe \cup pb, pe |-> pe, pb |-> pb])]
    BY <1>3 DEF FetchBroadIndex
  <2>3. CASE Goto(ingest, "broad", <<>>)
    BY <2>1, <2>3, GotoIs DEF SeriesStand, IngestInv, RunShape
  <2>. DEFINE frame == [days |-> pe \cup pb, pe |-> pe, pb |-> pb]
              got == TakeFrame(ingest.fetched, Head(ingest.todo), frame)
  <2>4. CASE ingest' = [ingest EXCEPT !.todo = Tail(ingest.todo), !.fetched = got]
    <3>1. Stands(frame)
      BY DEF Stands
    <3>2. \/ got = ingest.fetched
          \/ got = TakeAnyFrame(ingest.fetched, Head(ingest.todo), frame)
      BY DEF TakeFrame
    <3>. HIDE DEF got, frame
    <3>3. \A k \in DOMAIN got : Stands(got[k])
      BY <3>1, <3>2 DEF TakeAnyFrame, SeriesStand
    <3>4. ingest'.fetched = got
      BY <2>4 DEF IngestInv, RunShape, RunFields
    <3>. QED
      BY <2>1, <3>3, <3>4 DEF SeriesStand
  <2>. QED
    BY <2>2, <2>3, <2>4
<1>4. CASE CommitBroad
  <2>1. DOMAIN ingest'.fetched = {}
    BY <1>4, IdleIs DEF CommitBroad, Goto, IngestInv, RunShape, RunFields
  <2>2. \A k \in DOMAIN series' : Stands(series'[k])
    BY <1>4 DEF CommitBroad, SeriesStand
  <2>. QED
    BY <2>1, <2>2 DEF SeriesStand
<1>5. CASE FetchSectors \/ CommitSectors
  <2>1. ASSUME FetchSectors PROVE SeriesStand'
    <3>1. PICK frames \in [SectorKeys -> SectorFrames] :
             Goto([ingest EXCEPT !.fetched = frames], "accumulate", <<>>)
      BY <2>1 DEF FetchSectors
    <3>2. series' = series /\ ingest'.fetched = frames
      BY <2>1, <3>1 DEF FetchSectors, tables, Goto, IngestInv, RunShape, RunFields
    <3>3. \A f \in SectorFrames : Stands(f)
      BY IngestAssumption DEF SectorFrames, SectorFrame, Stands
    <3>. QED
      BY <3>2, <3>3 DEF SeriesStand
  <2>2. ASSUME CommitSectors PROVE SeriesStand'
    <3>1. DOMAIN ingest'.fetched = {}
      BY <2>2, IdleIs DEF CommitSectors, Goto, IngestInv, RunShape, RunFields
    <3>2. \A k \in SectorKeys : Stands(ingest.fetched[k])
      BY <2>2 DEF CommitSectors, IngestInv, SweepIsWhole, SeriesStand
    <3>3. \A k \in DOMAIN series' : Stands(series'[k])
      BY <2>2, <3>2, UpsertStands DEF CommitSectors, SeriesStand
    <3>. QED
      BY <3>1, <3>3 DEF SeriesStand
  <2>. QED
    BY <1>5, <2>1, <2>2
<1>6. CASE EndIngest \/ WriteManifest \/ SaveSnapshot
  <2>1. series' = series
    BY <1>6 DEF EndIngest, WriteManifest, SaveSnapshot, tables
  <2>2. ingest'.fetched = ingest.fetched \/ DOMAIN ingest'.fetched = {}
    BY <1>6, IdleIs, GotoIs DEF EndIngest, WriteManifest, SaveSnapshot, Halt, IngestInv, RunShape
  <2>. QED
    BY <2>1, <2>2 DEF SeriesStand
<1>7. CASE RefreshStock
  <2>1. PICK frame \in StockFrame : \E c : series' = [series EXCEPT ![c] = UpsertSeries(@, frame)]
    BY <1>7 DEF RefreshStock
  <2>2. Stands(frame)
    BY IngestAssumption DEF StockFrame, Stands
  <2>3. \A k \in DOMAIN series' : Stands(series'[k])
    BY <2>1, <2>2, UpsertStands DEF SeriesStand
  <2>. QED
    BY <1>7, <2>3 DEF RefreshStock, SeriesStand
<1>8. CASE UNCHANGED ingestVars
  BY <1>8 DEF ingestVars, SeriesStand
<1>. QED
  BY <1>1, <1>2, <1>3, <1>4, <1>5, <1>6, <1>7, <1>8 DEF IngestNext, PlainStep

\* Storing a report of a day gone by.
LEMMA StoringIsPast ==
    ASSUME IngestInv, ReportsArePast, NEW f, NEW s, StoreHoldings(f, s),
           f \in DOMAIN Eligible => s.report \in 0 .. halfDay,
           UNCHANGED <<halfDay, snapshotFile>>
    PROVE  ReportsArePast'
<1>. DEFINE row == [d \in DOMAIN holdingRows[f] \cup {s.report} |->
                     IF d = s.report
                     THEN s.tickers \cup
                          (IF d \in DOMAIN holdingRows[f] THEN holdingRows[f][d] ELSE {})
                     ELSE holdingRows[f][d]]
<1>1. holdingRows' = [holdingRows EXCEPT ![f] = row]
  BY DEF StoreHoldings
<1>2. DOMAIN row = DOMAIN holdingRows[f] \cup {s.report}
  OBVIOUS
<1>. HIDE DEF row
<1>3. \A g \in DOMAIN Eligible : DOMAIN holdingRows'[g] \subseteq 0 .. halfDay
  BY <1>1, <1>2 DEF IngestInv, HoldingsAreStocks, ReportsArePast
<1>. QED
  BY <1>3 DEF ReportsArePast

LEMMA ReportsArePastKept ==
    IngestInv /\ ReportsArePast /\ [IngestNext]_ingestVars => ReportsArePast'
<1>. SUFFICES ASSUME IngestInv, ReportsArePast, [IngestNext]_ingestVars PROVE ReportsArePast'
  OBVIOUS
<1>0. halfDay \in Nat
  BY DEF IngestInv, TableShape
<1>1. CASE IngestHoldings
  <2>1. UNCHANGED <<halfDay, snapshotFile>>
    BY <1>1 DEF IngestHoldings
  <2>2. CASE holdingRows' = holdingRows
    BY <2>1, <2>2 DEF ReportsArePast
  <2>3. CASE \E s \in HoldingsSources(Head(ingest.todo)) :
                HasHoldings(s) /\ StoreHoldings(Head(ingest.todo), s)
    <3>. DEFINE f == Head(ingest.todo)
    <3>1. PICK s \in HoldingsSources(f) : HasHoldings(s) /\ StoreHoldings(f, s)
      BY <2>3
    <3>2. ASSUME f \in DOMAIN Eligible PROVE s.report \in 0 .. halfDay
      <4>1. s.report # Never
        BY <3>1 DEF HasHoldings
      <4>2. \/ s = snapshotFile[f] \/ s = NoFiling
            \/ s.report \in {-1} \cup Nat /\ s.report <= halfDay
        BY <3>1, IngestAssumption DEF HoldingsSources, FiledByNow
      <4>3. NoFiling.report = Never /\ Never = -1
        BY DEF NoFiling, Never
      <4>. QED
        BY <1>0, <3>2, <4>1, <4>2, <4>3 DEF ReportsArePast
    <3>. QED
      BY <2>1, <3>1, <3>2, StoringIsPast
  <2>. QED
    BY <1>1, <2>2, <2>3 DEF IngestHoldings
<1>2. CASE SaveSnapshot
  <2>1. PICK f \in DOMAIN Eligible, s \in FiledByNow : snapshotFile' = [snapshotFile EXCEPT ![f] = s]
    BY <1>2 DEF SaveSnapshot
  <2>2. s.report \in {Never} \cup 0 .. halfDay
    BY <1>0, IngestAssumption DEF FiledByNow, Never
  <2>3. UNCHANGED <<halfDay, holdingRows>>
    BY <1>2 DEF SaveSnapshot, tables
  <2>. QED
    BY <2>1, <2>2, <2>3 DEF ReportsArePast, IngestInv, HoldingsAreStocks
<1>3. CASE PassHalfDay
  <2>1. halfDay' = halfDay + 1 /\ UNCHANGED <<holdingRows, snapshotFile>>
    BY <1>3 DEF PassHalfDay, tables
  <2>2. 0 .. halfDay \subseteq 0 .. halfDay'
    BY <1>0, <2>1
  <2>. QED
    BY <2>1, <2>2 DEF ReportsArePast
<1>4. CASE UNCHANGED <<halfDay, holdingRows, snapshotFile>>
  BY <1>4 DEF ReportsArePast
<1>5. ~IngestHoldings /\ ~SaveSnapshot /\ ~PassHalfDay => UNCHANGED <<halfDay, holdingRows, snapshotFile>>
  BY DEF IngestNext, ingestVars, StartIngest, Preflight, UpsertInstruments, FetchPrice, PricesDone,
     FetchBroadIndex, CommitBroad, FetchSectors, CommitSectors, FetchFundNav, NavsDone, EndIngest, WriteManifest,
     ClearHalted, KillIngest, RunnerHalts, RefreshStock, tables, files
<1>. QED
  BY <1>1, <1>2, <1>3, <1>4, <1>5

LEMMA DatesTypedKept == IngestInv /\ DatesTyped /\ [IngestNext]_ingestVars => DatesTyped'
<1>. SUFFICES ASSUME IngestInv, DatesTyped, [IngestNext]_ingestVars PROVE DatesTyped'
  OBVIOUS
<1>0. /\ halfDay \in Nat /\ ingests \in Nat /\ MaxIngests \in Nat /\ LastHalfDay \in Nat
      /\ quotes \in [Quoted -> Int] /\ DOMAIN ingest = RunFields
  BY IngestAssumption DEF IngestInv, TableShape, RunShape, DatesTyped
<1>1. CASE PlainStep
  <2>1. UNCHANGED <<quotes, manifestAt>>
    BY <1>1 DEF PlainStep, StartIngest, Preflight, UpsertInstruments, PricesDone, NavsDone,
       ClearHalted, KillIngest, RunnerHalts, PassHalfDay, tables, files, Halt
  <2>2. ingests' \in 0 .. MaxIngests /\ described' \subseteq Quoted
    <3>1. ingests' = ingests \/ (ingests < MaxIngests /\ ingests' = ingests + 1)
      BY <1>1 DEF PlainStep, StartIngest, Preflight, UpsertInstruments, PricesDone, NavsDone,
         ClearHalted, KillIngest, RunnerHalts, PassHalfDay
    <3>2. described' = described \/ described' \in SUBSET Quoted
      BY <1>1 DEF PlainStep, StartIngest, Preflight, UpsertInstruments, PricesDone, NavsDone,
         ClearHalted, KillIngest, RunnerHalts, PassHalfDay, tables
    <3>. QED
      BY <1>0, <3>1, <3>2 DEF DatesTyped
  <2>5. haltedFile' = haltedFile \/ haltedFile' \in BOOLEAN
    BY <1>1 DEF PlainStep, StartIngest, Preflight, UpsertInstruments, PricesDone, NavsDone,
       ClearHalted, KillIngest, RunnerHalts, PassHalfDay, files, Halt
  <2>3. /\ halfDay' \in 0 .. LastHalfDay /\ 0 .. halfDay \subseteq 0 .. halfDay'
    BY <1>0, <1>1 DEF PlainStep, StartIngest, Preflight, UpsertInstruments, PricesDone, NavsDone,
       ClearHalted, KillIngest, RunnerHalts, PassHalfDay, DatesTyped
  <2>4. ingest'.at \in {"off", "preflight", "metadata", "prices", "broad", "sector",
                        "accumulate", "navs", "holdings", "manifest", "unlink"}
    BY <1>0, <1>1, IdleIs, GotoIs DEF PlainStep, StartIngest, Preflight, UpsertInstruments,
       PricesDone, NavsDone, ClearHalted, KillIngest, RunnerHalts, PassHalfDay, Halt, DatesTyped
  <2>. QED
    BY <2>1, <2>2, <2>3, <2>4, <2>5 DEF DatesTyped
<1>2. CASE FetchPrice \/ FetchFundNav
  <2>1. UNCHANGED <<halfDay, described, ingests>> /\ manifestAt' = manifestAt /\ haltedFile' = haltedFile
    BY <1>2 DEF FetchPrice, FetchFundNav, Halt, files
  <2>2. quotes' = quotes \/ \E i : quotes' = [quotes EXCEPT ![i] = halfDay]
    BY <1>2 DEF FetchPrice, FetchFundNav
  <2>3. \A i \in Quoted : quotes'[i] \in {Never} \cup 0 .. halfDay
    BY <1>0, <2>2 DEF DatesTyped
  <2>4. ingest'.at \in {"off", ingest.at}
    BY <1>0, <1>2, IdleIs DEF FetchPrice, FetchFundNav, Halt, RunFields
  <2>. QED
    BY <2>1, <2>3, <2>4 DEF DatesTyped
<1>3. CASE FetchBroadIndex \/ CommitBroad \/ FetchSectors \/ CommitSectors \/ IngestHoldings
         \/ EndIngest
  <2>1. UNCHANGED <<halfDay, described, quotes, ingests>> /\ manifestAt' = manifestAt /\ haltedFile' = haltedFile
    BY <1>3 DEF FetchBroadIndex, CommitBroad, FetchSectors, CommitSectors, IngestHoldings, EndIngest, Halt, files, tables
  <2>2. ingest'.at \in {"off", ingest.at, "broad", "sector", "accumulate", "navs", "manifest"}
    BY <1>0, <1>3, IdleIs DEF FetchBroadIndex, CommitBroad, FetchSectors, CommitSectors, IngestHoldings, EndIngest,
       Goto, Halt, RunFields
  <2>. QED
    BY <2>1, <2>2 DEF DatesTyped
<1>4. CASE WriteManifest
  <2>1. /\ manifestAt' = halfDay /\ ingest'.at = "unlink"
        /\ UNCHANGED <<halfDay, described, quotes, haltedFile, ingests>>
    BY <1>0, <1>4, GotoIs DEF WriteManifest, tables
  <2>. QED
    BY <1>0, <2>1 DEF DatesTyped
<1>5. CASE RefreshStock \/ SaveSnapshot \/ UNCHANGED ingestVars
  BY <1>5 DEF RefreshStock, SaveSnapshot, ingestVars, tables, files, DatesTyped
<1>. QED
  BY <1>1, <1>2, <1>3, <1>4, <1>5 DEF IngestNext, PlainStep

LEMMA IngestTypes == IngestSpec => []IngestTypeOK
<1>1. SeriesStand /\ ReportsArePast /\ DatesTyped => IngestTypeOK
  BY DEF SeriesStand, Stands, ReportsArePast, DatesTyped, IngestTypeOK
<1>. QED
  BY <1>1, IngestInvariant, IngestTypesAtFirst, SeriesStandKept, ReportsArePastKept,
     DatesTypedKept, PTL DEF IngestSpec

LEMMA DiscoveryTypes == DiscoverySpec => []DiscoveryTypeOK
BY DiscInvariant, DiscInvTypes, PTL

\* The engine, its files, the fund in hand, the tables and the sheets keep their
\* shape, whichever of the four moves: no step of one touches another's.
THEOREM OpportunityTypes == MCFetchSpec => []OpportunityTypesOK
<1>1. MCFetchInit => Init /\ CaseInit /\ IngestInit /\ DiscoveryInit
  BY DEF MCFetchInit
<1>2. [MCFetchNext]_<<mover, vars, caseVars, ingestVars, discVars>> =>
         [Next]_vars /\ [CaseNext]_caseVars /\ [IngestNext]_ingestVars /\ [DiscoveryNext]_discVars
  BY DEF MCFetchNext
<1>3. MCFetchSpec => Spec /\ CaseSpec /\ IngestSpec /\ DiscoverySpec
  BY <1>1, <1>2, PTL DEF MCFetchSpec, Spec, CaseSpec, IngestSpec, DiscoverySpec
<1>. QED
  BY <1>3, FetchTypes, CaseTypes, IngestTypes, DiscoveryTypes, PTL DEF OpportunityTypesOK
=============================================================================
