--------------------------- MODULE PaidCallsProofs ---------------------------
(***************************************************************************)
(* What is paid for. For any calendar, any providers, any prices and any    *)
(* number of commands: that the gate charges nothing old, that its reading  *)
(* is exact while the row is of the period, that a quota is not overdrawn   *)
(* by more than one command, and that what is counted is in the actuals --  *)
(* of commands that run one after the other; and that commands that overlap *)
(* never count a unit twice. That one call of the language model makes no   *)
(* POST past its deadline but in the round it is in, for any schedule of    *)
(* attempts and waits and however long a POST takes; and what a stage may   *)
(* rely on that reads the library of themes while `irc research' writes it, *)
(* for any themes, languages, engines and kills.                            *)
(***************************************************************************)
EXTENDS SpendLedger, LlmCall, Research, SumTheorems

-----------------------------------------------------------------------------
(* The period.                                                             *)

LEMMA OrdInt == ASSUME NEW x \in Date PROVE Ord(x) \in Nat
  BY DEF Ord, Date

LEMMA YearsInOrder ==
    ASSUME NEW a \in Date, NEW b \in Date, ~Before(b, a)
    PROVE  a.y <= b.y
<1>1. \A y1, y2 \in Nat, m1, m2 \in 1..12, d1, d2 \in 1..31 :
        (y1 * 12 + m1) * 31 + d1 <= (y2 * 12 + m2) * 31 + d2 => y1 <= y2
  OBVIOUS
<1>2. /\ a.y \in Nat /\ a.m \in 1..12 /\ a.d \in 1..31
      /\ b.y \in Nat /\ b.m \in 1..12 /\ b.d \in 1..31
  BY DEF Date
<1>3. Ord(a) <= Ord(b)
  BY OrdInt DEF Before
<1>. QED
  BY <1>1, <1>2, <1>3 DEF Ord

\* _period_start returns the latest reset day that has come: it is a reset
\* day, not after today, and no other such day is later.  The turn of the year
\* is the case a test of a single month does not reach.
THEOREM PeriodStartIsLatest ==
    ASSUME NEW t \in Date, t.y > 0
    PROVE  /\ PeriodStart(t) \in Date /\ PeriodStart(t).d = ResetDay
           /\ ~Before(t, PeriodStart(t))
           /\ \A x \in Date : x.d = ResetDay /\ ~Before(t, x) => ~Before(PeriodStart(t), x)
<1>1. ResetDay \in 1..28
  BY CalendarAssumption
<1>2. PeriodStart(t) \in Date /\ PeriodStart(t).d = ResetDay
  BY <1>1 DEF PeriodStart, ResetDate, Date
<1>3. ~Before(t, PeriodStart(t))
  BY <1>1 DEF PeriodStart, ResetDate, Date, Before, Ord
<1>4. ASSUME NEW x \in Date, x.d = ResetDay, ~Before(t, x)
      PROVE  ~Before(PeriodStart(t), x)
  BY <1>1, <1>4 DEF PeriodStart, ResetDate, Date, Before, Ord
<1>. QED
  BY <1>2, <1>3, <1>4

\* If no period begins between two days, they are in the same one.
LEMMA SamePeriod ==
    ASSUME NEW a \in Date, NEW b \in Date, a.y > 0, b.y > 0,
           ~Before(b, a), ~NewPeriod(a, b)
    PROVE  Ord(PeriodStart(a)) = Ord(PeriodStart(b))
<1>. DEFINE x == PeriodStart(b)
<1>1. /\ x \in Date /\ x.d = ResetDay /\ ~Before(b, x)
      /\ \A z \in Date : z.d = ResetDay /\ ~Before(b, z) => ~Before(x, z)
  BY PeriodStartIsLatest
<1>. HIDE DEF x
<1>2. ~Before(a, x)
  <2>. SUFFICES ASSUME Before(a, x) PROVE FALSE
    OBVIOUS
  <2>0. ~Before(x, a)
    BY <1>1, OrdInt DEF Before
  <2>1. x.y \in a.y..b.y /\ x.m \in 1..12
    <3>1. a.y <= x.y /\ x.y <= b.y
      BY <1>1, <2>0, YearsInOrder
    <3>. QED
      BY <1>1, <3>1 DEF Date
  <2>2. x = ResetDate(x.y, x.m)
    BY <1>1 DEF Date, ResetDate
  <2>. QED
    BY <1>1, <2>1, <2>2 DEF NewPeriod
<1>3. ~Before(PeriodStart(a), x)
  BY <1>1, <1>2, PeriodStartIsLatest
<1>4. PeriodStart(a) \in Date /\ PeriodStart(a).d = ResetDay /\ ~Before(a, PeriodStart(a))
  BY PeriodStartIsLatest
<1>5. ~Before(x, PeriodStart(a))
  <2>1. ~Before(b, PeriodStart(a))
    BY <1>4, OrdInt DEF Before
  <2>. QED
    BY <1>1, <1>4, <2>1
<1>6. Ord(PeriodStart(a)) = Ord(x)
  BY <1>1, <1>3, <1>4, <1>5, OrdInt DEF Before
<1>. QED
  BY <1>6 DEF x

\* If one does, every day up to the first is before the second's period.
LEMMA LaterPeriod ==
    ASSUME NEW a \in Date, NEW b \in Date, NEW s \in Date, b.y > 0,
           ~Before(a, s), NewPeriod(a, b)
    PROVE  Before(s, PeriodStart(b))
<1>. PICK y \in a.y..b.y, m \in 1..12 :
        Before(a, ResetDate(y, m)) /\ ~Before(b, ResetDate(y, m))
  BY DEF NewPeriod
<1>1. ResetDate(y, m) \in Date /\ ResetDate(y, m).d = ResetDay
  BY CalendarAssumption DEF Date, ResetDate
<1>2. ~Before(PeriodStart(b), ResetDate(y, m)) /\ PeriodStart(b) \in Date
  BY <1>1, PeriodStartIsLatest
<1>. QED
  BY <1>1, <1>2, OrdInt DEF Before

\* The calendar runs forward.
LEMMA Days ==
    /\ Len(Calendar) \in Nat \ {0}
    /\ \A i \in 1..Len(Calendar) : Calendar[i] \in Date /\ Calendar[i].y > 0
    /\ \A i, j \in 1..Len(Calendar) : i <= j => ~Before(Calendar[j], Calendar[i])
<1>1. /\ Len(Calendar) \in Nat \ {0}
      /\ \A i \in 1..Len(Calendar) : Calendar[i] \in Date /\ Calendar[i].y > 0
  BY CalendarAssumption
<1>2. ASSUME NEW i \in 1..Len(Calendar), NEW j \in 1..Len(Calendar), i <= j
      PROVE  ~Before(Calendar[j], Calendar[i])
  <2>1. CASE i = j
    BY <1>1, <2>1, OrdInt DEF Before
  <2>2. CASE i < j
    <3>1. Before(Calendar[i], Calendar[j])
      BY <2>2, CalendarAssumption
    <3>. QED
      BY <1>1, <3>1, OrdInt DEF Before
  <2>. QED
    BY <1>1, <1>2, <2>1, <2>2
<1>. QED
  BY <1>1, <1>2

-----------------------------------------------------------------------------
(* Types.                                                                  *)

LEMMA ExitTypes ==
    ASSUME TypeOK, NEW c \in Procs, Exit(c)
    PROVE  /\ pc' \in [Procs -> PCs] /\ today' \in [Procs -> 1..Len(Calendar)]
           /\ units' \in [Procs -> [Providers -> Nat]]
           /\ seen' \in [Procs -> [Providers -> Row \cup {None}]]
           /\ due' \in [Procs -> [Providers -> Nat]]
<1>1. 1 \in 1..Len(Calendar) /\ Nil \in [Providers -> Nat]
      /\ [p \in Providers |-> None] \in [Providers -> Row \cup {None}]
  BY Days DEF Nil
<1>. QED
  BY <1>1 DEF TypeOK, Exit, PCs

LEMMA CostTypes ==
    ASSUME NEW u \in Usages
    PROVE  /\ u \in [Providers -> Nat]
           /\ \A p \in Providers : Cost(u, p) \in Nat
<1>1. \A k, n \in Nat : k * n \in Nat
  OBVIOUS
<1>. QED
  BY <1>1, SpendAssumption DEF Cost

LEMMA TypeStep == TypeOK /\ [Next]_vars => TypeOK'
<1>. SUFFICES ASSUME TypeOK, [Next]_vars PROVE TypeOK'
  OBVIOUS
<1>. USE DEF TypeOK, files, procs, ghosts, PCs
<1>1. CASE UNCHANGED vars
  BY <1>1 DEF vars
<1>2. CASE Tick
  <2>1. now' \in 1..Len(Calendar)
    BY <1>2, Days DEF Tick
  <2>2. /\ used' \in [Providers -> Nat] /\ lost' \in [Providers -> Nat]
        /\ due' \in [Procs -> [Providers -> Nat]]
    BY <1>2 DEF Tick
  <2>. QED
    BY <1>2, <2>1, <2>2 DEF Tick
<1>3. ASSUME NEW p \in Providers \ Quotas, TopUp(p) PROVE TypeOK'
  <2>1. /\ used' \in [Providers -> Nat] /\ lost' \in [Providers -> Nat]
        /\ asOf' \in [Providers -> 1..Len(Calendar)]
    BY <1>3 DEF TopUp
  <2>2. due' \in [Procs -> [Providers -> Nat]]
    BY <1>3 DEF TopUp
  <2>3. topUps' \in 0..MaxTopUps
    BY <1>3, SpendAssumption DEF TopUp
  <2>. QED
    BY <1>3, <2>1, <2>2, <2>3 DEF TopUp
<1>4. ASSUME NEW c \in Procs, Command(c) PROVE TypeOK'
  <2>1. CASE Pass(c)
    <3>1. commands' \in 0..MaxCommands
      <4>1. MaxCommands \in Nat
        BY SpendAssumption
      <4>. QED
        BY <2>1, <4>1 DEF Pass
    <3>. QED
      BY <2>1, <3>1 DEF Pass, Step
  <2>2. CASE Work(c)
    <3>. PICK u \in Usages :
            /\ units' = [units EXCEPT ![c] = u]
            /\ used' = [p \in Providers |-> used[p] + Cost(u, p)]
            /\ due' = [due EXCEPT ![c] = [p \in Providers |-> Cost(u, p)]]
            /\ ever' = [p \in Providers |-> ever[p] + u[p]]
      BY <2>2 DEF Work
    <3>a. u \in [Providers -> Nat] /\ [p \in Providers |-> Cost(u, p)] \in [Providers -> Nat]
      BY CostTypes
    <3>b. \A p \in Providers : used[p] + Cost(u, p) \in Nat /\ ever[p] + u[p] \in Nat
      BY <3>a, CostTypes
    <3>1. /\ units' \in [Procs -> [Providers -> Nat]]
          /\ used' \in [Providers -> Nat] /\ ever' \in [Providers -> Nat]
          /\ due' \in [Procs -> [Providers -> Nat]]
      BY <3>a, <3>b
    <3>. QED
      BY <2>2, <3>1 DEF Work, Step
  <2>3. CASE WorkUncounted(c)
    <3>. PICK u \in Usages :
            /\ used' = [p \in Providers |-> used[p] + Cost(u, p)]
            /\ lost' = [p \in Providers |-> lost[p] + Cost(u, p)]
            /\ ever' = [p \in Providers |-> ever[p] + u[p]]
      BY <2>3 DEF WorkUncounted
    <3>0. \A p \in Providers : Cost(u, p) \in Nat /\ u[p] \in Nat
      BY CostTypes
    <3>1. used' \in [Providers -> Nat]
      BY <3>0
    <3>2. lost' \in [Providers -> Nat]
      BY <3>0
    <3>3. ever' \in [Providers -> Nat]
      BY <3>0
    <3>. QED
      BY <2>3, <3>1, <3>2, <3>3, ExitTypes DEF WorkUncounted
  <2>4. CASE ReadActuals(c)
    <3>1. [p \in Providers |-> [n |-> actuals[today[c]][p], stamp |-> 1]]
              \in [Providers -> Row \cup {None}]
      BY Days DEF Row
    <3>. QED
      BY <2>4, <3>1 DEF ReadActuals, Step
  <2>5. CASE NothingToRecord(c)
    BY <2>5, ExitTypes DEF NothingToRecord
  <2>6. CASE WriteActuals(c)
    <3>0. \A p \in Providers : seen[c][p].n \in Nat /\ units[c][p] \in Nat
      <4>1. \A r \in Row \cup {None} : r.n \in Nat
        BY DEF Row, None
      <4>. QED
        BY <4>1
    <3>1. Merged(seen[c], units[c]) \in [Providers -> Nat]
      BY <3>0 DEF Merged
    <3>2. [p \in Providers |-> None] \in [Providers -> Row \cup {None}]
      OBVIOUS
    <3>. QED
      BY <2>6, <3>1, <3>2 DEF WriteActuals, Step
  <2>7. CASE ReadLedger(c)
    BY <2>7 DEF ReadLedger, Step
  <2>8. CASE WriteLedger(c)
    <3>1. ledger' \in [Providers -> Row \cup {None}]
      BY <2>8 DEF WriteLedger, Applied, Row, None
    <3>. QED
      BY <2>8, <3>1, ExitTypes DEF WriteLedger
  <2>9. CASE Abandon(c)
    <3>1. lost' \in [Providers -> Nat]
      BY <2>9 DEF Abandon
    <3>. QED
      BY <2>9, <3>1, ExitTypes DEF Abandon
  <2>. QED
    BY <1>4, <2>1, <2>2, <2>3, <2>4, <2>5, <2>6, <2>7, <2>8, <2>9 DEF Command
<1>. QED
  BY <1>1, <1>2, <1>3, <1>4 DEF Next

\* The files and the processes' copies of them keep their shape.
THEOREM LedgerTypes == Spec => []TypeOK
<1>1. Init => TypeOK
  <2>1. Nil \in [Providers -> Nat] /\ 1 \in 1..Len(Calendar)
    BY Days DEF Nil
  <2>2. 0 \in 0..MaxCommands /\ 0 \in 0..MaxTopUps
    BY SpendAssumption
  <2>. QED
    BY <2>1, <2>2 DEF Init, TypeOK, PCs
<1>. QED
  BY <1>1, TypeStep, PTL DEF Spec

-----------------------------------------------------------------------------
(* Never overcharged.                                                      *)

\* A row of provider p stamped s counts today, and not only because its
\* wallet was topped up on that very day.
Counted(p, s) ==
    IF p \in Quotas THEN ~Before(Calendar[s], PeriodStart(Calendar[now]))
    ELSE s > asOf[p]

Stamp(c, p) == IF ledger[p] = None THEN today[c] ELSE ledger[p].stamp
Spent(c)    == pc[c] \in {"merge", "merging", "read", "write"}

OneAtATime == \A c, o \in Procs : pc[c] # "idle" /\ pc[o] # "idle" => c = o
Fresh == \A c \in Procs : pc[c] = "write" => seen[c] = ledger
Stamped ==
    /\ \A p \in Providers : ledger[p].stamp <= now
    /\ \A c \in Procs : today[c] <= now
    /\ \A c \in Procs, p \in Providers :
          pc[c] # "idle" => ledger[p].stamp <= today[c]
\* What the ledger counts of provider p, at its price.
Recorded(p) == Price[p] * ledger[p].n

Covered ==
    \A p \in Providers :
        ledger[p] # None /\ Counted(p, ledger[p].stamp) => Recorded(p) <= used[p]
Reserved ==
    \A c \in Procs, p \in Providers :
        Spent(c) /\ Counted(p, Stamp(c, p)) => Recorded(p) + Cost(units[c], p) <= used[p]

\* While commands run one after the other, what is counted was spent in the
\* period, and so was what the command under way is about to add.
LedgerInv == ~raced => OneAtATime /\ Fresh /\ Stamped /\ Covered /\ Reserved

LEMMA Zero == None.n = 0 /\ None.stamp = 0 /\ (\A r \in Row : r.n \in Nat /\ r.stamp \in 1..Len(Calendar))
  BY DEF None, Row

LEMMA RecordedNat ==
    ASSUME TypeOK, NEW p \in Providers
    PROVE  Recorded(p) \in Nat /\ ledger[p].n \in Nat /\ Price[p] \in Nat
<1>1. \A k, n \in Nat : k * n \in Nat
  OBVIOUS
<1>. QED
  BY <1>1, Zero, SpendAssumption DEF Recorded, TypeOK

LEMMA RecordedAdds ==
    ASSUME TypeOK, NEW c \in Procs, NEW p \in Providers
    PROVE  /\ Cost(units[c], p) \in Nat
           /\ Price[p] * (ledger[p].n + units[c][p]) = Recorded(p) + Cost(units[c], p)
<1>1. /\ Price[p] \in Nat /\ ledger[p].n \in Nat /\ units[c][p] \in Nat
      /\ Recorded(p) = Price[p] * ledger[p].n /\ Cost(units[c], p) = Price[p] * units[c][p]
  BY RecordedNat DEF Recorded, Cost, TypeOK
<1>2. \A k, m, n \in Nat : k * n \in Nat /\ k * (m + n) = k * m + k * n
  OBVIOUS
<1>. QED
  BY <1>1, <1>2

\* More spending, and neither the clock nor the ledger moved.
LEMMA CoverKept ==
    ASSUME TypeOK, Covered, UNCHANGED <<now, asOf, ledger>>,
           used' \in [Providers -> Nat], \A p \in Providers : used'[p] >= used[p]
    PROVE  Covered'
<1>. SUFFICES ASSUME NEW p \in Providers, ledger[p] # None, Counted(p, ledger[p].stamp)'
              PROVE  Recorded(p) <= used'[p]
  BY DEF Covered, Recorded
<1>1. Counted(p, ledger[p].stamp)
  BY DEF Counted
<1>2. Recorded(p) <= used[p]
  BY <1>1 DEF Covered
<1>3. Recorded(p) \in Nat /\ used[p] \in Nat /\ used'[p] \in Nat /\ used'[p] >= used[p]
  BY RecordedNat DEF TypeOK
<1>. QED
  BY <1>2, <1>3

\* The stamp a recording would leave is that of a day that has come.
LEMMA StampTypes ==
    ASSUME TypeOK, Stamped, NEW c \in Procs, NEW p \in Providers
    PROVE  Stamp(c, p) \in 1..now
<1>1. CASE ledger[p] = None
  BY <1>1 DEF Stamp, Stamped, TypeOK
<1>2. CASE ledger[p] # None
  BY <1>2, Zero DEF Stamp, Stamped, TypeOK
<1>. QED
  BY <1>1, <1>2

LEMMA LedgerStep == TypeOK /\ LedgerInv /\ [Next]_vars => LedgerInv'
<1>. SUFFICES ASSUME TypeOK, LedgerInv, [Next]_vars, ~raced'
              PROVE  (OneAtATime /\ Fresh /\ Stamped /\ Covered /\ Reserved)'
  BY DEF LedgerInv
<1>0. ~raced
  BY DEF Next, vars, Command, Tick, TopUp, Pass, Work, WorkUncounted, ReadActuals,
         NothingToRecord, WriteActuals, ReadLedger, WriteLedger, Abandon, TypeOK, ghosts
<1>. /\ OneAtATime /\ Fresh /\ Stamped /\ Covered /\ Reserved
  BY <1>0 DEF LedgerInv
<1>1. CASE UNCHANGED vars
  BY <1>1 DEF vars, files, procs, ghosts, OneAtATime, Fresh, Stamped, Covered, Reserved,
              Spent, Stamp, Counted, Recorded, Cost
<1>2. CASE Tick
  <2>1. /\ UNCHANGED <<asOf, ledger, pc, today, units, seen>>
        /\ now' = now + 1 /\ now \in 1..Len(Calendar) /\ now' \in 1..Len(Calendar)
    BY <1>2, Days DEF Tick, files, procs, TypeOK
  <2>2. ASSUME NEW p \in Providers, NEW s \in 1..now, Counted(p, s)'
        PROVE  Counted(p, s) /\ used'[p] = used[p]
    <3>1. CASE p \notin Quotas
      BY <1>2, <2>1, <2>2, <3>1 DEF Counted, Tick, TypeOK
    <3>2. CASE p \in Quotas
      <4>1. /\ \A i \in {s, now, now'} : Calendar[i] \in Date /\ Calendar[i].y > 0
            /\ ~Before(Calendar[now], Calendar[s]) /\ ~Before(Calendar[now'], Calendar[now])
        BY <2>1, Days
      <4>2. ~NewPeriod(Calendar[now], Calendar[now'])
        BY <2>1, <2>2, <3>2, <4>1, LaterPeriod DEF Counted
      <4>3. Ord(PeriodStart(Calendar[now])) = Ord(PeriodStart(Calendar[now']))
        BY <4>1, <4>2, SamePeriod
      <4>4. Counted(p, s)
        BY <2>2, <3>2, <4>3 DEF Counted, Before
      <4>. QED
        BY <1>2, <4>2, <4>4 DEF Tick, TypeOK
    <3>. QED
      BY <3>1, <3>2
  <2>3. Covered'
    <3>. SUFFICES ASSUME NEW p \in Providers,
                         ledger[p] # None, Counted(p, ledger[p].stamp)'
                  PROVE  Recorded(p) <= used'[p]
      BY <2>1 DEF Covered, Recorded
    <3>1. ledger[p].stamp \in 1..now
      BY Zero DEF Stamped, TypeOK
    <3>. QED
      BY <2>1, <2>2, <3>1 DEF Covered
  <2>4. Reserved'
    <3>. SUFFICES ASSUME NEW c \in Procs, NEW p \in Providers,
                         Spent(c), Counted(p, Stamp(c, p))'
                  PROVE  Recorded(p) + Cost(units[c], p) <= used'[p]
      BY <2>1 DEF Reserved, Spent, Recorded, Cost
    <3>1. Stamp(c, p) \in 1..now /\ Stamp(c, p)' = Stamp(c, p)
      BY <2>1, Zero DEF Stamp, Stamped, TypeOK
    <3>. QED
      BY <2>1, <2>2, <3>1 DEF Reserved
  <2>5. OneAtATime' /\ Fresh'
    BY <2>1 DEF OneAtATime, Fresh
  <2>6. Stamped'
    <3>1. \A p \in Providers : ledger[p].stamp \in Int
      BY Zero DEF TypeOK
    <3>. QED
      BY <2>1, <3>1 DEF Stamped, TypeOK
  <2>. QED
    BY <2>3, <2>4, <2>5, <2>6
<1>3. ASSUME NEW w \in Providers \ Quotas, TopUp(w)
      PROVE  (OneAtATime /\ Fresh /\ Stamped /\ Covered /\ Reserved)'
  <2>1. UNCHANGED <<now, ledger, pc, today, units, seen>>
    BY <1>3 DEF TopUp, procs
  <2>2. ASSUME NEW p \in Providers, NEW s \in 1..now, Counted(p, s)'
        PROVE  Counted(p, s) /\ used'[p] = used[p]
    <3>1. CASE p = w
      BY <1>3, <2>1, <2>2, <3>1 DEF Counted, TopUp, TypeOK
    <3>2. CASE p # w
      BY <1>3, <2>1, <2>2, <3>2 DEF Counted, TopUp, TypeOK
    <3>. QED
      BY <3>1, <3>2
  <2>3. Covered'
    <3>. SUFFICES ASSUME NEW p \in Providers,
                         ledger[p] # None, Counted(p, ledger[p].stamp)'
                  PROVE  Recorded(p) <= used'[p]
      BY <2>1 DEF Covered, Recorded
    <3>1. ledger[p].stamp \in 1..now
      BY Zero DEF Stamped, TypeOK
    <3>. QED
      BY <2>1, <2>2, <3>1 DEF Covered
  <2>4. Reserved'
    <3>. SUFFICES ASSUME NEW c \in Procs, NEW p \in Providers,
                         Spent(c), Counted(p, Stamp(c, p))'
                  PROVE  Recorded(p) + Cost(units[c], p) <= used'[p]
      BY <2>1 DEF Reserved, Spent, Recorded, Cost
    <3>1. Stamp(c, p)' = Stamp(c, p)
      BY <2>1 DEF Stamp
    <3>2. Stamp(c, p) \in 1..now
      BY StampTypes
    <3>. QED
      BY <2>1, <2>2, <3>1, <3>2 DEF Reserved
  <2>. QED
    BY <2>1, <2>3, <2>4 DEF OneAtATime, Fresh, Stamped
<1>4. ASSUME NEW c \in Procs, ReadActuals(c) \/ WriteActuals(c) \/ ReadLedger(c)
      PROVE  (OneAtATime /\ Fresh /\ Stamped /\ Covered /\ Reserved)'
  <2>1. /\ UNCHANGED <<now, asOf, ledger, today, units, used>>
        /\ pc[c] \in {"merge", "merging", "read"} /\ pc'[c] \in {"merging", "read", "write"}
        /\ \A o \in Procs \ {c} : pc'[o] = pc[o]
    BY <1>4 DEF ReadActuals, WriteActuals, ReadLedger, Step, files, ghosts, TypeOK
  <2>2. OneAtATime'
    BY <2>1 DEF OneAtATime
  <2>3. Fresh'
    <3>1. \A o \in Procs \ {c} : pc'[o] = "idle"
      BY <2>1 DEF OneAtATime
    <3>2. pc'[c] = "write" => seen'[c] = ledger
      BY <1>4, <2>1 DEF ReadActuals, WriteActuals, ReadLedger, Step, TypeOK
    <3>. QED
      BY <2>1, <3>1, <3>2 DEF Fresh
  <2>4. Stamped' /\ Covered'
    BY <2>1 DEF Stamped, Covered, Counted, Recorded
  <2>5. Reserved'
    BY <2>1 DEF Reserved, Spent, Counted, Stamp, Recorded, Cost
  <2>. QED
    BY <2>2, <2>3, <2>4, <2>5
<1>5. ASSUME NEW c \in Procs, NothingToRecord(c) \/ Abandon(c) \/ WorkUncounted(c)
      PROVE  (OneAtATime /\ Fresh /\ Stamped /\ Covered /\ Reserved)'
  <2>1. UNCHANGED <<now, asOf, ledger>> /\ Exit(c) /\ pc[c] # "idle"
    BY <1>5 DEF NothingToRecord, Abandon, WorkUncounted, files
  <2>2. \A p \in Providers : used'[p] >= used[p]
    <3>1. CASE WorkUncounted(c)
      <4>. PICK u \in Usages : used' = [p \in Providers |-> used[p] + Cost(u, p)]
        BY <3>1 DEF WorkUncounted
      <4>. QED
        BY CostTypes DEF TypeOK
    <3>2. CASE ~WorkUncounted(c)
      BY <1>5, <3>2 DEF NothingToRecord, Abandon, TypeOK
    <3>. QED
      BY <3>1, <3>2
  <2>3. used' \in [Providers -> Nat]
    BY TypeStep DEF TypeOK
  <2>4. \A o \in Procs : pc'[o] = "idle" /\ today'[o] <= now
    BY <2>1 DEF Exit, OneAtATime, Stamped, TypeOK
  <2>5. Covered'
    BY <2>1, <2>2, <2>3, CoverKept
  <2>. QED
    BY <2>1, <2>4, <2>5 DEF OneAtATime, Fresh, Stamped, Reserved, Spent
<1>6. ASSUME NEW c \in Procs, Pass(c)
      PROVE  (OneAtATime /\ Fresh /\ Stamped /\ Covered /\ Reserved)'
  <2>1. /\ UNCHANGED <<now, asOf, ledger, units, seen, used>>
        /\ pc' = [pc EXCEPT ![c] = "work"] /\ today' = [today EXCEPT ![c] = now]
        /\ \A o \in Procs \ {c} : pc[o] = "idle"
    BY <1>6 DEF Pass, Step, Alone, files
  <2>2. OneAtATime' /\ Fresh'
    BY <2>1 DEF OneAtATime, Fresh, TypeOK
  <2>3. Stamped'
    BY <2>1 DEF Stamped, TypeOK
  <2>4. Covered'
    BY <2>1 DEF Covered, Counted, Recorded
  <2>5. Reserved'
    BY <2>1 DEF Reserved, Spent, TypeOK
  <2>. QED
    BY <2>2, <2>3, <2>4, <2>5
<1>7. ASSUME NEW c \in Procs, Work(c)
      PROVE  (OneAtATime /\ Fresh /\ Stamped /\ Covered /\ Reserved)'
  <2>. PICK u \in Usages :
          /\ units' = [units EXCEPT ![c] = u]
          /\ used' = [p \in Providers |-> used[p] + Cost(u, p)]
    BY <1>7 DEF Work
  <2>1. /\ UNCHANGED <<now, asOf, ledger, today, seen>>
        /\ pc[c] = "work" /\ pc' = [pc EXCEPT ![c] = "merge"]
    BY <1>7 DEF Work, Step, files
  <2>2. \A p \in Providers : used'[p] = used[p] + Cost(u, p) /\ Cost(u, p) \in Nat
    BY CostTypes DEF TypeOK
  <2>3. \A o \in Procs \ {c} : pc'[o] = "idle"
    BY <2>1 DEF OneAtATime
  <2>4. OneAtATime' /\ Fresh' /\ Stamped'
    BY <2>1, <2>3 DEF OneAtATime, Fresh, Stamped, TypeOK
  <2>5. used' \in [Providers -> Nat]
    BY TypeStep DEF TypeOK
  <2>6. Covered'
    <3>1. \A p \in Providers : used'[p] >= used[p]
      <4>. SUFFICES ASSUME NEW p \in Providers PROVE used'[p] >= used[p]
        OBVIOUS
      <4>1. used[p] \in Nat /\ used'[p] \in Nat
        BY <2>5 DEF TypeOK
      <4>. QED
        BY <2>2, <4>1
    <3>. QED
      BY <2>1, <2>5, <3>1, CoverKept
  <2>7. ASSUME NEW p \in Providers, Counted(p, Stamp(c, p))'
        PROVE  Recorded(p) + Cost(u, p) <= used'[p]
    <3>1. Recorded(p) \in Nat /\ used[p] \in Nat
      BY RecordedNat DEF TypeOK
    <3>2. Recorded(p) <= used[p]
      <4>1. CASE ledger[p] = None
        <5>1. Price[p] * 0 = 0
          BY SpendAssumption
        <5>. QED
          BY <3>1, <4>1, <5>1, Zero DEF Recorded
      <4>2. CASE ledger[p] # None
        BY <2>1, <2>7, <4>2, Zero DEF Covered, Stamp, Counted, TypeOK
      <4>. QED
        BY <4>1, <4>2
    <3>. QED
      BY <2>2, <3>1, <3>2
  <2>8. Reserved'
    <3>1. units'[c] = u
      BY DEF TypeOK
    <3>2. \A p \in Providers : Recorded(p)' = Recorded(p) /\ Cost(units[c], p)' = Cost(u, p)
      BY <2>1, <3>1 DEF Recorded, Cost
    <3>. QED
      BY <2>3, <2>7, <3>2 DEF Reserved, Spent
  <2>. QED
    BY <2>4, <2>6, <2>8
<1>8. ASSUME NEW c \in Procs, WriteLedger(c)
      PROVE  (OneAtATime /\ Fresh /\ Stamped /\ Covered /\ Reserved)'
  <2>1. /\ UNCHANGED <<now, asOf, used>> /\ Exit(c) /\ pc[c] = "write"
        /\ seen[c] = ledger
    BY <1>8 DEF WriteLedger, Fresh
  <2>2. \A o \in Procs : pc'[o] = "idle" /\ today'[o] <= now
    BY <2>1 DEF Exit, OneAtATime, Stamped, TypeOK
  <2>3. ASSUME NEW p \in Providers
        PROVE  \/ ledger'[p] = ledger[p]
               \/ ledger'[p] = [n |-> ledger[p].n + units[c][p], stamp |-> Stamp(c, p)]
    BY <1>8, <2>1 DEF WriteLedger, Applied, Stamp
  <2>4. \A p \in Providers : ledger'[p].stamp <= now
    <3>. SUFFICES ASSUME NEW p \in Providers PROVE ledger'[p].stamp <= now
      OBVIOUS
    <3>1. CASE ledger'[p] = ledger[p]
      BY <3>1 DEF Stamped
    <3>2. CASE ledger'[p] = [n |-> ledger[p].n + units[c][p], stamp |-> Stamp(c, p)]
      <4>1. Stamp(c, p) \in 1..now /\ now \in Int
        BY StampTypes DEF TypeOK
      <4>. QED
        BY <3>2, <4>1
    <3>. QED
      BY <2>3, <3>1, <3>2
  <2>5. Covered'
    <3>. SUFFICES ASSUME NEW p \in Providers,
                         ledger'[p] # None, Counted(p, ledger[p].stamp)'
                  PROVE  Price[p] * ledger'[p].n <= used[p]
      BY <2>1 DEF Covered, Recorded
    <3>1. CASE ledger'[p] = ledger[p]
      BY <2>1, <3>1 DEF Covered, Counted, Recorded
    <3>2. CASE ledger'[p] = [n |-> ledger[p].n + units[c][p], stamp |-> Stamp(c, p)]
      BY <2>1, <3>2, RecordedAdds DEF Reserved, Spent, Counted
    <3>. QED
      BY <2>3, <3>1, <3>2
  <2>. QED
    BY <2>1, <2>2, <2>4, <2>5 DEF OneAtATime, Fresh, Stamped, Reserved, Spent
<1>. QED
  BY <1>1, <1>2, <1>3, <1>4, <1>5, <1>6, <1>7, <1>8 DEF Next, Command

\* However many commands run one after the other, whichever of them are
\* killed and whatever day it is: the queries the gate counts cost no more than
\* was spent in the period, or since the top-up; and it takes no more for them
\* where a query costs a unit of the balance or more.
THEOREM LedgerChargesNothingOld == Spec => []NothingOldIsCharged
<1>1. Init => LedgerInv
  BY Days DEF Init, LedgerInv, OneAtATime, Fresh, Stamped, Covered, Reserved, Spent, None
<1>2. TypeOK /\ LedgerInv => NothingOldIsCharged
  <2>. SUFFICES ASSUME TypeOK, LedgerInv, ~raced, NEW p \in Providers,
                       ~(p \notin Quotas /\ ledger[p].stamp = asOf[p])
                PROVE  /\ Price[p] * Consumed(p) <= used[p]
                       /\ Unit <= Price[p] => Taken(p) <= used[p]
    BY DEF NothingOldIsCharged
  <2>1. /\ Price[p] \in Nat /\ Unit \in Nat /\ used[p] \in Nat
        /\ Consumed(p) \in Nat
    BY RecordedNat, SpendAssumption DEF Consumed, TypeOK
  <2>2. Price[p] * Consumed(p) <= used[p]
    <3>1. CASE ~Counts(p, ledger, now)
      <4>1. Price[p] * 0 = 0
        BY <2>1
      <4>. QED
        BY <2>1, <3>1, <4>1 DEF Consumed
    <3>2. CASE Counts(p, ledger, now)
      <4>1. ledger[p] # None /\ Counted(p, ledger[p].stamp)
        BY <3>2, Zero DEF Counts, Counted, TypeOK
      <4>. QED
        BY <3>2, <4>1 DEF Consumed, LedgerInv, Covered, Recorded
    <3>. QED
      BY <3>1, <3>2
  <2>3. ASSUME Unit <= Price[p] PROVE Taken(p) <= used[p]
    <3>1. \A k, l, n \in Nat : k <= l => k * n <= l * n /\ k * n \in Nat /\ l * n \in Nat
      OBVIOUS
    <3>. QED
      BY <2>1, <2>2, <2>3, <3>1 DEF Taken
  <2>. QED
    BY <2>2, <2>3
<1>. QED
  BY <1>1, <1>2, LedgerTypes, LedgerStep, PTL DEF Spec

-----------------------------------------------------------------------------
(* Exact while current.                                                    *)

\* A period that begins between two days begins between any two around them.
LEMMA WiderPeriod ==
    ASSUME NEW a \in Date, NEW b \in Date, NEW x \in Date, NEW y \in Date,
           ~Before(a, x), ~Before(y, b), NewPeriod(a, b)
    PROVE  NewPeriod(x, y)
<1>. PICK z \in a.y..b.y, m \in 1..12 :
        Before(a, ResetDate(z, m)) /\ ~Before(b, ResetDate(z, m))
  BY DEF NewPeriod
<1>0. a.y \in Nat /\ b.y \in Nat /\ x.y \in Nat /\ y.y \in Nat
  BY DEF Date
<1>1. x.y <= a.y /\ b.y <= y.y
  BY YearsInOrder
<1>2. z \in x.y..y.y /\ z \in Nat
  BY <1>0, <1>1
<1>3. ResetDate(z, m) \in Date
  BY <1>2, CalendarAssumption DEF Date, ResetDate
<1>4. Before(x, ResetDate(z, m)) /\ ~Before(y, ResetDate(z, m))
  BY <1>3, OrdInt DEF Before
<1>. QED
  BY <1>2, <1>4 DEF NewPeriod

LEMMA WiderDays ==
    ASSUME NEW i \in 1..Len(Calendar), NEW j \in 1..Len(Calendar),
           NEW k \in 1..Len(Calendar), NEW l \in 1..Len(Calendar),
           k <= i, j <= l, NewPeriod(Calendar[i], Calendar[j])
    PROVE  NewPeriod(Calendar[k], Calendar[l])
<1>1. /\ Calendar[i] \in Date /\ Calendar[j] \in Date
      /\ Calendar[k] \in Date /\ Calendar[l] \in Date
      /\ ~Before(Calendar[i], Calendar[k]) /\ ~Before(Calendar[l], Calendar[j])
  BY Days
<1>. QED
  BY <1>1, WiderPeriod

LEMMA NoPeriodToday ==
    ASSUME NEW i \in 1..Len(Calendar)
    PROVE  ~NewPeriod(Calendar[i], Calendar[i])
  BY DEF NewPeriod

\* A current row counts in full.
LEMMA CurrentCounts ==
    ASSUME TypeOK, NEW p \in Quotas, Current(p), ledger[p].stamp <= now
    PROVE  Consumed(p) = ledger[p].n
<1>0. p \in Providers
  BY SpendAssumption
<1>1. CASE ledger[p] = None
  BY <1>1, Zero DEF Consumed, Counts
<1>2. CASE ledger[p] # None
  <2>. DEFINE s == ledger[p].stamp
  <2>1. s \in 1..Len(Calendar) /\ now \in 1..Len(Calendar) /\ s <= now
    BY <1>0, <1>2, Zero DEF TypeOK
  <2>2. ~NewPeriod(Calendar[s], Calendar[now])
    BY <1>2 DEF Current
  <2>. HIDE DEF s
  <2>3. /\ Calendar[s] \in Date /\ Calendar[s].y > 0
        /\ Calendar[now] \in Date /\ Calendar[now].y > 0
        /\ ~Before(Calendar[now], Calendar[s])
    BY <2>1, Days
  <2>4. Ord(PeriodStart(Calendar[s])) = Ord(PeriodStart(Calendar[now]))
    BY <2>2, <2>3, SamePeriod
  <2>5. ~Before(Calendar[s], PeriodStart(Calendar[s]))
    BY <2>3, PeriodStartIsLatest
  <2>6. ~Before(Calendar[s], PeriodStart(Calendar[now]))
    BY <2>4, <2>5 DEF Before
  <2>. QED
    BY <1>2, <2>6 DEF Consumed, Counts, s
<1>. QED
  BY <1>1, <1>2

DueIsSpent ==
    \A c \in Procs, p \in Quotas :
        /\ ~Spent(c) => due[c][p] = 0
        /\ Spent(c) => due[c][p] \in {0, Cost(units[c], p)}
        /\ Spent(c) /\ ~NewPeriod(Calendar[today[c]], Calendar[now]) =>
              due[c][p] = Cost(units[c], p)
ExactNow ==
    \A p \in Quotas : Current(p) =>
        /\ \A c \in Procs : pc[c] # "idle" =>
              Recorded(p) + lost[p] + due[c][p] = used[p]
        /\ (\A c \in Procs : pc[c] = "idle") => Recorded(p) + lost[p] = used[p]
Estimated(p) == Need[p] <= Allowance[p]
Dearest(p)   == Price[p] * Most(p)
InTheLimit ==
    \A p \in Quotas : Current(p) /\ Estimated(p) =>
        /\ used[p] <= Room(p) + Dearest(p) + lost[p]
        /\ \A c \in Procs : pc[c] = "work" => used[p] <= Room(p) + lost[p]

\* While commands run one after the other: what is due is what was used, unless
\* the period has turned since; nothing spent is neither recorded, lost nor
\* due; and a command that is let through finds the estimate left.
ExactInv == ~raced => DueIsSpent /\ ExactNow /\ InTheLimit

LEMMA MostIsMost ==
    ASSUME NEW p \in Providers
    PROVE  Most(p) \in Nat /\ \A u \in Usages : u[p] \in Nat /\ u[p] <= Most(p)
<1>1. \E u \in Usages : \A v \in Usages : v[p] <= u[p]
  BY SpendAssumption
<1>2. \A u \in Usages : u[p] \in Nat
  BY SpendAssumption
<1>3. \E n \in {u[p] : u \in Usages} : \A u \in Usages : u[p] <= n
  BY <1>1
<1>4. /\ Most(p) \in {u[p] : u \in Usages}
      /\ \A u \in Usages : u[p] <= Most(p)
  BY <1>3 DEF Most
<1>. QED
  BY <1>2, <1>4

LEMMA DearestIsMost ==
    ASSUME NEW p \in Providers
    PROVE  Dearest(p) \in Nat /\ \A u \in Usages : Cost(u, p) <= Dearest(p)
<1>1. \A k, m, n \in Nat : m <= n => k * m <= k * n /\ k * n \in Nat
  OBVIOUS
<1>2. Price[p] \in Nat
  BY SpendAssumption
<1>. QED
  BY <1>1, <1>2, MostIsMost DEF Dearest, Cost

\* As many queries as there are units beside the estimate cost no more than
\* the room there is.
LEMMA RoomIsLeft ==
    ASSUME NEW p \in Providers, Need[p] <= Allowance[p]
    PROVE  /\ Room(p) \in Nat
           /\ \A n \in Nat : Unit * n <= Allowance[p] - Need[p] => Price[p] * n <= Room(p)
<1>. DEFINE a == Allowance[p] - Need[p]
            q == (Price[p] * a) \div Unit
<1>1. a \in Nat /\ Price[p] \in Nat /\ Unit \in Nat \ {0}
  BY SpendAssumption
<1>. HIDE DEF a
<1>2. \A k, m, n \in Nat : k * n \in Nat /\ (m <= n => k * m <= k * n)
  OBVIOUS
<1>3. \A m \in Nat, u \in Nat \ {0} :
        m \div u \in Nat /\ m < ((m \div u) + 1) * u
  OBVIOUS
<1>4. Price[p] * a \in Nat
  BY <1>1, <1>2
<1>5. q \in Nat /\ Price[p] * a < (q + 1) * Unit
  BY <1>1, <1>3, <1>4
<1>6. ASSUME NEW n \in Nat, Unit * n <= a PROVE Price[p] * n <= q
  <2>1. Price[p] * (Unit * n) <= Price[p] * a
    BY <1>1, <1>2, <1>6
  <2>2. \A k, l, m \in Nat : k * (l * m) = (k * m) * l
    OBVIOUS
  <2>3. (Price[p] * n) * Unit < (q + 1) * Unit
    <3>1. Price[p] * (Unit * n) = (Price[p] * n) * Unit
      BY <1>1, <1>6, <2>2
    <3>2. Price[p] * (Unit * n) \in Nat /\ (q + 1) * Unit \in Nat
      BY <1>1, <1>2, <1>5, <1>6
    <3>. QED
      BY <1>4, <1>5, <2>1, <3>1, <3>2
  <2>4. \A x, y \in Nat, u \in Nat \ {0} : x * u < (y + 1) * u => x <= y
    OBVIOUS
  <2>5. Price[p] * n \in Nat
    BY <1>1, <1>2, <1>6
  <2>. QED
    BY <1>1, <1>5, <2>3, <2>4, <2>5
<1>. QED
  BY <1>5, <1>6 DEF Room, a

\* A row that is out of date stays so.
LEMMA CurrentKept ==
    ASSUME TypeOK, LedgerInv, ~raced, NEW p \in Quotas,
           now' \in 1..Len(Calendar), now <= now',
           \/ ledger'[p] = ledger[p]
           \/ ledger[p] # None /\ ledger'[p] # None /\ ledger'[p].stamp = ledger[p].stamp,
           Current(p)'
    PROVE  Current(p)
<1>0. p \in Providers
  BY SpendAssumption
<1>. SUFFICES ASSUME ledger[p] # None PROVE ~NewPeriod(Calendar[ledger[p].stamp], Calendar[now])
  BY DEF Current
<1>1. ledger[p].stamp \in 1..Len(Calendar) /\ now \in 1..Len(Calendar)
  BY <1>0, Zero DEF TypeOK
<1>2. ~NewPeriod(Calendar[ledger[p].stamp], Calendar[now'])
  BY DEF Current
<1>. QED
  BY <1>1, <1>2, WiderDays

LEMMA ExactTick ==
    ASSUME TypeOK, LedgerInv, ExactInv, ~raced, Tick
    PROVE  (DueIsSpent /\ ExactNow /\ InTheLimit)'
<1>. DueIsSpent /\ ExactNow /\ InTheLimit /\ Stamped
  BY DEF ExactInv, LedgerInv
<1>. DEFINE new == NewPeriod(Calendar[now], Calendar[now'])
<1>1. /\ UNCHANGED <<ledger, pc, today, units>>
      /\ now' = now + 1 /\ now \in 1..Len(Calendar) /\ now' \in 1..Len(Calendar)
  BY Days DEF Tick, files, procs, TypeOK
<1>2. \A p \in Quotas : p \in Providers
  BY SpendAssumption
<1>3. \A p \in Quotas :
        /\ used'[p] = IF new THEN 0 ELSE used[p]
        /\ lost'[p] = IF new THEN 0 ELSE lost[p]
        /\ \A c \in Procs : due'[c][p] = IF new THEN 0 ELSE due[c][p]
  BY <1>2 DEF Tick
<1>. HIDE DEF new
<1>4. DueIsSpent'
  <2>. SUFFICES ASSUME NEW c \in Procs, NEW p \in Quotas
                PROVE  /\ ~Spent(c) => due'[c][p] = 0
                       /\ Spent(c) => due'[c][p] \in {0, Cost(units[c], p)}
                       /\ Spent(c) /\ ~NewPeriod(Calendar[today[c]], Calendar[now']) =>
                             due'[c][p] = Cost(units[c], p)
    BY <1>1 DEF DueIsSpent, Spent, Cost
  <2>1. CASE new
    <3>1. today[c] \in 1..Len(Calendar) /\ today[c] <= now
      BY DEF Stamped, TypeOK
    <3>2. NewPeriod(Calendar[today[c]], Calendar[now'])
      BY <1>1, <2>1, <3>1, WiderDays DEF new
    <3>. QED
      BY <1>3, <2>1, <3>2
  <2>2. CASE ~new
    <3>1. ASSUME NewPeriod(Calendar[today[c]], Calendar[now])
          PROVE  NewPeriod(Calendar[today[c]], Calendar[now'])
      <4>1. today[c] \in 1..Len(Calendar)
        BY DEF TypeOK
      <4>. QED
        BY <1>1, <3>1, <4>1, WiderDays
    <3>. QED
      BY <1>3, <2>2, <3>1 DEF DueIsSpent
  <2>. QED
    BY <2>1, <2>2
<1>5. ASSUME NEW p \in Quotas, Current(p)', ~new
      PROVE  Current(p)
  BY <1>1, <1>5, CurrentKept
<1>6. ASSUME NEW p \in Quotas, Current(p)', new
      PROVE  Recorded(p) = 0
  <2>1. CASE ledger[p] = None
    BY <2>1, <1>2, SpendAssumption, Zero DEF Recorded
  <2>2. CASE ledger[p] # None
    <3>1. ledger[p].stamp \in 1..Len(Calendar) /\ ledger[p].stamp <= now
      BY <1>2, <2>2, Zero DEF Stamped, TypeOK
    <3>2. NewPeriod(Calendar[ledger[p].stamp], Calendar[now'])
      BY <1>1, <1>6, <3>1, WiderDays DEF new
    <3>. QED
      BY <1>1, <1>6, <2>2, <3>2 DEF Current
  <2>. QED
    BY <2>1, <2>2
<1>7. \A p \in Quotas : Recorded(p)' = Recorded(p)
  BY <1>1 DEF Recorded
<1>8. ExactNow'
  <2>. SUFFICES ASSUME NEW p \in Quotas, Current(p)'
                PROVE  /\ \A c \in Procs : pc[c] # "idle" =>
                            Recorded(p) + lost'[p] + due'[c][p] = used'[p]
                       /\ (\A c \in Procs : pc[c] = "idle") =>
                            Recorded(p) + lost'[p] = used'[p]
    BY <1>1, <1>7 DEF ExactNow
  <2>1. CASE new
    BY <1>3, <1>6, <2>1
  <2>2. CASE ~new
    BY <1>3, <1>5, <2>2 DEF ExactNow
  <2>. QED
    BY <2>1, <2>2
<1>9. InTheLimit'
  <2>. SUFFICES ASSUME NEW p \in Quotas, Current(p)', Estimated(p)
                PROVE  /\ used'[p] <= Room(p) + Dearest(p) + lost'[p]
                       /\ \A c \in Procs : pc[c] = "work" =>
                            used'[p] <= Room(p) + lost'[p]
    BY <1>1 DEF InTheLimit, Estimated
  <2>1. CASE new
    <3>1. Room(p) \in Nat /\ Dearest(p) \in Nat
      BY <1>2, RoomIsLeft, DearestIsMost DEF Estimated
    <3>. QED
      BY <1>3, <2>1, <3>1
  <2>2. CASE ~new
    BY <1>3, <1>5, <2>2 DEF InTheLimit
  <2>. QED
    BY <2>1, <2>2
<1>. QED
  BY <1>4, <1>8, <1>9

LEMMA ExactTopUp ==
    ASSUME TypeOK, ExactInv, ~raced, NEW w \in Providers \ Quotas, TopUp(w)
    PROVE  (DueIsSpent /\ ExactNow /\ InTheLimit)'
<1>. DueIsSpent /\ ExactNow /\ InTheLimit
  BY DEF ExactInv
<1>1. UNCHANGED <<now, ledger, pc, today, units>>
  BY DEF TopUp, procs
<1>2. \A p \in Quotas : /\ used'[p] = used[p] /\ lost'[p] = lost[p]
                        /\ \A c \in Procs : due'[c][p] = due[c][p]
  <2>. SUFFICES ASSUME NEW p \in Quotas
                PROVE  /\ used'[p] = used[p] /\ lost'[p] = lost[p]
                       /\ \A c \in Procs : due'[c][p] = due[c][p]
    OBVIOUS
  <2>1. p \in Providers /\ p # w
    BY SpendAssumption
  <2>2. used'[p] = used[p] /\ lost'[p] = lost[p]
    BY <2>1 DEF TopUp, TypeOK
  <2>3. \A c \in Procs : due'[c][p] = due[c][p]
    BY <2>1 DEF TopUp, TypeOK
  <2>. QED
    BY <2>2, <2>3
<1>3. DueIsSpent'
  BY <1>1, <1>2 DEF DueIsSpent, Spent, Cost
<1>4. ExactNow'
  BY <1>1, <1>2 DEF ExactNow, Current, Recorded
<1>5. InTheLimit'
  BY <1>1, <1>2 DEF InTheLimit, Current, Estimated
<1>. QED
  BY <1>3, <1>4, <1>5

\* A step of a command that neither uses, records nor loses anything.
LEMMA ExactQuiet ==
    ASSUME TypeOK, LedgerInv, ExactInv, ~raced, NEW c \in Procs,
           ReadActuals(c) \/ WriteActuals(c) \/ ReadLedger(c)
    PROVE  (DueIsSpent /\ ExactNow /\ InTheLimit)'
<1>. DueIsSpent /\ ExactNow /\ InTheLimit
  BY DEF ExactInv
<1>1. /\ UNCHANGED <<now, ledger, today, units, used, lost, due>>
      /\ pc[c] \in {"merge", "merging", "read"} /\ pc'[c] \in {"merging", "read", "write"}
      /\ \A o \in Procs \ {c} : pc'[o] = pc[o]
  BY DEF ReadActuals, WriteActuals, ReadLedger, Step, files, ghosts, TypeOK
<1>2. DueIsSpent'
  BY <1>1 DEF DueIsSpent, Spent, Cost
<1>3. ExactNow'
  BY <1>1 DEF ExactNow, Current, Recorded
<1>4. InTheLimit'
  BY <1>1 DEF InTheLimit, Current, Estimated
<1>. QED
  BY <1>2, <1>3, <1>4

LEMMA ExactPass ==
    ASSUME TypeOK, LedgerInv, ExactInv, ~raced', NEW c \in Procs, Pass(c)
    PROVE  (DueIsSpent /\ ExactNow /\ InTheLimit)'
<1>0. ~raced /\ Alone(c)
  BY DEF Pass, TypeOK
<1>. DueIsSpent /\ ExactNow /\ InTheLimit /\ Stamped
  BY <1>0 DEF ExactInv, LedgerInv
<1>1. /\ UNCHANGED <<now, ledger, units, used, lost, due>>
      /\ pc[c] = "idle" /\ pc' = [pc EXCEPT ![c] = "work"]
      /\ today' = [today EXCEPT ![c] = now]
      /\ \A o \in Procs : pc[o] = "idle"
  BY <1>0 DEF Pass, Step, Alone, files
<1>2. DueIsSpent'
  <2>. SUFFICES ASSUME NEW o \in Procs PROVE ~Spent(o)' /\ ~Spent(o)
    BY <1>1 DEF DueIsSpent, Spent, Cost
  <2>. QED
    BY <1>1 DEF Spent, TypeOK
<1>3. ExactNow'
  <2>. SUFFICES ASSUME NEW p \in Quotas, Current(p)
                PROVE  Recorded(p) + lost[p] = used[p] /\ due[c][p] = 0
    <3>1. \A p \in Quotas : lost[p] \in Nat /\ Recorded(p) \in Nat
      BY RecordedNat, SpendAssumption DEF TypeOK
    <3>2. pc'[c] = "work" /\ \A o \in Procs \ {c} : pc'[o] = "idle"
      BY <1>1 DEF TypeOK
    <3>3. \A p \in Quotas : /\ Recorded(p)' = Recorded(p) /\ Current(p)' = Current(p)
                            /\ lost'[p] = lost[p] /\ used'[p] = used[p] /\ due'[c][p] = due[c][p]
      BY <1>1 DEF Current, Recorded
    <3>. QED
      BY <3>1, <3>2, <3>3 DEF ExactNow
  <2>. QED
    BY <1>1 DEF ExactNow, DueIsSpent, Spent
<1>4. InTheLimit'
  <2>. SUFFICES ASSUME NEW p \in Quotas, Current(p), Estimated(p)
                PROVE  used[p] <= Room(p) + lost[p]
    BY <1>1 DEF InTheLimit, Current, Estimated, TypeOK
  <2>0. p \in Providers
    BY SpendAssumption
  <2>1. Affords(p)
    BY <2>0 DEF Pass
  <2>2. ledger[p].stamp <= now
    BY <2>0 DEF Stamped
  <2>3. Consumed(p) = ledger[p].n
    BY <2>2, CurrentCounts
  <2>4. Unit * ledger[p].n <= Allowance[p] - Need[p]
    <3>. DEFINE t == Unit * ledger[p].n
    <3>1. t \in Nat
      <4>1. Unit \in Nat /\ ledger[p].n \in Nat
        BY <2>0, RecordedNat, SpendAssumption
      <4>2. \A k, n \in Nat : k * n \in Nat
        OBVIOUS
      <4>. QED
        BY <4>1, <4>2
    <3>2. Allowance[p] - t >= Need[p]
      BY <2>1, <2>3 DEF Affords, Amount, Taken
    <3>3. Allowance[p] \in Nat /\ Need[p] \in Nat
      BY <2>0, SpendAssumption
    <3>. HIDE DEF t
    <3>4. t <= Allowance[p] - Need[p]
      BY <3>1, <3>2, <3>3
    <3>. QED
      BY <3>4 DEF t
  <2>5. Recorded(p) <= Room(p) /\ Room(p) \in Nat
    BY <2>0, <2>4, RecordedNat, RoomIsLeft DEF Recorded, Estimated
  <2>6. Recorded(p) + lost[p] = used[p]
    BY <1>1 DEF ExactNow
  <2>7. Recorded(p) \in Nat /\ lost[p] \in Nat /\ used[p] \in Nat
    BY <2>0, RecordedNat DEF TypeOK
  <2>. QED
    BY <2>5, <2>6, <2>7
<1>. QED
  BY <1>2, <1>3, <1>4

LEMMA ExactWork ==
    ASSUME TypeOK, LedgerInv, ExactInv, ~raced, NEW c \in Procs, Work(c)
    PROVE  (DueIsSpent /\ ExactNow /\ InTheLimit)'
<1>. DueIsSpent /\ ExactNow /\ InTheLimit /\ OneAtATime
  BY DEF ExactInv, LedgerInv
<1>. PICK u \in Usages :
        /\ units' = [units EXCEPT ![c] = u]
        /\ used' = [p \in Providers |-> used[p] + Cost(u, p)]
        /\ due' = [due EXCEPT ![c] = [p \in Providers |-> Cost(u, p)]]
  BY DEF Work
<1>1. /\ UNCHANGED <<now, ledger, today, lost>>
      /\ pc[c] = "work" /\ pc' = [pc EXCEPT ![c] = "merge"]
  BY DEF Work, Step, files
<1>2. /\ \A o \in Procs \ {c} : pc[o] = "idle" /\ pc'[o] = "idle"
      /\ pc'[c] = "merge"
  BY <1>1 DEF OneAtATime, TypeOK
<1>3. ASSUME NEW p \in Quotas
      PROVE  /\ p \in Providers /\ used'[p] = used[p] + Cost(u, p)
             /\ due[c][p] = 0 /\ due'[c][p] = Cost(u, p)
             /\ Recorded(p)' = Recorded(p) /\ Current(p)' = Current(p)
             /\ Recorded(p) \in Nat /\ lost[p] \in Nat /\ used[p] \in Nat
             /\ Cost(u, p) \in Nat /\ Cost(u, p) <= Dearest(p) /\ Dearest(p) \in Nat
  <2>1. p \in Providers
    BY SpendAssumption
  <2>2. used'[p] = used[p] + Cost(u, p) /\ due'[c][p] = Cost(u, p)
    BY <2>1 DEF TypeOK
  <2>3. due[c][p] = 0
    BY <1>1 DEF DueIsSpent, Spent
  <2>4. Recorded(p)' = Recorded(p) /\ Current(p)' = Current(p)
    BY <1>1 DEF Recorded, Current
  <2>5. Recorded(p) \in Nat /\ lost[p] \in Nat /\ used[p] \in Nat
    BY <2>1, RecordedNat DEF TypeOK
  <2>. QED
    BY <2>1, <2>2, <2>3, <2>4, <2>5, CostTypes, DearestIsMost
<1>4. DueIsSpent'
  <2>1. units'[c] = u /\ \A o \in Procs \ {c} : due'[o] = due[o]
    BY DEF TypeOK
  <2>2. \A o \in Procs \ {c} : ~Spent(o) /\ ~Spent(o)'
    BY <1>2 DEF Spent
  <2>3. Spent(c)'
    BY <1>2 DEF Spent
  <2>4. \A p \in Quotas : due'[c][p] = Cost(units'[c], p)
    BY <1>3, <2>1
  <2>. QED
    BY <2>1, <2>2, <2>3, <2>4 DEF DueIsSpent, Cost
<1>5. ExactNow'
  <2>. SUFFICES ASSUME NEW p \in Quotas, Current(p)
                PROVE  Recorded(p) + lost[p] + Cost(u, p) = used[p] + Cost(u, p)
    BY <1>1, <1>2, <1>3 DEF ExactNow
  <2>1. Recorded(p) + lost[p] + 0 = used[p]
    BY <1>1, <1>3 DEF ExactNow
  <2>2. Recorded(p) \in Nat /\ lost[p] \in Nat /\ used[p] \in Nat /\ Cost(u, p) \in Nat
    BY <1>3
  <2>. QED
    BY <2>1, <2>2
<1>6. InTheLimit'
  <2>. SUFFICES ASSUME NEW p \in Quotas, Current(p), Estimated(p)
                PROVE  used[p] + Cost(u, p) <= Room(p) + Dearest(p) + lost[p]
    BY <1>1, <1>2, <1>3 DEF InTheLimit, Estimated
  <2>1. used[p] <= Room(p) + lost[p]
    BY <1>1 DEF InTheLimit
  <2>2. Room(p) \in Nat
    BY <1>3, RoomIsLeft DEF Estimated
  <2>3. /\ lost[p] \in Nat /\ used[p] \in Nat /\ Cost(u, p) \in Nat
        /\ Cost(u, p) <= Dearest(p) /\ Dearest(p) \in Nat
    BY <1>3
  <2>. QED
    BY <2>1, <2>2, <2>3
<1>. QED
  BY <1>4, <1>5, <1>6

LEMMA ExactExit ==
    ASSUME TypeOK, LedgerInv, ExactInv, ~raced, NEW c \in Procs, Exit(c),
           pc[c] # "idle", UNCHANGED <<now, ledger>>, NEW k \in [Quotas -> Nat],
           \A p \in Quotas : used'[p] = used[p] + k[p]
                            /\ lost'[p] = lost[p] + k[p] + due[c][p]
    PROVE  (DueIsSpent /\ ExactNow /\ InTheLimit)'
<1>. DueIsSpent /\ ExactNow /\ InTheLimit /\ OneAtATime
  BY DEF ExactInv, LedgerInv
<1>1. \A o \in Procs : pc'[o] = "idle" /\ ~Spent(o)'
  BY DEF OneAtATime, Exit, Spent, TypeOK
<1>2. ASSUME NEW p \in Quotas
      PROVE  /\ Recorded(p)' = Recorded(p) /\ Current(p)' = Current(p)
             /\ Recorded(p) \in Nat /\ lost[p] \in Nat /\ used[p] \in Nat
             /\ k[p] \in Nat /\ due[c][p] \in Nat
             /\ Dearest(p) \in Nat
  <2>1. p \in Providers
    BY SpendAssumption
  <2>2. Recorded(p)' = Recorded(p) /\ Current(p)' = Current(p)
    BY DEF Recorded, Current
  <2>3. lost[p] \in Nat /\ used[p] \in Nat /\ due[c][p] \in Nat
    BY <2>1 DEF TypeOK
  <2>. QED
    BY <2>1, <2>2, <2>3, RecordedNat, DearestIsMost
<1>3. DueIsSpent'
  <2>. SUFFICES ASSUME NEW o \in Procs, NEW p \in Quotas PROVE due'[o][p] = 0
    BY <1>1 DEF DueIsSpent
  <2>0. p \in Providers
    BY SpendAssumption
  <2>1. CASE o = c
    BY <2>0, <2>1 DEF Exit, Nil, TypeOK
  <2>2. CASE o # c
    BY <2>2 DEF Exit, OneAtATime, DueIsSpent, Spent, TypeOK
  <2>. QED
    BY <2>1, <2>2
<1>4. ExactNow'
  <2>. SUFFICES ASSUME NEW p \in Quotas, Current(p)
                PROVE  Recorded(p) + lost'[p] = used'[p]
    BY <1>1, <1>2 DEF ExactNow
  <2>1. Recorded(p) + lost[p] + due[c][p] = used[p]
    BY DEF ExactNow
  <2>2. /\ Recorded(p) \in Nat /\ lost[p] \in Nat /\ used[p] \in Nat
        /\ k[p] \in Nat /\ due[c][p] \in Nat
    BY <1>2
  <2>. QED
    BY <2>1, <2>2
<1>5. InTheLimit'
  <2>. SUFFICES ASSUME NEW p \in Quotas, Current(p), Estimated(p)
                PROVE  used'[p] <= Room(p) + Dearest(p) + lost'[p]
    BY <1>1, <1>2 DEF InTheLimit, Estimated
  <2>1. used[p] <= Room(p) + Dearest(p) + lost[p]
    BY DEF InTheLimit
  <2>2. /\ lost[p] \in Nat /\ used[p] \in Nat /\ k[p] \in Nat /\ due[c][p] \in Nat
        /\ Room(p) \in Nat /\ Dearest(p) \in Nat
    BY <1>2, RoomIsLeft, SpendAssumption DEF Estimated
  <2>. QED
    BY <2>1, <2>2
<1>. QED
  BY <1>3, <1>4, <1>5

LEMMA ExactUncounted ==
    ASSUME TypeOK, LedgerInv, ExactInv, ~raced, NEW c \in Procs, WorkUncounted(c)
    PROVE  (DueIsSpent /\ ExactNow /\ InTheLimit)'
<1>. PICK u \in Usages :
        /\ used' = [p \in Providers |-> used[p] + Cost(u, p)]
        /\ lost' = [p \in Providers |-> lost[p] + Cost(u, p)]
  BY DEF WorkUncounted
<1>1. pc[c] = "work" /\ Exit(c) /\ UNCHANGED <<now, ledger>>
  BY DEF WorkUncounted, files
<1>. DEFINE k == [p \in Quotas |-> Cost(u, p)]
<1>2. \A p \in Quotas : p \in Providers
  BY SpendAssumption
<1>3. k \in [Quotas -> Nat]
  BY <1>2, CostTypes
<1>4. ASSUME NEW p \in Quotas
      PROVE  used'[p] = used[p] + k[p] /\ lost'[p] = lost[p] + k[p] + due[c][p]
  <2>1. due[c][p] = 0
    BY <1>1 DEF ExactInv, DueIsSpent, Spent
  <2>2. lost[p] \in Nat /\ used[p] \in Nat /\ Cost(u, p) \in Nat
    BY <1>2, CostTypes DEF TypeOK
  <2>. QED
    BY <1>2, <2>1, <2>2
<1>. HIDE DEF k
<1>. QED
  BY <1>1, <1>3, <1>4, ExactExit

LEMMA ExactAbandon ==
    ASSUME TypeOK, LedgerInv, ExactInv, ~raced, NEW c \in Procs,
           Abandon(c) \/ NothingToRecord(c)
    PROVE  (DueIsSpent /\ ExactNow /\ InTheLimit)'
<1>1. pc[c] # "idle" /\ Exit(c) /\ UNCHANGED <<now, ledger, used>>
  BY DEF Abandon, NothingToRecord, files
<1>. DEFINE k == [p \in Quotas |-> 0]
<1>2. k \in [Quotas -> Nat]
  OBVIOUS
<1>3. ASSUME NEW p \in Quotas
      PROVE  used'[p] = used[p] + k[p] /\ lost'[p] = lost[p] + k[p] + due[c][p]
  <2>0. p \in Providers
    BY SpendAssumption
  <2>1. lost[p] \in Nat /\ used[p] \in Nat /\ due[c][p] \in Nat
    BY <2>0 DEF TypeOK
  <2>2. lost'[p] = lost[p] + due[c][p]
    <3>1. CASE Abandon(c)
      BY <2>0, <3>1 DEF Abandon
    <3>2. CASE NothingToRecord(c)
      <4>1. units[c][p] = 0 /\ Spent(c) /\ lost' = lost
        BY <2>0, <3>2 DEF NothingToRecord, Nil, Spent
      <4>2. \A n \in Nat : n * 0 = 0
        OBVIOUS
      <4>3. Cost(units[c], p) = 0
        BY <2>0, <4>1, <4>2, SpendAssumption DEF Cost
      <4>4. due[c][p] = 0
        BY <4>1, <4>3 DEF ExactInv, DueIsSpent
      <4>. QED
        BY <2>1, <4>1, <4>4
    <3>. QED
      BY <3>1, <3>2
  <2>. QED
    BY <1>1, <2>1, <2>2
<1>. HIDE DEF k
<1>. QED
  BY <1>1, <1>2, <1>3, ExactExit

LEMMA ExactWrite ==
    ASSUME TypeOK, LedgerInv, ExactInv, ~raced, NEW c \in Procs, WriteLedger(c)
    PROVE  (DueIsSpent /\ ExactNow /\ InTheLimit)'
<1>. DueIsSpent /\ ExactNow /\ InTheLimit /\ OneAtATime /\ Stamped /\ Fresh
  BY DEF ExactInv, LedgerInv
<1>1. /\ pc[c] = "write" /\ Spent(c) /\ Exit(c) /\ UNCHANGED <<now, used, lost>>
      /\ seen[c] = ledger
  BY DEF WriteLedger, Fresh, Spent
<1>2. \A o \in Procs : pc'[o] = "idle" /\ ~Spent(o)'
  BY <1>1 DEF OneAtATime, Exit, Spent, TypeOK
<1>3. DueIsSpent'
  <2>. SUFFICES ASSUME NEW o \in Procs, NEW p \in Quotas PROVE due'[o][p] = 0
    BY <1>2 DEF DueIsSpent
  <2>0. p \in Providers
    BY SpendAssumption
  <2>1. CASE o = c
    BY <1>1, <2>0, <2>1 DEF Exit, Nil, TypeOK
  <2>2. CASE o # c
    BY <1>1, <2>2 DEF Exit, OneAtATime, DueIsSpent, Spent, TypeOK
  <2>. QED
    BY <2>1, <2>2
<1>4. ASSUME NEW p \in Quotas, Current(p)'
      PROVE  Current(p) /\ Recorded(p)' = Recorded(p) + due[c][p]
  <2>0. p \in Providers
    BY SpendAssumption
  <2>1. /\ Price[p] \in Nat /\ ledger[p].n \in Nat /\ units[c][p] \in Nat
        /\ Recorded(p) \in Nat
    BY <2>0, RecordedNat DEF TypeOK
  <2>2. CASE units[c][p] = 0
    <3>1. ledger'[p] = ledger[p]
      BY <1>1, <2>0, <2>2 DEF WriteLedger
    <3>2. due[c][p] = 0
      <4>1. \A n \in Nat : n * 0 = 0
        OBVIOUS
      <4>2. Cost(units[c], p) = 0
        BY <2>1, <2>2, <4>1 DEF Cost
      <4>. QED
        BY <1>1, <4>2 DEF DueIsSpent
    <3>. QED
      BY <1>1, <1>4, <2>1, <3>1, <3>2 DEF Current, Recorded
  <2>3. CASE units[c][p] # 0
    <3>1. ledger'[p] = [n |-> ledger[p].n + units[c][p], stamp |-> Stamp(c, p)]
      BY <1>1, <2>0, <2>3 DEF WriteLedger, Applied, Stamp
    <3>2. ledger'[p] # None
      BY <2>1, <2>3, <3>1 DEF None
    <3>3. ~NewPeriod(Calendar[Stamp(c, p)], Calendar[now])
      BY <1>1, <1>4, <3>1, <3>2 DEF Current
    <3>4. Stamp(c, p) \in 1..Len(Calendar) /\ today[c] \in 1..Len(Calendar)
          /\ now \in 1..Len(Calendar) /\ Stamp(c, p) <= today[c]
      BY <1>1, <2>0, Zero DEF Stamp, Stamped, TypeOK
    <3>5. ~NewPeriod(Calendar[today[c]], Calendar[now])
      BY <3>3, <3>4, WiderDays
    <3>6. due[c][p] = Cost(units[c], p)
      BY <1>1, <3>5 DEF DueIsSpent
    <3>7. \A k, a, b \in Nat : k * (a + b) = k * a + k * b
      OBVIOUS
    <3>8. Recorded(p)' = Recorded(p) + due[c][p]
      <4>1. Recorded(p)' = Price[p] * (ledger[p].n + units[c][p])
        BY <3>1 DEF Recorded
      <4>2. Price[p] * (ledger[p].n + units[c][p])
              = Price[p] * ledger[p].n + Price[p] * units[c][p]
        BY <2>1, <3>7
      <4>. QED
        BY <3>6, <4>1, <4>2 DEF Recorded, Cost
    <3>. QED
      BY <3>3, <3>8 DEF Current, Stamp
  <2>. QED
    BY <2>2, <2>3
<1>5. ExactNow'
  <2>. SUFFICES ASSUME NEW p \in Quotas, Current(p)'
                PROVE  Recorded(p)' + lost[p] = used[p]
    BY <1>1, <1>2 DEF ExactNow
  <2>0. p \in Providers
    BY SpendAssumption
  <2>1. Recorded(p) + lost[p] + due[c][p] = used[p]
    BY <1>1, <1>4 DEF ExactNow
  <2>2. Recorded(p) \in Nat /\ lost[p] \in Nat /\ due[c][p] \in Nat
    BY <2>0, RecordedNat DEF TypeOK
  <2>3. Recorded(p)' = Recorded(p) + due[c][p]
    BY <1>4
  <2>. QED
    BY <2>1, <2>2, <2>3
<1>6. InTheLimit'
  BY <1>1, <1>2, <1>4 DEF InTheLimit, Estimated
<1>. QED
  BY <1>3, <1>5, <1>6

LEMMA ExactStep == TypeOK /\ LedgerInv /\ ExactInv /\ [Next]_vars => ExactInv'
<1>. SUFFICES ASSUME TypeOK, LedgerInv, ExactInv, [Next]_vars, ~raced'
              PROVE  (DueIsSpent /\ ExactNow /\ InTheLimit)'
  BY DEF ExactInv
<1>0. ~raced
  BY DEF Next, vars, Command, Tick, TopUp, Pass, Work, WorkUncounted, ReadActuals,
         NothingToRecord, WriteActuals, ReadLedger, WriteLedger, Abandon, TypeOK, ghosts
<1>1. CASE UNCHANGED vars
  BY <1>0, <1>1 DEF ExactInv, vars, files, procs, ghosts, DueIsSpent, ExactNow, InTheLimit,
                    Current, Recorded, Spent, Estimated, Cost
<1>2. CASE Tick
  BY <1>0, <1>2, ExactTick
<1>3. ASSUME NEW w \in Providers \ Quotas, TopUp(w)
      PROVE  (DueIsSpent /\ ExactNow /\ InTheLimit)'
  BY <1>0, <1>3, ExactTopUp
<1>4. ASSUME NEW c \in Procs, Command(c)
      PROVE  (DueIsSpent /\ ExactNow /\ InTheLimit)'
  BY <1>0, <1>4, ExactPass, ExactWork, ExactUncounted, ExactQuiet, ExactAbandon, ExactWrite
     DEF Command
<1>. QED
  BY <1>1, <1>2, <1>3, <1>4 DEF Next

LEMMA ExactInit == Init => ExactInv
<1>. SUFFICES ASSUME Init PROVE DueIsSpent /\ ExactNow /\ InTheLimit
  BY DEF ExactInv
<1>0. \A p \in Quotas : p \in Providers
  BY SpendAssumption
<1>1. DueIsSpent
  BY <1>0 DEF Init, DueIsSpent, Spent, Nil
<1>2. \A n \in Nat : n * 0 = 0
  OBVIOUS
<1>3. \A p \in Quotas : Recorded(p) = 0 /\ used[p] = 0 /\ lost[p] = 0
  BY <1>0, <1>2, Zero, SpendAssumption DEF Init, Recorded, Nil
<1>4. ExactNow
  BY <1>3 DEF Init, ExactNow
<1>5. InTheLimit
  <2>. SUFFICES ASSUME NEW p \in Quotas, Estimated(p)
                PROVE  0 <= Room(p) + Dearest(p) + 0 /\ 0 <= Room(p) + 0
    BY <1>3 DEF InTheLimit, Init
  <2>1. Room(p) \in Nat /\ Dearest(p) \in Nat
    BY <1>0, RoomIsLeft, DearestIsMost DEF Estimated
  <2>. QED
    BY <2>1
<1>. QED
  BY <1>1, <1>4, <1>5

LEMMA ExactAlways == Spec => [](TypeOK /\ LedgerInv /\ ExactInv)
<1>1. Init => LedgerInv
  BY Days DEF Init, LedgerInv, OneAtATime, Fresh, Stamped, Covered, Reserved, Spent, None
<1>. QED
  BY <1>1, ExactInit, LedgerTypes, LedgerStep, ExactStep, PTL DEF Spec

\* Until a provider's first row is out of date, nothing that commands run one
\* after the other spend escapes the reading but what never reached the
\* recorder: neither midnight within a command, nor a death before, between or
\* after the writes, nor the unused quota of a new period makes it wrong.
THEOREM LedgerIsExact == Spec => []ExactWhileCurrent
<1>1. TypeOK /\ LedgerInv /\ ExactInv => ExactWhileCurrent
  <2>. SUFFICES ASSUME TypeOK, LedgerInv, ExactInv, ~raced, Quiet, NEW p \in Quotas, Current(p)
                PROVE  Price[p] * Consumed(p) + lost[p] = used[p]
    BY DEF ExactWhileCurrent
  <2>0. p \in Providers
    BY SpendAssumption
  <2>1. Consumed(p) = ledger[p].n
    BY <2>0, CurrentCounts DEF LedgerInv, Stamped
  <2>2. \A c \in Procs : due[c][p] = 0
    BY DEF Quiet, Spent, ExactInv, DueIsSpent
  <2>3. Recorded(p) + lost[p] = used[p]
    <3>1. CASE \A c \in Procs : pc[c] = "idle"
      BY <3>1 DEF ExactInv, ExactNow
    <3>2. ASSUME NEW c \in Procs, pc[c] # "idle" PROVE Recorded(p) + lost[p] = used[p]
      <4>1. Recorded(p) + lost[p] + 0 = used[p]
        BY <2>2, <3>2 DEF ExactInv, ExactNow
      <4>2. Recorded(p) \in Nat /\ lost[p] \in Nat
        BY <2>0, RecordedNat DEF TypeOK
      <4>. QED
        BY <4>1, <4>2
    <3>. QED
      BY <3>1, <3>2
  <2>. QED
    BY <2>1, <2>3 DEF Recorded
<1>. QED
  BY <1>1, ExactAlways, PTL

-----------------------------------------------------------------------------
(* Races only forget.                                                      *)

\* The units the processes of P hold of provider p, told apart by number.
Held(P, held, p) == {x \in P \X Nat : x[2] \in 1..held[x[1]][p]}
SpentProcs == {c \in Procs : Spent(c)}
Waiting(p) == Held(SpentProcs, units, p)

LEMMA HeldSame ==
    ASSUME NEW P, NEW h, NEW g, NEW p, \A c \in P : h[c][p] = g[c][p]
    PROVE  Held(P, h, p) = Held(P, g, p)
  BY DEF Held

LEMMA HeldByOneMore ==
    ASSUME NEW P, NEW h, NEW p, NEW c, c \notin P, h[c][p] \in Nat,
           IsFiniteSet(Held(P, h, p))
    PROVE  /\ IsFiniteSet(Held(P \cup {c}, h, p))
           /\ Cardinality(Held(P \cup {c}, h, p)) = Cardinality(Held(P, h, p)) + h[c][p]
<1>. DEFINE n == h[c][p]
            own == {c} \X (1..n)
            f == [i \in 1..n |-> <<c, i>>]
<1>0. n \in Nat
  OBVIOUS
<1>. HIDE DEF n
<1>1. IsFiniteSet(1..n) /\ Cardinality(1..n) = n
  <2>1. 1 \in Int /\ n \in Int
    BY <1>0
  <2>2. IsFiniteSet(1..n)
    BY <2>1, FS_Interval
  <2>3. Cardinality(1..n) = IF 1 > n THEN 0 ELSE n - 1 + 1
    BY <2>1, FS_Interval
  <2>. QED
    BY <1>0, <2>2, <2>3
<1>2. ExistsBijection(1..n, own)
  <2>1. f \in [1..n -> own]
    OBVIOUS
  <2>2. \A i, j \in 1..n : f[i] = f[j] => i = j
    OBVIOUS
  <2>3. \A x \in own : \E i \in 1..n : f[i] = x
    OBVIOUS
  <2>. HIDE DEF f, own
  <2>4. f \in Bijection(1..n, own)
    BY <2>1, <2>2, <2>3 DEF Bijection, Injection, Surjection, IsInjective
  <2>. QED
    BY <2>4, Zenon DEF ExistsBijection
<1>3. IsFiniteSet(own) /\ Cardinality(own) = n
  BY <1>1, <1>2, FS_Bijection
<1>4. Held(P \cup {c}, h, p) = Held(P, h, p) \cup own
  BY <1>0 DEF Held, n
<1>5. Held(P, h, p) \cap own = {}
  BY DEF Held
<1>. HIDE DEF own
<1>6. Cardinality(Held(P, h, p) \cap own) = 0
  BY <1>5, FS_EmptySet
<1>7. IsFiniteSet(Held(P, h, p) \cup own)
  BY <1>3, FS_Union
<1>8. Cardinality(Held(P, h, p) \cup own)
        = Cardinality(Held(P, h, p)) + Cardinality(own) - Cardinality(Held(P, h, p) \cap own)
  BY <1>3, FS_Union
<1>9. Cardinality(Held(P, h, p)) \in Nat
  BY FS_CardinalityType
<1>10. Cardinality(Held(P, h, p) \cup own) = Cardinality(Held(P, h, p)) + n
  BY <1>0, <1>3, <1>6, <1>8, <1>9
<1>. QED
  BY <1>4, <1>7, <1>10 DEF n

\* What the processes other than c hold, and what c holds.
LEMMA HeldByOneLess ==
    ASSUME NEW P, NEW h, NEW p, NEW c \in P, h[c][p] \in Nat,
           IsFiniteSet(Held(P, h, p))
    PROVE  /\ IsFiniteSet(Held(P \ {c}, h, p))
           /\ Cardinality(Held(P, h, p)) = Cardinality(Held(P \ {c}, h, p)) + h[c][p]
<1>1. Held(P \ {c}, h, p) \in SUBSET Held(P, h, p)
  BY DEF Held
<1>2. IsFiniteSet(Held(P \ {c}, h, p))
  BY <1>1, FS_Subset
<1>3. PICK Q : Q = P \ {c}
  OBVIOUS
<1>4. Q \cup {c} = P /\ c \notin Q
  BY <1>3
<1>5. /\ IsFiniteSet(Held(Q \cup {c}, h, p))
      /\ Cardinality(Held(Q \cup {c}, h, p)) = Cardinality(Held(Q, h, p)) + h[c][p]
  <2>1. IsFiniteSet(Held(Q, h, p)) /\ c \notin Q /\ h[c][p] \in Nat
    BY <1>2, <1>3
  <2>. QED
    BY <2>1, HeldByOneMore
<1>. QED
  BY <1>2, <1>3, <1>4, <1>5

\* What is counted, or about to be by a process that has read the file, leaves
\* room for every unit still held.
NoneTwice ==
    \A p \in Providers :
        /\ IsFiniteSet(Waiting(p))
        /\ ledger[p].n + Cardinality(Waiting(p)) <= ever[p]
        /\ \A c \in Procs : pc[c] = "write" =>
              seen[c][p].n + Cardinality(Waiting(p)) <= ever[p]

\* Nothing is put by: the ledger and the copies of it stay as they are, and as
\* many units are used as are held in addition.
LEMMA NoneTwiceKept ==
    ASSUME TypeOK, TypeOK', NoneTwice, NEW p \in Providers, NEW k \in Nat,
           ledger'[p].n = ledger[p].n, IsFiniteSet(Waiting(p))',
           Cardinality(Waiting(p))' <= Cardinality(Waiting(p)) + k,
           ever'[p] >= ever[p] + k,
           \A c \in Procs : pc'[c] = "write" =>
              \/ seen'[c][p].n = ledger[p].n
              \/ pc[c] = "write" /\ seen'[c][p].n = seen[c][p].n
    PROVE  /\ IsFiniteSet(Waiting(p))'
           /\ (ledger[p].n + Cardinality(Waiting(p)) <= ever[p])'
           /\ \A c \in Procs : pc'[c] = "write" =>
                 (seen[c][p].n + Cardinality(Waiting(p)) <= ever[p])'
<1>. DEFINE w == Cardinality(Waiting(p))
            v == Cardinality(Waiting(p))'
<1>1. w \in Nat /\ v \in Nat
  <2>1. w \in Nat
    BY FS_CardinalityType DEF NoneTwice
  <2>2. PICK W : W = Waiting(p)'
    OBVIOUS
  <2>3. IsFiniteSet(W)
    BY <2>2
  <2>4. Cardinality(W) \in Nat
    BY <2>3, FS_CardinalityType
  <2>. QED
    BY <2>1, <2>2, <2>4
<1>2. ledger[p].n \in Nat /\ ever[p] \in Nat /\ ever'[p] \in Nat
      /\ \A c \in Procs : seen[c][p].n \in Nat
  <2>1. \A x \in Row \cup {None} : x.n \in Nat
    BY Zero
  <2>. QED
    BY <2>1 DEF TypeOK
<1>3. /\ ledger[p].n + w <= ever[p]
      /\ \A c \in Procs : pc[c] = "write" => seen[c][p].n + w <= ever[p]
  BY DEF NoneTwice
<1>. HIDE DEF w, v
<1>4. v <= w + k
  BY DEF w, v
<1>5. ledger'[p].n + v <= ever'[p]
  BY <1>1, <1>2, <1>3, <1>4
<1>6. ASSUME NEW c \in Procs, pc'[c] = "write" PROVE seen'[c][p].n + v <= ever'[p]
  <2>1. PICK n : n = seen'[c][p].n
    OBVIOUS
  <2>2. n = ledger[p].n \/ (pc[c] = "write" /\ n = seen[c][p].n)
    BY <1>6, <2>1
  <2>3. n \in Nat /\ n + w <= ever[p]
    BY <1>2, <1>3, <2>2
  <2>4. n + v <= ever'[p]
    BY <1>1, <1>2, <1>4, <2>3
  <2>. QED
    BY <2>1, <2>4
<1>. QED
  BY <1>5, <1>6 DEF v

LEMMA NoneTwiceStep == TypeOK /\ NoneTwice /\ [Next]_vars => NoneTwice'
<1>. SUFFICES ASSUME TypeOK, NoneTwice, [Next]_vars PROVE NoneTwice'
  OBVIOUS
<1>0. TypeOK'
  BY TypeStep
<1>. SUFFICES ASSUME NEW p \in Providers
              PROVE  /\ IsFiniteSet(Waiting(p))'
                     /\ (ledger[p].n + Cardinality(Waiting(p)) <= ever[p])'
                     /\ \A c \in Procs : pc'[c] = "write" =>
                           (seen[c][p].n + Cardinality(Waiting(p)) <= ever[p])'
  BY DEF NoneTwice
<1>1. IsFiniteSet(Waiting(p)) /\ Cardinality(Waiting(p)) \in Nat
  BY FS_CardinalityType DEF NoneTwice
<1>2. PICK P : P = SpentProcs
  OBVIOUS
<1>3. PICK h : h = units
  OBVIOUS
<1>4. Waiting(p) = Held(P, h, p)
  BY <1>2, <1>3 DEF Waiting
<1>5. ever[p] \in Nat /\ ever'[p] \in Nat
  BY <1>0 DEF TypeOK
<1>6. CASE /\ UNCHANGED <<units, ledger, ever>> /\ SpentProcs' = SpentProcs
           /\ \A c \in Procs : pc'[c] = "write" =>
                 \/ seen'[c] = ledger
                 \/ pc[c] = "write" /\ seen'[c] = seen[c]
  <2>1. Waiting(p)' = Waiting(p)
    BY <1>6 DEF Waiting
  <2>. QED
    BY <1>0, <1>1, <1>5, <1>6, <2>1, NoneTwiceKept
<1>7. CASE UNCHANGED vars
  <2>1. SpentProcs' = SpentProcs
    BY <1>7 DEF vars, procs, SpentProcs, Spent
  <2>. QED
    BY <1>6, <1>7, <2>1 DEF vars, files, procs, ghosts
<1>8. CASE Tick \/ \E q \in Providers \ Quotas : TopUp(q)
  <2>1. UNCHANGED <<procs, ledger, ever>>
    BY <1>8 DEF Tick, TopUp, files
  <2>2. SpentProcs' = SpentProcs
    BY <2>1 DEF procs, SpentProcs, Spent
  <2>. QED
    BY <1>6, <2>1, <2>2 DEF procs
<1>9. ASSUME NEW c \in Procs, Pass(c) \/ ReadActuals(c) \/ WriteActuals(c) \/ ReadLedger(c)
      PROVE  /\ IsFiniteSet(Waiting(p))'
             /\ (ledger[p].n + Cardinality(Waiting(p)) <= ever[p])'
             /\ \A o \in Procs : pc'[o] = "write" =>
                   (seen[o][p].n + Cardinality(Waiting(p)) <= ever[p])'
  <2>1. UNCHANGED <<units, ledger, ever>>
    BY <1>9 DEF Pass, ReadActuals, WriteActuals, ReadLedger, files, ghosts
  <2>2. \A o \in Procs : Spent(o)' = Spent(o)
    BY <1>9 DEF Pass, ReadActuals, WriteActuals, ReadLedger, Step, Spent, TypeOK
  <2>3. SpentProcs' = SpentProcs
    BY <2>2 DEF SpentProcs
  <2>4. \A o \in Procs : pc'[o] = "write" =>
                 \/ seen'[o] = ledger
                 \/ pc[o] = "write" /\ seen'[o] = seen[o]
    BY <1>9 DEF Pass, ReadActuals, WriteActuals, ReadLedger, Step, TypeOK
  <2>. QED
    BY <1>6, <2>1, <2>3, <2>4
<1>10. ASSUME NEW c \in Procs, Work(c)
       PROVE  /\ IsFiniteSet(Waiting(p))'
              /\ (ledger[p].n + Cardinality(Waiting(p)) <= ever[p])'
              /\ \A o \in Procs : pc'[o] = "write" =>
                    (seen[o][p].n + Cardinality(Waiting(p)) <= ever[p])'
  <2>. PICK u \in Usages :
        /\ units' = [units EXCEPT ![c] = u]
        /\ ever' = [q \in Providers |-> ever[q] + u[q]]
    BY <1>10 DEF Work
  <2>1. UNCHANGED <<ledger, seen>> /\ pc[c] = "work" /\ pc' = [pc EXCEPT ![c] = "merge"]
    BY <1>10 DEF Work, Step, files
  <2>2. PICK g : g = units'
    OBVIOUS
  <2>3. g[c][p] = u[p] /\ u[p] \in Nat /\ \A o \in P : g[o][p] = h[o][p]
    <3>1. c \notin P
      BY <1>2, <2>1 DEF SpentProcs, Spent
    <3>2. \A o \in P : o \in Procs /\ o # c
      BY <1>2, <3>1 DEF SpentProcs
    <3>. QED
      BY <1>3, <2>2, <3>2, CostTypes DEF TypeOK
  <2>4. SpentProcs' = P \cup {c} /\ c \notin P
    BY <1>2, <2>1 DEF SpentProcs, Spent, TypeOK
  <2>5. Waiting(p)' = Held(P \cup {c}, g, p)
    BY <2>2, <2>4 DEF Waiting
  <2>6. Held(P, h, p) = Held(P, g, p)
    BY <2>3, HeldSame
  <2>7. /\ IsFiniteSet(Held(P \cup {c}, g, p))
        /\ Cardinality(Held(P \cup {c}, g, p)) = Cardinality(Held(P, g, p)) + g[c][p]
    <3>1. c \notin P /\ g[c][p] \in Nat /\ IsFiniteSet(Held(P, g, p))
      BY <1>1, <1>4, <2>3, <2>4, <2>6
    <3>. QED
      BY <3>1, HeldByOneMore
  <2>8. ever'[p] = ever[p] + u[p]
    OBVIOUS
  <2>9. \A o \in Procs : pc'[o] = "write" => pc[o] = "write"
    BY <2>1 DEF TypeOK
  <2>10. /\ Cardinality(Waiting(p))' <= Cardinality(Waiting(p)) + u[p]
         /\ ever'[p] >= ever[p] + u[p] /\ IsFiniteSet(Waiting(p))'
    BY <1>1, <1>4, <1>5, <2>3, <2>5, <2>6, <2>7, <2>8
  <2>. QED
    BY <1>0, <2>1, <2>3, <2>9, <2>10, NoneTwiceKept
<1>11. ASSUME NEW c \in Procs, Exit(c)
       PROVE  /\ IsFiniteSet(Waiting(p))'
              /\ Spent(c) => Cardinality(Waiting(p)) = Cardinality(Waiting(p))' + units[c][p]
              /\ Cardinality(Waiting(p))' <= Cardinality(Waiting(p))
              /\ Cardinality(Waiting(p))' \in Nat /\ units[c][p] \in Nat
              /\ \A o \in Procs : pc'[o] = "write" => pc[o] = "write" /\ seen'[o] = seen[o]
  <2>1. PICK g : g = units'
    OBVIOUS
  <2>2. SpentProcs' = P \ {c}
    BY <1>2, <1>11 DEF SpentProcs, Spent, Exit, TypeOK
  <2>3. \A o \in P \ {c} : g[o][p] = h[o][p]
    <3>1. \A o \in P : o \in Procs
      BY <1>2 DEF SpentProcs
    <3>. QED
      BY <1>3, <1>11, <2>1, <3>1 DEF Exit, TypeOK
  <2>4. Waiting(p)' = Held(P \ {c}, g, p)
    BY <2>1, <2>2 DEF Waiting
  <2>5. Held(P \ {c}, g, p) = Held(P \ {c}, h, p)
    BY <2>3, HeldSame
  <2>6. h[c][p] \in Nat
    BY <1>3 DEF TypeOK
  <2>7. \A o \in Procs : pc'[o] = "write" => pc[o] = "write" /\ seen'[o] = seen[o]
    BY <1>11 DEF Exit, TypeOK
  <2>8. CASE c \in P
    <3>1. /\ IsFiniteSet(Held(P \ {c}, h, p))
          /\ Cardinality(Held(P, h, p)) = Cardinality(Held(P \ {c}, h, p)) + h[c][p]
      <4>1. IsFiniteSet(Held(P, h, p))
        BY <1>1, <1>4
      <4>. QED
        BY <2>6, <2>8, <4>1, HeldByOneLess
    <3>2. Cardinality(Held(P \ {c}, h, p)) \in Nat
      BY <3>1, FS_CardinalityType
    <3>. QED
      BY <1>1, <1>3, <1>4, <2>4, <2>5, <2>6, <2>7, <3>1, <3>2
  <2>9. CASE c \notin P
    <3>1. P \ {c} = P /\ ~Spent(c)
      BY <1>2, <2>9 DEF SpentProcs
    <3>2. Waiting(p)' = Waiting(p)
      BY <1>4, <2>4, <2>5, <3>1
    <3>. QED
      BY <1>1, <1>3, <2>6, <2>7, <3>1, <3>2
  <2>. QED
    BY <2>8, <2>9
<1>12. ASSUME NEW c \in Procs, WorkUncounted(c) \/ NothingToRecord(c) \/ Abandon(c)
       PROVE  /\ IsFiniteSet(Waiting(p))'
              /\ (ledger[p].n + Cardinality(Waiting(p)) <= ever[p])'
              /\ \A o \in Procs : pc'[o] = "write" =>
                    (seen[o][p].n + Cardinality(Waiting(p)) <= ever[p])'
  <2>1. Exit(c) /\ UNCHANGED ledger
    BY <1>12 DEF WorkUncounted, NothingToRecord, Abandon, files
  <2>2. ever'[p] >= ever[p]
    <3>1. CASE WorkUncounted(c)
      <4>1. PICK u \in Usages : ever' = [q \in Providers |-> ever[q] + u[q]]
        BY <3>1 DEF WorkUncounted
      <4>2. u[p] \in Nat
        BY CostTypes
      <4>. QED
        BY <1>5, <4>1, <4>2
    <3>2. CASE ~WorkUncounted(c)
      BY <1>5, <1>12, <3>2 DEF NothingToRecord, Abandon
    <3>. QED
      BY <3>1, <3>2
  <2>3. /\ Cardinality(Waiting(p))' <= Cardinality(Waiting(p)) + 0
        /\ ever'[p] >= ever[p] + 0 /\ IsFiniteSet(Waiting(p))'
    BY <1>1, <1>5, <1>11, <2>1, <2>2
  <2>. QED
    BY <1>0, <1>11, <2>1, <2>3, NoneTwiceKept
<1>13. ASSUME NEW c \in Procs, WriteLedger(c)
       PROVE  /\ IsFiniteSet(Waiting(p))'
              /\ (ledger[p].n + Cardinality(Waiting(p)) <= ever[p])'
              /\ \A o \in Procs : pc'[o] = "write" =>
                    (seen[o][p].n + Cardinality(Waiting(p)) <= ever[p])'
  <2>1. Exit(c) /\ pc[c] = "write" /\ Spent(c) /\ ever' = ever
    BY <1>13 DEF WriteLedger, Spent
  <2>. DEFINE w == Cardinality(Waiting(p))
              v == Cardinality(Waiting(p))'
  <2>2. /\ IsFiniteSet(Waiting(p))' /\ w = v + units[c][p]
        /\ v \in Nat /\ units[c][p] \in Nat
        /\ \A o \in Procs : pc'[o] = "write" => pc[o] = "write" /\ seen'[o] = seen[o]
    BY <1>11, <2>1
  <2>3. \A o \in Procs : pc[o] = "write" => seen[o][p].n + w <= ever[p]
    BY DEF NoneTwice
  <2>4. \A o \in Procs : seen[o][p].n \in Nat
    BY Zero DEF TypeOK
  <2>5. ledger'[p].n = seen[c][p].n \/ ledger'[p].n = seen[c][p].n + units[c][p]
    BY <1>13 DEF WriteLedger, Applied
  <2>. HIDE DEF w, v
  <2>6. ledger'[p].n + v <= ever'[p]
    BY <1>5, <2>1, <2>2, <2>3, <2>4, <2>5
  <2>7. \A o \in Procs : pc'[o] = "write" => seen'[o][p].n + v <= ever'[p]
    BY <1>5, <2>1, <2>2, <2>3, <2>4
  <2>. QED
    BY <2>2, <2>6, <2>7 DEF v
<1>. QED
  BY <1>7, <1>8, <1>9, <1>10, <1>12, <1>13 DEF Next, Command

LEMMA NoneTwiceInit == Init => NoneTwice
<1>. SUFFICES ASSUME Init PROVE NoneTwice
  OBVIOUS
<1>1. SpentProcs = {}
  BY DEF Init, SpentProcs, Spent
<1>2. ASSUME NEW p \in Providers PROVE Waiting(p) = {}
  BY <1>1 DEF Waiting, Held
<1>3. IsFiniteSet({}) /\ Cardinality({}) = 0
  BY FS_EmptySet
<1>4. \A p \in Providers : ledger[p].n = 0 /\ ever[p] = 0
  BY Zero DEF Init, Nil
<1>5. \A c \in Procs : pc[c] # "write"
  BY DEF Init
<1>. QED
  BY <1>2, <1>3, <1>4, <1>5 DEF NoneTwice

-----------------------------------------------------------------------------
(* In the actuals.                                                         *)

\* f adds up the days of A, as SumUpTo does.
Adds(f, A, n) ==
    /\ f \in [0..n -> [Providers -> Nat]]
    /\ f[0] = Nil
    /\ \A i \in 1..n : f[i] = [p \in Providers |-> f[i-1][p] + A[i][p]]

LEMMA SumExists ==
    ASSUME NEW n \in Nat, NEW A \in [1..n -> [Providers -> Nat]]
    PROVE  \E f : Adds(f, A, n)
<1>. DEFINE S == {m \in 0..n : \E f : Adds(f, A, m)}
<1>1. 0 \in S
  <2>. DEFINE f == [i \in 0..0 |-> Nil]
  <2>1. Nil \in [Providers -> Nat]
    BY DEF Nil
  <2>2. f \in [0..0 -> [Providers -> Nat]] /\ f[0] = Nil
    BY <2>1
  <2>. HIDE DEF f
  <2>3. Adds(f, A, 0)
    BY <2>2 DEF Adds
  <2>. QED
    BY <2>3
<1>2. ASSUME NEW i \in 1..n, i - 1 \in S PROVE i \in S
  <2>. PICK f : Adds(f, A, i - 1)
    BY <1>2
  <2>1. /\ f \in [0..(i-1) -> [Providers -> Nat]] /\ f[0] = Nil
        /\ \A j \in 1..(i-1) : f[j] = [p \in Providers |-> f[j-1][p] + A[j][p]]
    BY DEF Adds
  <2>. DEFINE last == [p \in Providers |-> f[i-1][p] + A[i][p]]
              g == [j \in 0..i |-> IF j = i THEN last ELSE f[j]]
  <2>2. last \in [Providers -> Nat]
    <3>1. f[i-1] \in [Providers -> Nat] /\ A[i] \in [Providers -> Nat]
      BY <2>1
    <3>. QED
      BY <3>1
  <2>. HIDE DEF last
  <2>3. g \in [0..i -> [Providers -> Nat]]
    BY <2>1, <2>2
  <2>4. g[0] = Nil
    BY <2>1
  <2>5. ASSUME NEW j \in 1..i PROVE g[j] = [p \in Providers |-> g[j-1][p] + A[j][p]]
    <3>1. CASE j = i
      <4>1. g[j] = last /\ g[j-1] = f[i-1]
        BY <3>1
      <4>. QED
        BY <3>1, <4>1 DEF last
    <3>2. CASE j # i
      <4>1. j \in 1..(i-1) /\ g[j] = f[j] /\ g[j-1] = f[j-1]
        BY <3>2
      <4>. QED
        BY <2>1, <4>1
    <3>. QED
      BY <3>1, <3>2
  <2>. HIDE DEF g
  <2>6. Adds(g, A, i)
    BY <2>3, <2>4, <2>5 DEF Adds
  <2>. QED
    BY <2>6
<1>. HIDE DEF S
<1>3. 0..n \subseteq S
  BY <1>1, <1>2, UpTo
<1>. QED
  BY <1>3 DEF S

LEMMA SumAdds == TypeOK => Adds(SumUpTo, actuals, Len(Calendar))
<1>. SUFFICES ASSUME TypeOK PROVE Adds(SumUpTo, actuals, Len(Calendar))
  OBVIOUS
<1>. DEFINE N == Len(Calendar)
<1>1. N \in Nat /\ actuals \in [1..N -> [Providers -> Nat]]
  BY Days DEF TypeOK
<1>2. PICK A : A = actuals
  OBVIOUS
<1>3. PICK f : Adds(f, A, N)
  BY <1>1, <1>2, SumExists
<1>4. f = [i \in 0..N |-> IF i = 0 THEN Nil
                          ELSE [p \in Providers |-> f[i-1][p] + actuals[i][p]]]
  <2>. DEFINE G(i) == IF i = 0 THEN Nil
                      ELSE [p \in Providers |-> f[i-1][p] + actuals[i][p]]
  <2>1. ASSUME NEW i \in 0..N PROVE f[i] = G(i)
    <3>1. CASE i = 0
      BY <1>3, <3>1 DEF Adds
    <3>2. CASE i # 0
      <4>1. i \in 1..N
        BY <1>1, <3>2
      <4>. QED
        BY <1>2, <1>3, <3>2, <4>1 DEF Adds
    <3>. QED
      BY <3>1, <3>2
  <2>2. f = [i \in 0..N |-> f[i]]
    BY <1>3 DEF Adds
  <2>. HIDE DEF G
  <2>3. f = [i \in 0..N |-> G(i)]
    BY <2>1, <2>2
  <2>. QED
    BY <2>3 DEF G
<1>5. SumUpTo = [i \in 0..N |-> IF i = 0 THEN Nil
                            ELSE [p \in Providers |-> SumUpTo[i-1][p] + actuals[i][p]]]
  BY <1>4 DEF SumUpTo
<1>6. SumUpTo[0] = Nil
  BY <1>1, <1>5
<1>7. ASSUME NEW i \in 1..N
      PROVE  SumUpTo[i] = [p \in Providers |-> SumUpTo[i-1][p] + actuals[i][p]]
  <2>. DEFINE G(j) == IF j = 0 THEN Nil
                      ELSE [p \in Providers |-> SumUpTo[j-1][p] + actuals[j][p]]
  <2>1. i \in 0..N /\ i # 0
    BY <1>1
  <2>2. SumUpTo = [j \in 0..N |-> G(j)]
    BY <1>5
  <2>. HIDE DEF G
  <2>3. SumUpTo[i] = G(i)
    BY <2>1, <2>2
  <2>. QED
    BY <2>1, <2>3 DEF G
<1>. DEFINE S == {i \in 0..N : SumUpTo[i] \in [Providers -> Nat]}
<1>8. 0 \in S
  BY <1>1, <1>6 DEF Nil
<1>9. ASSUME NEW i \in 1..N, i - 1 \in S PROVE i \in S
  <2>1. SumUpTo[i-1] \in [Providers -> Nat] /\ actuals[i] \in [Providers -> Nat]
    BY <1>1, <1>9
  <2>2. [p \in Providers |-> SumUpTo[i-1][p] + actuals[i][p]] \in [Providers -> Nat]
    BY <2>1
  <2>3. SumUpTo[i] \in [Providers -> Nat]
    BY <1>7, <2>2
  <2>. QED
    BY <1>1, <2>3
<1>. HIDE DEF S
<1>10. 0..N \subseteq S
  BY <1>1, <1>8, <1>9, UpTo
<1>11. \A i \in 0..N : SumUpTo[i] \in [Providers -> Nat]
  BY <1>10 DEF S
<1>12. SumUpTo \in [0..N -> [Providers -> Nat]]
  BY <1>5, <1>11
<1>. QED
  BY <1>6, <1>7, <1>12 DEF Adds

\* A day's actuals go up by u: so does the sum.
Plus(a, u) == [p \in Providers |-> a[p] + u[p]]
Raised(A, d, u) == [A EXCEPT ![d] = Plus(A[d], u)]

LEMMA SumGrows ==
    ASSUME NEW n \in Nat, NEW A \in [1..n -> [Providers -> Nat]],
           NEW u \in [Providers -> Nat], NEW d \in 1..n,
           NEW f, NEW g, Adds(f, A, n), Adds(g, Raised(A, d, u), n)
    PROVE  g[n] = Plus(f[n], u)
<1>0. PICK B : B = Raised(A, d, u)
  OBVIOUS
<1>. B = [A EXCEPT ![d] = [p \in Providers |-> A[d][p] + u[p]]] /\ Adds(g, B, n)
  BY <1>0 DEF Raised, Plus
<1>. DEFINE S == {i \in 0..n : g[i] = IF i < d THEN f[i] ELSE [p \in Providers |-> f[i][p] + u[p]]}
<1>1. /\ f \in [0..n -> [Providers -> Nat]] /\ g \in [0..n -> [Providers -> Nat]]
      /\ f[0] = Nil /\ g[0] = Nil
      /\ \A i \in 1..n : f[i] = [p \in Providers |-> f[i-1][p] + A[i][p]]
      /\ \A i \in 1..n : g[i] = [p \in Providers |-> g[i-1][p] + B[i][p]]
  BY DEF Adds
<1>2. 0 \in S
  BY <1>1
<1>3. ASSUME NEW i \in 1..n, i - 1 \in S PROVE i \in S
  <2>1. g[i-1] = IF i - 1 < d THEN f[i-1] ELSE [p \in Providers |-> f[i-1][p] + u[p]]
    BY <1>3
  <2>2. \A p \in Providers : f[i-1][p] \in Nat /\ A[i][p] \in Nat /\ u[p] \in Nat
    BY <1>1
  <2>0. /\ f[i] = [p \in Providers |-> f[i-1][p] + A[i][p]]
        /\ g[i] = [p \in Providers |-> g[i-1][p] + B[i][p]]
        /\ i \in 0..n
    BY <1>1
  <2>3. CASE i < d
    <3>1. g[i-1] = f[i-1] /\ B[i] = A[i]
      BY <2>1, <2>3
    <3>2. g[i] = f[i]
      BY <2>0, <3>1
    <3>. QED
      BY <2>0, <2>3, <3>2
  <2>4. CASE i = d
    <3>1. g[i-1] = f[i-1] /\ B[i] = [p \in Providers |-> A[i][p] + u[p]]
      BY <2>1, <2>4
    <3>2. g[i] = [p \in Providers |-> f[i-1][p] + (A[i][p] + u[p])]
      BY <2>0, <3>1
    <3>3. f[i] = [p \in Providers |-> f[i-1][p] + A[i][p]]
      BY <2>0
    <3>4. g[i] = [p \in Providers |-> f[i][p] + u[p]]
      BY <2>2, <3>2, <3>3
    <3>. QED
      BY <2>0, <2>4, <3>4
  <2>5. CASE i > d
    <3>1. g[i-1] = [p \in Providers |-> f[i-1][p] + u[p]] /\ B[i] = A[i]
      BY <2>1, <2>5
    <3>2. g[i] = [p \in Providers |-> (f[i-1][p] + u[p]) + A[i][p]]
      BY <2>0, <3>1
    <3>3. f[i] = [p \in Providers |-> f[i-1][p] + A[i][p]]
      BY <2>0
    <3>4. g[i] = [p \in Providers |-> f[i][p] + u[p]]
      BY <2>2, <3>2, <3>3
    <3>. QED
      BY <2>0, <2>5, <3>4
  <2>. QED
    BY <2>3, <2>4, <2>5
<1>. HIDE DEF S
<1>4. 0..n \subseteq S
  BY <1>2, <1>3, UpTo
<1>5. n \in S /\ ~(n < d)
  BY <1>4
<1>. QED
  BY <1>5 DEF S, Plus

\* The actuals, or what is to be written over them, hold all that the ledger
\* counts or is about to.
Total(p) == SumUpTo[Len(Calendar)][p]
InActuals ==
    /\ \A c \in Procs : pc[c] = "merging" =>
          \A p \in Providers : seen[c][p].n = actuals[today[c]][p]
    /\ \A p \in Providers : ledger[p].n <= Total(p)
    /\ \A c \in Procs : pc[c] \in {"read", "write"} =>
          \A p \in Providers : ledger[p].n + units[c][p] <= Total(p)
ActualsInv == ~raced => InActuals

LEMMA ActualsStep == TypeOK /\ LedgerInv /\ ActualsInv /\ [Next]_vars => ActualsInv'
<1>. SUFFICES ASSUME TypeOK, LedgerInv, ActualsInv, [Next]_vars, ~raced'
              PROVE  InActuals'
  BY DEF ActualsInv
<1>0. ~raced
  BY DEF Next, vars, Command, Tick, TopUp, Pass, Work, WorkUncounted, ReadActuals,
         NothingToRecord, WriteActuals, ReadLedger, WriteLedger, Abandon, TypeOK, ghosts
<1>. InActuals /\ OneAtATime /\ Fresh
  BY <1>0 DEF ActualsInv, LedgerInv
<1>1. TypeOK'
  BY TypeStep
<1>2. \A p \in Providers : actuals' = actuals => Total(p)' = Total(p)
  BY DEF Total, SumUpTo
<1>3. CASE UNCHANGED vars \/ Tick \/ \E w \in Providers \ Quotas : TopUp(w)
  <2>1. UNCHANGED <<ledger, actuals, pc, today, units, seen>>
    BY <1>3 DEF vars, Tick, TopUp, files, procs
  <2>. QED
    BY <1>2, <2>1 DEF InActuals
<1>4. ASSUME NEW c \in Procs, Pass(c) PROVE InActuals'
  <2>1. /\ UNCHANGED <<ledger, actuals, units, seen>>
        /\ pc' = [pc EXCEPT ![c] = "work"] /\ today' = [today EXCEPT ![c] = now]
    BY <1>4 DEF Pass, Step, files
  <2>. QED
    BY <1>2, <2>1 DEF InActuals, TypeOK
<1>5. ASSUME NEW c \in Procs, Work(c) PROVE InActuals'
  <2>1. /\ UNCHANGED <<ledger, actuals, today, seen>>
        /\ pc' = [pc EXCEPT ![c] = "merge"]
        /\ \A o \in Procs \ {c} : units'[o] = units[o]
    BY <1>5 DEF Work, Step, files, TypeOK
  <2>. QED
    BY <1>2, <2>1 DEF InActuals, TypeOK
<1>6. ASSUME NEW c \in Procs, WorkUncounted(c) \/ NothingToRecord(c) \/ Abandon(c)
      PROVE  InActuals'
  <2>1. Exit(c) /\ UNCHANGED <<ledger, actuals>> /\ pc[c] # "idle"
    BY <1>6 DEF WorkUncounted, NothingToRecord, Abandon, files
  <2>2. \A o \in Procs : pc'[o] = "idle"
    BY <2>1 DEF Exit, OneAtATime, TypeOK
  <2>. QED
    BY <1>2, <2>1, <2>2 DEF InActuals
<1>7. ASSUME NEW c \in Procs, ReadActuals(c) PROVE InActuals'
  <2>1. /\ UNCHANGED <<ledger, actuals, today, units>>
        /\ pc' = [pc EXCEPT ![c] = "merging"]
        /\ \A o \in Procs \ {c} : seen'[o] = seen[o]
        /\ \A p \in Providers : seen'[c][p].n = actuals[today[c]][p]
    BY <1>7 DEF ReadActuals, Step, files, TypeOK
  <2>. QED
    BY <1>2, <2>1 DEF InActuals, TypeOK
<1>8. ASSUME NEW c \in Procs, WriteActuals(c) PROVE InActuals'
  <2>1. /\ UNCHANGED <<ledger, today, units>>
        /\ pc[c] = "merging" /\ pc' = [pc EXCEPT ![c] = "read"]
        /\ actuals' = [actuals EXCEPT ![today[c]] = Merged(seen[c], units[c])]
    BY <1>8 DEF WriteActuals, Step
  <2>2. PICK d, u, A, f, g : /\ d = today[c] /\ u = units[c] /\ A = actuals
                             /\ f = SumUpTo /\ g = SumUpTo'
    OBVIOUS
  <2>3. PICK B : B = actuals'
    OBVIOUS
  <2>4. PICK n : n = Len(Calendar)
    OBVIOUS
  <2>5. /\ n \in Nat /\ d \in 1..n /\ u \in [Providers -> Nat]
        /\ A \in [1..n -> [Providers -> Nat]]
    BY <2>2, <2>4, Days DEF TypeOK
  <2>6. B = Raised(A, d, u)
    <3>1. Merged(seen[c], units[c]) = Plus(A[d], u)
      BY <2>1, <2>2 DEF InActuals, Merged, Plus
    <3>. QED
      BY <2>1, <2>2, <2>3, <3>1 DEF Raised
  <2>7. Adds(f, A, n)
    BY <2>2, <2>4, SumAdds
  <2>8. Adds(g, B, n)
    <3>1. Adds(SumUpTo, actuals, Len(Calendar))'
      BY <1>1, SumAdds, PTL
    <3>. QED
      BY <2>2, <2>3, <2>4, <3>1
  <2>9. g[n] = Plus(f[n], u)
    <3>1. Adds(g, Raised(A, d, u), n)
      BY <2>6, <2>8
    <3>. QED
      BY <2>5, <2>7, <3>1, SumGrows
  <2>10. \A p \in Providers : Total(p)' = Total(p) + units[c][p]
    BY <2>2, <2>4, <2>9 DEF Total, Plus
  <2>11. \A p \in Providers : Total(p) \in Nat
    BY <2>2, <2>4, <2>5, <2>7 DEF Total, Adds
  <2>12. \A p \in Providers : ledger[p].n \in Nat /\ units[c][p] \in Nat
    BY RecordedNat DEF TypeOK
  <2>13. \A p \in Providers : ledger'[p].n <= Total(p)' /\ ledger'[p].n + units'[c][p] <= Total(p)'
    <3>. SUFFICES ASSUME NEW p \in Providers
                  PROVE  ledger[p].n <= Total(p)' /\ ledger[p].n + units[c][p] <= Total(p)'
      BY <2>1
    <3>1. ledger[p].n <= Total(p)
      BY DEF InActuals
    <3>. QED
      BY <2>10, <2>11, <2>12, <3>1
  <2>14. \A o \in Procs \ {c} : pc'[o] = "idle"
    BY <2>1 DEF OneAtATime, TypeOK
  <2>15. pc'[c] = "read"
    BY <2>1 DEF TypeOK
  <2>. QED
    BY <2>13, <2>14, <2>15 DEF InActuals
<1>9. ASSUME NEW c \in Procs, ReadLedger(c) PROVE InActuals'
  <2>1. /\ UNCHANGED <<ledger, actuals, today, units>>
        /\ pc[c] = "read" /\ pc' = [pc EXCEPT ![c] = "write"]
        /\ \A o \in Procs \ {c} : seen'[o] = seen[o]
    BY <1>9 DEF ReadLedger, Step, files, TypeOK
  <2>. QED
    BY <1>2, <2>1 DEF InActuals, TypeOK
<1>10. ASSUME NEW c \in Procs, WriteLedger(c) PROVE InActuals'
  <2>1. UNCHANGED actuals /\ Exit(c) /\ pc[c] = "write" /\ seen[c] = ledger
    BY <1>10 DEF WriteLedger, Fresh
  <2>2. \A o \in Procs : pc'[o] = "idle"
    BY <2>1 DEF Exit, OneAtATime, TypeOK
  <2>3. \A p \in Providers : ledger'[p].n \in {ledger[p].n, ledger[p].n + units[c][p]}
    BY <1>10, <2>1 DEF WriteLedger, Applied
  <2>4. \A p \in Providers : ledger'[p].n <= Total(p)
    BY <2>1, <2>3 DEF InActuals
  <2>. QED
    BY <1>2, <2>1, <2>2, <2>4 DEF InActuals
<1>. QED
  BY <1>3, <1>4, <1>5, <1>6, <1>7, <1>8, <1>9, <1>10 DEF Next, Command

LEMMA ActualsInit == Init => ActualsInv
<1>. SUFFICES ASSUME Init PROVE InActuals
  BY DEF ActualsInv
<1>0. TypeOK
  <2>1. Nil \in [Providers -> Nat] /\ 1 \in 1..Len(Calendar)
    BY Days DEF Nil
  <2>2. 0 \in 0..MaxCommands /\ 0 \in 0..MaxTopUps
    BY SpendAssumption
  <2>. QED
    BY <2>1, <2>2 DEF Init, TypeOK, PCs
<1>1. Adds(SumUpTo, actuals, Len(Calendar)) /\ Len(Calendar) \in Nat
  BY <1>0, SumAdds, Days
<1>2. \A p \in Providers : Total(p) \in Nat
  <2>1. \A i \in Nat : i \in 0..i
    OBVIOUS
  <2>2. SumUpTo \in [0..Len(Calendar) -> [Providers -> Nat]]
    BY <1>1 DEF Adds
  <2>3. SumUpTo[Len(Calendar)] \in [Providers -> Nat]
    BY <1>1, <2>1, <2>2
  <2>. QED
    BY <2>3 DEF Total
<1>3. \A p \in Providers : ledger[p].n = 0
  BY Zero DEF Init
<1>. QED
  BY <1>2, <1>3 DEF Init, InActuals

\* Whatever commands do to each other's counts, no unit is counted twice; and
\* while they run one after the other, whatever the ledger counts is in the
\* actuals, wherever a recorder was killed, and the gate lets a quota be
\* overdrawn by no more than one command's use beyond its estimate.
THEOREM LedgerAlwaysBacked == Spec => []LedgerIsBacked
<1>1. TypeOK /\ NoneTwice => RacesOnlyForget
  <2>. SUFFICES ASSUME TypeOK, NoneTwice, NEW p \in Providers PROVE ledger[p].n <= ever[p]
    BY DEF RacesOnlyForget
  <2>1. ledger[p].n + Cardinality(Waiting(p)) <= ever[p]
    BY DEF NoneTwice
  <2>2. Cardinality(Waiting(p)) \in Nat
    BY FS_CardinalityType DEF NoneTwice
  <2>3. ledger[p].n \in Nat /\ ever[p] \in Nat
    BY RecordedNat DEF TypeOK
  <2>. QED
    BY <2>1, <2>2, <2>3
<1>2. ActualsInv => LedgerIsInActuals
  BY DEF ActualsInv, InActuals, LedgerIsInActuals, Total
<1>3. ExactInv => OverdraftIsBounded
  BY DEF ExactInv, InTheLimit, Estimated, Dearest, OverdraftIsBounded
<1>4. TypeOK /\ NoneTwice /\ ActualsInv /\ ExactInv => LedgerIsBacked
  BY <1>1, <1>2, <1>3 DEF LedgerIsBacked
<1>. QED
  BY <1>4, ExactAlways, NoneTwiceInit, NoneTwiceStep, ActualsInit, ActualsStep, PTL DEF Spec

-----------------------------------------------------------------------------
(* The waits.                                                              *)

\* f adds up the numbers of a.
AddsUp(f, a, n) ==
    f \in [0..n -> Nat] /\ f[0] = 0 /\ \A i \in 1..n : f[i] = f[i - 1] + a[i]

LEMMA AddsUpExists ==
    ASSUME NEW n \in Nat, NEW a, \A i \in 1..n : a[i] \in Nat
    PROVE  \E f : AddsUp(f, a, n)
<1>. DEFINE S == {m \in 0..n : \E f : AddsUp(f, a, m)}
<1>1. 0 \in S
  <2>. DEFINE f == [i \in 0..0 |-> 0]
  <2>1. AddsUp(f, a, 0)
    BY DEF AddsUp
  <2>. QED
    BY <2>1
<1>2. ASSUME NEW i \in 1..n, i - 1 \in S PROVE i \in S
  <2>. PICK f : AddsUp(f, a, i - 1)
    BY <1>2
  <2>1. /\ f \in [0..(i-1) -> Nat] /\ f[0] = 0
        /\ \A j \in 1..(i-1) : f[j] = f[j-1] + a[j]
    BY DEF AddsUp
  <2>. DEFINE g == [j \in 0..i |-> IF j = i THEN f[i-1] + a[i] ELSE f[j]]
  <2>2. f[i-1] + a[i] \in Nat
    BY <2>1
  <2>3. g \in [0..i -> Nat]
    BY <2>1, <2>2
  <2>4. g[0] = 0
    BY <2>1
  <2>5. ASSUME NEW j \in 1..i PROVE g[j] = g[j-1] + a[j]
    <3>1. CASE j = i
      BY <3>1
    <3>2. CASE j # i
      <4>1. j \in 1..(i-1) /\ g[j] = f[j] /\ g[j-1] = f[j-1]
        BY <3>2
      <4>. QED
        BY <2>1, <4>1
    <3>. QED
      BY <3>1, <3>2
  <2>. HIDE DEF g
  <2>6. AddsUp(g, a, i)
    BY <2>3, <2>4, <2>5 DEF AddsUp
  <2>. QED
    BY <2>6
<1>. HIDE DEF S
<1>3. 0..n \subseteq S
  BY <1>1, <1>2, UpTo
<1>. QED
  BY <1>3 DEF S

LEMMA Schedule ==
    /\ Len(Backoff) \in Nat /\ InnerAttempts = Len(Backoff) + 1
    /\ \A i \in 1..Len(Backoff) : Backoff[i] \in Nat
  BY LlmAssumption

LEMMA WaitsAddUp == AddsUp(Waits, Backoff, Len(Backoff))
<1>. DEFINE N == Len(Backoff)
<1>1. N \in Nat /\ \A i \in 1..N : Backoff[i] \in Nat
  BY Schedule
<1>2. PICK f : AddsUp(f, Backoff, N)
  BY <1>1, AddsUpExists
<1>3. f = [i \in 0..N |-> IF i = 0 THEN 0 ELSE f[i-1] + Backoff[i]]
  <2>. DEFINE G(i) == IF i = 0 THEN 0 ELSE f[i-1] + Backoff[i]
  <2>1. ASSUME NEW i \in 0..N PROVE f[i] = G(i)
    <3>1. CASE i = 0
      BY <1>2, <3>1 DEF AddsUp
    <3>2. CASE i # 0
      <4>1. i \in 1..N
        BY <1>1, <3>2
      <4>. QED
        BY <1>2, <3>2, <4>1 DEF AddsUp
    <3>. QED
      BY <3>1, <3>2
  <2>2. f = [i \in 0..N |-> f[i]]
    BY <1>2 DEF AddsUp
  <2>. HIDE DEF G
  <2>3. f = [i \in 0..N |-> G(i)]
    BY <2>1, <2>2
  <2>. QED
    BY <2>3 DEF G
<1>. DEFINE H(j) == IF j = 0 THEN 0 ELSE Waits[j-1] + Backoff[j]
<1>4. Waits = [j \in 0..N |-> H(j)]
  BY <1>3 DEF Waits
<1>. HIDE DEF H
<1>5. \A i \in 0..N : Waits[i] = H(i)
  BY <1>4
<1>6. Waits[0] = 0
  BY <1>1, <1>5 DEF H
<1>7. ASSUME NEW i \in 1..N PROVE Waits[i] = Waits[i-1] + Backoff[i]
  <2>1. i \in 0..N /\ i # 0
    BY <1>1
  <2>. QED
    BY <1>5, <2>1 DEF H
<1>. DEFINE S == {i \in 0..N : Waits[i] \in Nat}
<1>8. 0 \in S
  BY <1>1, <1>6
<1>9. ASSUME NEW i \in 1..N, i - 1 \in S PROVE i \in S
  BY <1>1, <1>7, <1>9
<1>. HIDE DEF S
<1>10. 0..N \subseteq S
  BY <1>1, <1>8, <1>9, UpTo
<1>11. \A i \in 0..N : Waits[i] \in Nat
  BY <1>10 DEF S
<1>12. Waits \in [0..N -> Nat]
  BY <1>4, <1>11
<1>. QED
  BY <1>6, <1>7, <1>12 DEF AddsUp

LEMMA WaitsGrow ==
    ASSUME NEW i \in 0..Len(Backoff)
    PROVE  Waits[i] \in Nat /\ Waits[i] <= Waits[Len(Backoff)] /\ Waits[Len(Backoff)] \in Nat
<1>. DEFINE N == Len(Backoff)
            S == {k \in 0..N : Waits[N - k] <= Waits[N]}
<1>1. N \in Nat /\ \A j \in 1..N : Backoff[j] \in Nat
  BY Schedule
<1>2. /\ \A j \in 0..N : Waits[j] \in Nat
      /\ \A j \in 1..N : Waits[j] = Waits[j-1] + Backoff[j]
  BY WaitsAddUp DEF AddsUp
<1>3. 0 \in S
  BY <1>1, <1>2
<1>4. ASSUME NEW k \in 1..N, k - 1 \in S PROVE k \in S
  <2>1. N - (k - 1) \in 1..N /\ (N - (k - 1)) - 1 = N - k /\ N - k \in 0..N /\ k \in 0..N
    BY <1>1
  <2>2. Waits[N - (k - 1)] = Waits[N - k] + Backoff[N - (k - 1)]
    BY <1>2, <2>1
  <2>3. Waits[N - (k - 1)] <= Waits[N]
    BY <1>4
  <2>4. /\ Waits[N - k] \in Nat /\ Waits[N] \in Nat /\ Waits[N - (k - 1)] \in Nat
        /\ Backoff[N - (k - 1)] \in Nat
    BY <1>1, <1>2, <2>1
  <2>5. Waits[N - k] <= Waits[N]
    BY <2>2, <2>3, <2>4
  <2>. QED
    BY <2>1, <2>5
<1>. HIDE DEF S
<1>5. 0..N \subseteq S
  BY <1>1, <1>3, <1>4, UpTo
<1>6. N - i \in S /\ N - (N - i) = i
  BY <1>1, <1>5
<1>. QED
  BY <1>1, <1>2, <1>6 DEF S

-----------------------------------------------------------------------------
(* The pauses of the outer loop.                                           *)

Doubles(f, n) ==
    f \in [0..n -> Nat] /\ f[0] = 1 /\ \A i \in 1..n : f[i] = 2 * f[i - 1]

LEMMA DoublesExists ==
    ASSUME NEW n \in Nat
    PROVE  \E f : Doubles(f, n)
<1>. DEFINE S == {m \in 0..n : \E f : Doubles(f, m)}
<1>1. 0 \in S
  <2>. DEFINE f == [i \in 0..0 |-> 1]
  <2>1. Doubles(f, 0)
    BY DEF Doubles
  <2>. QED
    BY <2>1
<1>2. ASSUME NEW i \in 1..n, i - 1 \in S PROVE i \in S
  <2>. PICK f : Doubles(f, i - 1)
    BY <1>2
  <2>1. /\ f \in [0..(i-1) -> Nat] /\ f[0] = 1
        /\ \A j \in 1..(i-1) : f[j] = 2 * f[j-1]
    BY DEF Doubles
  <2>. DEFINE g == [j \in 0..i |-> IF j = i THEN 2 * f[i-1] ELSE f[j]]
  <2>2. 2 * f[i-1] \in Nat
    BY <2>1
  <2>3. g \in [0..i -> Nat]
    BY <2>1, <2>2
  <2>4. g[0] = 1
    BY <2>1
  <2>5. ASSUME NEW j \in 1..i PROVE g[j] = 2 * g[j-1]
    <3>1. CASE j = i
      BY <3>1
    <3>2. CASE j # i
      <4>1. j \in 1..(i-1) /\ g[j] = f[j] /\ g[j-1] = f[j-1]
        BY <3>2
      <4>. QED
        BY <2>1, <4>1
    <3>. QED
      BY <3>1, <3>2
  <2>. HIDE DEF g
  <2>6. Doubles(g, i)
    BY <2>3, <2>4, <2>5 DEF Doubles
  <2>. QED
    BY <2>6
<1>. HIDE DEF S
<1>3. 0..n \subseteq S
  BY <1>1, <1>2, UpTo
<1>. QED
  BY <1>3 DEF S

LEMMA PauseIsNumber == \A i \in 0..Attempts : Pause[i] \in Nat
<1>. DEFINE N == Attempts
<1>1. N \in Nat
  BY LlmAssumption
<1>2. PICK f : Doubles(f, N)
  BY <1>1, DoublesExists
<1>3. f = [i \in 0..N |-> IF i = 0 THEN 1 ELSE 2 * f[i-1]]
  <2>. DEFINE G(i) == IF i = 0 THEN 1 ELSE 2 * f[i-1]
  <2>1. ASSUME NEW i \in 0..N PROVE f[i] = G(i)
    <3>1. CASE i = 0
      BY <1>2, <3>1 DEF Doubles
    <3>2. CASE i # 0
      <4>1. i \in 1..N
        BY <1>1, <3>2
      <4>. QED
        BY <1>2, <3>2, <4>1 DEF Doubles
    <3>. QED
      BY <3>1, <3>2
  <2>2. f = [i \in 0..N |-> f[i]]
    BY <1>2 DEF Doubles
  <2>. HIDE DEF G
  <2>3. f = [i \in 0..N |-> G(i)]
    BY <2>1, <2>2
  <2>. QED
    BY <2>3 DEF G
<1>. DEFINE H(j) == IF j = 0 THEN 1 ELSE 2 * Pause[j-1]
<1>4. Pause = [j \in 0..N |-> H(j)]
  BY <1>3 DEF Pause
<1>. HIDE DEF H
<1>5. \A i \in 0..N : Pause[i] = H(i)
  BY <1>4
<1>. DEFINE S == {i \in 0..N : Pause[i] \in Nat}
<1>6. 0 \in S
  BY <1>1, <1>5 DEF H
<1>7. ASSUME NEW i \in 1..N, i - 1 \in S PROVE i \in S
  <2>1. i \in 0..N /\ i # 0 /\ Pause[i-1] \in Nat
    BY <1>1, <1>7
  <2>2. Pause[i] = 2 * Pause[i-1]
    BY <1>5, <2>1 DEF H
  <2>. QED
    BY <2>1, <2>2
<1>. HIDE DEF S
<1>8. 0..N \subseteq S
  BY <1>1, <1>6, <1>7, UpTo
<1>. QED
  BY <1>8 DEF S

-----------------------------------------------------------------------------
(* The call.                                                               *)

Calls == [at : {"loop", "post", "returned", "raised", "timed out"},
          round : 0..Attempts, inner : 0..InnerAttempts,
          clock : Nat, slow : Nat, posts : Nat, definite : {0, 1}]

\* A definite word ends the call; a round begins before the deadline, and no
\* attempt in it but costs what its POST takes and the wait before it.
CallInv ==
    /\ ask \in Calls
    /\ ask.definite = 1 => CallOver
    /\ ask.at = "returned" => ask.definite = 1
    /\ ask.at = "loop" =>
          ask.clock <= Deadline /\ ask.posts <= ask.round * InnerAttempts
    /\ ask.at = "post" =>
          /\ ask.inner \in 1..InnerAttempts /\ ask.round < Attempts
          /\ ask.clock <= Deadline + ask.slow + Waits[ask.inner - 1]
          /\ ask.posts <= ask.round * InnerAttempts + (ask.inner - 1)
    /\ CallOver =>
          /\ ask.clock <= Deadline + ask.slow + Waits[Len(Backoff)]
          /\ ask.posts <= Attempts * InnerAttempts

LEMMA Products ==
    /\ \A a, b \in Nat : a * b \in Nat
    /\ \A a, b, k \in Nat : a <= b => a * k <= b * k
    /\ \A a, k \in Nat : (a + 1) * k = a * k + k
<1>1. \A a, b \in Nat : a * b \in Nat
  OBVIOUS
<1>2. \A a, b, k \in Nat : a <= b => a * k <= b * k
  <2>. SUFFICES ASSUME NEW a \in Nat, NEW b \in Nat, NEW k \in Nat, a <= b
                PROVE  a * k <= b * k
    OBVIOUS
  <2>1. PICK c \in Nat : b = a + c
    <3>1. b - a \in Nat /\ b = a + (b - a)
      OBVIOUS
    <3>. QED
      BY <3>1
  <2>2. b * k = a * k + c * k
    BY <2>1
  <2>. QED
    BY <1>1, <2>2
<1>3. \A a, k \in Nat : (a + 1) * k = a * k + k
  OBVIOUS
<1>. QED
  BY <1>1, <1>2, <1>3

\* The wait before an attempt adds to those before it.
LEMMA RoundWaits ==
    /\ Waits[0] = 0 /\ Waits[Len(Backoff)] \in Nat
    /\ \A i \in 1..InnerAttempts :
          Waits[i - 1] \in Nat /\ Waits[i - 1] <= Waits[Len(Backoff)]
    /\ \A i \in 1..InnerAttempts : i < InnerAttempts =>
          Waits[i] = Waits[i - 1] + Backoff[i] /\ Backoff[i] \in Nat
<1>. DEFINE N == Len(Backoff)
<1>1. N \in Nat /\ InnerAttempts = N + 1 /\ \A i \in 1..N : Backoff[i] \in Nat
  BY Schedule
<1>2. Waits[0] = 0 /\ \A i \in 1..N : Waits[i] = Waits[i-1] + Backoff[i]
  BY WaitsAddUp DEF AddsUp
<1>3. \A i \in 0..N : Waits[i] \in Nat /\ Waits[i] <= Waits[N] /\ Waits[N] \in Nat
  BY WaitsGrow
<1>4. \A i \in 1..InnerAttempts : i - 1 \in 0..N /\ (i < InnerAttempts => i \in 1..N)
  BY <1>1
<1>5. 0 \in 0..N
  BY <1>1
<1>. HIDE DEF N
<1>. QED
  BY <1>1, <1>2, <1>3, <1>4, <1>5 DEF N

LEMMA CallTypes ==
    ASSUME NEW a \in Calls
    PROVE  /\ a.round \in Nat /\ a.round <= Attempts /\ a.round \in 0..Attempts
           /\ a.inner \in Nat /\ a.inner \in 0..InnerAttempts
           /\ a.clock \in Nat /\ a.slow \in Nat /\ a.posts \in Nat /\ a.definite \in {0, 1}
<1>1. Attempts \in Nat /\ InnerAttempts \in Nat
  BY LlmAssumption
<1>2. /\ a.round \in 0..Attempts /\ a.inner \in 0..InnerAttempts
      /\ a.clock \in Nat /\ a.slow \in Nat /\ a.posts \in Nat /\ a.definite \in {0, 1}
  BY DEF Calls
<1>. QED
  BY <1>1, <1>2

LEMMA CallRoundStep == CallInv /\ LlmRound => CallInv'
<1>. SUFFICES ASSUME CallInv, LlmRound PROVE CallInv'
  OBVIOUS
<1>0. /\ ask.at = "loop" /\ ask \in Calls /\ ask.clock <= Deadline
      /\ ask.posts <= ask.round * InnerAttempts /\ ask.definite # 1
  BY DEF LlmRound, CallInv, CallOver
<1>1. /\ Attempts \in Nat /\ InnerAttempts \in Nat \ {0} /\ Deadline \in Nat
      /\ 1 \in 1..InnerAttempts
  BY LlmAssumption
<1>2. /\ ask.round \in Nat /\ ask.round <= Attempts /\ ask.clock \in Nat /\ ask.posts \in Nat
      /\ ask.slow \in Nat
  BY <1>0, CallTypes
<1>3. /\ ask.round * InnerAttempts \in Nat /\ Attempts * InnerAttempts \in Nat
      /\ ask.round * InnerAttempts <= Attempts * InnerAttempts
  BY <1>1, <1>2, Products
<1>4. /\ ask.clock <= Deadline + ask.slow + Waits[Len(Backoff)]
      /\ ask.posts <= Attempts * InnerAttempts
  BY <1>0, <1>1, <1>2, <1>3, RoundWaits
<1>5. ASSUME NEW a \in {"raised", "timed out"}, ask' = [ask EXCEPT !.at = a]
      PROVE  CallInv'
  BY <1>0, <1>4, <1>5 DEF CallInv, CallOver, Calls
<1>6. CASE /\ ask.round # Attempts /\ ask.clock < Deadline
           /\ ask' = [ask EXCEPT !.at = "post", !.inner = 1, !.slow = 0]
  <2>0. 1 \in 0..InnerAttempts
    BY <1>1
  <2>1. ask' \in Calls
    BY <1>0, <1>6, <2>0 DEF Calls
  <2>2. /\ ask'.at = "post" /\ ask'.inner = 1 /\ ask'.round = ask.round
        /\ ask'.clock = ask.clock /\ ask'.posts = ask.posts /\ ask'.definite = ask.definite
        /\ ask'.slow = 0
    BY <1>0, <1>6 DEF Calls
  <2>3. ask.clock <= Deadline + 0 + Waits[1 - 1]
    BY <1>1, <1>2, <1>6, RoundWaits
  <2>4. ask.posts <= ask.round * InnerAttempts + (1 - 1)
    BY <1>0, <1>2, <1>3
  <2>5. ask.round < Attempts
    BY <1>1, <1>2, <1>6
  <2>. QED
    BY <1>0, <1>1, <2>1, <2>2, <2>3, <2>4, <2>5 DEF CallInv, CallOver
<1>. QED
  <2>1. \/ ask' = [ask EXCEPT !.at = "raised"]
        \/ ask' = [ask EXCEPT !.at = "timed out"]
        \/ /\ ask.round # Attempts /\ ~(ask.clock >= Deadline)
           /\ ask' = [ask EXCEPT !.at = "post", !.inner = 1, !.slow = 0]
    BY DEF LlmRound
  <2>2. ~(ask.clock >= Deadline) => ask.clock < Deadline
    BY <1>1, <1>2
  <2>. QED
    BY <1>5, <1>6, <2>1, <2>2

LEMMA CallPostStep == CallInv /\ LlmPost => CallInv'
<1>. SUFFICES ASSUME CallInv, LlmPost PROVE CallInv'
  OBVIOUS
<1>b. PICK o \in Outcomes, took \in Durations :
         LET clock == ask.clock + took
             after == Caught(o, clock)
             sent  == [ask EXCEPT !.posts = @ + 1, !.slow = @ + took,
                                  !.definite = IF o \in Definite THEN @ + 1 ELSE @]
         IN  ask' = IF o = "answer"
                    THEN [sent EXCEPT !.at = "returned", !.clock = clock]
                    ELSE IF TenacityRetries(o) /\ ask.inner < InnerAttempts
                    THEN [sent EXCEPT !.inner = @ + 1, !.clock = clock + Backoff[ask.inner]]
                    ELSE [sent EXCEPT !.at = after.at, !.clock = after.clock,
                                      !.round = IF after.at = "loop" THEN @ + 1 ELSE @]
  BY DEF LlmPost
<1>. DEFINE i == ask.inner
            d == IF o \in Definite THEN 1 ELSE 0
<1>0. /\ ask.at = "post" /\ ask \in Calls /\ i \in 1..InnerAttempts /\ ask.round < Attempts
      /\ ask.clock <= Deadline + ask.slow + Waits[i - 1] /\ ask.definite = 0
      /\ ask.posts <= ask.round * InnerAttempts + (i - 1)
  BY DEF LlmPost, CallInv, CallOver, Calls
<1>1. /\ Attempts \in Nat /\ InnerAttempts \in Nat \ {0} /\ Deadline \in Nat
      /\ took \in Nat
  BY LlmAssumption
<1>2. /\ ask.round \in Nat /\ ask.clock \in Nat /\ ask.posts \in Nat /\ i \in Nat
      /\ ask.slow \in Nat
      /\ i >= 1 /\ i <= InnerAttempts
  BY <1>0, <1>1, CallTypes
<1>3. /\ Waits[i - 1] \in Nat /\ Waits[i - 1] <= Waits[Len(Backoff)]
      /\ Waits[Len(Backoff)] \in Nat
      /\ i < InnerAttempts => Waits[i] = Waits[i - 1] + Backoff[i] /\ Backoff[i] \in Nat
  BY <1>0, RoundWaits
<1>4. /\ ask.round * InnerAttempts \in Nat /\ Attempts * InnerAttempts \in Nat
      /\ (ask.round + 1) * InnerAttempts = ask.round * InnerAttempts + InnerAttempts
      /\ (ask.round + 1) * InnerAttempts <= Attempts * InnerAttempts
  <2>1. ask.round + 1 \in Nat /\ ask.round + 1 <= Attempts
    BY <1>0, <1>1, <1>2
  <2>. QED
    BY <1>1, <1>2, <2>1, Products
<1>. DEFINE clock == ask.clock + took
            posts == ask.posts + 1
            slow  == ask.slow + took
<1>5. /\ clock \in Nat /\ posts \in Nat /\ slow \in Nat
      /\ clock <= Deadline + slow + Waits[i - 1]
      /\ clock <= Deadline + slow + Waits[Len(Backoff)]
      /\ posts <= (ask.round + 1) * InnerAttempts /\ posts <= Attempts * InnerAttempts
      /\ posts <= ask.round * InnerAttempts + i
  <2>1. /\ clock \in Nat /\ posts \in Nat /\ slow \in Nat
        /\ clock <= Deadline + slow + Waits[i - 1]
        /\ clock <= Deadline + slow + Waits[Len(Backoff)]
    <3>1. \A c, x, t, l, w, v \in Nat : c <= l + x + w /\ w <= v =>
             c + t <= l + (x + t) + w /\ c + t <= l + (x + t) + v
      OBVIOUS
    <3>2. Waits[i - 1] \in Nat /\ Waits[Len(Backoff)] \in Nat /\ Waits[i - 1] <= Waits[Len(Backoff)]
      BY <1>3
    <3>3. clock \in Nat /\ posts \in Nat /\ slow \in Nat
      BY <1>1, <1>2
    <3>. HIDE DEF i
    <3>4. /\ clock <= Deadline + slow + Waits[i - 1]
          /\ clock <= Deadline + slow + Waits[Len(Backoff)]
      BY <1>0, <1>1, <1>2, <3>1, <3>2
    <3>. QED
      BY <3>3, <3>4
  <2>2. /\ posts <= (ask.round + 1) * InnerAttempts /\ posts <= Attempts * InnerAttempts
        /\ posts <= ask.round * InnerAttempts + i
    BY <1>0, <1>1, <1>2, <1>4
  <2>. QED
    BY <2>1, <2>2
<1>. DEFINE sent == [ask EXCEPT !.posts = posts, !.slow = slow, !.definite = d]
            after == Caught(o, clock)
<1>a. ask' = IF o = "answer"
             THEN [sent EXCEPT !.at = "returned", !.clock = clock]
             ELSE IF TenacityRetries(o) /\ i < InnerAttempts
             THEN [sent EXCEPT !.inner = i + 1, !.clock = clock + Backoff[i]]
             ELSE [sent EXCEPT !.at = after.at, !.clock = after.clock,
                               !.round = IF after.at = "loop" THEN @ + 1 ELSE @]
  <2>1. [ask EXCEPT !.posts = @ + 1, !.slow = @ + took,
                    !.definite = IF o \in Definite THEN @ + 1 ELSE @] = sent
    <3>1. CASE o \in Definite
      <4>1. (IF o \in Definite THEN ask.definite + 1 ELSE ask.definite) = 1 /\ d = 1
        BY <1>0, <3>1
      <4>. HIDE DEF d
      <4>. QED
        BY <4>1
    <3>2. CASE o \notin Definite
      <4>1. (IF o \in Definite THEN ask.definite + 1 ELSE ask.definite) = 0 /\ d = 0
        BY <1>0, <3>2
      <4>. HIDE DEF d
      <4>. QED
        BY <4>1
    <3>. QED
      BY <3>1, <3>2
  <2>2. sent.inner = i
    BY <1>0 DEF Calls
  <2>. HIDE DEF sent, d
  <2>. QED
    BY <1>b, <2>1, <2>2
<1>. HIDE DEF i, clock, posts, slow
<1>6. CASE o = "answer"
  <2>0. d = 1
    BY <1>6 DEF Definite, Answers
  <2>. HIDE DEF d
  <2>1. ask' = [ask EXCEPT !.posts = posts, !.slow = slow, !.definite = 1, !.at = "returned", !.clock = clock]
    BY <1>0, <1>6, <1>a, <2>0 DEF Calls
  <2>. QED
    BY <1>0, <1>5, <2>1 DEF CallInv, CallOver, Calls
<1>7. CASE o # "answer" /\ TenacityRetries(o) /\ i < InnerAttempts
  <2>1. o \notin Definite
    BY <1>7 DEF TenacityRetries, IsRetryable, Retryable, Definite, Answers
  <2>2. ask' = [ask EXCEPT !.posts = posts, !.slow = slow, !.inner = i + 1,
                           !.clock = clock + Backoff[i]]
    BY <1>0, <1>7, <1>a, <2>1 DEF Calls
  <2>3. i + 1 \in 1..InnerAttempts /\ i + 1 \in 0..InnerAttempts /\ clock + Backoff[i] \in Nat
        /\ clock + Backoff[i] <= Deadline + slow + Waits[(i + 1) - 1]
        /\ posts <= ask.round * InnerAttempts + ((i + 1) - 1)
    <3>1. (i + 1) - 1 = i
      BY <1>2
    <3>2. i + 1 \in 1..InnerAttempts /\ i + 1 \in 0..InnerAttempts
      BY <1>1, <1>2, <1>7
    <3>3. clock + Backoff[i] \in Nat /\ clock + Backoff[i] <= Deadline + slow + Waits[i]
      BY <1>1, <1>3, <1>5, <1>7
    <3>. QED
      BY <1>5, <3>1, <3>2, <3>3
  <2>4. ask' \in Calls
    BY <1>0, <1>5, <2>2, <2>3 DEF Calls
  <2>5. /\ ask'.at = "post" /\ ask'.inner = i + 1 /\ ask'.round = ask.round
        /\ ask'.clock = clock + Backoff[i] /\ ask'.posts = posts /\ ask'.definite = 0
        /\ ask'.slow = slow
    BY <1>0, <2>2 DEF Calls
  <2>. QED
    BY <1>0, <2>3, <2>4, <2>5 DEF CallInv, CallOver
<1>8. CASE o # "answer" /\ ~(TenacityRetries(o) /\ i < InnerAttempts)
  <2>1. ask' = [ask EXCEPT !.posts = posts, !.slow = slow, !.definite = d, !.at = after.at,
                           !.clock = after.clock,
                           !.round = IF after.at = "loop" THEN @ + 1 ELSE @]
    <3>. HIDE DEF after, d
    <3>. QED
      BY <1>0, <1>8, <1>a DEF Calls
  <2>2. CASE after.at = "loop"
    <3>1. o = "os" /\ clock < Deadline
      BY <1>1, <1>5, <2>2 DEF Caught
    <3>2. d = 0
      BY <3>1 DEF Definite, Answers
    <3>3. Pause[ask.round] \in Nat
      BY <1>0, <1>1, <1>2, PauseIsNumber
    <3>4. after.clock = clock + (IF Pause[ask.round] < Deadline - clock THEN Pause[ask.round]
                                 ELSE Deadline - clock)
      BY <2>2, <3>1 DEF Caught
    <3>5. after.clock \in Nat /\ after.clock <= Deadline
      BY <1>1, <1>5, <3>1, <3>3, <3>4
    <3>. HIDE DEF after
    <3>6. ask.round + 1 \in 0..Attempts
      BY <1>0, <1>1, <1>2
    <3>7. ask' \in Calls
      BY <1>0, <1>5, <2>1, <2>2, <3>2, <3>5, <3>6 DEF Calls
    <3>8. /\ ask'.at = "loop" /\ ask'.round = ask.round + 1 /\ ask'.clock = after.clock
          /\ ask'.posts = posts /\ ask'.definite = 0
      BY <1>0, <2>1, <2>2, <3>2 DEF Calls
    <3>. QED
      <4>1. ask'.posts <= ask'.round * InnerAttempts
        BY <1>5, <3>8
      <4>2. ask'.clock <= Deadline
        BY <3>5, <3>8
      <4>3. ask'.at = "loop" /\ ask'.definite = 0
        BY <3>8
      <4>4. ~CallOver' /\ ask'.at # "post" /\ ask'.at # "returned"
        BY <4>3 DEF CallOver
      <4>. QED
        BY <3>7, <4>1, <4>2, <4>3, <4>4 DEF CallInv
  <2>3. CASE after.at # "loop"
    <3>1. after.at \in {"raised", "timed out"} /\ after.clock = clock
      BY <2>3 DEF Caught
    <3>. HIDE DEF after
    <3>2. d \in {0, 1}
      OBVIOUS
    <3>. HIDE DEF d
    <3>3. ask' = [ask EXCEPT !.posts = posts, !.slow = slow, !.definite = d, !.at = after.at, !.clock = clock]
      BY <1>0, <2>1, <2>3, <3>1 DEF Calls
    <3>. QED
      BY <1>0, <1>5, <3>1, <3>2, <3>3 DEF CallInv, CallOver, Calls
  <2>. QED
    BY <2>2, <2>3
<1>. QED
  BY <1>6, <1>7, <1>8

\* For any schedule: the two nested retries never ask again for what was paid
\* for or refused, and make no POST past the deadline but in a round begun
\* before it, however the errors alternate and however long a POST takes.
THEOREM CallsAreBounded == LlmSpec => []CallIsBounded
<1>1. LlmInit => CallInv
  <2>. SUFFICES ASSUME LlmInit PROVE CallInv
    OBVIOUS
  <2>1. Attempts \in Nat /\ InnerAttempts \in Nat /\ Deadline \in Nat
    BY LlmAssumption
  <2>2. 0 * InnerAttempts \in Nat
    BY <2>1, Products
  <2>. QED
    BY <2>1, <2>2 DEF LlmInit, CallInv, Calls, CallOver
<1>2. CallInv /\ [LlmNext]_llmVars => CallInv'
  <2>1. CallInv /\ UNCHANGED llmVars => CallInv'
    BY DEF llmVars, CallInv, Calls, CallOver
  <2>. QED
    BY <2>1, CallRoundStep, CallPostStep DEF LlmNext
<1>3. CallInv => CallIsBounded
  <2>. SUFFICES ASSUME CallInv PROVE CallIsBounded
    OBVIOUS
  <2>1. /\ Attempts \in Nat /\ InnerAttempts \in Nat \ {0} /\ Deadline \in Nat
        /\ ask \in Calls
    BY LlmAssumption DEF CallInv
  <2>2. /\ ask.round \in Nat /\ ask.round <= Attempts /\ ask.clock \in Nat /\ ask.posts \in Nat
        /\ ask.inner \in Nat /\ ask.slow \in Nat
    BY <2>1, CallTypes
  <2>3. /\ ask.round * InnerAttempts \in Nat
        /\ ask.round * InnerAttempts <= Attempts * InnerAttempts
        /\ Attempts * InnerAttempts \in Nat
    BY <2>1, <2>2, Products
  <2>4. CASE CallOver
    BY <2>1, <2>2, <2>4, CallTypes DEF CallInv, CallIsBounded
  <2>5. CASE ask.at = "loop"
    <3>1. /\ ask.clock <= Deadline + ask.slow + Waits[Len(Backoff)]
          /\ ask.posts <= Attempts * InnerAttempts
      <4>1. ask.clock <= Deadline /\ ask.posts <= ask.round * InnerAttempts
        BY <2>5 DEF CallInv
      <4>. QED
        BY <2>1, <2>2, <2>3, <4>1, RoundWaits
    <3>. QED
      BY <2>1, <2>2, <2>5, <3>1, CallTypes DEF CallInv, CallIsBounded
  <2>6. CASE ask.at = "post"
    <3>1. /\ Waits[ask.inner - 1] \in Nat /\ Waits[Len(Backoff)] \in Nat
          /\ Waits[ask.inner - 1] <= Waits[Len(Backoff)]
      BY <2>6, RoundWaits DEF CallInv
    <3>2. ask.clock <= Deadline + ask.slow + Waits[Len(Backoff)]
      BY <2>1, <2>2, <2>6, <3>1 DEF CallInv
    <3>3. ask.round + 1 \in Nat /\ ask.round + 1 <= Attempts
      BY <2>1, <2>2, <2>6 DEF CallInv
    <3>4. (ask.round + 1) * InnerAttempts <= Attempts * InnerAttempts
          /\ (ask.round + 1) * InnerAttempts = ask.round * InnerAttempts + InnerAttempts
      BY <2>1, <2>2, <3>3, Products
    <3>5. ask.posts <= Attempts * InnerAttempts
      <4>1. ask.posts <= ask.round * InnerAttempts + (ask.inner - 1)
            /\ ask.inner <= InnerAttempts
        BY <2>1, <2>6 DEF CallInv
      <4>. QED
        BY <2>1, <2>2, <2>3, <3>4, <4>1
    <3>. QED
      BY <2>1, <2>2, <2>6, <3>2, <3>5, CallTypes DEF CallInv, CallIsBounded
  <2>. QED
    BY <2>1, <2>4, <2>5, <2>6 DEF CallOver, Calls
<1>. QED
  BY <1>1, <1>2, <1>3, PTL DEF LlmSpec

-----------------------------------------------------------------------------
(* The library of themes.                                                  *)

Texts == {"none", "failure", "prose", ""}
RunFields == {"at", "run", "rc", "keys", "asked", "todo", "reports"}
ReadingFields == {"at", "run", "reports", "todo", "md", "alone"}

\* What is said of a theme is said by the files of a run that did not fail on it.
Sound(report) == /\ report.text \in Texts \ {"none"}
                 /\ report.failure = "" => report.text # "failure"
Agrees(listed, file) == listed.failure = "" => file.text \in {"prose", ""}

ResearchShape ==
    /\ DOMAIN research = RunFields /\ research.run \in 0..MaxResearchRuns /\ research.rc \in 0..2
    /\ research.at \in {"idle", "themes", "files", "gate"}
    /\ research.asked \in Seq(Themes) /\ research.todo \in Seq(Themes)
    /\ DOMAIN research.reports \subseteq Range(research.asked)
    /\ Range(research.asked) \subseteq Themes
    /\ research.at = "themes" =>
          /\ research.todo # <<>>
          /\ Range(research.asked) \subseteq DOMAIN research.reports \cup Range(research.todo)
    /\ research.at \in {"files", "gate"} => Range(research.asked) = DOMAIN research.reports
    /\ research.at # "idle" => /\ \A t \in DOMAIN research.reports : Sound(research.reports[t])
                               /\ Range(research.todo) \subseteq Range(research.asked)
                               /\ Len(research.todo) <= Len(research.asked)
LibraryShape ==
    /\ DOMAIN library = {"run", "reports", "torn", "md"} /\ library.torn \in BOOLEAN
    /\ DOMAIN library.reports \subseteq Themes /\ library.run \in 0..research.run
    /\ library.md \in [Themes -> [run : 0..research.run, text : Texts]]
ReadingShape ==
    /\ DOMAIN reading = ReadingFields /\ reading.at \in {"idle", "reading", "read"}
    /\ reading.alone \in BOOLEAN /\ reading.run \in 0..MaxResearchRuns
    /\ DOMAIN reading.reports \subseteq Themes
    /\ reading.todo \subseteq DOMAIN reading.reports
    /\ DOMAIN reading.reports = DOMAIN reading.md \cup reading.todo
    /\ reading.at = "read" => reading.todo = {}

\* The files of the run in flight, and those of the last run that wrote its
\* status before one of a later run began to replace them.
FilesAreWritten ==
    research.at = "files" =>
        \A t \in Range(research.asked) \ Range(research.todo) :
            library.md[t] = [run |-> research.run, text |-> research.reports[t].text]
StatusVouches ==
    /\ \A t \in DOMAIN library.reports : library.md[t].run >= library.run
    /\ ~library.torn /\ (research.at = "files" => research.todo = research.asked) =>
          \A t \in DOMAIN library.reports :
              library.md[t].run = library.run /\ Agrees(library.reports[t], library.md[t])

\* A reader's status is never newer than the files, and is of their run until
\* one of them is replaced.
ReaderIsServed ==
    /\ \A t \in DOMAIN reading.reports : library.md[t].run >= reading.run
    /\ \A t \in DOMAIN reading.md : reading.md[t].run >= reading.run
    /\ reading.alone =>
          /\ \A t \in reading.todo : Agrees(reading.reports[t], library.md[t])
          /\ \A t \in DOMAIN reading.md : Agrees(reading.reports[t], reading.md[t])

\* What the gate judged is on disk.
GateJudgesTheLibrary ==
    research.at = "gate" \/ (research.at = "idle" /\ research.rc = 0 /\ research.asked # <<>>) =>
        /\ library.reports = Listed(research.reports) /\ ~library.torn
        /\ DOMAIN library.reports = Range(research.asked)
        /\ research.at = "idle" => \A l \in Locales : ~DeadLocale(library.reports, l)

ResearchInv == ResearchShape /\ LibraryShape /\ ReadingShape /\ FilesAreWritten
               /\ StatusVouches /\ ReaderIsServed /\ GateJudgesTheLibrary

LEMMA OutcomeIsSound ==
    ASSUME NEW t, NEW outcome \in ThemeOutcomes(t)
    PROVE  Sound(outcome)
<1>1. ASSUME NEW why, NEW missed, why # "" PROVE Sound(Failed(why, missed))
  BY <1>1 DEF Sound, Failed, Texts
<1>2. ASSUME NEW cites, NEW missed, NEW answer \in {"prose", "", "error"}
      PROVE  Sound(ApplyRelevanceFilter(t, SynthesizeReport(cites, answer, missed)))
  <2>. DEFINE r == SynthesizeReport(cites, answer, missed)
  <2>1. Sound(r)
    BY <1>1 DEF SynthesizeReport, Sound, Texts
  <2>2. DOMAIN r = {"failure", "cites", "text", "lost"}
    BY DEF SynthesizeReport, Failed
  <2>. HIDE DEF r
  <2>3. Sound([r EXCEPT !.cites = RelevantOf(@)])
    BY <2>1, <2>2 DEF Sound
  <2>4. Sound(ApplyRelevanceFilter(t, r))
    BY <1>1, <2>1, <2>3 DEF ApplyRelevanceFilter
  <2>. QED
    BY <2>4 DEF r
<1>3. NoProvider = Failed("no provider", FALSE)
  BY DEF NoProvider
<1>4. CASE outcome = NoProvider
  BY <1>1, <1>3, <1>4
<1>5. CASE outcome # NoProvider
  <2>. DEFINE told(results, pages) ==
         {ThemeOutcome(t, results, pages, answer) : answer \in {"prose", "", "error"}}
       of(results) == UNION {told(results, pages) :
                                pages \in ExtractTopPages(HitsFromResults(results))}
       engines == ProvidersForLocale(ThemeLocale[t], research.keys)
  <2>1. outcome \in UNION {of(results) : results \in ProviderResults(engines)}
    BY <1>5, Zenon DEF ThemeOutcomes
  <2>2. PICK results \in ProviderResults(engines) : outcome \in of(results)
    <3>. HIDE DEF of, engines
    <3>. QED
      BY <2>1
  <2>6. PICK pages \in ExtractTopPages(HitsFromResults(results)) : outcome \in told(results, pages)
    <3>. HIDE DEF told, engines
    <3>. QED
      BY <2>2
  <2>3. PICK answer \in {"prose", "", "error"} :
               outcome = ThemeOutcome(t, results, pages, answer)
    BY <2>6
  <2>. DEFINE missed == \E i \in DOMAIN results : ~results[i].ok
              cites == BuildSources(HitsFromResults(results), pages)
  <2>4. outcome = ApplyRelevanceFilter(t, SynthesizeReport(cites, answer, missed))
    BY <2>3 DEF ThemeOutcome
  <2>5. answer \in {"prose", "", "error"}
    BY <2>3
  <2>. HIDE DEF missed, cites
  <2>. QED
    BY <1>2, <2>4, <2>5
<1>. QED
  BY <1>4, <1>5

LEMMA PutIs ==
    ASSUME NEW f, NEW t, NEW v
    PROVE  /\ DOMAIN Put(f, t, v) = DOMAIN f \cup {t} /\ Put(f, t, v)[t] = v
           /\ \A u \in DOMAIN f : u # t => Put(f, t, v)[u] = f[u]
  BY DEF Put

LEMMA HeadAndTail ==
    ASSUME NEW T, NEW s \in Seq(T), s # <<>>
    PROVE  /\ Head(s) \in T /\ Tail(s) \in Seq(T) /\ Head(s) \in Range(s)
           /\ Range(s) = {Head(s)} \cup Range(Tail(s)) /\ Len(Tail(s)) = Len(s) - 1
<1>1. Len(s) \in Nat \ {0} /\ Head(s) = s[1] /\ Len(Tail(s)) = Len(s) - 1
  OBVIOUS
<1>2. \A i \in 1..Len(s) - 1 : Tail(s)[i] = s[i + 1]
  OBVIOUS
<1>3. ASSUME NEW x \in Range(s) PROVE x = Head(s) \/ x \in Range(Tail(s))
  <2>1. PICK i \in 1..Len(s) : x = s[i]
    BY DEF Range
  <2>2. CASE i = 1
    BY <1>1, <2>1, <2>2
  <2>3. CASE i # 1
    <3>1. PICK j \in 1..Len(s) - 1 : i = j + 1
      <4>1. i - 1 \in 1..Len(s) - 1 /\ i = (i - 1) + 1
        BY <1>1, <2>3
      <4>. QED
        BY <4>1
    <3>2. Tail(s)[j] = x
      <4>1. Tail(s)[j] = s[j + 1]
        BY <1>2, <3>1
      <4>2. j + 1 = i
        BY <3>1
      <4>. QED
        BY <2>1, <4>1, <4>2
    <3>. QED
      <4>1. j \in DOMAIN Tail(s)
        BY <1>1, <3>1
      <4>. QED
        BY <3>2, <4>1 DEF Range
  <2>. QED
    BY <2>2, <2>3
<1>4. ASSUME NEW x \in Range(Tail(s)) PROVE x \in Range(s)
  <2>1. PICK i \in 1..Len(s) - 1 : x = Tail(s)[i]
    BY <1>1 DEF Range
  <2>2. i + 1 \in 1..Len(s) /\ x = s[i + 1]
    BY <1>1, <1>2, <2>1
  <2>. QED
    BY <2>2 DEF Range
<1>5. Head(s) \in Range(s)
  BY <1>1 DEF Range
<1>. QED
  BY <1>1, <1>3, <1>4, <1>5

LEMMA RangeIsIn == ASSUME NEW T, NEW s \in Seq(T) PROVE Range(s) \subseteq T
  BY DEF Range

LEMMA ListedIs ==
    ASSUME NEW reports
    PROVE  /\ DOMAIN Listed(reports) = DOMAIN reports
           /\ \A t \in DOMAIN reports : Listed(reports)[t].failure = reports[t].failure
           /\ \A l : DeadLocale(Listed(reports), l) => DeadLocale(reports, l)
           /\ \A l : DeadLocale(reports, l) => DeadLocale(Listed(reports), l)
  BY DEF Listed, DeadLocale, Usable

LEMMA ResearchAtFirst == ResearchInit => ResearchInv
<1>. SUFFICES ASSUME ResearchInit PROVE ResearchInv
  OBVIOUS
<1>1. DOMAIN NoReports = {} /\ \A s : s \notin DOMAIN NoReports
  BY DEF NoReports
<1>2. <<>> \in Seq(Themes) /\ Range(<<>>) = {} /\ DOMAIN <<>> = {}
  BY DEF Range
<1>3. /\ research = [at |-> "idle", run |-> 0, rc |-> 0, keys |-> <<>>, asked |-> <<>>,
                     todo |-> <<>>, reports |-> NoReports]
      /\ library = [run |-> 0, reports |-> NoReports, torn |-> FALSE,
                    md |-> [t \in Themes |-> [run |-> 0, text |-> "none"]]]
      /\ reading = [at |-> "idle", run |-> 0, reports |-> NoReports, todo |-> {},
                    md |-> NoReports, alone |-> TRUE]
  BY DEF ResearchInit, Resting
<1>4. ResearchShape
  BY <1>1, <1>2, <1>3, ResearchAssumption DEF ResearchShape, RunFields
<1>5. LibraryShape
  BY <1>1, <1>3 DEF LibraryShape, Texts
<1>6. ReadingShape
  BY <1>1, <1>3, ResearchAssumption DEF ReadingShape, ReadingFields
<1>7. FilesAreWritten /\ StatusVouches /\ ReaderIsServed /\ GateJudgesTheLibrary
  BY <1>1, <1>3 DEF FilesAreWritten, StatusVouches, ReaderIsServed, GateJudgesTheLibrary
<1>. QED
  BY <1>4, <1>5, <1>6, <1>7 DEF ResearchInv

LEMMA StartIsSound == ResearchInv /\ StartResearch => ResearchInv'
<1>. SUFFICES ASSUME ResearchInv, StartResearch PROVE ResearchInv'
  OBVIOUS
<1>. USE DEF ResearchInv
<1>0. UNCHANGED <<library, reading>> /\ research.at = "idle"
  BY DEF StartResearch
<1>1. DOMAIN NoReports = {}
  BY DEF NoReports
<1>2. <<>> \in Seq(Themes) /\ Range(<<>>) = {}
  BY DEF Range
<1>3. /\ DOMAIN research' = RunFields /\ research'.run = research.run + 1
      /\ research'.run \in 0..MaxResearchRuns /\ research'.reports = NoReports
      /\ \/ /\ research'.at = "idle" /\ research'.rc = 2
            /\ research'.asked = <<>> /\ research'.todo = <<>>
         \/ /\ research'.at = "themes" /\ research'.rc = 0 /\ research'.asked \in AskedThemes
            /\ research'.todo = research'.asked
  <2>1. PICK keys \in KeyRings, asked \in AskedThemes :
          research' = IF keys = <<>> THEN Resting(research.run + 1, 2)
                      ELSE [Resting(research.run + 1, 0) EXCEPT
                               !.at = "themes", !.keys = keys, !.asked = asked, !.todo = asked]
    BY DEF StartResearch
  <2>2. research.run + 1 \in 0..MaxResearchRuns
    BY ResearchAssumption DEF StartResearch, ResearchShape
  <2>. QED
    BY <2>1, <2>2 DEF Resting, RunFields
<1>4. research'.asked \in Seq(Themes) /\ (research'.at = "themes" => research'.asked # <<>>)
  BY <1>2, <1>3, ResearchAssumption
<1>5. Range(research'.asked) \subseteq Themes
  BY <1>4, RangeIsIn
<1>6. ResearchShape'
  BY <1>1, <1>3, <1>4, <1>5 DEF ResearchShape
<1>7. LibraryShape'
  <2>1. 0..research.run \subseteq 0..research'.run
    BY <1>3 DEF ResearchShape
  <2>. QED
    BY <1>0, <2>1 DEF LibraryShape
<1>8. ReadingShape' /\ FilesAreWritten' /\ StatusVouches' /\ ReaderIsServed'
  BY <1>0, <1>3 DEF ReadingShape, FilesAreWritten, StatusVouches, ReaderIsServed
<1>9. GateJudgesTheLibrary'
  BY <1>3 DEF GateJudgesTheLibrary
<1>. QED
  BY <1>6, <1>7, <1>8, <1>9

LEMMA BuildIsSound == ResearchInv /\ BuildOne => ResearchInv'
<1>. SUFFICES ASSUME ResearchInv, BuildOne PROVE ResearchInv'
  OBVIOUS
<1>. USE DEF ResearchInv
<1>. DEFINE t == Head(research.todo)
<1>0. UNCHANGED <<library, reading>> /\ research.at = "themes"
  BY DEF BuildOne
<1>1. PICK outcome \in ThemeOutcomes(t) :
        LET built == [research EXCEPT !.reports = Put(@, t, outcome), !.todo = Tail(@)]
        IN  research' = IF built.todo # <<>> THEN built
                        ELSE [built EXCEPT !.at = "files", !.todo = built.asked]
  BY DEF BuildOne
<1>2. /\ t \in Themes /\ Tail(research.todo) \in Seq(Themes) /\ t \in Range(research.todo)
      /\ Range(research.todo) = {t} \cup Range(Tail(research.todo))
  BY <1>0, HeadAndTail DEF ResearchShape
<1>3. Sound(outcome)
  BY OutcomeIsSound
<1>4. /\ DOMAIN research' = RunFields /\ research'.run = research.run
      /\ research'.rc = research.rc /\ research'.asked = research.asked
      /\ research'.reports = Put(research.reports, t, outcome)
      /\ \/ /\ research'.at = "themes" /\ research'.todo = Tail(research.todo)
            /\ research'.todo # <<>>
         \/ /\ research'.at = "files" /\ research'.todo = research.asked
            /\ Tail(research.todo) = <<>>
  BY <1>0, <1>1 DEF ResearchShape, RunFields
<1>5. /\ DOMAIN research'.reports = DOMAIN research.reports \cup {t}
      /\ \A u \in DOMAIN research'.reports : Sound(research'.reports[u])
  <2>. DEFINE new == Put(research.reports, t, outcome)
  <2>1. /\ DOMAIN new = DOMAIN research.reports \cup {t} /\ new[t] = outcome
        /\ \A u \in DOMAIN research.reports : u # t => new[u] = research.reports[u]
    BY DEF Put
  <2>2. \A u \in DOMAIN research.reports : Sound(research.reports[u])
    BY <1>0 DEF ResearchShape
  <2>3. research'.reports = new
    BY <1>4
  <2>. HIDE DEF new, t
  <2>. QED
    BY <1>3, <2>1, <2>2, <2>3
<1>6. t \in Range(research.asked)
  BY <1>0, <1>2 DEF ResearchShape
<1>7. CASE research'.at = "themes"
  <2>1. Len(Tail(research.todo)) <= Len(research.asked)
    <3>1. Len(Tail(research.todo)) = Len(research.todo) - 1
      BY <1>0, HeadAndTail DEF ResearchShape
    <3>. QED
      BY <1>0, <3>1 DEF ResearchShape
  <2>. HIDE DEF t
  <2>2. ResearchShape'
    BY <1>0, <1>2, <1>4, <1>5, <1>6, <1>7, <2>1 DEF ResearchShape
  <2>. QED
    BY <1>0, <1>4, <1>7, <2>2 DEF LibraryShape, ReadingShape, FilesAreWritten,
       StatusVouches, ReaderIsServed, GateJudgesTheLibrary
<1>8. CASE research'.at = "files"
  <2>1. Range(<<>>) = {}
    BY DEF Range
  <2>2. Range(research.asked) = DOMAIN research'.reports
    BY <1>0, <1>2, <1>4, <1>5, <1>6, <1>8, <2>1 DEF ResearchShape
  <2>. QED
    BY <1>0, <1>4, <1>5, <1>8, <2>2 DEF ResearchShape, LibraryShape, ReadingShape,
       FilesAreWritten, StatusVouches, ReaderIsServed, GateJudgesTheLibrary
<1>. QED
  BY <1>4, <1>7, <1>8

LEMMA WriteReportIsSound == ResearchInv /\ WriteReport => ResearchInv'
<1>. SUFFICES ASSUME ResearchInv, WriteReport PROVE ResearchInv'
  OBVIOUS
<1>. USE DEF ResearchInv
<1>. DEFINE t == Head(research.todo)
            file == [run |-> research.run, text |-> research.reports[t].text]
<1>0. research.at = "files" /\ research.todo # <<>>
  BY DEF WriteReport
<1>1. /\ t \in Themes /\ Tail(research.todo) \in Seq(Themes) /\ t \in Range(research.todo)
      /\ Range(research.todo) = {t} \cup Range(Tail(research.todo))
      /\ Len(Tail(research.todo)) = Len(research.todo) - 1
  BY <1>0, HeadAndTail DEF ResearchShape
<1>2. /\ DOMAIN research' = RunFields /\ research'.todo = Tail(research.todo)
      /\ research'.at = "files" /\ research'.run = research.run /\ research'.rc = research.rc
      /\ research'.asked = research.asked /\ research'.reports = research.reports
  BY <1>0 DEF WriteReport, ResearchShape, RunFields
<1>3. /\ DOMAIN library' = DOMAIN library /\ library'.run = library.run
      /\ library'.reports = library.reports /\ library'.torn = library.torn
      /\ library'.md = [library.md EXCEPT ![t] = file]
  BY DEF WriteReport, LibraryShape
<1>4. /\ DOMAIN reading' = ReadingFields /\ reading'.alone = FALSE
      /\ reading'.at = reading.at /\ reading'.run = reading.run
      /\ reading'.reports = reading.reports /\ reading'.todo = reading.todo
      /\ reading'.md = reading.md
  BY DEF WriteReport, ReadingShape, ReadingFields
<1>5. t \in DOMAIN research.reports /\ Sound(research.reports[t])
  BY <1>0, <1>1 DEF ResearchShape
<1>6. file \in [run : 0..research.run, text : Texts] /\ file.run = research.run
  <2>1. research.reports[t].text \in Texts
    BY <1>5 DEF Sound
  <2>2. research.run \in 0..research.run
    BY DEF ResearchShape
  <2>. HIDE DEF t
  <2>. QED
    BY <2>1, <2>2
<1>7. /\ DOMAIN library.md = Themes /\ library'.md[t] = file
      /\ \A u \in Themes : u # t => library'.md[u] = library.md[u]
      /\ library'.md \in [Themes -> [run : 0..research.run, text : Texts]]
  <2>. HIDE DEF file, t
  <2>. QED
    BY <1>1, <1>3, <1>6 DEF LibraryShape
<1>8. ResearchShape'
  BY <1>0, <1>1, <1>2 DEF ResearchShape
<1>9. LibraryShape'
  BY <1>2, <1>3, <1>7 DEF LibraryShape
<1>10. ReadingShape'
  BY <1>4 DEF ReadingShape
<1>11. FilesAreWritten'
  <2>1. \A u \in Range(research.asked) \ Range(research.todo) :
           library.md[u] = [run |-> research.run, text |-> research.reports[u].text]
    BY <1>0 DEF FilesAreWritten
  <2>2. \A u \in Range(research.asked) : u \in Themes
    BY DEF ResearchShape
  <2>. QED
    BY <1>1, <1>2, <1>7, <2>1, <2>2 DEF FilesAreWritten
<1>12. \A u \in Themes : /\ library.md[u].run \in Int /\ library.md[u].run <= research.run
                         /\ library'.md[u].run \in Int /\ library'.md[u].run >= library.md[u].run
  <2>1. \A u \in Themes : library.md[u].run \in 0..research.run
    BY DEF LibraryShape
  <2>2. research.run \in Int
    BY DEF ResearchShape
  <2>. HIDE DEF file
  <2>. QED
    BY <1>6, <1>7, <2>1, <2>2
<1>13. StatusVouches'
  <2>1. research'.todo # research'.asked
    <3>1. Len(research.todo) \in Nat /\ Len(research.asked) \in Nat
      BY DEF ResearchShape
    <3>2. Len(research.todo) <= Len(research.asked)
      BY <1>0 DEF ResearchShape
    <3>3. Len(Tail(research.todo)) # Len(research.asked)
      BY <1>1, <3>1, <3>2
    <3>. QED
      BY <1>2, <3>3
  <2>. QED
    BY <1>2, <1>3, <1>12, <2>1 DEF StatusVouches, LibraryShape
<1>14. ReaderIsServed'
  <2>1. reading.run \in Int /\ DOMAIN reading.reports \subseteq Themes
    BY DEF ReadingShape
  <2>2. \A u \in DOMAIN reading.reports : library'.md[u].run >= reading.run
    BY <1>12, <2>1 DEF ReaderIsServed
  <2>. QED
    BY <1>4, <2>2 DEF ReaderIsServed
<1>15. GateJudgesTheLibrary'
  BY <1>2 DEF GateJudgesTheLibrary
<1>. QED
  BY <1>8, <1>9, <1>10, <1>11, <1>13, <1>14, <1>15

LEMMA WriteStatusIsSound == ResearchInv /\ WriteStatus => ResearchInv'
<1>. SUFFICES ASSUME ResearchInv, WriteStatus PROVE ResearchInv'
  OBVIOUS
<1>. USE DEF ResearchInv
<1>0. research.at = "files" /\ research.todo = <<>> /\ UNCHANGED reading
  BY DEF WriteStatus
<1>1. /\ DOMAIN research' = RunFields /\ research'.at = "gate"
      /\ \A x \in RunFields \ {"at"} : research'[x] = research[x]
  BY DEF WriteStatus, ResearchShape
<1>2. /\ research'.run = research.run /\ research'.rc = research.rc
      /\ research'.asked = research.asked /\ research'.todo = research.todo
      /\ research'.reports = research.reports
  BY <1>1 DEF RunFields
<1>3. /\ DOMAIN library' = DOMAIN library /\ library'.run = research.run
      /\ library'.reports = Listed(research.reports) /\ library'.torn = FALSE
      /\ library'.md = library.md
  BY DEF WriteStatus, LibraryShape
<1>4. /\ DOMAIN research.reports = Range(research.asked) /\ Range(research.asked) \subseteq Themes
      /\ DOMAIN Listed(research.reports) = DOMAIN research.reports
      /\ \A t \in DOMAIN research.reports :
            /\ Sound(research.reports[t])
            /\ Listed(research.reports)[t].failure = research.reports[t].failure
  BY <1>0, ListedIs DEF ResearchShape
<1>5. \A t \in Range(research.asked) :
         library.md[t] = [run |-> research.run, text |-> research.reports[t].text]
  <2>1. Range(research.todo) = {}
    BY <1>0 DEF Range
  <2>. QED
    BY <1>0, <2>1 DEF FilesAreWritten
<1>6. ResearchShape'
  BY <1>0, <1>1, <1>2 DEF ResearchShape
<1>7. LibraryShape'
  <2>1. research.run \in 0..research.run
    BY DEF ResearchShape
  <2>. QED
    BY <1>2, <1>3, <1>4, <2>1 DEF LibraryShape
<1>8. ReadingShape' /\ FilesAreWritten'
  BY <1>0, <1>1 DEF ReadingShape, FilesAreWritten
<1>9. StatusVouches'
  <2>1. \A t \in DOMAIN research.reports :
           /\ library.md[t].run = research.run
           /\ Agrees(Listed(research.reports)[t], library.md[t])
    <3>. SUFFICES ASSUME NEW t \in DOMAIN research.reports
                  PROVE  /\ library.md[t].run = research.run
                         /\ Agrees(Listed(research.reports)[t], library.md[t])
      OBVIOUS
    <3>1. library.md[t].run = research.run /\ library.md[t].text = research.reports[t].text
      <4>1. t \in Range(research.asked)
        BY <1>4
      <4>2. library.md[t] = [run |-> research.run, text |-> research.reports[t].text]
        BY <1>5, <4>1
      <4>. QED
        BY <4>2
    <3>2. Sound(research.reports[t])
      BY <1>4
    <3>3. Listed(research.reports)[t].failure = research.reports[t].failure
      BY <1>4
    <3>. QED
      BY <3>1, <3>2, <3>3 DEF Agrees, Sound, Texts
  <2>2. research.run \in Int
    BY DEF ResearchShape
  <2>. QED
    BY <1>3, <1>4, <2>1, <2>2 DEF StatusVouches
<1>10. ReaderIsServed'
  BY <1>0, <1>3 DEF ReaderIsServed
<1>11. GateJudgesTheLibrary'
  BY <1>1, <1>2, <1>3, <1>4 DEF GateJudgesTheLibrary
<1>. QED
  BY <1>6, <1>7, <1>8, <1>9, <1>10, <1>11

LEMMA GateIsSound == ResearchInv /\ QualityGate => ResearchInv'
<1>. SUFFICES ASSUME ResearchInv, QualityGate PROVE ResearchInv'
  OBVIOUS
<1>. USE DEF ResearchInv
<1>0. research.at = "gate" /\ UNCHANGED <<library, reading>>
  BY DEF QualityGate
<1>. DEFINE verdict == EvaluateResearchQuality(research.reports)
            rc == IF verdict = "fail" THEN 2 ELSE 0
<1>1. /\ DOMAIN research' = RunFields /\ research'.at = "idle" /\ research'.run = research.run
      /\ research'.rc = rc /\ research'.asked = research.asked /\ research'.todo = <<>>
      /\ research'.reports = Listed(research.reports)
  BY DEF QualityGate, Resting, RunFields
<1>2. /\ DOMAIN Listed(research.reports) = DOMAIN research.reports
      /\ Listed(Listed(research.reports)) = Listed(research.reports)
  BY DEF Listed
<1>3. ResearchShape'
  BY <1>1, <1>2 DEF ResearchShape
<1>4. LibraryShape' /\ ReadingShape' /\ FilesAreWritten' /\ StatusVouches' /\ ReaderIsServed'
  BY <1>0, <1>1 DEF LibraryShape, ReadingShape, FilesAreWritten, StatusVouches, ReaderIsServed
<1>5. ASSUME research'.rc = 0, NEW l \in Locales PROVE ~DeadLocale(library.reports, l)
  <2>1. ~DeadLocale(research.reports, l)
    <3>1. verdict # "fail"
      BY <1>1, <1>5
    <3>. QED
      BY <3>1 DEF EvaluateResearchQuality
  <2>. QED
    BY <1>0, <2>1, ListedIs DEF GateJudgesTheLibrary
<1>6. GateJudgesTheLibrary'
  BY <1>0, <1>1, <1>2, <1>5 DEF GateJudgesTheLibrary
<1>. QED
  BY <1>3, <1>4, <1>6

LEMMA DeathIsSound == ResearchInv /\ ResearchDies => ResearchInv'
<1>. SUFFICES ASSUME ResearchInv, ResearchDies PROVE ResearchInv'
  OBVIOUS
<1>. USE DEF ResearchInv
<1>0. UNCHANGED reading
  BY DEF ResearchDies
<1>1. /\ DOMAIN research' = RunFields /\ research'.at = "idle" /\ research'.run = research.run
      /\ research'.rc = 1 /\ research'.asked = <<>> /\ research'.todo = <<>>
      /\ research'.reports = NoReports
  BY DEF ResearchDies, Resting, RunFields
<1>2. /\ DOMAIN library' = DOMAIN library /\ library'.run = library.run
      /\ library'.reports = library.reports /\ library'.md = library.md
      /\ library'.torn = (library.torn \/ (research.at = "files" /\ research.todo # research.asked))
  BY DEF ResearchDies, LibraryShape
<1>3. DOMAIN NoReports = {} /\ <<>> \in Seq(Themes) /\ Range(<<>>) = {}
  BY DEF NoReports, Range
<1>4. ResearchShape'
  BY <1>1, <1>3 DEF ResearchShape
<1>5. LibraryShape' /\ ReadingShape' /\ FilesAreWritten'
  BY <1>0, <1>1, <1>2 DEF LibraryShape, ReadingShape, FilesAreWritten
<1>6. StatusVouches' /\ ReaderIsServed'
  BY <1>0, <1>1, <1>2 DEF StatusVouches, ReaderIsServed
<1>7. GateJudgesTheLibrary'
  BY <1>1 DEF GateJudgesTheLibrary
<1>. QED
  BY <1>4, <1>5, <1>6, <1>7

LEMMA ReadersAreSound ==
    ResearchInv /\ (StartReading \/ ReadReport \/ ReadingEnds) => ResearchInv'
<1>. SUFFICES ASSUME ResearchInv, StartReading \/ ReadReport \/ ReadingEnds PROVE ResearchInv'
  OBVIOUS
<1>. USE DEF ResearchInv
<1>0. UNCHANGED <<research, library>>
  BY DEF StartReading, ReadReport, ReadingEnds
<1>1. ResearchShape' /\ LibraryShape' /\ FilesAreWritten' /\ StatusVouches' /\ GateJudgesTheLibrary'
  BY <1>0 DEF ResearchShape, LibraryShape, FilesAreWritten, StatusVouches, GateJudgesTheLibrary
<1>2. CASE StartReading
  <2>1. /\ DOMAIN reading' = ReadingFields /\ reading'.at = "reading"
        /\ reading'.run = library.run /\ reading'.reports = library.reports
        /\ reading'.todo = DOMAIN library.reports /\ reading'.md = NoReports
        /\ reading'.alone = (~library.torn /\ (research.at = "files"
                                               => research.todo = research.asked))
    BY <1>2 DEF StartReading, ReadingFields
  <2>2. DOMAIN NoReports = {}
    BY DEF NoReports
  <2>3. library.run \in 0..MaxResearchRuns
    BY ResearchAssumption DEF LibraryShape, ResearchShape
  <2>4. ReadingShape'
    BY <2>1, <2>2, <2>3 DEF ReadingShape, LibraryShape
  <2>5. ReaderIsServed'
    BY <1>0, <2>1, <2>2 DEF ReaderIsServed, StatusVouches
  <2>. QED
    BY <1>1, <2>4, <2>5
<1>3. CASE ReadReport
  <2>1. PICK t \in reading.todo :
          reading' = [reading EXCEPT !.md = Put(@, t, library.md[t]), !.todo = @ \ {t}]
    BY <1>3 DEF ReadReport
  <2>2. /\ DOMAIN reading' = ReadingFields /\ reading'.at = reading.at
        /\ reading'.run = reading.run /\ reading'.reports = reading.reports
        /\ reading'.alone = reading.alone /\ reading'.todo = reading.todo \ {t}
        /\ reading'.md = Put(reading.md, t, library.md[t])
    BY <2>1 DEF ReadingShape, ReadingFields
  <2>3. /\ DOMAIN reading'.md = DOMAIN reading.md \cup {t} /\ reading'.md[t] = library.md[t]
        /\ \A u \in DOMAIN reading.md : u # t => reading'.md[u] = reading.md[u]
    BY <2>2 DEF Put
  <2>4. t \in DOMAIN reading.reports
    BY DEF ReadingShape
  <2>5. ReadingShape'
    BY <2>2, <2>3, <2>4 DEF ReadingShape
  <2>6. ReaderIsServed'
    BY <1>0, <2>2, <2>3, <2>4 DEF ReaderIsServed
  <2>. QED
    BY <1>1, <2>5, <2>6
<1>4. CASE ReadingEnds
  <2>1. /\ DOMAIN reading' = ReadingFields /\ reading'.at = "read" /\ reading.todo = {}
        /\ reading'.run = reading.run /\ reading'.reports = reading.reports
        /\ reading'.alone = reading.alone /\ reading'.todo = reading.todo
        /\ reading'.md = reading.md
    BY <1>4 DEF ReadingEnds, ReadingShape, ReadingFields
  <2>. QED
    BY <1>0, <1>1, <2>1 DEF ReadingShape, ReaderIsServed
<1>. QED
  BY <1>2, <1>3, <1>4

LEMMA ResearchAlways == ResearchSpec => []ResearchInv
<1>1. ResearchInv /\ UNCHANGED researchVars => ResearchInv'
  BY DEF researchVars, ResearchInv, ResearchShape, LibraryShape, ReadingShape, FilesAreWritten,
         StatusVouches, ReaderIsServed, GateJudgesTheLibrary
<1>2. ResearchInv /\ [ResearchNext]_researchVars => ResearchInv'
  BY <1>1, StartIsSound, BuildIsSound, WriteReportIsSound, WriteStatusIsSound, GateIsSound,
     DeathIsSound, ReadersAreSound DEF ResearchNext
<1>. QED
  BY <1>2, ResearchAtFirst, PTL DEF ResearchSpec

\* Whatever run of `irc research' writes, and is killed, while a stage reads,
\* that stage is served words no older than its citations, and no failure for
\* news if nobody wrote; between runs the status vouches for the files; and a
\* run that ends well left a usable theme in every language.
THEOREM ReadersAreServed == ResearchSpec => []ResearchKeepsItsWord
<1>1. ResearchInv => ResearchKeepsItsWord
  <2>. SUFFICES ASSUME ResearchInv PROVE ResearchKeepsItsWord
    OBVIOUS
  <2>. USE DEF ResearchInv
  <2>1. ResearchTypeOK
    <3>1. /\ DOMAIN research.reports \subseteq Themes /\ DOMAIN reading.md \subseteq Themes
          /\ library.run \in 0..MaxResearchRuns
      BY ResearchAssumption DEF ResearchShape, ReadingShape, LibraryShape
    <3>2. \A t \in Themes : library.md[t].text \in Texts
      BY DEF LibraryShape
    <3>. QED
      BY <3>1, <3>2 DEF ResearchTypeOK, ResearchShape, LibraryShape, ReadingShape, Texts
  <2>2. WordsAreNotStale
    BY DEF WordsAreNotStale, ReaderIsServed
  <2>3. LibraryIsWhole
    BY DEF LibraryIsWhole, StatusVouches
  <2>4. ReaderIsNotMisled
    <3>. SUFFICES ASSUME reading.at = "read", reading.alone, NEW t \in DOMAIN reading.reports
                  PROVE  /\ SummaryForTheme(reading.reports[t], reading.md[t]) # "failure"
                         /\ Intact(reading.reports[t], reading.md[t])
                               => reading.md[t].text # "failure"
      BY DEF ReaderIsNotMisled
    <3>1. Agrees(reading.reports[t], reading.md[t])
      BY DEF ReadingShape, ReaderIsServed
    <3>. QED
      BY <3>1 DEF Agrees, SummaryForTheme, Intact, ClassifyThemeReport
  <2>5. GoodRunIsUsable
    <3>. SUFFICES ASSUME research.at = "idle", research.rc = 0, research.asked # <<>>
                  PROVE  /\ \A l \in {ThemeLocale[t] : t \in Range(research.asked)} :
                              \E t \in DOMAIN library.reports :
                                /\ ThemeLocale[t] = l
                                /\ ClassifyThemeReport(library.reports[t], library.md[t]) = "usable"
      BY DEF GoodRunIsUsable
    <3>1. /\ DOMAIN library.reports = Range(research.asked) /\ ~library.torn
          /\ \A l \in Locales : ~DeadLocale(library.reports, l)
      BY DEF GateJudgesTheLibrary
    <3>2. ASSUME NEW u \in Range(research.asked)
          PROVE  \E t \in DOMAIN library.reports :
                   /\ ThemeLocale[t] = ThemeLocale[u]
                   /\ ClassifyThemeReport(library.reports[t], library.md[t]) = "usable"
      <4>1. ThemeLocale[u] \in Locales
        BY ResearchAssumption DEF ResearchShape, Locales, Range
      <4>2. PICK t \in DOMAIN library.reports :
              ThemeLocale[t] = ThemeLocale[u] /\ library.reports[t].failure = ""
        BY <3>1, <4>1 DEF DeadLocale, Usable
      <4>3. Agrees(library.reports[t], library.md[t])
        BY <3>1 DEF StatusVouches
      <4>. QED
        BY <4>2, <4>3 DEF Agrees, ClassifyThemeReport
    <3>. QED
      BY <3>1, <3>2
  <2>. QED
    BY <2>1, <2>2, <2>3, <2>4, <2>5 DEF ResearchKeepsItsWord
<1>. QED
  BY <1>1, ResearchAlways, PTL
=============================================================================
