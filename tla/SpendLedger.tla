---------------------------- MODULE SpendLedger -----------------------------
(***************************************************************************)
(* The spend gate and the ledger behind it.                                *)
(*                                                                         *)
(* A paid command first asks the gate: for every search provider it may    *)
(* use, what is left -- a quota per period, or a wallet since it was last  *)
(* topped up, less what data/spend/consumption.json counts -- must cover   *)
(* the estimate.  Then it works, and at its end adds what it used to the   *)
(* day's spend_actuals.json and to the consumption file, reading and       *)
(* writing each without a lock.  Two commands may run at once; one may die *)
(* or lose its count at any point; midnight and the first day of a period  *)
(* may pass within a command.                                              *)
(*                                                                         *)
(* The language-model providers, whose balances are probed, never block on *)
(* the ledger; the learned usage profile only prices their estimates.      *)
(***************************************************************************)
EXTENDS Integers, Sequences

CONSTANTS
    Calendar,     \* the dates the clock goes through
    ResetDay,     \* reset_day of every quota
    Providers, Quotas,  \* the search providers; those with a quota, not a wallet
    Allowance,    \* provider -> quota, or balance after every top-up
    Need,         \* provider -> estimate times margin
    Price,        \* provider -> price of a query (a page, of jina)
    Unit,         \* one unit of a balance; all four in a fraction of it, as 0.001
    Usages,       \* what a command may use: provider -> units
    Procs,        \* processes, each running one command at a time
    MaxCommands,  \* bounds the commands
    MaxTopUps     \* bounds the top-ups

Date == [y : Nat, m : 1..12, d : 1..31]

\* Dates in order: a month has at most 31 days.
Ord(x)       == (x.y * 12 + x.m) * 31 + x.d
Before(a, b) == Ord(a) < Ord(b)

ASSUME CalendarAssumption ==
    /\ Calendar \in Seq(Date) /\ Len(Calendar) > 0
    /\ \A i, j \in 1..Len(Calendar) : i < j => Before(Calendar[i], Calendar[j])
    /\ \A i \in 1..Len(Calendar) : Calendar[i].y > 0
    /\ ResetDay \in 1..28
ASSUME SpendAssumption ==
    /\ Quotas \subseteq Providers
    /\ Allowance \in [Providers -> Nat] /\ Need \in [Providers -> Nat]
    /\ Price \in [Providers -> Nat \ {0}] /\ Unit \in Nat \ {0}
    /\ Usages \subseteq [Providers -> Nat]
    /\ \A p \in Providers : \E u \in Usages : \A v \in Usages : v[p] <= u[p]
    /\ MaxCommands \in Nat /\ MaxTopUps \in Nat

VARIABLES
    now,          \* index into Calendar
    asOf,         \* provider -> date of the last top-up, in spend_balances.yaml
    ledger,       \* consumption.json: provider -> row, None where there is none
    actuals,      \* spend_actuals.json by day: provider -> units
    pc, today,    \* of a process: control, date taken at its start,
    units, seen,  \* what it used, the file it read before it writes
    commands, topUps

files == <<asOf, ledger, actuals>>
procs == <<pc, today, units, seen>>

\* Never read by the program: the cost incurred in the period (of a quota) or
\* since the top-up (of a wallet), what of it is still to be recorded, by
\* process, and what never was; the units used ever, and whether two commands
\* were ever under way at once.
VARIABLES used, due, lost, ever, raced

ghosts == <<used, due, lost, ever, raced>>
vars == <<now, files, procs, commands, topUps, ghosts>>

None == [n |-> 0, stamp |-> 0]
Row  == [n : Nat, stamp : 1..Len(Calendar)]
Nil  == [p \in Providers |-> 0]
PCs  == {"idle", "work", "merge", "merging", "read", "write"}

TypeOK ==
    /\ now \in 1..Len(Calendar)
    /\ asOf \in [Providers -> 1..Len(Calendar)]
    /\ ledger \in [Providers -> Row \cup {None}]
    /\ actuals \in [1..Len(Calendar) -> [Providers -> Nat]]
    /\ pc \in [Procs -> PCs]
    /\ today \in [Procs -> 1..Len(Calendar)]
    /\ units \in [Procs -> [Providers -> Nat]]
    /\ seen \in [Procs -> [Providers -> Row \cup {None}]]
    /\ commands \in 0..MaxCommands /\ topUps \in 0..MaxTopUps
    /\ due \in [Procs -> [Providers -> Nat]]
    /\ used \in [Providers -> Nat] /\ lost \in [Providers -> Nat]
    /\ ever \in [Providers -> Nat] /\ raced \in BOOLEAN

Init ==
    /\ now = 1
    /\ asOf = [p \in Providers |-> 1]
    /\ ledger = [p \in Providers |-> None]
    /\ actuals = [i \in 1..Len(Calendar) |-> Nil]
    /\ pc = [c \in Procs |-> "idle"]
    /\ today = [c \in Procs |-> 1]
    /\ units = [c \in Procs |-> Nil]
    /\ seen = [c \in Procs |-> [p \in Providers |-> None]]
    /\ commands = 0 /\ topUps = 0
    /\ due = [c \in Procs |-> Nil]
    /\ used = Nil /\ lost = Nil /\ ever = Nil /\ raced = FALSE

\* A reset day falls after a, on b or before it.
ResetDate(y, m) == [y |-> y, m |-> m, d |-> ResetDay]
NewPeriod(a, b) ==
    \E y \in a.y..b.y, m \in 1..12 :
        Before(a, ResetDate(y, m)) /\ ~Before(b, ResetDate(y, m))

-----------------------------------------------------------------------------
(* Reading the ledger.                                                     *)

\* _period_start: this month's reset day, or last month's until it has come.
PeriodStart(t) ==
    IF t.d >= ResetDay THEN ResetDate(t.y, t.m)
    ELSE IF t.m = 1 THEN ResetDate(t.y - 1, 12)
    ELSE ResetDate(t.y, t.m - 1)

\* Mutants: a row is never too old; one stamped on the first day of the
\* period is; a wallet's top-up is never noticed.
CountsForever(p, rows, i) == rows[p] # None
CountsLater(p, rows, i) ==
    /\ rows[p] # None
    /\ IF p \in Quotas THEN Before(PeriodStart(Calendar[i]), Calendar[rows[p].stamp])
       ELSE rows[p].stamp >= asOf[p]

\* _quota_reading and _wallet_reading: whether a row counts at all on day i.
Counts(p, rows, i) ==
    /\ rows[p] # None
    /\ IF p \in Quotas
       THEN ~Before(Calendar[rows[p].stamp], PeriodStart(Calendar[i]))
       ELSE rows[p].stamp >= asOf[p]

Consumed(p) == IF Counts(p, ledger, now) THEN ledger[p].n ELSE 0

\* The ledger takes queries off a balance: each as a unit, whatever its price.
Taken(p)  == Unit * Consumed(p)
Amount(p) == Allowance[p] - Taken(p)

\* A mutant: any balance will do.
AffordsAny(p) == Amount(p) > 0

\* _verdict: what is left covers the estimate, and something is left.
Affords(p) == Amount(p) > 0 /\ Amount(p) >= Need[p]

-----------------------------------------------------------------------------
(* A command.                                                              *)

Step(c, from, to) == pc[c] = from /\ pc' = [pc EXCEPT ![c] = to]

\* A process ends, and what it held with it.
Exit(c) ==
    /\ pc' = [pc EXCEPT ![c] = "idle"]
    /\ today' = [today EXCEPT ![c] = 1]
    /\ units' = [units EXCEPT ![c] = Nil]
    /\ seen' = [seen EXCEPT ![c] = [p \in Providers |-> None]]
    /\ due' = [due EXCEPT ![c] = Nil]

Alone(c) == \A o \in Procs \ {c} : pc[o] = "idle"

\* preflight_gate lets the command through, whatever it will use.
Pass(c) ==
    /\ Step(c, "idle", "work")
    /\ commands < MaxCommands /\ commands' = commands + 1
    /\ \A p \in Providers : Affords(p)
    /\ today' = [today EXCEPT ![c] = now]
    /\ raced' = (raced \/ ~Alone(c))
    /\ UNCHANGED <<now, files, units, seen, topUps, used, due, lost, ever>>

Cost(u, p) == Price[p] * u[p]

\* The command uses the providers, and keeps count.
Work(c) ==
    /\ Step(c, "work", "merge")
    /\ \E u \in Usages :
          /\ units' = [units EXCEPT ![c] = u]
          /\ used' = [p \in Providers |-> used[p] + Cost(u, p)]
          /\ due' = [due EXCEPT ![c] = [p \in Providers |-> Cost(u, p)]]
          /\ ever' = [p \in Providers |-> ever[p] + u[p]]
    /\ UNCHANGED <<now, files, today, seen, commands, topUps, lost, raced>>

\* It raises before its counts reach the recorder, or it counts nothing at
\* all, as monitor does.
WorkUncounted(c) ==
    /\ pc[c] = "work" /\ Exit(c)
    /\ \E u \in Usages :
          /\ used' = [p \in Providers |-> used[p] + Cost(u, p)]
          /\ lost' = [p \in Providers |-> lost[p] + Cost(u, p)]
          /\ ever' = [p \in Providers |-> ever[p] + u[p]]
    /\ UNCHANGED <<now, files, commands, topUps, raced>>

\* record_command_run, first the actuals of the day it began on; the usage
\* profile next is left out.  Nothing used, nothing recorded.
ReadActuals(c) ==
    /\ units[c] # Nil
    /\ Step(c, "merge", "merging")
    /\ seen' = [seen EXCEPT ![c] =
                  [p \in Providers |-> [n |-> actuals[today[c]][p], stamp |-> 1]]]
    /\ UNCHANGED <<now, files, today, units, commands, topUps, ghosts>>

NothingToRecord(c) ==
    /\ units[c] = Nil
    /\ pc[c] = "merge" /\ Exit(c)
    /\ UNCHANGED <<now, files, commands, topUps, used, lost, ever, raced>>

\* merge_actuals_dict.
Merged(old, u) == [p \in Providers |-> old[p].n + u[p]]

WriteActuals(c) ==
    /\ Step(c, "merging", "read")
    /\ actuals' = [actuals EXCEPT ![today[c]] = Merged(seen[c], units[c])]
    /\ seen' = [seen EXCEPT ![c] = [p \in Providers |-> None]]
    /\ UNCHANGED <<now, asOf, ledger, today, units, commands, topUps, ghosts>>

ReadLedger(c) ==
    /\ Step(c, "read", "write")
    /\ seen' = [seen EXCEPT ![c] = ledger]
    /\ UNCHANGED <<now, files, today, units, commands, topUps, ghosts>>

\* A mutant: usage is taken off, not added.
AppliedOff(row, n, day) ==
    [n |-> row.n - n, stamp |-> IF row = None THEN day ELSE row.stamp]
\* apply_usage: the stamp is that of the first write, for good.
Applied(row, n, day) ==
    [n |-> row.n + n, stamp |-> IF row = None THEN day ELSE row.stamp]

\* Providers the command did not use keep their rows.
WriteLedger(c) ==
    /\ pc[c] = "write" /\ Exit(c)
    /\ ledger' = [p \in Providers |->
                    IF units[c][p] = 0 THEN seen[c][p]
                    ELSE Applied(seen[c][p], units[c][p], today[c])]
    /\ UNCHANGED <<now, asOf, actuals, commands, topUps, used, lost, ever, raced>>

\* The command dies, or its recorder does, before the ledger is written.
Abandon(c) ==
    /\ pc[c] \in {"merge", "merging", "read", "write"}
    /\ Exit(c)
    /\ lost' = [p \in Providers |-> lost[p] + due[c][p]]
    /\ UNCHANGED <<now, files, commands, topUps, used, ever, raced>>

-----------------------------------------------------------------------------
(* The clock and the operator.                                             *)

Tick ==
    /\ now < Len(Calendar)
    /\ now' = now + 1
    /\ LET new == NewPeriod(Calendar[now], Calendar[now'])
           Fresh(f) == [p \in Providers |-> IF new /\ p \in Quotas THEN 0 ELSE f[p]]
       IN /\ used' = Fresh(used) /\ lost' = Fresh(lost)
          /\ due' = [c \in Procs |-> Fresh(due[c])]
    /\ UNCHANGED <<files, procs, commands, topUps, ever, raced>>

\* The operator tops a wallet up and edits its balance and as_of.
TopUp(p) ==
    /\ topUps < MaxTopUps /\ topUps' = topUps + 1
    /\ asOf' = [asOf EXCEPT ![p] = now]
    /\ used' = [used EXCEPT ![p] = 0] /\ lost' = [lost EXCEPT ![p] = 0]
    /\ due' = [c \in Procs |-> [due[c] EXCEPT ![p] = 0]]
    /\ UNCHANGED <<now, ledger, actuals, procs, commands, ever, raced>>

Command(c) ==
    \/ Pass(c) \/ Work(c) \/ WorkUncounted(c)
    \/ ReadActuals(c) \/ NothingToRecord(c) \/ WriteActuals(c)
    \/ ReadLedger(c) \/ WriteLedger(c) \/ Abandon(c)

Next ==
    \/ Tick
    \/ \E p \in Providers \ Quotas : TopUp(p)
    \/ \E c \in Procs : Command(c)

Spec == Init /\ [][Next]_vars

-----------------------------------------------------------------------------
(* Properties.  record_command_run documents that it is meant for commands *)
(* that run one after the other: most of the following are about these.    *)

Quiet == \A c \in Procs : pc[c] \in {"idle", "work"}

\* No row was ever written for the quota, or one stamped in this period.
Current(p) ==
    ledger[p] = None \/ ~NewPeriod(Calendar[ledger[p].stamp], Calendar[now])

\* The gate never refuses a command for queries made before the period began
\* or the wallet was topped up: those it counts cost no more than was spent
\* since, and where a query costs a unit or more, no more is taken for them.  A
\* cheaper one is taken for a unit all the same (bocha's, of 0.036).  Not of a
\* wallet topped up on the day its row was stamped (ledger.py:28), whose
\* earlier queries are counted.
NothingOldIsCharged ==
    ~raced => \A p \in Providers :
        \/ p \notin Quotas /\ ledger[p].stamp = asOf[p]
        \/ /\ Price[p] * Consumed(p) <= used[p]
           /\ Unit <= Price[p] => Taken(p) <= used[p]

\* Until the first row of a provider is out of date, the reading is exact:
\* what is spent is what the ledger counts, and what was never recorded.
ExactWhileCurrent ==
    ~raced /\ Quiet => \A p \in Quotas :
        Current(p) => Price[p] * Consumed(p) + lost[p] = used[p]

\* The same at all times: "when the calendar has rolled past `reset_day`, the
\* machine zeroes `consumed_this_period` and advances `period_start`"
\* (2026-06-05-spend-balance-gate-design.md:251).
ExactInEveryPeriod ==
    ~raced /\ Quiet => \A p \in Quotas : Price[p] * Consumed(p) + lost[p] = used[p]

\* The gate keeps a quota from being overdrawn by more than one command's use
\* beyond its estimate, and by what was never recorded: of as many queries as
\* there are units beside the estimate.  A query dearer than a unit (tavily's,
\* of two credits) overdraws the quota by as much again.
Most(p) == CHOOSE n \in {u[p] : u \in Usages} : \A u \in Usages : u[p] <= n
Room(p) == (Price[p] * (Allowance[p] - Need[p])) \div Unit
OverdraftIsBounded ==
    ~raced => \A p \in Quotas :
        Current(p) /\ Need[p] <= Allowance[p] =>
            used[p] <= Room(p) + Price[p] * Most(p) + lost[p]

\* The actuals are recorded before the ledger: what the ledger counts is in
\* some day's actuals, wherever the recorder was killed.
SumUpTo[i \in 0..Len(Calendar)] ==
    IF i = 0 THEN Nil ELSE [p \in Providers |-> SumUpTo[i-1][p] + actuals[i][p]]
LedgerIsInActuals ==
    ~raced => \A p \in Providers : ledger[p].n <= SumUpTo[Len(Calendar)][p]

\* Commands that overlap may lose each other's counts ("a lost update ... is a
\* tolerated ... miss", record_run.py:30) but never count a unit twice.
RacesOnlyForget == \A p \in Providers : ledger[p].n <= ever[p]

\* What the ledger counts was spent once and is in the actuals, and what it
\* fails to count lets a command overdraw a quota by no more than itself.
LedgerIsBacked == RacesOnlyForget /\ LedgerIsInActuals /\ OverdraftIsBounded
=============================================================================
