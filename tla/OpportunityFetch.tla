-------------------------- MODULE OpportunityFetch --------------------------
(***************************************************************************)
(* The fetch loop of `irc opportunity' (commands/opportunity_cmd.py,       *)
(* _build_rows): for every fund of a plan, a snapshot of its holdings is   *)
(* taken from data/fundamentals/<quarter>/, or probed, repaired or fetched *)
(* anew, at up to 1 + 3 * top_n + 4 calls a fund.                          *)
(*                                                                         *)
(*   1. the plan's state file names the funds an earlier, unfinished run   *)
(*      of the same plan has completed; they are credited;                 *)
(*   2. a preflight gate estimates the calls and refuses a plan over the   *)
(*      budget (exit 3);                                                   *)
(*   3. an advisory lock keyed on the plan excludes a second run of it     *)
(*      (one retry, then exit 4);                                          *)
(*   4. the loop takes the funds one by one and, after each active fund,   *)
(*      rewrites the state file; at the end it removes it.                 *)
(*                                                                         *)
(* A plan is keyed on the date of the run and its funds, so here on a day. *)
(* The kernel frees the lock of a process that dies.                       *)
(***************************************************************************)
EXTENDS Integers, FiniteSets

CONSTANTS
    Procs,          \* the processes that may run the command
    Active,         \* active funds, numbered by their place in scoring.json
    Foreign,        \* those whose holdings are mostly listed abroad
    Nav,            \* fund-level funds: net value and announcements only
    None,           \* no file
    TopN,           \* holdings in a snapshot (TOP_N_DEFAULT)
    Fresh,          \* days a snapshot is trusted (IRC_CACHE_FRESHNESS_DAYS)
    Budgets,        \* values of IRC_FETCH_BUDGET
    LastQuarter,    \* quarters 1..LastQuarter; bounds the disclosures
    LastDay,        \* days 1..LastDay; bounds the calendar
    MaxRuns,        \* bounds the runs started
    Midnight        \* may the day change under a run?

Funds    == Active \cup Nav
Quarters == 1..LastQuarter
Days     == 1..LastDay
Legs     == {"data", "information"}

\* The cached snapshot of a fund and a quarter, reduced to what the loop asks
\* of it: does a holding lack its data leg, which fund-level legs are there,
\* and when was it last probed (0: before day 1)?
Entries == [gap : BOOLEAN, legs : SUBSET Legs, probed : 0..LastDay]

ASSUME FundAssumption ==
    /\ Active \subseteq Nat /\ IsFiniteSet(Active) /\ Active \cap Nav = {}
    /\ Nav \subseteq Nat /\ IsFiniteSet(Nav) /\ Funds # {}
    /\ Foreign \subseteq Active
    /\ None \notin Procs \cup Entries
    /\ \A s \in SUBSET Active : s # None
ASSUME BoundAssumption ==
    /\ TopN \in Nat /\ Fresh \in Nat /\ MaxRuns \in Nat
    /\ Budgets \subseteq Nat
    /\ LastQuarter \in Nat \ {0} /\ LastDay \in Nat \ {0}
    /\ Midnight \in BOOLEAN

VARIABLES
    clock, disclosed,   \* today, and the latest quarter funds have disclosed
    cache,              \* fund -> quarter -> entry or None
    state,              \* day -> the completed funds its state file names, or None
    lock                \* day -> the process that holds the plan's lock, or None

world == <<clock, disclosed, cache, state, lock>>

VARIABLES
    pc,         \* each process's next step
    job,        \* its day, options, credited funds and copy of the state file
    todo,       \* the funds it has not come to
    cur,        \* the fund in hand
    hand,       \* its snapshot: an entry, its quarter and how it was come by
    calls,      \* calls made to the provider
    turned,     \* probes that ended in a full fetch
    runs        \* runs started

\* Never read by the program: the processes that waited for the lock while
\* another changed the cache or the state file, and whether the latest full
\* fetch of a fund on a day has reached the cache.
VARIABLES raced, fate

vars == <<world, pc, job, todo, cur, hand, calls, turned, runs, raced, fate>>

Waiting == {"gate", "lock", "retry"}
Looping == {"next", "probe", "cached", "build", "write", "save", "unlink", "close"}

Jobs  == [day : Days, rebuild : BOOLEAN, credit : SUBSET Active,
          items : SUBSET Active, planned : Nat]
Hands == [e : Entries \cup {None}, q : 0..LastQuarter,
          how : {"nothing", "credited", "cached", "built"}]
Fates == {"none", "kept", "lost"}

TypeOK ==
    /\ clock \in Days /\ disclosed \in Quarters
    /\ cache \in [Funds -> [Quarters -> Entries \cup {None}]]
    /\ state \in [Days -> {None} \cup SUBSET Active]
    /\ lock \in [Days -> Procs \cup {None}]
    /\ pc \in [Procs -> {"idle"} \cup Waiting \cup Looping]
    /\ job \in [Procs -> Jobs]
    /\ todo \in [Procs -> SUBSET Funds]
    /\ cur \in [Procs -> Funds]
    /\ hand \in [Procs -> Hands]
    /\ calls \in [Procs -> Nat] /\ turned \in [Procs -> Nat] /\ runs \in Nat
    /\ raced \subseteq Procs
    /\ fate \in [Days -> [Active -> Fates]]

NoHand == [e |-> None, q |-> 0, how |-> "nothing"]
NoJob  == [day |-> 1, rebuild |-> FALSE, credit |-> {}, items |-> {}, planned |-> 0]
First(S) == CHOOSE f \in S : \A g \in S : f <= g

\* Yesterday's cache: nothing, or a snapshot of the first quarter.
Init ==
    /\ clock = 1 /\ disclosed = 1
    /\ cache \in [Funds -> {[q \in Quarters |-> IF q = 1 THEN e ELSE None] :
                               e \in {None} \cup {x \in Entries : x.probed = 0}}]
    /\ \A f \in Funds : cache[f][1] # None =>
          /\ f \notin Foreign => cache[f][1].legs = {}
          /\ f \in Nav => ~cache[f][1].gap
    /\ state = [d \in Days |-> None]
    /\ lock = [d \in Days |-> None]
    /\ pc = [p \in Procs |-> "idle"]
    /\ job = [p \in Procs |-> NoJob]
    /\ todo = [p \in Procs |-> {}]
    /\ cur = [p \in Procs |-> First(Funds)]
    /\ hand = [p \in Procs |-> NoHand]
    /\ calls = [p \in Procs |-> 0] /\ turned = [p \in Procs |-> 0]
    /\ runs = 0
    /\ raced = {}
    /\ fate = [d \in Days |-> [f \in Active |-> "none"]]

Go(p, from, to) == pc[p] = from /\ pc' = [pc EXCEPT ![p] = to]

\* The process is gone, and what it knew with it; `finally', or the kernel,
\* frees the lock.
Leave(p) ==
    /\ pc' = [pc EXCEPT ![p] = "idle"]
    /\ lock' = [d \in Days |-> IF lock[d] = p THEN None ELSE lock[d]]
    /\ job' = [job EXCEPT ![p] = NoJob]
    /\ todo' = [todo EXCEPT ![p] = {}]
    /\ cur' = [cur EXCEPT ![p] = First(Funds)]
    /\ hand' = [hand EXCEPT ![p] = NoHand]
    /\ calls' = [calls EXCEPT ![p] = 0]
    /\ turned' = [turned EXCEPT ![p] = 0]
    /\ raced' = raced \ {p}
    /\ UNCHANGED <<clock, disclosed, cache, state, runs, fate>>

-----------------------------------------------------------------------------
(* The cache.                                                              *)

\* load_latest_active_fund_cached: the file of the latest quarter.
Held(f)   == {q \in Quarters : cache[f][q] # None}
Latest(f) == CHOOSE q \in Held(f) : \A r \in Held(f) : r <= q
Cached(f) == Held(f) # {}
Entry(f)  == cache[f][Latest(f)]

\* Older than the freshness days, or probed in the future.
Stale(e, d) == d - e.probed > Fresh \/ d < e.probed

LegMissing(f, e) == f \in Foreign /\ e.legs # Legs

\* What a process writes may change what one that waits has already read.
Disturb(p) == raced' = raced \cup {q \in Procs \ {p} : pc[q] \in Waiting}

Put(f, q, e) == cache' = [cache EXCEPT ![f][q] = e]

-----------------------------------------------------------------------------
(* Before the loop.                                                        *)

Items(d) == IF state[d] = None THEN {} ELSE state[d]

\* Reads the state file; the funds it names are credited.
Begin(p) ==
    /\ Go(p, "idle", "gate")
    /\ runs < MaxRuns /\ runs' = runs + 1
    /\ \E rebuild \in BOOLEAN :
          job' = [job EXCEPT ![p] =
                    [day |-> clock, rebuild |-> rebuild, credit |-> Items(clock),
                     items |-> Items(clock), planned |-> 0]]
    /\ todo' = [todo EXCEPT ![p] = Funds]
    /\ UNCHANGED <<world, cur, hand, calls, turned, raced, fate>>

PerFundLevel == 4
PerActive    == 1 + TopN * 3 + PerFundLevel

\* Bug: the repair of a cached snapshot is not in the plan.
ActiveCostBefore(p, f) ==
    LET j == job[p]
    IN  CASE f \in j.credit -> 0
          [] f \notin j.credit /\ (j.rebuild \/ ~Cached(f)) -> PerActive
          [] OTHER -> IF Entry(f).gap THEN PerActive
                      ELSE IF Stale(Entry(f), j.day) THEN 1 ELSE 0

\* What the gate expects a fund to cost.
ActiveCost(p, f) ==
    LET j == job[p]
    IN  CASE f \in j.credit -> 0
          [] f \notin j.credit /\ (j.rebuild \/ ~Cached(f)) -> PerActive
          [] OTHER -> IF Entry(f).gap THEN PerActive
                      ELSE (IF Stale(Entry(f), j.day) THEN 1 ELSE 0)
                           + (IF LegMissing(f, Entry(f)) THEN PerFundLevel ELSE 0)

NavCost(p, f) ==
    IF job[p].rebuild \/ ~Cached(f) \/ Stale(Entry(f), job[p].day)
    THEN PerFundLevel ELSE 0

\* The calls some funds are expected to take, each named by its fund and its
\* place among that fund's calls; the plan is as many as there are of them.
FundCost(p, f) == IF f \in Active THEN ActiveCost(p, f) ELSE NavCost(p, f)
Ahead(p, F)    == {c \in F \X (1..PerActive) : c[2] <= FundCost(p, c[1])}
Planned(p)     == Cardinality(Ahead(p, Funds))

\* FetchBudgetExceeded, exit 3, or on to the lock.
Gate(p) ==
    \E budget \in Budgets :
        \/ /\ pc[p] = "gate" /\ Planned(p) > budget
           /\ Leave(p)
        \/ /\ Go(p, "gate", "lock")
           /\ Planned(p) <= budget
           /\ job' = [job EXCEPT ![p].planned = Planned(p)]
           /\ UNCHANGED <<world, todo, cur, hand, calls, turned, runs, raced, fate>>

\* acquire_fetch_lock: LOCK_NB, once more after 100 ms, then exit 4.
Free(p) == lock[job[p].day] = None

Lock(p) ==
    /\ Free(p)
    /\ Go(p, "lock", "next") \/ Go(p, "retry", "next")
    /\ lock' = [lock EXCEPT ![job[p].day] = p]
    /\ UNCHANGED <<clock, disclosed, cache, state, job, todo, cur, hand, calls,
                   turned, runs, raced, fate>>

Busy(p) ==
    /\ ~Free(p)
    /\ \/ /\ Go(p, "lock", "retry")
          /\ UNCHANGED <<world, job, todo, cur, hand, calls, turned, runs, raced, fate>>
       \/ pc[p] = "retry" /\ Leave(p)

-----------------------------------------------------------------------------
(* The loop.                                                               *)

Cost(p, n) == calls' = [calls EXCEPT ![p] = @ + n]

Take(p, f, h, to) ==
    /\ Go(p, "next", to)
    /\ todo' = [todo EXCEPT ![p] = @ \ {f}]
    /\ cur' = [cur EXCEPT ![p] = f]
    /\ hand' = [hand EXCEPT ![p] = h]
    /\ UNCHANGED <<world, job, calls, turned, runs, raced, fate>>

Loaded(f, how) ==
    IF Cached(f) THEN [e |-> Entry(f), q |-> Latest(f), how |-> how]
                 ELSE [e |-> None, q |-> 0, how |-> how]

\* Already completed by the plan: whatever the cache has.
TakeCredited(p, f) ==
    /\ f \in job[p].credit
    /\ Take(p, f, Loaded(f, "credited"), "next")

\* Otherwise the cache serves, unless it is to be rebuilt, has nothing, or has
\* what only a full fetch can mend.
Usable(p, f) ==
    /\ ~job[p].rebuild
    /\ Cached(f)
    /\ f \in Active => ~Entry(f).gap
    /\ f \in Nav => ~Stale(Entry(f), job[p].day)

TakeToBuild(p, f) ==
    /\ f \notin job[p].credit
    /\ ~Usable(p, f)
    /\ Take(p, f, NoHand, "build")

\* A complete snapshot past its freshness is probed first.
TakeToProbe(p, f) ==
    /\ f \in Active \ job[p].credit
    /\ Usable(p, f) /\ Stale(Entry(f), job[p].day)
    /\ Take(p, f, Loaded(f, "cached"), "probe")

TakeCached(p, f) ==
    /\ f \notin job[p].credit
    /\ Usable(p, f) /\ ~Stale(Entry(f), job[p].day)
    /\ Take(p, f, Loaded(f, "cached"), IF f \in Active THEN "cached" ELSE "next")

NextFund(p) ==
    LET f == First(todo[p])
    IN  /\ todo[p] # {}
        /\ \/ TakeCredited(p, f) \/ TakeToBuild(p, f)
           \/ TakeToProbe(p, f) \/ TakeCached(p, f)

\* One call for the quarter: another one, none or an error leads to a full
\* fetch; the same one puts the date of the probe into the cache.
ProbeTurns(p) ==
    /\ Go(p, "probe", "build")
    /\ Cost(p, 1)
    /\ turned' = [turned EXCEPT ![p] = @ + 1]
    /\ UNCHANGED <<world, job, todo, cur, hand, runs, raced, fate>>

ProbeHolds(p) ==
    LET f == cur[p]
        h == hand[p]
        e == [h.e EXCEPT !.probed = job[p].day]
    IN  /\ Go(p, "probe", "cached")
        /\ h.q = disclosed
        /\ Cost(p, 1)
        /\ \/ /\ Put(f, h.q, e)
              /\ hand' = [hand EXCEPT ![p].e = e]
              /\ Disturb(p)
           \/ UNCHANGED <<cache, hand, raced>>      \* the write fails
        /\ UNCHANGED <<clock, disclosed, state, lock, job, todo, cur, turned,
                       runs, fate>>

\* A foreign-heavy fund whose fund-level legs are incomplete: four calls, and
\* what they bring is merged leg by leg into the snapshot served.
\* Bug: what they bring replaces the legs.
Replaced(legs, fresh) == fresh
Merged(legs, fresh)   == legs \cup fresh

Repair(p) ==
    LET f == cur[p]
        h == hand[p]
    IN  /\ Go(p, "cached", "save")
        /\ LegMissing(f, h.e)
        /\ Cost(p, PerFundLevel)
        /\ \E fresh \in SUBSET Legs :
              LET e == [h.e EXCEPT !.legs = Merged(@, fresh)]
              IN  /\ hand' = [hand EXCEPT ![p].e = e]
                  /\ \/ fresh # {} /\ Put(f, h.q, e) /\ Disturb(p)
                     \/ UNCHANGED <<cache, raced>>  \* nothing new, or it fails
        /\ UNCHANGED <<clock, disclosed, state, lock, job, todo, cur, turned,
                       runs, fate>>

NoRepair(p) ==
    /\ Go(p, "cached", "save")
    /\ ~LegMissing(cur[p], hand[p].e)
    /\ UNCHANGED <<world, job, todo, cur, hand, calls, turned, runs, raced, fate>>

\* Bug: the date of the fetch is not put into the snapshot.
BuildUnstamped(p) ==
    LET f == cur[p]
    IN  /\ Go(p, "build", "write")
        /\ Cost(p, IF f \in Active THEN PerActive ELSE PerFundLevel)
        /\ \E q \in {0, disclosed},
              gap \in (IF f \in Active THEN BOOLEAN ELSE {FALSE}),
              legs \in (IF f \in Foreign THEN SUBSET Legs ELSE {{}}) :
              hand' = [hand EXCEPT ![p] =
                         [e |-> [gap |-> gap, legs |-> legs, probed |-> 0],
                          q |-> q, how |-> "built"]]
        /\ UNCHANGED <<world, job, todo, cur, turned, runs, raced, fate>>

\* build_snapshot: the latest disclosed quarter, complete or not.  One whose
\* quarter is unknown (0) is not cached.
Build(p) ==
    LET f == cur[p]
    IN  /\ Go(p, "build", "write")
        /\ Cost(p, IF f \in Active THEN PerActive ELSE PerFundLevel)
        /\ \E q \in {0, disclosed},
              gap \in (IF f \in Active THEN BOOLEAN ELSE {FALSE}),
              legs \in (IF f \in Foreign THEN SUBSET Legs ELSE {{}}) :
              hand' = [hand EXCEPT ![p] =
                         [e |-> [gap |-> gap, legs |-> legs, probed |-> job[p].day],
                          q |-> q, how |-> "built"]]
        /\ UNCHANGED <<world, job, todo, cur, turned, runs, raced, fate>>

Ended(p, how) ==
    fate' = IF cur[p] \in Active THEN [fate EXCEPT ![job[p].day][cur[p]] = how]
                                 ELSE fate

\* Bug: fund-level funds go into the state file too.
WriteCacheAndSave(p) ==
    /\ Go(p, "write", "save")
    /\ \/ /\ hand[p].q # 0
          /\ Put(cur[p], hand[p].q, hand[p].e)
          /\ Disturb(p)
          /\ Ended(p, "kept")
       \/ /\ UNCHANGED <<cache, raced>>
          /\ Ended(p, "lost")
    /\ UNCHANGED <<clock, disclosed, state, lock, job, todo, cur, hand, calls,
                   turned, runs>>

\* write_active_fund_cache or write_nav_cache; a failure is noted and ignored.
WriteCache(p) ==
    /\ Go(p, "write", IF cur[p] \in Active THEN "save" ELSE "next")
    /\ \/ /\ hand[p].q # 0
          /\ Put(cur[p], hand[p].q, hand[p].e)
          /\ Disturb(p)
          /\ Ended(p, "kept")
       \/ /\ UNCHANGED <<cache, raced>>
          /\ Ended(p, "lost")
    /\ UNCHANGED <<clock, disclosed, state, lock, job, todo, cur, hand, calls,
                   turned, runs>>

\* _write_state_complete: the whole file, from the process's own copy.
SaveState(p) ==
    LET items == job[p].items \cup {cur[p]}
    IN  /\ Go(p, "save", "next")
        /\ job' = [job EXCEPT ![p].items = items]
        /\ state' = [state EXCEPT ![job[p].day] = items]
        /\ hand' = [hand EXCEPT ![p] = NoHand]
        /\ Disturb(p)
        /\ UNCHANGED <<clock, disclosed, cache, lock, todo, cur, calls, turned,
                       runs, fate>>

EndLoop(p) ==
    /\ Go(p, "next", "unlink")
    /\ todo[p] = {}
    /\ UNCHANGED <<world, job, todo, cur, hand, calls, turned, runs, raced, fate>>

Unlink(p) ==
    /\ Go(p, "unlink", "close")
    /\ state' = [state EXCEPT ![job[p].day] = None]
    /\ Disturb(p)
    /\ UNCHANGED <<clock, disclosed, cache, lock, job, todo, cur, hand, calls,
                   turned, runs, fate>>

Close(p) == pc[p] = "close" /\ Leave(p)

\* An exception, or a kill.
Die(p) == pc[p] # "idle" /\ Leave(p)

-----------------------------------------------------------------------------
Tick ==
    /\ clock < LastDay
    /\ Midnight \/ \A p \in Procs : pc[p] = "idle"
    /\ clock' = clock + 1
    /\ UNCHANGED <<disclosed, cache, state, lock, pc, job, todo, cur, hand,
                   calls, turned, runs, raced, fate>>

Disclose ==
    /\ disclosed < LastQuarter
    /\ disclosed' = disclosed + 1
    /\ UNCHANGED <<clock, cache, state, lock, pc, job, todo, cur, hand, calls,
                   turned, runs, raced, fate>>

Step(p) ==
    \/ Gate(p) \/ Lock(p) \/ Busy(p) \/ NextFund(p)
    \/ ProbeTurns(p) \/ ProbeHolds(p) \/ Repair(p) \/ NoRepair(p)
    \/ Build(p) \/ WriteCache(p) \/ SaveState(p)
    \/ EndLoop(p) \/ Unlink(p) \/ Close(p)

Next == Tick \/ Disclose \/ \E p \in Procs : Begin(p) \/ Step(p) \/ Die(p)

Spec == Init /\ [][Next]_vars

-----------------------------------------------------------------------------
(* What the lock, the state file and the gate give.                        *)

\* No two runs of a plan are in the loop at once.
OneFetcher ==
    \A p \in Procs : pc[p] \in Looping =>
        /\ lock[job[p].day] = p
        /\ \A q \in Procs \ {p} :
              pc[q] \in Looping => job[q].day # job[p].day

\* A fund the state file names is not fetched again -- unless the run read the
\* file before another run of the plan changed it.
CompletedIsNotRefetched ==
    \A p \in Procs \ raced :
        pc[p] = "build" /\ cur[p] \in Active => cur[p] \notin Items(job[p].day)

\* A run makes no more calls than its gate let through, full fetches that a
\* probe called for apart -- unless it raced another run for the lock.
CallsWithinPlan ==
    \A p \in Procs \ raced : pc[p] \in Looping =>
        calls[p] <= job[p].planned + PerActive * turned[p]

\* A credited fund whose snapshot reached the cache is served a snapshot that
\* was fetched or probed on the day of the plan.
CreditIsBacked ==
    \A p \in Procs :
        /\ pc[p] = "next" /\ hand[p].how = "credited"
        /\ fate[job[p].day][cur[p]] = "kept"
        => hand[p].e # None /\ hand[p].e.probed = job[p].day

\* Only a full fetch can take a leg away from a cached snapshot; its probe
\* date does not go back, and it does not disappear.
CacheOnlyImproves ==
    [][\A f \in Funds, q \in Quarters :
         cache[f][q] # None =>
            /\ cache'[f][q] # None
            /\ cache'[f][q].probed >= cache[f][q].probed
            /\ \/ cache[f][q].legs \subseteq cache'[f][q].legs
               \/ \E p \in Procs : pc[p] = "write"]_vars

\* One run at a time is in the loop, a fund the plan has done is not fetched
\* again and a run makes the calls its gate let through and no more: what the
\* lock, the state file and the gate are for, however two runs and a death
\* interleave.
NoCallIsWasted == OneFetcher /\ CompletedIsNotRefetched /\ CallsWithinPlan
=============================================================================
