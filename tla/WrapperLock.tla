----------------------------- MODULE WrapperLock -----------------------------
(***************************************************************************)
(* The launchd wrappers (ops/launchd/run-weekly.sh, run-monitor.sh): skip  *)
(* a day whose sentinel exists, take a lock that is a directory with a pid *)
(* file in it (lib-run.sh, acquire_lock), run one irc command in a process *)
(* group of its own under a watchdog (run_with_watchdog), report, and      *)
(* remove the lock in an EXIT trap.                                        *)
(*                                                                         *)
(* Every system call on the lock directory is a step: mkdir, the write and *)
(* the reading of the pid file, and the two calls of `rm -rf'.  The shell  *)
(* may be killed at any step; its EXIT trap does not run and its command,  *)
(* being in another process group, goes on.                                *)
(***************************************************************************)
EXTENDS Naturals, FiniteSets

CONSTANTS
    Fires,      \* the wrapper processes of a day, each named by its pid
    NoPid,      \* an absent or empty pid file
    Kills,      \* may a wrapper be killed?
    Manual      \* may the operator start the command without a wrapper?

ASSUME LockAssumption ==
    /\ IsFiniteSet(Fires) /\ NoPid \notin Fires
    /\ Kills \in BOOLEAN /\ Manual \in BOOLEAN

VARIABLES
    pc,         \* what each wrapper does next
    lock,       \* [dir |-> does the directory exist, pid |-> its pid file]
    child,      \* each wrapper's irc command
    rc,         \* what run_with_watchdog returned
    sentinel,   \* does the last output of today's run exist?
    misread     \* never read: has a wrapper read the pid file while the lock
                \* was changing hands, and taken it for stale?

vars == <<pc, lock, child, rc, sentinel, misread>>

Taking    == {"mkdir", "pid", "cat", "rmpid", "rmdir", "mkdir again"}
Holding   == {"start", "watch", "tail"}
Releasing == {"trap rmpid", "trap rmdir"}
Over      == {"unborn", "skipped", "done", "killed"}
Command   == {"none", "running", "ok", "failed", "terminated"}

TypeOK ==
    /\ pc \in [Fires -> {"sentinel"} \cup Taking \cup Holding \cup Releasing \cup Over]
    /\ lock \in [dir : BOOLEAN, pid : Fires \cup {NoPid}]
    /\ child \in [Fires -> Command]
    /\ rc \in [Fires -> {"none", "ok", "failed", "124"}]
    /\ sentinel \in BOOLEAN /\ misread \in BOOLEAN

Alive(p) == pc[p] \notin Over

Init ==
    /\ pc = [p \in Fires |-> "unborn"]
    /\ lock = [dir |-> FALSE, pid |-> NoPid]
    /\ child = [p \in Fires |-> "none"]
    /\ rc = [p \in Fires |-> "none"]
    /\ sentinel = FALSE /\ misread = FALSE

Go(p, from, to) == pc[p] = from /\ pc' = [pc EXCEPT ![p] = to]

Fire(p) ==
    /\ Go(p, "unborn", "sentinel")
    /\ UNCHANGED <<lock, child, rc, sentinel, misread>>

CheckSentinel(p) ==
    /\ \/ sentinel /\ Go(p, "sentinel", "skipped")
       \/ ~sentinel /\ Go(p, "sentinel", "mkdir")
    /\ UNCHANGED <<lock, child, rc, sentinel, misread>>

-----------------------------------------------------------------------------
(* acquire_lock                                                            *)

\* mkdir, the first attempt and the one after a reclaim.
MakeDir(p, from, otherwise) ==
    /\ \/ /\ ~lock.dir
          /\ lock' = [dir |-> TRUE, pid |-> NoPid]
          /\ Go(p, from, "pid")
       \/ /\ lock.dir
          /\ lock' = lock
          /\ Go(p, from, otherwise)
    /\ UNCHANGED <<child, rc, sentinel, misread>>

TryLock(p)   == MakeDir(p, "mkdir", "cat")
TryAgain(p)  == MakeDir(p, "mkdir again", "skipped")

\* echo $$ > pid, and the trap.  If the directory has gone meanwhile the
\* redirection fails and, `set -e' being off under `acquire_lock ... ||',
\* the function returns 0 all the same.
WritePid(p) ==
    /\ Go(p, "pid", "start")
    /\ lock' = IF lock.dir THEN [lock EXCEPT !.pid = p] ELSE lock
    /\ UNCHANGED <<child, rc, sentinel, misread>>

\* The lock is gone, or another wrapper is making it, removing a stale one or
\* releasing its own.
ChangesHands(p) ==
    \/ ~lock.dir
    \/ \E q \in Fires \ {p} : pc[q] \in {"pid", "rmpid", "rmdir"} \cup Releasing

\* Bug: the holder is not asked after.
ReadPidBlindly(p) ==
    /\ Go(p, "cat", "rmpid")
    /\ misread' = (misread \/ ChangesHands(p))
    /\ UNCHANGED <<lock, child, rc, sentinel>>

\* cat pid and kill -0.  An absent or empty pid file is a holder that is gone.
ReadPid(p) ==
    /\ \/ /\ lock.pid # NoPid /\ Alive(lock.pid)
          /\ Go(p, "cat", "skipped")
          /\ misread' = misread
       \/ /\ ~(lock.pid # NoPid /\ Alive(lock.pid))
          /\ Go(p, "cat", "rmpid")
          /\ misread' = (misread \/ ChangesHands(p))
    /\ UNCHANGED <<lock, child, rc, sentinel>>

\* rm -rf unlinks the pid file, then the directory; rmdir fails on a
\* directory into which a pid has been written in between.
RemovePid(p, from, to) ==
    /\ Go(p, from, to)
    /\ lock' = [lock EXCEPT !.pid = NoPid]
    /\ UNCHANGED <<child, rc, sentinel, misread>>

RemoveDir(p, from, to) ==
    /\ Go(p, from, to)
    /\ lock' = IF lock.pid = NoPid THEN [lock EXCEPT !.dir = FALSE] ELSE lock
    /\ UNCHANGED <<child, rc, sentinel, misread>>

Reclaim(p) == \/ RemovePid(p, "rmpid", "rmdir")
              \/ RemoveDir(p, "rmdir", "mkdir again")

-----------------------------------------------------------------------------
(* run_with_watchdog                                                       *)

StartCommand(p) ==
    /\ Go(p, "start", "watch")
    /\ child' = [child EXCEPT ![p] = "running"]
    /\ UNCHANGED <<lock, rc, sentinel, misread>>

\* The command ends of itself.  One that succeeds has written the sentinel,
\* and one that fails late may have.
CommandEnds(p) ==
    /\ child[p] = "running"
    /\ \E how \in {"ok", "failed"} :
          /\ child' = [child EXCEPT ![p] = how]
          /\ sentinel' \in IF how = "ok" THEN {TRUE} ELSE {sentinel, TRUE}
    /\ UNCHANGED <<pc, lock, rc, misread>>

\* The poll finds the command gone: wait for its return code.
Collect(p) ==
    /\ child[p] # "running"
    /\ Go(p, "watch", "tail")
    /\ rc' = [rc EXCEPT ![p] = IF child[p] = "ok" THEN "ok" ELSE "failed"]
    /\ UNCHANGED <<lock, child, sentinel, misread>>

\* Bug: only the leader of the group gets the signal, and the worker lives on.
TimeoutLeaderOnly(p) ==
    /\ Go(p, "watch", "tail")
    /\ rc' = [rc EXCEPT ![p] = "124"]
    /\ UNCHANGED <<lock, child, sentinel, misread>>

\* Bug: the return code is that of the terminated command.
TimeoutRaw(p) ==
    /\ Go(p, "watch", "tail")
    /\ rc' = [rc EXCEPT ![p] = "143"]
    /\ child' = [child EXCEPT ![p] = IF @ = "running" THEN "terminated" ELSE @]
    /\ UNCHANGED <<lock, sentinel, misread>>

\* Bug: the clock is never read.
TimeoutNever(p) == FALSE

\* The poll found the command running and the time is up: TERM, then KILL, to
\* the whole group.  The command may have ended since the poll.
Timeout(p) ==
    /\ Go(p, "watch", "tail")
    /\ rc' = [rc EXCEPT ![p] = "124"]
    /\ child' = [child EXCEPT ![p] = IF @ = "running" THEN "terminated" ELSE @]
    /\ UNCHANGED <<lock, sentinel, misread>>

\* notify-status and, weekly, the evaluation refreshes; then exit.
Report(p) ==
    /\ Go(p, "tail", "trap rmpid")
    /\ UNCHANGED <<lock, child, rc, sentinel, misread>>

\* The EXIT trap removes whatever lock is there.
Release(p) == \/ RemovePid(p, "trap rmpid", "trap rmdir")
              \/ RemoveDir(p, "trap rmdir", "done")

-----------------------------------------------------------------------------
Kill(p) ==
    /\ Kills
    /\ Alive(p)
    /\ pc' = [pc EXCEPT ![p] = "killed"]
    /\ UNCHANGED <<lock, child, rc, sentinel, misread>>

\* `irc run' or `irc monitor' from a terminal takes no lock: all a wrapper
\* sees of it is its last output.
ManualRun ==
    /\ Manual
    /\ sentinel' = TRUE
    /\ UNCHANGED <<pc, lock, child, rc, misread>>

Acquire(p) == TryLock(p) \/ WritePid(p) \/ ReadPid(p) \/ Reclaim(p) \/ TryAgain(p)
Shell(p) ==
    \/ CheckSentinel(p) \/ Acquire(p)
    \/ StartCommand(p) \/ Collect(p) \/ Report(p) \/ Release(p)

Next ==
    \/ \E p \in Fires : Fire(p) \/ Shell(p) \/ CommandEnds(p) \/ Timeout(p) \/ Kill(p)
    \/ ManualRun

Spec == Init /\ [][Next]_vars

\* A live shell goes on, and its watchdog's clock runs.  Nothing is asked of
\* the command: it may hang.
FairSpec == Spec /\ \A p \in Fires : WF_vars(Shell(p) \/ Timeout(p))

-----------------------------------------------------------------------------
(* What the lock and the watchdog give.                                    *)

\* However wrappers interleave and die, no two live ones hold the lock, and
\* the one that does still finds its own pid in it: unless a wrapper has read
\* the pid file while the lock was changing hands (lib-run.sh:31).
OneHolder ==
    ~misread => \A p \in Fires : pc[p] \in Holding =>
        /\ lock = [dir |-> TRUE, pid |-> p]
        /\ \A q \in Fires \ {p} : pc[q] \notin Holding

\* A wrapper that has gone on to report, or has ended of itself, has left no
\* command running behind it.
NoCommandLeftBehind ==
    \A p \in Fires :
        pc[p] \in {"tail", "done"} \cup Releasing => child[p] # "running"

\* A command reported as good did run to its end, and the sentinel is there.
RcZeroMeansDone ==
    \A p \in Fires : rc[p] = "ok" => child[p] = "ok" /\ sentinel

\* Once every wrapper that was started has ended of itself, the lock is free,
\* but for that same reading.
LockIsFreed ==
    ~misread /\ (\A p \in Fires : pc[p] \in {"unborn", "skipped", "done"}) => ~lock.dir

\* A killed wrapper locks no later one out, whatever it left: a wrapper that
\* tries for the lock when all the others are over goes on to run its command.
StaleLockGivesWay ==
    \A p \in Fires :
        pc[p] = "mkdir" /\ (\A q \in Fires \ {p} : pc[q] \in Over \ {"unborn"})
            ~> pc[p] \in {"start", "killed"}

\* Every wrapper ends, whatever its command does.
WrappersEnd == \A p \in Fires : pc[p] = "sentinel" ~> ~Alive(p)

\* Every command is accounted for: none outlives the wrapper that went on, one
\* reported as good did end well, and the lock goes with the last wrapper.
CommandIsAccountedFor == NoCommandLeftBehind /\ RcZeroMeansDone /\ LockIsFreed

\* Nothing stands in the way of the schedule for good: neither the lock of a
\* killed wrapper nor a command that hangs.
WrappersGetThrough == StaleLockGivesWay /\ WrappersEnd
=============================================================================
