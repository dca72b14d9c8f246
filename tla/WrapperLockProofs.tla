-------------------------- MODULE WrapperLockProofs --------------------------
(***************************************************************************)
(* That the lock excludes, for any number of wrappers, however their steps *)
(* interleave and whatever kills befall them, unless one of them read the  *)
(* pid file while the lock was changing hands; and that what a wrapper     *)
(* reports of its command is what became of it.                            *)
(***************************************************************************)
EXTENDS WrapperLock, TLAPS

Places == {"sentinel"} \cup Taking \cup Holding \cup Releasing \cup Over

LEMMA InitTyped == Init => TypeOK
<1> SUFFICES ASSUME Init PROVE TypeOK
  OBVIOUS
<1>1. pc \in [Fires -> Places]
  BY DEF Init, Places, Over
<1>2. lock \in [dir : BOOLEAN, pid : Fires \cup {NoPid}]
  BY DEF Init
<1>3. child \in [Fires -> Command] /\ rc \in [Fires -> {"none", "ok", "failed", "124"}]
  BY DEF Init, Command
<1>4. sentinel \in BOOLEAN /\ misread \in BOOLEAN
  BY DEF Init
<1> QED
  BY <1>1, <1>2, <1>3, <1>4 DEF TypeOK, Places

LEMMA GoTyped ==
    ASSUME TypeOK, NEW p \in Fires, NEW from, NEW to \in Places, Go(p, from, to)
    PROVE  pc' \in [Fires -> Places]
BY DEF Go, TypeOK, Places

LEMMA PlacesTyped == TypeOK => pc \in [Fires -> Places]
BY DEF TypeOK, Places

\* Every place a step of the shell goes to is a place.
LEMMA ShellPlaces ==
    {"sentinel", "skipped", "mkdir", "pid", "cat", "rmpid", "rmdir",
     "mkdir again", "start", "watch", "tail", "trap rmpid", "trap rmdir",
     "done", "killed"} \subseteq Places
BY DEF Places, Taking, Holding, Releasing, Over

LEMMA StepTyped == TypeOK /\ [Next]_vars => TypeOK'
<1> SUFFICES ASSUME TypeOK, [Next]_vars PROVE TypeOK'
  OBVIOUS
<1>1. ASSUME NEW p \in Fires, Fire(p) PROVE TypeOK'
  BY <1>1, GoTyped, ShellPlaces DEF Fire, TypeOK, Places
<1>2. ASSUME NEW p \in Fires, CheckSentinel(p) PROVE TypeOK'
  BY <1>2, GoTyped, ShellPlaces DEF CheckSentinel, TypeOK, Places
<1>3. ASSUME NEW p \in Fires, Acquire(p) PROVE TypeOK'
  <2>1. pc' \in [Fires -> Places]
    BY <1>3, GoTyped, ShellPlaces
       DEF Acquire, TryLock, TryAgain, MakeDir, WritePid, ReadPid, Reclaim,
           RemovePid, RemoveDir
  <2>2. lock' \in [dir : BOOLEAN, pid : Fires \cup {NoPid}]
    <3>1. CASE TryLock(p) \/ TryAgain(p)
      <4>1. lock' = [dir |-> TRUE, pid |-> NoPid] \/ lock' = lock
        BY <3>1 DEF TryLock, TryAgain, MakeDir
      <4> QED
        <5>1. CASE lock' = [dir |-> TRUE, pid |-> NoPid]
          BY <5>1
        <5>2. CASE lock' = lock
          BY <5>2 DEF TypeOK
        <5> QED
          BY <4>1, <5>1, <5>2
    <3>2. CASE WritePid(p)
      BY <3>2 DEF WritePid, TypeOK
    <3>3. CASE ReadPid(p)
      BY <3>3 DEF ReadPid, TypeOK
    <3>4. CASE Reclaim(p)
      BY <3>4 DEF Reclaim, RemovePid, RemoveDir, TypeOK
    <3> QED
      BY <1>3, <3>1, <3>2, <3>3, <3>4 DEF Acquire
  <2>3. UNCHANGED <<child, rc, sentinel>>
    BY <1>3 DEF Acquire, TryLock, TryAgain, MakeDir, WritePid, ReadPid, Reclaim,
                RemovePid, RemoveDir
  <2>4. misread' \in BOOLEAN
    BY <1>3 DEF Acquire, TryLock, TryAgain, MakeDir, WritePid, ReadPid, Reclaim,
                RemovePid, RemoveDir, ChangesHands, TypeOK
  <2> QED
    BY <2>1, <2>2, <2>3, <2>4 DEF TypeOK, Places
<1>4. ASSUME NEW p \in Fires, StartCommand(p) PROVE TypeOK'
  BY <1>4, GoTyped, ShellPlaces DEF StartCommand, TypeOK, Places, Command
<1>5. ASSUME NEW p \in Fires, CommandEnds(p) PROVE TypeOK'
  BY <1>5 DEF CommandEnds, TypeOK, Command
<1>6. ASSUME NEW p \in Fires, Collect(p) PROVE TypeOK'
  BY <1>6, GoTyped, ShellPlaces DEF Collect, TypeOK, Places
<1>7. ASSUME NEW p \in Fires, Timeout(p) PROVE TypeOK'
  BY <1>7, GoTyped, ShellPlaces DEF Timeout, TypeOK, Places, Command
<1>8. ASSUME NEW p \in Fires, Report(p) PROVE TypeOK'
  BY <1>8, GoTyped, ShellPlaces DEF Report, TypeOK, Places
<1>9. ASSUME NEW p \in Fires, Release(p) PROVE TypeOK'
  <2>1. pc' \in [Fires -> Places]
    BY <1>9, GoTyped, ShellPlaces DEF Release, RemovePid, RemoveDir
  <2> QED
    BY <1>9, <2>1 DEF Release, RemovePid, RemoveDir, TypeOK, Places
<1>10. ASSUME NEW p \in Fires, Kill(p) PROVE TypeOK'
  BY <1>10, ShellPlaces, PlacesTyped DEF Kill, TypeOK, Places
<1>11. CASE ManualRun
  BY <1>11 DEF ManualRun, TypeOK
<1>12. CASE UNCHANGED vars
  BY <1>12 DEF vars, TypeOK
<1> QED
  BY <1>1, <1>2, <1>3, <1>4, <1>5, <1>6, <1>7, <1>8, <1>9, <1>10, <1>11, <1>12
     DEF Next, Shell

-----------------------------------------------------------------------------
(* OneHolder and LockIsFreed are not inductive.  They need that one wrapper *)
(* at most is at work on the directory, from the mkdir it won or the pid it *)
(* found stale to the last call of its trap; that the directory is there    *)
(* meanwhile, and belongs to it or to one that was killed.                  *)

Working == {"pid", "rmpid", "rmdir"} \cup Holding \cup Releasing

OneWorking == \A p, q \in Fires : pc[p] \in Working /\ pc[q] \in Working => p = q

DirIsThere == \A p \in Fires : pc[p] \in Working => lock.dir

PidIsMine == \A p \in Fires : pc[p] \in Holding => lock.pid = p

PidIsGone ==
    \A p \in Fires : pc[p] \in {"rmdir", "trap rmdir"} => lock.pid = NoPid

DirIsOwned == lock.dir => \E p \in Fires : pc[p] \in Working \cup {"killed"}

InOneHand == OneWorking /\ DirIsThere /\ PidIsMine /\ PidIsGone /\ DirIsOwned

\* An inductive strengthening of OneHolder and LockIsFreed.
LockInv == TypeOK /\ (~misread => InOneHand)

LEMMA InitLock == Init => LockInv
<1> SUFFICES ASSUME Init PROVE LockInv
  OBVIOUS
<1> QED
  BY InitTyped DEF Init, LockInv, InOneHand, OneWorking, DirIsThere, PidIsMine,
     PidIsGone, DirIsOwned, Working, Holding, Releasing

\* A wrapper that leaves the lock alone, and is at work on it after its step
\* only if it was before, disturbs nothing.
LEMMA MoveLock ==
    ASSUME TypeOK, InOneHand, NEW p \in Fires, NEW to, pc' = [pc EXCEPT ![p] = to],
           UNCHANGED lock,
           to \in Working => pc[p] \in Working,
           to \in Holding => pc[p] \in Holding,
           to \notin {"rmdir", "trap rmdir"},
           pc[p] \in Working \cup {"killed"} => to \in Working \cup {"killed"}
    PROVE  InOneHand'
<1>1. pc'[p] = to /\ \A q \in Fires \ {p} : pc'[q] = pc[q]
  BY DEF TypeOK
<1>2. OneWorking' /\ DirIsThere'
  BY <1>1 DEF InOneHand, OneWorking, DirIsThere
<1>3. PidIsMine'
  BY <1>1 DEF InOneHand, PidIsMine
<1>4. PidIsGone'
  BY <1>1 DEF InOneHand, PidIsGone
<1>5. DirIsOwned'
  BY <1>1 DEF InOneHand, DirIsOwned
<1> QED
  BY <1>2, <1>3, <1>4, <1>5 DEF InOneHand

\* A wrapper alone at work on a directory that is there.
LEMMA AloneLock ==
    ASSUME TypeOK, NEW p \in Fires, NEW to \in Working, pc' = [pc EXCEPT ![p] = to],
           \A q \in Fires \ {p} : pc[q] \notin Working,
           lock'.dir,
           to \in Holding => lock'.pid = p,
           to \in {"rmdir", "trap rmdir"} => lock'.pid = NoPid
    PROVE  InOneHand'
<1>1. pc'[p] = to /\ \A q \in Fires \ {p} : pc'[q] = pc[q]
  BY DEF TypeOK
<1>2. \A q \in Fires : pc'[q] \in Working => q = p
  BY <1>1
<1>3. \A q \in Fires : pc'[q] \in Holding \cup {"rmdir", "trap rmdir"} => q = p
  BY <1>2 DEF Working, Releasing
<1>4. OneWorking' /\ DirIsThere' /\ DirIsOwned'
  BY <1>1, <1>2 DEF OneWorking, DirIsThere, DirIsOwned
<1>5. PidIsMine' /\ PidIsGone'
  BY <1>1, <1>3 DEF PidIsMine, PidIsGone
<1> QED
  BY <1>4, <1>5 DEF InOneHand

\* The directory goes with the only wrapper at work on it.
LEMMA FreeLock ==
    ASSUME TypeOK, InOneHand, NEW p \in Fires,
           NEW from \in {"rmdir", "trap rmdir"}, NEW to \in {"mkdir again", "done"},
           RemoveDir(p, from, to)
    PROVE  InOneHand'
<1>1. pc[p] = from /\ pc' = [pc EXCEPT ![p] = to] /\ lock.pid = NoPid
  BY DEF RemoveDir, Go, InOneHand, PidIsGone
<1>2. lock' = [lock EXCEPT !.dir = FALSE]
  BY <1>1 DEF RemoveDir
<1>3. ~lock'.dir
  BY <1>2 DEF TypeOK
<1>4. \A q \in Fires \ {p} : pc[q] \notin Working
  BY <1>1 DEF InOneHand, OneWorking, Working, Releasing
<1>5. to \notin Working
  BY DEF Working, Holding, Releasing
<1>6. \A q \in Fires : pc'[q] \notin Working
  BY <1>1, <1>4, <1>5 DEF TypeOK
<1>7. \A q \in Fires : pc'[q] \notin Holding \cup {"rmdir", "trap rmdir"}
  BY <1>6 DEF Working, Releasing
<1> QED
  BY <1>3, <1>6, <1>7 DEF InOneHand, OneWorking, DirIsThere, PidIsMine, PidIsGone, DirIsOwned

LEMMA StepLock == LockInv /\ [Next]_vars => LockInv'
<1> SUFFICES ASSUME LockInv, [Next]_vars PROVE LockInv'
  OBVIOUS
<1> TypeOK /\ TypeOK'
  BY StepTyped DEF LockInv
<1> SUFFICES ASSUME ~misread' PROVE InOneHand'
  BY DEF LockInv
<1>0. ~misread
  BY DEF Next, Fire, CheckSentinel, Shell, Acquire, TryLock, TryAgain, MakeDir,
     WritePid, ReadPid, Reclaim, RemovePid, RemoveDir, StartCommand, CommandEnds,
     Collect, Timeout, Report, Release, Kill, ManualRun, vars
<1> InOneHand
  BY <1>0 DEF LockInv
<1>1. ASSUME NEW p \in Fires, Fire(p) \/ CheckSentinel(p) PROVE InOneHand'
  BY <1>1, MoveLock DEF Fire, CheckSentinel, Go, Working, Holding, Releasing
<1>2. ASSUME NEW p \in Fires, TryLock(p) \/ TryAgain(p) PROVE InOneHand'
  <2>1. CASE lock.dir /\ UNCHANGED lock
    <3>1. \E to \in {"cat", "skipped"} :
             pc[p] \in {"mkdir", "mkdir again"} /\ pc' = [pc EXCEPT ![p] = to]
      BY <1>2, <2>1 DEF TryLock, TryAgain, MakeDir, Go
    <3> QED
      BY <2>1, <3>1, MoveLock DEF Working, Holding, Releasing
  <2>2. CASE ~lock.dir /\ lock' = [dir |-> TRUE, pid |-> NoPid]
    <3>1. \A q \in Fires : pc[q] \notin Working
      BY <2>2 DEF InOneHand, DirIsThere
    <3>2. pc' = [pc EXCEPT ![p] = "pid"]
      BY <1>2, <2>2 DEF TryLock, TryAgain, MakeDir, Go
    <3>3. "pid" \in Working /\ "pid" \notin Holding
      BY DEF Working, Holding
    <3> QED
      BY <2>2, <3>1, <3>2, <3>3, AloneLock
  <2> QED
    BY <1>2, <2>1, <2>2 DEF TryLock, TryAgain, MakeDir
<1>3. ASSUME NEW p \in Fires, WritePid(p) PROVE InOneHand'
  <2>1. pc[p] = "pid" /\ pc' = [pc EXCEPT ![p] = "start"]
    BY <1>3 DEF WritePid, Go
  <2>2. lock.dir /\ \A q \in Fires \ {p} : pc[q] \notin Working
    BY <2>1 DEF InOneHand, DirIsThere, OneWorking, Working
  <2>3. lock'.dir /\ lock'.pid = p
    BY <1>3, <2>2 DEF WritePid, TypeOK
  <2>4. "start" \in Working /\ "start" \in Holding
    BY DEF Working, Holding
  <2> QED
    BY <2>1, <2>2, <2>3, <2>4, AloneLock
<1>4. ASSUME NEW p \in Fires, ReadPid(p) PROVE InOneHand'
  <2>1. CASE Go(p, "cat", "skipped")
    <3>1. pc[p] = "cat" /\ pc' = [pc EXCEPT ![p] = "skipped"] /\ UNCHANGED lock
      BY <1>4, <2>1 DEF ReadPid, Go
    <3> QED
      BY <3>1, MoveLock DEF Working, Holding, Releasing
  <2>2. CASE ~(lock.pid # NoPid /\ Alive(lock.pid)) /\ ~ChangesHands(p) /\ Go(p, "cat", "rmpid")
    <3>1. pc' = [pc EXCEPT ![p] = "rmpid"] /\ UNCHANGED lock
      BY <1>4, <2>2 DEF ReadPid, Go
    <3>2. \A q \in Fires : pc[q] \notin Holding
      BY <2>2, LockAssumption DEF InOneHand, PidIsMine, Alive, Holding, Over
    <3>3. lock'.dir /\ \A q \in Fires \ {p} : pc[q] \notin Working
      BY <2>2, <3>1, <3>2 DEF ChangesHands, Working
    <3>4. "rmpid" \in Working /\ "rmpid" \notin Holding
      BY DEF Working, Holding
    <3> QED
      BY <3>1, <3>3, <3>4, AloneLock
  <2>3. misread' = misread \/ misread' = (misread \/ ChangesHands(p))
    BY <1>4 DEF ReadPid
  <2> QED
    BY <1>4, <2>1, <2>2 DEF ReadPid, Go
<1>5. ASSUME NEW p \in Fires, NEW from, NEW to, RemovePid(p, from, to),
             <<from, to>> \in {<<"rmpid", "rmdir">>, <<"trap rmpid", "trap rmdir">>}
      PROVE  InOneHand'
  <2>1. pc[p] = from /\ pc' = [pc EXCEPT ![p] = to] /\ lock' = [lock EXCEPT !.pid = NoPid]
    BY <1>5 DEF RemovePid, Go
  <2>2. from \in Working /\ to \in Working /\ to \notin Holding
    BY <1>5 DEF Working, Holding, Releasing
  <2>3. lock.dir /\ \A q \in Fires \ {p} : pc[q] \notin Working
    BY <2>1, <2>2 DEF InOneHand, DirIsThere, OneWorking
  <2>4. lock'.dir /\ lock'.pid = NoPid
    BY <2>1, <2>3 DEF TypeOK
  <2> QED
    BY <2>1, <2>2, <2>3, <2>4, AloneLock
<1>6. ASSUME NEW p \in Fires, \/ RemoveDir(p, "rmdir", "mkdir again")
                              \/ RemoveDir(p, "trap rmdir", "done")
      PROVE  InOneHand'
  <2>1. CASE RemoveDir(p, "rmdir", "mkdir again")
    BY <2>1, FreeLock
  <2>2. CASE RemoveDir(p, "trap rmdir", "done")
    BY <2>2, FreeLock
  <2> QED
    BY <1>6, <2>1, <2>2
<1>7. ASSUME NEW p \in Fires, StartCommand(p) \/ Collect(p) \/ Timeout(p) \/ Report(p)
      PROVE  InOneHand'
  <2>1. \E to \in {"watch", "tail", "trap rmpid"} :
           pc' = [pc EXCEPT ![p] = to]
    BY <1>7 DEF StartCommand, Collect, Timeout, Report, Go, Holding
  <2>2. pc[p] \in Holding /\ UNCHANGED lock
    BY <1>7 DEF StartCommand, Collect, Timeout, Report, Go, Holding
  <2> QED
    BY <2>1, <2>2, MoveLock DEF Working, Holding, Releasing
<1>8. ASSUME NEW p \in Fires, Kill(p) PROVE InOneHand'
  BY <1>8, MoveLock DEF Kill, Working, Holding, Releasing
<1>9. ASSUME UNCHANGED <<pc, lock>> PROVE InOneHand'
  BY <1>9 DEF InOneHand, OneWorking, DirIsThere, PidIsMine, PidIsGone, DirIsOwned
<1> QED
  BY <1>1, <1>2, <1>3, <1>4, <1>5, <1>6, <1>7, <1>8, <1>9
     DEF Next, Shell, Acquire, Reclaim, Release, CommandEnds, ManualRun, vars

\* However wrappers interleave and die, at most one of them holds the lock and
\* it is the one whose pid is in it, unless one of them has read the pid file
\* while the lock was changing hands.
THEOREM LockExcludes == Spec => []OneHolder
<1>1. LockInv => OneHolder
  <2> SUFFICES ASSUME LockInv, ~misread, NEW p \in Fires, pc[p] \in Holding
               PROVE  /\ lock = [dir |-> TRUE, pid |-> p]
                      /\ \A q \in Fires \ {p} : pc[q] \notin Holding
    BY DEF OneHolder
  <2>1. lock.dir /\ lock.pid = p /\ \A q \in Fires \ {p} : pc[q] \notin Holding
    BY DEF LockInv, InOneHand, DirIsThere, PidIsMine, OneWorking, Working
  <2> QED
    BY <2>1 DEF LockInv, TypeOK
<1> QED
  BY InitLock, StepLock, <1>1, PTL DEF Spec

\* Every variable keeps to its type, whatever wrappers interleave or die.
THEOREM WrapperTypes == Spec => []TypeOK
BY InitTyped, StepTyped, PTL DEF Spec

-----------------------------------------------------------------------------
(* CommandIsAccountedFor.  What a wrapper's command has come to follows its *)
(* shell: nothing before it is started, nothing running once it has been    *)
(* collected or stopped.                                                    *)

Before == {"unborn", "sentinel", "skipped", "start"} \cup Taking

NothingBefore ==
    \A p \in Fires : pc[p] \in Before => child[p] = "none"

NotCollected ==
    \A p \in Fires : pc[p] \in Before \cup {"watch"} => rc[p] = "none"

OkMeansSentinel == \A p \in Fires : child[p] = "ok" => sentinel

\* An inductive strengthening of the parts about commands.
CommandInv ==
    /\ TypeOK
    /\ NothingBefore /\ NotCollected /\ OkMeansSentinel
    /\ NoCommandLeftBehind /\ RcZeroMeansDone

LEMMA InitCommand == Init => CommandInv
<1> SUFFICES ASSUME Init PROVE CommandInv
  OBVIOUS
<1> QED
  BY InitTyped DEF Init, CommandInv, NothingBefore, NotCollected, OkMeansSentinel,
     NoCommandLeftBehind, RcZeroMeansDone, Releasing

\* A step of the shell that touches no command: it goes from a place before
\* the start to another, or between places past the watchdog, or dies.
LEMMA ShellCommand ==
    ASSUME CommandInv, TypeOK', NEW p \in Fires, NEW to,
           pc' = [pc EXCEPT ![p] = to],
           UNCHANGED <<child, rc, sentinel>>,
           \/ pc[p] \in Before /\ to \in Before
           \/ pc[p] \in {"tail"} \cup Releasing /\ to \in {"done"} \cup Releasing
           \/ to = "killed"
    PROVE  CommandInv'
<1>1. pc \in [Fires -> Places]
  BY PlacesTyped DEF CommandInv
<1>2. \A q \in Fires \ {p} : pc'[q] = pc[q]
  BY <1>1
<1>3. pc'[p] = to
  BY <1>1
<1>4. to \in Before \cup {"watch"} => pc[p] \in Before
  BY DEF Before, Taking, Releasing
<1>5. NothingBefore' /\ NotCollected'
  BY <1>2, <1>3, <1>4 DEF CommandInv, NothingBefore, NotCollected, Before, Taking, Releasing
<1>6. to \in {"tail", "done"} \cup Releasing => pc[p] \in {"tail", "done"} \cup Releasing
  BY DEF Before, Taking, Releasing
<1>7. NoCommandLeftBehind'
  BY <1>2, <1>3, <1>6 DEF CommandInv, NoCommandLeftBehind
<1>8. OkMeansSentinel' /\ RcZeroMeansDone'
  BY DEF CommandInv, OkMeansSentinel, RcZeroMeansDone
<1> QED
  BY <1>5, <1>7, <1>8 DEF CommandInv

LEMMA StepCommand == CommandInv /\ [Next]_vars => CommandInv'
<1> SUFFICES ASSUME CommandInv, [Next]_vars PROVE CommandInv'
  OBVIOUS
<1> TypeOK /\ TypeOK'
  BY StepTyped DEF CommandInv
<1>1. ASSUME NEW p \in Fires, Fire(p) \/ CheckSentinel(p) PROVE CommandInv'
  BY <1>1, ShellCommand DEF Fire, CheckSentinel, Go, Before, Taking
<1>2. ASSUME NEW p \in Fires, Acquire(p) PROVE CommandInv'
  <2>1. UNCHANGED <<child, rc, sentinel>>
    BY <1>2 DEF Acquire, TryLock, TryAgain, MakeDir, WritePid, ReadPid, Reclaim,
                RemovePid, RemoveDir
  <2>2. \E to \in Before : pc[p] \in Before /\ pc' = [pc EXCEPT ![p] = to]
    BY <1>2 DEF Acquire, TryLock, TryAgain, MakeDir, WritePid, ReadPid, Reclaim,
                RemovePid, RemoveDir, Go, Before, Taking
  <2> QED
    BY <2>1, <2>2, ShellCommand
<1>3. ASSUME NEW p \in Fires, StartCommand(p) PROVE CommandInv'
  <2>1. /\ pc[p] = "start" /\ pc' = [pc EXCEPT ![p] = "watch"]
        /\ child' = [child EXCEPT ![p] = "running"]
        /\ UNCHANGED <<rc, sentinel>>
    BY <1>3 DEF StartCommand, Go
  <2>2. rc[p] = "none"
    BY <2>1 DEF CommandInv, NotCollected, Before
  <2> QED
    BY <2>1, <2>2 DEF CommandInv, TypeOK, NothingBefore, NotCollected,
       OkMeansSentinel, NoCommandLeftBehind, RcZeroMeansDone, Before, Taking, Releasing
<1>4. ASSUME NEW p \in Fires, CommandEnds(p) PROVE CommandInv'
  <2>1. PICK how \in {"ok", "failed"} :
            /\ child' = [child EXCEPT ![p] = how]
            /\ sentinel' \in IF how = "ok" THEN {TRUE} ELSE {sentinel, TRUE}
    BY <1>4 DEF CommandEnds
  <2>2. child[p] = "running" /\ UNCHANGED <<pc, rc>>
    BY <1>4 DEF CommandEnds
  <2>3. sentinel => sentinel'
    BY <2>1
  <2>4. how = "ok" => sentinel'
    BY <2>1
  <2>5. rc[p] # "ok"
    BY <2>2 DEF CommandInv, RcZeroMeansDone
  <2>6. NothingBefore' /\ NotCollected' /\ NoCommandLeftBehind'
    BY <2>1, <2>2 DEF CommandInv, TypeOK, NothingBefore, NotCollected, NoCommandLeftBehind
  <2>7. OkMeansSentinel' /\ RcZeroMeansDone'
    BY <2>1, <2>2, <2>3, <2>4, <2>5 DEF CommandInv, TypeOK, OkMeansSentinel, RcZeroMeansDone
  <2> QED
    BY <2>6, <2>7 DEF CommandInv
<1>5. ASSUME NEW p \in Fires, Collect(p) PROVE CommandInv'
  <2>1. /\ pc[p] = "watch" /\ pc' = [pc EXCEPT ![p] = "tail"]
        /\ child[p] # "running" /\ UNCHANGED <<child, sentinel>>
        /\ rc' = [rc EXCEPT ![p] = IF child[p] = "ok" THEN "ok" ELSE "failed"]
    BY <1>5 DEF Collect, Go
  <2>2. NothingBefore' /\ NotCollected' /\ NoCommandLeftBehind'
    BY <2>1 DEF CommandInv, TypeOK, NothingBefore, NotCollected, NoCommandLeftBehind,
       Before, Taking
  <2>3. OkMeansSentinel'
    BY <2>1 DEF CommandInv, OkMeansSentinel
  <2>4. RcZeroMeansDone'
    BY <2>1 DEF CommandInv, TypeOK, OkMeansSentinel, RcZeroMeansDone
  <2> QED
    BY <2>2, <2>3, <2>4 DEF CommandInv
<1>6. ASSUME NEW p \in Fires, Timeout(p) PROVE CommandInv'
  <2>1. /\ pc[p] = "watch" /\ pc' = [pc EXCEPT ![p] = "tail"]
        /\ rc' = [rc EXCEPT ![p] = "124"] /\ UNCHANGED sentinel
        /\ child' = [child EXCEPT ![p] = IF @ = "running" THEN "terminated" ELSE @]
    BY <1>6 DEF Timeout, Go
  <2>2. NothingBefore' /\ NotCollected'
    BY <2>1 DEF CommandInv, TypeOK, NothingBefore, NotCollected, Before, Taking
  <2>3. NoCommandLeftBehind'
    BY <2>1 DEF CommandInv, TypeOK, NoCommandLeftBehind
  <2>4. OkMeansSentinel' /\ RcZeroMeansDone'
    BY <2>1 DEF CommandInv, TypeOK, OkMeansSentinel, RcZeroMeansDone
  <2> QED
    BY <2>2, <2>3, <2>4 DEF CommandInv
<1>7. ASSUME NEW p \in Fires, Report(p) \/ Release(p) PROVE CommandInv'
  BY <1>7, ShellCommand DEF Report, Release, RemovePid, RemoveDir, Go, Releasing
<1>8. ASSUME NEW p \in Fires, Kill(p) PROVE CommandInv'
  BY <1>8, ShellCommand DEF Kill
<1>9. CASE ManualRun
  BY <1>9 DEF ManualRun, CommandInv, NothingBefore, NotCollected, OkMeansSentinel,
     NoCommandLeftBehind, RcZeroMeansDone
<1>10. CASE UNCHANGED vars
  BY <1>10 DEF vars, CommandInv, NothingBefore, NotCollected, OkMeansSentinel,
     NoCommandLeftBehind, RcZeroMeansDone
<1> QED
  BY <1>1, <1>2, <1>3, <1>4, <1>5, <1>6, <1>7, <1>8, <1>9, <1>10 DEF Next, Shell

\* No command outlives the wrapper that went on, and one reported as good did
\* end well: with any number of wrappers, kills at any step and whatever
\* wrappers meet in the lock's code.
THEOREM CommandsAreReportedRight == Spec => [](NoCommandLeftBehind /\ RcZeroMeansDone)
<1>1. CommandInv => NoCommandLeftBehind /\ RcZeroMeansDone
  BY DEF CommandInv
<1> QED
  BY InitCommand, StepCommand, <1>1, PTL DEF Spec

\* The lock goes with the last of the wrappers, too, but for that reading.
THEOREM CommandsAreAccountedFor == Spec => []CommandIsAccountedFor
<1>1. LockInv => LockIsFreed
  BY DEF LockInv, InOneHand, DirIsOwned, LockIsFreed, Working, Holding, Releasing
<1>2. CommandInv /\ LockInv => CommandIsAccountedFor
  BY <1>1 DEF CommandInv, CommandIsAccountedFor
<1> QED
  BY InitCommand, StepCommand, InitLock, StepLock, <1>2, PTL DEF Spec
=============================================================================
