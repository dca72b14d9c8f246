---------------------------- MODULE ResumableJob ----------------------------
(***************************************************************************)
(* What `irc run` promises whoever starts it again: a job of numbered      *)
(* steps, taken in order, with one checkpoint per day.  The checkpoint     *)
(* changes at the end of a job and at no other time -- to the step the job *)
(* could not finish, or to none once no step is left.  A job that dies     *)
(* leaves it as it was.                                                    *)
(***************************************************************************)
EXTENDS Integers

CONSTANTS Steps, Days

VARIABLES checkpoint,   \* day -> the step to resume from, or 0
          day,          \* the day of the job under way, or 0
          todo          \* the steps it has yet to finish

vars == <<checkpoint, day, todo>>

Init == /\ checkpoint = [d \in Days |-> 0]
        /\ day = 0
        /\ todo = {}

Begin == /\ day = 0
         /\ day' \in Days
         /\ todo' \in (SUBSET Steps) \ {{}}
         /\ UNCHANGED checkpoint

IsNext(s) == s \in todo /\ \A t \in todo : s <= t

StepDone == /\ day # 0
            /\ \E s \in todo : IsNext(s) /\ todo' = todo \ {s}
            /\ UNCHANGED <<checkpoint, day>>

StepFailed == /\ day # 0
              /\ \E s \in todo : /\ IsNext(s)
                                 /\ checkpoint' = [checkpoint EXCEPT ![day] = s]
              /\ day' = 0
              /\ todo' = {}

Finished == /\ day # 0
            /\ todo = {}
            /\ checkpoint' = [checkpoint EXCEPT ![day] = 0]
            /\ day' = 0
            /\ UNCHANGED todo

Dies == /\ day # 0
        /\ day' = 0
        /\ todo' = {}
        /\ UNCHANGED checkpoint

Next == Begin \/ StepDone \/ StepFailed \/ Finished \/ Dies

Spec == Init /\ [][Next]_vars
=============================================================================
