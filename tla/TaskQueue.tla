------------------------------ MODULE TaskQueue ------------------------------
(***************************************************************************)
(* What a task table promises: a task stays until one of its effects is    *)
(* there, an effect never goes away, and nothing has an effect without     *)
(* having been queued.  A task may be worked on more than once.            *)
(***************************************************************************)
CONSTANTS
  Task,
  Effect,
  EffectsOf \* for each task, the effects any of which completes it

VARIABLES
  queued, \* tasks in the table
  effects \* effects that can be seen

vars == <<queued, effects>>

Init == queued = {} /\ effects = {}

(* The task is queued.                                                     *)
Put(t) == queued' = queued \cup {t} /\ UNCHANGED effects

(* An attempt at the task has had an effect, whatever became of the        *)
(* attempt.                                                                *)
Work(t) ==
  /\ t \in queued
  /\ \E e \in EffectsOf[t] : effects' = effects \cup {e}
  /\ UNCHANGED queued

(* The task is deleted.                                                    *)
Retire(t) ==
  /\ t \in queued /\ EffectsOf[t] \cap effects # {}
  /\ queued' = queued \ {t}
  /\ UNCHANGED effects

Next == \E t \in Task : Put(t) \/ Work(t) \/ Retire(t)

Spec == Init /\ [][Next]_vars
=============================================================================
