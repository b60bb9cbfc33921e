------------------------------ MODULE FlashRun ------------------------------
(***************************************************************************)
(* What firehose_run() of src/src/firehose.c promises its caller, whatever *)
(* is said on the wire: the operations take effect in the order of the     *)
(* list, none before all of its predecessors' effects are on the device,   *)
(* and success is reported only when everything is.                        *)
(***************************************************************************)
EXTENDS Naturals, Sequences

VARIABLES todo,       \* the list of the run, a set of effects per operation
          at,         \* operation in progress
          present,    \* effects that are on the device
          outcome     \* "none", "ok", "failed"

Init ==
  /\ at = 1
  /\ present \subseteq UNION {todo[i] : i \in DOMAIN todo}
  /\ outcome = "none"

\* Part of the operation in progress takes effect.
TakeEffect ==
  /\ at <= Len(todo)
  /\ \E part \in SUBSET todo[at] : present' = present \cup part
  /\ UNCHANGED <<todo, at, outcome>>

Advance ==
  /\ outcome = "none"
  /\ at <= Len(todo)
  /\ todo[at] \subseteq present
  /\ at' = at + 1
  /\ UNCHANGED <<todo, present, outcome>>

Succeed ==
  /\ outcome = "none"
  /\ at > Len(todo)
  /\ outcome' = "ok"
  /\ UNCHANGED <<todo, at, present>>

GiveUp ==
  /\ outcome = "none"
  /\ at <= Len(todo)
  /\ outcome' = "failed"
  /\ UNCHANGED <<todo, at, present>>

Next == TakeEffect \/ Advance \/ Succeed \/ GiveUp

Spec == Init /\ [][Next]_<<todo, at, present, outcome>>
=============================================================================
