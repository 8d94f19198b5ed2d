------------------------------ MODULE TaskSlot ------------------------------
(***************************************************************************)
(* What a capacity-one task channel of node/node.go promises for one kind  *)
(* of task: there is a single slot, a task starts only in an empty slot,   *)
(* and nothing starts a second task before the first one has given the     *)
(* slot back.                                                              *)
(***************************************************************************)
CONSTANTS Slot,    \* the goroutines that can run the task
          Nobody   \* the empty slot

VARIABLE runner    \* the goroutine in the slot, or Nobody

TypeOK == runner \in Slot \cup {Nobody}

\* Node.Start may put the first task in the slot itself, as it does for syncTeeCh.
Init == runner \in Slot \cup {Nobody}

\* A task is started in the empty slot.
Start(w) == runner = Nobody /\ runner' = w

\* The running task gives the slot back.
Finish == runner # Nobody /\ runner' = Nobody

Next == (\E w \in Slot : Start(w)) \/ Finish

Spec == Init /\ [][Next]_runner
=============================================================================
