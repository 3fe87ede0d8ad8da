------------------------------ MODULE UpdateQueue ------------------------------
(***************************************************************************)
(* What the threads of the remote display service promise each other about *)
(* the updates of the screen: while the service runs, each drawing posts   *)
(* one, and each is handled by the service that was running when it was    *)
(* posted.  A service stops only when it has handled all of them, and the  *)
(* next one starts with none.                                              *)
(***************************************************************************)
EXTENDS Naturals

VARIABLES
  running,  \* the service runs
  waiting   \* the updates posted and not handled yet

Start == ~running /\ running' = TRUE /\ waiting = 0 /\ UNCHANGED waiting

Draw == running /\ waiting' = waiting + 1 /\ UNCHANGED running

Handle == running /\ waiting > 0 /\ waiting' = waiting - 1 /\ UNCHANGED running

Stop == running /\ waiting = 0 /\ running' = FALSE /\ UNCHANGED waiting

Init == running = FALSE /\ waiting = 0
Next == Start \/ Draw \/ Handle \/ Stop
Spec == Init /\ [][Next]_<<running, waiting>>

================================================================================
