---------------------------- MODULE MessageStream ----------------------------
(***************************************************************************)
(* What one direction of a connection of the remote display promises: the  *)
(* messages are handled once each and in the order they were sent, up to   *)
(* the first one that is damaged.  A connection may end at any time; what  *)
(* was on its way is lost, and the next one starts afresh.                 *)
(***************************************************************************)
EXTENDS Naturals, Sequences

CONSTANTS
  Message,  \* the messages
  Sound     \* those that are not damaged

VARIABLES
  sent,      \* the messages sent on this connection
  delivered  \* the messages the receiver has handled

Send == /\ sent' \in Seq(Message) /\ Len(sent') = Len(sent) + 1
        /\ \A i \in 1..Len(sent) : sent'[i] = sent[i]
        /\ UNCHANGED delivered

Deliver == LET n == Len(delivered) + 1
           IN /\ n <= Len(sent) /\ sent[n] \in Sound
              /\ delivered' = Append(delivered, sent[n])
              /\ UNCHANGED sent

End == sent' = <<>> /\ delivered' = <<>>

Init == sent = <<>> /\ delivered = <<>>
Next == Send \/ Deliver \/ End
Spec == Init /\ [][Next]_<<sent, delivered>>

=============================================================================
