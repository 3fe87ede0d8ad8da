------------------------------ MODULE MrdpParser ------------------------------
(***************************************************************************)
(* How the bytes of a connection become messages again: a transceiver that *)
(* sends, the TCP connection, Qt's read buffer and parseMessage of the     *)
(* transceiver at the other end.                                           *)
(*                                                                         *)
(* The sender writes a header with the length and its checksum, then the   *)
(* payload.  The bytes arrive in pieces of any size.  Qt moves what has    *)
(* arrived to the read buffer, whose size the code limits, and calls       *)
(* parseMessage, which reads a header or a payload if it is complete.  As  *)
(* one call reads one of them at most, the parser calls itself through a   *)
(* queued signal, nextMessage, while something is left.                    *)
(*                                                                         *)
(* A byte is its position in the stream; a header is recognised where a    *)
(* message begins, and anywhere else its checksum does not match.  What    *)
(* the messages say, and what handling them does, is in module Mrdp.       *)
(***************************************************************************)
EXTENDS Naturals, Sequences

CONSTANTS
  Header,     \* EXTRA_HEADER_SIZE
  Payload,    \* the sizes of payloads
  BufferMax,  \* MRDP_MAX_RECV_BUFFER_SIZE
  MaxSent     \* bound: messages on one connection

\* A payload is never empty: every message carries its id.
ASSUME ParserAssumption ==
  /\ Header \in Nat \ {0} /\ Payload \subseteq Nat \ {0}
  /\ BufferMax \in Nat /\ Header <= BufferMax /\ MaxSent \in Nat

VARIABLES
  up,           \* there is a connection, and a transceiver reads from it
  sent,         \* the messages sent on it
  written,      \* the bytes of these
  arrived,      \* the bytes that have come to the read buffer
  consumed,     \* the bytes the parser has read from there
  notifier,     \* Qt listens to the socket: its read notification is enabled
  ps,           \* the state of the parser
  payloadSize,  \* of the payload expected
  posted,       \* nextMessage signals in the event queue
  handled       \* the messages given to their processors

vars == <<up, sent, written, arrived, consumed, notifier, ps, payloadSize, posted, handled>>

\* A message: where its header begins, the size of its payload, and whether
\* the checksum of the header is right.
Message == [at : Nat, size : Payload, sound : BOOLEAN]
Sound   == [at : Nat, size : Payload, sound : {TRUE}]

Init ==
  /\ up = FALSE
  /\ sent = <<>> /\ written = 0 /\ arrived = 0 /\ consumed = 0
  /\ notifier = TRUE /\ ps = "PS_EXPECT_HEADER" /\ payloadSize = 0
  /\ posted = 0 /\ handled = <<>>

------------------------------------------------------------------------------
(* The connection.                                                          *)

\* A transceiver is made for a new connection.
Open == /\ ~up /\ up' = TRUE
        /\ UNCHANGED <<sent, written, arrived, consumed, notifier, ps, payloadSize,
                       posted, handled>>

\* Either side hangs up, or the connection breaks: the transceiver goes, with
\* its queued signals, and so does what is in the buffer.
Gone == /\ up' = FALSE
        /\ sent' = <<>> /\ written' = 0 /\ arrived' = 0 /\ consumed' = 0
        /\ notifier' = TRUE /\ ps' = "PS_EXPECT_HEADER" /\ payloadSize' = 0
        /\ posted' = 0 /\ handled' = <<>>
End == up /\ Gone

\* sendExtraHeader and sendMsgBody; Qt's write buffer takes all of it.
Send(size, sound) ==
  /\ up /\ Len(sent) < MaxSent
  /\ sent' = Append(sent, [at |-> written, size |-> size, sound |-> sound])
  /\ written' = written + Header + size
  /\ UNCHANGED <<up, arrived, consumed, notifier, ps, payloadSize, posted, handled>>

------------------------------------------------------------------------------
(* parseMessage, which finds the first a bytes of the stream arrived, the   *)
(* read notification as note says, and q nextMessage signals still queued.  *)

\* A variant with a bug: the notification stays off.
TakesDeaf(n, a, note) == consumed' = consumed + n /\ notifier' = note

\* read() listens to the socket again when it has emptied the buffer, and only
\* then.
Takes(n, a, note) == /\ consumed' = consumed + n
                     /\ notifier' = (note \/ consumed + n = a)

\* A variant with a bug: the parser relies on readyRead alone.
LeftUnread(n, a, q) == posted' = q

\* What is left in the buffer is parsed by a later call.
Left(n, a, q) == posted' = IF a - consumed > n THEN q + 1 ELSE q

\* What the parser waits for.
Need == IF ps = "PS_EXPECT_HEADER" THEN Header ELSE payloadSize

ParseNothing(a, note, q) ==
  /\ ps # "PS_ERROR" /\ a - consumed < Need
  /\ notifier' = note /\ posted' = q
  /\ UNCHANGED <<up, sent, written, consumed, ps, payloadSize, handled>>

ParseHeader(a, note, q) ==
  /\ ps = "PS_EXPECT_HEADER" /\ a - consumed >= Header
  /\ Takes(Header, a, note)
  /\ IF \E i \in 1..Len(sent) : sent[i].at = consumed /\ sent[i].sound
       THEN /\ ps' = "PS_EXPECT_PAYLOAD"
            /\ \E i \in 1..Len(sent) :
                 sent[i].at = consumed /\ payloadSize' = sent[i].size
            /\ Left(Header, a, q)
       ELSE /\ ps' = "PS_ERROR"
            /\ posted' = q
            /\ UNCHANGED payloadSize
  /\ UNCHANGED <<up, sent, written, handled>>

\* A variant with a bug: the state is not set back.
ParsePayloadStays(a, note, q) ==
  /\ ps = "PS_EXPECT_PAYLOAD" /\ a - consumed >= payloadSize
  /\ Takes(payloadSize, a, note)
  /\ handled' = Append(handled, [at |-> consumed - Header, size |-> payloadSize, sound |-> TRUE])
  /\ Left(payloadSize, a, q)
  /\ UNCHANGED <<up, sent, written, ps, payloadSize>>

ParsePayload(a, note, q) ==
  /\ ps = "PS_EXPECT_PAYLOAD" /\ a - consumed >= payloadSize
  /\ Takes(payloadSize, a, note)
  /\ handled' = Append(handled, [at |-> consumed - Header, size |-> payloadSize, sound |-> TRUE])
  /\ ps' = "PS_EXPECT_HEADER"
  /\ Left(payloadSize, a, q)
  /\ UNCHANGED <<up, sent, written, payloadSize>>

\* The next call after an error reports it, and the connection is closed.
ParseError == ps = "PS_ERROR" /\ Gone

Parse(a, note, q) ==
  \/ arrived' = a /\ ParseNothing(a, note, q)
  \/ arrived' = a /\ ParseHeader(a, note, q)
  \/ arrived' = a /\ ParsePayload(a, note, q)
  \/ ParseError

------------------------------------------------------------------------------
\* A variant with a bug: the limit of the buffer is not heeded.
ArriveAll(n) ==
  /\ up /\ notifier
  /\ n <= written - arrived
  /\ Parse(arrived + n, arrived + n - consumed # BufferMax, posted)

\* canReadNotification: n bytes have come; it reads as many as the buffer has
\* room for, stops listening if that fills it, and emits readyRead, which
\* calls parseMessage.
Arrive(n) ==
  /\ up /\ notifier
  /\ n <= written - arrived
  /\ n <= BufferMax - (arrived - consumed)
  /\ Parse(arrived + n, arrived + n - consumed # BufferMax, posted)

\* A queued nextMessage.
NextMessage == /\ up /\ posted > 0
               /\ Parse(arrived, notifier, posted - 1)

Next ==
  \/ Open \/ End \/ NextMessage
  \/ \E size \in Payload, sound \in BOOLEAN : Send(size, sound)
  \/ \E n \in 1..(written - arrived) : Arrive(n)

Spec == Init /\ [][Next]_vars

\* The network and the event loop of the receiver go on.
Fairness == /\ WF_vars(NextMessage)
            /\ WF_vars(\E n \in 1..(written - arrived) : Arrive(n))

FairSpec == Spec /\ Fairness

------------------------------------------------------------------------------
TypeOK ==
  /\ up \in BOOLEAN /\ notifier \in BOOLEAN
  /\ sent \in Seq(Message) /\ handled \in Seq(Message)
  /\ written \in Nat /\ arrived \in Nat /\ consumed \in Nat
  /\ ps \in {"PS_EXPECT_HEADER", "PS_EXPECT_PAYLOAD", "PS_ERROR"}
  /\ payloadSize \in Nat /\ posted \in Nat
  /\ consumed <= arrived /\ arrived <= written
  /\ arrived - consumed <= BufferMax

\* The messages are handled once each, in order and whole, up to the first
\* damaged one, however the bytes are cut into pieces and whichever calls of
\* parseMessage come from readyRead and which from nextMessage.
Stream == INSTANCE MessageStream WITH delivered <- handled
IsMessageStream == Stream!Spec

\* No header or payload that is complete in the buffer is forgotten: a call of
\* parseMessage is queued.  (The comment in parseMessage fears the hang.)
NoMissedWakeup ==
  ps # "PS_ERROR" /\ arrived - consumed >= Need => posted > 0

\* When all that was written has arrived and no call of parseMessage is queued,
\* every message sent has been handled: the parser never waits for bytes that
\* the sender does not owe it.
CaughtUp ==
  ps # "PS_ERROR" /\ arrived = written /\ posted = 0 => handled = sent

\* The read notification is off only after the buffer was full: something in it
\* still waits to be read.
SilentOnlyWhileBuffered == ~notifier => arrived > consumed

AllSound(n) == \A i \in 1..n : sent[i].sound

\* On a connection that stays, and to which Qt does not cease to listen, every
\* message that follows no damaged one is handled.
ReadsOn ==
  \A n \in 1..MaxSent :
    <>[](up /\ notifier /\ n <= Len(sent) /\ AllSound(n))
      => <>(n <= Len(handled))

\* The same without the condition that Qt goes on listening.
AllHandled ==
  \A n \in 1..MaxSent :
    up /\ n <= Len(sent) /\ AllSound(n) ~> n <= Len(handled) \/ ~up

===============================================================================
