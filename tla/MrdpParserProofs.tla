--------------------------- MODULE MrdpParserProofs ---------------------------
(***************************************************************************)
(* Proofs about MrdpParser, for every size of header, payloads and buffer, *)
(* and every number of messages.                                           *)
(*                                                                         *)
(* The argument: the messages lie in the stream one behind the other       *)
(* (Layout), and the parser stands at the beginning of the first message   *)
(* that has not been handled or at the beginning of its payload (Place).   *)
(* So the checksum matches exactly for sound messages, what is read as a   *)
(* payload is one, and what is handled is the next message sent.           *)
(***************************************************************************)
EXTENDS MrdpParser, TLAPS

\* Where message i begins, or will.
Begin(i) == IF i <= Len(sent) THEN sent[i].at ELSE written

Layout ==
  /\ Begin(1) = 0
  /\ \A i \in 1..Len(sent) : sent[i].at + Header + sent[i].size = Begin(i + 1)
  /\ \A i \in 1..Len(sent) : sent[i].at + Header + sent[i].size <= written
  /\ \A i, j \in 1..Len(sent) : i < j => sent[i].at + Header + sent[i].size <= sent[j].at

Place ==
  /\ Len(handled) <= Len(sent)
  /\ \A i \in 1..Len(handled) : handled[i] = sent[i]
  /\ ps = "PS_EXPECT_HEADER" => consumed = Begin(Len(handled) + 1)
  /\ ps = "PS_EXPECT_PAYLOAD" =>
       /\ Len(handled) < Len(sent)
       /\ sent[Len(handled) + 1] = [at |-> consumed - Header, size |-> payloadSize, sound |-> TRUE]
       /\ Header <= consumed

IInv == TypeOK /\ Layout /\ Place /\ NoMissedWakeup /\ SilentOnlyWhileBuffered

\* One step of the abstract stream.
StreamStep == Stream!Next \/ UNCHANGED <<sent, handled>>

LEMMA Sizes == /\ Header \in Nat /\ Header > 0 /\ BufferMax \in Nat
               /\ \A s \in Payload : s \in Nat /\ s > 0
BY ParserAssumption DEF ParserAssumption

USE Sizes

\* A stream that nothing has been sent on.
Empty ==
  /\ up \in BOOLEAN /\ sent = <<>> /\ written = 0 /\ arrived = 0 /\ consumed = 0
  /\ notifier = TRUE /\ ps = "PS_EXPECT_HEADER" /\ payloadSize = 0
  /\ posted = 0 /\ handled = <<>>

LEMMA EmptyOK == Empty => IInv
<1> SUFFICES ASSUME Empty PROVE IInv
  OBVIOUS
<1>1. TypeOK
  BY DEF Empty, TypeOK
<1>2. Layout
  BY DEF Empty, Layout, Begin
<1>3. Place
  BY DEF Empty, Place, Begin
<1>4. NoMissedWakeup /\ SilentOnlyWhileBuffered
  BY DEF Empty, NoMissedWakeup, SilentOnlyWhileBuffered, Need
<1> QED
  BY <1>1, <1>2, <1>3, <1>4 DEF IInv

LEMMA InitOK == Init => IInv
BY EmptyOK DEF Init, Empty

LEMMA GoneOK == Gone => IInv' /\ StreamStep
<1> SUFFICES ASSUME Gone PROVE IInv' /\ StreamStep
  OBVIOUS
<1>1. Empty'
  BY DEF Gone, Empty
<1>2. IInv'
  BY <1>1, EmptyOK, PTL
<1> QED
  BY <1>2 DEF Gone, StreamStep, Stream!Next, Stream!End

LEMMA OpenOK == IInv /\ Open => IInv' /\ StreamStep
<1> SUFFICES ASSUME IInv, Open PROVE IInv' /\ StreamStep
  OBVIOUS
<1>1. TypeOK'
  BY DEF IInv, Open, TypeOK
<1>2. Layout' /\ Place'
  BY DEF IInv, Open, Layout, Place, Begin
<1>3. SilentOnlyWhileBuffered' /\ StreamStep
  BY DEF IInv, Open, SilentOnlyWhileBuffered, StreamStep
<1>4. NoMissedWakeup'
  BY DEF IInv, Open, NoMissedWakeup, Need
<1> QED
  BY <1>1, <1>2, <1>3, <1>4 DEF IInv

LEMMA SendOK ==
  ASSUME IInv, NEW size \in Payload, NEW sound \in BOOLEAN, Send(size, sound)
  PROVE  IInv' /\ StreamStep
<1> DEFINE m == [at |-> written, size |-> size, sound |-> sound]
<1>1. m \in Message /\ m.at = written /\ m.size = size
  BY DEF IInv, TypeOK, Message
<1>2. /\ sent' = Append(sent, m) /\ written' = written + Header + size
      /\ sent \in Seq(Message) /\ written \in Nat /\ size \in Nat /\ size > 0
      /\ UNCHANGED <<up, arrived, consumed, notifier, ps, payloadSize, posted, handled>>
  BY DEF IInv, TypeOK, Send
<1> HIDE DEF m
<1>3. /\ sent' \in Seq(Message) /\ Len(sent') = Len(sent) + 1
      /\ \A i \in 1..Len(sent) : sent'[i] = sent[i] /\ sent[i] \in Message
      /\ sent'[Len(sent) + 1] = m
  BY <1>1, <1>2
<1>4. TypeOK'
  BY <1>2, <1>3 DEF IInv, TypeOK
<1>5. Layout'
  <2>1. \A i \in 1..Len(sent) : /\ sent[i].at \in Nat /\ sent[i].size \in Nat
                                /\ sent[i].at + Header + sent[i].size <= written
    BY <1>3 DEF IInv, Layout, Message
  <2>2. Begin(1)' = 0
    BY <1>1, <1>2, <1>3 DEF IInv, Layout, Begin
  <2>3. ASSUME NEW i \in 1..Len(sent')
        PROVE  /\ sent'[i].at + Header + sent'[i].size = Begin(i + 1)'
               /\ sent'[i].at + Header + sent'[i].size <= written'
    <3>1. CASE i = Len(sent) + 1
      BY <3>1, <1>1, <1>2, <1>3 DEF Begin
    <3>2. CASE i \in 1..Len(sent)
      <4>1. sent[i].at + Header + sent[i].size = Begin(i + 1)
        BY <3>2 DEF IInv, Layout
      <4>2. Begin(i + 1)' = Begin(i + 1)
        BY <3>2, <1>1, <1>2, <1>3 DEF Begin
      <4> QED
        BY <4>1, <4>2, <3>2, <2>1, <1>2, <1>3
    <3> QED
      BY <3>1, <3>2, <1>2, <1>3
  <2>4. ASSUME NEW i \in 1..Len(sent'), NEW j \in 1..Len(sent'), i < j
        PROVE  sent'[i].at + Header + sent'[i].size <= sent'[j].at
    <3>1. i \in 1..Len(sent)
      BY <2>4, <1>2, <1>3
    <3>2. CASE j = Len(sent) + 1
      BY <3>1, <3>2, <2>1, <1>1, <1>3
    <3>3. CASE j \in 1..Len(sent)
      BY <3>1, <3>3, <2>4, <1>3 DEF IInv, Layout
    <3> QED
      BY <3>2, <3>3, <1>2, <1>3
  <2> QED
    BY <2>2, <2>3, <2>4, <1>2 DEF Layout
<1>6. Place'
  <2> DEFINE n == Len(handled)
  <2>1. n \in Nat /\ n <= Len(sent)
    BY DEF IInv, TypeOK, Place
  <2>2. Begin(n + 1)' = Begin(n + 1)
    BY <2>1, <1>1, <1>2, <1>3 DEF Begin
  <2> QED
    BY <2>1, <2>2, <1>2, <1>3 DEF IInv, Place
<1>7. NoMissedWakeup' /\ SilentOnlyWhileBuffered'
  BY <1>2 DEF IInv, NoMissedWakeup, SilentOnlyWhileBuffered, Need
<1>8. StreamStep
  BY <1>2, <1>3 DEF StreamStep, Stream!Next, Stream!Send
<1> QED
  BY <1>4, <1>5, <1>6, <1>7, <1>8 DEF IInv

------------------------------------------------------------------------------
(* A call of parseMessage that finds the bytes up to a.                     *)

LEMMA MessageParts ==
  ASSUME IInv, NEW i \in 1..Len(sent)
  PROVE  /\ sent[i] \in Message
         /\ sent[i].at \in Nat /\ sent[i].size \in Nat /\ sent[i].size > 0
         /\ sent[i] = [at |-> sent[i].at, size |-> sent[i].size, sound |-> sent[i].sound]
<1>1. sent[i] \in Message
  BY DEF IInv, TypeOK
<1>2. sent[i].size \in Payload /\ sent[i].at \in Nat
  BY <1>1 DEF Message
<1>3. sent[i].size \in Nat /\ sent[i].size > 0
  BY <1>2
<1> QED
  BY <1>1, <1>2, <1>3 DEF Message

\* Messages begin at different places.
LEMMA Apart ==
  ASSUME IInv, NEW i \in 1..Len(sent), NEW j \in 1..Len(sent), sent[i].at = sent[j].at
  PROVE  i = j
<1>1. sent[i].at \in Nat /\ sent[i].size \in Nat /\ sent[j].size \in Nat
  BY MessageParts
<1>2. CASE i < j
  <2>1. sent[i].at + Header + sent[i].size <= sent[j].at
    BY <1>2 DEF IInv, Layout
  <2> QED
    BY <2>1, <1>1
<1>3. CASE j < i
  <2>1. sent[j].at + Header + sent[j].size <= sent[i].at
    BY <1>3 DEF IInv, Layout
  <2> QED
    BY <2>1, <1>1
<1> QED
  BY <1>2, <1>3

\* What the two callers see to.
Finds(a, note, q) ==
  /\ IInv
  /\ a \in Nat /\ arrived <= a /\ a <= written /\ a - consumed <= BufferMax
  /\ note \in BOOLEAN /\ (~note => a > consumed)
  /\ q \in Nat

LEMMA ParseNothingOK ==
  ASSUME NEW a, NEW note, NEW q, Finds(a, note, q),
         arrived' = a, ParseNothing(a, note, q)
  PROVE  IInv' /\ StreamStep
<1>1. TypeOK'
  BY DEF Finds, IInv, TypeOK, ParseNothing
<1>2. Layout' /\ Place'
  BY DEF Finds, IInv, ParseNothing, Layout, Place, Begin
<1>3. NoMissedWakeup' /\ SilentOnlyWhileBuffered'
  BY DEF Finds, IInv, TypeOK, ParseNothing, NoMissedWakeup, SilentOnlyWhileBuffered, Need
<1>4. StreamStep
  BY DEF ParseNothing, StreamStep
<1> QED
  BY <1>1, <1>2, <1>3, <1>4 DEF IInv

LEMMA ParseHeaderOK ==
  ASSUME NEW a, NEW note, NEW q, Finds(a, note, q),
         arrived' = a, ParseHeader(a, note, q)
  PROVE  IInv' /\ StreamStep
<1>0. PICK n : n = Len(handled)
  OBVIOUS
<1> DEFINE here(i) == sent[i].at = consumed
<1>1. /\ a \in Nat /\ consumed \in Nat /\ written \in Nat /\ a <= written
      /\ consumed <= a /\ n \in Nat /\ n <= Len(sent) /\ Len(sent) \in Nat
      /\ consumed + Header <= a /\ q \in Nat
      /\ ps = "PS_EXPECT_HEADER" /\ consumed = Begin(n + 1)
  BY <1>0 DEF Finds, IInv, TypeOK, Place, ParseHeader
<1>2. n + 1 \in 1..Len(sent) /\ here(n + 1)
  BY <1>1 DEF Begin
<1>3. /\ sent[n + 1] \in Message
      /\ sent[n + 1].size \in Nat /\ sent[n + 1].size > 0
      /\ sent[n + 1] = [at |-> consumed, size |-> sent[n + 1].size, sound |-> sent[n + 1].sound]
  BY <1>2, MessageParts DEF Finds
<1>4. ASSUME NEW i \in 1..Len(sent), here(i) PROVE i = n + 1
  BY <1>2, <1>4, Apart DEF Finds
<1>5. /\ UNCHANGED <<up, sent, written, handled>>
      /\ consumed' = consumed + Header
      /\ notifier' = (note \/ consumed + Header = a)
  BY DEF ParseHeader, Takes
<1>6. Layout'
  BY <1>5 DEF Finds, IInv, Layout, Begin
<1>7. SilentOnlyWhileBuffered'
  <2>1. ~notifier' => consumed + Header # a
    BY <1>5
  <2> QED
    BY <2>1, <1>1, <1>5 DEF SilentOnlyWhileBuffered
<1>8. CASE sent[n + 1].sound
  <2>1. \E i \in 1..Len(sent) : sent[i].at = consumed /\ sent[i].sound
    BY <1>2, <1>8
  <2>2. /\ ps' = "PS_EXPECT_PAYLOAD"
        /\ \E i \in 1..Len(sent) : here(i) /\ payloadSize' = sent[i].size
        /\ posted' = IF a - consumed > Header THEN q + 1 ELSE q
    BY <2>1 DEF ParseHeader, Left
  <2>3. payloadSize' = sent[n + 1].size
    BY <2>2, <1>4
  <2>4. posted' \in Nat /\ payloadSize' \in Nat
    BY <2>2, <2>3, <1>1, <1>3
  <2>5. TypeOK'
    BY <2>2, <2>4, <1>1, <1>5 DEF Finds, IInv, TypeOK
  <2>6. sent[n + 1].sound = TRUE
    BY <1>3, <1>8 DEF Message
  <2>7. Place'
    <3>1. \A i \in 1..n : handled[i] = sent[i]
      BY <1>0 DEF Finds, IInv, Place
    <3>2. consumed' - Header = consumed /\ Header <= consumed'
      BY <1>1, <1>5
    <3>3. sent'[n + 1] = [at |-> consumed' - Header, size |-> payloadSize', sound |-> TRUE]
      BY <2>3, <2>6, <3>2, <1>3, <1>5
    <3> QED
      BY <2>2, <3>1, <3>2, <3>3, <1>0, <1>1, <1>2, <1>5 DEF Place
  <2>8. NoMissedWakeup'
    <3>1. Need' = payloadSize' /\ payloadSize' > 0
      BY <2>2, <2>3, <1>3 DEF Need
    <3>2. arrived' - consumed' >= payloadSize' => a - consumed > Header
      BY <2>4, <3>1, <1>1, <1>5
    <3> QED
      BY <2>2, <3>1, <3>2, <1>1 DEF NoMissedWakeup
  <2> QED
    BY <2>5, <2>7, <2>8, <1>5, <1>6, <1>7 DEF IInv, StreamStep
<1>9. CASE ~sent[n + 1].sound
  <2>1. ps' = "PS_ERROR" /\ posted' = q /\ payloadSize' = payloadSize
    BY <1>4, <1>9 DEF ParseHeader
  <2>2. TypeOK'
    BY <2>1, <1>1, <1>5 DEF Finds, IInv, TypeOK
  <2>3. Place' /\ NoMissedWakeup'
    BY <2>1, <1>5 DEF Finds, IInv, Place, NoMissedWakeup
  <2> QED
    BY <2>2, <2>3, <1>5, <1>6, <1>7 DEF IInv, StreamStep
<1> QED
  BY <1>8, <1>9

LEMMA ParsePayloadOK ==
  ASSUME NEW a, NEW note, NEW q, Finds(a, note, q),
         arrived' = a, ParsePayload(a, note, q)
  PROVE  IInv' /\ StreamStep
<1>0. PICK n : n = Len(handled)
  OBVIOUS
<1> DEFINE m == sent[n + 1]
<1>1. /\ a \in Nat /\ consumed \in Nat /\ written \in Nat /\ a <= written
      /\ n \in Nat /\ n < Len(sent) /\ Len(sent) \in Nat /\ q \in Nat
      /\ n + 1 \in 1..Len(sent)
      /\ payloadSize \in Nat /\ consumed + payloadSize <= a
      /\ m = [at |-> consumed - Header, size |-> payloadSize, sound |-> TRUE]
      /\ Header <= consumed
  BY <1>0 DEF Finds, IInv, TypeOK, Place, ParsePayload
<1>2. m \in Message /\ m.sound /\ m \in Sound
  <2>1. m \in Message
    BY <1>1 DEF Finds, IInv, TypeOK
  <2> QED
    BY <2>1, <1>1 DEF Message, Sound
<1>3. /\ UNCHANGED <<up, sent, written, payloadSize>>
      /\ consumed' = consumed + payloadSize
      /\ notifier' = (note \/ consumed + payloadSize = a)
      /\ ps' = "PS_EXPECT_HEADER"
      /\ posted' = IF a - consumed > payloadSize THEN q + 1 ELSE q
      /\ handled' = Append(handled, m)
  BY <1>1 DEF ParsePayload, Takes, Left
<1>4. handled \in Seq(Message)
  BY DEF Finds, IInv, TypeOK
<1>5. consumed + payloadSize = Begin(n + 2)
  <2>1. m.at + Header + m.size = Begin(n + 1 + 1)
    BY <1>1 DEF Finds, IInv, Layout
  <2>2. m.at + Header + m.size = consumed + payloadSize
    BY <1>1
  <2> QED
    BY <2>1, <2>2, <1>1
<1> HIDE DEF m
<1>6. /\ handled' \in Seq(Message) /\ Len(handled') = n + 1
      /\ \A i \in 1..n : handled'[i] = handled[i]
      /\ handled'[n + 1] = m
  BY <1>0, <1>2, <1>3, <1>4
<1>7. TypeOK'
  BY <1>1, <1>3, <1>6 DEF Finds, IInv, TypeOK
<1>8. Layout'
  BY <1>3 DEF Finds, IInv, Layout, Begin
<1>9. Place'
  <2>1. \A i \in 1..Len(handled') : handled'[i] = sent'[i]
    <3>1. \A i \in 1..n : handled[i] = sent[i]
      BY <1>0 DEF Finds, IInv, Place
    <3> QED
      BY <3>1, <1>1, <1>3, <1>6 DEF m
  <2>3. consumed' = IF n + 2 <= Len(sent') THEN sent'[n + 2].at ELSE written'
    BY <1>3, <1>5 DEF Begin
  <2>4. n + 2 = Len(handled') + 1 /\ Len(handled') <= Len(sent')
    BY <1>1, <1>3, <1>6
  <2>5. consumed' = Begin(Len(handled) + 1)'
    BY <2>3, <2>4 DEF Begin
  <2>6. ps' # "PS_EXPECT_PAYLOAD"
    BY <1>3
  <2> QED
    BY <2>1, <2>4, <2>5, <2>6 DEF Place
<1>10. NoMissedWakeup'
  <2>1. arrived' - consumed' >= Need' => a - consumed > payloadSize
    BY <1>1, <1>3 DEF Need
  <2>2. a - consumed > payloadSize => posted' > 0
    BY <1>1, <1>3
  <2> QED
    BY <2>1, <2>2 DEF NoMissedWakeup
<1>11. SilentOnlyWhileBuffered'
  <2>1. ~notifier' => consumed + payloadSize # a
    BY <1>3
  <2> QED
    BY <2>1, <1>1, <1>3 DEF SilentOnlyWhileBuffered
<1>12. StreamStep
  BY <1>0, <1>1, <1>2, <1>3 DEF StreamStep, Stream!Next, Stream!Deliver, m
<1> QED
  BY <1>7, <1>8, <1>9, <1>10, <1>11, <1>12 DEF IInv

LEMMA ParseOK ==
  ASSUME NEW a, NEW note, NEW q, Finds(a, note, q), Parse(a, note, q)
  PROVE  IInv' /\ StreamStep
BY ParseNothingOK, ParseHeaderOK, ParsePayloadOK, GoneOK DEF Parse, ParseError

------------------------------------------------------------------------------
LEMMA NextOK == IInv /\ [Next]_vars => IInv' /\ StreamStep
<1> SUFFICES ASSUME IInv, [Next]_vars PROVE IInv' /\ StreamStep
  OBVIOUS
<1>1. CASE Open
  BY <1>1, OpenOK
<1>2. CASE End
  BY <1>2, GoneOK DEF End
<1>3. CASE NextMessage
  <2>1. PICK a, note, q : a = arrived /\ note = notifier /\ q = posted - 1
    OBVIOUS
  <2>2. Finds(a, note, q)
    BY <1>3, <2>1 DEF NextMessage, Finds, IInv, TypeOK, SilentOnlyWhileBuffered
  <2>3. Parse(a, note, q)
    BY <1>3, <2>1 DEF NextMessage
  <2> QED
    BY <2>2, <2>3, ParseOK
<1>4. ASSUME NEW size \in Payload, NEW sound \in BOOLEAN, Send(size, sound)
      PROVE  IInv' /\ StreamStep
  BY <1>4, SendOK
<1>5. ASSUME NEW n \in 1..(written - arrived), Arrive(n)
      PROVE  IInv' /\ StreamStep
  <2>1. PICK a, note, q :
          a = arrived + n /\ note = (arrived + n - consumed # BufferMax) /\ q = posted
    OBVIOUS
  <2>2. Finds(a, note, q)
    BY <1>5, <2>1 DEF Arrive, Finds, IInv, TypeOK
  <2>3. Parse(a, note, q)
    BY <1>5, <2>1 DEF Arrive
  <2> QED
    BY <2>2, <2>3, ParseOK
<1>6. CASE UNCHANGED vars
  <2>1. TypeOK' /\ NoMissedWakeup' /\ SilentOnlyWhileBuffered'
    BY <1>6 DEF vars, IInv, TypeOK, NoMissedWakeup, SilentOnlyWhileBuffered, Need
  <2>2. Layout' /\ Place'
    BY <1>6 DEF vars, IInv, Layout, Place, Begin
  <2> QED
    BY <2>1, <2>2, <1>6 DEF vars, IInv, StreamStep
<1> QED
  BY <1>1, <1>2, <1>3, <1>4, <1>5, <1>6 DEF Next

LEMMA Invariance == Spec => []IInv
<1>1. IInv /\ [Next]_vars => IInv'
  BY NextOK
<1> QED
  BY InitOK, <1>1, PTL DEF Spec

\* The positions never overtake each other and the read buffer keeps to its
\* limit, whatever arrives.
THEOREM TypeCorrect == Spec => []TypeOK
<1>1. IInv => TypeOK
  BY DEF IInv
<1> QED
  BY Invariance, <1>1, PTL

\* A complete header or payload always has a call of parseMessage coming: the
\* hang the code guards against by asking for bytesAvailable again.
THEOREM NoWakeupMissed == Spec => []NoMissedWakeup
<1>1. IInv => NoMissedWakeup
  BY DEF IInv
<1> QED
  BY Invariance, <1>1, PTL

\* Qt has ceased to listen only while the parser has something left to read.
THEOREM SilenceHasCause == Spec => []SilentOnlyWhileBuffered
<1>1. IInv => SilentOnlyWhileBuffered
  BY DEF IInv
<1> QED
  BY Invariance, <1>1, PTL

\* The transceivers implement MessageStream: each message is handled once, in
\* order, whole, and none after a damaged one.
THEOREM ImplementsMessageStream == Spec => IsMessageStream
<1>1. Init => Stream!Init
  BY DEF Init, Stream!Init
<1>2. IInv /\ [Next]_vars => [Stream!Next]_<<sent, handled>>
  BY NextOK DEF StreamStep
<1> QED
  BY Invariance, <1>1, <1>2, PTL DEF Spec, IsMessageStream, Stream!Spec

\* When everything has arrived and no call of parseMessage is queued, every
\* message is handled: what ReadsOn says is reached is what was sent, for any
\* sizes and any cutting into pieces.
THEOREM NothingHeldBack == Spec => []CaughtUp
<1>1. IInv => CaughtUp
  <2> SUFFICES ASSUME IInv, ps # "PS_ERROR", arrived = written, posted = 0
               PROVE  handled = sent
    BY DEF CaughtUp
  <2>0. /\ sent \in Seq(Message) /\ handled \in Seq(Message)
        /\ Len(handled) \in Nat /\ Len(sent) \in Nat /\ Len(handled) <= Len(sent)
        /\ \A i \in 1..Len(handled) : handled[i] = sent[i]
        /\ written \in Nat /\ consumed \in Nat
    BY DEF IInv, TypeOK, Place
  <2>1. ~(arrived - consumed >= Need)
    BY DEF IInv, NoMissedWakeup
  <2>2. SUFFICES ASSUME Len(handled) < Len(sent) PROVE FALSE
    BY <2>0
  <2>3. PICK n \in 1..Len(sent) : n = Len(handled) + 1
    BY <2>0, <2>2
  <2>4. /\ sent[n].at \in Nat /\ sent[n].size \in Nat
        /\ sent[n].at + Header + sent[n].size <= written
    BY MessageParts DEF IInv, Layout
  <2>5. CASE ps = "PS_EXPECT_HEADER"
    <3>1. consumed = sent[n].at /\ Need = Header
      BY <2>3, <2>5 DEF IInv, Place, Begin, Need
    <3> QED BY <2>0, <2>1, <2>4, <3>1
  <2>6. CASE ps = "PS_EXPECT_PAYLOAD"
    <3>1. sent[n] = [at |-> consumed - Header, size |-> payloadSize, sound |-> TRUE]
      BY <2>3, <2>6 DEF IInv, Place
    <3>2. sent[n].at = consumed - Header /\ Need = sent[n].size
      BY <2>6, <3>1 DEF Need
    <3> QED BY <2>0, <2>1, <2>4, <3>2
  <2> QED BY <2>5, <2>6 DEF IInv, TypeOK
<1> QED
  BY Invariance, <1>1, PTL

===============================================================================
