------------------------------ MODULE MrdpProofs ------------------------------
(***************************************************************************)
(* Proofs about Mrdp: pixels never precede the image they go into, the     *)
(* images of the viewers follow the screen as ScreenMirror says, and       *)
(* where pixels always compress the server never forgets an update.        *)
(***************************************************************************)
EXTENDS Mrdp, SequenceTheorems, TLAPS

------------------------------------------------------------------------------
(* Sequences.                                                               *)

\* A message is put at the end of a connection.
LEMMA SendOne ==
  ASSUME NEW S, NEW q \in Seq(S), NEW m \in S
  PROVE  /\ q \o <<m>> \in Seq(S) /\ Len(q) \in Nat
         /\ Len(q \o <<m>>) = Len(q) + 1
         /\ \A i \in 1..Len(q) : (q \o <<m>>)[i] = q[i]
         /\ (q \o <<m>>)[Len(q) + 1] = m
<1>1. <<m>> \in Seq(S) /\ Len(<<m>>) = 1 /\ <<m>>[1] = m
  OBVIOUS
<1>2. Len(q) \in Nat
  BY LenProperties
<1>3. /\ q \o <<m>> \in Seq(S)
      /\ Len(q \o <<m>>) = Len(q) + Len(<<m>>)
      /\ \A i \in 1..(Len(q) + Len(<<m>>)) :
           (q \o <<m>>)[i] = IF i <= Len(q) THEN q[i] ELSE <<m>>[i - Len(q)]
  BY <1>1, ConcatProperties
<1> QED BY <1>1, <1>2, <1>3

\* The first message of a connection is taken.
LEMMA TakeOne ==
  ASSUME NEW S, NEW q \in Seq(S), q # <<>>
  PROVE  /\ Head(q) = q[1] /\ q[1] \in S /\ Tail(q) \in Seq(S)
         /\ Len(q) \in Nat /\ Len(q) >= 1 /\ Len(Tail(q)) = Len(q) - 1
         /\ \A i \in 1..Len(Tail(q)) : Tail(q)[i] = q[i + 1]
<1>1. Len(q) \in Nat /\ Len(q) # 0
  BY EmptySeq, LenProperties
<1>2. q[1] \in S
  BY <1>1, ElementOfSeq
<1> QED BY <1>1, <1>2, HeadTailProperties

------------------------------------------------------------------------------
(* Posting an update.                                                       *)

\* Pixels of the screen are an update, and so is none.
LEMMA SnapshotType ==
  ASSUME screen \in [Tile -> Nat], NEW rgn
  PROVE  Snapshot(rgn) \in Update /\ Void \in Update
BY DEF Snapshot, Update, Void

\* What posting leaves in the stub and sends: nothing happens, or the
\* compression fails and the region is lost, or a snapshot of the region is
\* sent and stays in the pool.
LEMMA PostCases ==
  ASSUME screen \in [Tile -> Nat], NEW st \in Stubs, NEW rgn \in SUBSET Tile,
         NEW how \in {"sent", "full", "lzo"}
  PROVE  /\ Post(st, rgn, how) \in Stubs
         /\ Post(st, rgn, how).ss = st.ss /\ Post(st, rgn, how).surm = st.surm
         /\ \/ Post(st, rgn, how) = st /\ Posted(rgn, how) = <<>>
               /\ (rgn = {} \/ how = "full")
            \/ /\ Post(st, rgn, how).suEvt = Void /\ Post(st, rgn, how).accum = {}
               /\ Posted(rgn, how) = <<>> /\ how = "lzo"
            \/ /\ Post(st, rgn, how).suEvt = Snapshot(rgn)
               /\ Post(st, rgn, how).accum = {}
               /\ Posted(rgn, how) = <<Evt("EVENT_SCREENUPDATED", Snapshot(rgn))>>
               /\ how = "sent"
<1>1. Snapshot(rgn) \in Update /\ Void \in Update
  BY SnapshotType
<1>2. CASE rgn = {} \/ how = "full"
  BY <1>2 DEF Post, Posted
<1>3. CASE ~(rgn = {} \/ how = "full") /\ how = "lzo"
  BY <1>1, <1>3 DEF Post, Posted, Stubs
<1>4. CASE ~(rgn = {} \/ how = "full") /\ how # "lzo"
  BY <1>1, <1>4 DEF Post, Posted, Stubs
<1> QED BY <1>2, <1>3, <1>4

\* The messages the server sends.
LEMMA EvtType ==
  ASSUME NEW body \in Update,
         NEW id \in {"EVENT_NEGOTIATION", "RESPONSE_NEGOTIATION",
                     "EVENT_SCREENUPDATED", "EVENT_SERVERSHUTDOWN"}
  PROVE  /\ Evt(id, body) \in Evts
         /\ Evt(id, body).id = id /\ Evt(id, body).suEvt = body
BY DEF Evt, Evts

\* The outcomes of a posting.
LEMMA OutcomeType ==
  ASSUME NEW c \in Client, NEW how \in Outcome(c)
  PROVE  how \in {"sent", "full", "lzo"}
BY DEF Outcome

------------------------------------------------------------------------------
(* The session of a viewer.                                                 *)

\* q is on its way to a viewer in state v that has an image, or will have one
\* when it has handled q.
Attached(q, v) ==
  v = "open" \/ \E j \in 1..Len(q) : q[j].id = "RESPONSE_NEGOTIATION"

\* Where a negotiation is: its event comes first, to a viewer that has just
\* connected; its response is sent once, and not before the stub is done
\* with it; pixels follow it.
Channel(q, v, ss) ==
  \A i \in 1..Len(q) :
    /\ q[i].id = "EVENT_NEGOTIATION" => i = 1 /\ v = "connected"
    /\ q[i].id = "RESPONSE_NEGOTIATION" =>
         /\ v # "open" /\ ss # "NEGOTIATE_0"
         /\ \A j \in 1..Len(q) : q[j].id = "RESPONSE_NEGOTIATION" => j = i
    /\ q[i].suEvt # Void =>
         /\ q[i].id = "EVENT_SCREENUPDATED"
         /\ v = "open" \/ \E j \in 1..(i - 1) : q[j].id = "RESPONSE_NEGOTIATION"

\* The stub st, the messages up to it and down to the viewer, the viewer in v,
\* the service.
SessionOf(st, up, down, v, run) ==
  /\ v = "off" => down = <<>>
  /\ st.ss = "CLOSED" => up = <<>> /\ st = NoStub
  /\ st.ss # "CLOSED" => run
  /\ st.ss = "NEGOTIATE_0" => st.accum = {} /\ st.suEvt = Void /\ v # "open"
  /\ st.ss = "ESTABLISHED" /\ v # "off" => Attached(down, v)
  /\ Channel(down, v, st.ss)

Session == \A c \in Client : SessionOf(stub[c], c2s[c], s2c[c], viewer[c], running)

\* An update that follows the response of the negotiation, or that is empty,
\* may be sent.
LEMMA ChannelSend ==
  ASSUME NEW q \in Seq(Evts), NEW v, NEW ss, Channel(q, v, ss),
         NEW body \in Update, body = Void \/ Attached(q, v)
  PROVE  LET r == q \o <<Evt("EVENT_SCREENUPDATED", body)>>
         IN  Channel(r, v, ss) /\ (Attached(q, v) => Attached(r, v))
<1> DEFINE m == Evt("EVENT_SCREENUPDATED", body)
           r == q \o <<m>>
<1>1. m \in Evts /\ m.id = "EVENT_SCREENUPDATED" /\ m.suEvt = body
  BY EvtType
<1> HIDE DEF m
<1>2. /\ r \in Seq(Evts) /\ Len(q) \in Nat /\ Len(r) = Len(q) + 1
      /\ \A i \in 1..Len(q) : r[i] = q[i]
      /\ r[Len(q) + 1] = m
  BY <1>1, SendOne
<1> HIDE DEF r
<1>3. Attached(q, v) => Attached(r, v)
  BY <1>2 DEF Attached
<1>4. ASSUME NEW i \in 1..Len(r)
      PROVE  /\ r[i].id = "EVENT_NEGOTIATION" => i = 1 /\ v = "connected"
             /\ r[i].id = "RESPONSE_NEGOTIATION" =>
                  /\ v # "open" /\ ss # "NEGOTIATE_0"
                  /\ \A j \in 1..Len(r) : r[j].id = "RESPONSE_NEGOTIATION" => j = i
             /\ r[i].suEvt # Void =>
                  /\ r[i].id = "EVENT_SCREENUPDATED"
                  /\ v = "open" \/ \E j \in 1..(i - 1) : r[j].id = "RESPONSE_NEGOTIATION"
  <2>1. CASE i \in 1..Len(q)
    <3>1. \A j \in 1..Len(r) : r[j].id = "RESPONSE_NEGOTIATION" => j \in 1..Len(q)
      BY <1>1, <1>2
    <3>2. \A j \in 1..(i - 1) : j \in 1..Len(q) /\ r[j] = q[j]
      BY <1>2, <2>1
    <3> QED BY <1>2, <2>1, <3>1, <3>2 DEF Channel
  <2>2. CASE i = Len(q) + 1
    BY <1>1, <1>2, <2>2 DEF Attached
  <2> QED BY <1>2, <2>1, <2>2
<1> QED BY <1>3, <1>4 DEF Channel, r, m

\* The viewer takes the first message of the connection.
LEMMA ChannelTake ==
  ASSUME NEW q \in Seq(Evts), q # <<>>, NEW v, NEW w, NEW ss, Channel(q, v, ss),
         \/ q[1].id = "EVENT_NEGOTIATION" /\ w = "negotiating"
         \/ q[1].id = "RESPONSE_NEGOTIATION" /\ w = "open"
         \/ q[1].id = "EVENT_SCREENUPDATED" /\ w = v
  PROVE  Channel(Tail(q), w, ss) /\ (Attached(q, v) => Attached(Tail(q), w))
<1> DEFINE r == Tail(q)
<1>1. /\ Len(q) \in Nat /\ Len(q) >= 1 /\ Len(r) = Len(q) - 1
      /\ \A i \in 1..Len(r) : r[i] = q[i + 1]
  BY TakeOne
<1> HIDE DEF r
<1>2. \A i \in 1..Len(r) : i + 1 \in 1..Len(q) /\ i + 1 # 1 /\ r[i] = q[i + 1]
  BY <1>1
<1>3. 1 \in 1..Len(q)
  BY <1>1
<1>4. \A j \in 1..Len(q) : j # 1 => j - 1 \in 1..Len(r) /\ r[j - 1] = q[j]
  BY <1>1
<1>5. v = "open" => w = "open"
  BY <1>3 DEF Channel
<1>6. Attached(q, v) => Attached(r, w)
  <2>1. SUFFICES ASSUME NEW j \in 1..Len(q), q[j].id = "RESPONSE_NEGOTIATION", w # "open"
                 PROVE  Attached(r, w)
    BY <1>5 DEF Attached
  <2>2. j # 1
    BY <2>1
  <2> QED BY <2>1, <2>2, <1>4 DEF Attached
<1>7. ASSUME NEW i \in 1..Len(r)
      PROVE  /\ r[i].id = "EVENT_NEGOTIATION" => i = 1 /\ w = "connected"
             /\ r[i].id = "RESPONSE_NEGOTIATION" =>
                  /\ w # "open" /\ ss # "NEGOTIATE_0"
                  /\ \A j \in 1..Len(r) : r[j].id = "RESPONSE_NEGOTIATION" => j = i
             /\ r[i].suEvt # Void =>
                  /\ r[i].id = "EVENT_SCREENUPDATED"
                  /\ w = "open" \/ \E j \in 1..(i - 1) : r[j].id = "RESPONSE_NEGOTIATION"
  <2>1. r[i].id # "EVENT_NEGOTIATION"
    BY <1>2 DEF Channel
  <2>2. ASSUME r[i].id = "RESPONSE_NEGOTIATION"
        PROVE  /\ w # "open" /\ ss # "NEGOTIATE_0"
               /\ \A j \in 1..Len(r) : r[j].id = "RESPONSE_NEGOTIATION" => j = i
    <3>1. /\ v # "open" /\ ss # "NEGOTIATE_0"
          /\ \A j \in 1..Len(q) : q[j].id = "RESPONSE_NEGOTIATION" => j = i + 1
      BY <1>2, <2>2 DEF Channel
    <3>2. q[1].id # "RESPONSE_NEGOTIATION"
      BY <3>1, <1>2, <1>3
    <3>3. \A j \in 1..Len(r) : r[j].id = "RESPONSE_NEGOTIATION" => j + 1 = i + 1
      BY <3>1, <1>2
    <3> QED BY <3>1, <3>2, <3>3
  <2>3. ASSUME r[i].suEvt # Void, w # "open"
        PROVE  \E j \in 1..(i - 1) : r[j].id = "RESPONSE_NEGOTIATION"
    <3>1. PICK j \in 1..((i + 1) - 1) : q[j].id = "RESPONSE_NEGOTIATION"
      BY <1>2, <2>3, <1>5 DEF Channel
    <3>2. j # 1
      BY <3>1, <2>3
    <3>3. j \in 1..Len(q) /\ j - 1 \in 1..(i - 1)
      BY <3>1, <3>2, <1>1
    <3> QED BY <3>1, <3>2, <3>3, <1>4
  <2>4. r[i].suEvt # Void => r[i].id = "EVENT_SCREENUPDATED"
    BY <1>2 DEF Channel
  <2> QED BY <2>1, <2>2, <2>3, <2>4
<1> QED BY <1>6, <1>7 DEF Channel, r

\* The response of the negotiation may be sent once.
LEMMA ChannelRespond ==
  ASSUME NEW q \in Seq(Evts), NEW v, Channel(q, v, "NEGOTIATE_0"), v # "open"
  PROVE  LET r == q \o <<Evt("RESPONSE_NEGOTIATION", Void)>>
         IN  Channel(r, v, "ESTABLISHED") /\ Attached(r, v)
<1> DEFINE m == Evt("RESPONSE_NEGOTIATION", Void)
           r == q \o <<m>>
<1>1. m \in Evts /\ m.id = "RESPONSE_NEGOTIATION" /\ m.suEvt = Void
  <2>1. Void \in Update
    BY DEF Void, Update
  <2> QED BY <2>1, EvtType
<1> HIDE DEF m
<1>2. /\ r \in Seq(Evts) /\ Len(q) \in Nat /\ Len(r) = Len(q) + 1
      /\ \A i \in 1..Len(q) : r[i] = q[i]
      /\ r[Len(q) + 1] = m
  BY <1>1, SendOne
<1> HIDE DEF r
<1>3. \A i \in 1..Len(q) : r[i].id # "RESPONSE_NEGOTIATION" /\ r[i].suEvt = Void
  <2>1. \A i \in 1..Len(q) : q[i].id # "RESPONSE_NEGOTIATION"
    BY DEF Channel
  <2>2. ASSUME NEW i \in 1..Len(q), q[i].suEvt # Void PROVE FALSE
    <3>1. PICK j \in 1..(i - 1) : q[j].id = "RESPONSE_NEGOTIATION"
      BY <2>2 DEF Channel
    <3>2. j \in 1..Len(q)
      BY <1>2
    <3> QED BY <2>1, <3>1, <3>2
  <2> QED BY <2>1, <2>2, <1>2
<1>4. \A i \in 1..Len(r) : i \in 1..Len(q) \/ i = Len(q) + 1
  BY <1>2
<1>5. Channel(r, v, "ESTABLISHED")
  BY <1>1, <1>2, <1>3, <1>4 DEF Channel
<1>6. Attached(r, v)
  BY <1>1, <1>2 DEF Attached
<1> QED BY <1>5, <1>6 DEF r, m

\* A live stub that posts an update, or only changes what it remembers, stays
\* in its session; before the session is established it posts nothing.
LEMMA SessionPost ==
  ASSUME NEW st, NEW up, NEW down \in Seq(Evts), NEW v, NEW run,
         SessionOf(st, up, down, v, run), st.ss # "CLOSED",
         NEW st2, st2.ss = st.ss, NEW up2,
         st.ss = "NEGOTIATE_0" => st2.accum = {} /\ st2.suEvt = Void,
         NEW body \in Update, NEW posted,
         posted = <<>> \/ posted = <<Evt("EVENT_SCREENUPDATED", body)>>,
         posted # <<>> => st.ss = "ESTABLISHED"
  PROVE  SessionOf(st2, up2, IF v = "off" THEN <<>> ELSE down \o posted, v, run)
<1>1. CASE v = "off"
  BY <1>1 DEF SessionOf, Channel
<1>2. CASE v # "off" /\ posted = <<>>
  <2>1. down \o posted = down
    BY <1>2, ConcatEmptySeq
  <2> QED BY <1>2, <2>1 DEF SessionOf
<1>3. CASE v # "off" /\ posted # <<>>
  <2>1. st.ss = "ESTABLISHED" /\ Attached(down, v) /\ Channel(down, v, st.ss)
    BY <1>3 DEF SessionOf
  <2>2. Channel(down \o posted, v, st.ss) /\ Attached(down \o posted, v)
    BY <1>3, <2>1, ChannelSend
  <2> QED BY <1>3, <2>1, <2>2 DEF SessionOf
<1> QED BY <1>1, <1>2, <1>3

------------------------------------------------------------------------------
(* Types.                                                                   *)

\* The types and the sessions, which need each other.
SessionInv == TypeOK /\ Session

\* The invariant of the sessions holds at the start.
LEMMA InitSession == Init => SessionInv
<1> SUFFICES ASSUME Init PROVE SessionInv
  OBVIOUS
<1>1. NoStub \in Stubs
  BY DEF NoStub, Stubs, Void, Update
<1>2. <<>> \in Seq(Evts) /\ <<>> \in Seq(Reqs) /\ <<>> \in Seq((SUBSET Tile) \ {{}})
      /\ Len(<<>>) = 0
  BY EmptySeq
<1>3. TypeOK
  BY <1>1, <1>2 DEF Init, TypeOK, Update
<1>4. Session
  BY <1>2 DEF Init, Session, SessionOf, Channel, NoStub
<1> QED BY <1>3, <1>4 DEF SessionInv

\* What sending does to the types of a connection.
LEMMA ToServerType ==
  ASSUME TypeOK, NEW c \in Client, NEW m \in Reqs
  PROVE  ToServer(c, m) \in Seq(Reqs)
BY DEF ToServer, TypeOK

LEMMA ToViewerType ==
  ASSUME TypeOK, NEW c \in Client, NEW msgs \in Seq(Evts)
  PROVE  ToViewer(c, msgs) \in Seq(Evts)
BY ConcatProperties, EmptySeq DEF ToViewer, TypeOK

\* An event is queued.
LEMMA AppendType ==
  ASSUME NEW S, NEW q \in Seq(S), NEW m \in S
  PROVE  Append(q, m) \in Seq(S)
OBVIOUS

\* The requests there are.
LEMMA FieldDomain ==
  DOMAIN Field = {"REQUEST_NEGOTIATION", "REQUEST_SCREENUPDATE",
                  "REQUEST_SCREENUPDATEREPORTMODE"}
BY DEF Field

\* Two messages sent one after the other, or together.
LEMMA EvtsAssociative ==
  ASSUME NEW q \in Seq(Evts), NEW r \in Seq(Evts), NEW s \in Seq(Evts)
  PROVE  (q \o r) \o s = q \o (r \o s)
BY ConcatAssociative

\* What a posting sends is typed.
LEMMA PostedType ==
  ASSUME TypeOK, NEW rgn \in SUBSET Tile, NEW how
  PROVE  Posted(rgn, how) \in Seq(Evts)
<1>1. Snapshot(rgn) \in Update
  BY SnapshotType DEF TypeOK
<1>2. Evt("EVENT_SCREENUPDATED", Snapshot(rgn)) \in Evts
  BY <1>1, EvtType
<1> QED BY <1>2 DEF Posted

\* Only a viewer that has an image gets pixels.
LEMMA FirstPixels ==
  ASSUME SessionInv, NEW c \in Client, s2c[c] # <<>>, s2c[c][1].suEvt # Void
  PROVE  viewer[c] = "open" /\ image[c] \in Update
<1>1. 1 \in 1..Len(s2c[c])
  BY TakeOne DEF SessionInv, TypeOK
<1>2. viewer[c] = "open"
  BY <1>1 DEF SessionInv, Session, SessionOf, Channel
<1> QED BY <1>2 DEF SessionInv, TypeOK

\* Every step keeps the types, given where the messages in flight can be.
LEMMA TypesNext ==
  ASSUME SessionInv, Next
  PROVE  TypeOK'
<1> USE DEF SessionInv
<1>0. Void \in Update /\ NoStub \in Stubs /\ <<>> \in Seq(Reqs)
  BY DEF NoStub, Stubs, Void, Update
<1>a. /\ screen \in [Tile -> Nat] /\ notes \in Seq((SUBSET Tile) \ {{}})
      /\ stub \in [Client -> Stubs] /\ s2c \in [Client -> Seq(Evts)]
  BY DEF TypeOK
<1>1. ASSUME NEW S \in SUBSET Tile, Draw(S) PROVE TypeOK'
  <2>1. S \in (SUBSET Tile) \ {{}}
    BY <1>1 DEF Draw
  <2>2. notes' \in Seq((SUBSET Tile) \ {{}})
    BY <1>1, <1>a, <2>1, AppendType DEF Draw
  <2>3. screen' \in [Tile -> Nat]
    BY <1>1 DEF Draw, TypeOK
  <2> QED BY <1>1, <2>2, <2>3 DEF Draw, TypeOK
<1>2. ASSUME Notify PROVE TypeOK'
  <2>1. notes' \in Seq((SUBSET Tile) \ {{}}) /\ Head(notes) \in SUBSET Tile
    BY <1>2, TakeOne DEF Notify, TypeOK
  <2>2. PICK how \in [Client -> {"sent", "full", "lzo"}] :
          LET gather(c) == [stub[c] EXCEPT !.accum = @ \cup Head(notes)]
              active(c) == Reports(c) /\ stub[c].surm = "ACTIVE"
          IN /\ stub' = [c \in Client |->
                           IF active(c) THEN Post(gather(c), gather(c).accum, how[c])
                           ELSE IF Reports(c) THEN gather(c) ELSE stub[c]]
             /\ s2c' = [c \in Client |->
                          IF active(c) THEN ToViewer(c, Posted(gather(c).accum, how[c]))
                          ELSE s2c[c]]
    BY <1>2 DEF Notify
  <2> DEFINE gather(c) == [stub[c] EXCEPT !.accum = @ \cup Head(notes)]
  <2>3. ASSUME NEW c \in Client
        PROVE  /\ gather(c) \in Stubs /\ gather(c).accum \in SUBSET Tile
               /\ Post(gather(c), gather(c).accum, how[c]) \in Stubs
               /\ ToViewer(c, Posted(gather(c).accum, how[c])) \in Seq(Evts)
    <3>1. gather(c) \in Stubs /\ gather(c).accum \in SUBSET Tile
      BY <2>1 DEF TypeOK, Stubs
    <3> HIDE DEF gather
    <3>2. Post(gather(c), gather(c).accum, how[c]) \in Stubs
      BY <1>a, <3>1, PostCases
    <3>3. ToViewer(c, Posted(gather(c).accum, how[c])) \in Seq(Evts)
      BY <3>1, PostedType, ToViewerType
    <3> QED BY <3>1, <3>2, <3>3
  <2> HIDE DEF gather
  <2>4. stub' \in [Client -> Stubs]
    BY <2>2, <2>3 DEF gather, TypeOK
  <2>5. s2c' \in [Client -> Seq(Evts)]
    BY <2>2, <2>3 DEF gather, TypeOK
  <2> QED BY <1>2, <2>1, <2>4, <2>5 DEF Notify, TypeOK
<1>3. ASSUME StartService PROVE TypeOK'
  BY <1>3 DEF StartService, TypeOK
<1>4. ASSUME StopService PROVE TypeOK'
  <2>1. ASSUME NEW c \in Client
        PROVE  ToViewer(c, <<Evt("EVENT_SCREENUPDATED", stub[c].suEvt)>>) \in Seq(Evts)
    <3>1. stub[c].suEvt \in Update
      BY DEF TypeOK, Stubs
    <3>2. Evt("EVENT_SCREENUPDATED", stub[c].suEvt) \in Evts
      BY <3>1, EvtType
    <3>3. <<Evt("EVENT_SCREENUPDATED", stub[c].suEvt)>> \in Seq(Evts)
      BY <3>2
    <3> QED BY <3>3, ToViewerType
  <2>2. s2c' \in [Client -> Seq(Evts)]
    BY <1>4, <2>1 DEF StopService, TypeOK
  <2>3. stub' \in [Client -> Stubs] /\ c2s' \in [Client -> Seq(Reqs)] /\ running' \in BOOLEAN
    BY <1>0, <1>4 DEF StopService
  <2> QED BY <1>4, <2>2, <2>3 DEF StopService, TypeOK
<1>5. ASSUME NEW c \in Client, Connect(c) PROVE TypeOK'
  <2>1. [NoStub EXCEPT !.ss = "NEGOTIATE_0"] \in Stubs
    BY <1>0 DEF NoStub, Stubs
  <2>2. Evt("EVENT_NEGOTIATION", Void) \in Evts
    BY <1>0, EvtType
  <2>3. stub' \in [Client -> Stubs] /\ s2c' \in [Client -> Seq(Evts)]
    BY <1>5, <2>1, <2>2 DEF Connect, TypeOK
  <2> QED BY <1>5, <2>3 DEF Connect, TypeOK
<1>6. ASSUME NEW c \in Client, DropStub(c) PROVE TypeOK'
  BY <1>0, <1>6 DEF DropStub, TypeOK
<1>7. ASSUME NEW c \in Client, NEW id, Request(c, id)
      PROVE  c2s' \in [Client -> Seq(Reqs)] /\ c2s[c][1] \in Reqs /\ c2s[c][1] = Head(c2s[c])
  <2>1. c2s[c] \in Seq(Reqs) /\ c2s[c] # <<>>
    BY <1>7 DEF Request, TypeOK
  <2>2. Tail(c2s[c]) \in Seq(Reqs) /\ c2s[c][1] \in Reqs /\ c2s[c][1] = Head(c2s[c])
    BY <2>1, TakeOne
  <2> QED BY <1>7, <2>2 DEF Request, TypeOK
<1>8. ASSUME NEW c \in Client, NegotiateReq(c) PROVE TypeOK'
  <2> DEFINE m  == Head(c2s[c])
             st == [stub[c] EXCEPT !.ss = "ESTABLISHED", !.surm = m.surm]
  <2>1. m \in Reqs
    BY <1>7, <1>8 DEF NegotiateReq
  <2>2. st \in Stubs
    BY <2>1 DEF Stubs, Reqs, TypeOK
  <2>3. ASSUME NEW how \in Outcome(c)
        PROVE  /\ Post(st, Tile, how) \in Stubs
               /\ ToViewer(c, <<Evt("RESPONSE_NEGOTIATION", Void)>> \o Posted(Tile, how))
                    \in Seq(Evts)
    <3>1. Post(st, Tile, how) \in Stubs
      <4> HIDE DEF st
      <4>1. Tile \in SUBSET Tile /\ how \in {"sent", "full", "lzo"}
        BY OutcomeType
      <4> QED BY <1>a, <2>2, <4>1, PostCases
    <3>2. Evt("RESPONSE_NEGOTIATION", Void) \in Evts
      BY <1>0, EvtType
    <3>3. <<Evt("RESPONSE_NEGOTIATION", Void)>> \in Seq(Evts)
      BY <3>2
    <3>4. <<Evt("RESPONSE_NEGOTIATION", Void)>> \o Posted(Tile, how) \in Seq(Evts)
      BY <3>3, PostedType, ConcatProperties
    <3> QED BY <3>1, <3>4, ToViewerType
  <2> HIDE DEF m, st
  <2>4. CASE UNCHANGED <<stub, s2c>>
    BY <1>7, <1>8, <2>4 DEF NegotiateReq, Request, TypeOK
  <2>5. CASE ~UNCHANGED <<stub, s2c>>
    <3>1. PICK how \in Outcome(c) :
            /\ stub' = [stub EXCEPT ![c] = Post(st, Tile, how)]
            /\ s2c' = [s2c EXCEPT ![c] =
                 ToViewer(c, <<Evt("RESPONSE_NEGOTIATION", Void)>> \o Posted(Tile, how))]
      BY <1>8, <2>5 DEF NegotiateReq, m, st
    <3>2. stub' \in [Client -> Stubs] /\ s2c' \in [Client -> Seq(Evts)]
      BY <1>a, <2>3, <3>1
    <3> QED BY <1>7, <1>8, <3>2 DEF NegotiateReq, Request, TypeOK
  <2> QED BY <2>4, <2>5
<1>9. ASSUME NEW c \in Client, ScreenUpdateReq(c) PROVE TypeOK'
  <2>1. stub[c] \in Stubs /\ stub[c].accum \in SUBSET Tile
    BY DEF TypeOK, Stubs
  <2>2. ASSUME NEW how \in Outcome(c)
        PROVE  /\ Post(stub[c], stub[c].accum, how) \in Stubs
               /\ ToViewer(c, Posted(stub[c].accum, how)) \in Seq(Evts)
    <3>1. Post(stub[c], stub[c].accum, how) \in Stubs
      BY <1>a, <2>1, OutcomeType, PostCases
    <3> QED BY <2>1, <3>1, PostedType, ToViewerType
  <2>3. CASE UNCHANGED <<stub, s2c>>
    BY <1>7, <1>9, <2>3 DEF ScreenUpdateReq, Request, TypeOK
  <2>4. CASE ~UNCHANGED <<stub, s2c>>
    <3>1. PICK how \in Outcome(c) :
            /\ stub' = [stub EXCEPT ![c] = Post(@, @.accum, how)]
            /\ s2c' = [s2c EXCEPT ![c] = ToViewer(c, Posted(stub[c].accum, how))]
      BY <1>9, <2>4 DEF ScreenUpdateReq
    <3>2. stub' \in [Client -> Stubs] /\ s2c' \in [Client -> Seq(Evts)]
      BY <1>a, <2>2, <3>1
    <3> QED BY <1>7, <1>9, <3>2 DEF ScreenUpdateReq, Request, TypeOK
  <2> QED BY <2>3, <2>4
<1>10. ASSUME NEW c \in Client, ReportModeReq(c) PROVE TypeOK'
  <2>1. Head(c2s[c]).surm \in {"ACTIVE", "PASSIVE"}
    BY <1>7, <1>10 DEF ReportModeReq, Reqs
  <2>2. stub' \in [Client -> Stubs]
    BY <1>10, <2>1 DEF ReportModeReq, TypeOK, Stubs
  <2> QED BY <1>7, <1>10, <2>2 DEF ReportModeReq, Request, TypeOK
<1>11. ASSUME NEW c \in Client, NEW id, Event(c, id)
       PROVE  s2c' \in [Client -> Seq(Evts)] /\ told' \in [Client -> BOOLEAN]
  <2>1. Tail(s2c[c]) \in Seq(Evts)
    BY <1>11, TakeOne DEF Event, TypeOK
  <2> QED BY <1>11, <2>1 DEF Event, TypeOK
<1>12. ASSUME NEW c \in Client, NegotiateEvt(c) PROVE TypeOK'
  <2>1. Req("REQUEST_NEGOTIATION", "negoreq", "ACTIVE", TRUE) \in Reqs
    BY FieldDomain DEF Req, Reqs
  <2>2. c2s' \in [Client -> Seq(Reqs)]
    BY <1>12, <2>1, ToServerType DEF NegotiateEvt, TypeOK
  <2>3. viewer[c] # "open"
    <3>1. s2c[c] \in Seq(Evts) /\ s2c[c] # <<>>
      BY <1>12 DEF NegotiateEvt, Event, TypeOK
    <3>2. 1 \in 1..Len(s2c[c]) /\ s2c[c][1].id = "EVENT_NEGOTIATION"
      BY <3>1, <1>12, TakeOne DEF NegotiateEvt, Event
    <3> QED BY <3>2 DEF Session, SessionOf, Channel
  <2> QED BY <1>11, <1>12, <2>2, <2>3 DEF NegotiateEvt, Event, TypeOK
<1>13. ASSUME NEW c \in Client, NegotiateResp(c) PROVE TypeOK'
  <2>1. [t \in Tile |-> 0] \in Update /\ [t \in Tile |-> 0] # Detached
    BY MrdpAssumption DEF Update
  <2> QED BY <1>11, <1>13, <2>1 DEF NegotiateResp, Event, TypeOK
<1>14. ASSUME NEW c \in Client, ScreenUpdatedEvt(c) PROVE TypeOK'
  <2>1. s2c[c] \in Seq(Evts) /\ s2c[c] # <<>> /\ Head(s2c[c]) = s2c[c][1]
        /\ s2c[c][1] \in Evts
    BY <1>14, TakeOne DEF ScreenUpdatedEvt, Event, TypeOK
  <2>2. s2c[c][1].suEvt \in Update
    BY <2>1 DEF Evts
  <2>3. /\ image' \in [Client -> Update \cup {Detached}]
        /\ \A d \in Client : image'[d] # Detached <=> viewer[d] = "open"
    <3>1. CASE s2c[c][1].suEvt = Void
      BY <1>14, <2>1, <3>1 DEF ScreenUpdatedEvt, TypeOK
    <3>2. CASE s2c[c][1].suEvt # Void
      <4> DEFINE new == [t \in Tile |-> IF s2c[c][1].suEvt[t] # 0 THEN s2c[c][1].suEvt[t]
                                         ELSE image[c][t]]
      <4>1. viewer[c] = "open" /\ image[c] \in Update
        BY <2>1, <3>2, FirstPixels
      <4>2. new \in Update /\ new # Detached
        BY <2>2, <4>1, MrdpAssumption DEF Update
      <4>3. image' = [image EXCEPT ![c] = new]
        BY <1>14, <2>1, <3>2 DEF ScreenUpdatedEvt
      <4> HIDE DEF new
      <4> QED BY <4>1, <4>2, <4>3 DEF TypeOK
    <3> QED BY <3>1, <3>2
  <2> QED BY <1>11, <1>14, <2>3 DEF ScreenUpdatedEvt, Event, TypeOK
<1>15. ASSUME NEW c \in Client, Close(c) PROVE TypeOK'
  BY <1>15 DEF Close, TypeOK
<1>16. ASSUME NEW c \in Client, NEW id \in DOMAIN Field,
              NEW field \in {"sureq", "surmreq"}, NEW mode \in {"ACTIVE", "PASSIVE"},
              Ask(c, id, field, mode), timer' \in [Client -> BOOLEAN]
       PROVE  TypeOK'
  <2>1. \A own \in BOOLEAN : Req(id, field, mode, own) \in Reqs
    BY DEF Req, Reqs
  <2>2. c2s' \in [Client -> Seq(Reqs)]
    BY <1>16, <2>1, ToServerType DEF Ask, TypeOK
  <2> QED BY <1>16, <2>2 DEF Ask, TypeOK
<1>17. ASSUME NEW c \in Client, NEW i \in BOOLEAN, SwitchRefreshMode(c, i) PROVE TypeOK'
  BY <1>16, <1>17, FieldDomain DEF SwitchRefreshMode, TypeOK
<1>18. ASSUME NEW c \in Client, QueryScreenUpdate(c) PROVE TypeOK'
  BY <1>16, <1>18, FieldDomain DEF QueryScreenUpdate, TypeOK
<1> QED
  BY <1>1, <1>2, <1>3, <1>4, <1>5, <1>6, <1>8, <1>9, <1>10, <1>12, <1>13, <1>14, <1>15,
     <1>17, <1>18 DEF Next, HangUp, Reset, Handle, Receive

------------------------------------------------------------------------------
(* The sessions.                                                            *)

\* What is the same for a viewer whose session a step does not touch.
Untouched(d) ==
  stub'[d] = stub[d] /\ c2s'[d] = c2s[d] /\ s2c'[d] = s2c[d] /\ viewer'[d] = viewer[d]

\* Only the session of c has to be looked at.
LEMMA SessionLocal ==
  ASSUME Session, NEW c \in Client, running' = running,
         \A d \in Client \ {c} : Untouched(d),
         SessionOf(stub'[c], c2s'[c], s2c'[c], viewer'[c], running)
  PROVE  Session'
<1> SUFFICES ASSUME NEW d \in Client
             PROVE  SessionOf(stub'[d], c2s'[d], s2c'[d], viewer'[d], running')
  BY DEF Session
<1>1. CASE d = c
  BY <1>1
<1>2. CASE d # c
  BY <1>2 DEF Session, Untouched
<1> QED BY <1>1, <1>2

\* Every step keeps the sessions as they should be.
LEMMA SessionNext ==
  ASSUME SessionInv, Next
  PROVE  Session'
<1>0. TypeOK /\ Session /\ stub \in [Client -> Stubs] /\ s2c \in [Client -> Seq(Evts)]
      /\ c2s \in [Client -> Seq(Reqs)] /\ screen \in [Tile -> Nat]
      /\ viewer \in [Client -> {"off", "connected", "negotiating", "open"}]
  BY DEF SessionInv, TypeOK
<1>a. \A d \in Client : SessionOf(stub[d], c2s[d], s2c[d], viewer[d], running)
  BY <1>0 DEF Session
<1>1. ASSUME NEW S \in SUBSET Tile, Draw(S) PROVE Session'
  BY <1>0, <1>1 DEF Draw, Session
<1>2. ASSUME Notify PROVE Session'
  <2> DEFINE gather(c) == [stub[c] EXCEPT !.accum = @ \cup Head(notes)]
             active(c) == Reports(c) /\ stub[c].surm = "ACTIVE"
  <2>1. PICK how \in [Client -> {"sent", "full", "lzo"}] :
          /\ stub' = [c \in Client |->
                       IF active(c) THEN Post(gather(c), gather(c).accum, how[c])
                       ELSE IF Reports(c) THEN gather(c) ELSE stub[c]]
          /\ s2c' = [c \in Client |->
                      IF active(c) THEN ToViewer(c, Posted(gather(c).accum, how[c]))
                      ELSE s2c[c]]
    BY <1>2 DEF Notify
  <2>2. Head(notes) \in SUBSET Tile
    BY <1>0, <1>2, TakeOne DEF Notify, TypeOK
  <2>3. SUFFICES ASSUME NEW c \in Client
                 PROVE  SessionOf(stub'[c], c2s[c], s2c'[c], viewer[c], running)
    BY <1>2 DEF Notify, Session
  <2>4. gather(c) \in Stubs /\ gather(c).accum \in SUBSET Tile
        /\ gather(c).ss = stub[c].ss
    BY <1>0, <2>2 DEF Stubs
  <2> HIDE DEF gather
  <2>5. CASE active(c)
    <3>1. stub[c].ss = "ESTABLISHED" /\ stub[c].ss # "CLOSED" /\ stub[c].ss # "NEGOTIATE_0"
      BY <2>5 DEF Reports
    <3>2. /\ stub'[c] = Post(gather(c), gather(c).accum, how[c])
          /\ s2c'[c] = IF viewer[c] = "off" THEN <<>>
                       ELSE s2c[c] \o Posted(gather(c).accum, how[c])
      BY <2>1, <2>5 DEF ToViewer
    <3>3. Snapshot(gather(c).accum) \in Update
      BY <1>0, SnapshotType
    <3>4. stub'[c].ss = stub[c].ss
      <4>1. how[c] \in {"sent", "full", "lzo"} /\ screen \in [Tile -> Nat]
        BY <1>0
      <4>2. Post(gather(c), gather(c).accum, how[c]).ss = gather(c).ss
        BY <2>4, <4>1, PostCases
      <4> QED BY <2>4, <3>2, <4>2
    <3>5. Posted(gather(c).accum, how[c]) = <<>>
          \/ Posted(gather(c).accum, how[c])
               = <<Evt("EVENT_SCREENUPDATED", Snapshot(gather(c).accum))>>
      BY DEF Posted
    <3> QED BY <1>0, <1>a, <3>1, <3>2, <3>3, <3>4, <3>5, SessionPost
  <2>6. CASE Reports(c) /\ ~active(c)
    <3>1. stub[c].ss = "ESTABLISHED" /\ stub'[c] = gather(c) /\ s2c'[c] = s2c[c]
      BY <2>1, <2>6 DEF Reports
    <3> QED BY <1>a, <2>4, <3>1 DEF SessionOf
  <2>7. CASE ~Reports(c)
    <3>1. stub'[c] = stub[c] /\ s2c'[c] = s2c[c]
      BY <2>1, <2>7
    <3> QED BY <1>a, <3>1
  <2> QED BY <2>5, <2>6, <2>7
<1>3. ASSUME StartService PROVE Session'
  BY <1>0, <1>3 DEF StartService, Session, SessionOf
<1>4. ASSUME StopService PROVE Session'
  <2> SUFFICES ASSUME NEW c \in Client
               PROVE  SessionOf(NoStub, <<>>, s2c'[c], viewer[c], running')
    BY <1>4 DEF StopService, Session
  <2>1. Channel(s2c'[c], viewer[c], "CLOSED") /\ (viewer[c] = "off" => s2c'[c] = <<>>)
    <3>0. Channel(s2c[c], viewer[c], stub[c].ss) /\ (viewer[c] = "off" => s2c[c] = <<>>)
      BY <1>a DEF SessionOf
    <3>a. Channel(s2c[c], viewer[c], "CLOSED")
      BY <3>0 DEF Channel
    <3>1. CASE ~Lives(c)
      BY <1>4, <3>0, <3>a, <3>1 DEF StopService
    <3>2. CASE Lives(c) /\ viewer[c] = "off"
      BY <1>4, <3>2 DEF StopService, ToViewer, Channel
    <3>3. CASE Lives(c) /\ viewer[c] # "off"
      <4>1. s2c'[c] = s2c[c] \o <<Evt("EVENT_SCREENUPDATED", stub[c].suEvt)>>
        BY <1>4, <3>3 DEF StopService, ToViewer
      <4>2. stub[c].suEvt = Void \/ Attached(s2c[c], viewer[c])
        BY <1>0, <1>a, <3>3 DEF SessionOf, Lives, Stubs
      <4>3. stub[c].suEvt \in Update
        BY <1>0 DEF Stubs
      <4> QED BY <1>0, <3>a, <3>3, <4>1, <4>2, <4>3, ChannelSend
    <3> QED BY <3>1, <3>2, <3>3
  <2> QED BY <2>1 DEF SessionOf, NoStub
<1>5. ASSUME NEW c \in Client, Connect(c) PROVE Session'
  <2> DEFINE m == Evt("EVENT_NEGOTIATION", Void)
  <2>1. m.id = "EVENT_NEGOTIATION" /\ m.suEvt = Void
    BY DEF Evt
  <2>2. Len(<<m>>) = 1 /\ <<m>>[1] = m
    OBVIOUS
  <2>3. Channel(<<m>>, "connected", "NEGOTIATE_0")
    <3> HIDE DEF m
    <3> QED BY <2>1, <2>2 DEF Channel
  <2>4. /\ stub'[c].ss = "NEGOTIATE_0" /\ stub'[c].accum = {} /\ stub'[c].suEvt = Void
        /\ s2c'[c] = <<m>> /\ viewer'[c] = "connected"
    BY <1>0, <1>5 DEF Connect, NoStub
  <2>5. running /\ running' = running /\ \A d \in Client \ {c} : Untouched(d)
    BY <1>0, <1>5 DEF Connect, Untouched
  <2>6. SessionOf(stub'[c], c2s'[c], s2c'[c], viewer'[c], running)
    BY <2>3, <2>4, <2>5 DEF SessionOf
  <2> QED BY <1>0, <2>5, <2>6, SessionLocal
<1>6. ASSUME NEW c \in Client, DropStub(c) PROVE Session'
  <2>1. /\ stub'[c] = NoStub /\ c2s'[c] = <<>> /\ s2c'[c] = s2c[c] /\ viewer'[c] = viewer[c]
        /\ running' = running /\ \A d \in Client \ {c} : Untouched(d)
    BY <1>0, <1>6 DEF DropStub, Untouched
  <2>2. SessionOf(NoStub, <<>>, s2c[c], viewer[c], running)
    BY <1>a DEF SessionOf, Channel, NoStub
  <2> QED BY <1>0, <2>1, <2>2, SessionLocal
<1>7. ASSUME NEW c \in Client, NegotiateReq(c) PROVE Session'
  <2> DEFINE st == [stub[c] EXCEPT !.ss = "ESTABLISHED", !.surm = Head(c2s[c]).surm]
             resp == <<Evt("RESPONSE_NEGOTIATION", Void)>>
  <2>1. /\ Lives(c) /\ running' = running /\ \A d \in Client \ {c} : Untouched(d)
        /\ viewer'[c] = viewer[c]
    BY <1>0, <1>7 DEF NegotiateReq, Request, Untouched
  <2>2. CASE UNCHANGED <<stub, s2c>>
    <3>1. SessionOf(stub[c], c2s'[c], s2c[c], viewer[c], running)
      BY <1>a, <2>1 DEF SessionOf, Lives
    <3> QED BY <1>0, <2>1, <2>2, <3>1, SessionLocal
  <2>3. CASE ~UNCHANGED <<stub, s2c>>
    <3>1. PICK how \in Outcome(c) :
            /\ stub' = [stub EXCEPT ![c] = Post(st, Tile, how)]
            /\ s2c' = [s2c EXCEPT ![c] = ToViewer(c, resp \o Posted(Tile, how))]
      BY <1>7, <2>3 DEF NegotiateReq
    <3>2. stub[c].ss = "NEGOTIATE_0" /\ Head(c2s[c]) \in Reqs
      <4>1. c2s[c] # <<>>
        BY <1>7 DEF NegotiateReq, Request
      <4> QED BY <1>0, <1>7, <2>3, <4>1, TakeOne DEF NegotiateReq
    <3>3. st \in Stubs /\ st.ss = "ESTABLISHED"
      BY <1>0, <3>2 DEF Stubs, Reqs
    <3> HIDE DEF st
    <3>4. Post(st, Tile, how).ss = "ESTABLISHED"
      <4>1. Tile \in SUBSET Tile /\ how \in {"sent", "full", "lzo"}
        BY OutcomeType
      <4> QED BY <1>0, <3>3, <4>1, PostCases
    <3>5. stub'[c] = Post(st, Tile, how)
          /\ s2c'[c] = IF viewer[c] = "off" THEN <<>>
                       ELSE s2c[c] \o (resp \o Posted(Tile, how))
      BY <1>0, <3>1 DEF ToViewer
    <3>6. CASE viewer[c] = "off"
      <4>1. SessionOf(stub'[c], c2s'[c], s2c'[c], viewer'[c], running)
        BY <1>a, <2>1, <3>2, <3>4, <3>5, <3>6 DEF SessionOf, Channel
      <4> QED BY <1>0, <2>1, <4>1, SessionLocal
    <3>7. CASE viewer[c] # "off"
      <4> DEFINE q == s2c[c] \o resp
      <4>1. Channel(s2c[c], viewer[c], "NEGOTIATE_0") /\ viewer[c] # "open"
        BY <1>a, <3>2 DEF SessionOf
      <4>2. Channel(q, viewer[c], "ESTABLISHED") /\ Attached(q, viewer[c])
        BY <1>0, <4>1, ChannelRespond
      <4>3. resp \in Seq(Evts) /\ q \in Seq(Evts)
        <5>1. Void \in Update
          BY <1>0, SnapshotType
        <5>2. Evt("RESPONSE_NEGOTIATION", Void) \in Evts
          BY <5>1, EvtType
        <5>3. resp \in Seq(Evts)
          BY <5>2
        <5> QED BY <1>0, <5>3, ConcatProperties
      <4>4. s2c'[c] = q \o Posted(Tile, how)
        BY <1>0, <3>5, <3>7, <4>3, PostedType, EvtsAssociative
      <4> HIDE DEF q
      <4>5. Snapshot(Tile) \in Update
        BY <1>0, SnapshotType
      <4>6. Channel(s2c'[c], viewer[c], "ESTABLISHED") /\ Attached(s2c'[c], viewer[c])
        <5>1. CASE Posted(Tile, how) = <<>>
          BY <4>2, <4>3, <4>4, <5>1, ConcatEmptySeq
        <5>2. CASE Posted(Tile, how) = <<Evt("EVENT_SCREENUPDATED", Snapshot(Tile))>>
          BY <4>2, <4>3, <4>4, <4>5, <5>2, ChannelSend
        <5> QED BY <5>1, <5>2 DEF Posted
      <4>7. running
        BY <1>a, <3>2 DEF SessionOf
      <4>8. SessionOf(stub'[c], c2s'[c], s2c'[c], viewer'[c], running)
        BY <2>1, <3>4, <3>5, <3>7, <4>6, <4>7 DEF SessionOf
      <4> QED BY <1>0, <2>1, <4>8, SessionLocal
    <3> QED BY <3>6, <3>7
  <2> QED BY <2>2, <2>3
<1>8. ASSUME NEW c \in Client, ScreenUpdateReq(c) PROVE Session'
  <2>1. /\ Lives(c) /\ running' = running /\ \A d \in Client \ {c} : Untouched(d)
        /\ viewer'[c] = viewer[c]
    BY <1>0, <1>8 DEF ScreenUpdateReq, Request, Untouched
  <2>2. CASE UNCHANGED <<stub, s2c>>
    <3>1. SessionOf(stub[c], c2s'[c], s2c[c], viewer[c], running)
      BY <1>a, <2>1 DEF SessionOf, Lives
    <3> QED BY <1>0, <2>1, <2>2, <3>1, SessionLocal
  <2>3. CASE ~UNCHANGED <<stub, s2c>>
    <3> DEFINE a == stub[c].accum
    <3>1. PICK how \in Outcome(c) :
            /\ stub' = [stub EXCEPT ![c] = Post(stub[c], a, how)]
            /\ s2c' = [s2c EXCEPT ![c] = ToViewer(c, Posted(a, how))]
      BY <1>8, <2>3 DEF ScreenUpdateReq
    <3>2. a \in SUBSET Tile /\ stub[c] \in Stubs /\ stub[c].ss # "CLOSED"
      BY <1>0, <2>1 DEF Stubs, Lives
    <3>3. stub[c].ss = "NEGOTIATE_0" => a = {} /\ stub[c].suEvt = Void
      BY <1>a DEF SessionOf
    <3> HIDE DEF a
    <3>4. Post(stub[c], a, how).ss = stub[c].ss
      <4>1. how \in {"sent", "full", "lzo"}
        BY OutcomeType
      <4> QED BY <1>0, <3>2, <4>1, PostCases
    <3>5. /\ a = {} => Post(stub[c], a, how) = stub[c] /\ Posted(a, how) = <<>>
          /\ Posted(a, how) = <<>>
              \/ Posted(a, how) = <<Evt("EVENT_SCREENUPDATED", Snapshot(a))>>
      BY DEF Post, Posted
    <3>6. stub'[c] = Post(stub[c], a, how)
          /\ s2c'[c] = IF viewer[c] = "off" THEN <<>> ELSE s2c[c] \o Posted(a, how)
      BY <1>0, <3>1 DEF ToViewer
    <3>7. Snapshot(a) \in Update
      BY <1>0, SnapshotType
    <3>8. stub[c].ss = "NEGOTIATE_0" => stub'[c].accum = {} /\ stub'[c].suEvt = Void
      BY <3>3, <3>5, <3>6 DEF a
    <3>9. Posted(a, how) # <<>> => stub[c].ss = "ESTABLISHED"
      BY <3>2, <3>3, <3>5 DEF Stubs
    <3>10. SessionOf(stub'[c], c2s'[c], s2c'[c], viewer[c], running)
      <4>1. SessionOf(stub[c], c2s[c], s2c[c], viewer[c], running) /\ s2c[c] \in Seq(Evts)
        BY <1>0, <1>a
      <4>2. stub'[c].ss = stub[c].ss
        BY <3>4, <3>6
      <4>a. Posted(a, how) = <<>>
            \/ Posted(a, how) = <<Evt("EVENT_SCREENUPDATED", Snapshot(a))>>
        BY <3>5
      <4>b. stub[c].ss # "CLOSED"
        BY <3>2
      <4>3. SessionOf(stub'[c], c2s'[c],
                      IF viewer[c] = "off" THEN <<>> ELSE s2c[c] \o Posted(a, how),
                      viewer[c], running)
        BY <3>7, <3>8, <3>9, <4>1, <4>2, <4>a, <4>b, SessionPost
      <4> QED BY <3>6, <4>3
    <3> QED BY <1>0, <2>1, <3>10, SessionLocal
  <2> QED BY <2>2, <2>3
<1>9. ASSUME NEW c \in Client, ReportModeReq(c) PROVE Session'
  <2>1. /\ Lives(c) /\ running' = running /\ \A d \in Client \ {c} : Untouched(d)
        /\ viewer'[c] = viewer[c] /\ s2c'[c] = s2c[c]
    BY <1>0, <1>9 DEF ReportModeReq, Request, Untouched
  <2>2. stub'[c].ss = stub[c].ss /\ stub'[c].accum = stub[c].accum
        /\ stub'[c].suEvt = stub[c].suEvt
    BY <1>0, <1>9 DEF ReportModeReq, Stubs
  <2>3. SessionOf(stub'[c], c2s'[c], s2c[c], viewer[c], running)
    BY <1>a, <2>1, <2>2 DEF SessionOf, Lives
  <2> QED BY <1>0, <2>1, <2>3, SessionLocal
<1>10. ASSUME NEW c \in Client, NEW id, NEW w,
              Event(c, id), viewer' = [viewer EXCEPT ![c] = w],
              \/ id = "EVENT_NEGOTIATION" /\ w = "negotiating"
              \/ id = "RESPONSE_NEGOTIATION" /\ w = "open"
              \/ id = "EVENT_SCREENUPDATED" /\ w = viewer[c],
              \A d \in Client \ {c} : c2s'[d] = c2s[d],
              ~Lives(c) => c2s'[c] = <<>>
       PROVE  Session'
  <2> DEFINE q == s2c[c]
  <2>1. /\ q \in Seq(Evts) /\ q # <<>> /\ q[1].id = id /\ viewer[c] # "off"
        /\ s2c'[c] = Tail(q) /\ stub'[c] = stub[c] /\ viewer'[c] = w /\ w # "off"
        /\ running' = running /\ \A d \in Client \ {c} : Untouched(d)
    BY <1>0, <1>10, TakeOne DEF Event, Untouched
  <2>2. Channel(q, viewer[c], stub[c].ss)
    BY <1>a DEF SessionOf
  <2> HIDE DEF q
  <2>3. Channel(Tail(q), w, stub[c].ss)
        /\ (Attached(q, viewer[c]) => Attached(Tail(q), w))
    BY <1>10, <2>1, <2>2, ChannelTake
  <2>4. stub[c].ss = "NEGOTIATE_0" => w # "open"
    <3>1. 1 \in 1..Len(q)
      BY <2>1, TakeOne
    <3>2. stub[c].ss = "NEGOTIATE_0" => id # "RESPONSE_NEGOTIATION" /\ viewer[c] # "open"
      BY <1>a, <2>1, <2>2, <3>1 DEF SessionOf, Channel
    <3> QED BY <1>10, <3>2
  <2>5. SessionOf(stub'[c], c2s'[c], s2c'[c], viewer'[c], running)
    BY <1>a, <1>10, <2>1, <2>3, <2>4 DEF SessionOf, Lives, q
  <2> QED BY <1>0, <2>1, <2>5, SessionLocal
<1>11. ASSUME NEW c \in Client, NegotiateEvt(c) PROVE Session'
  <2>1. (~Lives(c) => c2s'[c] = <<>>) /\ \A d \in Client \ {c} : c2s'[d] = c2s[d]
    BY <1>0, <1>11 DEF NegotiateEvt, ToServer
  <2> QED BY <1>10, <1>11, <2>1 DEF NegotiateEvt
<1>12. ASSUME NEW c \in Client, NegotiateResp(c) PROVE Session'
  <2>1. ~Lives(c) => c2s'[c] = <<>>
    BY <1>a, <1>12 DEF NegotiateResp, SessionOf, Lives
  <2> QED BY <1>10, <1>12, <2>1 DEF NegotiateResp
<1>13. ASSUME NEW c \in Client, ScreenUpdatedEvt(c) PROVE Session'
  <2>1. ~Lives(c) => c2s'[c] = <<>>
    BY <1>a, <1>13 DEF ScreenUpdatedEvt, SessionOf, Lives
  <2>2. viewer' = [viewer EXCEPT ![c] = viewer[c]]
    BY <1>0, <1>13 DEF ScreenUpdatedEvt
  <2> QED BY <1>10, <1>13, <2>1, <2>2 DEF ScreenUpdatedEvt
<1>14. ASSUME NEW c \in Client, Close(c) PROVE Session'
  <2>1. /\ stub'[c] = stub[c] /\ c2s'[c] = c2s[c] /\ s2c'[c] = <<>> /\ viewer'[c] = "off"
        /\ running' = running /\ \A d \in Client \ {c} : Untouched(d)
    BY <1>0, <1>14 DEF Close, Untouched
  <2>2. SessionOf(stub[c], c2s[c], <<>>, "off", running)
    BY <1>a DEF SessionOf, Channel
  <2> QED BY <1>0, <2>1, <2>2, SessionLocal
<1>15. ASSUME NEW c \in Client, NEW id, NEW field, NEW mode, Ask(c, id, field, mode)
       PROVE  Session'
  <2>1. /\ stub'[c] = stub[c] /\ s2c'[c] = s2c[c] /\ viewer'[c] = viewer[c]
        /\ running' = running /\ \A d \in Client \ {c} : Untouched(d)
        /\ ~Lives(c) => c2s'[c] = <<>>
    BY <1>0, <1>15 DEF Ask, ToServer, Untouched
  <2>2. SessionOf(stub[c], c2s'[c], s2c[c], viewer[c], running)
    BY <1>a, <2>1 DEF SessionOf, Lives
  <2> QED BY <1>0, <2>1, <2>2, SessionLocal
<1> QED
  BY <1>1, <1>2, <1>3, <1>4, <1>5, <1>6, <1>7, <1>8, <1>9, <1>11, <1>12, <1>13, <1>14, <1>15
     DEF Next, HangUp, Reset, Handle, Receive, SwitchRefreshMode, QueryScreenUpdate

------------------------------------------------------------------------------
(* The contents of a tile are in order: what the viewer shows is not newer  *)
(* than what is on its way, earlier messages not newer than later ones,     *)
(* none of them newer than the pooled message, and that one not newer than  *)
(* the screen.                                                              *)

\* Where the update b has pixels, those of a are not newer.
Newer(a, b) == \A t \in Tile : b[t] = 0 \/ a[t] <= b[t]
NotAhead(a, scr) == \A t \in Tile : a[t] <= scr[t]

InOrder(q, img, pooled, scr) ==
  /\ \A i \in 1..Len(q) :
       /\ NotAhead(q[i].suEvt, scr) /\ Newer(q[i].suEvt, pooled)
       /\ img # Detached => Newer(img, q[i].suEvt)
       /\ \A j \in (i + 1)..Len(q) : Newer(q[i].suEvt, q[j].suEvt)
  /\ NotAhead(pooled, scr)
  /\ img # Detached => Newer(img, pooled) /\ NotAhead(img, scr)

Versions ==
  /\ \A t \in Tile : screen[t] > 0
  /\ \A c \in Client : InOrder(s2c[c], image[c], stub[c].suEvt, screen)

\* Each tile of b comes from a or from the screen, or has no pixels.
From(b, a, scr) == \A t \in Tile : b[t] = 0 \/ b[t] = a[t] \/ b[t] = scr[t]

\* The pixels of a message in flight.
LEMMA SentType ==
  ASSUME NEW q \in Seq(Evts), NEW i \in 1..Len(q)
  PROVE  q[i].suEvt \in Update
<1>1. q[i] \in Evts
  BY ElementOfSeq
<1> QED BY <1>1 DEF Evts

\* Drawing makes the screen newer and nothing else.
LEMMA OrderDraw ==
  ASSUME NEW q \in Seq(Evts), NEW img \in Update \cup {Detached}, NEW pooled \in Update,
         NEW scr \in Update, NEW scr2 \in Update, InOrder(q, img, pooled, scr),
         NotAhead(scr, scr2)
  PROVE  InOrder(q, img, pooled, scr2)
<1>1. \A i \in 1..Len(q) : q[i].suEvt \in Update
  BY SentType
<1>2. ASSUME NEW a \in Update, NotAhead(a, scr) PROVE NotAhead(a, scr2)
  BY <1>2 DEF NotAhead, Update
<1>3. \A i \in 1..Len(q) : NotAhead(q[i].suEvt, scr2)
  BY <1>1, <1>2 DEF InOrder
<1>4. NotAhead(pooled, scr2) /\ (img # Detached => NotAhead(img, scr2))
  BY <1>2 DEF InOrder
<1> QED BY <1>3, <1>4 DEF InOrder

\* The message in the pool is replaced.
LEMMA OrderPool ==
  ASSUME NEW q \in Seq(Evts), NEW img \in Update \cup {Detached}, NEW pooled \in Update,
         NEW scr \in Update, InOrder(q, img, pooled, scr),
         NEW body \in Update, From(body, pooled, scr)
  PROVE  InOrder(q, img, body, scr)
<1>1. \A i \in 1..Len(q) : q[i].suEvt \in Update
  BY SentType
<1>2. ASSUME NEW a \in Update, Newer(a, pooled), NotAhead(a, scr) PROVE Newer(a, body)
  BY <1>2 DEF Newer, NotAhead, From, Update
<1>3. NotAhead(body, scr)
  BY DEF InOrder, NotAhead, From, Update
<1>4. \A i \in 1..Len(q) : Newer(q[i].suEvt, body)
  BY <1>1, <1>2 DEF InOrder
<1>5. img # Detached => Newer(img, body)
  BY <1>2 DEF InOrder
<1> QED BY <1>3, <1>4, <1>5 DEF InOrder

\* A message is sent that is not newer than the one in the pool.
LEMMA OrderSend ==
  ASSUME NEW q \in Seq(Evts), NEW img \in Update \cup {Detached}, NEW pooled \in Update,
         NEW scr \in Update, InOrder(q, img, pooled, scr), NEW m \in Evts,
         m.suEvt = Void \/ m.suEvt = pooled
  PROVE  InOrder(q \o <<m>>, img, pooled, scr)
<1> DEFINE r == q \o <<m>>
<1>1. /\ r \in Seq(Evts) /\ Len(q) \in Nat /\ Len(r) = Len(q) + 1
      /\ \A i \in 1..Len(q) : r[i] = q[i]
      /\ r[Len(q) + 1] = m
  BY SendOne
<1> HIDE DEF r
<1>2. \A i \in 1..Len(q) : q[i].suEvt \in Update
  BY SentType
<1>3. \A a : Newer(a, Void)
  BY DEF Newer, Void
<1>4. NotAhead(m.suEvt, scr) /\ Newer(m.suEvt, pooled)
  BY DEF InOrder, NotAhead, Newer, Void, Update
<1>5. \A i \in 1..Len(q) : Newer(q[i].suEvt, m.suEvt)
  BY <1>3 DEF InOrder
<1>6. img # Detached => Newer(img, m.suEvt)
  BY <1>3 DEF InOrder
<1>7. ASSUME NEW i \in 1..Len(r)
      PROVE  /\ NotAhead(r[i].suEvt, scr) /\ Newer(r[i].suEvt, pooled)
             /\ img # Detached => Newer(img, r[i].suEvt)
             /\ \A j \in (i + 1)..Len(r) : Newer(r[i].suEvt, r[j].suEvt)
  <2>1. CASE i \in 1..Len(q)
    <3>1. /\ NotAhead(q[i].suEvt, scr) /\ Newer(q[i].suEvt, pooled)
          /\ img # Detached => Newer(img, q[i].suEvt)
          /\ \A j \in (i + 1)..Len(q) : Newer(q[i].suEvt, q[j].suEvt)
      BY <2>1 DEF InOrder
    <3>2. ASSUME NEW j \in (i + 1)..Len(r) PROVE Newer(q[i].suEvt, r[j].suEvt)
      <4>1. (j \in (i + 1)..Len(q) /\ j \in 1..Len(q)) \/ j = Len(q) + 1
        BY <1>1, <2>1
      <4> QED BY <1>1, <1>5, <2>1, <3>1, <4>1
    <3> QED BY <1>1, <2>1, <3>1, <3>2
  <2>2. CASE i = Len(q) + 1
    <3>1. (i + 1)..Len(r) = {}
      BY <1>1, <2>2
    <3> QED BY <1>1, <1>4, <1>6, <2>2, <3>1
  <2> QED BY <1>1, <2>1, <2>2
<1> QED BY <1>7 DEF InOrder, r

\* A connection that is gone.
LEMMA OrderEmpty ==
  ASSUME NEW q, NEW img, NEW pooled, NEW scr, InOrder(q, img, pooled, scr)
  PROVE  /\ InOrder(<<>>, img, pooled, scr)
         /\ InOrder(<<>>, Detached, pooled, scr)
BY EmptySeq DEF InOrder

\* The image after an update.
Merge(img, new) == [t \in Tile |-> IF new[t] # 0 THEN new[t] ELSE img[t]]

\* Taking a message keeps the order, whatever becomes of its pixels.
LEMMA OrderTake ==
  ASSUME NEW q \in Seq(Evts), q # <<>>, NEW img \in Update \cup {Detached},
         NEW pooled \in Update, NEW scr \in Update, InOrder(q, img, pooled, scr),
         NEW new, \/ new = img
                  \/ new = [t \in Tile |-> 0]
                  \/ img # Detached /\ new = Merge(img, q[1].suEvt)
  PROVE  InOrder(Tail(q), new, pooled, scr)
<1> DEFINE r == Tail(q)
           m == q[1].suEvt
<1>1. /\ Len(q) \in Nat /\ Len(q) >= 1 /\ Len(r) = Len(q) - 1
      /\ \A i \in 1..Len(r) : r[i] = q[i + 1]
      /\ q[1] \in Evts /\ 1 \in 1..Len(q)
  BY TakeOne
<1> HIDE DEF r
<1>2. \A i \in 1..Len(r) : i + 1 \in 1..Len(q) /\ i + 1 \in (1 + 1)..Len(q) /\ r[i] = q[i + 1]
  BY <1>1
<1>3. \A i \in 1..Len(q) : q[i].suEvt \in Update
  BY SentType
<1>4. ASSUME NEW i \in 1..Len(r)
      PROVE  /\ NotAhead(r[i].suEvt, scr) /\ Newer(r[i].suEvt, pooled)
             /\ img # Detached => Newer(img, r[i].suEvt)
             /\ Newer(m, r[i].suEvt)
             /\ r[i].suEvt \in Update
             /\ \A j \in (i + 1)..Len(r) : Newer(r[i].suEvt, r[j].suEvt)
  <2>1. \A j \in (i + 1)..Len(r) : j + 1 \in ((i + 1) + 1)..Len(q) /\ r[j] = q[j + 1]
    BY <1>1
  <2> QED BY <1>1, <1>2, <1>3, <2>1 DEF InOrder
<1>5. m \in Update /\ NotAhead(m, scr) /\ Newer(m, pooled) /\ NotAhead(pooled, scr)
      /\ (img # Detached => Newer(img, m) /\ Newer(img, pooled) /\ NotAhead(img, scr))
  BY <1>1, <1>3 DEF InOrder
<1> HIDE DEF m
<1>6. ASSUME NEW b \in Update, Newer(m, b), img # Detached => Newer(img, b), new # Detached
      PROVE  Newer(new, b)
  <2>1. CASE new = img
    BY <1>6, <2>1
  <2>2. CASE new = [t \in Tile |-> 0]
    BY <2>2 DEF Newer, Update
  <2>3. CASE img # Detached /\ new = Merge(img, m)
    BY <1>6, <2>3 DEF Newer, Merge
  <2> QED BY <2>1, <2>2, <2>3 DEF m
<1>7. new # Detached => NotAhead(new, scr)
  <2>1. CASE new = img
    BY <1>5, <2>1
  <2>2. CASE new = [t \in Tile |-> 0]
    BY <2>2 DEF NotAhead, Update
  <2>3. CASE img # Detached /\ new = Merge(img, m)
    BY <1>5, <2>3 DEF NotAhead, Merge
  <2> QED BY <2>1, <2>2, <2>3 DEF m
<1>8. new # Detached => Newer(new, pooled) /\ \A i \in 1..Len(r) : Newer(new, r[i].suEvt)
  BY <1>4, <1>5, <1>6
<1> QED BY <1>4, <1>5, <1>7, <1>8 DEF InOrder, r

\* An update is posted.
LEMMA OrderPost ==
  ASSUME TypeOK, NEW q \in Seq(Evts), NEW img \in Update \cup {Detached},
         NEW st \in Stubs, InOrder(q, img, st.suEvt, screen),
         NEW rgn \in SUBSET Tile, NEW how \in {"sent", "full", "lzo"}
  PROVE  InOrder(q \o Posted(rgn, how), img, Post(st, rgn, how).suEvt, screen)
<1> DEFINE b == Snapshot(rgn)
<1>1. /\ screen \in Update /\ st.suEvt \in Update /\ b \in Update /\ Void \in Update
      /\ screen \in [Tile -> Nat]
  BY SnapshotType DEF TypeOK, Update, Stubs
<1>2. From(b, st.suEvt, screen) /\ From(Void, st.suEvt, screen)
  BY DEF From, Snapshot, Void
<1> HIDE DEF b
<1>3. InOrder(q, img, b, screen) /\ InOrder(q, img, Void, screen)
  BY <1>1, <1>2, OrderPool
<1>4. q \o <<>> = q
  BY ConcatEmptySeq
<1>5. InOrder(q \o <<Evt("EVENT_SCREENUPDATED", b)>>, img, b, screen)
  BY <1>1, <1>3, EvtType, OrderSend
<1> DEFINE p == Post(st, rgn, how)
<1>6. \/ p = st /\ Posted(rgn, how) = <<>>
      \/ p.suEvt = Void /\ Posted(rgn, how) = <<>>
      \/ p.suEvt = b /\ Posted(rgn, how) = <<Evt("EVENT_SCREENUPDATED", b)>>
  BY <1>1, PostCases DEF b
<1> HIDE DEF p
<1>7. CASE p = st /\ Posted(rgn, how) = <<>>
  BY <1>4, <1>7 DEF p
<1>8. CASE p.suEvt = Void /\ Posted(rgn, how) = <<>>
  BY <1>3, <1>4, <1>8 DEF p
<1>9. CASE p.suEvt = b /\ Posted(rgn, how) = <<Evt("EVENT_SCREENUPDATED", b)>>
  BY <1>5, <1>9 DEF p
<1> QED BY <1>6, <1>7, <1>8, <1>9

\* The order holds at the start.
LEMMA InitVersions == Init => Versions
<1> SUFFICES ASSUME Init PROVE Versions
  OBVIOUS
<1>1. Len(<<>>) = 0
  BY EmptySeq
<1>2. Void \in Update /\ screen \in Update /\ NotAhead(Void, screen)
  BY DEF Void, Update, Init, NotAhead
<1>3. InOrder(<<>>, Detached, Void, screen)
  BY <1>1, <1>2 DEF InOrder
<1>4. \A t \in Tile : screen[t] > 0
  BY DEF Init
<1> QED BY <1>3, <1>4 DEF Init, Versions, NoStub

\* Only what concerns c has to be looked at.
LEMMA VersionsLocal ==
  ASSUME Versions, NEW c \in Client, UNCHANGED screen,
         \A d \in Client \ {c} : s2c'[d] = s2c[d] /\ image'[d] = image[d]
                                 /\ stub'[d].suEvt = stub[d].suEvt,
         InOrder(s2c'[c], image'[c], stub'[c].suEvt, screen)
  PROVE  Versions'
<1> SUFFICES ASSUME NEW d \in Client
             PROVE  InOrder(s2c'[d], image'[d], stub'[d].suEvt, screen')
  BY DEF Versions
<1>1. CASE d = c
  BY <1>1
<1>2. CASE d # c
  BY <1>2 DEF Versions
<1> QED BY <1>1, <1>2

\* Every step keeps the order.
LEMMA VersionsNext ==
  ASSUME SessionInv, Versions, Next, TypeOK'
  PROVE  Versions'
<1>0. /\ TypeOK /\ screen \in Update /\ screen' \in Update /\ stub \in [Client -> Stubs]
      /\ s2c \in [Client -> Seq(Evts)] /\ image \in [Client -> Update \cup {Detached}]
      /\ Void \in Update
  BY DEF SessionInv, TypeOK, Update, Void
<1>a. ASSUME NEW c \in Client
      PROVE  /\ InOrder(s2c[c], image[c], stub[c].suEvt, screen)
             /\ s2c[c] \in Seq(Evts) /\ image[c] \in Update \cup {Detached}
             /\ stub[c] \in Stubs /\ stub[c].suEvt \in Update
             /\ SessionOf(stub[c], c2s[c], s2c[c], viewer[c], running)
  BY <1>0 DEF Versions, Stubs, SessionInv, Session
<1>1. ASSUME NEW S \in SUBSET Tile, Draw(S) PROVE Versions'
  <2>1. NotAhead(screen, screen') /\ \A t \in Tile : screen'[t] > 0
    BY <1>0, <1>1 DEF Draw, Versions, NotAhead, Update
  <2>2. UNCHANGED <<s2c, image, stub>>
    BY <1>1 DEF Draw
  <2>3. ASSUME NEW c \in Client PROVE InOrder(s2c[c], image[c], stub[c].suEvt, screen')
    BY <1>0, <1>a, <2>1, OrderDraw
  <2> QED BY <2>1, <2>2, <2>3 DEF Versions
<1>2. ASSUME Notify PROVE Versions'
  <2> DEFINE gather(c) == [stub[c] EXCEPT !.accum = @ \cup Head(notes)]
             active(c) == Reports(c) /\ stub[c].surm = "ACTIVE"
  <2>1. PICK how \in [Client -> {"sent", "full", "lzo"}] :
          /\ stub' = [c \in Client |->
                       IF active(c) THEN Post(gather(c), gather(c).accum, how[c])
                       ELSE IF Reports(c) THEN gather(c) ELSE stub[c]]
          /\ s2c' = [c \in Client |->
                      IF active(c) THEN ToViewer(c, Posted(gather(c).accum, how[c]))
                      ELSE s2c[c]]
    BY <1>2 DEF Notify
  <2>2. Head(notes) \in SUBSET Tile
    BY <1>2, TakeOne DEF Notify, TypeOK, SessionInv
  <2>3. UNCHANGED <<screen, image>>
    BY <1>2 DEF Notify
  <2>4. SUFFICES ASSUME NEW c \in Client
                 PROVE  InOrder(s2c'[c], image[c], stub'[c].suEvt, screen)
    BY <2>3 DEF Versions
  <2>5. gather(c) \in Stubs /\ gather(c).accum \in SUBSET Tile
        /\ gather(c).suEvt = stub[c].suEvt
    BY <1>a, <2>2 DEF Stubs
  <2> HIDE DEF gather
  <2>6. CASE active(c)
    <3> DEFINE a == gather(c).accum
    <3>1. /\ stub'[c] = Post(gather(c), a, how[c])
          /\ s2c'[c] = IF viewer[c] = "off" THEN <<>> ELSE s2c[c] \o Posted(a, how[c])
      BY <2>1, <2>6 DEF ToViewer
    <3>2. how[c] \in {"sent", "full", "lzo"} /\ a \in SUBSET Tile
      BY <2>5
    <3> HIDE DEF a
    <3>3. InOrder(s2c[c] \o Posted(a, how[c]), image[c], stub'[c].suEvt, screen)
      BY <1>0, <1>a, <2>5, <3>1, <3>2, OrderPost
    <3> QED BY <3>1, <3>3, OrderEmpty
  <2>7. CASE ~active(c)
    <3>1. s2c'[c] = s2c[c] /\ stub'[c].suEvt = stub[c].suEvt
      BY <2>1, <2>5, <2>7
    <3> QED BY <1>a, <3>1
  <2> QED BY <2>6, <2>7
<1>3. ASSUME StartService PROVE Versions'
  BY <1>3 DEF StartService, Versions
<1>4. ASSUME StopService PROVE Versions'
  <2> SUFFICES ASSUME NEW c \in Client
               PROVE  InOrder(s2c'[c], image[c], Void, screen)
    BY <1>4 DEF StopService, Versions, NoStub
  <2> DEFINE m == Evt("EVENT_SCREENUPDATED", stub[c].suEvt)
  <2>1. From(Void, stub[c].suEvt, screen)
    BY DEF From, Void
  <2>2. m \in Evts /\ m.suEvt = stub[c].suEvt
    BY <1>a, EvtType
  <2>3. s2c'[c] = IF Lives(c) THEN IF viewer[c] = "off" THEN <<>> ELSE s2c[c] \o <<m>>
                 ELSE s2c[c]
    BY <1>4 DEF StopService, ToViewer
  <2> HIDE DEF m
  <2>4. InOrder(s2c[c] \o <<m>>, image[c], stub[c].suEvt, screen)
        /\ s2c[c] \o <<m>> \in Seq(Evts)
    BY <1>0, <1>a, <2>2, OrderSend, SendOne
  <2>5. InOrder(s2c[c] \o <<m>>, image[c], Void, screen)
    BY <1>0, <1>a, <2>1, <2>4, OrderPool
  <2>6. InOrder(s2c[c], image[c], Void, screen)
    BY <1>0, <1>a, <2>1, OrderPool
  <2> QED BY <2>3, <2>5, <2>6, OrderEmpty
<1>5. ASSUME NEW c \in Client, Connect(c) PROVE Versions'
  <2> DEFINE m == Evt("EVENT_NEGOTIATION", Void)
  <2>1. m \in Evts /\ m.suEvt = Void
    BY <1>0, EvtType
  <2>2. stub'[c].suEvt = Void /\ s2c'[c] = <<m>>
    BY <1>0, <1>5 DEF Connect, NoStub
  <2> HIDE DEF m
  <2>3. stub[c].suEvt = Void
    BY <1>a, <1>5 DEF Connect, SessionOf, Lives, NoStub
  <2>4. InOrder(<<>>, image[c], Void, screen) /\ <<>> \in Seq(Evts)
    BY <1>a, <2>3, OrderEmpty
  <2>5. InOrder(<<>> \o <<m>>, image[c], Void, screen)
    BY <1>0, <1>a, <2>1, <2>4, OrderSend
  <2>6. <<>> \o <<m>> = <<m>>
    BY <2>1, ConcatEmptySeq
  <2>7. /\ UNCHANGED screen /\ image'[c] = image[c]
        /\ \A d \in Client \ {c} : s2c'[d] = s2c[d] /\ image'[d] = image[d]
                                   /\ stub'[d].suEvt = stub[d].suEvt
    BY <1>0, <1>5 DEF Connect
  <2> QED BY <2>2, <2>5, <2>6, <2>7, VersionsLocal
<1>6. ASSUME NEW c \in Client, DropStub(c) PROVE Versions'
  <2>1. From(Void, stub[c].suEvt, screen)
    BY DEF From, Void
  <2>2. InOrder(s2c[c], image[c], Void, screen)
    BY <1>0, <1>a, <2>1, OrderPool
  <2>3. /\ UNCHANGED screen /\ image'[c] = image[c] /\ s2c'[c] = s2c[c]
        /\ stub'[c].suEvt = Void
        /\ \A d \in Client \ {c} : s2c'[d] = s2c[d] /\ image'[d] = image[d]
                                   /\ stub'[d].suEvt = stub[d].suEvt
    BY <1>0, <1>6 DEF DropStub, NoStub
  <2> QED BY <2>2, <2>3, VersionsLocal
<1>7. ASSUME NEW c \in Client, NegotiateReq(c) PROVE Versions'
  <2> DEFINE st == [stub[c] EXCEPT !.ss = "ESTABLISHED", !.surm = Head(c2s[c]).surm]
             m == Evt("RESPONSE_NEGOTIATION", Void)
  <2>1. CASE UNCHANGED <<stub, s2c>>
    BY <1>7, <2>1 DEF NegotiateReq, Request, Versions
  <2>2. CASE ~UNCHANGED <<stub, s2c>>
    <3>1. PICK how \in Outcome(c) :
            /\ stub' = [stub EXCEPT ![c] = Post(st, Tile, how)]
            /\ s2c' = [s2c EXCEPT ![c] = ToViewer(c, <<m>> \o Posted(Tile, how))]
      BY <1>7, <2>2 DEF NegotiateReq
    <3>2. st \in Stubs /\ st.suEvt = stub[c].suEvt
      <4>1. Head(c2s[c]) \in Reqs
        <5>1. c2s[c] # <<>> /\ c2s[c] \in Seq(Reqs)
          BY <1>0, <1>7 DEF NegotiateReq, Request, TypeOK
        <5> QED BY <5>1, TakeOne
      <4> QED BY <1>a, <4>1 DEF Stubs, Reqs
    <3>3. m \in Evts /\ m.suEvt = Void /\ <<m>> \in Seq(Evts)
      BY <1>0, EvtType
    <3> HIDE DEF st, m
    <3>4. how \in {"sent", "full", "lzo"} /\ Tile \in SUBSET Tile
      BY OutcomeType
    <3>5. InOrder(s2c[c] \o <<m>>, image[c], st.suEvt, screen)
          /\ s2c[c] \o <<m>> \in Seq(Evts)
      BY <1>0, <1>a, <3>2, <3>3, OrderSend, SendOne
    <3>6. InOrder((s2c[c] \o <<m>>) \o Posted(Tile, how), image[c],
                  Post(st, Tile, how).suEvt, screen)
      BY <1>0, <1>a, <3>2, <3>4, <3>5, OrderPost
    <3>7. Posted(Tile, how) \in Seq(Evts)
      BY <1>0, <3>4, PostedType
    <3>8. (s2c[c] \o <<m>>) \o Posted(Tile, how) = s2c[c] \o (<<m>> \o Posted(Tile, how))
      <4>1. s2c[c] \in Seq(Evts)
        BY <1>0
      <4> QED BY <3>3, <3>7, <4>1, EvtsAssociative
    <3>9. /\ stub'[c] = Post(st, Tile, how)
          /\ s2c'[c] = IF viewer[c] = "off" THEN <<>>
                       ELSE s2c[c] \o (<<m>> \o Posted(Tile, how))
      BY <1>0, <3>1 DEF ToViewer
    <3>10. InOrder(s2c'[c], image[c], stub'[c].suEvt, screen)
      BY <3>6, <3>8, <3>9, OrderEmpty
    <3>11. /\ UNCHANGED screen /\ image'[c] = image[c]
           /\ \A d \in Client \ {c} : s2c'[d] = s2c[d] /\ image'[d] = image[d]
                                      /\ stub'[d].suEvt = stub[d].suEvt
      BY <1>0, <1>7, <3>1 DEF NegotiateReq, Request
    <3> QED BY <3>10, <3>11, VersionsLocal
  <2> QED BY <2>1, <2>2
<1>8. ASSUME NEW c \in Client, ScreenUpdateReq(c) PROVE Versions'
  <2>1. CASE UNCHANGED <<stub, s2c>>
    BY <1>8, <2>1 DEF ScreenUpdateReq, Request, Versions
  <2>2. CASE ~UNCHANGED <<stub, s2c>>
    <3> DEFINE a == stub[c].accum
    <3>1. PICK how \in Outcome(c) :
            /\ stub' = [stub EXCEPT ![c] = Post(stub[c], a, how)]
            /\ s2c' = [s2c EXCEPT ![c] = ToViewer(c, Posted(a, how))]
      BY <1>8, <2>2 DEF ScreenUpdateReq
    <3>2. how \in {"sent", "full", "lzo"} /\ a \in SUBSET Tile
      BY <1>a, OutcomeType DEF Stubs
    <3> HIDE DEF a
    <3>3. /\ stub'[c] = Post(stub[c], a, how)
          /\ s2c'[c] = IF viewer[c] = "off" THEN <<>> ELSE s2c[c] \o Posted(a, how)
      BY <1>0, <3>1 DEF ToViewer
    <3>4. InOrder(s2c[c] \o Posted(a, how), image[c], Post(stub[c], a, how).suEvt, screen)
      BY <1>0, <1>a, <3>2, OrderPost
    <3>5. InOrder(s2c'[c], image[c], stub'[c].suEvt, screen)
      BY <3>3, <3>4, OrderEmpty
    <3>6. /\ UNCHANGED screen /\ image'[c] = image[c]
          /\ \A d \in Client \ {c} : s2c'[d] = s2c[d] /\ image'[d] = image[d]
                                     /\ stub'[d].suEvt = stub[d].suEvt
      BY <1>0, <1>8, <3>1 DEF ScreenUpdateReq, Request
    <3> QED BY <3>5, <3>6, VersionsLocal
  <2> QED BY <2>1, <2>2
<1>9. ASSUME NEW c \in Client, ReportModeReq(c) PROVE Versions'
  <2>1. UNCHANGED <<screen, s2c, image>> /\ \A d \in Client : stub'[d].suEvt = stub[d].suEvt
    BY <1>0, <1>9 DEF ReportModeReq, Request, Stubs
  <2> QED BY <2>1 DEF Versions
<1>10. ASSUME NEW c \in Client, NEW id, Event(c, id),
              NEW new, image' = [image EXCEPT ![c] = new],
              \/ new = image[c]
              \/ new = [t \in Tile |-> 0]
              \/ image[c] # Detached /\ new = Merge(image[c], s2c[c][1].suEvt)
       PROVE  Versions'
  <2>1. s2c[c] # <<>> /\ s2c'[c] = Tail(s2c[c]) /\ image'[c] = new
        /\ UNCHANGED <<screen, stub>>
        /\ \A d \in Client \ {c} : s2c'[d] = s2c[d] /\ image'[d] = image[d]
    BY <1>0, <1>10 DEF Event
  <2>2. InOrder(Tail(s2c[c]), new, stub[c].suEvt, screen)
    BY <1>0, <1>a, <1>10, <2>1, OrderTake
  <2> QED BY <2>1, <2>2, VersionsLocal
<1>11. ASSUME NEW c \in Client, NegotiateEvt(c) PROVE Versions'
  <2>1. image' = [image EXCEPT ![c] = image[c]]
    BY <1>0, <1>11 DEF NegotiateEvt
  <2>2. Event(c, "EVENT_NEGOTIATION")
    BY <1>11 DEF NegotiateEvt
  <2> QED BY <1>10, <2>1, <2>2
<1>12. ASSUME NEW c \in Client, NegotiateResp(c) PROVE Versions'
  <2>1. image' = [image EXCEPT ![c] = [t \in Tile |-> 0]]
        /\ Event(c, "RESPONSE_NEGOTIATION")
    BY <1>12 DEF NegotiateResp
  <2> QED BY <1>10, <2>1
<1>13. ASSUME NEW c \in Client, ScreenUpdatedEvt(c) PROVE Versions'
  <2>1. s2c[c] # <<>> /\ Head(s2c[c]) = s2c[c][1] /\ Event(c, "EVENT_SCREENUPDATED")
    BY <1>0, <1>13, TakeOne DEF ScreenUpdatedEvt, Event
  <2>2. CASE s2c[c][1].suEvt = Void
    <3>1. image' = [image EXCEPT ![c] = image[c]]
      BY <1>0, <1>13, <2>1, <2>2 DEF ScreenUpdatedEvt
    <3> QED BY <1>10, <2>1, <3>1
  <2>3. CASE s2c[c][1].suEvt # Void
    <3>1. image[c] # Detached
      BY <2>1, <2>3, FirstPixels, MrdpAssumption DEF Update
    <3>2. image' = [image EXCEPT ![c] = Merge(image[c], s2c[c][1].suEvt)]
      BY <1>13, <2>1, <2>3 DEF ScreenUpdatedEvt, Merge
    <3> QED BY <1>10, <2>1, <3>1, <3>2
  <2> QED BY <2>2, <2>3
<1>14. ASSUME NEW c \in Client, Close(c) PROVE Versions'
  <2>1. InOrder(<<>>, Detached, stub[c].suEvt, screen)
    BY <1>a, OrderEmpty
  <2>2. /\ UNCHANGED <<screen, stub>> /\ image'[c] = Detached /\ s2c'[c] = <<>>
        /\ \A d \in Client \ {c} : s2c'[d] = s2c[d] /\ image'[d] = image[d]
    BY <1>0, <1>14 DEF Close
  <2> QED BY <2>1, <2>2, VersionsLocal
<1>15. ASSUME NEW c \in Client, NEW id, NEW field, NEW mode, Ask(c, id, field, mode)
       PROVE  Versions'
  BY <1>15 DEF Ask, Versions
<1> QED
  BY <1>1, <1>2, <1>3, <1>4, <1>5, <1>6, <1>7, <1>8, <1>9, <1>11, <1>12, <1>13, <1>14, <1>15
     DEF Next, HangUp, Reset, Handle, Receive, SwitchRefreshMode, QueryScreenUpdate

------------------------------------------------------------------------------
(* The abstract specification.                                              *)

\* Each step of Mrdp is a step of ScreenMirror or leaves screen and images
\* as they are.
LEMMA MirrorNext ==
  ASSUME SessionInv, Versions, Next, TypeOK'
  PROVE  Mirror!Next \/ UNCHANGED <<screen, image>>
<1>0. /\ TypeOK /\ s2c \in [Client -> Seq(Evts)] /\ screen \in Update
      /\ image \in [Client -> Update \cup {Detached}]
      /\ image' \in [Client -> [Tile -> Nat] \cup {Detached}]
  BY DEF SessionInv, TypeOK, Update
<1>1. ASSUME NEW S \in SUBSET Tile, Draw(S) PROVE Mirror!Next
  BY <1>1 DEF Draw, Mirror!Next, Mirror!Draw
<1>2. ASSUME NEW c \in Client, NegotiateResp(c) PROVE Mirror!Next
  <2>1. s2c[c] \in Seq(Evts) /\ s2c[c] # <<>> /\ Head(s2c[c]).id = "RESPONSE_NEGOTIATION"
    BY <1>0, <1>2 DEF NegotiateResp, Event
  <2>2. 1 \in 1..Len(s2c[c]) /\ s2c[c][1].id = "RESPONSE_NEGOTIATION"
    BY <2>1, TakeOne
  <2>3. viewer[c] # "open"
    BY <2>2 DEF SessionInv, Session, SessionOf, Channel
  <2>4. image[c] = Detached
    BY <1>0, <2>3 DEF TypeOK
  <2>5. Mirror!Attach(c)
    BY <1>2, <2>4 DEF NegotiateResp, Event, Mirror!Attach
  <2> QED BY <2>5 DEF Mirror!Next
<1>3. ASSUME NEW c \in Client, ScreenUpdatedEvt(c)
      PROVE  Mirror!Next \/ UNCHANGED <<screen, image>>
  <2>1. s2c[c] \in Seq(Evts) /\ s2c[c] # <<>> /\ Head(s2c[c]) = s2c[c][1]
        /\ 1 \in 1..Len(s2c[c]) /\ UNCHANGED screen
    BY <1>0, <1>3, TakeOne DEF ScreenUpdatedEvt, Event
  <2>2. CASE s2c[c][1].suEvt = Void
    BY <1>3, <2>1, <2>2 DEF ScreenUpdatedEvt
  <2>3. CASE s2c[c][1].suEvt # Void
    <3> DEFINE m == s2c[c][1].suEvt
    <3>1. m \in Update
      BY <2>1, SentType
    <3>2. image[c] \in Update /\ image[c] # Detached
      BY <2>1, <2>3, FirstPixels, MrdpAssumption DEF Update
    <3>3. NotAhead(m, screen) /\ Newer(image[c], m) /\ NotAhead(image[c], screen)
      BY <2>1, <3>2 DEF Versions, InOrder
    <3>4. image' = [image EXCEPT ![c] = Merge(image[c], m)]
      BY <1>3, <2>1, <2>3 DEF ScreenUpdatedEvt, Merge
    <3> HIDE DEF m
    <3>5. Merge(image[c], m) \in Update /\ Merge(image[c], m) # Detached
      BY <3>1, <3>2, MrdpAssumption DEF Merge, Update
    <3>6. ASSUME NEW t \in Tile
          PROVE  image[c][t] <= Merge(image[c], m)[t] /\ Merge(image[c], m)[t] <= screen[t]
      BY <1>0, <3>1, <3>2, <3>3 DEF Merge, Newer, NotAhead, Update
    <3>7. image'[c] = Merge(image[c], m) /\ \A d \in Client \ {c} : image'[d] = image[d]
      BY <1>0, <3>4
    <3>8. Mirror!Refresh(c)
      BY <1>0, <2>1, <3>2, <3>5, <3>6, <3>7 DEF Mirror!Refresh, Mirror!Only
    <3> QED BY <3>8 DEF Mirror!Next
  <2> QED BY <2>2, <2>3
<1>4. ASSUME NEW c \in Client, Close(c) PROVE Mirror!Next
  BY <1>4 DEF Close, Mirror!Next, Mirror!Detach
<1>5. CASE \/ Notify \/ StartService \/ StopService
           \/ \E c \in Client : \/ Connect(c) \/ HangUp(c) \/ Reset(c)
                                \/ Handle(c) \/ NegotiateEvt(c) \/ QueryScreenUpdate(c)
                                \/ \E i \in BOOLEAN : SwitchRefreshMode(c, i)
  BY <1>5 DEF Notify, StartService, StopService, Connect, HangUp, Reset, DropStub, Handle,
              NegotiateReq, ScreenUpdateReq, ReportModeReq, Request, NegotiateEvt, Event,
              QueryScreenUpdate, SwitchRefreshMode, Ask
<1> QED BY <1>1, <1>2, <1>3, <1>4, <1>5 DEF Next, Receive

\* The initial states are those of ScreenMirror.
LEMMA MirrorInit == Init => Mirror!Init
BY DEF Init, Mirror!Init

------------------------------------------------------------------------------
(* The server knows what a viewer lacks.                                    *)

\* The content of a tile is shown or on its way.
ComingIn(q, img, scr, t) ==
  \/ img # Detached /\ img[t] = scr[t]
  \/ \E i \in 1..Len(q) : q[i].suEvt[t] = scr[t]

\* Sending keeps what is coming, and adds what is sent.
LEMMA ComingSend ==
  ASSUME NEW q \in Seq(Evts), NEW m \in Evts, NEW img, NEW scr, NEW t,
         ComingIn(q, img, scr, t) \/ m.suEvt[t] = scr[t]
  PROVE  ComingIn(q \o <<m>>, img, scr, t)
<1> DEFINE r == q \o <<m>>
<1>1. /\ r \in Seq(Evts) /\ Len(q) \in Nat /\ Len(r) = Len(q) + 1
      /\ \A i \in 1..Len(q) : r[i] = q[i]
      /\ r[Len(q) + 1] = m
  BY SendOne
<1> HIDE DEF r
<1>2. ComingIn(r, img, scr, t)
  BY <1>1 DEF ComingIn
<1> QED BY <1>2 DEF r

\* Taking a message keeps what is coming: its pixels go into the image, where
\* by the order of the contents they hide nothing newer.
LEMMA ComingTake ==
  ASSUME NEW q \in Seq(Evts), q # <<>>, NEW img \in Update \cup {Detached},
         NEW pooled, NEW scr \in Update, InOrder(q, img, pooled, scr),
         NEW t \in Tile, scr[t] > 0, ComingIn(q, img, scr, t),
         NEW new \in Update \cup {Detached},
         \/ new = img /\ q[1].suEvt = Void
         \/ img = Detached /\ q[1].suEvt = Void
         \/ img # Detached /\ new # Detached /\ new = Merge(img, q[1].suEvt)
  PROVE  ComingIn(Tail(q), new, scr, t)
<1> DEFINE r == Tail(q)
           m == q[1].suEvt
<1>1. /\ Len(q) \in Nat /\ Len(q) >= 1 /\ Len(r) = Len(q) - 1
      /\ \A i \in 1..Len(r) : r[i] = q[i + 1]
  BY TakeOne
<1>2. 1 \in 1..Len(q) /\ m \in Update
  BY <1>1, SentType
<1> HIDE DEF r
<1>3. (\E i \in 1..Len(q) : i # 1 /\ q[i].suEvt[t] = scr[t]) => ComingIn(r, new, scr, t)
  <2> SUFFICES ASSUME NEW i \in 1..Len(q), i # 1, q[i].suEvt[t] = scr[t]
               PROVE  ComingIn(r, new, scr, t)
    OBVIOUS
  <2>1. i - 1 \in 1..Len(r) /\ r[i - 1] = q[i]
    BY <1>1
  <2> QED BY <2>1 DEF ComingIn
<1>4. CASE m = Void
  <2>1. m[t] # scr[t]
    BY <1>4 DEF Void, Update
  <2>2. CASE img # Detached /\ img[t] = scr[t]
    <3>1. new # Detached /\ new[t] = img[t]
      BY <1>4, <2>2 DEF Merge, Void
    <3> QED BY <2>2, <3>1 DEF ComingIn
  <2>3. CASE \E i \in 1..Len(q) : q[i].suEvt[t] = scr[t]
    <3>1. PICK i \in 1..Len(q) : q[i].suEvt[t] = scr[t]
      BY <2>3
    <3>2. i # 1
      BY <2>1, <3>1
    <3> QED BY <1>3, <3>1, <3>2 DEF r
  <2> QED BY <2>2, <2>3 DEF ComingIn
<1>5. CASE m # Void
  <2>1. img # Detached /\ img \in Update /\ new # Detached /\ new = Merge(img, m)
    BY <1>5
  <2>2. Newer(img, m) /\ NotAhead(m, scr)
    BY <1>2, <2>1 DEF InOrder
  <2> HIDE DEF m
  <2>3. CASE img[t] = scr[t]
    <3>1. new[t] = scr[t]
      BY <1>2, <2>1, <2>2, <2>3 DEF Merge, Newer, NotAhead, Update
    <3> QED BY <2>1, <3>1 DEF ComingIn
  <2>4. CASE m[t] = scr[t]
    <3>1. new[t] = scr[t]
      BY <2>1, <2>4 DEF Merge, Update
    <3> QED BY <2>1, <3>1 DEF ComingIn
  <2>5. CASE img[t] # scr[t] /\ m[t] # scr[t]
    <3>1. PICK i \in 1..Len(q) : q[i].suEvt[t] = scr[t]
      BY <2>1, <2>5 DEF ComingIn
    <3>2. i # 1
      BY <2>5, <3>1 DEF m
    <3> QED BY <1>3, <3>1, <3>2 DEF r
  <2> QED BY <2>3, <2>4, <2>5
<1> QED BY <1>4, <1>5 DEF r

\* Posting an update forgets nothing as long as pixels compress.
LEMMA KnownPost ==
  ASSUME TypeOK, NEW q \in Seq(Evts), NEW img, NEW st \in Stubs,
         NEW how \in {"sent", "full"}, NEW rgn \in SUBSET Tile,
         NEW t \in Tile, t \in rgn \/ ComingIn(q, img, screen, t),
         rgn = st.accum \/ how = "sent"
  PROVE  \/ t \in Post(st, rgn, how).accum
         \/ ComingIn(q \o Posted(rgn, how), img, screen, t)
<1> DEFINE b == Snapshot(rgn)
           m == Evt("EVENT_SCREENUPDATED", b)
<1>1. b \in Update /\ (t \in rgn => b[t] = screen[t])
  BY SnapshotType DEF TypeOK, Snapshot
<1>2. m \in Evts /\ m.suEvt = b
  BY <1>1, EvtType
<1>3. CASE rgn = {} \/ how = "full"
  <2>1. Post(st, rgn, how) = st /\ Posted(rgn, how) = <<>>
    BY <1>3 DEF Post, Posted
  <2>2. q \o Posted(rgn, how) = q
    BY <2>1, ConcatEmptySeq
  <2> QED BY <1>3, <2>1, <2>2
<1>4. CASE ~(rgn = {} \/ how = "full")
  <2>1. Posted(rgn, how) = <<m>>
    BY <1>4 DEF Posted
  <2> HIDE DEF m, b
  <2>2. ComingIn(q \o <<m>>, img, screen, t)
    BY <1>1, <1>2, ComingSend
  <2> QED BY <2>1, <2>2
<1> QED BY <1>3, <1>4

\* Where pixels always compress, a posting succeeds or changes nothing.
LEMMA OutcomeCompresses ==
  ASSUME "lzo" \notin Fault, NEW c \in Client, NEW how \in Outcome(c)
  PROVE  how \in {"sent", "full"}
BY DEF Outcome

\* Tile t is known to be missing by viewer c, or is not missing.
Known(c, t) ==
  \/ ComingIn(s2c[c], image[c], screen, t)
  \/ t \in stub[c].accum
  \/ \E i \in 1..Len(notes) : t \in notes[i]
InSession(c) == stub[c].ss = "ESTABLISHED" /\ viewer[c] # "off"

\* UpdateNeverLost, viewer by viewer and tile by tile.
LEMMA KnownIsUpdateNeverLost ==
  UpdateNeverLost <=> \A c \in Client, t \in Tile : InSession(c) => Known(c, t)
BY DEF UpdateNeverLost, Coming, Known, ComingIn, InSession

\* Every step keeps UpdateNeverLost, where pixels always compress.
LEMMA KnownNext ==
  ASSUME "lzo" \notin Fault, SessionInv, Versions, UpdateNeverLost, Next, TypeOK'
  PROVE  UpdateNeverLost'
<1>0. /\ TypeOK /\ screen \in Update /\ stub \in [Client -> Stubs]
      /\ s2c \in [Client -> Seq(Evts)] /\ c2s \in [Client -> Seq(Reqs)]
      /\ image \in [Client -> Update \cup {Detached}]
      /\ image' \in [Client -> Update \cup {Detached}]
      /\ notes \in Seq((SUBSET Tile) \ {{}})
  BY DEF SessionInv, TypeOK, Update
<1>a. ASSUME NEW c \in Client
      PROVE  /\ SessionOf(stub[c], c2s[c], s2c[c], viewer[c], running)
             /\ s2c[c] \in Seq(Evts) /\ image[c] \in Update \cup {Detached}
             /\ stub[c] \in Stubs
             /\ InOrder(s2c[c], image[c], stub[c].suEvt, screen)
             /\ \A t \in Tile : InSession(c) => Known(c, t)
  BY <1>0, KnownIsUpdateNeverLost DEF SessionInv, Session, Versions
<1> SUFFICES ASSUME NEW c \in Client, NEW t \in Tile, InSession(c)'
             PROVE  Known(c, t)'
  BY KnownIsUpdateNeverLost DEF UpdateNeverLost, Coming, Known, ComingIn, InSession
<1>b. stub'[c].ss = "ESTABLISHED" /\ viewer'[c] # "off"
  BY DEF InSession
<1>c. stub[c].ss = "ESTABLISHED" => running
  BY <1>a DEF SessionOf
<1>d. ASSUME UNCHANGED <<screen, notes>>, s2c'[c] = s2c[c], image'[c] = image[c],
             stub[c].ss = "ESTABLISHED", stub'[c].accum = stub[c].accum,
             viewer'[c] = viewer[c]
      PROVE  Known(c, t)'
  <2>1. Known(c, t)
    BY <1>a, <1>b, <1>d DEF InSession
  <2> QED BY <2>1, <1>d DEF Known
<1>1. ASSUME NEW S \in SUBSET Tile, Draw(S) PROVE Known(c, t)'
  <2>1. UNCHANGED <<stub, s2c, image, viewer>> /\ running
        /\ notes' = Append(notes, S) /\ screen'[t] = IF t \in S THEN screen[t] + 1 ELSE screen[t]
    BY <1>1, <1>b, <1>c DEF Draw
  <2>2. Known(c, t)
    BY <1>a, <1>b, <2>1 DEF InSession
  <2>3. /\ Len(notes) \in Nat /\ Len(Append(notes, S)) = Len(notes) + 1
        /\ \A i \in 1..Len(notes) : Append(notes, S)[i] = notes[i]
        /\ Append(notes, S)[Len(notes) + 1] = S
    BY <1>0, LenProperties
  <2>4. CASE t \in S
    BY <2>1, <2>3, <2>4 DEF Known
  <2>5. CASE t \notin S /\ \E i \in 1..Len(notes) : t \in notes[i]
    BY <2>1, <2>3, <2>5 DEF Known
  <2>6. CASE t \notin S /\ ~\E i \in 1..Len(notes) : t \in notes[i]
    <3>1. ComingIn(s2c[c], image[c], screen, t) \/ t \in stub[c].accum
      BY <2>2, <2>6 DEF Known
    <3>2. ComingIn(s2c[c], image[c], screen, t) => ComingIn(s2c[c], image[c], screen', t)
      BY <2>1, <2>6 DEF ComingIn
    <3> QED BY <2>1, <3>1, <3>2 DEF Known
  <2> QED BY <2>4, <2>5, <2>6
<1>2. ASSUME Notify PROVE Known(c, t)'
  <2> DEFINE gather(d) == [stub[d] EXCEPT !.accum = @ \cup Head(notes)]
             active(d) == Reports(d) /\ stub[d].surm = "ACTIVE"
  <2>1. PICK how \in [Client -> {"sent", "full", "lzo"}] :
          /\ \A d \in Client : how[d] \in IF active(d) THEN Outcome(d) ELSE {"sent"}
          /\ stub' = [d \in Client |->
                       IF active(d) THEN Post(gather(d), gather(d).accum, how[d])
                       ELSE IF Reports(d) THEN gather(d) ELSE stub[d]]
          /\ s2c' = [d \in Client |->
                      IF active(d) THEN ToViewer(d, Posted(gather(d).accum, how[d]))
                      ELSE s2c[d]]
    BY <1>2 DEF Notify
  <2>2. /\ UNCHANGED <<screen, image, viewer>> /\ notes' = Tail(notes)
        /\ notes # <<>>
    BY <1>2 DEF Notify
  <2>3. /\ Head(notes) = notes[1] /\ Len(notes) \in Nat /\ Len(Tail(notes)) = Len(notes) - 1
        /\ \A i \in 1..Len(Tail(notes)) : Tail(notes)[i] = notes[i + 1]
        /\ Head(notes) \in SUBSET Tile
    BY <1>0, <2>2, TakeOne
  <2>4. gather(c) \in Stubs /\ gather(c).accum = stub[c].accum \cup Head(notes)
        /\ gather(c).ss = stub[c].ss /\ gather(c).accum \in SUBSET Tile
    BY <1>a, <2>3 DEF Stubs
  <2> HIDE DEF gather
  <2>5. stub[c].ss = "ESTABLISHED"
    <3>1. CASE active(c)
      BY <3>1 DEF Reports
    <3>2. CASE ~active(c)
      BY <1>b, <2>1, <2>4, <3>2
    <3> QED BY <3>1, <3>2
  <2>6. Known(c, t)
    BY <1>a, <1>b, <2>2, <2>5 DEF InSession
  <2>7. \/ \E i \in 1..Len(Tail(notes)) : t \in Tail(notes)[i]
        \/ t \in gather(c).accum \/ ComingIn(s2c[c], image[c], screen, t)
    <3>1. CASE \E i \in 1..Len(notes) : t \in notes[i]
      <4>1. PICK i \in 1..Len(notes) : t \in notes[i]
        BY <3>1
      <4>2. CASE i = 1
        BY <2>3, <2>4, <4>1, <4>2
      <4>3. CASE i # 1
        <5>1. i - 1 \in 1..Len(Tail(notes)) /\ Tail(notes)[i - 1] = notes[i]
          BY <2>3, <4>3
        <5> QED BY <4>1, <5>1
      <4> QED BY <4>2, <4>3
    <3>2. CASE ~\E i \in 1..Len(notes) : t \in notes[i]
      BY <2>4, <2>6, <3>2 DEF Known
    <3> QED BY <3>1, <3>2
  <2>8. CASE \E i \in 1..Len(Tail(notes)) : t \in Tail(notes)[i]
    BY <2>2, <2>8 DEF Known
  <2>9. CASE active(c) /\ (t \in gather(c).accum \/ ComingIn(s2c[c], image[c], screen, t))
    <3> DEFINE a == gather(c).accum
    <3>1. /\ stub'[c] = Post(gather(c), a, how[c])
          /\ s2c'[c] = s2c[c] \o Posted(a, how[c])
      BY <1>b, <2>1, <2>2, <2>9 DEF ToViewer
    <3>2. how[c] \in {"sent", "full"}
      BY <2>1, <2>9, OutcomeCompresses
    <3>3. \/ t \in Post(gather(c), a, how[c]).accum
          \/ ComingIn(s2c[c] \o Posted(a, how[c]), image[c], screen, t)
      BY <1>0, <1>a, <2>4, <2>9, <3>2, KnownPost
    <3> QED BY <2>2, <3>1, <3>3 DEF Known
  <2>10. CASE ~active(c) /\ (t \in gather(c).accum \/ ComingIn(s2c[c], image[c], screen, t))
    <3>1. stub'[c] = gather(c) /\ s2c'[c] = s2c[c]
      BY <2>1, <2>5, <2>10 DEF Reports
    <3> QED BY <2>2, <2>10, <3>1 DEF Known
  <2> QED BY <2>7, <2>8, <2>9, <2>10
<1>3. ASSUME StartService PROVE Known(c, t)'
  BY <1>3, <1>b, <1>c DEF StartService
<1>4. ASSUME StopService PROVE Known(c, t)'
  BY <1>4, <1>b DEF StopService, NoStub
<1>5. ASSUME NEW d \in Client, Connect(d) PROVE Known(c, t)'
  <2>1. d # c
    BY <1>0, <1>5, <1>b DEF Connect, NoStub
  <2> QED BY <1>0, <1>5, <1>b, <1>d, <2>1 DEF Connect
<1>6. ASSUME NEW d \in Client, DropStub(d) PROVE Known(c, t)'
  <2>1. d # c
    BY <1>0, <1>6, <1>b DEF DropStub, NoStub
  <2> QED BY <1>0, <1>6, <1>b, <1>d, <2>1 DEF DropStub
<1>7. ASSUME NEW d \in Client, NegotiateReq(d) PROVE Known(c, t)'
  <2>0. UNCHANGED <<screen, notes, viewer, image>>
    BY <1>7 DEF NegotiateReq, Request
  <2>1. CASE d # c
    <3>1. stub'[c] = stub[c] /\ s2c'[c] = s2c[c]
      BY <1>0, <1>7, <2>1 DEF NegotiateReq
    <3> QED BY <1>b, <1>d, <2>0, <3>1
  <2>2. CASE d = c /\ UNCHANGED <<stub, s2c>>
    BY <1>b, <1>d, <2>0, <2>2
  <2>3. CASE d = c /\ ~UNCHANGED <<stub, s2c>>
    <3> DEFINE st == [stub[c] EXCEPT !.ss = "ESTABLISHED", !.surm = Head(c2s[c]).surm]
               m == Evt("RESPONSE_NEGOTIATION", Void)
    <3>1. PICK how \in Outcome(c) :
            /\ stub' = [stub EXCEPT ![c] = Post(st, Tile, how)]
            /\ s2c' = [s2c EXCEPT ![c] = ToViewer(c, <<m>> \o Posted(Tile, how))]
      BY <1>7, <2>3 DEF NegotiateReq
    <3>2. stub[c].ss = "NEGOTIATE_0"
      BY <1>7, <2>3 DEF NegotiateReq
    <3>3. st \in Stubs
      <4>1. c2s[c] # <<>> /\ c2s[c] \in Seq(Reqs)
        BY <1>0, <1>7, <2>3 DEF NegotiateReq, Request
      <4>2. Head(c2s[c]) \in Reqs
        BY <4>1, TakeOne
      <4> QED BY <1>a, <4>2 DEF Stubs, Reqs
    <3>4. m \in Evts /\ <<m>> \in Seq(Evts)
      <4>1. Void \in Update
        BY <1>0, SnapshotType DEF Update
      <4> QED BY <4>1, EvtType
    <3> HIDE DEF st, m
    <3>5. ASSUME NEW i \in 1..Len(s2c[c]) PROVE s2c[c][i].suEvt = Void
      <4>1. Channel(s2c[c], viewer[c], "NEGOTIATE_0") /\ viewer[c] # "open"
            /\ Len(s2c[c]) \in Nat
        BY <1>a, <3>2, LenProperties DEF SessionOf
      <4>2. \A j \in 1..(i - 1) : j \in 1..Len(s2c[c])
        BY <4>1
      <4>3. \A j \in 1..Len(s2c[c]) : s2c[c][j].id # "RESPONSE_NEGOTIATION"
        BY <4>1 DEF Channel
      <4> QED BY <4>1, <4>2, <4>3 DEF Channel
    <3>6. how = "sent"
      BY <3>5 DEF Outcome
    <3>7. /\ stub'[c] = Post(st, Tile, how)
          /\ s2c'[c] = s2c[c] \o (<<m>> \o Posted(Tile, how))
      BY <1>0, <1>b, <2>0, <3>1 DEF ToViewer
    <3>8. s2c[c] \o <<m>> \in Seq(Evts) /\ Posted(Tile, how) \in Seq(Evts)
      <4>1. Tile \in SUBSET Tile
        OBVIOUS
      <4> QED BY <1>0, <1>a, <3>4, <4>1, SendOne, PostedType
    <3>9. s2c[c] \o (<<m>> \o Posted(Tile, how)) = (s2c[c] \o <<m>>) \o Posted(Tile, how)
      BY <1>a, <3>4, <3>8, EvtsAssociative
    <3>10. \/ t \in Post(st, Tile, how).accum
           \/ ComingIn((s2c[c] \o <<m>>) \o Posted(Tile, how), image[c], screen, t)
      <4>1. Tile \in SUBSET Tile /\ t \in Tile
        OBVIOUS
      <4> QED BY <1>0, <3>3, <3>6, <3>8, <4>1, KnownPost
    <3> QED BY <2>0, <3>7, <3>9, <3>10 DEF Known
  <2> QED BY <2>1, <2>2, <2>3
<1>8. ASSUME NEW d \in Client, ScreenUpdateReq(d) PROVE Known(c, t)'
  <2>0. UNCHANGED <<screen, notes, viewer, image>>
    BY <1>8 DEF ScreenUpdateReq, Request
  <2>1. CASE d # c
    <3>1. stub'[c] = stub[c] /\ s2c'[c] = s2c[c]
      BY <1>0, <1>8, <2>1 DEF ScreenUpdateReq
    <3> QED BY <1>b, <1>d, <2>0, <3>1
  <2>2. CASE d = c /\ UNCHANGED <<stub, s2c>>
    BY <1>b, <1>d, <2>0, <2>2
  <2>3. CASE d = c /\ ~UNCHANGED <<stub, s2c>>
    <3> DEFINE a == stub[c].accum
    <3>1. PICK how \in Outcome(c) :
            /\ stub' = [stub EXCEPT ![c] = Post(stub[c], a, how)]
            /\ s2c' = [s2c EXCEPT ![c] = ToViewer(c, Posted(a, how))]
      BY <1>8, <2>3 DEF ScreenUpdateReq
    <3>2. how \in {"sent", "full"} /\ a \in SUBSET Tile
      BY <1>a, OutcomeCompresses DEF Stubs
    <3>3. /\ stub'[c] = Post(stub[c], a, how)
          /\ s2c'[c] = s2c[c] \o Posted(a, how)
      BY <1>0, <1>b, <2>0, <3>1 DEF ToViewer
    <3>4. stub[c].ss = "ESTABLISHED"
      BY <1>b, <3>3 DEF Post
    <3>5. Known(c, t)
      BY <1>a, <1>b, <2>0, <3>4 DEF InSession
    <3>6. CASE \E i \in 1..Len(notes) : t \in notes[i]
      BY <2>0, <3>6 DEF Known
    <3>7. CASE t \in a \/ ComingIn(s2c[c], image[c], screen, t)
      <4>1. \/ t \in Post(stub[c], a, how).accum
            \/ ComingIn(s2c[c] \o Posted(a, how), image[c], screen, t)
        BY <1>0, <1>a, <3>2, <3>7, KnownPost
      <4> QED BY <2>0, <3>3, <4>1 DEF Known
    <3> QED BY <3>5, <3>6, <3>7 DEF Known
  <2> QED BY <2>1, <2>2, <2>3
<1>9. ASSUME NEW d \in Client, ReportModeReq(d) PROVE Known(c, t)'
  <2>1. stub'[c].ss = stub[c].ss /\ stub'[c].accum = stub[c].accum
    BY <1>0, <1>9 DEF ReportModeReq, Stubs
  <2> QED BY <1>9, <1>b, <1>d, <2>1 DEF ReportModeReq, Request
<1>10. ASSUME NEW d \in Client, NEW id, Event(d, id),
              \A e \in Client \ {d} : image'[e] = image[e] /\ viewer'[e] = viewer[e],
              \/ image'[d] = image[d] /\ s2c[d][1].suEvt = Void
              \/ image[d] = Detached /\ s2c[d][1].suEvt = Void
              \/ /\ image[d] # Detached /\ image'[d] # Detached
                 /\ image'[d] = Merge(image[d], s2c[d][1].suEvt)
       PROVE  Known(c, t)'
  <2>0. UNCHANGED <<screen, notes, stub>> /\ viewer[d] # "off"
    BY <1>10 DEF Event
  <2>1. CASE d # c
    <3>1. s2c'[c] = s2c[c] /\ image'[c] = image[c] /\ viewer'[c] = viewer[c]
      BY <1>0, <1>10, <2>1 DEF Event
    <3> QED BY <1>b, <1>d, <2>0, <3>1
  <2>2. CASE d = c
    <3>1. s2c[c] # <<>> /\ s2c'[c] = Tail(s2c[c])
      BY <1>0, <1>10, <2>2 DEF Event
    <3>2. Known(c, t)
      BY <1>a, <1>b, <2>0, <2>2 DEF InSession
    <3>3. ASSUME ComingIn(s2c[c], image[c], screen, t)
          PROVE  ComingIn(Tail(s2c[c]), image'[c], screen, t)
      <4>1. screen[t] > 0 /\ image'[c] \in Update \cup {Detached}
        BY <1>0 DEF Versions
      <4>2. \/ image'[c] = image[c] /\ s2c[c][1].suEvt = Void
            \/ image[c] = Detached /\ s2c[c][1].suEvt = Void
            \/ /\ image[c] # Detached /\ image'[c] # Detached
               /\ image'[c] = Merge(image[c], s2c[c][1].suEvt)
        BY <1>10, <2>2
      <4> QED BY <1>0, <1>a, <3>1, <3>3, <4>1, <4>2, ComingTake
    <3> QED BY <2>0, <3>1, <3>2, <3>3 DEF Known
  <2> QED BY <2>1, <2>2
<1>11. ASSUME NEW d \in Client, NEW id, Event(d, id), id # "EVENT_SCREENUPDATED"
       PROVE  s2c[d][1].suEvt = Void /\ s2c[d][1].id = id
              /\ s2c[d] # <<>> /\ 1 \in 1..Len(s2c[d])
  <2>1. s2c[d] # <<>> /\ Head(s2c[d]).id = id
    BY <1>11 DEF Event
  <2>2. s2c[d][1].id = id /\ 1 \in 1..Len(s2c[d])
    BY <1>a, <2>1, TakeOne
  <2> QED BY <1>a, <1>11, <2>1, <2>2 DEF SessionOf, Channel
<1>12. ASSUME NEW d \in Client, NegotiateEvt(d) PROVE Known(c, t)'
  <2>1. Event(d, "EVENT_NEGOTIATION") /\ UNCHANGED image
        /\ \A e \in Client \ {d} : viewer'[e] = viewer[e]
    BY <1>12, <1>0 DEF NegotiateEvt, SessionInv, TypeOK
  <2>2. s2c[d][1].suEvt = Void
    BY <1>11, <2>1
  <2> QED BY <1>10, <2>1, <2>2
<1>13. ASSUME NEW d \in Client, NegotiateResp(d) PROVE Known(c, t)'
  <2>1. Event(d, "RESPONSE_NEGOTIATION")
        /\ \A e \in Client \ {d} : image'[e] = image[e] /\ viewer'[e] = viewer[e]
    BY <1>13, <1>0 DEF NegotiateResp, SessionInv, TypeOK
  <2>2. s2c[d][1].suEvt = Void /\ s2c[d][1].id = "RESPONSE_NEGOTIATION" /\ 1 \in 1..Len(s2c[d])
    BY <1>11, <2>1
  <2>3. viewer[d] # "open"
    BY <1>a, <2>2 DEF SessionOf, Channel
  <2>4. image[d] = Detached
    BY <1>0, <2>3 DEF TypeOK
  <2> QED BY <1>10, <2>1, <2>2, <2>4
<1>14. ASSUME NEW d \in Client, ScreenUpdatedEvt(d) PROVE Known(c, t)'
  <2>1. s2c[d] # <<>> /\ Head(s2c[d]) = s2c[d][1] /\ Event(d, "EVENT_SCREENUPDATED")
        /\ UNCHANGED viewer
    BY <1>0, <1>14, TakeOne DEF ScreenUpdatedEvt, Event
  <2>2. CASE s2c[d][1].suEvt = Void
    <3>1. UNCHANGED image
      BY <1>14, <2>1, <2>2 DEF ScreenUpdatedEvt
    <3> QED BY <1>10, <2>1, <2>2, <3>1
  <2>3. CASE s2c[d][1].suEvt # Void
    <3>1. image[d] # Detached /\ image[d] \in Update
      BY <2>1, <2>3, FirstPixels, MrdpAssumption DEF Update
    <3>2. image' = [image EXCEPT ![d] = Merge(image[d], s2c[d][1].suEvt)]
      BY <1>14, <2>1, <2>3 DEF ScreenUpdatedEvt, Merge
    <3>3. image'[d] = Merge(image[d], s2c[d][1].suEvt)
          /\ \A e \in Client \ {d} : image'[e] = image[e]
      BY <1>0, <3>2
    <3>4. image'[d] # Detached
      BY <1>0, <2>1, <2>3, <3>1, <3>3, FirstPixels DEF TypeOK
    <3> QED BY <1>10, <2>1, <3>1, <3>3, <3>4
  <2> QED BY <2>2, <2>3
<1>15. ASSUME NEW d \in Client, Close(d) PROVE Known(c, t)'
  <2>1. d # c
    BY <1>0, <1>15, <1>b DEF Close, SessionInv, TypeOK
  <2>2. UNCHANGED <<screen, notes, stub>> /\ s2c'[c] = s2c[c] /\ image'[c] = image[c]
        /\ viewer'[c] = viewer[c]
    BY <1>0, <1>15, <2>1 DEF Close
  <2> QED BY <1>b, <1>d, <2>2
<1>16. ASSUME NEW d \in Client, NEW id, NEW field, NEW mode, Ask(d, id, field, mode)
       PROVE  Known(c, t)'
  BY <1>16, <1>b, <1>d DEF Ask
<1> QED
  BY <1>1, <1>2, <1>3, <1>4, <1>5, <1>6, <1>7, <1>8, <1>9, <1>12, <1>13, <1>14, <1>15, <1>16
     DEF Next, HangUp, Reset, Handle, Receive, SwitchRefreshMode, QueryScreenUpdate

------------------------------------------------------------------------------
(* The theorems.                                                            *)

\* The whole invariant.
IInv == SessionInv /\ Versions

\* The whole invariant is inductive.
LEMMA Inductive ==
  /\ Init => IInv
  /\ IInv /\ [Next]_vars => IInv'
<1>1. Init => IInv
  BY InitSession, InitVersions DEF IInv
<1>2. ASSUME IInv, Next PROVE IInv'
  <2>1. TypeOK' /\ Session'
    BY <1>2, TypesNext, SessionNext DEF IInv
  <2> QED BY <1>2, <2>1, VersionsNext DEF IInv, SessionInv
<1>3. ASSUME IInv, UNCHANGED vars PROVE IInv'
  BY <1>3 DEF vars, IInv, SessionInv, TypeOK, Session, Versions
<1> QED BY <1>1, <1>2, <1>3

\* The whole invariant holds in every state.
LEMMA Invariance == Spec => []IInv
<1>1. Init => IInv
  BY Inductive
<1>2. IInv /\ [Next]_vars => IInv'
  BY Inductive
<1> QED BY <1>1, <1>2, PTL DEF Spec

\* Every variable keeps its type, and a viewer has an image of the screen
\* exactly while its session is open: no update can arrive without one.
THEOREM TypeCorrect == Spec => []TypeOK
<1>1. IInv => TypeOK
  BY DEF IInv, SessionInv
<1> QED BY <1>1, Invariance, PTL

\* The response to the negotiation is always ahead of the first pixels,
\* whatever is requested, drawn, dropped or stopped in between.
THEOREM ImageFirst == Spec => []ImageBeforePixels
<1>1. IInv => ImageBeforePixels
  BY DEF IInv, SessionInv, Session, SessionOf, Channel, ImageBeforePixels
<1> QED BY <1>1, Invariance, PTL

\* Mrdp implements ScreenMirror: the image of each viewer, in whatever order
\* updates are merged, repeated, lost or given up, is never ahead of the
\* screen and never goes back in time.
THEOREM ImplementsScreenMirror == Spec => IsScreenMirror
<1>1. Init => Mirror!Init
  BY MirrorInit
<1>2. IInv /\ TypeOK' /\ [Next]_vars => [Mirror!Next]_<<screen, image>>
  <2>1. ASSUME IInv, TypeOK', Next PROVE [Mirror!Next]_<<screen, image>>
    BY <2>1, MirrorNext DEF IInv
  <2>2. ASSUME UNCHANGED vars PROVE [Mirror!Next]_<<screen, image>>
    BY <2>2 DEF vars
  <2> QED BY <2>1, <2>2
<1> QED BY <1>1, <1>2, Invariance, TypeCorrect, PTL DEF Spec, IsScreenMirror, Mirror!Spec

\* Where pixels always compress, the server never forgets what a viewer
\* lacks: not across merged regions, a full buffer, passive reporting, requests
\* out of turn, broken connections or a restart of the service.
THEOREM NothingForgotten ==
  ASSUME "lzo" \notin Fault
  PROVE  Spec => []UpdateNeverLost
<1>1. Init => UpdateNeverLost
  BY DEF Init, UpdateNeverLost, NoStub
<1>2. IInv /\ TypeOK' /\ UpdateNeverLost /\ [Next]_vars => UpdateNeverLost'
  <2>1. ASSUME IInv, TypeOK', UpdateNeverLost, Next PROVE UpdateNeverLost'
    BY <2>1, KnownNext DEF IInv
  <2>2. ASSUME UpdateNeverLost, UNCHANGED vars PROVE UpdateNeverLost'
    BY <2>2 DEF vars, UpdateNeverLost, Coming
  <2> QED BY <2>1, <2>2
<1> QED BY <1>1, <1>2, Invariance, TypeCorrect, PTL DEF Spec

\* A viewer with a session, when nothing is on its way to it, accumulated for
\* it or queued, shows the screen: the state that Converges says is reached is
\* the right one, for any number of viewers, tiles and drawings.
THEOREM QuietIsRight ==
  ASSUME "lzo" \notin Fault
  PROVE  Spec => []QuietShowsScreen
<1>1. IInv /\ UpdateNeverLost => QuietShowsScreen
  <2> SUFFICES ASSUME IInv, UpdateNeverLost, NEW c \in Client,
                      stub[c].ss = "ESTABLISHED", viewer[c] # "off", s2c[c] = <<>>,
                      stub[c].accum = {}, notes = <<>>
               PROVE  image[c] = screen
    BY DEF QuietShowsScreen
  <2>1. Len(s2c[c]) = 0 /\ Len(notes) = 0
    BY EmptySeq
  <2>2. viewer[c] = "open"
    BY <2>1 DEF IInv, SessionInv, Session, SessionOf, Attached
  <2>3. image[c] # Detached /\ image[c] \in Update /\ screen \in [Tile -> Nat]
    BY <2>2 DEF IInv, SessionInv, TypeOK
  <2>4. \A t \in Tile : image[c][t] = screen[t]
    BY <2>1 DEF UpdateNeverLost, Coming
  <2> QED BY <2>3, <2>4 DEF Update
<1> QED BY <1>1, NothingForgotten, Invariance, PTL

===============================================================================
