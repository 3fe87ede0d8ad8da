-------------------------- MODULE MrdpHandshakeProofs --------------------------
(***************************************************************************)
(* Proof that no session of Mrdp gets stuck in its negotiation, whatever   *)
(* a viewer asks for before it has an id, and whatever is drawn meanwhile: *)
(* the part of SessionOpens that needs no fairness.                        *)
(***************************************************************************)
EXTENDS MrdpProofs

\* A stub st that waits for the negotiation, up and down what is on its way,
\* the viewer in v.  (Afterwards the response is there, by SessionOf.)
HandOf(st, up, down, v) ==
  st.ss = "NEGOTIATE_0" =>
    /\ v = "connected" => down # <<>> /\ down[1].id = "EVENT_NEGOTIATION"
    /\ v = "negotiating" => \E i \in 1..Len(up) : Negotiates(up[i])

Hand == \A c \in Client : HandOf(stub[c], c2s[c], s2c[c], viewer[c])

\* A request for the negotiation stays while others are added ...
LEMMA RequestAdded ==
  ASSUME NEW q \in Seq(Reqs), NEW m \in Reqs,
         Negotiates(m) \/ \E i \in 1..Len(q) : Negotiates(q[i])
  PROVE  \E i \in 1..Len(Append(q, m)) : Negotiates(Append(q, m)[i])
<1>1. /\ Len(q) \in Nat /\ Len(Append(q, m)) = Len(q) + 1
      /\ \A i \in 1..Len(q) : Append(q, m)[i] = q[i]
      /\ Append(q, m)[Len(q) + 1] = m
  BY AppendProperties, LenProperties
<1> QED BY <1>1

\* ... and while others are taken.
LEMMA RequestLeft ==
  ASSUME NEW q \in Seq(Reqs), q # <<>>, ~Negotiates(Head(q)),
         \E i \in 1..Len(q) : Negotiates(q[i])
  PROVE  \E i \in 1..Len(Tail(q)) : Negotiates(Tail(q)[i])
<1>1. /\ Head(q) = q[1] /\ Len(q) \in Nat /\ Len(Tail(q)) = Len(q) - 1
      /\ \A i \in 1..Len(Tail(q)) : Tail(q)[i] = q[i + 1]
  BY TakeOne
<1>2. PICK i \in 1..Len(q) : Negotiates(q[i])
  OBVIOUS
<1>3. i # 1
  BY <1>1, <1>2
<1>4. i - 1 \in 1..Len(Tail(q)) /\ Tail(q)[i - 1] = q[i]
  BY <1>1, <1>3
<1> QED BY <1>2, <1>4

\* Only the session of c has to be looked at.
LEMMA HandLocal ==
  ASSUME Hand, NEW c \in Client, \A d \in Client \ {c} : Untouched(d),
         HandOf(stub'[c], c2s'[c], s2c'[c], viewer'[c])
  PROVE  Hand'
<1> SUFFICES ASSUME NEW d \in Client
             PROVE  HandOf(stub'[d], c2s'[d], s2c'[d], viewer'[d])
  BY DEF Hand
<1>1. CASE d = c
  BY <1>1
<1>2. CASE d # c
  BY <1>2 DEF Hand, Untouched
<1> QED BY <1>1, <1>2

LEMMA HandNext ==
  ASSUME SessionInv, Hand, Next
  PROVE  Hand'
<1>0. /\ stub \in [Client -> Stubs] /\ s2c \in [Client -> Seq(Evts)]
      /\ c2s \in [Client -> Seq(Reqs)] /\ screen \in [Tile -> Nat]
      /\ viewer \in [Client -> {"off", "connected", "negotiating", "open"}]
      /\ TypeOK
  BY DEF SessionInv, TypeOK
<1>a. \A d \in Client : /\ SessionOf(stub[d], c2s[d], s2c[d], viewer[d], running)
                        /\ HandOf(stub[d], c2s[d], s2c[d], viewer[d])
  BY DEF SessionInv, Session, Hand
<1>1. ASSUME UNCHANGED <<stub, c2s, s2c, viewer>> PROVE Hand'
  BY <1>1 DEF Hand
<1>2. CASE (\E S \in SUBSET Tile : Draw(S)) \/ StartService
  BY <1>1, <1>2 DEF Draw, StartService
<1>3. CASE Notify
  <2> SUFFICES ASSUME NEW c \in Client, stub'[c].ss = "NEGOTIATE_0"
               PROVE  stub'[c] = stub[c] /\ s2c'[c] = s2c[c]
    BY <1>3, <1>a DEF Notify, Hand, HandOf
  <2> DEFINE gather(d) == [stub[d] EXCEPT !.accum = @ \cup Head(notes)]
             active(d) == Reports(d) /\ stub[d].surm = "ACTIVE"
  <2>1. PICK how \in [Client -> {"sent", "full", "lzo"}] :
          /\ stub' = [d \in Client |->
                       IF active(d) THEN Post(gather(d), gather(d).accum, how[d])
                       ELSE IF Reports(d) THEN gather(d) ELSE stub[d]]
          /\ s2c' = [d \in Client |->
                      IF active(d) THEN ToViewer(d, Posted(gather(d).accum, how[d]))
                      ELSE s2c[d]]
    BY <1>3 DEF Notify
  <2>2. Head(notes) \in SUBSET Tile
    BY <1>0, <1>3, TakeOne DEF Notify, TypeOK
  <2>3. gather(c) \in Stubs /\ gather(c).accum \in SUBSET Tile
        /\ gather(c).ss = stub[c].ss
    BY <1>0, <2>2 DEF Stubs
  <2> HIDE DEF gather
  <2>4. Post(gather(c), gather(c).accum, how[c]).ss = gather(c).ss
    <3>1. how[c] \in {"sent", "full", "lzo"}
      OBVIOUS
    <3> QED BY <1>0, <2>3, <3>1, PostCases
  <2>5. ~Reports(c)
    BY <2>1, <2>3, <2>4 DEF Reports
  <2> QED BY <2>1, <2>5
<1>4. CASE StopService
  BY <1>4 DEF StopService, Hand, HandOf, NoStub
<1>5. ASSUME NEW c \in Client, Connect(c) PROVE Hand'
  <2>1. /\ s2c'[c] = <<Evt("EVENT_NEGOTIATION", Void)>> /\ viewer'[c] = "connected"
        /\ \A d \in Client \ {c} : Untouched(d)
    BY <1>0, <1>5 DEF Connect, Untouched
  <2>2. s2c'[c] # <<>> /\ s2c'[c][1].id = "EVENT_NEGOTIATION"
    BY <2>1 DEF Evt
  <2> QED BY <2>1, <2>2, HandLocal DEF HandOf
<1>6. ASSUME NEW c \in Client, DropStub(c) PROVE Hand'
  <2>1. stub'[c] = NoStub /\ \A d \in Client \ {c} : Untouched(d)
    BY <1>0, <1>6 DEF DropStub, Untouched
  <2> QED BY <2>1, HandLocal DEF HandOf, NoStub
<1>7. ASSUME NEW c \in Client, NEW id, Request(c, id), ~Negotiates(Head(c2s[c])),
             stub'[c].ss = "NEGOTIATE_0" => stub[c].ss = "NEGOTIATE_0" /\ s2c'[c] = s2c[c],
             \A d \in Client \ {c} : stub'[d] = stub[d] /\ s2c'[d] = s2c[d]
      PROVE  Hand'
  <2>1. /\ viewer'[c] = viewer[c] /\ c2s'[c] = Tail(c2s[c]) /\ c2s[c] # <<>>
        /\ \A d \in Client \ {c} : Untouched(d)
    BY <1>0, <1>7 DEF Request, Untouched
  <2>2. ASSUME \E i \in 1..Len(c2s[c]) : Negotiates(c2s[c][i])
        PROVE  \E i \in 1..Len(c2s'[c]) : Negotiates(c2s'[c][i])
    BY <1>0, <1>7, <2>1, <2>2, RequestLeft
  <2>3. HandOf(stub'[c], c2s'[c], s2c'[c], viewer'[c])
    BY <1>7, <1>a, <2>1, <2>2 DEF HandOf
  <2> QED BY <2>1, <2>3, HandLocal
<1>8. ASSUME NEW c \in Client, NegotiateReq(c) PROVE Hand'
  <2> DEFINE st == [stub[c] EXCEPT !.ss = "ESTABLISHED", !.surm = Head(c2s[c]).surm]
  <2>1. Head(c2s[c]).id = "REQUEST_NEGOTIATION" /\ c2s[c] # <<>>
        /\ Head(c2s[c]) \in Reqs
    BY <1>0, <1>8, TakeOne DEF NegotiateReq, Request
  <2>2. CASE Accepted(Head(c2s[c])) /\ stub[c].ss = "NEGOTIATE_0"
    <3>1. PICK how \in Outcome(c) :
            /\ stub' = [stub EXCEPT ![c] = Post(st, Tile, how)]
            /\ s2c' = [s2c EXCEPT ![c] =
                 ToViewer(c, <<Evt("RESPONSE_NEGOTIATION", Void)>> \o Posted(Tile, how))]
      BY <1>8, <2>2 DEF NegotiateReq
    <3>2. st \in Stubs /\ st.ss = "ESTABLISHED"
      BY <1>0, <2>1 DEF Stubs, Reqs
    <3> HIDE DEF st
    <3>3. Post(st, Tile, how).ss = "ESTABLISHED"
      <4>1. Tile \in SUBSET Tile /\ how \in {"sent", "full", "lzo"}
        BY OutcomeType
      <4> QED BY <1>0, <3>2, <4>1, PostCases
    <3>4. stub'[c].ss = "ESTABLISHED" /\ \A d \in Client \ {c} : Untouched(d)
      BY <1>0, <1>8, <3>1, <3>3 DEF NegotiateReq, Request, Untouched
    <3> QED BY <3>4, HandLocal DEF HandOf
  <2>3. CASE ~Accepted(Head(c2s[c])) \/ stub[c].ss # "NEGOTIATE_0"
    <3>1. UNCHANGED <<stub, s2c>> /\ Request(c, "REQUEST_NEGOTIATION")
      BY <1>8, <2>3 DEF NegotiateReq
    <3>2. CASE ~Accepted(Head(c2s[c]))
      BY <1>7, <3>1, <3>2 DEF Negotiates
    <3>3. CASE stub[c].ss # "NEGOTIATE_0"
      <4>1. \A d \in Client \ {c} : Untouched(d)
        BY <1>0, <3>1 DEF Request, Untouched
      <4> QED BY <3>1, <3>3, <4>1, HandLocal DEF HandOf
    <3> QED BY <2>3, <3>2, <3>3
  <2> QED BY <2>2, <2>3
<1>9. ASSUME NEW c \in Client, ScreenUpdateReq(c) PROVE Hand'
  <2>1. Request(c, "REQUEST_SCREENUPDATE") /\ ~Negotiates(Head(c2s[c]))
    BY <1>9 DEF ScreenUpdateReq, Request, Negotiates
  <2>2. CASE UNCHANGED <<stub, s2c>>
    BY <1>7, <2>1, <2>2
  <2>3. CASE ~UNCHANGED <<stub, s2c>>
    <3>1. PICK how \in Outcome(c) :
            /\ stub' = [stub EXCEPT ![c] = Post(@, @.accum, how)]
            /\ s2c' = [s2c EXCEPT ![c] = ToViewer(c, Posted(stub[c].accum, how))]
      BY <1>9, <2>3 DEF ScreenUpdateReq
    <3>2. Post(stub[c], stub[c].accum, how).ss = stub[c].ss
      <4>1. how \in {"sent", "full", "lzo"} /\ stub[c].accum \in SUBSET Tile
        BY <1>0, OutcomeType DEF Stubs
      <4> QED BY <1>0, <4>1, PostCases
    <3>3. /\ stub'[c] = Post(stub[c], stub[c].accum, how)
          /\ s2c'[c] = ToViewer(c, Posted(stub[c].accum, how))
          /\ \A d \in Client \ {c} : stub'[d] = stub[d] /\ s2c'[d] = s2c[d]
      BY <1>0, <3>1
    <3>4. ASSUME stub[c].ss = "NEGOTIATE_0" PROVE s2c'[c] = s2c[c]
      <4>1. Posted(stub[c].accum, how) = <<>>
        BY <1>a, <3>4 DEF SessionOf, Posted
      <4>2. viewer[c] = "off" => s2c[c] = <<>>
        BY <1>a DEF SessionOf
      <4> QED BY <1>0, <3>3, <4>1, <4>2, ConcatEmptySeq DEF ToViewer
    <3> QED BY <1>7, <2>1, <3>2, <3>3, <3>4
  <2> QED BY <2>2, <2>3
<1>10. ASSUME NEW c \in Client, ReportModeReq(c) PROVE Hand'
  <2>1. Request(c, "REQUEST_SCREENUPDATEREPORTMODE") /\ ~Negotiates(Head(c2s[c]))
    BY <1>10 DEF ReportModeReq, Request, Negotiates
  <2>2. stub'[c].ss = stub[c].ss /\ s2c' = s2c /\ \A d \in Client \ {c} : stub'[d] = stub[d]
    BY <1>0, <1>10 DEF ReportModeReq, Stubs
  <2> QED BY <1>7, <2>1, <2>2
<1>11. ASSUME NEW c \in Client, NegotiateEvt(c) PROVE Hand'
  <2> DEFINE m == Req("REQUEST_NEGOTIATION", "negoreq", "ACTIVE", TRUE)
  <2>1. m \in Reqs /\ Negotiates(m)
    BY FieldDomain DEF Req, Reqs, Negotiates, Accepted, Field
  <2> HIDE DEF m
  <2>2. /\ viewer'[c] = "negotiating" /\ stub'[c] = stub[c] /\ c2s'[c] = ToServer(c, m)
        /\ \A d \in Client \ {c} : Untouched(d)
    BY <1>0, <1>11 DEF NegotiateEvt, Event, Untouched, m
  <2>3. CASE Lives(c)
    <3>1. c2s'[c] = Append(c2s[c], m)
      BY <2>2, <2>3 DEF ToServer
    <3>2. \E i \in 1..Len(c2s'[c]) : Negotiates(c2s'[c][i])
      BY <1>0, <2>1, <3>1, RequestAdded
    <3> QED BY <2>2, <3>2, HandLocal DEF HandOf
  <2>4. CASE ~Lives(c)
    BY <2>2, <2>4, HandLocal DEF HandOf, Lives
  <2> QED BY <2>3, <2>4
<1>12. ASSUME NEW c \in Client, NegotiateResp(c) \/ Close(c) PROVE Hand'
  <2>1. viewer'[c] \in {"open", "off"} /\ \A d \in Client \ {c} : Untouched(d)
    BY <1>0, <1>12 DEF NegotiateResp, Close, Event, Untouched
  <2> QED BY <2>1, HandLocal DEF HandOf
<1>13. ASSUME NEW c \in Client, ScreenUpdatedEvt(c) PROVE Hand'
  <2>1. /\ s2c[c] # <<>> /\ s2c[c][1].id = "EVENT_SCREENUPDATED"
        /\ UNCHANGED <<stub, c2s, viewer>>
        /\ \A d \in Client \ {c} : Untouched(d)
    BY <1>0, <1>13, TakeOne DEF ScreenUpdatedEvt, Event, Untouched
  <2>2. HandOf(stub[c], c2s[c], s2c[c], viewer[c])
    BY <1>a
  <2> QED BY <2>1, <2>2, HandLocal DEF HandOf
<1>14. ASSUME NEW c \in Client, NEW id \in DOMAIN Field, NEW field \in {"sureq", "surmreq"},
              NEW mode \in {"ACTIVE", "PASSIVE"}, Ask(c, id, field, mode)
       PROVE  Hand'
  <2>1. PICK own \in BOOLEAN :
          c2s' = [c2s EXCEPT ![c] = ToServer(c, Req(id, field, mode, own))]
    BY <1>14 DEF Ask
  <2> DEFINE m == Req(id, field, mode, own)
  <2>2. m \in Reqs
    BY DEF Req, Reqs
  <2> HIDE DEF m
  <2>3. /\ c2s'[c] = ToServer(c, m) /\ UNCHANGED <<stub, s2c, viewer>>
        /\ \A d \in Client \ {c} : Untouched(d)
    BY <1>0, <1>14, <2>1 DEF Ask, Untouched, m
  <2>4. ASSUME stub[c].ss = "NEGOTIATE_0", \E i \in 1..Len(c2s[c]) : Negotiates(c2s[c][i])
        PROVE  \E i \in 1..Len(c2s'[c]) : Negotiates(c2s'[c][i])
    <3>1. c2s'[c] = Append(c2s[c], m)
      BY <2>3, <2>4 DEF ToServer, Lives
    <3> QED BY <1>0, <2>2, <2>4, <3>1, RequestAdded
  <2>5. HandOf(stub'[c], c2s'[c], s2c'[c], viewer'[c])
    BY <1>a, <2>3, <2>4 DEF HandOf
  <2> QED BY <2>3, <2>5, HandLocal
<1>15. ASSUME NEW c \in Client,
              (\E i \in BOOLEAN : SwitchRefreshMode(c, i)) \/ QueryScreenUpdate(c)
       PROVE  Hand'
  BY <1>14, <1>15, FieldDomain DEF SwitchRefreshMode, QueryScreenUpdate
<1> QED
  BY <1>2, <1>3, <1>4, <1>5, <1>6, <1>8, <1>9, <1>10, <1>11, <1>12, <1>13, <1>15
     DEF Next, HangUp, Reset, Handle, Receive

------------------------------------------------------------------------------
\* While its stub lives, a viewer that is not refused nor gone is one message
\* away from its next state: for any number of viewers and requests.
THEOREM HandshakeNeverStalls == Spec => []HandshakeGoesOn
<1>1. Init => Hand
  BY DEF Init, Hand, HandOf, NoStub
<1>2. IInv /\ Hand /\ [Next]_vars => Hand'
  <2>1. ASSUME IInv, Hand, Next PROVE Hand'
    BY <2>1, HandNext DEF IInv
  <2>2. ASSUME Hand, UNCHANGED vars PROVE Hand'
    BY <2>2 DEF Hand, vars
  <2> QED BY <2>1, <2>2
<1>3. IInv /\ Hand => HandshakeGoesOn
  <2> SUFFICES ASSUME IInv, Hand, NEW c \in Client, Lives(c),
                      viewer[c] \notin {"off", "open"}
               PROVE  \/ viewer[c] = "connected" /\ s2c[c] # <<>>
                           /\ s2c[c][1].id = "EVENT_NEGOTIATION"
                      \/ /\ viewer[c] = "negotiating" /\ stub[c].ss = "NEGOTIATE_0"
                         /\ \E i \in 1..Len(c2s[c]) : Negotiates(c2s[c][i])
                      \/ \E i \in 1..Len(s2c[c]) : s2c[c][i].id = "RESPONSE_NEGOTIATION"
    BY DEF HandshakeGoesOn
  <2>1. /\ viewer[c] \in {"connected", "negotiating"}
        /\ stub[c].ss \in {"NEGOTIATE_0", "ESTABLISHED"}
    BY DEF IInv, SessionInv, TypeOK, Stubs, Lives
  <2>2. CASE stub[c].ss = "NEGOTIATE_0"
    BY <2>1, <2>2 DEF Hand, HandOf
  <2>3. CASE stub[c].ss = "ESTABLISHED"
    BY <2>1, <2>3 DEF IInv, SessionInv, Session, SessionOf, Attached
  <2> QED BY <2>1, <2>2, <2>3
<1> QED BY <1>1, <1>2, <1>3, Invariance, PTL DEF Spec

================================================================================
