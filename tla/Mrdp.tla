--------------------------------- MODULE Mrdp ---------------------------------
(***************************************************************************)
(* The remote display (MRDP): the connection manager and its client stubs, *)
(* which live in the mrdp thread of the display program, and the server    *)
(* proxy of each viewer, at the other end of a TCP connection.             *)
(*                                                                         *)
(* The mrdp thread handles one event at a time: a screenUpdated event that *)
(* the compositor queued, a message from a viewer, a new connection, a     *)
(* socket error, the stop of the service.  Each is one action here.  The   *)
(* compositor (module Compositor) changes the screen and queues the event  *)
(* under the mutex that the mrdp thread holds while it reads the screen,   *)
(* so to this module a composition is one step.                            *)
(*                                                                         *)
(* The content of a tile is the number of times it has been drawn.  The    *)
(* parser that cuts the byte stream into messages, the input events, the   *)
(* geometry of the screen and the uncompressed mode, which no viewer       *)
(* chooses, are left out.                                                  *)
(***************************************************************************)
EXTENDS Naturals, Sequences, FiniteSets

CONSTANTS
  Tile,       \* the tiles of the screen
  Client,     \* the viewers
  Detached,   \* the image of a viewer without a session
  MaxDraw,    \* bound: how often a tile is drawn
  MaxReq,     \* bound: the requests of a viewer that are not handled yet
  Fault       \* what goes wrong: "reset", a connection breaks; "full", 2 MB
              \* wait to be sent; "lzo", the pixels do not compress

ASSUME MrdpAssumption ==
  /\ Detached \notin [Tile -> Nat]
  /\ MaxDraw \in Nat /\ MaxReq \in Nat
  /\ Fault \subseteq {"reset", "full", "lzo"}

VARIABLES
  screen,   \* the content of each tile
  notes,    \* screenUpdated events queued in the mrdp thread: their regions
  running,  \* serviceRunning_
  stub,     \* the MRDPClientStub of each viewer: its session state ss, its
            \* report mode surm, screenDirtyAccum, and the suEvt of its pooled
            \* EVENT_SCREENUPDATED message
  c2s, s2c, \* the messages on their way to the server and to the viewer
  viewer,   \* the MRDPServerProxy of each viewer
  image,    \* its screenImage_
  timer,    \* its refreshTimer is active: periodic refresh is wanted
  told      \* it has been told that the server shuts down

vars == <<screen, notes, running, stub, c2s, s2c, viewer, image, timer, told>>

\* The pixels of an update; the tiles outside its region have the content 0,
\* which no tile of the screen has.  One without region or pixels is Void.
Void == [t \in Tile |-> 0]
Snapshot(rgn) == [t \in Tile |-> IF t \in rgn THEN screen[t] ELSE 0]

NoStub == [ss |-> "CLOSED", surm |-> "ACTIVE", accum |-> {}, suEvt |-> Void]
Lives(c) == stub[c].ss # "CLOSED"

\* The messages of the server carry the event or response of their kind.
Evt(id, body) == [id |-> id, suEvt |-> body]

\* A request: its id, the field that is set, the mode it carries, and whether
\* it carries the id the server gave to this client.
Req(id, field, mode, own) == [id |-> id, field |-> field, surm |-> mode, own |-> own]

\* A variant with a bug: the check of a neighbouring message was copied.
FieldCopied == [REQUEST_NEGOTIATION |-> "sureq",
                REQUEST_SCREENUPDATE |-> "sureq",
                REQUEST_SCREENUPDATEREPORTMODE |-> "sureq"]

\* The field the processor of a request looks for.
Field == [REQUEST_NEGOTIATION |-> "negoreq",
          REQUEST_SCREENUPDATE |-> "sureq",
          REQUEST_SCREENUPDATEREPORTMODE |-> "sureq"]
Accepted(m) == m.own /\ m.field = Field[m.id]

\* What is written to a socket whose other end is gone is lost.
ToViewer(c, msgs) == IF viewer[c] = "off" THEN <<>> ELSE s2c[c] \o msgs
ToServer(c, m) == IF Lives(c) THEN Append(c2s[c], m) ELSE <<>>

Init ==
  /\ screen = [t \in Tile |-> 1] /\ notes = <<>>
  /\ running = FALSE
  /\ stub = [c \in Client |-> NoStub]
  /\ c2s = [c \in Client |-> <<>>] /\ s2c = [c \in Client |-> <<>>]
  /\ viewer = [c \in Client |-> "off"]
  /\ image = [c \in Client |-> Detached]
  /\ timer = [c \in Client |-> FALSE] /\ told = [c \in Client |-> FALSE]

------------------------------------------------------------------------------
(* postScreenUpdatedEvt.                                                    *)

\* How the posting of an update can end: the 2 MB can only be full while
\* updates are on their way; a small or noisy region may not compress.
Outcome(c) ==
  {"sent"}
    \cup {o \in Fault \cap {"full"} :
            \E i \in 1..Len(s2c[c]) : s2c[c][i].suEvt # Void}
    \cup (Fault \cap {"lzo"})

\* Two variants with a bug: the accumulated region is dropped with the update,
\* and the message of the first update stays in the pool.
PostDrops(st, rgn, how) ==
  IF rgn = {} THEN st
  ELSE [st EXCEPT !.accum = {},
                  !.suEvt = IF how = "sent" THEN Snapshot(rgn) ELSE @]
PostOwnMessage(st, rgn, how) ==
  IF rgn = {} \/ how = "full" THEN st
  ELSE [st EXCEPT !.accum = {},
                  !.suEvt = IF @ # Void THEN @ ELSE Snapshot(rgn)]

\* What it leaves in the stub st: nothing is done for an empty region or while
\* the buffer is full; otherwise the region is taken, then the compression
\* may fail.
Post(st, rgn, how) ==
  IF rgn = {} \/ how = "full" THEN st
  ELSE [st EXCEPT !.accum = {},
                  !.suEvt = IF how = "lzo" THEN Void ELSE Snapshot(rgn)]

\* What it sends.
Posted(rgn, how) ==
  IF rgn = {} \/ how # "sent" THEN <<>>
  ELSE <<Evt("EVENT_SCREENUPDATED", Snapshot(rgn))>>

------------------------------------------------------------------------------
(* The compositor and the connection manager.                               *)

\* sync(): some tiles have been drawn, and the service, if it runs, is told.
Draw(S) ==
  /\ S # {} /\ \A t \in S : screen[t] <= MaxDraw
  /\ screen' = [t \in Tile |-> IF t \in S THEN screen[t] + 1 ELSE screen[t]]
  /\ notes' = IF running THEN Append(notes, S) ELSE notes
  /\ UNCHANGED <<running, stub, c2s, s2c, viewer, image, timer, told>>

\* A variant with a bug: the state of the session is not checked.
ReportsAlways(c) == Lives(c)

\* postScreenUpdatedEvtChecked does something for established sessions only.
Reports(c) == stub[c].ss = "ESTABLISHED"

\* doNotifyScreenUpdated: every stub adds the region to its own, and those in
\* the active mode post an update.
Notify ==
  /\ running /\ notes # <<>>
  /\ notes' = Tail(notes)
  /\ \E how \in [Client -> {"sent", "full", "lzo"}] :
       LET gather(c) == [stub[c] EXCEPT !.accum = @ \cup Head(notes)]
           active(c) == Reports(c) /\ stub[c].surm = "ACTIVE"
       IN /\ \A c \in Client :
               how[c] \in IF active(c) THEN Outcome(c) ELSE {"sent"}
          /\ stub' = [c \in Client |->
                        IF active(c) THEN Post(gather(c), gather(c).accum, how[c])
                        ELSE IF Reports(c) THEN gather(c) ELSE stub[c]]
          /\ s2c' = [c \in Client |->
                       IF active(c) THEN ToViewer(c, Posted(gather(c).accum, how[c]))
                       ELSE s2c[c]]
  /\ UNCHANGED <<screen, running, c2s, viewer, image, timer, told>>

\* startService and doStartService, which module MrdpService takes apart.
StartService ==
  /\ ~running
  /\ running' = TRUE
  /\ UNCHANGED <<screen, notes, stub, c2s, s2c, viewer, image, timer, told>>

\* doStopService destroys all stubs; each posts its pooled EVENT_SCREENUPDATED
\* message as it stands, where the shutdown event is meant, and hangs up.  The
\* stop comes after the events in the queue: that a service stops with none is
\* assumed here, and is what UpdatesHandledOnce says of MrdpService.
StopService ==
  /\ running /\ notes = <<>>
  /\ running' = FALSE
  /\ s2c' = [c \in Client |->
               IF Lives(c) THEN ToViewer(c, <<Evt("EVENT_SCREENUPDATED", stub[c].suEvt)>>)
               ELSE s2c[c]]
  /\ stub' = [c \in Client |-> NoStub]
  /\ c2s' = [c \in Client |-> <<>>]
  /\ UNCHANGED <<screen, notes, viewer, image, timer, told>>

\* A viewer connects; acceptConnection makes a stub, which posts its
\* EVENT_NEGOTIATION.  (Only when the stub of its last connection is gone.)
Connect(c) ==
  /\ running /\ viewer[c] = "off" /\ ~Lives(c)
  /\ viewer' = [viewer EXCEPT ![c] = "connected"]
  /\ stub' = [stub EXCEPT ![c] = [NoStub EXCEPT !.ss = "NEGOTIATE_0"]]
  /\ s2c' = [s2c EXCEPT ![c] = <<Evt("EVENT_NEGOTIATION", Void)>>]
  /\ told' = [told EXCEPT ![c] = FALSE]
  /\ UNCHANGED <<screen, notes, running, c2s, image, timer>>

\* handleSockError of a stub: the viewer has hung up, or the connection broke.
DropStub(c) ==
  /\ Lives(c)
  /\ stub' = [stub EXCEPT ![c] = NoStub]
  /\ c2s' = [c2s EXCEPT ![c] = <<>>]
  /\ UNCHANGED <<screen, notes, running, s2c, viewer, image, timer, told>>
HangUp(c) == viewer[c] = "off" /\ DropStub(c)
Reset(c)  == "reset" \in Fault /\ viewer[c] # "off" /\ DropStub(c)

------------------------------------------------------------------------------
(* The stub handles a request.                                              *)

Request(c, id) ==
  /\ Lives(c) /\ c2s[c] # <<>> /\ Head(c2s[c]).id = id
  /\ c2s' = [c2s EXCEPT ![c] = Tail(@)]
  /\ UNCHANGED <<screen, notes, running, viewer, image, timer, told>>

\* handleNegotiateReq: the response, then the full screen.
NegotiateReq(c) ==
  /\ Request(c, "REQUEST_NEGOTIATION")
  /\ LET m  == Head(c2s[c])
         st == [stub[c] EXCEPT !.ss = "ESTABLISHED", !.surm = m.surm]
     IN IF Accepted(m) /\ stub[c].ss = "NEGOTIATE_0"
          THEN \E how \in Outcome(c) :
                 /\ stub' = [stub EXCEPT ![c] = Post(st, Tile, how)]
                 /\ s2c' = [s2c EXCEPT ![c] =
                      ToViewer(c, <<Evt("RESPONSE_NEGOTIATION", Void)>> \o Posted(Tile, how))]
          ELSE UNCHANGED <<stub, s2c>>

\* handleScreenUpdateReq posts what has accumulated, in any state.
ScreenUpdateReq(c) ==
  /\ Request(c, "REQUEST_SCREENUPDATE")
  /\ IF Accepted(Head(c2s[c]))
       THEN \E how \in Outcome(c) :
              /\ stub' = [stub EXCEPT ![c] = Post(@, @.accum, how)]
              /\ s2c' = [s2c EXCEPT ![c] = ToViewer(c, Posted(stub[c].accum, how))]
       ELSE UNCHANGED <<stub, s2c>>

\* handleScreenUpdateReportModeReq sets the mode.
ReportModeReq(c) ==
  /\ Request(c, "REQUEST_SCREENUPDATEREPORTMODE")
  /\ stub' = IF Accepted(Head(c2s[c]))
               THEN [stub EXCEPT ![c].surm = Head(c2s[c]).surm] ELSE stub
  /\ UNCHANGED s2c

------------------------------------------------------------------------------
(* The viewer.                                                              *)

Event(c, id) ==
  /\ viewer[c] # "off" /\ s2c[c] # <<>> /\ Head(s2c[c]).id = id
  /\ s2c' = [s2c EXCEPT ![c] = Tail(@)]
  /\ told' = [told EXCEPT ![c] = @ \/ id = "EVENT_SERVERSHUTDOWN"]
  /\ UNCHANGED <<screen, notes, running, stub, timer>>

\* handleNegotiateEvt: the viewer learns its id and asks for the active mode.
NegotiateEvt(c) ==
  /\ Event(c, "EVENT_NEGOTIATION")
  /\ viewer' = [viewer EXCEPT ![c] = "negotiating"]
  /\ c2s' = [c2s EXCEPT ![c] =
               ToServer(c, Req("REQUEST_NEGOTIATION", "negoreq", "ACTIVE", TRUE))]
  /\ UNCHANGED image

\* handleNegotiateResp, verifyNegotiation: an image of the screen's size.
NegotiateResp(c) ==
  /\ Event(c, "RESPONSE_NEGOTIATION")
  /\ viewer' = [viewer EXCEPT ![c] = "open"]
  /\ image' = [image EXCEPT ![c] = [t \in Tile |-> 0]]
  /\ UNCHANGED c2s

\* handleScreenUpdatedEvt unpacks the pixels into the image; an event without
\* a region or without pixels is ignored.
ScreenUpdatedEvt(c) ==
  /\ Event(c, "EVENT_SCREENUPDATED")
  /\ LET new == Head(s2c[c]).suEvt
     IN image' = IF new = Void THEN image
                 ELSE [image EXCEPT ![c] =
                         [t \in Tile |-> IF new[t] # 0 THEN new[t] ELSE @[t]]]
  /\ UNCHANGED <<viewer, c2s>>

\* A variant with a bug: the proxy goes and the image stays.
CloseKeepsImage(c) ==
  /\ viewer[c] # "off"
  /\ viewer' = [viewer EXCEPT ![c] = "off"]
  /\ s2c' = [s2c EXCEPT ![c] = <<>>]
  /\ UNCHANGED <<screen, notes, running, stub, c2s, image, timer, told>>

\* serverDisconnected: the user hangs up, or the viewer notices that the
\* server has, perhaps before it has handled all that arrived.
Close(c) ==
  /\ viewer[c] # "off"
  /\ viewer' = [viewer EXCEPT ![c] = "off"]
  /\ image' = [image EXCEPT ![c] = Detached]
  /\ s2c' = [s2c EXCEPT ![c] = <<>>]
  /\ UNCHANGED <<screen, notes, running, stub, c2s, timer, told>>

\* The proxy posts a request.  Before the EVENT_NEGOTIATION has come its
\* clientID_ is not initialised: it can be anything.
Ask(c, id, field, mode) ==
  /\ viewer[c] # "off" /\ Len(c2s[c]) < MaxReq
  /\ \E own \in BOOLEAN :
       /\ viewer[c] # "connected" => own
       /\ c2s' = [c2s EXCEPT ![c] = ToServer(c, Req(id, field, mode, own))]
  /\ UNCHANGED <<screen, notes, running, stub, s2c, viewer, image, told>>

\* switchRefreshMode: immediate or periodic refresh.
SwitchRefreshMode(c, immediate) ==
  /\ Ask(c, "REQUEST_SCREENUPDATEREPORTMODE", "surmreq",
         IF immediate THEN "ACTIVE" ELSE "PASSIVE")
  /\ timer' = [timer EXCEPT ![c] = ~immediate]

\* queryScreenUpdate, at each timeout of the refresh timer.
QueryScreenUpdate(c) ==
  /\ timer[c]
  /\ Ask(c, "REQUEST_SCREENUPDATE", "sureq", "ACTIVE")
  /\ UNCHANGED timer

------------------------------------------------------------------------------
Handle(c)  == NegotiateReq(c) \/ ScreenUpdateReq(c) \/ ReportModeReq(c)
Receive(c) == NegotiateEvt(c) \/ NegotiateResp(c) \/ ScreenUpdatedEvt(c)

Next ==
  \/ \E S \in SUBSET Tile : Draw(S)
  \/ Notify \/ StartService \/ StopService
  \/ \E c \in Client :
       \/ Connect(c) \/ HangUp(c) \/ Reset(c)
       \/ Handle(c) \/ Receive(c) \/ Close(c)
       \/ \E i \in BOOLEAN : SwitchRefreshMode(c, i)
       \/ QueryScreenUpdate(c)

Spec == Init /\ [][Next]_vars

\* Both event loops go on, a closed connection is noticed, a timer that is
\* active goes off.  Nobody has to draw, connect or hang up.  Strong fairness
\* of the timer makes up for the bound MaxReq: in the code no request of the
\* viewer ever disables it.
Fairness ==
  /\ WF_vars(Notify)
  /\ \A c \in Client : /\ WF_vars(Handle(c)) /\ WF_vars(Receive(c))
                       /\ WF_vars(HangUp(c)) /\ WF_vars(~Lives(c) /\ Close(c))
                       /\ SF_vars(QueryScreenUpdate(c))

FairSpec == Spec /\ Fairness

------------------------------------------------------------------------------
(* What makes the remote display correct.                                   *)

Update  == [Tile -> Nat]
Stubs   == [ss : {"CLOSED", "NEGOTIATE_0", "ESTABLISHED"}, surm : {"ACTIVE", "PASSIVE"},
            accum : SUBSET Tile, suEvt : Update]
Reqs    == [id : DOMAIN Field, field : {"negoreq", "sureq", "surmreq"},
            surm : {"ACTIVE", "PASSIVE"}, own : BOOLEAN]
Evts    == [id : {"EVENT_NEGOTIATION", "RESPONSE_NEGOTIATION",
                  "EVENT_SCREENUPDATED", "EVENT_SERVERSHUTDOWN"}, suEvt : Update]

TypeOK ==
  /\ screen \in [Tile -> Nat]
  /\ notes \in Seq((SUBSET Tile) \ {{}}) /\ running \in BOOLEAN
  /\ stub \in [Client -> Stubs]
  /\ c2s \in [Client -> Seq(Reqs)] /\ s2c \in [Client -> Seq(Evts)]
  /\ viewer \in [Client -> {"off", "connected", "negotiating", "open"}]
  /\ image \in [Client -> Update \cup {Detached}]
  /\ \A c \in Client : image[c] # Detached <=> viewer[c] = "open"
  /\ timer \in [Client -> BOOLEAN] /\ told \in [Client -> BOOLEAN]

\* The content that tile t has now is what c shows or is on its way to c.
Coming(c, t) ==
  \/ image[c] # Detached /\ image[c][t] = screen[t]
  \/ \E i \in 1..Len(s2c[c]) : s2c[c][i].suEvt[t] = screen[t]

\* The server knows what a viewer lacks: in an established session, a tile
\* whose content is neither shown by the viewer nor on its way is in the
\* region accumulated for the viewer or in an event still queued.
UpdateNeverLost ==
  \A c \in Client, t \in Tile :
    stub[c].ss = "ESTABLISHED" /\ viewer[c] # "off"
      => \/ Coming(c, t)
         \/ t \in stub[c].accum
         \/ \E i \in 1..Len(notes) : t \in notes[i]

\* A viewer that is up to date as far as it can know shows the screen: with a
\* session, nothing on its way to it, nothing accumulated for it and no event
\* queued, its image is the screen.
QuietShowsScreen ==
  \A c \in Client :
    stub[c].ss = "ESTABLISHED" /\ viewer[c] # "off"
      /\ s2c[c] = <<>> /\ stub[c].accum = {} /\ notes = <<>>
      => image[c] = screen

\* No pixels reach a viewer that has no image to put them in: the response to
\* the negotiation is always ahead of them, whatever requests and screen
\* updates come before the session is established.
ImageBeforePixels ==
  \A c \in Client : \A i \in 1..Len(s2c[c]) :
    s2c[c][i].suEvt # Void
      => \/ viewer[c] = "open"
         \/ \E j \in 1..(i - 1) : s2c[c][j].id = "RESPONSE_NEGOTIATION"

\* The images of the viewers are as ScreenMirror says: never ahead of the
\* screen and never back in time, also across the message that a stopping
\* server sends again and across sessions.
Mirror == INSTANCE ScreenMirror WITH screen <- screen, image <- image
IsScreenMirror == Mirror!Spec

\* No session gets stuck in its negotiation: while the stub lives, the next
\* message of it is on its way, the event of the server, the request of the
\* viewer that the stub will accept, or the response, whatever other requests
\* and updates are sent and handled in between.
Negotiates(m) == m.id = "REQUEST_NEGOTIATION" /\ Accepted(m)
HandshakeGoesOn ==
  \A c \in Client :
    Lives(c) =>
      \/ viewer[c] \in {"off", "open"}
      \/ viewer[c] = "connected" /\ s2c[c] # <<>> /\ s2c[c][1].id = "EVENT_NEGOTIATION"
      \/ /\ viewer[c] = "negotiating" /\ stub[c].ss = "NEGOTIATE_0"
         /\ \E i \in 1..Len(c2s[c]) : Negotiates(c2s[c][i])
      \/ \E i \in 1..Len(s2c[c]) : s2c[c][i].id = "RESPONSE_NEGOTIATION"

\* A connection becomes a session or ends.
SessionOpens ==
  \A c \in Client : viewer[c] = "connected" ~> viewer[c] \in {"open", "off"}

\* When the screen stays as it is, a viewer whose session lasts ends up with
\* its content, if it keeps asking or nothing is held back for it.
Converges ==
  \A c \in Client :
    <>[](stub[c].ss = "ESTABLISHED" /\ viewer[c] = "open"
           /\ (timer[c] \/ stub[c].accum = {}))
      => <>[](image[c] = screen)

\* A server that stops tells the viewers it has a session with.
ShutdownAnnounced ==
  \A c \in Client :
    ~running /\ viewer[c] = "open" /\ s2c[c] = <<>> => told[c]

===============================================================================
