------------------------------- MODULE MrdpLink -------------------------------
(***************************************************************************)
(* The connections between the viewers and the service: MrdpService, with  *)
(* the stubs that its connection manager makes, and the sockets of the     *)
(* viewers at the other end.                                               *)
(*                                                                         *)
(* A viewer connects the three signals of its socket to its slots each     *)
(* time the user asks for a connection, and disconnects them when a        *)
(* connection ends.  An attempt that fails ends no connection.  A slot     *)
(* that is connected n times is called n times.                            *)
(*                                                                         *)
(* Either end that closes its socket waits until the rest of what it has   *)
(* to send is written, and only the event loop of its thread writes it.    *)
(***************************************************************************)
EXTENDS MrdpService, Integers

CONSTANTS
  Viewer,     \* the viewers
  MaxProxy    \* bound, for each viewer: attempts to connect, and parsers on its socket

ASSUME LinkAssumption == MaxProxy \in [Viewer -> Nat]

VARIABLES
  stub,     \* the server's end for each viewer: "none"; "waiting" to be
            \* accepted; "live", a MRDPClientStub in clientStubs; "closing", a
            \* socket without stub that has a rest to send; "stuck", one whose
            \* event loop has ended before that
  sock,     \* the state of the viewer's socket; "stalled" when its buffer is
            \* full and no message in it complete: it reads no more
  slots,    \* how often its signals are connected to the viewer's slots
  pending,  \* pendingClose: the socket is closed as soon as it connects
  proxies,  \* the MRDPServerProxy objects that parse what the socket reads
  proxy,    \* serverProxy is set
  shown,    \* the button offers to disconnect
  again     \* connectToServer was called with the slots connected already

link == <<stub, sock, slots, pending, proxies, proxy, shown, again>>
vars == <<service, link>>

Init ==
  /\ ServiceInit
  /\ stub = [v \in Viewer |-> "none"] /\ sock = [v \in Viewer |-> "unconnected"]
  /\ slots = [v \in Viewer |-> 0] /\ pending = [v \in Viewer |-> FALSE]
  /\ proxies = [v \in Viewer |-> 0] /\ proxy = [v \in Viewer |-> FALSE]
  /\ shown = [v \in Viewer |-> FALSE] /\ again = [v \in Viewer |-> FALSE]

------------------------------------------------------------------------------
(* The server's end.                                                        *)

\* A socket that is closing when the event loop ends is left as it is: the loop
\* takes its dispatcher along, and the next one knows nothing of the socket.
Left == [v \in Viewer |-> IF stub[v] = "closing" /\ ~alive' THEN "stuck" ELSE stub[v]]

\* A variant with a bug: the stop does not clear clientStubs.
StubsStay ==
  IF listening /\ ~listening'
    THEN stub' = [v \in Viewer |-> IF stub[v] = "waiting" THEN "none" ELSE stub[v]]
    ELSE stub' = Left

\* doStopService closes the listener, with the connections that wait in it, and
\* clears clientStubs.  Each stub sends a message as it goes and hangs up: at
\* once or, if its socket has a rest to send, later.
StubsGo ==
  IF listening /\ ~listening'
    THEN \E rest \in SUBSET {v \in Viewer : stub[v] = "live"} :
           stub' = [v \in Viewer |-> IF v \in rest THEN "closing"
                                     ELSE IF stub[v] \in {"waiting", "live"} THEN "none"
                                     ELSE stub[v]]
    ELSE stub' = Left

Serve == /\ ServiceNext /\ StubsGo
         /\ UNCHANGED <<sock, slots, pending, proxies, proxy, shown, again>>

\* acceptConnection.
Accept(v) ==
  /\ alive /\ listening /\ stub[v] = "waiting"
  /\ stub' = [stub EXCEPT ![v] = "live"]
  /\ UNCHANGED <<service, sock, slots, pending, proxies, proxy, shown, again>>

\* handleSockError and handleParseError of a stub: its viewer has hung up, the
\* connection broke or what came is damaged.  The stub goes, and its socket
\* closes, now or after the rest is sent.
DropStub(v) ==
  /\ alive /\ stub[v] = "live"
  /\ \E s \in {"none", "closing"} : stub' = [stub EXCEPT ![v] = s]
  /\ UNCHANGED <<service, sock, slots, pending, proxies, proxy, shown, again>>

\* The rest is written, or cannot be: the socket is closed.
Flushed(v) ==
  /\ alive /\ stub[v] = "closing"
  /\ stub' = [stub EXCEPT ![v] = "none"]
  /\ UNCHANGED <<service, sock, slots, pending, proxies, proxy, shown, again>>

------------------------------------------------------------------------------
(* The viewer.                                                              *)

\* connectToServer.  On a socket in use connectToHost only reports an error, and
\* handleSockError, if it is connected, asks to disconnect: the attempt under way
\* is then given up when it succeeds, and a socket that closes goes on closing.
Connect(v) ==
  /\ ~shown[v] /\ slots[v] + proxies[v] < MaxProxy[v]
  /\ \/ /\ sock[v] = "unconnected"
        /\ sock' = [sock EXCEPT ![v] = "connecting"]
        /\ pending' = [pending EXCEPT ![v] = FALSE]
     \/ /\ sock[v] = "connecting" /\ UNCHANGED sock
        /\ pending' = [pending EXCEPT ![v] = slots[v] > 0]
     \/ sock[v] = "closing" /\ UNCHANGED <<sock, pending>>
  /\ slots' = [slots EXCEPT ![v] = @ + 1]
  /\ again' = [again EXCEPT ![v] = @ \/ slots[v] > 0]
  /\ UNCHANGED <<service, stub, proxies, proxy, shown>>

\* A variant with a bug: the proxy is forgotten and not deleted.
DisconnectedLeaks(v, n) ==
  /\ sock' = [sock EXCEPT ![v] = "unconnected"]
  /\ slots' = [slots EXCEPT ![v] = 0]
  /\ proxies' = [proxies EXCEPT ![v] = n]
  /\ proxy' = [proxy EXCEPT ![v] = FALSE]
  /\ shown' = [shown EXCEPT ![v] = FALSE]

\* A variant with a bug: the proxy is deleted twice.
DisconnectedTwice(v, n) ==
  /\ sock' = [sock EXCEPT ![v] = "unconnected"]
  /\ slots' = [slots EXCEPT ![v] = 0]
  /\ proxies' = [proxies EXCEPT ![v] = n - 2]
  /\ proxy' = [proxy EXCEPT ![v] = FALSE]
  /\ shown' = [shown EXCEPT ![v] = FALSE]

\* serverDisconnected disconnects all slots, so it is called once; it deletes
\* the proxy it knows of, one of n.
Disconnected(v, n) ==
  /\ sock' = [sock EXCEPT ![v] = "unconnected"]
  /\ slots' = [slots EXCEPT ![v] = 0]
  /\ proxies' = [proxies EXCEPT ![v] = n - 1]
  /\ proxy' = [proxy EXCEPT ![v] = FALSE]
  /\ shown' = [shown EXCEPT ![v] = FALSE]

\* The connection is made: serverConnected makes a proxy each time it is
\* called.  (Only when the server has noticed the end of the last connection.)
Established(v) ==
  /\ sock[v] = "connecting" /\ listening /\ stub[v] \notin {"waiting", "live"}
  /\ stub' = [stub EXCEPT ![v] = "waiting"]
  /\ IF pending[v]
       THEN Disconnected(v, proxies[v] + slots[v])
       ELSE /\ sock' = [sock EXCEPT ![v] = "connected"]
            /\ proxies' = [proxies EXCEPT ![v] = @ + slots[v]]
            /\ proxy' = [proxy EXCEPT ![v] = TRUE]
            /\ shown' = [shown EXCEPT ![v] = TRUE]
            /\ UNCHANGED slots
  /\ UNCHANGED <<service, pending, again>>

\* The attempt fails, or times out: only the error is signalled.
Refused(v) ==
  /\ sock[v] = "connecting"
  /\ sock' = [sock EXCEPT ![v] = "unconnected"]
  /\ UNCHANGED <<service, stub, slots, pending, proxies, proxy, shown, again>>

\* disconnectFromServer waits for what is still to be written, if anything.
Disconnect(v) ==
  /\ shown[v] /\ sock[v] \in {"connected", "stalled"}
  /\ \/ Disconnected(v, proxies[v])
     \/ sock' = [sock EXCEPT ![v] = "closing"] /\ UNCHANGED <<slots, proxies, proxy, shown>>
  /\ UNCHANGED <<service, stub, pending, again>>

\* A variant with a bug: the button is turned off and the socket not closed.
ParseErrorIgnored(v) ==
  /\ sock[v] \in {"connected", "closing"}
  /\ shown' = [shown EXCEPT ![v] = FALSE]
  /\ UNCHANGED <<service, stub, sock, slots, pending, proxies, proxy, again>>

\* handleParseError: as above, but the button is turned off at once.
ParseError(v) ==
  /\ sock[v] \in {"connected", "closing"}
  /\ \/ Disconnected(v, proxies[v])
     \/ /\ sock' = [sock EXCEPT ![v] = "closing"]
        /\ shown' = [shown EXCEPT ![v] = FALSE]
        /\ UNCHANGED <<slots, proxies, proxy>>
  /\ UNCHANGED <<service, stub, pending, again>>

\* The read buffer is full before the message in it is complete (the state that
\* module MrdpParser leads to).
Stall(v) ==
  /\ sock[v] = "connected"
  /\ sock' = [sock EXCEPT ![v] = "stalled"]
  /\ UNCHANGED <<service, stub, slots, pending, proxies, proxy, shown, again>>

\* The rest is written, or the viewer notices that the server has hung up or
\* that the connection is broken (a stalled one by a write that fails).
Hangup(v) ==
  /\ sock[v] \in {"connected", "stalled", "closing"}
  /\ Disconnected(v, proxies[v])
  /\ UNCHANGED <<service, stub, pending, again>>

------------------------------------------------------------------------------
ViewerStep(v) ==
  \/ Connect(v) \/ Established(v) \/ Refused(v) \/ Disconnect(v)
  \/ ParseError(v) \/ Stall(v) \/ Hangup(v)

Next == Serve \/ \E v \in Viewer : Accept(v) \/ DropStub(v) \/ Flushed(v) \/ ViewerStep(v)

Spec == Init /\ [][Next]_vars

\* Besides the threads of the server: a viewer that reads, or still has to
\* write, notices when the server's end is closed.
Fairness ==
  /\ ServiceFairness
  /\ \A v \in Viewer : WF_vars(stub[v] = "none" /\ sock[v] # "stalled" /\ Hangup(v))

FairSpec == Spec /\ Fairness

------------------------------------------------------------------------------
TypeOK ==
  /\ ServiceTypeOK
  /\ stub \in [Viewer -> {"none", "waiting", "live", "closing", "stuck"}]
  /\ sock \in [Viewer -> {"unconnected", "connecting", "connected", "stalled", "closing"}]
  /\ slots \in [Viewer -> Nat] /\ pending \in [Viewer -> BOOLEAN]
  /\ proxies \in [Viewer -> Nat] /\ proxy \in [Viewer -> BOOLEAN]
  /\ shown \in [Viewer -> BOOLEAN] /\ again \in [Viewer -> BOOLEAN]

\* A service that does not run serves nobody: no connection waits to be accepted
\* and none has a stub, whatever starts, stops and connections are under way.
\* What may be left of one is a socket that closes, while the thread runs, and
\* that is left for ever, when it has ended.
StopHangsUp ==
  \A v \in Viewer : /\ ~running => stub[v] \in {"none", "closing", "stuck"}
                    /\ ~alive => stub[v] \in {"none", "stuck"}

\* There is a proxy exactly while there is a connection, and the button offers
\* to disconnect from it, whatever attempts have failed, unless it is being
\* closed already: a user can always end a session, and only a session.
ButtonTells ==
  \A v \in Viewer : /\ proxy[v] <=> sock[v] \in {"connected", "stalled", "closing"}
                    /\ shown[v] => proxy[v]
                    /\ proxy[v] => shown[v] \/ sock[v] = "closing"

\* One parser reads from a socket, two would take each other's bytes: this holds
\* for a viewer that never asks for a connection while an earlier attempt of
\* its is pending or has failed, or while its last connection closes.  (One that does gets a proxy per attempt, of
\* which the disconnection deletes one.)
OneParser == \A v \in Viewer : again[v] \/ proxies[v] = IF proxy[v] THEN 1 ELSE 0

\* When the service is stopped for good, every viewer learns it, and offers to
\* disconnect no longer, unless it has ceased to read or the server's socket had
\* a rest to send when the thread ended.
StopNoticed ==
  <>[]~running => <>[](\A v \in Viewer : shown[v] => sock[v] = "stalled" \/ stub[v] = "stuck")

===============================================================================
