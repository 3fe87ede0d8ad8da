------------------------------ MODULE MrdpService ------------------------------
(***************************************************************************)
(* Starting and stopping the remote display service, across three threads: *)
(* the UI thread of the application, the compositor thread and the mrdp    *)
(* thread, in which the connection manager (MRDPConnMgr) lives.            *)
(*                                                                         *)
(* The UI thread asks whether the service runs and then starts or stops it, *)
(* as the applications of the repository do.  Each of its calls blocks     *)
(* until the compositor thread has executed it.  The compositor thread     *)
(* posts the start to the mrdp thread and goes on; the stop it posts and   *)
(* waits, first for the stop, then for the end of the thread.  While it is *)
(* free it draws, and each drawing posts a screenUpdated event for every   *)
(* connection of that signal.                                              *)
(*                                                                         *)
(* What startMRDPService returns is left out: it has no return statement,  *)
(* and the outcome of the start is not known when it ends.                 *)
(***************************************************************************)
EXTENDS Naturals, Sequences, FiniteSets

CONSTANTS
  Busy,      \* the port may be in use by another program
  MaxQueue   \* bound: events in the queue of the mrdp thread

ASSUME ServiceAssumption == Busy \in BOOLEAN /\ MaxQueue \in Nat

VARIABLES
  ui,          \* what the UI thread does: "idle", or the call that blocks it
  cp,          \* the compositor thread: "idle"; "stopping", blocked by the
               \* signal stopService__; "exiting", in mrdpThread.wait()
  alive,       \* the mrdp thread runs its event loop
  queue,       \* the events posted to the connection manager
  running,     \* serviceRunning_
  listening,   \* the listener accepts connections
  subs,        \* how often screenUpdated is connected to doNotifyScreenUpdated
  compositor   \* compositor_ is set

service == <<ui, cp, alive, queue, running, listening, subs, compositor>>

ServiceInit ==
  /\ ui = "idle" /\ cp = "idle" /\ alive = FALSE /\ queue = <<>>
  /\ running = FALSE /\ listening = FALSE /\ subs = 0 /\ compositor = FALSE

Has(e) == \E i \in 1..Len(queue) : queue[i] = e

------------------------------------------------------------------------------
(* The UI thread.                                                           *)

\* The user toggles the service: first MRDPServiceRunning.
Toggle ==
  /\ ui = "idle" /\ ui' = "ask"
  /\ UNCHANGED <<cp, alive, queue, running, listening, subs, compositor>>

------------------------------------------------------------------------------
(* The compositor thread.                                                   *)

\* A variant with a bug: the application stops without asking.
AnswerStop ==
  /\ ui = "ask" /\ cp = "idle" /\ ui' = "stop"
  /\ UNCHANGED <<cp, alive, queue, running, listening, subs, compositor>>

\* MRDPServiceRunning; the answer decides which call the UI thread makes next.
Answer ==
  /\ ui = "ask" /\ cp = "idle"
  /\ ui' = IF running THEN "stop" ELSE "start"
  /\ UNCHANGED <<cp, alive, queue, running, listening, subs, compositor>>

\* startService: starts the thread, posts startService__ and returns.
Start ==
  /\ ui = "start" /\ cp = "idle" /\ Len(queue) < MaxQueue
  /\ ui' = "idle"
  /\ IF running THEN UNCHANGED <<alive, queue>>
                ELSE alive' = TRUE /\ queue' = Append(queue, "start")
  /\ UNCHANGED <<cp, running, listening, subs, compositor>>

\* A variant with a bug: the signal does not block.
StopUnblocked ==
  /\ ui = "stop" /\ cp = "idle" /\ Len(queue) < MaxQueue
  /\ queue' = Append(queue, "stop")
  /\ ui' = "idle"
  /\ UNCHANGED <<cp, alive, running, listening, subs, compositor>>

\* stopService emits stopService__, which blocks the compositor thread.
Stop ==
  /\ ui = "stop" /\ cp = "idle" /\ Len(queue) < MaxQueue
  /\ cp' = "stopping" /\ queue' = Append(queue, "stop")
  /\ UNCHANGED <<ui, alive, running, listening, subs, compositor>>

\* The thread has ended: stopService returns, and so does the call of the UI.
Stopped ==
  /\ cp = "exiting" /\ ~alive
  /\ cp' = "idle" /\ ui' = "idle"
  /\ UNCHANGED <<alive, queue, running, listening, subs, compositor>>

\* sync() emits screenUpdated.
Draw ==
  /\ cp = "idle" /\ subs > 0 /\ Len(queue) + subs <= MaxQueue
  /\ queue' = queue \o [i \in 1..subs |-> "notify"]
  /\ UNCHANGED <<ui, cp, alive, running, listening, subs, compositor>>

------------------------------------------------------------------------------
(* The mrdp thread.                                                         *)

Takes(e) == alive /\ queue # <<>> /\ Head(queue) = e /\ queue' = Tail(queue)

\* A variant with a bug: the signal is connected before the port is known.
DoStartEarly ==
  /\ Takes("start")
  /\ compositor' = TRUE /\ subs' = subs + 1
  /\ \E free \in BOOLEAN :
       /\ ~Busy => free
       /\ LET ok == free /\ ~listening
          IN listening' = (listening \/ ok) /\ running' = (running \/ ok)
  /\ UNCHANGED <<ui, cp, alive>>

\* doStartService: nothing but the compositor is set when listen() fails, as
\* it does when the listener listens already or the port is in use.
DoStart ==
  /\ Takes("start")
  /\ compositor' = TRUE
  /\ \E free \in BOOLEAN :
       /\ ~Busy => free
       /\ IF free /\ ~listening
            THEN listening' = TRUE /\ subs' = subs + 1 /\ running' = TRUE
            ELSE UNCHANGED <<listening, subs, running>>
  /\ UNCHANGED <<ui, cp, alive>>

\* doStopService, after which the compositor thread calls exit() and wait().
DoStop ==
  /\ Takes("stop")
  /\ subs' = 0 /\ listening' = FALSE /\ compositor' = FALSE /\ running' = FALSE
  /\ cp' = "exiting"
  /\ UNCHANGED <<ui, alive>>

\* doNotifyScreenUpdated, which uses *compositor_ for every stub.
DoNotify ==
  /\ Takes("notify")
  /\ UNCHANGED <<ui, cp, alive, running, listening, subs, compositor>>

\* The event loop ends.
Exit ==
  /\ cp = "exiting" /\ alive
  /\ alive' = FALSE
  /\ UNCHANGED <<ui, cp, queue, running, listening, subs, compositor>>

------------------------------------------------------------------------------
CompositorThread == Answer \/ Start \/ Stop \/ Stopped
MrdpThread == DoStart \/ DoStop \/ DoNotify \/ Exit
ServiceNext == Toggle \/ CompositorThread \/ Draw \/ MrdpThread

ServiceSpec == ServiceInit /\ [][ServiceNext]_service

\* Both threads handle their events; strong fairness makes up for MaxQueue,
\* which Draw may use up while a call waits.
ServiceFairness == SF_service(CompositorThread) /\ WF_service(MrdpThread)

------------------------------------------------------------------------------
ServiceTypeOK ==
  /\ ui \in {"idle", "ask", "start", "stop"}
  /\ cp \in {"idle", "stopping", "exiting"}
  /\ alive \in BOOLEAN /\ running \in BOOLEAN
  /\ listening \in BOOLEAN /\ compositor \in BOOLEAN
  /\ queue \in Seq({"start", "stop", "notify"}) /\ subs \in Nat

\* An update never finds the connection manager without its compositor: a stop
\* leaves none in the queue, and none comes before the next start is done.
NotifyFindsCompositor == Has("notify") => compositor /\ alive

\* However often the service is started, and whether or not it could listen,
\* the updates of a running service are posted once, and otherwise never.
NotifiedOnce == subs = IF running THEN 1 ELSE 0

\* A blocking stop is never posted to a thread that does not run, nor taken
\* without its caller noticing: while the compositor thread waits for it, it is
\* in the queue of the mrdp thread, behind what that has to handle first.
StopIsAhead ==
  cp = "stopping" => alive /\ queue # <<>> /\ queue[Len(queue)] = "stop"

\* Across the three threads, and whatever starts are queued and fail, each
\* drawing is handled once, by the service that was running when it was made:
\* module Mrdp relies on this when it takes the updates for a queue of their own.
Waiting == {i \in 1..Len(queue) : queue[i] = "notify"}
Updates == INSTANCE UpdateQueue WITH running <- running, waiting <- Cardinality(Waiting)
UpdatesHandledOnce == Updates!Spec

\* No call blocks for ever: the compositor thread never waits for a thread that
\* does not run, nor the mrdp thread for the compositor.
CallsReturn == ui # "idle" ~> ui = "idle"

===============================================================================
