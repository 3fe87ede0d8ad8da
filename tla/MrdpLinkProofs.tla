---------------------------- MODULE MrdpLinkProofs ----------------------------
(***************************************************************************)
(* Proofs about MrdpService and MrdpLink, for any number of viewers, any   *)
(* length of the event queue and whether or not the port may be in use.    *)
(***************************************************************************)
EXTENDS MrdpLink, SequenceTheorems, FiniteSetTheorems, TLAPS

Event == {"start", "stop", "notify"}

\* What the queue of the mrdp thread holds: a stop comes last, while the
\* compositor thread is blocked by it; updates only while the service runs; and
\* a thread that ends, or has ended, has left nothing.
Queue ==
  /\ \A i \in 1..Len(queue) : queue[i] = "stop" => i = Len(queue) /\ cp = "stopping"
  /\ \A i \in 1..Len(queue) : queue[i] = "notify" => running
  /\ ~alive \/ cp = "exiting" => queue = <<>>

\* How the threads' states go with the service's.
Threads ==
  /\ cp # "idle" => ui = "stop"
  /\ ui = "stop" /\ cp # "exiting" => running
  /\ cp = "exiting" => ~running
  /\ running => compositor /\ alive
  /\ running <=> listening

ServiceInv == ServiceTypeOK /\ Queue /\ Threads /\ NotifiedOnce

------------------------------------------------------------------------------
(* The queue.                                                               *)

\* An event is taken from the queue.
LEMMA Taking ==
  ASSUME NEW e, queue \in Seq(Event), Takes(e)
  PROVE  /\ queue' \in Seq(Event) /\ Len(queue') = Len(queue) - 1 /\ Len(queue) > 0
         /\ queue[1] = e
         /\ \A i \in 1..Len(queue') : queue'[i] = queue[i + 1]
  <1>1. queue # <<>> /\ Head(queue) = e /\ queue' = Tail(queue)
    BY DEF Takes
  <1>2. /\ Tail(queue) \in Seq(Event) /\ Len(Tail(queue)) = Len(queue) - 1
        /\ \A i \in 1..Len(Tail(queue)) : Tail(queue)[i] = queue[i + 1]
    BY <1>1, HeadTailProperties
  <1>3. Len(queue) > 0 /\ Head(queue) = queue[1]
    BY <1>1, EmptySeq
  <1> QED
    BY <1>1, <1>2, <1>3

\* What is taken leaves a queue of the same kind behind, if the service has
\* not stopped.
LEMMA StillQueue ==
  ASSUME NEW e, ServiceInv, Takes(e), cp' = cp, alive' = alive, running => running'
  PROVE  queue' \in Seq(Event) /\ Queue'
  <1>1. /\ queue' \in Seq(Event) /\ Len(queue') = Len(queue) - 1 /\ Len(queue) > 0
        /\ \A i \in 1..Len(queue') : queue'[i] = queue[i + 1]
    BY Taking DEF ServiceInv, ServiceTypeOK, Event
  <1>2. Len(queue) \in Nat /\ Len(queue') \in Nat
    BY <1>1, LenProperties DEF ServiceInv, ServiceTypeOK
  <1>3. ASSUME NEW i \in 1..Len(queue')
        PROVE  i + 1 \in 1..Len(queue) /\ queue'[i] = queue[i + 1]
    BY <1>1, <1>2
  <1>4. \A i \in 1..Len(queue') : queue'[i] = "stop" => i = Len(queue') /\ cp' = "stopping"
    BY <1>1, <1>2, <1>3 DEF ServiceInv, Queue
  <1>5. \A i \in 1..Len(queue') : queue'[i] = "notify" => running'
    BY <1>3 DEF ServiceInv, Queue
  <1>6. ~(~alive' \/ cp' = "exiting")
    BY DEF ServiceInv, Queue, Takes
  <1> QED
    BY <1>1, <1>4, <1>5, <1>6 DEF Queue

\* An event is added to it.
LEMMA Posting ==
  ASSUME NEW e \in Event, ServiceInv, queue' = Append(queue, e), cp = "idle",
         e = "stop" => cp' = "stopping",
         e = "notify" => running, e # "stop" => cp' = cp,
         alive', running' = running
  PROVE  queue' \in Seq(Event) /\ Queue'
  <1>1. queue \in Seq(Event) /\ Len(queue) \in Nat
    BY LenProperties DEF ServiceInv, ServiceTypeOK, Event
  <1>2. /\ queue' \in Seq(Event) /\ Len(queue') = Len(queue) + 1
        /\ \A i \in 1..Len(queue) : queue'[i] = queue[i]
        /\ queue'[Len(queue) + 1] = e
    BY <1>1, AppendProperties
  <1>3. ASSUME NEW i \in 1..Len(queue')
        PROVE  \/ i \in 1..Len(queue) /\ queue'[i] = queue[i]
               \/ i = Len(queue') /\ queue'[i] = e
    BY <1>1, <1>2
  <1>4. \A i \in 1..Len(queue) : queue[i] # "stop"
    BY DEF ServiceInv, Queue
  <1>5. \A i \in 1..Len(queue') : queue'[i] = "stop" => i = Len(queue') /\ cp' = "stopping"
    BY <1>3, <1>4
  <1>6. \A i \in 1..Len(queue') : queue'[i] = "notify" => running'
    BY <1>3 DEF ServiceInv, Queue
  <1>7. cp' # "exiting"
    OBVIOUS
  <1> QED
    BY <1>2, <1>5, <1>6, <1>7 DEF Queue

------------------------------------------------------------------------------
(* The service.                                                             *)

LEMMA ServiceInitInv == ServiceInit => ServiceInv
  <1> SUFFICES ASSUME ServiceInit PROVE ServiceInv
    OBVIOUS
  <1> USE DEF ServiceInit
  <1>1. ServiceTypeOK
    BY EmptySeq DEF ServiceTypeOK
  <1>2. Len(queue) = 0 /\ 1..Len(queue) = {}
    BY EmptySeq
  <1>3. Queue
    BY <1>2 DEF Queue
  <1> QED
    BY <1>1, <1>3 DEF ServiceInv, Threads, NotifiedOnce

\* When the queue stays, so does what it holds.
LEMMA QueueStays ==
  ASSUME ServiceInv, queue' = queue, running' = running, alive' = alive,
         cp' = cp \/ (cp' # "exiting" /\ cp # "stopping")
  PROVE  Queue'
  BY DEF ServiceInv, Queue

LEMMA ServiceStep ==
  ASSUME ServiceInv, [ServiceNext]_service
  PROVE  ServiceInv'
  <1>t. /\ ServiceTypeOK /\ Queue /\ Threads /\ NotifiedOnce
    BY DEF ServiceInv
  <1>e. queue \in Seq(Event)
    BY <1>t DEF ServiceTypeOK, Event
  <1>1. CASE Toggle
    <2>1. Queue'
      BY <1>1, QueueStays DEF Toggle
    <2> QED
      BY <1>t, <1>1, <2>1 DEF Toggle, ServiceInv, ServiceTypeOK, Threads, NotifiedOnce
  <1>2. CASE Answer
    <2>1. Queue'
      BY <1>2, QueueStays DEF Answer
    <2>2. ServiceTypeOK' /\ NotifiedOnce'
      BY <1>t, <1>2 DEF Answer, ServiceTypeOK, NotifiedOnce
    <2>3. Threads'
      BY <1>t, <1>2, Zenon DEF Answer, Threads
    <2> QED
      BY <2>1, <2>2, <2>3 DEF ServiceInv
  <1>3. CASE Start
    <2>1. CASE running
      <3>1. Queue'
        BY <1>3, <2>1, QueueStays DEF Start
      <3> QED
        BY <1>t, <1>3, <2>1, <3>1 DEF Start, ServiceInv, ServiceTypeOK, Threads, NotifiedOnce
    <2>2. CASE ~running
      <3>1. queue' \in Seq(Event) /\ Queue'
        BY <1>3, <2>2, Posting DEF Start, Event
      <3> QED
        BY <1>t, <1>3, <2>2, <3>1
           DEF Start, ServiceInv, ServiceTypeOK, Threads, NotifiedOnce, Event
    <2> QED
      BY <2>1, <2>2
  <1>4. CASE Stop
    <2>1. queue' \in Seq(Event) /\ Queue'
      BY <1>t, <1>4, Posting DEF Stop, Event, Threads
    <2> QED
      BY <1>t, <1>4, <2>1 DEF Stop, ServiceInv, ServiceTypeOK, Threads, NotifiedOnce, Event
  <1>5. CASE Stopped
    <2>1. Queue'
      BY <1>5, QueueStays DEF Stopped
    <2> QED
      BY <1>t, <1>5, <2>1 DEF Stopped, ServiceInv, ServiceTypeOK, Threads, NotifiedOnce
  <1>6. CASE Draw
    <2>1. running /\ subs = 1
      BY <1>t, <1>6 DEF Draw, NotifiedOnce, Threads
    <2>2. queue' = Append(queue, "notify")
      <3>1. [i \in 1..subs |-> "notify"] = <<"notify">>
        BY <2>1
      <3> QED
        BY <1>6, <1>e, <3>1, AppendIsConcat DEF Draw, Event
    <2>3. queue' \in Seq(Event) /\ Queue'
      BY <1>t, <1>6, <2>1, <2>2, Posting DEF Draw, Event, Threads
    <2> QED
      BY <1>t, <1>6, <2>3 DEF Draw, ServiceInv, ServiceTypeOK, Threads, NotifiedOnce, Event
  <1>7. CASE DoStart
    <2>1. queue' \in Seq(Event) /\ Queue'
      BY <1>7, StillQueue DEF DoStart
    <2>2. alive /\ cp # "exiting"
      BY <1>t, <1>7 DEF DoStart, Takes, Queue
    <2>3. PICK free \in BOOLEAN :
            IF free /\ ~listening
              THEN listening' = TRUE /\ subs' = subs + 1 /\ running' = TRUE
              ELSE UNCHANGED <<listening, subs, running>>
      BY <1>7 DEF DoStart
    <2>4. UNCHANGED <<ui, cp, alive>> /\ compositor' = TRUE
      BY <1>7 DEF DoStart
    <2>5. CASE free /\ ~listening
      BY <1>t, <2>1, <2>2, <2>3, <2>4, <2>5
         DEF ServiceInv, ServiceTypeOK, Threads, NotifiedOnce, Event
    <2>6. CASE ~(free /\ ~listening)
      BY <1>t, <2>1, <2>2, <2>3, <2>4, <2>6
         DEF ServiceInv, ServiceTypeOK, Threads, NotifiedOnce, Event
    <2> QED
      BY <2>5, <2>6
  <1>8. CASE DoStop
    <2>1. /\ queue' \in Seq(Event) /\ Len(queue') = Len(queue) - 1 /\ Len(queue) > 0
          /\ queue[1] = "stop"
      BY <1>8, <1>e, Taking DEF DoStop
    <2>2. Len(queue) = 1 /\ cp = "stopping"
      BY <1>t, <2>1, LenProperties DEF Queue
    <2>3. queue' = <<>>
      BY <2>1, <2>2, EmptySeq
    <2>4. Queue'
      <3>1. Len(queue') = 0 /\ 1..Len(queue') = {}
        BY <2>3, EmptySeq
      <3> QED
        BY <2>3, <3>1 DEF Queue
    <2> QED
      BY <1>t, <1>8, <2>1, <2>2, <2>4
         DEF DoStop, ServiceInv, ServiceTypeOK, Threads, NotifiedOnce, Event
  <1>9. CASE DoNotify
    <2>1. queue' \in Seq(Event) /\ Queue'
      BY <1>9, StillQueue DEF DoNotify
    <2> QED
      BY <1>t, <1>9, <2>1 DEF DoNotify, ServiceInv, ServiceTypeOK, Threads, NotifiedOnce, Event
  <1>10. CASE Exit
    <2>1. Queue'
      BY <1>t, <1>10 DEF Exit, Queue
    <2> QED
      BY <1>t, <1>10, <2>1 DEF Exit, ServiceInv, ServiceTypeOK, Threads, NotifiedOnce
  <1>11. CASE UNCHANGED service
    BY <1>t, <1>11 DEF service, ServiceInv, ServiceTypeOK, Queue, Threads, NotifiedOnce
  <1> QED
    BY <1>1, <1>2, <1>3, <1>4, <1>5, <1>6, <1>7, <1>8, <1>9, <1>10, <1>11
       DEF ServiceNext, CompositorThread, MrdpThread

------------------------------------------------------------------------------
(* The updates in the queue.                                                *)

LEMMA WaitingFinite ==
  ASSUME ServiceInv
  PROVE  IsFiniteSet(Waiting) /\ Cardinality(Waiting) \in Nat
  <1>1. Len(queue) \in Nat
    BY LenProperties DEF ServiceInv, ServiceTypeOK
  <1>2. Waiting \in SUBSET (1..Len(queue)) /\ IsFiniteSet(1..Len(queue))
    BY <1>1, FS_Interval DEF Waiting
  <1> QED
    BY <1>2, FS_Subset, FS_CardinalityType

\* Posting an event adds one update if it is one, and none otherwise.
LEMMA WaitingPosted ==
  ASSUME NEW e \in Event, ServiceInv, queue' = Append(queue, e)
  PROVE  Cardinality(Waiting)' = IF e = "notify" THEN Cardinality(Waiting) + 1
                                                 ELSE Cardinality(Waiting)
  <1>1. /\ Len(queue) \in Nat /\ Len(queue') = Len(queue) + 1
        /\ \A i \in 1..Len(queue) : queue'[i] = queue[i]
        /\ queue'[Len(queue) + 1] = e
    BY AppendProperties, LenProperties DEF ServiceInv, ServiceTypeOK, Event
  <1>2. Len(queue) + 1 \notin Waiting
    BY <1>1 DEF Waiting
  <1>3. Waiting' = IF e = "notify" THEN Waiting \cup {Len(queue) + 1} ELSE Waiting
    BY <1>1 DEF Waiting
  <1> QED
    BY <1>2, <1>3, WaitingFinite, FS_AddElement

\* Taking one leaves one less if it is one, and as many otherwise.
LEMMA WaitingTaken ==
  ASSUME NEW e, ServiceInv, Takes(e)
  PROVE  Cardinality(Waiting)' = IF e = "notify" THEN Cardinality(Waiting) - 1
                                                 ELSE Cardinality(Waiting)
  <1>1. /\ Len(queue) \in Nat /\ Len(queue') = Len(queue) - 1 /\ Len(queue) > 0
        /\ queue[1] = e
        /\ \A i \in 1..Len(queue') : queue'[i] = queue[i + 1]
    BY Taking, LenProperties DEF ServiceInv, ServiceTypeOK, Event
  <1>2. 1 \in Waiting <=> e = "notify"
    BY <1>1 DEF Waiting
  <1>3. IsFiniteSet(Waiting \ {1}) /\
        Cardinality(Waiting \ {1}) = IF e = "notify" THEN Cardinality(Waiting) - 1
                                                     ELSE Cardinality(Waiting)
    BY <1>2, WaitingFinite, FS_RemoveElement
  <1> DEFINE f == [i \in Waiting \ {1} |-> i - 1]
  <1>4. \A i \in Waiting \ {1} : i \in Int /\ i - 1 \in Waiting'
    BY <1>1 DEF Waiting
  <1>5. \A j \in Waiting' : j \in Int /\ j + 1 \in Waiting \ {1}
    BY <1>1 DEF Waiting
  <1>6. f \in Bijection(Waiting \ {1}, Waiting')
    <2>1. f \in [Waiting \ {1} -> Waiting']
      BY <1>4
    <2>2. \A i, j \in Waiting \ {1} : f[i] = f[j] => i = j
      BY <1>4
    <2>3. \A j \in Waiting' : \E i \in Waiting \ {1} : f[i] = j
      BY <1>5
    <2> QED
      BY <2>1, <2>2, <2>3 DEF Bijection, Injection, Surjection, IsInjective
  <1>7. ExistsBijection(Waiting \ {1}, Waiting')
    BY <1>6 DEF ExistsBijection
  <1>8. Cardinality(Waiting') = Cardinality(Waiting \ {1})
    BY <1>3, <1>7, FS_Bijection
  <1> QED
    BY <1>3, <1>8

\* A queue without updates.
LEMMA NoneWaits ==
  ASSUME ServiceInv, \A i \in 1..Len(queue) : queue[i] # "notify"
  PROVE  Cardinality(Waiting) = 0
  <1>1. Waiting = {}
    BY DEF Waiting
  <1> QED
    BY <1>1, FS_EmptySet

\* Each step of the service is one of UpdateQueue, or none of its business.
UpdateStep == Updates!Next \/ (running' = running /\ Cardinality(Waiting)' = Cardinality(Waiting))

LEMMA QueueStep ==
  ASSUME ServiceInv, ServiceInv', [ServiceNext]_service
  PROVE  UpdateStep
  <1>0. /\ ServiceTypeOK /\ Queue /\ Threads /\ NotifiedOnce /\ queue \in Seq(Event)
        /\ Cardinality(Waiting) \in Nat
    BY WaitingFinite DEF ServiceInv, ServiceTypeOK, Event
  <1>1. ASSUME UNCHANGED <<queue, running>> PROVE UpdateStep
    BY <1>1 DEF UpdateStep, Waiting
  <1>2. CASE Toggle \/ Answer \/ Stopped \/ Exit \/ UNCHANGED service
    BY <1>1, <1>2 DEF Toggle, Answer, Stopped, Exit, service
  <1>3. CASE Start
    <2>1. CASE running
      BY <1>1, <1>3, <2>1 DEF Start
    <2>2. CASE ~running
      BY <1>3, <2>2, WaitingPosted DEF Start, Event, UpdateStep
    <2> QED
      BY <2>1, <2>2
  <1>4. CASE Stop
    BY <1>4, WaitingPosted DEF Stop, Event, UpdateStep
  <1>5. CASE Draw
    <2>1. running /\ subs = 1
      BY <1>0, <1>5 DEF Draw, NotifiedOnce, Threads
    <2>2. [i \in 1..subs |-> "notify"] = <<"notify">>
      BY <2>1
    <2>3. queue' = Append(queue, "notify")
      BY <1>0, <1>5, <2>2, AppendIsConcat DEF Draw, Event
    <2>4. Cardinality(Waiting)' = Cardinality(Waiting) + 1
      BY <2>3, WaitingPosted DEF Event
    <2> QED
      BY <1>5, <2>1, <2>4 DEF Draw, UpdateStep, Updates!Next, Updates!Draw
  <1>6. CASE DoStart
    <2>1. Cardinality(Waiting)' = Cardinality(Waiting)
      BY <1>6, WaitingTaken DEF DoStart
    <2>2. CASE running' = running
      BY <2>1, <2>2 DEF UpdateStep
    <2>3. CASE running' # running
      <3>1. ~running /\ running' = TRUE
        BY <1>0, <1>6, <2>3 DEF DoStart, ServiceTypeOK, Threads
      <3>2. Cardinality(Waiting) = 0
        BY <1>0, <3>1, NoneWaits DEF Queue
      <3> QED
        BY <2>1, <3>1, <3>2 DEF UpdateStep, Updates!Next, Updates!Start
    <2> QED
      BY <2>2, <2>3
  <1>7. CASE DoStop
    <2>1. Cardinality(Waiting)' = Cardinality(Waiting)
      BY <1>7, WaitingTaken DEF DoStop
    <2>2. /\ Len(queue) > 0 /\ queue[1] = "stop"
      BY <1>0, <1>7, Taking DEF DoStop
    <2>3. Len(queue) \in Nat /\ 1 \in 1..Len(queue)
      BY <1>0, <2>2, LenProperties
    <2>4. Len(queue) = 1 /\ cp = "stopping"
      BY <1>0, <2>2, <2>3 DEF Queue
    <2>5. running
      BY <1>0, <2>4 DEF Threads
    <2>6. \A i \in 1..Len(queue) : queue[i] # "notify"
      BY <2>2, <2>4
    <2>7. Cardinality(Waiting) = 0
      BY <2>6, NoneWaits
    <2> QED
      BY <1>7, <2>1, <2>5, <2>7 DEF DoStop, UpdateStep, Updates!Next, Updates!Stop
  <1>8. CASE DoNotify
    <2>1. Cardinality(Waiting)' = Cardinality(Waiting) - 1 /\ running' = running
      BY <1>8, WaitingTaken DEF DoNotify
    <2>2. /\ Len(queue) > 0 /\ queue[1] = "notify"
      BY <1>0, <1>8, Taking DEF DoNotify
    <2>3. Len(queue) \in Nat /\ 1 \in 1..Len(queue)
      BY <1>0, <2>2, LenProperties
    <2>4. running
      BY <1>0, <2>2, <2>3 DEF Queue
    <2>5. 1 \in Waiting
      BY <2>2, <2>3 DEF Waiting
    <2>6. Cardinality(Waiting) > 0
      BY <1>0, <2>5, WaitingFinite, FS_EmptySet
    <2> QED
      BY <2>1, <2>4, <2>6 DEF UpdateStep, Updates!Next, Updates!Handle
  <1> QED
    BY <1>2, <1>3, <1>4, <1>5, <1>6, <1>7, <1>8
       DEF ServiceNext, CompositorThread, MrdpThread

------------------------------------------------------------------------------
(* The stop that blocks the compositor thread.                              *)

LEMMA StopStep ==
  ASSUME ServiceInv, ServiceInv', StopIsAhead, [ServiceNext]_service
  PROVE  StopIsAhead'
  <1>0. /\ queue \in Seq(Event) /\ Len(queue) \in Nat /\ queue' \in Seq(Event)
        /\ Queue /\ Threads
    BY LenProperties DEF ServiceInv, ServiceTypeOK, Event
  <1>1. cp' = "stopping" => alive'
    BY DEF ServiceInv, Threads
  <1>2. ASSUME UNCHANGED <<queue, cp>> PROVE StopIsAhead'
    BY <1>1, <1>2 DEF StopIsAhead
  <1>3. ASSUME cp' # "stopping" PROVE StopIsAhead'
    BY <1>3 DEF StopIsAhead
  <1>4. CASE Toggle \/ Answer \/ UNCHANGED service
    BY <1>2, <1>4 DEF Toggle, Answer, service
  <1>5. CASE Start \/ Stopped \/ Draw \/ Exit \/ DoStop
    BY <1>3, <1>5 DEF Start, Stopped, Draw, Exit, DoStop
  <1>6. CASE Stop
    <2>1. Len(queue') = Len(queue) + 1 /\ queue'[Len(queue) + 1] = "stop"
      BY <1>0, <1>6, AppendProperties DEF Stop, Event
    <2>2. queue' # <<>>
      BY <1>0, <2>1, EmptySeq
    <2> QED
      BY <1>1, <2>1, <2>2 DEF StopIsAhead
  <1>7. ASSUME NEW e, Takes(e), e # "stop", cp' = cp PROVE StopIsAhead'
    <2>1. /\ Len(queue') = Len(queue) - 1 /\ Len(queue) > 0 /\ queue[1] = e
          /\ \A i \in 1..Len(queue') : queue'[i] = queue[i + 1]
      BY <1>0, <1>7, Taking
    <2>2. CASE cp = "stopping"
      <3>1. queue[Len(queue)] = "stop"
        BY <2>2 DEF StopIsAhead
      <3>2. Len(queue) > 1
        BY <1>0, <1>7, <2>1, <3>1
      <3>3. queue' # <<>> /\ queue'[Len(queue')] = "stop"
        BY <1>0, <2>1, <3>1, <3>2, EmptySeq
      <3> QED
        BY <1>1, <3>3 DEF StopIsAhead
    <2>3. CASE cp # "stopping"
      BY <1>3, <1>7, <2>3
    <2> QED
      BY <2>2, <2>3
  <1>8. CASE DoStart \/ DoNotify
    BY <1>7, <1>8 DEF DoStart, DoNotify
  <1> QED
    BY <1>4, <1>5, <1>6, <1>8 DEF ServiceNext, CompositorThread, MrdpThread

------------------------------------------------------------------------------
(* The connections.                                                         *)

LinkTypeOK ==
  /\ stub \in [Viewer -> {"none", "waiting", "live", "closing", "stuck"}]
  /\ sock \in [Viewer -> {"unconnected", "connecting", "connected", "stalled", "closing"}]
  /\ slots \in [Viewer -> Nat] /\ pending \in [Viewer -> BOOLEAN]
  /\ proxies \in [Viewer -> Nat] /\ proxy \in [Viewer -> BOOLEAN]
  /\ shown \in [Viewer -> BOOLEAN] /\ again \in [Viewer -> BOOLEAN]

Linked == {"connected", "stalled", "closing"}

\* A socket in use has its slots, one that is linked has a parser; and there is
\* one of each, where the user has not asked again.
Slots ==
  \A v \in Viewer :
    /\ sock[v] # "unconnected" => slots[v] > 0
    /\ sock[v] \in Linked => proxies[v] > 0
    /\ again[v] \/ (slots[v] <= 1 /\ proxies[v] = IF proxy[v] THEN 1 ELSE 0)

LinkInv == ServiceInv /\ LinkTypeOK /\ StopHangsUp /\ ButtonTells /\ Slots

\* What a step of one viewer has to preserve, and what it leaves to the others.
Own(v) ==
  /\ stub[v] \in {"none", "waiting", "live", "closing", "stuck"}
  /\ sock[v] \in {"unconnected", "connecting", "connected", "stalled", "closing"}
  /\ slots[v] \in Nat /\ proxies[v] \in Nat
  /\ pending[v] \in BOOLEAN /\ proxy[v] \in BOOLEAN
  /\ shown[v] \in BOOLEAN /\ again[v] \in BOOLEAN
  /\ ~running => stub[v] \in {"none", "closing", "stuck"}
  /\ ~alive => stub[v] \in {"none", "stuck"}
  /\ proxy[v] <=> sock[v] \in Linked
  /\ shown[v] => proxy[v]
  /\ proxy[v] => shown[v] \/ sock[v] = "closing"
  /\ sock[v] # "unconnected" => slots[v] > 0
  /\ sock[v] \in Linked => proxies[v] > 0
  /\ again[v] \/ (slots[v] <= 1 /\ proxies[v] = IF proxy[v] THEN 1 ELSE 0)

AllOwn == ServiceInv /\ \A v \in Viewer : Own(v)

Functions ==
  /\ stub = [v \in Viewer |-> stub[v]] /\ sock = [v \in Viewer |-> sock[v]]
  /\ slots = [v \in Viewer |-> slots[v]] /\ pending = [v \in Viewer |-> pending[v]]
  /\ proxies = [v \in Viewer |-> proxies[v]] /\ proxy = [v \in Viewer |-> proxy[v]]
  /\ shown = [v \in Viewer |-> shown[v]] /\ again = [v \in Viewer |-> again[v]]

LEMMA InvIsOwn == LinkInv => AllOwn /\ Functions
  BY DEF LinkInv, AllOwn, Functions, Own, LinkTypeOK, StopHangsUp, ButtonTells, Slots, Linked

LEMMA OwnIsInv == AllOwn /\ Functions => LinkInv
  <1> SUFFICES ASSUME AllOwn, Functions PROVE LinkInv
    OBVIOUS
  <1>1. ServiceInv /\ \A v \in Viewer : Own(v)
    BY DEF AllOwn
  <1>2. LinkTypeOK
    BY <1>1 DEF Functions, Own, LinkTypeOK
  <1>3. StopHangsUp /\ ButtonTells /\ Slots
    BY <1>1 DEF Own, StopHangsUp, ButtonTells, Slots, Linked
  <1> QED
    BY <1>1, <1>2, <1>3 DEF LinkInv

LEMMA LinkInitInv == Init => LinkInv
  BY ServiceInitInv
     DEF Init, ServiceInit, LinkInv, LinkTypeOK, StopHangsUp, ButtonTells, Slots, Linked

\* Steps of the service.
LEMMA ServeStep ==
  ASSUME LinkInv, Serve
  PROVE  LinkInv'
  <1>1. ServiceInv'
    BY ServiceStep DEF Serve, LinkInv
  <1>2. (running <=> listening) /\ (running' <=> listening')
    BY <1>1 DEF LinkInv, ServiceInv, Threads
  <1>a. /\ LinkTypeOK /\ StopHangsUp /\ StubsGo
        /\ (running => alive) /\ (running' => alive')
    BY <1>1 DEF Serve, LinkInv, ServiceInv, Threads
  <1>b. listening /\ ~listening' => alive'
    BY <1>2, <1>a DEF Serve, ServiceNext, Toggle, CompositorThread, Answer, Start, Stop, Stopped,
         Draw, MrdpThread, DoStart, DoStop, DoNotify, Exit
  <1>3. stub' \in [Viewer -> {"none", "waiting", "live", "closing", "stuck"}]
    BY <1>a DEF StubsGo, Left, LinkTypeOK
  <1>4. StopHangsUp'
    <2> SUFFICES ASSUME NEW v \in Viewer
                 PROVE  /\ ~running' => stub'[v] \in {"none", "closing", "stuck"}
                        /\ ~alive' => stub'[v] \in {"none", "stuck"}
      BY DEF StopHangsUp
    <2>1. CASE listening /\ ~listening'
      <3>1. PICK rest \in SUBSET {u \in Viewer : stub[u] = "live"} :
              stub' = [u \in Viewer |-> IF u \in rest THEN "closing"
                                        ELSE IF stub[u] \in {"waiting", "live"} THEN "none"
                                        ELSE stub[u]]
        BY <1>a, <2>1 DEF StubsGo
      <3>2. stub'[v] \in {"none", "closing", "stuck"}
        BY <1>a, <3>1 DEF LinkTypeOK
      <3> QED
        BY <1>b, <2>1, <3>2
    <2>2. CASE ~(listening /\ ~listening')
      <3>1. stub'[v] = IF stub[v] = "closing" /\ ~alive' THEN "stuck" ELSE stub[v]
        BY <1>a, <2>2 DEF StubsGo, Left
      <3>2. ~running' => stub[v] \in {"none", "closing", "stuck"}
        BY <1>2, <1>a, <2>2 DEF StopHangsUp
      <3> QED
        BY <1>a, <3>1, <3>2
    <2> QED
      BY <2>1, <2>2
  <1>5. UNCHANGED <<sock, slots, pending, proxies, proxy, shown, again>>
    BY DEF Serve
  <1>6. LinkTypeOK'
    BY <1>3, <1>5 DEF LinkInv, LinkTypeOK
  <1>7. ButtonTells' /\ Slots'
    BY <1>5 DEF LinkInv, ButtonTells, Slots
  <1> QED
    BY <1>1, <1>4, <1>6, <1>7 DEF LinkInv

\* A step that concerns one viewer only.
Apart(v) ==
  \A u \in Viewer \ {v} :
    /\ stub'[u] = stub[u] /\ sock'[u] = sock[u] /\ slots'[u] = slots[u]
    /\ pending'[u] = pending[u] /\ proxies'[u] = proxies[u] /\ proxy'[u] = proxy[u]
    /\ shown'[u] = shown[u] /\ again'[u] = again[u]

LEMMA OneViewer ==
  ASSUME NEW v \in Viewer, LinkInv, UNCHANGED service, Functions', Apart(v), Own(v)'
  PROVE  LinkInv'
  <1>1. ServiceInv'
    BY DEF LinkInv, ServiceInv, ServiceTypeOK, Queue, Threads, NotifiedOnce, service
  <1>2. running' = running /\ alive' = alive
    BY DEF service
  <1>3. ASSUME NEW u \in Viewer
        PROVE  Own(u)'
    <2>1. CASE u = v
      BY <2>1
    <2>2. CASE u # v
      <3>1. Own(u)
        BY InvIsOwn DEF AllOwn
      <3> QED
        BY <1>2, <2>2, <3>1 DEF Own, Apart
    <2> QED
      BY <2>1, <2>2
  <1> QED
    BY <1>1, <1>3, OwnIsInv DEF AllOwn, Functions, Own, LinkInv, LinkTypeOK, StopHangsUp, ButtonTells, Slots, Linked

\* A disconnection, which leaves one of n parsers less.
LEMMA Disconnecting ==
  ASSUME NEW v \in Viewer, NEW n \in Nat, LinkInv, Disconnected(v, n),
         pending' = pending, again' = again, running' = running, alive' = alive,
         n > 0, again[v] \/ n = 1,
         stub' = stub \/ (running /\ stub' = [stub EXCEPT ![v] = "waiting"])
  PROVE  Functions' /\ Apart(v) /\ Own(v)'
  <1>1. Own(v) /\ LinkTypeOK
    BY InvIsOwn DEF AllOwn, LinkInv
  <1>2. /\ sock'[v] = "unconnected" /\ slots'[v] = 0 /\ proxies'[v] = n - 1
        /\ ~proxy'[v] /\ ~shown'[v]
    BY <1>1 DEF Disconnected, LinkTypeOK
  <1>b. running => alive
    BY DEF LinkInv, ServiceInv, Threads
  <1>3. /\ stub'[v] \in {"none", "waiting", "live", "closing", "stuck"}
        /\ ~running' => stub'[v] \in {"none", "closing", "stuck"}
        /\ ~alive' => stub'[v] \in {"none", "stuck"}
    BY <1>1, <1>b DEF LinkTypeOK, Own
  <1>4. n - 1 \in Nat /\ (again[v] \/ n - 1 = 0)
    OBVIOUS
  <1>5. /\ pending'[v] \in BOOLEAN /\ again'[v] \in BOOLEAN
        /\ proxy'[v] \in BOOLEAN /\ shown'[v] \in BOOLEAN
    BY <1>1 DEF Own, LinkTypeOK, Disconnected
  <1>6. again'[v] \/ (slots'[v] <= 1 /\ proxies'[v] = IF proxy'[v] THEN 1 ELSE 0)
    BY <1>2, <1>4
  <1>a. /\ sock'[v] \notin Linked /\ slots'[v] \in Nat /\ proxies'[v] \in Nat
        /\ proxy'[v] <=> sock'[v] \in Linked
    BY <1>2, <1>4 DEF Linked
  <1>7. Own(v)'
    BY <1>2, <1>3, <1>5, <1>6, <1>a DEF Own
  <1>8. Functions'
    BY <1>1 DEF Functions, Disconnected, LinkTypeOK
  <1>9. Apart(v)
    BY <1>1 DEF Apart, Disconnected, LinkTypeOK
  <1> QED
    BY <1>7, <1>8, <1>9

\* Each step of a viewer, and of the stub that serves it.
LEMMA ViewerKeeps ==
  ASSUME NEW v \in Viewer, LinkInv,
         Accept(v) \/ DropStub(v) \/ Flushed(v) \/ ViewerStep(v)
  PROVE  LinkInv'
  <1>1. Own(v) /\ Functions /\ ServiceInv /\ LinkTypeOK
    BY InvIsOwn DEF AllOwn, LinkInv
  <1>2. (running <=> listening) /\ (running => alive)
    BY <1>1 DEF ServiceInv, Threads
  <1>3. UNCHANGED service
    BY DEF Accept, DropStub, Flushed, ViewerStep, Connect, Established, Refused, Disconnect,
           ParseError, Stall, Hangup
  <1>4. running' = running /\ alive' = alive
    BY <1>3 DEF service
  <1> SUFFICES Functions' /\ Apart(v) /\ Own(v)'
    BY <1>3, OneViewer
  <1>5. CASE Accept(v)
    BY <1>1, <1>2, <1>4, <1>5 DEF Accept, Functions, Apart, Own, LinkTypeOK
  <1>6. CASE DropStub(v)
    <2>1. PICK s \in {"none", "closing"} : stub' = [stub EXCEPT ![v] = s]
      BY <1>6 DEF DropStub
    <2> QED
      BY <1>1, <1>4, <1>6, <2>1 DEF DropStub, Functions, Apart, Own, LinkTypeOK
  <1>f. CASE Flushed(v)
    BY <1>1, <1>4, <1>f DEF Flushed, Functions, Apart, Own, LinkTypeOK
  <1>7. CASE Connect(v)
    <2>1. /\ slots'[v] = slots[v] + 1 /\ (again'[v] <=> again[v] \/ slots[v] > 0)
          /\ \/ sock[v] \in {"unconnected", "connecting"} /\ sock'[v] = "connecting"
             \/ sock[v] = "closing" /\ sock'[v] = "closing"
          /\ pending'[v] \in BOOLEAN /\ ~shown[v]
      BY <1>1, <1>7 DEF Connect, LinkTypeOK, Own
    <2>2. UNCHANGED <<stub, proxies, proxy, shown>>
      BY <1>7 DEF Connect
    <2>3. again'[v] \/ (slots'[v] <= 1 /\ proxies'[v] = IF proxy'[v] THEN 1 ELSE 0)
      <3>1. CASE again[v] \/ slots[v] > 0
        BY <2>1, <3>1
      <3>2. CASE ~again[v] /\ slots[v] = 0
        <4>1. slots'[v] = 1
          BY <2>1, <3>2
        <4>2. proxies'[v] = IF proxy'[v] THEN 1 ELSE 0
          BY <1>1, <2>2, <3>2 DEF Own
        <4> QED
          BY <4>1, <4>2
      <3> QED
        BY <1>1, <3>1, <3>2 DEF Own
    <2>4. slots'[v] \in Nat /\ slots'[v] > 0
      BY <1>1, <2>1 DEF Own
    <2>7. again'[v] \in BOOLEAN
      BY <1>1, <1>7 DEF Connect, LinkTypeOK
    <2>5. Own(v)'
      BY <1>1, <1>4, <2>1, <2>2, <2>3, <2>4, <2>7 DEF Own, Linked
    <2>6. Functions' /\ Apart(v)
      BY <1>1, <1>7 DEF Connect, Functions, Apart, LinkTypeOK
    <2> QED
      BY <2>5, <2>6
  <1>8. CASE Established(v)
    <2>1. CASE pending[v]
      <3>1. PICK n : n = proxies[v] + slots[v]
        OBVIOUS
      <3>2. n \in Nat /\ n > 0 /\ (again[v] \/ n = 1)
        BY <1>1, <1>8, <3>1 DEF Established, Own, Linked
      <3>3. Disconnected(v, n) /\ pending' = pending /\ again' = again
        BY <1>8, <2>1, <3>1 DEF Established
      <3>4. running /\ stub' = [stub EXCEPT ![v] = "waiting"]
        BY <1>2, <1>8 DEF Established
      <3> QED
        BY <1>4, <3>2, <3>3, <3>4, Disconnecting
    <2>2. CASE ~pending[v]
      BY <1>1, <1>2, <1>4, <1>8, <2>2
         DEF Established, Functions, Apart, Own, LinkTypeOK, Linked
    <2> QED
      BY <2>1, <2>2
  <1>9. CASE Refused(v)
    BY <1>1, <1>4, <1>9 DEF Refused, Functions, Apart, Own, LinkTypeOK, Linked
  <1>p. CASE ParseError(v)
    <2>1. CASE Disconnected(v, proxies[v])
      <3>1. PICK n : n = proxies[v]
        OBVIOUS
      <3>2. n \in Nat /\ n > 0 /\ (again[v] \/ n = 1)
        BY <1>1, <1>p, <3>1 DEF ParseError, Own, Linked
      <3>3. Disconnected(v, n) /\ pending' = pending /\ again' = again /\ stub' = stub
        BY <1>p, <2>1, <3>1 DEF ParseError
      <3> QED
        BY <1>4, <3>2, <3>3, Disconnecting
    <2>2. CASE /\ sock' = [sock EXCEPT ![v] = "closing"] /\ shown' = [shown EXCEPT ![v] = FALSE]
               /\ UNCHANGED <<slots, proxies, proxy>>
      BY <1>1, <1>4, <1>p, <2>2 DEF ParseError, Functions, Apart, Own, LinkTypeOK, Linked
    <2> QED
      BY <1>p, <2>1, <2>2 DEF ParseError
  <1>s. CASE Stall(v)
    BY <1>1, <1>4, <1>s DEF Stall, Functions, Apart, Own, LinkTypeOK, Linked
  <1>10. CASE Disconnect(v)
    <2>1. CASE Disconnected(v, proxies[v])
      <3>1. PICK n : n = proxies[v]
        OBVIOUS
      <3>2. n \in Nat /\ n > 0 /\ (again[v] \/ n = 1)
        BY <1>1, <1>10, <3>1 DEF Disconnect, Own, Linked
      <3>3. Disconnected(v, n) /\ pending' = pending /\ again' = again /\ stub' = stub
        BY <1>10, <2>1, <3>1 DEF Disconnect
      <3> QED
        BY <1>4, <3>2, <3>3, Disconnecting
    <2>2. CASE sock' = [sock EXCEPT ![v] = "closing"] /\ UNCHANGED <<slots, proxies, proxy, shown>>
      BY <1>1, <1>4, <1>10, <2>2 DEF Disconnect, Functions, Apart, Own, LinkTypeOK, Linked
    <2> QED
      BY <1>10, <2>1, <2>2 DEF Disconnect
  <1>11. CASE Hangup(v)
    <2>1. PICK n : n = proxies[v]
      OBVIOUS
    <2>2. n \in Nat /\ n > 0 /\ (again[v] \/ n = 1)
      BY <1>1, <1>11, <2>1 DEF Hangup, Own, Linked
    <2>3. Disconnected(v, n) /\ pending' = pending /\ again' = again /\ stub' = stub
      BY <1>11, <2>1 DEF Hangup
    <2> QED
      BY <1>4, <2>2, <2>3, Disconnecting
  <1> QED
    BY <1>5, <1>6, <1>f, <1>7, <1>8, <1>9, <1>p, <1>s, <1>10, <1>11 DEF ViewerStep

LEMMA LinkStep == LinkInv /\ [Next]_vars => LinkInv'
  <1> SUFFICES ASSUME LinkInv, [Next]_vars PROVE LinkInv'
    OBVIOUS
  <1>1. CASE UNCHANGED vars
    <2>1. UNCHANGED service /\ UNCHANGED link
      BY <1>1 DEF vars
    <2>2. ServiceInv'
      BY <2>1, ServiceStep DEF LinkInv
    <2>3. running' = running /\ alive' = alive
      BY <2>1 DEF service
    <2> QED
      BY <2>1, <2>2, <2>3 DEF link, LinkInv, LinkTypeOK, StopHangsUp, ButtonTells, Slots
  <1>2. CASE Serve
    BY <1>2, ServeStep
  <1>3. ASSUME NEW v \in Viewer, Accept(v) \/ DropStub(v) \/ Flushed(v) \/ ViewerStep(v)
        PROVE  LinkInv'
    BY <1>3, ViewerKeeps
  <1> QED
    BY <1>1, <1>2, <1>3 DEF Next

LEMMA Invariance == Spec => []LinkInv
  <1>1. Init => LinkInv
    BY LinkInitInv
  <1> QED
    BY <1>1, LinkStep, PTL DEF Spec

------------------------------------------------------------------------------
(* The theorems.                                                            *)

\* Every variable keeps its type; in particular no proxy is deleted that is
\* not there, whatever attempts to connect precede the disconnection.
THEOREM TypeCorrect == Spec => []TypeOK
  <1>1. LinkInv => TypeOK
    BY DEF LinkInv, ServiceInv, LinkTypeOK, TypeOK
  <1> QED
    BY <1>1, Invariance, PTL

\* doNotifyScreenUpdated never runs without a compositor: the blocking stop
\* comes after all events that were posted before it.
THEOREM NeverWithoutCompositor == Spec => []NotifyFindsCompositor
  <1>1. LinkInv => NotifyFindsCompositor
    BY DEF LinkInv, ServiceInv, Queue, Threads, NotifyFindsCompositor, Has
  <1> QED
    BY <1>1, Invariance, PTL

\* The signal screenUpdated is connected exactly while the service runs, and
\* once, whatever starts are queued and fail.
THEOREM ConnectedOnce == Spec => []NotifiedOnce
  <1>1. LinkInv => NotifiedOnce
    BY DEF LinkInv, ServiceInv
  <1> QED
    BY <1>1, Invariance, PTL

\* A service that does not run serves nobody: no connection waits or has a stub,
\* and a socket that still closes does so only while the thread runs.
THEOREM NoConnectionWhenStopped == Spec => []StopHangsUp
  <1>1. LinkInv => StopHangsUp
    BY DEF LinkInv
  <1> QED
    BY <1>1, Invariance, PTL

\* The viewer's button, its proxy and its socket agree, but for a button that is
\* off before the socket has closed, after a damaged message.
THEOREM ButtonAgrees == Spec => []ButtonTells
  <1>1. LinkInv => ButtonTells
    BY DEF LinkInv
  <1> QED
    BY <1>1, Invariance, PTL

\* A viewer that never connects over a pending or failed attempt or a closing
\* connection has one parser on its socket at most.
THEOREM ParsesOnce == Spec => []OneParser
  <1>1. LinkInv => OneParser
    BY DEF LinkInv, Slots, OneParser
  <1> QED
    BY <1>1, Invariance, PTL

\* The connections add nothing to what the service's threads may do: MrdpLink
\* implements MrdpService.
THEOREM ImplementsService == Spec => ServiceSpec
  <1>1. Init => ServiceInit
    BY DEF Init
  <1>2. [Next]_vars => [ServiceNext]_service
    BY DEF Next, vars, Serve, Accept, DropStub, Flushed, ViewerStep, Connect, Established,
           Refused, Disconnect, ParseError, Stall, Hangup
  <1> QED
    BY <1>1, <1>2, PTL DEF Spec, ServiceSpec

\* While the compositor thread waits for its stop, the mrdp thread runs and has
\* it in its queue: the wait cannot be for nothing.
THEOREM NeverStuck == Spec => []StopIsAhead
  <1>1. ServiceInit => StopIsAhead
    BY DEF ServiceInit, StopIsAhead
  <1>2. LinkInv /\ LinkInv' /\ StopIsAhead /\ [ServiceNext]_service => StopIsAhead'
    BY StopStep DEF LinkInv
  <1> QED
    BY <1>1, <1>2, Invariance, ImplementsService, PTL DEF ServiceSpec

\* The service, among its starts and stops, implements UpdateQueue: what one
\* service is told of, neither a later one nor nobody handles.
THEOREM ImplementsUpdateQueue == Spec => UpdatesHandledOnce
  <1>1. ServiceInit => Updates!Init
    <2> SUFFICES ASSUME ServiceInit PROVE Updates!Init
      OBVIOUS
    <2>1. Waiting = {}
      BY EmptySeq DEF ServiceInit, Waiting
    <2> QED
      BY <2>1, FS_EmptySet DEF ServiceInit, Updates!Init
  <1>2. LinkInv /\ LinkInv' /\ [ServiceNext]_service
          => [Updates!Next]_<<running, Cardinality(Waiting)>>
    BY QueueStep DEF LinkInv, UpdateStep
  <1> QED
    BY <1>1, <1>2, Invariance, ImplementsService, PTL
       DEF ServiceSpec, UpdatesHandledOnce, Updates!Spec

===============================================================================
