------------------------------ MODULE Compositor ------------------------------
(***************************************************************************)
(* The in-process surface compositor of the mrofs_pvr2d platform plugin:   *)
(* the compositor thread (QMrOfsCompositor), the three threads that feed   *)
(* it - the UI thread through its backing store, the waveform thread       *)
(* through beginUpdateWaves/endUpdateWaves, the video thread through       *)
(* flipIView - and the remote-display thread that reads the screen.        *)
(*                                                                         *)
(* A feeder edits its layer under the layer's mutex, releases the mutex    *)
(* and then makes a blocking queued call into the compositor, which locks  *)
(* the layers of the OTHER feeders and the screen, recomposes every dirty  *)
(* tile of the screen, clears every dirty region and returns.              *)
(*                                                                         *)
(* The screen is a set of tiles; a pixel is an uninterpreted value.  The   *)
(* popups that clip the waveforms and the life cycle of the waveforms are  *)
(* not in this module: the visible part of the (one) waveform and of the   *)
(* (one) video form are the constants WaveTile and IvTile.                 *)
(***************************************************************************)
EXTENDS Naturals, Sequences

CONSTANTS
  Tile,       \* the tiles of the screen, and of the top-level window
  WaveTile,   \* the tiles the waveform is visible in
  IvTile,     \* the tiles the video form is visible in
  Pixel,      \* the values a tile of an image can have
  Blank,      \* the value of a tile of a newly allocated image
  Erased,     \* a waveform tile the backing store has been drawn over
  Off,        \* a cursor rectangle outside the window, or a null one
  Place,      \* where the pointer goes
  FlagInit,   \* the switches when the first flush is made
  Switchable  \* the switches the application still changes afterwards

Flag == {"comp", "bs", "wv", "iv", "cr"}

ASSUME CompositorAssumption ==
  /\ WaveTile \subseteq Tile
  /\ IvTile \subseteq Tile
  /\ WaveTile \cap IvTile = {}
  /\ Blank \in Pixel
  /\ Erased \notin Pixel
  /\ Off \notin Tile /\ Place \subseteq Tile \cup {Off}
  /\ FlagInit \in [Flag -> BOOLEAN]
  /\ Switchable \subseteq Flag

Feeder == {"ui", "wave", "iview"}
Lock   == {"bs", "wv", "iv", "screen"}
Layer  == {"bs", "wv", "iv"}
NoOne  == "none"

\* The layer a feeder edits: its mutex, its dirty region, its flush switch.
LayerOf == [ui |-> "bs", wave |-> "wv", iview |-> "iv"]

\* A variant with a bug the runs must detect: a composition for the waveforms
\* takes only the video form's mutex.
PrecedingNoBs ==
  [BS |-> [wv |-> {}, iv |-> {"wv"}],
   WV |-> [iv |-> {}],
   IV |-> [wv |-> {}, bs |-> {"wv"}],
   CR |-> [bs |-> {}, wv |-> {"bs"}, iv |-> {"bs", "wv"}]]

\* For each reason to composite, the mutexes composite() takes before that of
\* the screen, and for each of them the ones it has taken already.
Preceding ==
  [BS |-> [wv |-> {}, iv |-> {"wv"}],
   WV |-> [bs |-> {}, iv |-> {"bs"}],
   IV |-> [wv |-> {}, bs |-> {"wv"}],
   CR |-> [bs |-> {}, wv |-> {"bs"}, iv |-> {"bs", "wv"}]]

VARIABLES
  pc,         \* where each feeder is in its update
  posted,     \* event queue of the compositor thread: the calls waited for
  serving,    \* the call the compositor executes
  cpc,        \* where the compositor thread is
  lock,       \* owner of each mutex
  flag,       \* m_enabled and the four m_xx_flush_enabled
  shadow,     \* backing store image the UI thread paints in (m_image_shadow)
  unflushed,  \* tiles painted in it and not flushed yet
  pix,        \* backing store image the compositor reads (m_image)
  wfCpu,      \* waveform image as the waveform thread sees it
  wfMem,      \* ... and as the blitter sees it, after write back
  dirty,      \* dirty region of each layer
  region,     \* composite_region of the composition in progress
  waveClip,   \* effective_dirty of the waveform
  scrBs,      \* the backing store pixel each tile of the screen shows
  scrWv,      \* the waveform pixel blended over it
  scrCur,     \* the tiles of the screen that show the cursor
  cursor      \* QMrOfsCursor: current and last painted place, two marks

uiVars   == <<shadow, unflushed>>
pixVars  == <<pix, wfCpu, wfMem>>
scrVars  == <<scrBs, scrWv, scrCur>>
drawVars == <<region, waveClip>>
vars == <<pc, posted, serving, cpc, lock, flag, uiVars, pixVars, dirty,
          drawVars, scrVars, cursor>>

Position == Tile \cup {Off}

\* A blocking call: the thread that waits for it, the compositor's method it
\* invokes, and the cursor position or the switch it passes.
Call ==
  [from : Feeder, req : {"flush"}, arg : {Off}]
    \cup [from : {"ui"}, req : {"pointer"}, arg : Position]
    \cup [from : {"ui"}, req : {"resize"}, arg : {Off}]
    \cup [from : {"ui"}, req : {"enable", "disable"}, arg : Switchable]
NoCall == [from |-> NoOne, req |-> "none", arg |-> Off]
Invoke(t, r, a) == posted' = Append(posted, [from |-> t, req |-> r, arg |-> a])

\* f with every argument in S mapped to its image by g
Overlay(f, S, g) == [t \in DOMAIN f |-> IF t \in S THEN g[t] ELSE f[t]]
\* f with every argument in S mapped to v
Paint(f, S, v) == [t \in DOMAIN f |-> IF t \in S THEN v ELSE f[t]]

Goto(t, from, to) == pc[t] = from /\ pc' = [pc EXCEPT ![t] = to]

------------------------------------------------------------------------------
(* Constructors.  The cursor marks mDirty and mOnScreen have no initializer *)
(* in QMrOfsCursor's constructor: any value can be found in them.           *)

Init ==
  /\ pc = [t \in Feeder |-> "idle"]
  /\ posted = <<>> /\ serving = NoCall /\ cpc = "loop"
  /\ lock = [l \in Lock |-> NoOne]
  /\ flag = FlagInit
  /\ shadow = [t \in Tile |-> Blank] /\ unflushed = {}
  /\ pix = [t \in Tile |-> Blank]
  /\ wfCpu = [t \in WaveTile |-> Blank]
  /\ wfMem = [t \in WaveTile |-> Blank]
  /\ dirty = [l \in Layer |-> {}]
  /\ region = {} /\ waveClip = {}
  /\ scrBs = [t \in Tile |-> Blank]
  /\ scrWv = [t \in WaveTile |-> Blank]
  /\ scrCur = {}
  /\ \E d, o \in BOOLEAN :
       cursor = [cur |-> Off, prev |-> Off, dirty |-> d, on |-> o]

------------------------------------------------------------------------------
(* The feeders.                                                             *)

\* A feeder starts an update - flush(), beginUpdateWaves(), flipIView() - and
\* gets the mutex of its layer.  A flush of an empty region returns at once.
Acquire(t) ==
  /\ t = "ui" => unflushed # {}
  /\ lock[LayerOf[t]] = NoOne
  /\ lock' = [lock EXCEPT ![LayerOf[t]] = t]
  /\ Goto(t, "idle", "edit")
  /\ UNCHANGED <<posted, serving, cpc, flag, uiVars, pixVars, dirty,
                 drawVars, scrVars, cursor>>

\* A variant with a bug: the mutex is still held while the thread waits for
\* the compositor.
UnlockForgotten(t) ==
  /\ Goto(t, "edit", "unlocked")
  /\ lock' = lock

\* It leaves the critical section ...
Unlock(t) ==
  /\ Goto(t, "edit", "unlocked")
  /\ lock' = [lock EXCEPT ![LayerOf[t]] = NoOne]

\* ... and only then makes the blocking call flushBackingStore2, flushWaves
\* or flushIView.
Post(t) ==
  /\ Goto(t, "unlocked", "wait")
  /\ Invoke(t, "flush", Off)
  /\ UNCHANGED <<serving, cpc, lock, flag, uiVars, pixVars, dirty, drawVars,
                 scrVars, cursor>>

\* Widgets paint in the shadow image, without a lock.
UiPaint(S, v) ==
  /\ pc["ui"] = "idle"
  /\ shadow' = Paint(shadow, S, v)
  /\ unflushed' = unflushed \cup S
  /\ UNCHANGED <<pc, posted, serving, cpc, lock, flag, pixVars, dirty, drawVars,
                 scrVars, cursor>>

\* flush(): the flushed tiles are blitted to the image the compositor reads
\* and BECOME the dirty region; a region left from an earlier flush is lost.
UiBlit ==
  /\ Unlock("ui")
  /\ pix' = Overlay(pix, unflushed, shadow)
  /\ dirty' = [dirty EXCEPT !["bs"] = unflushed]
  /\ unflushed' = {}
  /\ UNCHANGED <<posted, serving, cpc, flag, shadow,
                 wfCpu, wfMem, drawVars, scrVars, cursor>>

\* A variant with a bug: the new region replaces the one marked before.
WaveDrawReplaces(S, v) ==
  /\ pc["wave"] = "edit"
  /\ wfCpu' = Paint(wfCpu, S, v)
  /\ dirty' = [dirty EXCEPT !["wv"] = S]
  /\ UNCHANGED <<pc, uiVars, posted, serving, cpc, lock, flag, pix, wfMem,
                 drawVars, scrVars, cursor>>

\* Between begin- and endUpdateWaves the application draws a piece of the
\* waveform and adds it to the waveform's dirty region.
WaveDraw(S, v) ==
  /\ pc["wave"] = "edit"
  /\ wfCpu' = Paint(wfCpu, S, v)
  /\ dirty' = [dirty EXCEPT !["wv"] = @ \cup S]
  /\ UNCHANGED <<pc, uiVars, posted, serving, cpc, lock, flag, pix, wfMem,
                 drawVars, scrVars, cursor>>

\* endUpdateWaves() writes the dirty tiles back to memory before it unlocks.
WaveSubmit ==
  /\ Unlock("wave")
  /\ wfMem' = Overlay(wfMem, dirty["wv"], wfCpu)
  /\ UNCHANGED <<uiVars, posted, serving, cpc, flag, pix, wfCpu, dirty,
                 drawVars, scrVars, cursor>>

\* flipIView() adds its region; the plugin does not draw the video itself.
IvMark(S) ==
  /\ Unlock("iview")
  /\ dirty' = [dirty EXCEPT !["iv"] = @ \cup S]
  /\ UNCHANGED <<uiVars, posted, serving, cpc, flag, pixVars,
                 drawVars, scrVars, cursor>>

\* The other blocking calls of the UI thread: the pointer moves or changes
\* its shape (then it stays where it is), the backing store is resized, the
\* application turns a switch.
UiCall(r, a) ==
  /\ Goto("ui", "idle", "wait")
  /\ Invoke("ui", r, a)
  /\ UNCHANGED <<serving, cpc, lock, flag, uiVars, pixVars, dirty, drawVars,
                 scrVars, cursor>>

------------------------------------------------------------------------------
(* The compositor thread: the calls it takes from its event queue.          *)

\* Why the call being served composites.
Reason ==
  CASE serving.from = "wave"  -> "WV"
    [] serving.from = "iview" -> "IV"
    [] OTHER -> IF serving.req = "flush" THEN "BS" ELSE "CR"

\* The next event of the queue, when it is a call of one of these methods.
Take(reqs) ==
  /\ cpc = "loop" /\ posted # <<>>
  /\ Head(posted).req \in reqs
  /\ serving' = Head(posted)
  /\ posted' = Tail(posted)

\* flushBackingStore2, flushWaves, flushIView: composite() does nothing when
\* the switch of the layer, or that of the whole compositor, is off.
CompFlush ==
  /\ Take({"flush"})
  /\ cpc' = IF flag[LayerOf[Head(posted).from]] /\ flag["comp"]
              THEN "lock" ELSE "reply"
  /\ UNCHANGED <<pc, lock, flag, uiVars, pixVars, dirty, drawVars, scrVars,
                 cursor>>

\* pointerEvent2, changeCursor2: the cursor takes its new place; setDirty()
\* asks for a composition only when the mark was not set before.
CompPointer ==
  LET place == Head(posted).arg
      seen  == cursor.on \/ place \in Tile
  IN /\ Take({"pointer"})
     /\ cursor' = [cursor EXCEPT !.cur = place, !.dirty = @ \/ seen]
     /\ cpc' = IF seen /\ ~cursor.dirty /\ flag["cr"] /\ flag["comp"]
                 THEN "lock" ELSE "reply"
     /\ UNCHANGED <<pc, lock, flag, uiVars, pixVars, dirty, drawVars, scrVars>>

\* resizeBackingStore2: both images are replaced; the widgets will paint and
\* flush every tile of the new ones.
CompResize ==
  /\ Take({"resize"})
  /\ pix' = [t \in Tile |-> Blank]
  /\ shadow' = [t \in Tile |-> Blank]
  /\ unflushed' = Tile
  /\ cpc' = "reply"
  /\ UNCHANGED <<pc, lock, flag, wfCpu, wfMem, dirty, drawVars, scrVars, cursor>>

\* enableComposition, enableBSFlushing, enableWVFlushing, ...
CompSwitch ==
  /\ Take({"enable", "disable"})
  /\ flag' = [flag EXCEPT ![Head(posted).arg] = (Head(posted).req = "enable")]
  /\ cpc' = "reply"
  /\ UNCHANGED <<pc, lock, uiVars, pixVars, dirty, drawVars, scrVars, cursor>>

------------------------------------------------------------------------------
(* composite().                                                             *)

\* The mutexes of the layers whose feeder is not the one that waits ...
CompAcquire(l) ==
  /\ cpc = "lock"
  /\ l \in DOMAIN Preceding[Reason]
  /\ \A k \in Preceding[Reason][l] : lock[k] = "comp"
  /\ lock[l] = NoOne
  /\ lock' = [lock EXCEPT ![l] = "comp"]
  /\ UNCHANGED <<pc, posted, serving, cpc, flag, uiVars, pixVars, dirty,
                 drawVars, scrVars, cursor>>

\* ... and that of the screen.
CompAcquireScreen ==
  /\ cpc = "lock"
  /\ \A l \in DOMAIN Preceding[Reason] : lock[l] = "comp"
  /\ lock["screen"] = NoOne
  /\ lock' = [lock EXCEPT !["screen"] = "comp"]
  /\ cpc' = "drawBS"
  /\ UNCHANGED <<pc, posted, serving, flag, uiVars, pixVars, dirty, drawVars,
                 scrVars, cursor>>

\* Two variants with a bug: the place is not clipped to the window, and the
\* cursor is not wiped off.
OldCursorUnclipped == IF cursor.dirty /\ cursor.on THEN {cursor.prev} ELSE {}
OldCursorForgotten == {}

\* Where the cursor has to be wiped off: taken, and its mark dropped, when
\* it has moved since it was painted.
OldCursor == IF cursor.dirty /\ cursor.on THEN {cursor.prev} \cap Tile ELSE {}

\* A variant with a bug: what is redrawn under the waveform is not counted.
WaveClipOwn == (dirty["wv"] \cup OldCursor) \cap WaveTile

\* Where the waveform and the video form have to be drawn again: where they
\* are dirty themselves and where the backing store or the cursor is.
WaveClip == (dirty["wv"] \cup dirty["bs"] \cup OldCursor) \cap WaveTile
IvClip   == (dirty["iv"] \cup dirty["bs"] \cup OldCursor) \cap IvTile

\* updateClipRegions() and drawBackingStore(): the backing store is copied
\* over every tile that is dirty in any layer.
CompDrawBS ==
  /\ cpc = "drawBS"
  /\ waveClip' = WaveClip
  /\ region' = WaveClip \cup IvClip \cup dirty["bs"] \cup OldCursor
  /\ cursor' = [cursor EXCEPT !.on = @ /\ ~cursor.dirty]
  /\ scrBs' = Overlay(scrBs, region', pix)
  /\ scrWv' = Paint(scrWv, region', Erased)
  /\ scrCur' = scrCur \ region'
  /\ cpc' = IF region' = {} THEN "clean" ELSE "drawWV"
  /\ UNCHANGED <<pc, posted, serving, lock, flag, uiVars, pixVars, dirty>>

\* drawWaveforms(): the waveform is blended over the tiles of its own clip.
CompDrawWV ==
  /\ cpc = "drawWV"
  /\ scrWv' = Overlay(scrWv, waveClip, wfMem)
  /\ cpc' = "drawCR"
  /\ UNCHANGED <<pc, posted, serving, lock, flag, uiVars, pixVars, dirty,
                 drawVars, scrBs, scrCur, cursor>>

\* drawCursor(), when the cursor moved or was painted over.  (sync() then
\* notifies the remote-display thread.)
CompDrawCR ==
  LET draw == cursor.dirty \/ cursor.prev \in region
      seen == cursor.cur \in Tile
  IN /\ cpc = "drawCR"
     /\ scrCur' = IF draw /\ seen THEN scrCur \cup {cursor.cur} ELSE scrCur
     /\ cursor' = [cursor EXCEPT
                     !.dirty = IF draw THEN FALSE ELSE @,
                     !.prev  = IF draw /\ seen THEN cursor.cur ELSE @,
                     !.on    = @ \/ (draw /\ seen)]
     /\ cpc' = "clean"
     /\ UNCHANGED <<pc, posted, serving, lock, flag, uiVars, pixVars, dirty,
                    drawVars, scrBs, scrWv>>

\* cleanClipRegions(): what has been composited is not dirty any more.
CompClean ==
  /\ cpc = "clean"
  /\ dirty' = [l \in Layer |-> {}]
  /\ region' = {}
  /\ cpc' = "reply"
  /\ UNCHANGED <<pc, posted, serving, lock, flag, uiVars, pixVars, waveClip,
                 scrVars, cursor>>

\* composite() gives back every mutex it took, and the blocking call returns
\* in the thread that made it.
CompReply ==
  /\ cpc = "reply"
  /\ lock' = [l \in Lock |-> IF lock[l] = "comp" THEN NoOne ELSE lock[l]]
  /\ pc' = [pc EXCEPT ![serving.from] = "idle"]
  /\ serving' = NoCall
  /\ cpc' = "loop"
  /\ UNCHANGED <<posted, flag, uiVars, pixVars, dirty, drawVars, scrVars,
                 cursor>>

------------------------------------------------------------------------------
(* The remote-display thread reads the screen under the screen's mutex: for *)
(* each viewer that an update is reported to, at the end of a negotiation,  *)
(* and for each request of a viewer.  None of these waits for a drawing.    *)

MrdpLock ==
  /\ lock["screen"] = NoOne
  /\ lock' = [lock EXCEPT !["screen"] = "mrdp"]
  /\ UNCHANGED <<pc, posted, serving, cpc, flag, uiVars, pixVars, dirty,
                 drawVars, scrVars, cursor>>

MrdpUnlock ==
  /\ lock["screen"] = "mrdp"
  /\ lock' = [lock EXCEPT !["screen"] = NoOne]
  /\ UNCHANGED <<pc, posted, serving, cpc, flag, uiVars, pixVars, dirty,
                 drawVars, scrVars, cursor>>

------------------------------------------------------------------------------
UiNext ==
  \/ \E S \in SUBSET Tile, v \in Pixel : UiPaint(S, v)
  \/ UiBlit
  \/ \E p \in Place : UiCall("pointer", p)
  \/ UiCall("resize", Off)
  \/ \E f \in Switchable, r \in {"enable", "disable"} : UiCall(r, f)

WaveNext ==
  \/ \E S \in SUBSET WaveTile, v \in Pixel : WaveDraw(S, v)
  \/ WaveSubmit

IvNext == \E S \in SUBSET IvTile : IvMark(S)

FeederNext(t) == Acquire(t) \/ Post(t)

CompNext ==
  \/ CompFlush \/ CompPointer \/ CompResize \/ CompSwitch
  \/ \E l \in Layer : CompAcquire(l)
  \/ CompAcquireScreen
  \/ CompDrawBS \/ CompDrawWV \/ CompDrawCR \/ CompClean
  \/ CompReply

MrdpNext == MrdpLock \/ MrdpUnlock

Next ==
  \/ \E t \in Feeder : FeederNext(t)
  \/ UiNext \/ WaveNext \/ IvNext
  \/ CompNext \/ MrdpNext

Spec == Init /\ [][Next]_vars

\* Threads that have entered an update go on with it; the compositor and the
\* remote-display thread go on as long as they can.  No thread is obliged to
\* start an update, and no mutex is assumed to be fair.
Fairness ==
  /\ \A t \in Feeder : WF_vars(Post(t))
  /\ WF_vars(UiBlit) /\ WF_vars(WaveSubmit) /\ WF_vars(IvNext)
  /\ WF_vars(CompNext)
  /\ WF_vars(MrdpUnlock)

FairSpec == Spec /\ Fairness

------------------------------------------------------------------------------
(* What makes the compositor correct.                                       *)

TypeOK ==
  /\ pc \in [Feeder -> {"idle", "edit", "unlocked", "wait"}]
  /\ posted \in Seq(Call) /\ serving \in Call \cup {NoCall}
  /\ cpc \in {"loop", "lock", "drawBS", "drawWV", "drawCR", "clean", "reply"}
  /\ lock \in [Lock -> Feeder \cup {"comp", "mrdp", NoOne}]
  /\ flag \in [Flag -> BOOLEAN]
  /\ shadow \in [Tile -> Pixel] /\ unflushed \subseteq Tile
  /\ pix \in [Tile -> Pixel]
  /\ wfCpu \in [WaveTile -> Pixel] /\ wfMem \in [WaveTile -> Pixel]
  /\ dirty \in [Layer -> SUBSET Tile]
  /\ region \subseteq Tile /\ waveClip \subseteq WaveTile
  /\ scrBs \in [Tile -> Pixel]
  /\ scrWv \in [WaveTile -> Pixel \cup {Erased}]
  /\ scrCur \subseteq Tile
  /\ cursor \in [cur : Position, prev : Position, dirty : BOOLEAN, on : BOOLEAN]

\* While the compositor reads and clears the dirty regions and reads the
\* images, no feeder is editing its layer, although composite() takes only
\* the mutexes of the feeders that are not the one that waits for it.
DirtyExclusive ==
  cpc \in {"drawBS", "drawWV", "drawCR", "clean"}
    => \A t \in Feeder : pc[t] # "edit"

\* An update of the waveform is never lost: a tile whose waveform pixel the
\* screen does not show is still marked dirty, whichever thread's call was
\* composited in between and whatever switch was off, unless the composition
\* in progress has just erased it and is about to draw it.
WaveUpdateNeverLost ==
  \A t \in WaveTile :
    scrWv[t] # wfCpu[t]
      => t \in dirty["wv"] \/ (cpc = "drawWV" /\ t \in waveClip)

\* The remote-display thread never reads a frame in which the backing store
\* has been drawn over the waveform and the waveform is not drawn yet.
WholeFrames ==
  lock["screen"] = "mrdp" => \A t \in WaveTile : scrWv[t] # Erased

\* composite() is atomic, although it draws in several steps and takes no mutex
\* of the feeder that waits: it takes effect when it copies the backing store,
\* and from then on what is dirty counts as clean, and the waveform that it is
\* about to draw as drawn.  The other modules rely on this.
leftDirty == IF cpc \in {"drawWV", "drawCR", "clean"} THEN [l \in Layer |-> {}] ELSE dirty
frameWv   == IF cpc = "drawWV" THEN Overlay(scrWv, waveClip, wfMem) ELSE scrWv
reading   == IF lock["screen"] = "mrdp" THEN <<scrBs, scrWv>> ELSE <<>>
Atomic == INSTANCE AtomicScreen WITH bs <- pix, wf <- wfMem, dirty <- leftDirty,
                                     scrBs <- scrBs, scrWv <- frameWv, seen <- reading
IsAtomic == Atomic!Spec

\* The pointer is never painted in two places, nor left behind: the screen
\* shows it nowhere but where it was painted last, and when the compositor is
\* not at work it shows it there whenever QMrOfsCursor says it is on screen.
CursorIntegrity ==
  cursor.prev \in Tile =>
    /\ scrCur \subseteq {cursor.prev}
    /\ lock["screen"] # "comp" /\ cursor.on => scrCur = {cursor.prev}

\* flush() is synchronous: where the composition and the flushing of the
\* backing store are on from the start and never turned off, all that the UI
\* thread has flushed is on the screen when it goes on, whatever the other
\* threads had composited while it waited.
AlwaysOn(S) == S \cap Switchable = {} /\ \A f \in S : FlagInit[f]
FlushIsSynchronous ==
  AlwaysOn({"comp", "bs"}) /\ pc["ui"] = "idle"
    => \A t \in Tile \ unflushed : scrBs[t] = shadow[t]

\* No update of the user interface is lost: a tile of the backing store that
\* the screen does not show is marked dirty, or will be flushed anyhow.
UiUpdateNeverLost ==
  \A t \in Tile : scrBs[t] # pix[t] => t \in dirty["bs"] \cup unflushed

\* Where the composition and the flushing of the cursor are on, a pointer
\* event triggers a composition that draws the cursor where it is now.
CursorFollows ==
  AlwaysOn({"comp", "cr"}) /\ pc["ui"] = "idle" /\ cpc = "loop"
    => (cursor.cur \in Tile => scrCur = {cursor.cur})

\* The mutexes the compositor needs for the call it serves, and the one that it
\* is about to take: those before it are its own.
Needed == DOMAIN Preceding[Reason] \cup {"screen"}
Before(l) == IF l = "screen" THEN DOMAIN Preceding[Reason] ELSE Preceding[Reason][l]
Wanted(l) == lock[l] # "comp" /\ \A k \in Before(l) : lock[k] = "comp"

\* Nobody waits in a circle: the call of a feeder that waits is in the queue or
\* being served, and the mutex that the compositor wants meanwhile is free or
\* held by a thread that will release it without waiting for anybody.
NoCircularWait ==
  /\ \A t \in Feeder : pc[t] = "wait"
       => serving.from = t \/ \E i \in 1..Len(posted) : posted[i].from = t
  /\ cpc = "lock"
       => \E l \in Needed : /\ Wanted(l)
                            /\ \/ lock[l] \in {NoOne, "mrdp"}
                               \/ lock[l] \in Feeder /\ pc[lock[l]] = "edit"

\* A blocking call returns, but for one case: the composition has every other
\* mutex it needs and waits for the screen's for ever, because the remote
\* display takes that again and again.  (QMutex does not hand itself over.)
FlushReturns ==
  \A t \in Feeder : <>[](pc[t] = "wait")
    => /\ <>[](cpc = "lock" /\ \A l \in DOMAIN Preceding[Reason] : lock[l] = "comp")
       /\ []<>(lock["screen"] = "mrdp") /\ []<>(lock["screen"] = NoOne)

===============================================================================
