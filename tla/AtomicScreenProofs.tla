-------------------------- MODULE AtomicScreenProofs --------------------------
(***************************************************************************)
(* Proof that Compositor implements AtomicScreen: composite(), which takes *)
(* mutexes one by one, erases, draws the layers one after the other and    *)
(* then cleans, is one step to everybody else.  For every screen, waveform *)
(* and video form, every set of pixels and every setting of the switches.  *)
(*                                                                         *)
(* The step is the copying of the backing store (CompDrawBS).  From there  *)
(* on nobody can change what is still to be drawn: whoever could waits for *)
(* the compositor or for a mutex it holds (NobodyEdits).                   *)
(***************************************************************************)
EXTENDS CompositorProofs

Drawn == {"drawWV", "drawCR", "clean"}

\* What AtomicScreen needs besides the invariant of Compositor.
VideoOwn == dirty["iv"] \subseteq IvTile

LEMMA VideoStep == IInv /\ VideoOwn /\ [Next]_vars => VideoOwn'
<1> SUFFICES ASSUME IInv, VideoOwn, [Next]_vars PROVE VideoOwn'
  OBVIOUS
<1> USE DEF IInv, VideoOwn
<1>0. ASSUME dirty'["iv"] = dirty["iv"] PROVE VideoOwn'
  BY <1>0
<1>1. ASSUME NEW t \in Feeder, FeederNext(t) PROVE VideoOwn'
  BY <1>0, <1>1 DEF FeederNext, Acquire, Post
<1>2. CASE UiNext \/ WaveNext
  BY <1>0, <1>2 DEF UiNext, WaveNext, UiPaint, UiBlit, UiCall, WaveDraw, WaveSubmit, TypeOK, Layer
<1>3. CASE IvNext
  BY <1>3 DEF IvNext, IvMark, TypeOK, Layer
<1>4. CASE CompFlush \/ CompPointer \/ CompResize \/ CompSwitch
  BY <1>0, <1>4 DEF CompFlush, CompPointer, CompResize, CompSwitch
<1>5. CASE (\E l \in Layer : CompAcquire(l)) \/ MrdpNext \/ UNCHANGED vars
  BY <1>0, <1>5 DEF CompAcquire, MrdpNext, MrdpLock, MrdpUnlock, vars
<1>6. CASE CompAcquireScreen \/ CompDrawBS \/ CompDrawWV \/ CompDrawCR \/ CompReply
  BY <1>0, <1>6 DEF CompAcquireScreen, CompDrawBS, CompDrawWV, CompDrawCR, CompReply
<1>7. CASE CompClean
  BY <1>7 DEF CompClean, Layer
<1> QED
  BY <1>1, <1>2, <1>3, <1>4, <1>5, <1>6, <1>7 DEF Next, CompNext

------------------------------------------------------------------------------
(* One lemma for each action of AtomicScreen that the compositor takes.     *)

\* What a step does to the screen as AtomicScreen sees it.
mapped == <<pix, wfMem, leftDirty, scrBs, frameWv, reading>>
frame  == <<scrBs, frameWv, reading>>
AtomicStep == Atomic!Next \/ UNCHANGED mapped

\* A step outside of composite() leaves the frame alone if it does not draw.
LEMMA SameFrame ==
  ASSUME UNCHANGED <<scrBs, scrWv>>, cpc # "drawWV", cpc' # "drawWV",
         lock'["screen"] = "mrdp" <=> lock["screen"] = "mrdp"
  PROVE  UNCHANGED frame
BY DEF frame, frameWv, reading

\* Nor does one that leaves the compositor where it is.
LEMMA SamePlace ==
  ASSUME UNCHANGED <<scrBs, scrWv, waveClip, wfMem, cpc>>,
         lock'["screen"] = "mrdp" <=> lock["screen"] = "mrdp"
  PROVE  UNCHANGED frame
BY DEF frame, frameWv, reading

\* While no composition is under way the dirty regions are what they are.
LEMMA PlainDirty == cpc \notin Drawn => leftDirty = dirty
BY DEF leftDirty, Drawn

\* A step that changes nothing AtomicScreen knows of.
LEMMA Stutter ==
  ASSUME UNCHANGED <<pix, wfMem, dirty, scrBs, scrWv, waveClip, cpc>>,
         lock'["screen"] = "mrdp" <=> lock["screen"] = "mrdp"
  PROVE  AtomicStep
BY SamePlace DEF AtomicStep, mapped, frame, leftDirty

\* Or moves the compositor where nothing is drawn.
LEMMA StutterMove ==
  ASSUME UNCHANGED <<pix, wfMem, dirty, scrBs, scrWv>>,
         cpc \notin Drawn, cpc' \notin Drawn,
         lock'["screen"] = "mrdp" <=> lock["screen"] = "mrdp"
  PROVE  AtomicStep
BY SameFrame, PlainDirty DEF AtomicStep, mapped, frame, leftDirty, Drawn

\* flush().
LEMMA FlushStep == IInv /\ UiBlit => AtomicStep
<1> SUFFICES ASSUME IInv, UiBlit PROVE AtomicStep
  OBVIOUS
<1>1. cpc \notin Drawing /\ cpc' = cpc
  BY NobodyEdits DEF UiBlit, Unlock, Goto, Feeder
<1>2. UNCHANGED frame
  <2>1. UNCHANGED <<scrBs, scrWv>> /\ (lock'["screen"] = "mrdp" <=> lock["screen"] = "mrdp")
    BY DEF UiBlit, Unlock, scrVars, IInv, TypeOK, LayerOf, Lock
  <2> QED BY <1>1, <2>1, SameFrame DEF Drawing
<1>3. leftDirty = dirty /\ leftDirty' = [dirty EXCEPT !["bs"] = unflushed]
  BY <1>1 DEF UiBlit, leftDirty, Drawing
<1>4. pix' = Overlay(pix, unflushed, shadow) /\ wfMem' = wfMem /\ unflushed \in SUBSET Tile
  BY DEF UiBlit, IInv, TypeOK
<1>5. pix' \in [Tile -> Pixel]
  BY <1>4, OverlayType DEF IInv, TypeOK
<1>6. \A t \in Tile : pix'[t] # pix[t] => t \in unflushed
  BY <1>4 DEF Overlay, IInv, TypeOK
<1>7. Atomic!Flush
  BY <1>2, <1>3, <1>4, <1>5, <1>6 DEF Atomic!Flush, frame
<1> QED BY <1>7 DEF AtomicStep, Atomic!Next

\* resizeBackingStore2.
LEMMA ResizeStep == IInv /\ CompResize => AtomicStep
<1> SUFFICES ASSUME IInv, CompResize PROVE AtomicStep
  OBVIOUS
<1>1. cpc = "loop" /\ cpc' = "reply" /\ UNCHANGED <<lock, wfMem, dirty, scrBs, scrWv>>
  BY DEF CompResize, Take, scrVars
<1>2. UNCHANGED frame
  BY <1>1, SameFrame
<1>3. UNCHANGED leftDirty
  BY <1>1 DEF leftDirty
<1>4. Atomic!Resize
  BY <1>1, <1>2, <1>3 DEF Atomic!Resize, frame, CompResize
<1> QED BY <1>4 DEF AtomicStep, Atomic!Next

\* addWaveformClipRegion and submitWaveData.
LEMMA WaveStep ==
  ASSUME IInv, \/ \E S \in SUBSET WaveTile, v \in Pixel : WaveDraw(S, v)
               \/ WaveSubmit
  PROVE  AtomicStep
<1>1. cpc \notin Drawing /\ cpc' = cpc
  BY NobodyEdits DEF WaveDraw, WaveSubmit, Unlock, Goto, Feeder
<1>2. UNCHANGED frame /\ UNCHANGED pix
  <2>1. UNCHANGED <<scrBs, scrWv, pix>> /\ (lock'["screen"] = "mrdp" <=> lock["screen"] = "mrdp")
    BY DEF WaveDraw, WaveSubmit, Unlock, scrVars, IInv, TypeOK, LayerOf, Lock
  <2> QED BY <1>1, <2>1, SameFrame DEF Drawing
<1>3. leftDirty = dirty /\ leftDirty' = dirty'
  BY <1>1 DEF leftDirty, Drawing
<1>4. CASE \E S \in SUBSET WaveTile, v \in Pixel : WaveDraw(S, v)
  <2>1. PICK S \in SUBSET WaveTile, v \in Pixel : WaveDraw(S, v)
    BY <1>4
  <2>2. dirty' = [dirty EXCEPT !["wv"] = @ \cup S] /\ wfMem' = wfMem
    BY <2>1 DEF WaveDraw
  <2>3. wfMem' \in [WaveTile -> Pixel]
    BY <2>2 DEF IInv, TypeOK
  <2> QED BY <1>2, <1>3, <2>2, <2>3 DEF AtomicStep, Atomic!Next, Atomic!Wave, frame
<1>5. CASE WaveSubmit
  <2>1. wfMem' = Overlay(wfMem, dirty["wv"], wfCpu) /\ dirty' = dirty
    BY <1>5 DEF WaveSubmit
  <2>2. wfMem' \in [WaveTile -> Pixel]
    BY <2>1, OverlayType DEF IInv, TypeOK
  <2>3. \A t \in WaveTile : wfMem'[t] # wfMem[t] => t \in dirty["wv"]
    BY <2>1 DEF Overlay, IInv, TypeOK
  <2>4. dirty' = [dirty EXCEPT !["wv"] = @ \cup {}] /\ {} \in SUBSET WaveTile
    BY <2>1 DEF IInv, TypeOK
  <2> QED BY <1>2, <1>3, <2>1, <2>2, <2>3, <2>4 DEF AtomicStep, Atomic!Next, Atomic!Wave, frame
<1> QED BY <1>4, <1>5

\* flipIView().
LEMMA IvStep == IInv /\ IvNext => AtomicStep
<1> SUFFICES ASSUME IInv, NEW S \in SUBSET IvTile, IvMark(S) PROVE AtomicStep
  BY DEF IvNext
<1>1. cpc \notin Drawing /\ cpc' = cpc
  BY NobodyEdits DEF IvMark, Unlock, Goto, Feeder
<1>2. UNCHANGED <<scrBs, scrWv, pix, wfMem>> /\ (lock'["screen"] = "mrdp" <=> lock["screen"] = "mrdp")
  BY DEF IvMark, Unlock, scrVars, pixVars, IInv, TypeOK, LayerOf, Lock
<1>3. UNCHANGED frame
  BY <1>1, <1>2, SameFrame DEF Drawing
<1>4. leftDirty = dirty /\ leftDirty' = [dirty EXCEPT !["iv"] = @ \cup S]
  BY <1>1 DEF leftDirty, Drawing, IvMark
<1> QED BY <1>2, <1>3, <1>4 DEF AtomicStep, Atomic!Next, Atomic!Video, frame

------------------------------------------------------------------------------
(* composite().                                                             *)

\* The copying of the backing store is the composition.
LEMMA ComposeStep == IInv /\ VideoOwn /\ CompDrawBS => AtomicStep
<1> SUFFICES ASSUME IInv, VideoOwn, CompDrawBS PROVE AtomicStep
  OBVIOUS
<1> USE CompositorAssumption
<1>1. /\ cpc = "drawBS" /\ cpc' = IF region' = {} THEN "clean" ELSE "drawWV"
      /\ waveClip' = WaveClip
      /\ region' = WaveClip \cup IvClip \cup dirty["bs"] \cup OldCursor
      /\ scrBs' = Overlay(scrBs, region', pix) /\ scrWv' = Paint(scrWv, region', Erased)
      /\ UNCHANGED <<pix, wfMem, dirty, lock>>
  BY DEF CompDrawBS, pixVars
<1>2. region' \in SUBSET Tile
  BY NextTypeOK DEF IInv, Next, CompNext, TypeOK
<1>3. \A l \in Layer : dirty[l] \subseteq region'
  <2>1. dirty["wv"] \subseteq WaveClip
    BY DEF IInv, WaveTracked, WaveClip
  <2>2. dirty["iv"] \subseteq IvClip
    BY DEF VideoOwn, IvClip
  <2> QED BY <1>1, <2>1, <2>2 DEF Layer
<1>4. region' \cap WaveTile = WaveClip
  BY <1>1 DEF WaveClip, IvClip
<1>5. reading = <<>> /\ reading' = <<>>
  BY <1>1 DEF reading, IInv, Owners, Drawing
<1>6. leftDirty = dirty /\ leftDirty' = [l \in Layer |-> {}]
  BY <1>1 DEF leftDirty
<1>7. scrBs' = [t \in Tile |-> IF t \in region' THEN pix[t] ELSE scrBs[t]]
  BY <1>1 DEF Overlay, IInv, TypeOK
<1>8. frameWv = scrWv
  BY <1>1 DEF frameWv
<1>9. frameWv' = [t \in WaveTile |-> IF t \in region' THEN wfMem[t] ELSE frameWv[t]]
  <2>1. scrWv' = [t \in WaveTile |-> IF t \in region' THEN Erased ELSE scrWv[t]]
    BY <1>1 DEF Paint, IInv, TypeOK
  <2>2. CASE region' = {}
    BY <1>1, <2>1, <2>2 DEF frameWv
  <2>3. CASE region' # {}
    <3>1. frameWv' = Overlay(scrWv', WaveClip, wfMem)
      BY <1>1, <2>3 DEF frameWv
    <3> QED BY <1>4, <1>8, <2>1, <3>1 DEF Overlay
  <2> QED BY <1>8, <2>2, <2>3
<1>10. \A l \in Atomic!Layer : leftDirty[l] \subseteq region'
  BY <1>3, <1>6 DEF Atomic!Layer, Layer
<1>11. leftDirty' = [l \in Atomic!Layer |-> {}]
  BY <1>6 DEF Atomic!Layer, Layer
<1>12. Atomic!Compose
  <2>1. \E R \in SUBSET Tile :
          /\ \A l \in Atomic!Layer : leftDirty[l] \subseteq R
          /\ scrBs' = [t \in Tile |-> IF t \in R THEN pix[t] ELSE scrBs[t]]
          /\ frameWv' = [t \in WaveTile |-> IF t \in R THEN wfMem[t] ELSE frameWv[t]]
    <3> WITNESS region' \in SUBSET Tile
    <3> QED BY <1>7, <1>9, <1>10
  <2> QED BY <1>1, <1>5, <1>11, <2>1 DEF Atomic!Compose
<1> QED BY <1>12 DEF AtomicStep, Atomic!Next

\* What follows is known already.
LEMMA DrawnStep == IInv /\ (CompDrawWV \/ CompDrawCR \/ CompClean) => AtomicStep
<1> SUFFICES ASSUME IInv, CompDrawWV \/ CompDrawCR \/ CompClean PROVE AtomicStep
  OBVIOUS
<1>1. cpc \in Drawn /\ UNCHANGED <<pix, wfMem, scrBs, lock>> /\ lock["screen"] = "comp"
  BY DEF CompDrawWV, CompDrawCR, CompClean, Drawn, Drawing, pixVars, scrVars, IInv, Owners
<1>2. UNCHANGED reading
  BY <1>1 DEF reading
<1>3. UNCHANGED leftDirty
  BY DEF CompDrawWV, CompDrawCR, CompClean, leftDirty
<1>4. UNCHANGED frameWv
  BY DEF CompDrawWV, CompDrawCR, CompClean, frameWv, scrVars
<1> QED BY <1>1, <1>2, <1>3, <1>4 DEF AtomicStep, mapped

\* The remote display looks at a whole frame, and looks away.
LEMMA LookStep == IInv /\ MrdpNext => AtomicStep
<1> SUFFICES ASSUME IInv, MrdpNext PROVE AtomicStep
  OBVIOUS
<1>1. UNCHANGED <<pix, wfMem, dirty, scrBs, scrWv, waveClip, cpc>>
  BY DEF MrdpNext, MrdpLock, MrdpUnlock, pixVars, scrVars, drawVars
<1>2. UNCHANGED <<leftDirty, frameWv>>
  BY <1>1 DEF leftDirty, frameWv
<1>3. CASE MrdpLock
  <2>1. lock["screen"] = NoOne /\ lock'["screen"] = "mrdp"
    BY <1>3 DEF MrdpLock, IInv, TypeOK, Lock
  <2>2. cpc # "drawWV"
    BY <2>1 DEF IInv, Owners, Drawing, NoOne
  <2>3. reading = <<>> /\ reading' = <<scrBs, frameWv>>
    BY <1>1, <2>1, <2>2 DEF reading, frameWv, NoOne
  <2> QED BY <1>1, <1>2, <2>3 DEF AtomicStep, Atomic!Next, Atomic!Look
<1>4. CASE MrdpUnlock
  <2>1. reading' = <<>>
    BY <1>4 DEF MrdpUnlock, IInv, TypeOK, Lock, reading, NoOne
  <2> QED BY <1>1, <1>2, <2>1 DEF AtomicStep, Atomic!Next, Atomic!LookAway
<1> QED BY <1>3, <1>4 DEF MrdpNext

\* Taking and giving back mutexes, and every other call, is invisible.
LEMMA OtherStep ==
  ASSUME IInv,
         \/ \E t \in Feeder : FeederNext(t)
         \/ \E S, v : UiPaint(S, v)
         \/ \E r, a : UiCall(r, a)
         \/ CompFlush \/ CompPointer \/ CompSwitch
         \/ \E l \in Layer : CompAcquire(l)
         \/ CompAcquireScreen \/ CompReply
         \/ UNCHANGED vars
  PROVE  AtomicStep
<1> USE DEF IInv
<1>1. ASSUME NEW t \in Feeder, FeederNext(t) PROVE AtomicStep
  <2>1. lock'["screen"] = lock["screen"]
    BY <1>1 DEF FeederNext, Acquire, Post, TypeOK, LayerOf, Feeder, Lock
  <2> QED BY <1>1, <2>1, Stutter DEF FeederNext, Acquire, Post, pixVars, scrVars, drawVars
<1>2. CASE (\E S, v : UiPaint(S, v)) \/ (\E r, a : UiCall(r, a)) \/ UNCHANGED vars
  BY <1>2, Stutter DEF UiPaint, UiCall, vars, pixVars, scrVars, drawVars
<1>3. CASE CompFlush \/ CompPointer \/ CompSwitch
  BY <1>3, StutterMove DEF CompFlush, CompPointer, CompSwitch, Take, Drawn, pixVars, scrVars
<1>4. ASSUME NEW l \in Layer, CompAcquire(l) PROVE AtomicStep
  <2>1. lock'["screen"] = lock["screen"]
    BY <1>4 DEF CompAcquire, TypeOK, Layer, Lock
  <2> QED BY <1>4, <2>1, Stutter DEF CompAcquire, pixVars, scrVars, drawVars
<1>5. CASE CompAcquireScreen
  <2>1. lock["screen"] # "mrdp" /\ lock'["screen"] # "mrdp"
    BY <1>5 DEF CompAcquireScreen, TypeOK, Lock, NoOne
  <2> QED BY <1>5, <2>1, StutterMove DEF CompAcquireScreen, Drawn, pixVars, scrVars
<1>6. CASE CompReply
  <2>1. lock'["screen"] = "mrdp" <=> lock["screen"] = "mrdp"
    BY <1>6 DEF CompReply, TypeOK, Lock, NoOne
  <2> QED BY <1>6, <2>1, StutterMove DEF CompReply, Drawn, pixVars, scrVars
<1> QED BY <1>1, <1>2, <1>3, <1>4, <1>5, <1>6

------------------------------------------------------------------------------
\* The compositor is an AtomicScreen: each of its compositions is one step.
THEOREM ImplementsAtomicScreen == Spec => IsAtomic
<1>1. Init => Atomic!Init /\ VideoOwn
  <2> SUFFICES ASSUME Init PROVE Atomic!Init /\ VideoOwn
    OBVIOUS
  <2>1. leftDirty = dirty /\ frameWv = scrWv /\ reading = <<>>
    BY DEF Init, leftDirty, frameWv, reading, Lock, NoOne
  <2> QED BY <2>1 DEF Init, Atomic!Init, Atomic!Layer, Layer, VideoOwn
<1>2. IInv /\ VideoOwn /\ [Next]_vars => [Atomic!Next]_(Atomic!vars)
  <2> SUFFICES ASSUME IInv, VideoOwn, [Next]_vars PROVE AtomicStep
    BY DEF AtomicStep, mapped, Atomic!vars
  <2>1. CASE UiNext
    BY <2>1, FlushStep, OtherStep DEF UiNext
  <2>2. CASE CompNext
    BY <2>2, ResizeStep, ComposeStep, DrawnStep, OtherStep DEF CompNext
  <2>3. CASE (\E t \in Feeder : FeederNext(t)) \/ UNCHANGED vars
    BY <2>3, OtherStep
  <2>4. CASE WaveNext \/ IvNext \/ MrdpNext
    BY <2>4, WaveStep, IvStep, LookStep DEF WaveNext
  <2> QED BY <2>1, <2>2, <2>3, <2>4 DEF Next
<1> QED BY <1>1, <1>2, VideoStep, Invariance, PTL DEF Spec, IsAtomic, Atomic!Spec

=============================================================================
