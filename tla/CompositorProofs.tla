-------------------------- MODULE CompositorProofs --------------------------
(***************************************************************************)
(* Proofs about Compositor, for every screen, waveform and video form, every *)
(* set of pixels and every setting of the switches.                        *)
(***************************************************************************)
EXTENDS Compositor, Integers, TLAPS

Drawing == {"drawBS", "drawWV", "drawCR", "clean"}

------------------------------------------------------------------------------
(* The helpers of the model.                                                *)

\* Painting keeps an image an image.
LEMMA PaintType ==
  ASSUME NEW D, NEW P, NEW f \in [D -> P], NEW S, NEW v \in P
  PROVE  Paint(f, S, v) \in [D -> P]
BY DEF Paint

\* So does copying a part of another one.
LEMMA OverlayType ==
  ASSUME NEW D, NEW P, NEW f \in [D -> P], NEW S, NEW g,
         \A t \in S \cap D : g[t] \in P
  PROVE  Overlay(f, S, g) \in [D -> P]
BY DEF Overlay

\* The calls in the compositor's event queue.
LEMMA HeadCall ==
  ASSUME posted \in Seq(Call), posted # <<>>
  PROVE  /\ Head(posted) \in Call
         /\ Tail(posted) \in Seq(Call)
OBVIOUS

\* What a call carries.
LEMMA CallFields ==
  ASSUME NEW c \in Call
  PROVE  /\ c.from \in Feeder
         /\ c.req = "pointer" => c.arg \in Position
         /\ c.req \in {"enable", "disable"} => c.arg \in Switchable
         /\ c.req # "flush" => c.from = "ui"
BY DEF Call, Feeder

\* Every call that is made is one of these.
LEMMA InvokeType ==
  ASSUME posted \in Seq(Call), NEW c \in Call, posted' = Append(posted, c)
  PROVE  posted' \in Seq(Call)
OBVIOUS

------------------------------------------------------------------------------
(* Type correctness.                                                        *)

LEMMA InitTypeOK == Init => TypeOK
<1> SUFFICES ASSUME Init PROVE TypeOK
  OBVIOUS
<1> USE CompositorAssumption DEF Init
<1>1. posted \in Seq(Call) /\ serving \in Call \cup {NoCall}
  OBVIOUS
<1>2. lock \in [Lock -> Feeder \cup {"comp", "mrdp", NoOne}]
  OBVIOUS
<1>3. cursor \in [cur : Position, prev : Position, dirty : BOOLEAN, on : BOOLEAN]
  BY DEF Position
<1>4. dirty \in [Layer -> SUBSET Tile] /\ flag \in [Flag -> BOOLEAN]
  OBVIOUS
<1>5. /\ shadow \in [Tile -> Pixel] /\ pix \in [Tile -> Pixel]
      /\ wfCpu \in [WaveTile -> Pixel] /\ wfMem \in [WaveTile -> Pixel]
      /\ scrBs \in [Tile -> Pixel] /\ scrWv \in [WaveTile -> Pixel \cup {Erased}]
  OBVIOUS
<1> QED BY <1>1, <1>2, <1>3, <1>4, <1>5 DEF TypeOK

LEMMA NextTypeOK == TypeOK /\ [Next]_vars => TypeOK'
<1> SUFFICES ASSUME TypeOK, [Next]_vars PROVE TypeOK'
  OBVIOUS
<1> USE CompositorAssumption
<1>1. ASSUME NEW t \in Feeder, Acquire(t) PROVE TypeOK'
  BY <1>1 DEF Acquire, TypeOK, Goto, uiVars, pixVars, scrVars, drawVars,
              LayerOf, Lock, Feeder
<1>2. ASSUME NEW t \in Feeder, Post(t) PROVE TypeOK'
  <2>1. [from |-> t, req |-> "flush", arg |-> Off] \in Call
    BY DEF Call
  <2>2. posted' \in Seq(Call)
    BY <1>2, <2>1, InvokeType DEF Post, Invoke, TypeOK
  <2> QED BY <1>2, <2>2 DEF Post, TypeOK, Goto, uiVars, pixVars, scrVars, drawVars
<1>3. ASSUME NEW S \in SUBSET Tile, NEW v \in Pixel, UiPaint(S, v) PROVE TypeOK'
  <2>1. shadow' \in [Tile -> Pixel]
    BY <1>3, PaintType DEF UiPaint, TypeOK
  <2> QED BY <1>3, <2>1 DEF UiPaint, TypeOK, pixVars, scrVars, drawVars
<1>4. CASE UiBlit
  <2>1. pix' \in [Tile -> Pixel]
    BY <1>4, OverlayType DEF UiBlit, TypeOK
  <2>2. dirty' \in [Layer -> SUBSET Tile]
    BY <1>4 DEF UiBlit, TypeOK
  <2>3. pc' \in [Feeder -> {"idle", "edit", "unlocked", "wait"}] /\ lock' \in [Lock -> Feeder \cup {"comp", "mrdp", NoOne}]
    BY <1>4 DEF UiBlit, Unlock, Goto, TypeOK, NoOne
  <2> QED BY <1>4, <2>1, <2>2, <2>3 DEF UiBlit, TypeOK, scrVars, drawVars
<1>5. ASSUME NEW p \in Place \cup Flag \cup {Off},
             NEW r \in {"pointer", "resize", "enable", "disable"},
             UiCall(r, p),
             [from |-> "ui", req |-> r, arg |-> p] \in Call
      PROVE  TypeOK'
  <2>1. posted' \in Seq(Call)
    BY <1>5, InvokeType DEF UiCall, Invoke, TypeOK
  <2> QED BY <1>5, <2>1 DEF UiCall, TypeOK, Goto, uiVars, pixVars, scrVars, drawVars
<1>6. ASSUME NEW S \in SUBSET WaveTile, NEW v \in Pixel, WaveDraw(S, v) PROVE TypeOK'
  <2>1. wfCpu' \in [WaveTile -> Pixel]
    BY <1>6, PaintType DEF WaveDraw, TypeOK
  <2>2. dirty' \in [Layer -> SUBSET Tile]
    BY <1>6 DEF WaveDraw, TypeOK, Layer
  <2> QED BY <1>6, <2>1, <2>2 DEF WaveDraw, TypeOK, uiVars, scrVars, drawVars
<1>7. CASE WaveSubmit
  <2>1. wfMem' \in [WaveTile -> Pixel]
    BY <1>7, OverlayType DEF WaveSubmit, TypeOK
  <2>2. pc' \in [Feeder -> {"idle", "edit", "unlocked", "wait"}] /\ lock' \in [Lock -> Feeder \cup {"comp", "mrdp", NoOne}]
    BY <1>7 DEF WaveSubmit, Unlock, Goto, TypeOK, NoOne
  <2> QED BY <1>7, <2>1, <2>2 DEF WaveSubmit, TypeOK, uiVars, scrVars, drawVars
<1>8. ASSUME NEW S \in SUBSET IvTile, IvMark(S) PROVE TypeOK'
  <2>1. dirty' \in [Layer -> SUBSET Tile]
    BY <1>8 DEF IvMark, TypeOK, Layer
  <2>2. pc' \in [Feeder -> {"idle", "edit", "unlocked", "wait"}] /\ lock' \in [Lock -> Feeder \cup {"comp", "mrdp", NoOne}]
    BY <1>8 DEF IvMark, Unlock, Goto, TypeOK, NoOne
  <2> QED BY <1>8, <2>1, <2>2 DEF IvMark, TypeOK, uiVars, pixVars, scrVars, drawVars
<1>9. CASE CompFlush
  BY <1>9, HeadCall DEF CompFlush, Take, TypeOK, uiVars, pixVars, scrVars, drawVars
<1>10. CASE CompPointer
  <2>1. Head(posted) \in Call /\ Tail(posted) \in Seq(Call)
    BY <1>10, HeadCall DEF CompPointer, Take, TypeOK
  <2>2. Head(posted).arg \in Position
    BY <1>10, <2>1, CallFields DEF CompPointer, Take
  <2>3. cursor' \in [cur : Position, prev : Position, dirty : BOOLEAN, on : BOOLEAN]
    BY <1>10, <2>2 DEF CompPointer, TypeOK
  <2> QED BY <1>10, <2>1, <2>3 DEF CompPointer, Take, TypeOK, uiVars, pixVars, scrVars, drawVars
<1>11. CASE CompResize
  BY <1>11, HeadCall DEF CompResize, Take, TypeOK, scrVars, drawVars
<1>12. CASE CompSwitch
  <2>1. Head(posted) \in Call /\ Tail(posted) \in Seq(Call)
    BY <1>12, HeadCall DEF CompSwitch, Take, TypeOK
  <2>2. flag' \in [Flag -> BOOLEAN]
    BY <1>12 DEF CompSwitch, TypeOK
  <2> QED BY <1>12, <2>1, <2>2 DEF CompSwitch, Take, TypeOK, uiVars, pixVars, scrVars, drawVars
<1>13. ASSUME NEW l \in Layer, CompAcquire(l) PROVE TypeOK'
  BY <1>13 DEF CompAcquire, TypeOK, uiVars, pixVars, scrVars, drawVars
<1>14. CASE CompAcquireScreen
  BY <1>14 DEF CompAcquireScreen, TypeOK, uiVars, pixVars, scrVars, drawVars
<1>15. CASE CompDrawBS
  <2>1. OldCursor \subseteq Tile
    BY DEF OldCursor
  <2>2. WaveClip \subseteq WaveTile /\ IvClip \subseteq IvTile /\ dirty["bs"] \subseteq Tile
    BY DEF WaveClip, IvClip, TypeOK, Layer
  <2>3. waveClip' \subseteq WaveTile /\ region' \subseteq Tile
    BY <1>15, <2>1, <2>2 DEF CompDrawBS
  <2>4. scrBs' \in [Tile -> Pixel]
    BY <1>15, OverlayType DEF CompDrawBS, TypeOK
  <2>5. scrWv' \in [WaveTile -> Pixel \cup {Erased}]
    BY <1>15, PaintType DEF CompDrawBS, TypeOK
  <2>6. scrCur' \subseteq Tile
    BY <1>15 DEF CompDrawBS, TypeOK
  <2>7. cursor' \in [cur : Position, prev : Position, dirty : BOOLEAN, on : BOOLEAN]
    BY <1>15 DEF CompDrawBS, TypeOK
  <2> QED BY <1>15, <2>3, <2>4, <2>5, <2>6, <2>7
          DEF CompDrawBS, TypeOK, uiVars, pixVars
<1>16. CASE CompDrawWV
  <2>1. scrWv' \in [WaveTile -> Pixel \cup {Erased}]
    BY <1>16, OverlayType DEF CompDrawWV, TypeOK
  <2> QED BY <1>16, <2>1 DEF CompDrawWV, TypeOK, uiVars, pixVars, drawVars
<1>17. CASE CompDrawCR
  <2>1. scrCur' \subseteq Tile
    BY <1>17 DEF CompDrawCR, TypeOK
  <2>2. cursor' \in [cur : Position, prev : Position, dirty : BOOLEAN, on : BOOLEAN]
    BY <1>17 DEF CompDrawCR, TypeOK
  <2> QED BY <1>17, <2>1, <2>2 DEF CompDrawCR, TypeOK, uiVars, pixVars, drawVars
<1>18. CASE CompClean
  BY <1>18 DEF CompClean, TypeOK, uiVars, pixVars, scrVars
<1>19. CASE CompReply
  BY <1>19 DEF CompReply, TypeOK, uiVars, pixVars, scrVars, drawVars, NoOne
<1>20. CASE MrdpLock
  BY <1>20 DEF MrdpLock, TypeOK, uiVars, pixVars, scrVars, drawVars
<1>21. CASE MrdpUnlock
  BY <1>21 DEF MrdpUnlock, TypeOK, uiVars, pixVars, scrVars, drawVars, NoOne
<1>22. CASE UNCHANGED vars
  BY <1>22 DEF vars, TypeOK, uiVars, pixVars, scrVars, drawVars
<1>23. CASE UiNext
  <2>1. ASSUME NEW p \in Place, UiCall("pointer", p) PROVE TypeOK'
    <3>1. [from |-> "ui", req |-> "pointer", arg |-> p] \in Call
      BY DEF Call, Position
    <3> QED BY <2>1, <3>1, <1>5
  <2>2. CASE UiCall("resize", Off)
    <3>1. [from |-> "ui", req |-> "resize", arg |-> Off] \in Call
      BY DEF Call
    <3> QED BY <2>2, <3>1, <1>5
  <2>3. ASSUME NEW f \in Switchable, NEW r \in {"enable", "disable"}, UiCall(r, f)
        PROVE  TypeOK'
    <3>1. [from |-> "ui", req |-> r, arg |-> f] \in Call
      BY DEF Call
    <3> QED BY <2>3, <3>1, <1>5
  <2> QED BY <1>23, <1>3, <1>4, <2>1, <2>2, <2>3 DEF UiNext
<1> QED
  BY <1>1, <1>2, <1>6, <1>7, <1>8, <1>9, <1>10, <1>11, <1>12, <1>13, <1>14,
     <1>15, <1>16, <1>17, <1>18, <1>19, <1>20, <1>21, <1>22, <1>23
     DEF Next, FeederNext, WaveNext, IvNext, CompNext, MrdpNext

\* The state of the compositor is always of the type it should have.
THEOREM TypeCorrect == Spec => []TypeOK
BY InitTypeOK, NextTypeOK, PTL DEF Spec

------------------------------------------------------------------------------
(* The inductive invariant.                                                 *)

\* Who may hold a mutex: its feeder, while it edits the layer, the compositor,
\* while it serves a call, and the remote-display thread, that of the screen.
Owners ==
  /\ \A t \in Feeder : lock[LayerOf[t]] = t <=> pc[t] = "edit"
  /\ \A l \in Layer : lock[l] \in {NoOne, "comp"} \cup {t \in Feeder : LayerOf[t] = l}
  /\ lock["screen"] \in {NoOne, "comp", "mrdp"}
  /\ cpc = "loop" => \A l \in Lock : lock[l] # "comp"
  /\ cpc \in Drawing =>
       /\ lock["screen"] = "comp"
       /\ \A t \in Feeder : t # serving.from => lock[LayerOf[t]] = "comp"

\* A feeder that has made a call waits until it is served, and makes only one.
Waiting ==
  /\ \A i \in 1..Len(posted) : pc[posted[i].from] = "wait"
  /\ \A i, j \in 1..Len(posted) : posted[i].from = posted[j].from => i = j
  /\ cpc = "loop" <=> serving = NoCall
  /\ serving # NoCall =>
       /\ pc[serving.from] = "wait"
       /\ \A i \in 1..Len(posted) : posted[i].from # serving.from

\* What the screen, the blitter and the dirty region know of the waveform.
WaveTracked ==
  /\ dirty["wv"] \subseteq WaveTile
  /\ \A t \in WaveTile :
       /\ wfMem[t] # wfCpu[t] => t \in dirty["wv"] /\ pc["wave"] = "edit"
       /\ scrWv[t] # wfMem[t]
            => t \in dirty["wv"] \/ (cpc = "drawWV" /\ t \in waveClip)
       /\ scrWv[t] = Erased => cpc = "drawWV" /\ t \in waveClip
  /\ cpc = "drawWV" => dirty["wv"] \subseteq waveClip
  /\ cpc \in {"drawCR", "clean"} => \A t \in dirty["wv"] : scrWv[t] = wfMem[t]

\* What the screen and the dirty region know of the backing store, when the
\* switches stay on: nothing is left dirty but for a flush under way.
UiFlush == [from |-> "ui", req |-> "flush", arg |-> Off]
UiTracked ==
  /\ flag["comp"] /\ flag["bs"]
  /\ \A t \in Tile :
       /\ shadow[t] # pix[t] => t \in unflushed
       /\ scrBs[t] # pix[t] => t \in dirty["bs"] \cup unflushed
  /\ dirty["bs"] # {} =>
       \/ pc["ui"] = "unlocked"
       \/ \E i \in 1..Len(posted) : posted[i] = UiFlush
       \/ serving = UiFlush /\ cpc # "reply"
  /\ cpc \in {"drawWV", "drawCR", "clean"}
       => \A t \in dirty["bs"] : scrBs[t] = pix[t]

IInv == TypeOK /\ Owners /\ Waiting /\ WaveTracked
UiInv == AlwaysOn({"comp", "bs"}) => UiTracked

LEMMA InitIInv == Init => IInv
<1> SUFFICES ASSUME Init PROVE IInv
  OBVIOUS
<1>1. TypeOK
  BY InitTypeOK
<1>2. Owners
  BY DEF Init, Owners, Feeder, Layer, Lock, LayerOf, NoOne, Drawing
<1>3. Waiting
  BY DEF Init, Waiting
<1>4. WaveTracked
  BY CompositorAssumption DEF Init, WaveTracked, Layer
<1> QED BY <1>1, <1>2, <1>3, <1>4 DEF IInv

\* composite() takes the mutex of every layer whose feeder is not the one that
\* waits for it.
LEMMA OthersLocked ==
  ASSUME NEW t \in Feeder, serving \in Call, t # serving.from
  PROVE  LayerOf[t] \in DOMAIN Preceding[Reason]
<1>1. serving.from \in Feeder /\ (serving.req # "flush" => serving.from = "ui")
  BY CallFields
<1>2. CASE serving.from = "wave"
  BY <1>2 DEF Reason, Preceding, LayerOf, Feeder
<1>3. CASE serving.from = "iview"
  BY <1>3 DEF Reason, Preceding, LayerOf, Feeder
<1>4. CASE serving.from = "ui"
  BY <1>4 DEF Reason, Preceding, LayerOf, Feeder
<1> QED BY <1>1, <1>2, <1>3, <1>4 DEF Feeder

\* The mutexes stay with their owners.
LEMMA OwnersStep == IInv /\ [Next]_vars => Owners'
<1> SUFFICES ASSUME IInv, [Next]_vars PROVE Owners'
  OBVIOUS
<1> USE DEF IInv, Owners
<1>0. ASSUME UNCHANGED <<pc, serving, cpc, lock>> PROVE Owners'
  BY <1>0 DEF Drawing
<1>1. ASSUME NEW t \in Feeder, Acquire(t) PROVE Owners'
  BY <1>1 DEF Acquire, Goto, TypeOK, Feeder, Layer, Lock, LayerOf, NoOne, Drawing
<1>2. ASSUME NEW t \in Feeder, Post(t) PROVE Owners'
  BY <1>2 DEF Post, Goto, TypeOK, Feeder, LayerOf, Drawing
<1>3. ASSUME NEW S, NEW v, UiPaint(S, v) PROVE Owners'
  BY <1>0, <1>3 DEF UiPaint
<1>4. ASSUME NEW t \in Feeder, Unlock(t), UNCHANGED <<serving, cpc>> PROVE Owners'
  BY <1>4 DEF Unlock, Goto, TypeOK, Feeder, Layer, Lock, LayerOf, NoOne, Drawing
<1>5. ASSUME NEW r, NEW p, UiCall(r, p) PROVE Owners'
  BY <1>5 DEF UiCall, Goto, TypeOK, Feeder, LayerOf, Drawing
<1>6. ASSUME NEW S, NEW v, WaveDraw(S, v) PROVE Owners'
  BY <1>0, <1>6 DEF WaveDraw
<1>7. ASSUME UNCHANGED <<pc, lock>>, cpc = "loop", cpc' \in {"lock", "reply"} PROVE Owners'
  BY <1>7 DEF Drawing
<1>8. ASSUME NEW l \in Layer, CompAcquire(l) PROVE Owners'
  BY <1>8 DEF CompAcquire, TypeOK, Feeder, Layer, Lock, LayerOf, NoOne, Drawing
<1>9. CASE CompAcquireScreen
  <2>1. serving \in Call
    BY <1>9 DEF CompAcquireScreen, Waiting, TypeOK
  <2>2. \A t \in Feeder : t # serving.from => lock[LayerOf[t]] = "comp"
    BY <1>9, <2>1, OthersLocked DEF CompAcquireScreen
  <2> QED BY <1>9, <2>2 DEF CompAcquireScreen, TypeOK, Feeder, Layer, Lock, LayerOf, NoOne, Drawing
<1>10. ASSUME UNCHANGED <<pc, serving, lock>>, cpc \in Drawing, cpc' \in Drawing \cup {"reply"}
       PROVE  Owners'
  BY <1>10 DEF Drawing
<1>11. CASE CompReply
  <2>1. serving # NoCall /\ pc[serving.from] = "wait"
    BY <1>11 DEF CompReply, Waiting
  <2> QED BY <1>11, <2>1 DEF CompReply, TypeOK, Feeder, Layer, Lock, LayerOf, NoOne, Drawing
<1>12. CASE MrdpNext
  BY <1>12 DEF MrdpNext, MrdpLock, MrdpUnlock, TypeOK, Feeder, Layer, Lock, LayerOf, NoOne, Drawing
<1>13. CASE UiNext
  BY <1>3, <1>4, <1>5, <1>13 DEF UiNext, UiBlit, Feeder
<1>14. CASE WaveNext \/ IvNext
  BY <1>4, <1>6, <1>14 DEF WaveNext, IvNext, WaveSubmit, IvMark, Feeder
<1>15. CASE CompFlush \/ CompPointer \/ CompResize \/ CompSwitch
  BY <1>7, <1>15 DEF CompFlush, CompPointer, CompResize, CompSwitch, Take
<1>16. CASE CompDrawBS \/ CompDrawWV \/ CompDrawCR \/ CompClean
  BY <1>10, <1>16 DEF CompDrawBS, CompDrawWV, CompDrawCR, CompClean, Drawing
<1>17. CASE UNCHANGED vars
  BY <1>0, <1>17 DEF vars
<1> QED
  BY <1>1, <1>2, <1>8, <1>9, <1>11, <1>12, <1>13, <1>14, <1>15, <1>16, <1>17
     DEF Next, FeederNext, CompNext

\* One more call of a thread that had made none.
LEMMA InvokeWaiting ==
  ASSUME TypeOK, Waiting, NEW t \in Feeder, NEW r, NEW a,
         pc[t] # "wait", pc' = [pc EXCEPT ![t] = "wait"], Invoke(t, r, a),
         UNCHANGED <<serving, cpc>>
  PROVE  Waiting'
<1> USE DEF Waiting
<1>1. /\ Len(posted') = Len(posted) + 1 /\ Len(posted) \in Nat
      /\ \A i \in 1..Len(posted) : posted'[i] = posted[i]
      /\ posted'[Len(posted')].from = t
  BY DEF Invoke, TypeOK
<1>2. \A i \in 1..Len(posted) : posted[i].from # t
  OBVIOUS
<1>3. \A i \in 1..Len(posted') : pc'[posted'[i].from] = "wait"
  BY <1>1, <1>2 DEF TypeOK
<1>4. \A i, j \in 1..Len(posted') : posted'[i].from = posted'[j].from => i = j
  BY <1>1, <1>2
<1>5. serving # NoCall =>
        /\ serving.from # t
        /\ \A i \in 1..Len(posted') : posted'[i].from # serving.from
  BY <1>1
<1> QED BY <1>3, <1>4, <1>5 DEF TypeOK

\* The call at the head of the queue is taken.
LEMMA TakeWaiting ==
  ASSUME TypeOK, Waiting, NEW S, Take(S), cpc' # "loop", UNCHANGED pc
  PROVE  Waiting'
<1> USE DEF Waiting, Take, TypeOK
<1>1. /\ Len(posted) \in Nat /\ Len(posted) > 0 /\ Len(posted') = Len(posted) - 1
      /\ \A i \in 1..Len(posted') : posted'[i] = posted[i + 1] /\ i + 1 \in 1..Len(posted)
      /\ serving' = posted[1] /\ 1 \in 1..Len(posted)
  OBVIOUS
<1>2. serving' \in Call
  BY HeadCall
<1>3. serving' # NoCall
  BY <1>2, CallFields DEF NoCall, Feeder, NoOne
<1>4. \A i \in 1..Len(posted') : pc'[posted'[i].from] = "wait"
  BY <1>1
<1>5. \A i, j \in 1..Len(posted') : posted'[i].from = posted'[j].from => i = j
  BY <1>1
<1>6. \A i \in 1..Len(posted') : posted'[i].from # serving'.from
  BY <1>1
<1> QED BY <1>1, <1>3, <1>4, <1>5, <1>6

\* The feeders that wait, and the calls that they wait for, correspond.
LEMMA WaitingStep == IInv /\ [Next]_vars => Waiting'
<1> SUFFICES ASSUME IInv, [Next]_vars PROVE Waiting'
  OBVIOUS
<1> USE DEF IInv
<1>0. ASSUME UNCHANGED <<pc, posted, serving>>, cpc # "loop", cpc' # "loop" PROVE Waiting'
  BY <1>0 DEF Waiting
<1>1. ASSUME UNCHANGED <<posted, serving, cpc>>, NEW t \in Feeder, NEW p,
             pc[t] # "wait", pc' = [pc EXCEPT ![t] = p]
      PROVE  Waiting'
  <2>1. \A f : pc[f] = "wait" => f # t /\ pc'[f] = pc[f]
    BY <1>1 DEF TypeOK
  <2> QED BY <1>1, <2>1 DEF Waiting
<1>2. ASSUME UNCHANGED <<pc, posted, serving, cpc>> PROVE Waiting'
  BY <1>2 DEF Waiting
<1>3. ASSUME NEW t \in Feeder, Acquire(t) PROVE Waiting'
  BY <1>1, <1>3 DEF Acquire, Goto
<1>4. ASSUME NEW t \in Feeder, Post(t) PROVE Waiting'
  BY <1>4, InvokeWaiting DEF Post, Goto
<1>5. CASE UiNext
  BY <1>1, <1>2, <1>5, InvokeWaiting DEF UiNext, UiPaint, UiBlit, UiCall, Unlock, Goto, Feeder
<1>6. CASE WaveNext \/ IvNext
  BY <1>1, <1>2, <1>6 DEF WaveNext, IvNext, WaveDraw, WaveSubmit, IvMark, Unlock, Goto, Feeder
<1>7. CASE CompFlush \/ CompPointer \/ CompResize \/ CompSwitch
  BY <1>7, TakeWaiting DEF CompFlush, CompPointer, CompResize, CompSwitch, Take
<1>8. CASE (\E l \in Layer : CompAcquire(l)) \/ MrdpNext \/ UNCHANGED vars
  BY <1>2, <1>8 DEF CompAcquire, MrdpNext, MrdpLock, MrdpUnlock, vars
<1>9. CASE CompAcquireScreen \/ CompDrawBS \/ CompDrawWV \/ CompDrawCR \/ CompClean
  BY <1>0, <1>9 DEF CompAcquireScreen, CompDrawBS, CompDrawWV, CompDrawCR, CompClean
<1>10. CASE CompReply
  <2>1. serving \in Call /\ \A i \in 1..Len(posted) : posted[i].from # serving.from
    BY <1>10 DEF CompReply, Waiting, TypeOK
  <2>2. \A f : f # serving.from => (pc[f] = "wait" => pc'[f] = "wait")
    BY <1>10 DEF CompReply, TypeOK
  <2> QED BY <1>10, <2>1, <2>2 DEF CompReply, Waiting
<1> QED
  BY <1>3, <1>4, <1>5, <1>6, <1>7, <1>8, <1>9, <1>10 DEF Next, FeederNext, CompNext

\* While the compositor draws, nobody edits.
LEMMA NobodyEdits ==
  ASSUME IInv, cpc \in Drawing, NEW t \in Feeder
  PROVE  pc[t] # "edit"
<1>1. CASE t = serving.from
  BY <1>1 DEF IInv, Waiting, Drawing
<1>2. CASE t # serving.from
  BY <1>2 DEF IInv, Owners, Feeder
<1> QED BY <1>1, <1>2

\* What is known of the waveform stays true.
LEMMA WaveTrackedStep == IInv /\ [Next]_vars => WaveTracked'
<1> SUFFICES ASSUME IInv, [Next]_vars PROVE WaveTracked'
  OBVIOUS
<1> USE CompositorAssumption DEF IInv, WaveTracked
<1>0. ASSUME UNCHANGED <<wfCpu, wfMem, scrWv, waveClip, cpc>>,
             dirty'["wv"] = dirty["wv"],
             pc["wave"] = "edit" => pc'["wave"] = "edit"
      PROVE  WaveTracked'
  BY <1>0
<1>1. ASSUME UNCHANGED <<wfCpu, wfMem, scrWv, pc, dirty>>,
             cpc \notin Drawing, cpc' \notin Drawing
      PROVE  WaveTracked'
  BY <1>1 DEF Drawing
<1>2. ASSUME NEW t \in Feeder, Acquire(t) \/ Post(t) PROVE WaveTracked'
  BY <1>0, <1>2 DEF Acquire, Post, Goto, pixVars, scrVars, drawVars, TypeOK, Feeder
<1>3. CASE UiNext
  BY <1>0, <1>3 DEF UiNext, UiPaint, UiBlit, UiCall, Unlock, Goto, pixVars, scrVars,
                    drawVars, TypeOK, Feeder, Layer
<1>4. ASSUME NEW S \in SUBSET WaveTile, NEW v \in Pixel, WaveDraw(S, v) PROVE WaveTracked'
  <2>1. cpc \notin Drawing
    BY <1>4, NobodyEdits DEF WaveDraw, Feeder
  <2>2. dirty'["wv"] = dirty["wv"] \cup S
    BY <1>4 DEF WaveDraw, TypeOK, Layer
  <2>3. \A t \in WaveTile : t \notin S => wfCpu'[t] = wfCpu[t]
    BY <1>4 DEF WaveDraw, Paint, TypeOK
  <2> QED BY <1>4, <2>1, <2>2, <2>3 DEF WaveDraw, Drawing, scrVars, drawVars
<1>5. CASE WaveSubmit
  <2>1. cpc \notin Drawing
    BY <1>5, NobodyEdits DEF WaveSubmit, Unlock, Goto, Feeder
  <2>2. \A t \in WaveTile : wfMem'[t] = wfCpu[t] /\ (t \notin dirty["wv"] => wfMem'[t] = wfMem[t])
    BY <1>5 DEF WaveSubmit, Overlay, TypeOK
  <2> QED BY <1>5, <2>1, <2>2 DEF WaveSubmit, Drawing, scrVars, drawVars
<1>6. CASE IvNext
  BY <1>0, <1>6 DEF IvNext, IvMark, Unlock, Goto, pixVars, scrVars, drawVars, TypeOK, Feeder, Layer
<1>7. CASE CompFlush \/ CompPointer \/ CompResize \/ CompSwitch
  BY <1>1, <1>7 DEF CompFlush, CompPointer, CompResize, CompSwitch, Take, pixVars, scrVars,
                    Drawing
<1>8. CASE (\E l \in Layer : CompAcquire(l)) \/ MrdpNext \/ UNCHANGED vars
  BY <1>0, <1>8 DEF CompAcquire, MrdpNext, MrdpLock, MrdpUnlock, vars, pixVars, scrVars, drawVars
<1>9. CASE CompAcquireScreen
  BY <1>9 DEF CompAcquireScreen, pixVars, scrVars, drawVars
<1>10. CASE CompDrawBS
  <2>1. pc["wave"] # "edit"
    BY <1>10, NobodyEdits DEF CompDrawBS, Feeder, Drawing
  <2>2. dirty["wv"] \subseteq WaveClip /\ WaveClip \subseteq region'
    BY <1>10 DEF CompDrawBS, WaveClip
  <2>3. region' \cap WaveTile \subseteq WaveClip
    BY <1>10 DEF CompDrawBS, WaveClip, IvClip
  <2>4. \A t \in WaveTile : scrWv'[t] = IF t \in region' THEN Erased ELSE scrWv[t]
    BY <1>10 DEF CompDrawBS, Paint, TypeOK
  <2>5. UNCHANGED <<wfCpu, wfMem, dirty, pc>> /\ waveClip' = WaveClip
    BY <1>10 DEF CompDrawBS, pixVars
  <2>6. CASE region' = {}
    <3>1. cpc' = "clean" /\ dirty["wv"] = {} /\ \A t \in WaveTile : scrWv'[t] = scrWv[t]
      BY <1>10, <2>2, <2>4, <2>6 DEF CompDrawBS
    <3> QED BY <1>10, <2>5, <3>1 DEF CompDrawBS
  <2>7. CASE region' # {}
    <3>1. cpc' = "drawWV"
      BY <1>10, <2>7 DEF CompDrawBS
    <3>2. \A t \in WaveTile : scrWv'[t] # scrWv[t] => t \in waveClip'
      BY <2>3, <2>4, <2>5
    <3>3. \A t \in WaveTile : scrWv[t] # Erased
      BY <1>10 DEF CompDrawBS
    <3> QED BY <1>10, <2>2, <2>5, <3>1, <3>2, <3>3 DEF CompDrawBS
  <2> QED BY <2>6, <2>7
<1>11. CASE CompDrawWV
  <2>1. \A t \in WaveTile : scrWv'[t] = IF t \in waveClip THEN wfMem[t] ELSE scrWv[t]
    BY <1>11 DEF CompDrawWV, Overlay, TypeOK
  <2>2. \A t \in WaveTile : wfMem[t] # Erased
    BY DEF TypeOK
  <2> QED BY <1>11, <2>1, <2>2 DEF CompDrawWV, pixVars, drawVars
<1>12. CASE CompDrawCR
  BY <1>12 DEF CompDrawCR, pixVars, drawVars
<1>13. CASE CompClean
  <2>1. pc["wave"] # "edit"
    BY <1>13, NobodyEdits DEF CompClean, Feeder, Drawing
  <2>2. dirty'["wv"] = {}
    BY <1>13 DEF CompClean, Layer
  <2>3. \A t \in WaveTile : scrWv[t] = wfMem[t] /\ wfMem[t] = wfCpu[t]
    BY <1>13, <2>1 DEF CompClean
  <2> QED BY <1>13, <2>2, <2>3 DEF CompClean, pixVars, scrVars, TypeOK
<1>14. CASE CompReply
  <2>1. serving.from \in Feeder /\ pc[serving.from] = "wait"
    BY <1>14, CallFields DEF CompReply, Waiting, TypeOK
  <2>2. pc["wave"] = "edit" => pc'["wave"] = "edit"
    BY <1>14, <2>1 DEF CompReply, TypeOK
  <2> QED BY <1>14, <2>2 DEF CompReply, pixVars, scrVars, drawVars
<1>15. CASE WaveNext
  BY <1>4, <1>5, <1>15 DEF WaveNext
<1> QED
  BY <1>2, <1>3, <1>6, <1>7, <1>8, <1>9, <1>10, <1>11, <1>12, <1>13, <1>14, <1>15
     DEF Next, FeederNext, CompNext

LEMMA NextIInv == IInv /\ [Next]_vars => IInv'
BY NextTypeOK, OwnersStep, WaitingStep, WaveTrackedStep DEF IInv

LEMMA Invariance == Spec => []IInv
BY InitIInv, NextIInv, PTL DEF Spec

------------------------------------------------------------------------------
(* Safety.                                                                  *)

\* The compositor never draws or clears while a feeder edits its layer.
THEOREM Exclusion == Spec => []DirtyExclusive
<1>1. IInv => DirtyExclusive
  BY NobodyEdits DEF DirtyExclusive, Drawing
<1> QED BY <1>1, Invariance, PTL

\* No update of the waveform is lost, whatever is switched off and on.
THEOREM WaveSafety == Spec => []WaveUpdateNeverLost
<1>1. IInv => WaveUpdateNeverLost
  BY DEF IInv, WaveTracked, WaveUpdateNeverLost
<1> QED BY <1>1, Invariance, PTL

\* The remote-display thread sees whole frames only.
THEOREM FrameSafety == Spec => []WholeFrames
<1>1. IInv => WholeFrames
  BY DEF IInv, Owners, WaveTracked, WholeFrames, Drawing
<1> QED BY <1>1, Invariance, PTL

------------------------------------------------------------------------------
(* Flushes of the user interface.                                           *)

\* Between two flushes the backing store is clean.
LEMMA CleanBetweenFlushes ==
  ASSUME IInv, UiTracked, pc["ui"] \in {"idle", "edit"}
  PROVE  dirty["bs"] = {}
<1>1. \A i \in 1..Len(posted) : posted[i] # UiFlush
  BY DEF IInv, Waiting, UiFlush
<1>2. serving # UiFlush
  BY DEF IInv, Waiting, UiFlush, NoCall, NoOne
<1> QED BY <1>1, <1>2 DEF UiTracked

\* A flush on its way to the compositor stays on its way.
LEMMA InvokeKeepsFlush ==
  ASSUME TypeOK, NEW t \in Feeder, NEW r, NEW a, Invoke(t, r, a),
         \E i \in 1..Len(posted) : posted[i] = UiFlush
  PROVE  \E i \in 1..Len(posted') : posted'[i] = UiFlush
BY DEF TypeOK, Invoke

\* When a call is taken, it was that flush or the flush is still behind it.
LEMMA TakeKeepsFlush ==
  ASSUME TypeOK, NEW S, Take(S), \E i \in 1..Len(posted) : posted[i] = UiFlush
  PROVE  serving' = UiFlush \/ \E i \in 1..Len(posted') : posted'[i] = UiFlush
<1>1. /\ Len(posted) \in Nat /\ Len(posted') = Len(posted) - 1
      /\ \A i \in 1..Len(posted') : posted'[i] = posted[i + 1]
      /\ serving' = posted[1]
  BY DEF TypeOK, Take
<1>2. PICK i \in 1..Len(posted) : posted[i] = UiFlush
  OBVIOUS
<1>3. CASE i = 1
  BY <1>1, <1>2, <1>3
<1>4. CASE i # 1
  <2>1. i - 1 \in 1..Len(posted') /\ posted'[i - 1] = UiFlush
    BY <1>1, <1>2, <1>4
  <2> QED BY <2>1
<1> QED BY <1>3, <1>4

LEMMA InitUiInv == Init => UiInv
BY CompositorAssumption DEF Init, UiInv, AlwaysOn, UiTracked, Layer

\* What is known of the backing store stays true.
LEMMA UiStep == IInv /\ UiInv /\ [Next]_vars => UiInv'
<1> SUFFICES ASSUME IInv, UiTracked, [Next]_vars, AlwaysOn({"comp", "bs"})
             PROVE  UiTracked'
  BY DEF UiInv, AlwaysOn
<1> USE CompositorAssumption DEF IInv
<1> DEFINE imgs == <<shadow, unflushed, pix, scrBs, flag>>
           OnItsWay == \/ pc["ui"] = "unlocked"
                       \/ \E i \in 1..Len(posted) : posted[i] = UiFlush
                       \/ serving = UiFlush /\ cpc # "reply"
<1>0. ASSUME UNCHANGED imgs, dirty'["bs"] = dirty["bs"], OnItsWay => OnItsWay',
             cpc' \in {"drawWV", "drawCR", "clean"} => cpc \in {"drawWV", "drawCR", "clean"}
      PROVE  UiTracked'
  BY <1>0 DEF UiTracked
<1>1. ASSUME NEW t \in Feeder, Acquire(t) PROVE UiTracked'
  <2>1. OnItsWay => OnItsWay'
    BY <1>1 DEF Acquire, Goto, TypeOK, Feeder
  <2> QED BY <1>0, <1>1, <2>1 DEF Acquire, uiVars, pixVars, scrVars
<1>2. ASSUME NEW t \in Feeder, Post(t) PROVE UiTracked'
  <2>1. CASE t = "ui"
    <3>1. posted'[Len(posted')] = UiFlush /\ Len(posted') \in 1..Len(posted')
      BY <1>2, <2>1 DEF Post, Invoke, UiFlush, TypeOK
    <3> QED BY <1>0, <1>2, <3>1 DEF Post, uiVars, pixVars, scrVars
  <2>2. CASE t # "ui"
    <3>1. OnItsWay => OnItsWay'
      BY <1>2, <2>2, InvokeKeepsFlush DEF Post, Goto, TypeOK, Feeder
    <3> QED BY <1>0, <1>2, <3>1 DEF Post, uiVars, pixVars, scrVars
  <2> QED BY <2>1, <2>2
<1>3. ASSUME NEW S \in SUBSET Tile, NEW v \in Pixel, UiPaint(S, v) PROVE UiTracked'
  <2>1. \A t \in Tile : t \notin S => shadow'[t] = shadow[t]
    BY <1>3 DEF UiPaint, Paint, TypeOK
  <2> QED BY <1>3, <2>1 DEF UiPaint, UiTracked, pixVars, scrVars
<1>4. CASE UiBlit
  <2>1. dirty["bs"] = {} /\ cpc \notin Drawing
    BY <1>4, CleanBetweenFlushes, NobodyEdits DEF UiBlit, Unlock, Goto, Feeder
  <2>2. \A t \in Tile : pix'[t] = shadow[t] /\ (t \notin unflushed => pix'[t] = pix[t])
    BY <1>4 DEF UiBlit, Overlay, UiTracked, TypeOK
  <2>3. dirty'["bs"] = unflushed /\ pc'["ui"] = "unlocked"
    BY <1>4 DEF UiBlit, Unlock, Goto, TypeOK, Layer, Feeder
  <2> QED BY <1>4, <2>1, <2>2, <2>3 DEF UiBlit, UiTracked, scrVars, Drawing
<1>5. ASSUME NEW r, NEW p, UiCall(r, p) PROVE UiTracked'
  <2>1. OnItsWay => OnItsWay'
    BY <1>5, InvokeKeepsFlush DEF UiCall, Goto, TypeOK, Feeder
  <2> QED BY <1>0, <1>5, <2>1 DEF UiCall, uiVars, pixVars, scrVars
<1>6. CASE WaveNext \/ IvNext
  <2>1. OnItsWay => OnItsWay'
    BY <1>6 DEF WaveNext, IvNext, WaveDraw, WaveSubmit, IvMark, Unlock, Goto, TypeOK, Feeder
  <2>2. dirty'["bs"] = dirty["bs"]
    BY <1>6 DEF WaveNext, IvNext, WaveDraw, WaveSubmit, IvMark, TypeOK, Layer
  <2> QED BY <1>0, <1>6, <2>1, <2>2
          DEF WaveNext, IvNext, WaveDraw, WaveSubmit, IvMark, uiVars, pixVars, scrVars
<1>7. ASSUME NEW S, Take(S), UNCHANGED pc,
             serving' = UiFlush => cpc' # "reply"
      PROVE  OnItsWay => OnItsWay'
  <2>1. serving # UiFlush
    BY <1>7 DEF Take, Waiting, UiFlush, NoCall, NoOne
  <2> QED BY <1>7, <2>1, TakeKeepsFlush
<1>8. CASE CompFlush
  <2>1. serving' = UiFlush => cpc' # "reply"
    BY <1>8 DEF CompFlush, Take, UiFlush, LayerOf, UiTracked
  <2> QED BY <1>0, <1>7, <1>8, <2>1 DEF CompFlush, uiVars, pixVars, scrVars
<1>9. CASE CompPointer
  <2>1. serving' # UiFlush
    BY <1>9 DEF CompPointer, Take, UiFlush
  <2> QED BY <1>0, <1>7, <1>9, <2>1 DEF CompPointer, uiVars, pixVars, scrVars
<1>10. CASE CompResize
  <2>1. serving' # UiFlush
    BY <1>10 DEF CompResize, Take, UiFlush
  <2>2. OnItsWay => OnItsWay'
    BY <1>7, <1>10, <2>1 DEF CompResize
  <2> QED BY <1>10, <2>2 DEF CompResize, UiTracked, scrVars
<1>11. CASE CompSwitch
  <2>1. serving' # UiFlush
    BY <1>11 DEF CompSwitch, Take, UiFlush
  <2>2. OnItsWay => OnItsWay'
    BY <1>7, <1>11, <2>1 DEF CompSwitch
  <2>3. Head(posted).arg \in Switchable
    BY <1>11, HeadCall, CallFields DEF CompSwitch, Take, TypeOK
  <2>4. flag'["comp"] = flag["comp"] /\ flag'["bs"] = flag["bs"]
    BY <1>11, <2>3 DEF CompSwitch, AlwaysOn, TypeOK, Flag
  <2> QED BY <1>11, <2>2, <2>4 DEF CompSwitch, UiTracked, uiVars, pixVars, scrVars
<1>12. CASE (\E l \in Layer : CompAcquire(l)) \/ MrdpNext \/ UNCHANGED vars
  BY <1>0, <1>12 DEF CompAcquire, MrdpNext, MrdpLock, MrdpUnlock, vars, uiVars, pixVars, scrVars
<1>13. CASE CompAcquireScreen
  BY <1>0, <1>13 DEF CompAcquireScreen, uiVars, pixVars, scrVars
<1>14. CASE CompDrawBS
  <2>1. \A t \in Tile : scrBs'[t] = IF t \in region' THEN pix[t] ELSE scrBs[t]
    BY <1>14 DEF CompDrawBS, Overlay, TypeOK
  <2>2. dirty["bs"] \subseteq region' /\ dirty["bs"] \subseteq Tile
    BY <1>14 DEF CompDrawBS, TypeOK, Layer
  <2>3. cpc' # "reply"
    BY <1>14 DEF CompDrawBS
  <2> QED BY <1>14, <2>1, <2>2, <2>3 DEF CompDrawBS, UiTracked, uiVars, pixVars
<1>15. CASE CompDrawWV \/ CompDrawCR
  BY <1>0, <1>15 DEF CompDrawWV, CompDrawCR, uiVars, pixVars, scrVars
<1>16. CASE CompClean
  <2>1. dirty'["bs"] = {}
    BY <1>16 DEF CompClean, Layer
  <2>2. dirty["bs"] \subseteq Tile
    BY DEF TypeOK, Layer
  <2> QED BY <1>16, <2>1, <2>2 DEF CompClean, UiTracked, uiVars, pixVars, scrVars
<1>17. CASE CompReply
  <2>1. pc["ui"] = "unlocked" => pc'["ui"] = "unlocked"
    BY <1>17, CallFields DEF CompReply, Waiting, TypeOK, Feeder
  <2>2. OnItsWay => OnItsWay'
    BY <1>17, <2>1 DEF CompReply
  <2> QED BY <1>0, <1>17, <2>2 DEF CompReply, uiVars, pixVars, scrVars
<1>18. CASE UiNext
  BY <1>3, <1>4, <1>5, <1>18 DEF UiNext
<1> QED
  BY <1>1, <1>2, <1>6, <1>8, <1>9, <1>10, <1>11, <1>12, <1>13, <1>14, <1>15, <1>16, <1>17,
     <1>18
     DEF Next, FeederNext, CompNext

\* flush() returns with all that was flushed on the screen, as long as the
\* composition and the flushing of the backing store stay on.
THEOREM FlushSafety == Spec => []FlushIsSynchronous
<1>1. IInv /\ UiInv => FlushIsSynchronous
  <2> SUFFICES ASSUME IInv, UiTracked, pc["ui"] = "idle"
               PROVE  \A t \in Tile \ unflushed : scrBs[t] = shadow[t]
    BY DEF UiInv, FlushIsSynchronous
  <2>1. dirty["bs"] = {}
    BY CleanBetweenFlushes
  <2> QED BY <2>1 DEF UiTracked
<1>2. Init => UiInv
  BY InitUiInv
<1>3. IInv /\ UiInv /\ [Next]_vars => UiInv'
  BY UiStep
<1> QED BY <1>1, <1>2, <1>3, Invariance, PTL DEF Spec

\* Nor is an update of the user interface lost under this condition.  Where the
\* composition may be turned off, as around a resize, one can be: flush()
\* replaces the dirty region that an earlier flush has left.
THEOREM UiSafety ==
  ASSUME AlwaysOn({"comp", "bs"})
  PROVE  Spec => []UiUpdateNeverLost
<1>1. IInv /\ UiInv => UiUpdateNeverLost
  BY DEF UiInv, UiTracked, UiUpdateNeverLost
<1>2. Init => UiInv
  BY InitUiInv
<1>3. IInv /\ UiInv /\ [Next]_vars => UiInv'
  BY UiStep
<1> QED BY <1>1, <1>2, <1>3, Invariance, PTL DEF Spec

------------------------------------------------------------------------------
(* The cursor.                                                              *)

\* What the two places and the two marks of the cursor say of the screen.
CursorTracked ==
  /\ scrCur \subseteq {cursor.prev} \cap Tile
  /\ ~cursor.on => scrCur = {}
  /\ cursor.on /\ cursor.prev \in Tile =>
       /\ cursor.dirty \/ cursor.cur = cursor.prev
       /\ \/ scrCur = {cursor.prev}
          \/ cpc \in {"drawWV", "drawCR"} /\ cursor.prev \in region
  /\ cpc \in {"drawWV", "drawCR"} =>
       /\ cursor.dirty => ~cursor.on
       /\ scrCur \cap region = {}

LEMMA CursorStep == IInv /\ CursorTracked /\ [Next]_vars => CursorTracked'
<1> SUFFICES ASSUME IInv, CursorTracked, [Next]_vars PROVE CursorTracked'
  OBVIOUS
<1> USE CompositorAssumption DEF IInv
<1>0. ASSUME UNCHANGED <<cursor, scrCur>>, cpc \notin {"drawWV", "drawCR"},
             cpc' \notin {"drawWV", "drawCR"}
      PROVE  CursorTracked'
  BY <1>0 DEF CursorTracked
<1>1. ASSUME UNCHANGED <<cursor, scrCur, cpc, region>> PROVE CursorTracked'
  BY <1>1 DEF CursorTracked
<1>2. ASSUME NEW t \in Feeder, FeederNext(t) PROVE CursorTracked'
  BY <1>1, <1>2 DEF FeederNext, Acquire, Post, scrVars, drawVars
<1>3. CASE UiNext \/ WaveNext \/ IvNext
  BY <1>1, <1>3 DEF UiNext, WaveNext, IvNext, UiPaint, UiBlit, UiCall, WaveDraw, WaveSubmit,
                    IvMark, scrVars, drawVars
<1>4. CASE CompFlush \/ CompResize \/ CompSwitch
  BY <1>0, <1>4 DEF CompFlush, CompResize, CompSwitch, Take, scrVars
<1>5. CASE CompPointer
  <2>1. /\ cpc = "loop" /\ cpc' \notin {"drawWV", "drawCR"} /\ scrCur' = scrCur
        /\ cursor'.on = cursor.on /\ cursor'.prev = cursor.prev
        /\ cursor.on => cursor'.dirty
    BY <1>5 DEF CompPointer, Take, scrVars, TypeOK
  <2> QED BY <2>1 DEF CursorTracked
<1>6. CASE (\E l \in Layer : CompAcquire(l)) \/ MrdpNext \/ UNCHANGED vars
  BY <1>1, <1>6 DEF CompAcquire, MrdpNext, MrdpLock, MrdpUnlock, vars, scrVars, drawVars
<1>7. CASE CompAcquireScreen \/ CompClean \/ CompReply
  BY <1>0, <1>7 DEF CompAcquireScreen, CompClean, CompReply, scrVars
<1>8. CASE CompDrawBS
  <2>1. /\ cpc = "drawBS" /\ scrCur' = scrCur \ region'
        /\ cursor'.cur = cursor.cur /\ cursor'.prev = cursor.prev
        /\ cursor'.dirty = cursor.dirty /\ cursor'.on = (cursor.on /\ ~cursor.dirty)
        /\ cpc' = IF region' = {} THEN "clean" ELSE "drawWV"
    BY <1>8 DEF CompDrawBS, TypeOK
  <2>2. cursor.dirty /\ cursor.on => {cursor.prev} \cap Tile \subseteq region'
    BY <1>8 DEF CompDrawBS, OldCursor
  <2>3. ~cursor'.on => scrCur' = {}
    BY <2>1, <2>2 DEF CursorTracked
  <2>4. cursor'.on /\ cursor'.prev \in Tile
          => scrCur = {cursor.prev} /\ cursor.cur = cursor.prev
    BY <2>1 DEF CursorTracked
  <2> QED BY <2>1, <2>3, <2>4 DEF CursorTracked
<1>9. CASE CompDrawWV
  BY <1>9 DEF CompDrawWV, CursorTracked, drawVars
<1>10. CASE CompDrawCR
  <2> DEFINE draw == cursor.dirty \/ cursor.prev \in region
             seen == cursor.cur \in Tile
  <2>1. cpc = "drawCR" /\ cpc' = "clean" /\ region \subseteq Tile
    BY <1>10 DEF CompDrawCR, TypeOK
  <2>2. CASE ~draw
    <3>1. scrCur' = scrCur /\ cursor' = cursor
      BY <1>10, <2>2 DEF CompDrawCR, TypeOK
    <3> QED BY <2>1, <2>2, <3>1 DEF CursorTracked
  <2>3. CASE draw
    <3>1. scrCur = {}
      BY <2>1, <2>3 DEF CursorTracked
    <3>2. CASE seen
      <4>1. /\ scrCur' = {cursor.cur} /\ cursor'.cur = cursor.cur
            /\ cursor'.prev = cursor.cur /\ cursor'.on
        BY <1>10, <2>3, <3>1, <3>2 DEF CompDrawCR, TypeOK
      <4> QED BY <2>1, <3>2, <4>1 DEF CursorTracked
    <3>3. CASE ~seen
      <4>1. scrCur' = {} /\ cursor'.on = cursor.on /\ cursor'.prev = cursor.prev
        BY <1>10, <3>1, <3>3 DEF CompDrawCR, TypeOK
      <4>2. ~(cursor.on /\ cursor.prev \in Tile)
        BY <2>1, <2>3, <3>3 DEF CursorTracked
      <4> QED BY <2>1, <4>1, <4>2 DEF CursorTracked
    <3> QED BY <3>2, <3>3
  <2> QED BY <2>2, <2>3
<1> QED
  BY <1>2, <1>3, <1>4, <1>5, <1>6, <1>7, <1>8, <1>9, <1>10 DEF Next, CompNext

\* The pointer is shown in one place, and where QMrOfsCursor says it is.
THEOREM CursorSafety == Spec => []CursorIntegrity
<1>1. Init => CursorTracked
  BY CompositorAssumption DEF Init, CursorTracked
<1>2. IInv /\ CursorTracked /\ [Next]_vars => CursorTracked'
  BY CursorStep
<1>3. IInv /\ CursorTracked => CursorIntegrity
  BY DEF IInv, Owners, CursorTracked, CursorIntegrity, Drawing
<1> QED BY <1>1, <1>2, <1>3, Invariance, PTL DEF Spec

------------------------------------------------------------------------------
(* Deadlock.                                                                *)

\* The call a feeder waits for is not lost.
OnItsWay(t) == serving.from = t \/ \E i \in 1..Len(posted) : posted[i].from = t
Served == \A t \in Feeder : pc[t] = "wait" => OnItsWay(t)

LEMMA InvokeServed ==
  ASSUME TypeOK, Served, NEW t \in Feeder, NEW r, NEW a,
         pc' = [pc EXCEPT ![t] = "wait"], Invoke(t, r, a), UNCHANGED serving
  PROVE  Served'
<1>1. /\ Len(posted) \in Nat /\ Len(posted') = Len(posted) + 1
      /\ \A i \in 1..Len(posted) : posted'[i] = posted[i] /\ i \in 1..Len(posted')
      /\ posted'[Len(posted')].from = t /\ Len(posted') \in 1..Len(posted')
  BY DEF Invoke, TypeOK
<1>2. \A f \in Feeder : OnItsWay(f) => OnItsWay(f)'
  BY <1>1 DEF OnItsWay
<1>3. OnItsWay(t)'
  BY <1>1 DEF OnItsWay
<1>4. \A f \in Feeder : f # t => pc'[f] = pc[f]
  BY DEF TypeOK
<1> QED BY <1>2, <1>3, <1>4 DEF Served

LEMMA TakeServed ==
  ASSUME IInv, Served, NEW S, Take(S), UNCHANGED pc
  PROVE  Served'
<1>1. /\ Len(posted) \in Nat /\ Len(posted') = Len(posted) - 1
      /\ \A i \in 1..Len(posted') : posted'[i] = posted[i + 1]
      /\ serving' = posted[1]
  BY DEF IInv, TypeOK, Take
<1>2. \A f \in Feeder : serving.from # f
  BY DEF IInv, Take, Waiting, NoCall, NoOne, Feeder
<1>3. ASSUME NEW f \in Feeder, NEW i \in 1..Len(posted), posted[i].from = f
      PROVE  OnItsWay(f)'
  <2>1. CASE i = 1
    BY <1>1, <1>3, <2>1 DEF OnItsWay
  <2>2. CASE i # 1
    <3>1. i - 1 \in 1..Len(posted') /\ posted'[i - 1].from = f
      BY <1>1, <1>3, <2>2
    <3> QED BY <3>1 DEF OnItsWay
  <2> QED BY <2>1, <2>2
<1> QED BY <1>2, <1>3 DEF Served, OnItsWay

\* Every call that is waited for stays queued until it is served, and is
\* served until it returns.
LEMMA ServedStep == IInv /\ Served /\ [Next]_vars => Served'
<1> SUFFICES ASSUME IInv, Served, [Next]_vars PROVE Served'
  OBVIOUS
<1> USE DEF IInv
<1>0. ASSUME UNCHANGED <<posted, serving>>,
             \A t \in Feeder : pc'[t] = "wait" => pc[t] = "wait"
      PROVE  Served'
  BY <1>0 DEF Served, OnItsWay
<1>1. ASSUME NEW t \in Feeder, NEW a, NEW b, Goto(t, a, b), b # "wait",
             UNCHANGED <<posted, serving>>
      PROVE  Served'
  BY <1>0, <1>1 DEF Goto, TypeOK
<1>2. ASSUME NEW t \in Feeder, FeederNext(t) PROVE Served'
  <2>1. CASE Acquire(t)
    BY <1>1, <2>1 DEF Acquire
  <2>2. CASE Post(t)
    BY <2>2, InvokeServed DEF Post, Goto
  <2> QED BY <1>2, <2>1, <2>2 DEF FeederNext
<1>3. CASE UiNext
  <2>1. CASE UiBlit
    BY <1>1, <2>1 DEF UiBlit, Unlock, Feeder
  <2>2. ASSUME NEW r, NEW a, UiCall(r, a) PROVE Served'
    BY <2>2, InvokeServed DEF UiCall, Goto, Feeder
  <2>3. ASSUME NEW S, NEW v, UiPaint(S, v) PROVE Served'
    BY <1>0, <2>3 DEF UiPaint
  <2> QED BY <1>3, <2>1, <2>2, <2>3 DEF UiNext
<1>4. CASE WaveNext
  <2>1. ASSUME NEW S, NEW v, WaveDraw(S, v) PROVE Served'
    BY <1>0, <2>1 DEF WaveDraw
  <2>2. CASE WaveSubmit
    BY <1>1, <2>2 DEF WaveSubmit, Unlock, Feeder
  <2> QED BY <1>4, <2>1, <2>2 DEF WaveNext
<1>5. CASE IvNext
  BY <1>1, <1>5 DEF IvNext, IvMark, Unlock, Feeder
<1>6. CASE CompFlush \/ CompPointer \/ CompResize \/ CompSwitch
  BY <1>6, TakeServed DEF CompFlush, CompPointer, CompResize, CompSwitch
<1>7. CASE (\E l \in Layer : CompAcquire(l)) \/ MrdpNext \/ UNCHANGED vars
  BY <1>0, <1>7 DEF CompAcquire, MrdpNext, MrdpLock, MrdpUnlock, vars
<1>8. CASE CompAcquireScreen \/ CompDrawBS \/ CompDrawWV \/ CompDrawCR \/ CompClean
  BY <1>0, <1>8 DEF CompAcquireScreen, CompDrawBS, CompDrawWV, CompDrawCR, CompClean
<1>9. CASE CompReply
  <2>1. \A f \in Feeder : pc'[f] = "wait" => pc[f] = "wait" /\ f # serving.from
    BY <1>9, CallFields DEF CompReply, Waiting, TypeOK
  <2>2. posted' = posted
    BY <1>9 DEF CompReply
  <2> QED BY <2>1, <2>2 DEF Served, OnItsWay
<1> QED
  BY <1>2, <1>3, <1>4, <1>5, <1>6, <1>7, <1>8, <1>9 DEF Next, CompNext

\* The screen's mutex is taken last.
ScreenLast == cpc \in {"loop", "lock"} => lock["screen"] # "comp"

LEMMA ScreenLastStep == IInv /\ ScreenLast /\ [Next]_vars => ScreenLast'
<1> SUFFICES ASSUME IInv, ScreenLast, [Next]_vars PROVE ScreenLast'
  OBVIOUS
<1> USE DEF IInv, ScreenLast
<1>0. ASSUME UNCHANGED cpc, lock'["screen"] = lock["screen"] PROVE ScreenLast'
  BY <1>0
<1>1. ASSUME NEW t \in Feeder, FeederNext(t) PROVE ScreenLast'
  BY <1>0, <1>1 DEF FeederNext, Acquire, Post, TypeOK, LayerOf, Feeder, Lock
<1>2. CASE UiNext \/ WaveNext \/ IvNext
  BY <1>0, <1>2 DEF UiNext, WaveNext, IvNext, UiPaint, UiBlit, UiCall, WaveDraw, WaveSubmit,
                    IvMark, Unlock, TypeOK, LayerOf, Lock
<1>3. CASE CompFlush \/ CompPointer \/ CompResize \/ CompSwitch
  BY <1>3 DEF CompFlush, CompPointer, CompResize, CompSwitch, Take
<1>4. ASSUME NEW l \in Layer, CompAcquire(l) PROVE ScreenLast'
  BY <1>0, <1>4 DEF CompAcquire, TypeOK, Layer, Lock
<1>5. CASE CompAcquireScreen \/ CompDrawBS \/ CompDrawWV \/ CompDrawCR \/ CompClean
  BY <1>5 DEF CompAcquireScreen, CompDrawBS, CompDrawWV, CompDrawCR, CompClean
<1>6. CASE CompReply
  BY <1>6 DEF CompReply, Lock, NoOne
<1>7. CASE MrdpNext
  BY <1>7 DEF MrdpNext, MrdpLock, MrdpUnlock, TypeOK, Lock, NoOne
<1>8. CASE UNCHANGED vars
  BY <1>0, <1>8 DEF vars
<1> QED
  BY <1>1, <1>2, <1>3, <1>4, <1>5, <1>6, <1>7, <1>8 DEF Next, CompNext

\* The order in which the mutexes are taken has no gap: as long as composite()
\* lacks one, there is one whose predecessors it has.
LEMMA OneIsWanted ==
  ASSUME IInv, ScreenLast, cpc = "lock"
  PROVE  \E l \in Needed : Wanted(l)
<1>1. serving \in Call /\ lock["screen"] # "comp"
  BY DEF IInv, TypeOK, Waiting, ScreenLast
<1> USE DEF Needed, Before, Wanted, Preceding
<1>2. CASE Reason = "BS"
  BY <1>1, <1>2
<1>3. CASE Reason = "WV"
  BY <1>1, <1>3
<1>4. CASE Reason = "IV"
  BY <1>1, <1>4
<1>5. CASE Reason = "CR"
  BY <1>1, <1>5
<1> QED BY <1>1, <1>2, <1>3, <1>4, <1>5, CallFields DEF Reason, Feeder

\* No thread waits in a circle, whatever the switches, the calls and the order
\* in which the mutexes come free.
THEOREM NoDeadlock == Spec => []NoCircularWait
<1>1. Init => Served /\ ScreenLast
  BY DEF Init, Served, ScreenLast, Feeder, Lock, NoOne
<1>2. IInv /\ Served /\ ScreenLast => NoCircularWait
  <2> SUFFICES ASSUME IInv, Served, ScreenLast PROVE NoCircularWait
    OBVIOUS
  <2>1. ASSUME cpc = "lock", NEW l \in Needed, Wanted(l)
        PROVE  lock[l] \in {NoOne, "mrdp"} \/ (lock[l] \in Feeder /\ pc[lock[l]] = "edit")
    <3>1. l \in Lock
      BY CallFields DEF Needed, Preceding, Reason, Lock
    <3>2. lock[l] # "comp"
      BY <2>1 DEF Wanted
    <3>3. CASE l = "screen"
      BY <3>2, <3>3 DEF IInv, Owners
    <3>4. CASE l \in Layer
      BY <3>2, <3>4 DEF IInv, Owners, Layer
    <3> QED BY <3>1, <3>3, <3>4 DEF Lock, Layer
  <2> QED BY <2>1, OneIsWanted DEF NoCircularWait, Served, OnItsWay
<1> QED BY <1>1, <1>2, ServedStep, ScreenLastStep, Invariance, PTL DEF Spec

=============================================================================
