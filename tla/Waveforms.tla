------------------------------ MODULE Waveforms ------------------------------
(***************************************************************************)
(* The registry of waveviews, waveforms and popups (QMrOfsWaveController)  *)
(* and the threads that use it.                                            *)
(*                                                                         *)
(* The compositor thread changes the registry for the application's UI     *)
(* thread, one call at a time, and composites.  The waveform thread and    *)
(* the video thread look waveforms up by their id, mark them dirty and     *)
(* then have the compositor flush them.  The mutex m_mutex_wc protects the *)
(* map of the views, m_mutex_wv and m_mutex_iv the dirty regions: the      *)
(* protocol of the latter two is the subject of module Compositor, here a  *)
(* composition simply waits until no thread is in its update.              *)
(*                                                                         *)
(* An id is given to one view or waveform only.  A screen is a row of      *)
(* cells (see WaveClip), and a cell shows the user interface or a waveform.*)
(***************************************************************************)
EXTENDS WaveClip, SequencesExt

CONSTANTS
  Width,      \* the cells of the top-level window are 0..Width-1
  View, Form, \* ids of views and of waveforms
  IView,      \* the views that show videos
  Home,       \* the view each waveform is created in
  Popup,      \* the widgets that can be popups
  Root,       \* the top-level window, the lowest popup
  Area,       \* the cells each popup covers
  Container,  \* the container widget of each view: left, width, and its
              \* ancestors (itself first) as far as they can be popups
  Rect        \* the viewports and geometries in use: x and width w

UI == "ui"
Nil == "nil"

ASSUME WaveformsAssumption ==
  /\ Width \in Nat
  /\ IView \subseteq View /\ Home \in [Form -> View]
  /\ UI \notin Form /\ Nil \notin View \cup Form
  /\ Root \in Popup /\ Area \in [Popup -> SUBSET (0..(Width - 1))]
  /\ Container \in [View -> [left : Nat, width : Nat, chain : Seq(Popup)]]
  /\ \A v \in View : \E i \in DOMAIN Container[v].chain : Container[v].chain[i] = Root
  /\ Rect \subseteq [x : Nat, w : Nat]

Cell == 0..(Width - 1)
Reader == {"wave", "iview"}
Null == [x |-> 0, w |-> 0]   \* a null rectangle

VARIABLES
  views,   \* the keys of wv_widget_map
  wfs,     \* the list of waveforms of each view
  alive,   \* the waveforms that exist
  used,    \* the ids given out so far
  vpt,     \* vpt0 of each view
  geom,    \* geometry0 of each waveform
  dirty,   \* the dirty region of each waveform, in its coordinates
  popups,  \* popups_z, the topmost last
  closing, \* the view whose closing holds m_mutex_wc, or Nil
  pc,      \* where each reader is in its update
  held,    \* the waveform it has looked up, or Nil
  screen   \* what each cell shows

layout  == <<views, wfs, alive, used, vpt, geom, popups, closing>>
readers == <<pc, held>>
vars == <<layout, dirty, readers, screen>>

Init ==
  /\ views = {} /\ alive = {} /\ used = {}
  /\ wfs = [v \in View |-> {}]
  /\ vpt = [v \in View |-> {}]
  /\ geom = [f \in Form |-> Null]
  /\ dirty = [f \in Form |-> {}]
  /\ popups = <<Root>>
  /\ closing = Nil
  /\ pc = [t \in Reader |-> "idle"] /\ held = [t \in Reader |-> Nil]
  /\ screen = [p \in Cell |-> UI]

------------------------------------------------------------------------------
(* Looking up and clipping.                                                 *)

\* The waveforms that fromWid can find.
Registered == UNION {wfs[v] : v \in views}

IsOpen(p) == \E i \in 1..Len(popups) : popups[i] = p
Level(p) == CHOOSE i \in 1..Len(popups) : popups[i] = p

\* findPopup: the popup a view sits in, its nearest ancestor that is open.
FindPopup(v) ==
  LET chain == Container[v].chain
      first == CHOOSE i \in DOMAIN chain :
                 IsOpen(chain[i]) /\ \A j \in 1..(i - 1) : ~IsOpen(chain[j])
  IN chain[first]

\* A variant with a bug: the popup itself is taken for one above.
AboveItself(v) == UNION {Area[popups[i]] : i \in Level(FindPopup(v))..Len(popups)}

\* clipByPopupsAbove
Above(v) == UNION {Area[popups[i]] : i \in (Level(FindPopup(v)) + 1)..Len(popups)}

\* The viewport, clamped to the container, in the container's coordinates.
Clamped(v, r) == r.x .. (r.x + r.w - 1) \cap 0..(Container[v].width - 1)

\* What updateEffectiveClip finds out about waveform f.  The waveform is
\* placed relative to the left edge of the viewport.
PlaceOf(f) ==
  LET v    == Home[f]
      left == Container[v].left
      edge == IF vpt[v] = {} THEN 0 ELSE CHOOSE p \in vpt[v] : \A q \in vpt[v] : p <= q
  IN [origin |-> left + geom[f].x + edge, width |-> geom[f].w,
      view |-> Translated(vpt[v], left), above |-> Above(v)]

\* A cell shows waveform f where the waveform has a cell, its view's viewport
\* lets it through and no popup is above it.
Seen(f, p) ==
  LET v == Home[f] IN
  /\ p - Container[v].left \in vpt[v]
  /\ p - PlaceOf(f).origin \in 0..(geom[f].w - 1)
  /\ \A i \in 1..Len(popups) : p \in Area[popups[i]] => i <= Level(FindPopup(v))

\* What a cell has to show.  The plugin does not draw videos.
Drawn == {f \in Registered : Home[f] \notin IView}
Shown(p) == IF \E f \in Drawn : Seen(f, p)
              THEN CHOOSE f \in Drawn : Seen(f, p) ELSE UI

\* The application lays its waveforms out so that no two of them overlap.
Apart == \A f, g \in Registered :
           f # g => \A p \in Cell : ~(Seen(f, p) /\ Seen(g, p))

------------------------------------------------------------------------------
(* The compositor thread, between two compositions.                         *)

Idle == closing = Nil

OpenView(v, r) ==
  /\ Idle /\ v \notin used
  /\ \E p \in DOMAIN Container[v].chain : IsOpen(Container[v].chain[p])
  /\ used' = used \cup {v}
  /\ views' = views \cup {v}
  /\ vpt' = [vpt EXCEPT ![v] = Clamped(v, r)]
  /\ UNCHANGED <<wfs, alive, geom, popups, closing, dirty, readers, screen>>

\* createWaveform, createIViewform
CreateForm(f, r) ==
  /\ Idle /\ f \notin used /\ Home[f] \in views
  /\ used' = used \cup {f} /\ alive' = alive \cup {f}
  /\ wfs' = [wfs EXCEPT ![Home[f]] = @ \cup {f}]
  /\ geom' = [geom EXCEPT ![f] = r]
  /\ UNCHANGED <<views, vpt, popups, closing, dirty, readers, screen>>
  /\ Apart'

SetViewport(v, r) ==
  /\ Idle /\ v \in views
  /\ vpt' = [vpt EXCEPT ![v] = Clamped(v, r)]
  /\ UNCHANGED <<views, wfs, alive, used, geom, popups, closing, dirty, readers, screen>>
  /\ Apart'

\* setWaveformPos or setWaveformSize: the dirty region stays as it is.  The
\* form of a video is not resized.
MoveForm(f, r) ==
  /\ Idle /\ f \in Registered
  /\ r.w = geom[f].w \/ (r.x = geom[f].x /\ Home[f] \notin IView)
  /\ geom' = [geom EXCEPT ![f] = r]
  /\ UNCHANGED <<views, wfs, alive, used, vpt, popups, closing, dirty, readers, screen>>
  /\ Apart'

\* ~QMrOfsWaveform
Delete(S) ==
  /\ alive' = alive \ S
  /\ geom' = [f \in Form |-> IF f \in S THEN Null ELSE geom[f]]
  /\ dirty' = [f \in Form |-> IF f \in S THEN {} ELSE dirty[f]]

\* A variant with a bug: the waveform stays in the list of its view.
DestroyKeepsEntry(f) ==
  /\ Idle /\ f \in Registered
  /\ Delete({f})
  /\ UNCHANGED <<views, wfs, used, vpt, popups, closing, readers, screen>>

\* destroyWaveform, under m_mutex_wc
DestroyForm(f) ==
  /\ Idle /\ f \in Registered
  /\ wfs' = [wfs EXCEPT ![Home[f]] = @ \ {f}]
  /\ Delete({f})
  /\ UNCHANGED <<views, used, vpt, popups, closing, readers, screen>>

\* A variant with a bug: the mutex is not released.
ForgetAndKeepLock ==
  /\ closing # Nil
  /\ views' = views \ {closing}
  /\ wfs' = [wfs EXCEPT ![closing] = {}]
  /\ UNCHANGED <<alive, used, vpt, geom, popups, closing, dirty, readers, screen>>

\* closeWaveview, closeIView: under m_mutex_wc the view and its waveforms are
\* deleted ...
CloseView(v) ==
  /\ Idle /\ v \in views
  /\ closing' = v
  /\ Delete(wfs[v])
  /\ vpt' = [vpt EXCEPT ![v] = {}]
  /\ UNCHANGED <<views, wfs, used, popups, readers, screen>>

\* ... and only then is the view taken from the map.
ForgetView ==
  /\ closing # Nil
  /\ views' = views \ {closing}
  /\ wfs' = [wfs EXCEPT ![closing] = {}]
  /\ closing' = Nil
  /\ UNCHANGED <<alive, used, vpt, geom, popups, dirty, readers, screen>>

\* A popup that is open already keeps its place.
OpenPopup(p) ==
  /\ Idle
  /\ popups' = IF IsOpen(p) THEN popups ELSE Append(popups, p)
  /\ UNCHANGED <<views, wfs, alive, used, vpt, geom, closing, dirty, readers, screen>>
  /\ Apart'

\* The popups above stay open.
ClosePopup(p) ==
  /\ Idle /\ p # Root
  /\ popups' = IF IsOpen(p) THEN RemoveAt(popups, Level(p)) ELSE popups
  /\ UNCHANGED <<views, wfs, alive, used, vpt, geom, closing, dirty, readers, screen>>
  /\ Apart'

------------------------------------------------------------------------------
(* The composition.                                                         *)

\* composite(): the clips of all waveforms, then the backing store over their
\* union and over what is dirty in it, then the waveforms of the waveviews.
Composite(under) ==
  LET clip(f) == EffectiveClip(PlaceOf(f), dirty[f], under)
      region  == under \cup UNION {clip(f) : f \in Registered}
      over(p) == {f \in Drawn : p \in clip(f)}
  IN /\ Idle /\ \A t \in Reader : pc[t] \in {"idle", "wait"}
     /\ screen' = [p \in Cell |->
                     IF p \notin region THEN screen[p]
                     ELSE IF over(p) = {} THEN UI ELSE CHOOSE f \in over(p) : TRUE]
     /\ dirty' = [f \in Form |-> IF f \in Registered THEN {} ELSE dirty[f]]

\* The UI thread has flushed a region, or the cursor has left one.
UiFlush(S) == Composite(S) /\ UNCHANGED <<layout, readers>>

\* flushWaves, flushIView; the latter composites only if its form is found.
Flush(t) ==
  /\ Idle /\ pc[t] = "wait"
  /\ pc' = [pc EXCEPT ![t] = "idle"]
  /\ held' = [held EXCEPT ![t] = Nil]
  /\ IF t = "wave" \/ held[t] \in Registered
       THEN Composite({})
       ELSE UNCHANGED <<dirty, screen>>
  /\ UNCHANGED layout

------------------------------------------------------------------------------
(* The waveform thread and the video thread.                                *)

\* beginUpdateWaves, flipIView: the mutex of the layer.
Begin(t) ==
  /\ pc[t] = "idle"
  /\ pc' = [pc EXCEPT ![t] = "edit"]
  /\ UNCHANGED <<layout, dirty, held, screen>>

\* addWaveformClipRegion: the waveform is looked up under m_mutex_wc, with an
\* id the thread was given ...
LookUp(t, f) ==
  /\ pc[t] = "edit" /\ closing = Nil
  /\ f \in used /\ (Home[f] \in IView <=> t = "iview")
  /\ pc' = [pc EXCEPT ![t] = "found"]
  /\ held' = [held EXCEPT ![t] = IF f \in Registered THEN f ELSE Nil]
  /\ UNCHANGED <<layout, dirty, screen>>

\* ... and marked after the mutex is released.  (If it has been deleted in
\* between, what is written to is no waveform any more.)  The waveform thread
\* may go on with another one.
Mark(t, S) ==
  /\ pc[t] = "found"
  /\ pc' = [pc EXCEPT ![t] = IF t = "wave" THEN "edit" ELSE "marked"]
  /\ dirty' = IF held[t] \notin alive THEN dirty
              ELSE [dirty EXCEPT ![held[t]] = @ \cup (S \cap Image(geom[held[t]].w))]
  /\ UNCHANGED <<layout, held, screen>>

\* endUpdateWaves, flipIView: the images are written back under m_mutex_wc,
\* the mutex of the layer is released, the flush is posted.
Submit(t) ==
  /\ pc[t] = (IF t = "wave" THEN "edit" ELSE "marked") /\ closing = Nil
  /\ pc' = [pc EXCEPT ![t] = "wait"]
  /\ UNCHANGED <<layout, dirty, held, screen>>

------------------------------------------------------------------------------
CompositorNext ==
  \/ \E v \in View, r \in Rect : OpenView(v, r) \/ SetViewport(v, r)
  \/ \E f \in Form, r \in Rect : CreateForm(f, r) \/ MoveForm(f, r)
  \/ \E f \in Form : DestroyForm(f)
  \/ \E v \in View : CloseView(v)
  \/ ForgetView
  \/ \E p \in Popup : OpenPopup(p) \/ ClosePopup(p)
  \/ \E S \in SUBSET Cell : UiFlush(S)

ReaderNext(t) ==
  \/ Begin(t) \/ Submit(t) \/ Flush(t)
  \/ \E f \in Form : LookUp(t, f)
  \/ \E S \in SUBSET Cell : Mark(t, S)

Next == CompositorNext \/ \E t \in Reader : ReaderNext(t)

Spec == Init /\ [][Next]_vars

------------------------------------------------------------------------------
(* What makes the registry correct.                                         *)

TypeOK ==
  /\ views \subseteq View /\ alive \subseteq Form /\ used \subseteq View \cup Form
  /\ wfs \in [View -> SUBSET Form]
  /\ vpt \in [View -> SUBSET Nat] /\ geom \in [Form -> [x : Nat, w : Nat]]
  /\ dirty \in [Form -> SUBSET Nat]
  /\ popups \in Seq(Popup) /\ IsOpen(Root)
  /\ closing \in views \cup {Nil}
  /\ pc \in [Reader -> {"idle", "edit", "found", "marked", "wait"}]
  /\ held \in [Reader -> Form \cup {Nil}]
  /\ screen \in [Cell -> Form \cup {UI}]

\* Whoever may walk the registry - a thread that gets m_mutex_wc, or the
\* compositor outside of a closing - finds waveforms that exist, and each
\* waveform that exists can be found: none dangles and none is leaked.
RegistryMatches == closing = Nil => Registered = alive

\* A composition paints a cell with nothing but what has to be seen there,
\* however viewports, geometries and popups have changed since the waveform
\* was marked dirty: never a waveform over a popup, outside its viewport or
\* beyond its image, and never a backing store over a waveform it erases.
PaintsTruth ==
  [][\A p \in Cell : screen'[p] # screen[p] => screen'[p] = Shown(p)]_vars

\* When a flush of the waveform thread returns, the screen shows the cells
\* that were dirty as far as they can be seen, whatever the UI thread had
\* changed or composited between the marking and the flush.
FlushShows ==
  [][pc["wave"] = "wait" /\ pc'["wave"] = "idle" =>
       \A f \in Drawn, p \in Cell :
         Seen(f, p) /\ p - PlaceOf(f).origin \in dirty[f] => screen'[p] = f]_vars

\* A thread that flips a video or marks a waveform uses a waveform that exists,
\* also when the UI thread closes the view at the same time.
UsesLive == \A t \in Reader : pc[t] = "found" /\ held[t] # Nil => held[t] \in alive

===============================================================================
