# Verification of the in-process surface compositor and its remote display

The repository is a fork of Qt 5.2.1's qtbase. Almost all of its files are stock Qt and
third-party code; its own code is an *in-process surface compositor* (a platform plugin that
composes the widgets' backing store, real-time waveforms, videos and the cursor into the
framebuffer) and a *remote display* (MRDP: a server thread in the display program that sends
the screen to viewers over TCP). This directory holds TLA+ models of both, the TLC runs that
check them on small instances and TLAPS proofs for all instances.

Paths below are relative to `src/myqt/qtbase/`; `mrofs_pvr2d/` is
`src/plugins/platforms/mrofs_pvr2d/`, `mrdp/` is `src/platformsupport/mrdp/`.

## 1. Inventory

| Component | State | Operations | Interacts through | Hard behaviour |
|---|---|---|---|---|
| **Surface compositor** `mrofs_pvr2d/qmrofscompositor.cpp`, `qmrofsbackingstore.cpp`, `qmrofscursor.cpp` | mutexes `m_mutex_bs/wv/iv/wc` and the screen's, dirty region of each layer, composite region, switches (`m_enabled`, four flush flags), the cursor's current and last place with two marks | `flush`, `resize`, `composite`, pointer events, `enable…Flushing` | blocking queued calls from the UI, waveform and video threads into the compositor thread; the screen mutex shared with the mrdp thread | `composite()` takes only the mutexes of the threads that do *not* wait for it; regions read at the start are cleared at the end; deadlock between a mutex and a blocking call |
| **QMrOfs interface** `src/widgets/mrofs/qmrofs.cpp` | none of its own | one blocking call per operation; `beginUpdateWaves`/`endUpdateWaves`, `flipIView` | the compositor | the order write back, unlock, flush |
| **Waveform registry** `mrofs_pvr2d/qmrofswaveform.cpp` | map of views, list of waveforms per view, z-order of popups, viewport, geometry, dirty region and effective clip | open/close view, create/destroy/move/resize waveform, open/close popup, look-up by id, clip, draw | compositor thread writes, waveform and video threads read | look-up and use in different critical sections; a layout that changes between marking and drawing |
| **Remote display server** `mrdp/mrdp.cpp` (`MRDPConnMgr`, `MRDPClientStub`, `MRDPTransceiver`) | running flag, one stub per viewer: session state, report mode, accumulated dirty region, pooled messages | start/stop, accept, negotiate, post updates, handle requests, socket errors | events queued by the compositor; TCP | three threads that wait for each other, requests in the wrong state, send buffer full, failing compression, breaking connections |
| **Remote display viewer** `mrdp/mrdp.cpp` (`MRDPServerProxy`), `util/mrdpviewer/mrdpviewer.cpp` | socket, button, connected slots, session state, copy of the screen, refresh timer | connect, negotiate, apply updates, switch mode, poll, disconnect | TCP | attempts that fail and are repeated, responses and pixels in an unexpected order |
| **Message parser** `mrdp/mrdp_p.h` and `mrdp.cpp` (`parseMessage`) | header/payload state, read buffer, queued `nextMessage` signals | parse, CRC, dispatch | socket | pieces of any size, calls from `readyRead` and from the queue, the limit of the buffer, handlers that destroy the transceiver while it parses |
| Screen, window, images of the plugin | device handles, geometry | blits, allocation | drivers | sequential |
| Compositor ports (XCB, Windows, GLES2) | as the pvr2d plugin | | | near copies |
| Platform-support interface, legacy API `src/gui/mrofs/` | none | forwarding | | none |
| IView capture `src/widgets/mrofs/iview.cpp` | V4L2 buffer queue | capture, flip | driver | external protocol |
| Screen scrolling `src/gui/mrofs/ScreenScrollController.cpp` | panning offset | scroll | none | sequential geometry |
| Input manager client | modifier state | read, post events | external service | injected input |
| Memory operators, widgets' backing store, stock Qt, vendored code | | | | not this project's logic |

What makes each component correct:

* *Compositor*: no region is edited while it is composited; no update of a layer is lost; a
  flush is on the screen when it returns; the remote display never reads half a frame; the
  cursor is shown once and where it was painted; every blocking call returns, unless the
  remote display keeps taking the mutex of the screen.
* *Registry*: what can be looked up exists, and the reverse; a composition paints only what
  can be seen (viewport, popups above, the waveform's image), and all of it.
* *Remote display*: the server knows what each viewer lacks; pixels come after the image they
  go into; a viewer's image never goes back in time; sessions open; images converge.
* *Parser*: the messages come out as they went in, once each and in order, and none is left
  lying in the buffer.
* *Service and connections*: starting and stopping never blocks for ever; no update reaches a
  connection manager without its compositor; a stopped service serves no connection and its
  viewers learn it; a viewer's button, proxy and socket agree.

`PROJECT.json` lists every component with its status, and under `hazards` each place where
something could go wrong, with the properties that would show it.

## 2. Modules

| Module | Models | Lines |
|---|---|---|
| `Compositor` | compositor thread, three feeding threads, remote-display reader | one action per critical section |
| `AtomicScreen` | abstract specification: a composition is one step | |
| `CompositorProofs`, `AtomicScreenProofs` | theorems about `Compositor`; that it implements `AtomicScreen` | |
| `WaveClip` | `updateEffectiveClip` as pure operators, and what can be seen | |
| `Waveforms` | the registry, the threads that use it, the composition | one action per call or critical section |
| `WaveformsProofs` | theorems about `WaveClip` and `Waveforms` | |
| `ScreenMirror` | abstract specification: what a remote display promises | |
| `Mrdp` | server, stubs and viewers; implements `ScreenMirror` | one action per handler |
| `MrdpProofs`, `MrdpHandshakeProofs` | theorems about `Mrdp`, its refinements among them; that no negotiation stalls | |
| `MessageStream` | abstract specification: what one direction of a connection promises | |
| `MrdpParser` | bytes, read buffer and parser; implements `MessageStream` | one action per arrival or call of `parseMessage` |
| `MrdpParserProofs` | theorems about `MrdpParser`, the refinement among them | |
| `UpdateQueue` | abstract specification: what the service promises about updates; `MrdpService`, hence `MrdpLink`, implements it | |
| `MrdpService` | UI, compositor and mrdp thread starting and stopping the service | one action per call, event or return |
| `MrdpLink` | `MrdpService` composed with stubs and the viewers' sockets | one action per slot |
| `MrdpLinkProofs` | theorems about `MrdpService` and `MrdpLink` | |
| `MC…` | instances for TLC | |

### Compositor

The screen is a set of tiles with uninterpreted pixels. The feeders (UI, waveform, video) go
through `idle` → `edit` (they hold their layer's mutex) → `unlocked` → `wait` (blocking queued
call posted). The compositor goes through `loop` → `lock` → `drawBS` → `drawWV` → `drawCR` →
`clean` → `reply`. `Preceding` is the order in which `composite()` takes the mutexes for each
reason (`qmrofscompositor.cpp:1542-1555`). Each mutex acquisition, each drawing of a layer, the
cleaning and the reply are steps of their own, so every interleaving of the five threads with
`composite()` is explored.

| Code | Model |
|---|---|
| `QMrOfsBackingStore::beginPaint/endPaint`, `flush` | `UiPaint`; `Acquire("ui")`, `UiBlit`, `Post("ui")` |
| `beginUpdateWaves`, `addWaveformClipRegion`, `endUpdateWaves` | `Acquire("wave")`, `WaveDraw`, `WaveSubmit`, `Post("wave")` |
| `flipIView` | `Acquire("iview")`, `IvMark`, `Post("iview")` |
| `pointerEvent`, `changeCursor`, `resize`, `enable…` | `UiCall`; `CompPointer`, `CompResize`, `CompSwitch` |
| `composite` | `CompAcquire`, `CompAcquireScreen`, `CompDrawBS`, `CompDrawWV`, `CompDrawCR`, `CompClean`, `CompReply` |
| `MRDPClientStub::postScreenUpdatedEvt` reading the screen | `MrdpLock`, `MrdpUnlock` |

`AtomicScreen` says what this comes to for everybody else: images and dirty regions may change
at any time, the screen changes in one step, which shows every tile of its region as the images
are at that moment and leaves nothing dirty, and never while the remote display reads.
`Atomic == INSTANCE AtomicScreen WITH dirty <- leftDirty, scrWv <- frameWv, seen <- reading, …`
is the refinement mapping. The step is the copying of the backing store (`CompDrawBS`): from
there on nothing counts as dirty, and the waveform that is about to be drawn counts as drawn
(`Overlay(scrWv, waveClip, wfMem)`). The mapping is the reason why `Waveforms` and `Mrdp` may take a
composition, or a drawing, for one step. The cursor is not part of it (`CursorIntegrity`).

### WaveClip and Waveforms

A region is a set of cells, a cell an integer: one coordinate is enough, because the code
translates and clips x and y alike. `EffectiveDirty` and `EffectiveClip` are the code's
computation; `Visible` is stated without it. `Waveforms` keeps the map (`views`), the lists
(`wfs`), the waveforms that exist (`alive`), viewports, geometries, dirty regions, the popups'
z-order, and what each cell of the window shows. Closing a view takes two steps (`CloseView`,
`ForgetView`), because the code deletes the view before it takes it from the map and holds
`m_mutex_wc` meanwhile. The look-up and the marking of `addWaveformClipRegion` are two steps
(`LookUp`, `Mark`), because the mutex is released between them. The mutexes of the layers and
the queue are the subject of `Compositor`; here a composition is one step, taken when no
thread is in its update: that is what `DirtyExclusive` and `IsAtomic` say there.

Assumptions about the application, which the documentation of the interface asks for: the
top-level window is the first popup and stays open; each view sits in it; two waveforms never
overlap on the screen (`Apart`, kept by the guard `Apart'` of the actions that change the
layout). The code draws overlapping waveforms in the order of their views' addresses.

### ScreenMirror and Mrdp

The content of a tile is the number of times it has been drawn. `ScreenMirror` says: a
viewer's image starts with nothing drawn in it (content 0), each tile only moves forward in
time and is never ahead of the screen; it may lag behind. `Mrdp` has, per viewer, the stub (`ss`, `surm`, `accum`, the
pooled message `suEvt`), the two directions of the connection and the viewer's proxy. The mrdp
thread handles one event at a time, so one handler is one action. `Mirror == INSTANCE
ScreenMirror WITH screen <- screen, image <- image` is the refinement mapping; `Draw` maps to
drawing, `NegotiateResp` to attaching, `ScreenUpdatedEvt` to a refresh or a stutter, `Close` to
detaching, everything else to a stutter.

`Mrdp` takes from the modules below it what they establish: a connection is a sequence of whole
messages (`MessageStream`), a drawing is one step (`AtomicScreen`), and a service stops only when no
`screenUpdated` event is queued
any more (the guard `notes = <<>>` of `StopService`: the stop is posted behind these events by
the thread that posts them, which then waits). `UpdateQueue` states that last promise: a running
service gets one update per drawing, handles each of them itself, stops only when it has
handled all, and starts with none. `Mrdp` assumes it; `MrdpService`, which has the whole queue of
starts, stops and updates, implements it with `waiting <- Cardinality(Waiting)`.

The viewer's check box for the refresh mode is disabled and nothing enables it
(`util/mrdpviewer/mrdpviewer.cpp:46-49`), so in this build no user reaches `switchRefreshMode`;
`Mrdp` keeps the handlers of both sides and lets the mode be switched at any time.

| Code | Model |
|---|---|
| `sync` → `tryNotifyScreenUpdated` | `Draw` |
| `doNotifyScreenUpdated`, `postScreenUpdatedEvtChecked`, `postScreenUpdatedEvt` | `Notify`, `Reports`, `Post` |
| `doStartService`, `doStopService`, `acceptConnection` | `StartService`, `StopService`, `Connect` |
| `handleSockError`, `cleanupConnection` | `DropStub`, `HangUp`, `Reset` |
| `MessageProcessor<…>::process` | `Request`, `Accepted`, `Event` |
| `handleNegotiateReq`, `handleScreenUpdateReq`, `handleScreenUpdateReportModeReq` | `NegotiateReq`, `ScreenUpdateReq`, `ReportModeReq` |
| `handleNegotiateEvt`, `handleNegotiateResp`, `handleScreenUpdatedEvt` | `NegotiateEvt`, `NegotiateResp`, `ScreenUpdatedEvt` |
| `switchRefreshMode`, `queryScreenUpdate`, `serverDisconnected` | `SwitchRefreshMode`, `QueryScreenUpdate`, `Close` |

### MessageStream and MrdpParser

`MessageStream` says: messages are handled once each and in the order they were sent, up to the
first damaged one. In `MrdpParser` a byte is its position in the stream, so that the buffer is
what lies between `consumed` and `arrived`, and a header is recognised where a message begins.
`Arrive(n)` is one activation of Qt's socket: what has come moves to the read buffer as far as
that has room, a full buffer disables the read notification, and `readyRead` calls
`parseMessage` directly; `NextMessage` is a call that an earlier call has queued. Both take the
four cases of `Parse`. `Takes` is Qt's `read()`, which enables the notification again only when
it has emptied the buffer.

| Code | Model |
|---|---|
| `MRDPTransceiver()`, `~MRDPTransceiver`, `handleSockError`, `handleParseError` | `Open`, `Gone`, `End` |
| `sendExtraHeader`, `sendMsgBody` | `Send` |
| `canReadNotification`, `readFromSocket` | `Arrive` |
| `QAbstractSocket::readData` | `Takes` |
| `parseMessage` by `readyRead` or `nextMessage` | `ParseNothing`, `ParseHeader`, `ParsePayload`, `ParseError` in `Arrive`, `NextMessage` |

### MrdpService and MrdpLink

`MrdpService` has three threads. The UI thread asks whether the service runs and then starts or
stops it, as the example applications do, each time by a blocking call (`ui`). The
compositor thread executes these calls: it posts a start and goes on, but posts a stop and
waits twice (`cp`), for the stop and for the end of the thread. The mrdp thread takes its events
in order, whether they are starts, stops or updates. `MrdpLink` adds a server's end and a viewer's
socket per viewer. A viewer connects its socket's signals to its slots at each attempt and
disconnects them when a connection ends, so that after failed attempts a slot is called as often
as there were attempts (`slots`): a proxy, with a parser, is made each time, and one of them is deleted when the
connection ends. `again` remembers that this has happened; `OneParser` holds for viewers to
which it has not.

A socket with a rest to send closes only when its thread's event loop has written it. So a stub
that goes, in `doStopService` or after an error, may leave a socket behind that is `closing`;
`Flushed` ends it, but if the thread ends first it is `stuck`: `stopService` lets the event loop
end right after `doStopService`, the loop's dispatcher is deleted with it, and the socket, a
child of the listener, is neither written nor closed by the next run of the thread. A viewer's
socket may be `closing` too, with its proxy still reading; after a damaged message
(`ParseError`) the button is off by then, and a user may ask for a connection that the socket
refuses. `stalled` is a viewer in the state that `mrdp_parser_stall` leads to.

| Code | Model |
|---|---|
| `Dialog::toggleMRDPClicked`, `MRDPServiceRunning` | `Toggle`, `Answer` |
| `startService`, `stopService` and its return | `Start`; `Stop`, `Stopped` |
| `sync` → `tryNotifyScreenUpdated` | `Draw` |
| `doStartService`, `doStopService`, `doNotifyScreenUpdated`, `QThread::exit` | `DoStart`, `DoStop` with `StubsGo`, `DoNotify`, `Exit` |
| `acceptConnection`; `MRDPClientStub::handleSockError`, `handleParseError` | `Accept`; `DropStub` |
| `QAbstractSocketPrivate::flush` while closing; `QThreadPrivate::finish` | `Flushed`, `Hangup`; `Left` |
| `connectToServer`, `serverConnected` | `Connect`, `Established` |
| a failing or timed-out attempt | `Refused` |
| `disconnectFromServer`, `serverDisconnected`, `MRDPViewer::handleParseError` | `Disconnect`, `Hangup`, `Disconnected`, `ParseError` |
| a full buffer with no whole message | `Stall` |

Definitions marked "a variant with a bug" (`PrecedingNoBs`, `ClipOwn`, `PostDrops`, …) are not
part of any specification: each replaces the definition after it to show that a property
notices the bug. `PROJECT.json` names the property for each.

## 3. Runs

Run a configuration with `tlc -config <cfg> <module>` in this directory.

| Run | Instance and bounds | Shows | States |
|---|---|---|---|
| `compositor_layers` (`MCCompositorLayers.cfg`) | two tiles, one under the waveform and one under the video; two pixels; waveform switch toggled, no pointer | `TypeOK`, `DirtyExclusive`, `WaveUpdateNeverLost`, `WholeFrames`, `FlushIsSynchronous`, `IsAtomic` | 3.1 million |
| `compositor_calls` (`MCCompositorCalls.cfg`) | two tiles, one pixel, pointer on either tile or outside; fair | `CursorIntegrity`, `NoCircularWait`, `FlushReturns` | 197 thousand |
| `waveforms_registry` (`MCWaveforms.cfg`) | three cells; a video view in the window and a waveview in a dialog; one form each; a menu over the last cell; three rectangles | `TypeOK`, `RegistryMatches`, `PaintsTruth`, `FlushShows` | 351 thousand |
| `mrdp_session` (`MCMrdpSession.cfg`) | two tiles, one viewer, each tile drawn twice, two requests pending; broken connections, full buffers; fair | `TypeOK`, `UpdateNeverLost`, `ImageBeforePixels`, `QuietShowsScreen`, `HandshakeGoesOn`, `IsScreenMirror`, `SessionOpens`, `Converges` | 142 thousand |
| `mrdp_parser` (`MCMrdpParser.cfg`) | headers of 2 bytes, payloads of 1, 3 and 4, a buffer of 7, four messages on a connection, any of them damaged; fair | `TypeOK`, `NoMissedWakeup`, `CaughtUp`, `SilentOnlyWhileBuffered`, `IsMessageStream`, `ReadsOn` | 75 thousand |
| `mrdp_link` (`MCMrdpLink.cfg`) | two viewers, one with three attempts or parsers at a time, one with one; three events queued, a port that may be taken; fair | `TypeOK`, `NotifyFindsCompositor`, `NotifiedOnce`, `StopHangsUp`, `ButtonTells`, `OneParser`, `StopIsAhead`, `UpdatesHandledOnce`, `CallsReturn`, `StopNoticed` | 446 thousand |

Runs that end in a violation show a disagreement between the code and what its comments or
documentation say; `PROJECT.json` quotes the lines under `findings`.

| Run | Violated | What happens |
|---|---|---|
| `compositor_lost_update` | `UiUpdateNeverLost` | composition off: a second `flush` overwrites the dirty region of the first |
| `compositor_cursor` | `CursorFollows` | a pointer event marks the cursor dirty, draws nothing, and later events do not composite |
| `waveforms_live` | `UsesLive` | `addWaveformClipRegion` marks a waveform that `destroyWaveform` deleted after the look-up |
| `mrdp_incompressible` | `UpdateNeverLost` | the accumulated region is cleared, then the pixels do not compress and the update is given up |
| `mrdp_shutdown` | `ShutdownAnnounced` | the shutdown sends the pooled screen update instead of the shutdown event |
| `mrdp_parser_stall` | `AllHandled` | the buffer fills while a message is incomplete: Qt stops listening, the parser leaves bytes in the buffer, and the rest is never read |

More behaviour that an application would not expect shows in the models without a run of its
own:

* `closePopup` leaves the popups above open (`ClosePopup` in `Waveforms`); the interface says it
  closes them (`src/widgets/mrofs/qmrofs.h:213`).
* The processor of the report-mode request checks the field of another message and drops every
  such request (`mrdp/mrdp.cpp:262`; `Accepted` in `Mrdp`).
* A viewer that connects again after a failed attempt gets a proxy per attempt, all reading
  from one socket (`util/mrdpviewer/mrdpviewer.cpp:464-488`; the condition of `OneParser`).
* A stop that finds bytes to be sent, the message of the stub's destructor among them, may end
  the event loop before they are written: the socket stays open and its viewer is not told
  (`mrdp/mrdp.cpp:1594-1595`, `828`; the condition of `StopNoticed`). Nor is a viewer that
  has ceased to read.
* A composition, and with it the thread that waits for it, may find the screen's mutex taken by the
  mrdp thread each time: QMutex is not fair (`mrofs_pvr2d/qmrofscompositor.cpp:1803`; the
  condition of `FlushReturns`).

### Why the bounds are enough

* Two tiles: one that is shared by two layers and one that is not, or one that an update
  touches and one that it does not. The code handles each rectangle of a region alike.
* Two pixels tell a stale tile from a fresh one. In `mrdp_*` content counts drawings, so that
  "older" is visible; two drawings are needed for a viewer to lag by one and then catch up.
* Two viewers share the queue of events and the screen and nothing else, so `mrdp_session` has
  one, which leaves room for longer sessions and for liveness. With two viewers the safety
  properties hold for one drawing per tile and one request (720 thousand states, too many to
  check liveness in minutes); `MrdpProofs` has any number of viewers.
* `MaxReq` bounds the requests of a viewer that are not handled yet: with one, each request
  meets every state of the stub; with two, requests follow each other.
* `mrdp_parser`: a payload may be shorter or longer than a header, two messages do not fit in
  the buffer together, and the buffer can be filled exactly. Four
  messages let several follow each other in the buffer, with a damaged one at any place.
* `mrdp_link`: `MaxQueue` leaves room for an update before and after a start or a stop.
  `MaxProxy` allows one viewer a second and a third attempt after, or during, one that fails or
  a connection that closes; the other viewer, with one, stands for those that may be served,
  waiting or closing beside it. Viewers share nothing but the service.
* Three cells: one below every popup, one under the dialog, one under dialog and menu. The
  rectangles have different origins and widths, so a viewport can cut a waveform on either
  side. One waveform of each kind: waveforms are clipped one by one; what several of them do
  to each other is covered by the proofs.
* An id is used once (as in the code, where a counter gives ids), which bounds how often
  views and waveforms are made.

Symmetry is not used. Deadlock is checked in every run; no model can stop.

### Fairness

* `Compositor!Fairness`: weak fairness of each thread's step that is not the application's
  choice. Weak is enough for the layers' mutexes, although they are not queues: a feeder that
  releases its mutex must post a call and wait for the compositor before it takes it again. It
  is not enough for the screen's, which the mrdp thread may take again at once (for the next
  viewer, the next request, the end of a negotiation), and no stronger fairness is assumed:
  `FlushReturns` names that starvation as the one case in which a call does not return. The
  application is never forced to paint or to call.
* `Mrdp!Fairness`: weak fairness of the mrdp thread's event loop (`Notify`, `Handle`,
  `HangUp`), of the viewer's event loop (`Receive`) and of noticing a dead connection
  (`Close`). `QueryScreenUpdate` has strong fairness: the viewer's timer keeps firing while it is
  active, and the bound `MaxReq` disables the action again and again, which the code does not.
  Connecting, drawing, hanging up, switching modes and all faults are never forced.
* `MrdpParser!Fairness`: weak fairness of the receiver's event loop (`NextMessage`) and of the
  network with Qt's read notification (some bytes arrive while some are on their way, Qt
  listens and the buffer has room). Sending and faults are never forced.
* `MrdpLink!Fairness`: weak fairness of the mrdp thread. The compositor thread has strong
  fairness, because `Draw` may use up `MaxQueue` again and again while a call waits; the code's
  queue has no bound and the thread takes its calls in order. Per viewer, weak fairness of
  noticing that the server's end is closed, while the viewer reads or has a rest to write; a
  stalled viewer, or one whose server's end stays open, need not notice anything. Neither the
  user of the application nor that of the viewer is forced to do anything, and nothing is assumed
  of sockets that close late.

## 4. Proofs

`tlapm` on the seven `…Proofs.tla` modules checks all proofs. What they assume is in
`CompositorAssumption`, `WaveformsAssumption`, `MrdpAssumption`, `ParserAssumption`,
`ServiceAssumption` and `LinkAssumption`: the shape of the constants, no bounds on them except
that a header fits in the read buffer and that neither header nor payload is empty.

**CompositorProofs** proves `TypeCorrect`, `Exclusion` (`DirtyExclusive`), `WaveSafety`
(`WaveUpdateNeverLost`), `FrameSafety` (`WholeFrames`), `FlushSafety` (`FlushIsSynchronous`) and
`CursorSafety` (`CursorIntegrity`). None of these is inductive. The invariant that is relates the
owner of each mutex to where its thread is, says that a thread that waits has exactly one call
posted or being served, that while the compositor draws it owns the mutexes of all feeders
that are not waiting (lemma `OthersLocked`, hence `NobodyEdits`), and that what has been drawn
over but not redrawn lies in the clip of the composition under way. Exclusion comes first; the
other invariants rest on it, because they need that a dirty region does not change between the
drawing and the cleaning. `FlushSafety` needs a second invariant (`UiInv`) that only holds where
the switches stay on. The same invariant gives `UiSafety`: with composition and the backing
store's flushing always on, `UiUpdateNeverLost` holds too. So the switches are what the
violation `compositor_lost_update` needs.

`NoDeadlock` (`NoCircularWait`) adds three facts: a call stays queued until it is served (`Served`);
the screen's mutex is taken last (`ScreenLast`); and the order `Preceding` has no gap, so that some
mutex that is lacking has all its predecessors (`OneIsWanted`). That mutex is then free, or its
owner edits or reads: a feeder that waits holds none. That the wait ends,
but for the starvation that `FlushReturns` names, needs fairness, which only TLC checks.

**AtomicScreenProofs** proves `ImplementsAtomicScreen` (`IsAtomic`): `Compositor` implements
`AtomicScreen`, for every screen, pixel set and setting of the switches. Before `CompDrawBS` the
mapping shows the state as it is. From then on the proof needs that what has been decided
stays true: nobody edits the image or the region that is still to be drawn or cleaned
(`NobodyEdits`), so drawing the waveform and cleaning are stutters (`frameWv` and `leftDirty` do not
change), and nobody can look (the compositor has the screen's mutex). That the step shows every
dirty tile needs that the dirty regions lie in the composed region, for the video form the
additional invariant `VideoOwn`.

**WaveformsProofs** proves

* `ClipExact`: `EffectiveClip(pl, dirty, under)` is `Visible(pl)` where it is dirty or redrawn
  under: the translations back and forth, the intersections and the subtraction of the popups
  lose nothing and add nothing;
* `TypeCorrect` and `RegistryCorrect` (`RegistryMatches`);
* `PaintCorrect` (`PaintsTruth`) and `FlushCorrect` (`FlushShows`), for every number of cells, views,
  popups and waveforms;
* `LiveIfSynchronised`: in behaviours in which no waveform is deleted while a thread is between
  its look-up and its mark (`Synchronised`), `UsesLive` holds. It delimits the violation
  `waveforms_live`: the look-up itself finds only what exists, because the views are closed
  under `m_mutex_wc`. The code does nothing to make `Synchronised` true.

The invariant `IInv` adds to the types that the lists hold what exists (`Listed`: also that a
deleted waveform has the null geometry, so that it is seen nowhere while its view is still in
the map) and that the waveforms are apart. `CompositeShows` is the heart: at a cell of the
composed region, the waveforms drawn there are those seen there, by `ClipExact`; at most one is,
by `Apart`; and if none is drawn then none is seen, because one that is seen would be redrawn
wherever the backing store is. Existence of a nearest open popup and of a viewport's left edge
need a least element of a set of naturals (`LeastNat`, from well-foundedness).

**MrdpProofs** proves `TypeCorrect`, `ImageFirst` (`ImageBeforePixels`), `ImplementsScreenMirror`
(`IsScreenMirror`) and, for instances in which pixels
always compress, `NothingForgotten` (`UpdateNeverLost`; the run `mrdp_incompressible` shows that the
condition is needed) and `QuietIsRight` (`QuietShowsScreen`). They hold for
every number of tiles and viewers, every `MaxDraw` and `MaxReq`, and with broken connections and
full buffers. Not even the types are inductive: that a viewer can put pixels somewhere when
they arrive depends on what is in flight. The invariant has two parts:

* `Session` relates stub, connection and viewer: the negotiation's event is first and goes to a
  viewer that has just connected; the response is sent once, and only by a stub that has left
  `NEGOTIATE_0`; a stub in `NEGOTIATE_0` has nothing accumulated and nothing pooled; an
  established one has its response on the way or handled (`Attached`); pixels follow it.
* `Versions`: tile by tile, what the viewer shows is not newer than what is on its way, earlier
  messages not newer than later ones, none newer than the pooled message, that one not newer
  than the screen. This is what makes the message that a stopping server sends again harmless
  and every update a step of `ScreenMirror`.

Lemmas say what sending and taking a message does to each part (`ChannelSend`, `ChannelTake`,
`OrderSend`, `OrderTake`, …) and what posting an update can do (`PostCases`), so that the steps
only have to say which message is sent or taken. `QuietIsRight` follows from `NothingForgotten` and
`Session`: it says that the state `Converges` leads to is the right one.

**MrdpHandshakeProofs** proves `HandshakeNeverStalls` (`HandshakeGoesOn`). `Session` already says what
happens once the stub has left `NEGOTIATE_0`. `Hand` says what keeps a stub in that state going:
the event is the first message on its way to a viewer that has just connected, and a request
that the stub will accept is on its way from a viewer that has answered. Requests that the
viewer posted before it had an id may be ahead of that one; they change nothing in a stub in
`NEGOTIATE_0` and are taken before it (`RequestAdded`, `RequestLeft`).

**MrdpParserProofs** proves `TypeCorrect`, `NoWakeupMissed` (`NoMissedWakeup`), `SilenceHasCause`
(`SilentOnlyWhileBuffered`) and `ImplementsMessageStream` (`IsMessageStream`), for all sizes, limits and
numbers of messages. The invariant adds to these `Layout` (each message begins where the one
before it ends, and the last one ends at `written`) and `Place` (the parser stands where the
next message begins, or behind its header with its size in `payloadSize`, and has handled
exactly the messages before). Then a payload handled is the next message sent.
`NothingHeldBack` (`CaughtUp`) follows from the same invariant and `NoMissedWakeup`: when all bytes have
arrived and no call is queued, the parser stands at the end of the last message. With the
finding `mrdp_parser_stall` it says that the only way to stall is that Qt stops listening.

**MrdpLinkProofs** proves `TypeCorrect`, `NeverWithoutCompositor` (`NotifyFindsCompositor`),
`ConnectedOnce` (`NotifiedOnce`), `NoConnectionWhenStopped` (`StopHangsUp`), `ButtonAgrees`
(`ButtonTells`), `ParsesOnce` (`OneParser`), `NeverStuck` (`StopIsAhead`), `ImplementsUpdateQueue`
(`UpdatesHandledOnce`) and `ImplementsService`: `MrdpLink` is `MrdpService` with
more variables. The invariant of the service says what may be queued in each state of the
compositor thread (`Queue`): while it waits, a stop is the last event, and the only stop; a thread that has
ended has left no event behind; an update is queued only where the connection manager has its
compositor. `Threads` relates the waiting of the UI thread to that of the compositor thread and
of both to the mrdp thread. The invariant of the link (`Slots`) counts, per viewer, proxies and
slots: a connection, also one that closes, has at least one of each, and `slots` without a
connection come from attempts. `StopHangsUp` is inductive with it: only `doStopService` ends a
running service, it leaves no stub, and the thread that ends leaves no socket `closing`. For `UpdateQueue` the proof counts the updates in the queue: posting one adds an
index to `Waiting`, taking one shifts the rest (`WaitingPosted`, `WaitingTaken`), and none waits
when a service starts or a stop is handled (`NoneWaits`).

Assumptions that a theorem adds are in its statement: `AlwaysOn` for `FlushSafety` and `UiSafety`,
`"lzo" \notin Fault` for `NothingForgotten` and `QuietIsRight`, `Synchronised` for `LiveIfSynchronised`.
None is empty: `compositor_layers` satisfies the first and `mrdp_session` the second, and
`waveforms_registry` has behaviours in which waveforms are deleted, but never in that window.

Only model-checked: liveness (`FlushReturns`, `SessionOpens`, `Converges`, `ReadsOn`,
`CallsReturn`, `StopNoticed`), which the prover does not support. What is proved of them is that no
state is a dead end: `NoCircularWait` for `FlushReturns`, `HandshakeGoesOn` for `SessionOpens`,
`QuietShowsScreen` for `Converges`, `CaughtUp` for `ReadsOn`, `StopIsAhead` for `CallsReturn`.

## 5. Not modelled, and why

* Headers with a wrong length and a right checksum: the length is not checked on its own, and
  the arithmetic on it (`mrdp/mrdp.cpp:471`) matters only for a peer that is not this code.
* The life of the objects inside a handler: a write error in `sendExtraHeader` destroys the stub
  that is still sending, a stub whose first message cannot be written is listed all the same.
* What `startMRDPService` returns (`mrofs_pvr2d/qmrofscompositor.cpp:1753-1760` has no return
  statement), and a connection made within `connectToHost`, whose `connected()` would come
  before the viewer connects its slots.
* Input requests, screen resize (called once, before any stub exists), the close handshake
  (no code starts it) and uncompressed updates (no viewer asks for them) of the remote display.
* The list of a view torn by `createWaveform` while another thread walks it; images that
  `setWaveformSize` reallocates while the waveform thread draws into them.
* `BATCH_BLT`, which draws at most 64 rectangles: a build option that is off.
* Blits, pixel formats, device set-up, V4L2, X and PVR2D: calls into drivers.
* The XCB, Windows and GLES2 plugins: near copies of the one that is modelled.
* Input manager and screen scrolling: sequential, or protocols of an external service.

## 6. Plan

Done: `Compositor` with its refinement of `AtomicScreen`, `WaveClip`/`Waveforms`, `Mrdp`
with its refinement of `ScreenMirror`, `MrdpParser` with its refinement
of `MessageStream`, `MrdpService`, which implements `UpdateQueue`, and its composition
`MrdpLink`, each with its proofs. The order was chosen by how much of the rest depends on
it: the remote display and the waveforms both rely on the compositor's exclusion, the
sessions on the messages and on the service.

What is left, in this order:

1. Proofs: that a composition of `Waveforms` is one of `AtomicScreen` where their images overlap,
   so that the two models of the compositor are tied by a theorem; the condition
   of `ParsesOnce` (`again`) as an action property of the viewer alone.
2. `Waveforms`: the images behind the waveforms, the list torn by `createWaveform`.
3. The life of stubs and transceivers inside their own handlers.
4. Smaller sequential parts: `ScreenScrollController` and the input manager's modifier state.
