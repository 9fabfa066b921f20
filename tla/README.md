# Verification of zwwm

zwwm is a Wayland compositor written in C++ with its own protocol library (zwayland), renderer,
configuration language (zw-lang), terminal (zterm), control tool (zwwmctl) and desktop portal.
This directory holds TLA+ models of its concurrent and event-driven core, the TLC configurations
that check them on small instances, and TLAPS proofs that hold for every instance.

Contents: 1 inventory of the system; 2 plan; 3 the modules and the code they model; 4 what each
run checks, with its bounds; 5 fairness; 6 proofs; 7 findings; 8 what is not modelled.

To check everything: `tlc -config X.cfg M` for each run of `PROJECT.json`, `tlapm M_proof.tla` for
each proof module.

## 1. Inventory

The compositor is one single-threaded process around `zwayland::server::EventLoop` (epoll). Every
other part is a callback of that loop: client sockets, timers, idles, DRM page flips, signals.
What makes it hard is therefore not data races but *orders*: a callback that destroys what the
loop is about to visit, a client that acts on what the server has already changed, an event for
an object that is gone, a reply to a transaction that is stale, a lock that must hold while
outputs and clients come and go. Three more processes talk to it over the same protocol library:
the portal helper, `zwwmctl` and any application that links `libzwayland-client`.

### The protocol library

| component | sources | state | operations | hard behaviour | correctness |
|---|---|---|---|---|---|
| wire connection | zwayland/wire/src/connection.cpp | output chunks and descriptors, input chunks and descriptors, cursor, failed/closed | queue, flush, read_available, next_message, consume | two streams kept in step, partial sends, EAGAIN, caps | FIFO, each message with its own descriptors, EPOLLOUT armed, bounded input |
| message coding | zwayland/wire/src/message.cpp | none | encode and decode of arguments | lengths, padding, truncation | decode inverts encode, malformed input is refused |
| event loop | zwayland/server/src/event_loop.cpp | `fds_`, `timers_`, `idles_`, wake descriptor, `running_` | add/remove/update of sources, timers, idles; run; stop | callbacks change the tables the loop walks; descriptor numbers are reused | an event reaches only what it was reported for; one-shots run once; idles run; stop ends |
| object ids | zwayland/client/src/display.cpp, zwayland/server/src/display.cpp | proxies, zombies, `deleted_ids_`, resources | create, destroy, delete_id, dispatch on both sides | ids reused while messages are under way | messages reach the object they were meant for; ids are neither reused early nor lost |
| server clients and globals | zwayland/server/src/display.cpp | clients, globals, registries, clients to remove | add_client, bind, add/remove/destroy_global, post_error, Client::destroy | destruction in id order while handlers point at each other; removal during dispatch | no dispatch to a dead client; a retired global can still be bound safely |
| scanner | zwayland-scanner/main.cpp | none | generates bindings | version and opcode checks of the generated code | modelled only as used by object ids |

### The compositor

| component | sources | state | operations | hard behaviour | correctness |
|---|---|---|---|---|---|
| desktop | zwwm/src/compositor_server.cpp, \_input.cpp | surfaces with xdg state, outputs (tag, fullscreen slot), active output, focus and remembered focus, policy | xdg requests, commits, keys, buttons, manager requests, set_outputs | pointers to windows that go in any order; unplugged outputs; a manager that takes over | no window stranded, no dangling focus, clients told the truth, slots respected |
| xdg configure/ack | compositor_server.cpp | sent and acknowledged configures, accepted sizes | send_configure, ack, commit | several configures under way, commits before ack | a commit is judged by the configure it answers |
| layers and focus grabs | compositor_server_layer_shell.cpp, \_focus_grab.cpp, compositor_server.cpp | layer roots, exclusive zones, grab and its whitelist | commit of layers, keyboard interactivity, activate/dismiss | grab armed while its surfaces die | focus returns, no dangling focus |
| session lock | compositor_server_session_lock.cpp | lock object, lock surfaces, presented flags | lock, commit, page flip, unlock, client death | races of lock clients, frames under way, destruction in any order | nothing of a window visible while locked; `locked` only after |
| data exchange | compositor_server_data_device.cpp, compositor_server_xwayland_selection.cpp | selections, offers, drag | set_selection, receive, drag and drop | source or target dies during a drag | offers name live sources |
| buffers | compositor_server_buffers.cpp | wl_buffer use counts, dmabuf parameters, shm pools | attach, commit, release | buffer destroyed while shown | released once, never shown after release |
| input | compositor_server_input.cpp, \_touch.cpp, \_virtual_keyboard.cpp, \_idle.cpp | pressed keys, touch points, idle timers | events, resets, VT switch | keys released elsewhere, focus changes with keys down | each press has its release |
| layout | layout/*.cpp, camera.cpp, animation.cpp | ratios, weights, Fibonacci leaves, viewports | arrange, resize | degenerate areas, rounding | tiles cover the area without overlap |
| window manager protocol | window_manager_protocol.cpp, manager_protocol.cpp, client_connection_protocol.cpp | managers, policy owner, transactions, notices | claim, release, actions, commit | several managers, death of the owner | one owner; no lost update |
| layout manager protocol | layout_manager_protocol.cpp | provider, slots, requests, accepted placements | request, place, commit | stale serials | a placement is exactly what was asked for |
| configuration | runtime_config.cpp, main.cpp, zw-lang | configuration in force, revision, shader override, watcher | reload, transaction, watch | reload races with transactions; a part refuses half way | all or nothing, no lost edit |
| KMS backend | runtime_backend.cpp | devices, outputs, frames, cursor, VT | present, page flip, rescan, suspend, resume | flips for outputs that went, hotplug, VT switch | one frame under way per output; every frame finished or given up |
| nested backend | nested_backend.cpp, nested_backend_touch.cpp | host toplevels, frame callbacks, buffers | as above on a host compositor | host closes a window or the connection | as above |
| renderer | zwwm-renderer | textures, targets, shader programs | prepare, commit, draw | programs switched on several GPUs | programs agree with the configuration |
| Xwayland | compositor_server_xwayland.cpp, xwayland_spawn.cpp | X windows, pairing with surfaces, spawn state | map, configure, focus, start/stop | X and Wayland halves arrive in any order | paired once, unpaired on either death |
| plugins | plugin_loader.cpp | modules, actions | load, configure, dispatch | a plugin fails half way | no action of an unloaded module |
| portal capture | portal_capture.cpp, xdg-desktop-portal-zwwm/src | capture sessions, frames, PipeWire stream | start, frame, stop, revoke | helper dies, source window goes | at most one request under way; authority revoked |
| error popup, decorations, surface extensions | error_popup.cpp, compositor_server_decoration.cpp, \_surface_extensions.cpp | small per-surface state | protocol requests | orphaned objects | popup modelled with configuration |

### Other programs

| component | sources | why it matters here |
|---|---|---|
| zterm and libzterm | zterm | a terminal: escape-sequence state machine, scroll regions, a daemon that serves windows |
| zwwmctl | zwwmctl | a client of the manager protocol; its waits matter to the transactions |
| zwwm-egl, zwwm-session, build files, protocol XML | zwwm-egl, zwwm-session, nix, zwwm-protocols | glue, scripts and data |

## 2. Plan

The order was: first what everything else runs on (bytes, loop, ids), then what protects the user
(lock, configuration), then the desktop, then the backends, the surfaces and the input that meets
them, and the other programs.

| step | modules | composes / implements | status |
|---|---|---|---|
| 1 | `WireChannel` (abstract), `WireConnection` | the connection implements the channel | checked, proved |
| 2 | `EventLoop`, `ObjectIds` | `ServicesMC`; the channels of `ObjectIds` are `WireChannel`s | checked, proved |
| 3 | `SessionLock` | `SessionLockMC` | checked, safety proved |
| 4 | `RuntimeConfiguration` | the contents of the run are at its end | checked, safety proved |
| 5 | `Desktop` | the bounds of the run are at its end | checked, proved |
| 6 | `LayoutManager` | with the connection in `ProtocolsMC` | checked, safety proved |
| 7 | `CrtcAssignment` (what a maximum is, and the search), `KmsBackend`, `Scene`, `NestedBackend` | `FramesMC`; its search is compared with the maximum on every input of three connectors; `KmsBackend` uses the abstract matching | checked; proved but for the search |
| 8 | `Buffers`, `Popups`, `Pointer`, `Regions`, `Keyboards`, `Touch` | `FramesMC` (buffers), `InputMC` (pointer, keyboards, touches), `SurfacesMC` (the latter, popups and regions) | checked; `FramesMC` and `InputMC` proved |
| 9 | `Layers`, `Tiling`, `Floating` | `PeersMC` | checked |
| 10 | `Selections`, `Xwayland`, `XSelection`, `XDisplay`, `PortalCapture`, `Portal`, `PipeWireStream`, `Clients`, `WindowManagers` | `PartnersMC` (the X display, the portal and its streams, the managers), `PeersMC` (all of them) | checked; `PartnersMC` proved |

Left to do, in this order: the invariants of steps 8 to 10 that are only checked so far (the
parts of `SurfacesMC` and `PeersMC` that are not in `InputMC` and `PartnersMC`); cross products of the
parts of a run where two components share state (the seat of `Pointer`, `Keyboards` and `Popups`).

## 3. Modules

**WireChannel / WireConnection.** The channel is a FIFO of messages with their own descriptors.
The connection counts bytes and descriptors of both directions of travel cumulatively: what is
queued (`queued`, ends of every message), sent, received and taken. `SendEvent`, `PostError`,
`SendBatch`, `FlushEnd` are `Client::post_event`, `post_error` and the iterations of
`Connection::flush()`; `Receive*` those of `read_available()`; `Dispatch` is `next_message()`
with `consume()`. The kernel chooses how much of a sendmsg is taken and how a recvmsg is cut.
The abstraction: a byte has no content; the descriptor batch travels with the first byte of its
sendmsg (`mark`).

**EventLoop.** `fds`, `timers`, `idles` are the tables of the loop; `batch` is what epoll_wait
returned, `todo` the snapshot of idles, `current` the callback that runs. User code
(`AddFd ... Stop`) acts before `run()` and inside callbacks only, since the process has one
thread. A descriptor number that was closed may come back at once.

**ObjectIds.** Each object is numbered so that a message can be told to reach the object it was
sent for or another one that took its id. `Destroy`, `Drop`, `Acknowledge`, `DispatchEvent` are
the client's `destroy_proxy`, the proxy of a finished callback going out of scope, `delete_id`
and the dispatch loop; `HandleRequest`, `DestroyResource`, `Finish` the server's.

**SessionLock.** `lock` and `lsurf` are `SessionLockState` and `LockSurfaceState` (with what the
client still holds of them), `scene`, `flip`, `due`, `front` what the backend draws, has handed
to the hardware, and shows. `TearDown` destroys the resources of a dead client one by one, in any
order that ids allow.

**RuntimeConfiguration.** `current` is the configuration with its address (addresses are reused),
`dev` the GPUs with their renderer, program and prepared program, `tx` the transactions; the file
part is the directory, the file, the watch and the inotify queue. `Install` is the common end of
every path that puts a configuration in force. The proofs assume what the model does, that making
a GPU's context current succeeds when prepared programs are switched or given up.

**Desktop.** `win`, `outs`, `active`, `seat`, `policy` are the fields of `SurfaceState`,
`XdgSurfaceState`, `OutputState`, `Observer` and `SeatState` that decide where a window is, whether
it is visible and who has the keyboard. `told` is what the last configure of a window said of
`activated`. Each handler is one action up to and including its `configure_layout()`:

| action | code |
|---|---|
| `GetToplevel`, `SetParent`, `ClearParent`, `SetFloating`, `Fullscreen`, `Unfullscreen` | `get_top`, `set_toplevel_parent`, `set_floating`, `toplevel_fullscreen`/`set_fullscreen` |
| `CommitMap`, `CommitUnmap` | the toplevel part of `surface_commit` |
| `DestroyToplevel`, `DestroySurface`, `Disconnect` | `top_destroyed` + `xdg_destroyed`, `surface_destroyed`, `Client::destroy` |
| `SelectTag`, `MoveToTag`, `FocusOther`, `MovePointer`, `Press`, `SuperDrag`, `Relayout`, `InputReset` | keys, buttons, motion and touch; the resets of a nested session |
| `ControlFocus`, `ControlNoFocus`, `ControlHidden`, `AssignWindow`, `SetPolicy` | `control_window`, `assign_window`, `set_external_policy` |
| `SetOutputs` | `set_outputs` |

Windows are numbered in the order of `Observer::surfaces`, outputs in the order of their
connectors, because fallbacks take the last and `set_outputs` the first.

**LayoutManager.** `slots` is the map of `LayoutManagerProtocol::Impl` (a slot for each tag; serial
0 where the map has none), `win`, `focus`, `shown`, `area` what a request is made of, `told` what
`configure_layout()` last told each window, `pending` the idle of `invalidate()`. A rectangle is
the serial of the batch it came with. `Round` is one `configure_layout()`, with the exchange with
the provider in it; every handler ends in one round, two rounds, an announcement, or nothing.
The handlers that end in nothing set `silent`.

**KmsBackend, CrtcAssignment.** `dev` is one DRM card: its outputs (`DrmOutput`
objects that are created, retired and deleted), the frame each has under way, `needs_repaint`, and
whether the seat is active; `monitor`, `card`, `udev` are the world. Each handler is an operator
from a state of the card to the set of states it may leave, because every draw, modeset and flip in
it may fail; the action picks one. `CrtcAssignment` is `assign_crtc()` with its depth-first search;
`KmsBackend` takes any maximum matching that keeps what must be kept (`Maximum`), and the run
`frames` shows that the search is one.

**Scene.** The items, textures and animations one output keeps for the surfaces of one window: what
is imported, copied, fading, sliding, and dropped at the end. **NestedBackend.** `link`, `nb`,
`win`, `seat` are the fields of the nested backend, `parent` what the parent compositor owes it
(frame callbacks, releases, configures); its renderer is EGL or one shared-memory buffer.

**Buffers.** `surface` holds the pending and the current buffer of each surface, `buffer`, `pool`,
`params` the counted structures behind the protocol objects, `busy` what the client waits for.
Commits, destructions and the late error of a lock surface's commit keep the order of the reference
counts in the code.

**Popups.** `obj[s]` has the wl_surface, the xdg_surface or layer object and the role of every
surface with the pointers between them; `seat` the focus, the popup grab and the focus grab with
its whitelist; `torn` the objects of a client that is being torn down, which go in the order of a
hash map. Where a pointer dangles and is used, the model stops.

**Pointer, Regions, Keyboards, Touch.** The fields of `SeatState` that each device uses, the
protocol state clients believe (`told`), and what the user holds (`held`). `Pointer` has moves,
resizes, panning, drags, constraints and the overview; `Regions` wl_region arithmetic and
confinement on a small grid; `Keyboards` the keys of physical and virtual keyboards, bindings and
idle; `Touch` contacts with the objects they were announced to and the frames they are owed.
`StartDrag` needs no more than the press that the client names, also while the window of that press
is moved (`crossed` remembers it); the press of a button on the background starts a pan; `Unmap`
ends the window's constraint, as the recomputation of its rectangles in `surface_commit` does.

**Layers, Tiling, Floating.** `Layers` arranges layer surfaces: configure exchange, exclusive
zones, keyboard. `Tiling` has master-stack and the persistent tree of focus-fibonacci on exact
tenths; `Floating` one dimension of a floating window through moves, resizes, hints and rules, which
may also tile the window while it is dragged.

**Selections, XSelection.** Sources, offers, selections, drags; and the clipboard's translation to
and from X, in which the X server's answers are queued and may be stale. **Xwayland.** Windows and
surfaces meet by a serial that arrives on two sockets; Xwayland dies and restarts. **XDisplay.** The
lock file, the socket file and the abstract socket of a display number, with a stop at every system
call of several sessions that start. The sockets go to Xwayland and the compositor closes its copies
after the fork, so `ServerEnds` frees the name while the session keeps the number. `raced` are the
numbers where a lock was removed that was stale only when it was looked at.

**PortalCapture, Portal, PipeWireStream.** The compositor's half of a capture with its child
process and the messages in both directions; the portal's calls, casts, screenshots and timers; the
stream with PipeWire's own thread. The portal's timers know a session by its path only, and nothing
keeps an application from using a path again: `again` marks a session made while such a timer runs.

**Clients.** `Display`'s clients from accept to removal, registries and globals, with events and
binds under way in both directions. **WindowManagers.** The owner of the policy, and the notices
of changes, gathered by an idle, with serials that managers answer by asking for the state.

**FramesMC, InputMC, SurfacesMC, PartnersMC, PeersMC, ServicesMC, ProtocolsMC.** Components that do
not share state are checked side by side: a behaviour belongs to one `part`, whose module runs while
the variables of the others rest. `PeersMC` extends `PartnersMC`, and `SurfacesMC` `InputMC`, by the
parts nothing is proved about. In these four (not in `FramesMC`) the parts use the same variables
`v1`..`v10` under the names their modules declare, so that the states of unused parts cost nothing.
The property of a part is stated with its module; a composite names the question and conjoins the
answers of the parts (`SurfacesSound`, `ExchangesSound` and so on).

## 4. Runs

Each run asks one broad question; its bounds are those of its `.cfg` and `MC` module. Bounds on
counters are constants of the modules (`MaxMessages`, `MaxSources`, `MaxHandles`, `MaxObjects`,
`MaxInFlight`, `MaxPending`, `MaxQueue`, `MaxSerial`, `MaxUdev`, ...).

| run | question and result | bounds, and why they are enough |
|---|---|---|
| `protocols` | Do bytes and descriptors stay in step, is output never forgotten, does the connection implement a FIFO? Is an external layout asked for what there is, and does the exchange come to rest? Yes, but see the floating windows below. 113 000 states | wire: 3 messages of three shapes (none, fewer, more descriptors than a batch takes), headers of 2 bytes and a socket of 3 so that every split occurs, an input cap below what can be sent. Layout: two windows of which one stays (`Settled`), two tags, a work area that changes; three requests: one answered, one that replaces it, one more for the idle |
| `services` | Can a callback that changes the tables make the loop run something stale, twice or never? Does every message reach the object it was meant for when ids are reused? No; yes. 149 000 states | two descriptor numbers, two registrations, two handles: enough to close, reuse and re-arm within a batch of two. Two client ids, one server id, three objects, two messages each way: an id is reused while both directions are full |
| `lock` | Is nothing of a window visible while locked, who unlocks, when does `locked` come? In the scene and in new frames, nothing is. 307 000 states | one client with two outputs that come and go, or two clients with a lock each and one output of two sizes; one lock surface, one window |
| `config` | Are reload, reload request and transaction all-or-nothing, without lost updates and lost edits? Yes. 478 000 states | two GPUs, one transaction, three addresses, revisions modulo 2: the revision wraps and addresses are reused; GPUs and addresses are interchangeable (symmetry) |
| `desktop` | Can a window be stranded, the focus dangle, an application be told wrongly that it is active, a fullscreen slot be stolen, a policy be bypassed? No. 233 000 states | two windows of one or two applications, two outputs, two tags. `Bound` keeps: the first window to the first application; one window at a time hidden, floating or a child; two windows meet either a second output or a second tag, one window meets both; two windows with a hidden or floating one among them, or with a policy, belong to two applications and meet one output. A fallback needs two windows, a stale output two outputs, a foreign slot both |
| `frames` | Do the backends and the buffers account for every frame, import, device and reference whatever fails or goes away? Yes. 277 000 states | every input of three connectors and CRTCs (with one kept, one busy, two driven orders); two connectors on one CRTC with two output objects and one udev event waiting; a window and a subsurface; one nested window; two surfaces (one of the lock), two buffers, one pool, one params object |
| `surfaces` | Do surfaces and input stay sound in whatever order clients, objects and devices go? Yes. 478 000 states | a window with two popups, or a window, a layer surface and a popup; two windows and a button with constraints, or one window and two buttons of which one pans; three rectangles on a grid of 3 by 3; two clients, two keys, one virtual keyboard; two surfaces, three touch objects, two contacts |
| `peers` | Are things placed where they belong, and do the exchanges with other programs end well? Yes, with the exceptions of section 7. 1 610 000 states | two layer surfaces, three tiles, one floating window; three clients with two sources; one X window with two surfaces and two serials; one X request, queues of three; two sessions for two display numbers; two windows and one frame; a monitor and two portal calls on one path, or a window and one call; two PipeWire buffers; two globals with two clients or with two registries; two managers, two kinds of change, three serials |
| `lock_hidden`, `lock_focus`, `lock_deleted` | findings, see 7 | one client |
| `desktop_fullscreen` | finding | as `desktop` |

What the properties say, and why they are not obvious:

- `FdsComplete`: a message is dispatched only with all its descriptors, although
  the kernel may take any part of a batch; `ImplementsChannel` is the refinement.
- `CallbacksAreDue`, `CallbacksKept`: the loop compares what it captured with what is registered
  before it runs a callback; each comparison has been dropped in a mutant.
- `MessagesReachTheirObject`: events and requests meet the object they were made for, descriptors
  of events for the dead are taken off the stream, an id is held back while its `delete_id` is owed.
  `IdsComeBack`: and no longer, unless the client gives up the connection: `SendMention`, an event
  that mentions an object the client has destroyed since, makes it do so.
- `SceneFollowsLock`, `NoNewNormalFrame`: every path to the scene looks at the lock and everything
  comes back afterwards. `OnlyHolderUnlocks`, `SentOnceCovered`: unlocking, the liveness of `locked`.
- `NothingHalfDone`, `HandlersAreWhole`, `NoLostUpdate`: the transaction properties, with a part
  that refuses at every point, and no edit of the file forgotten.
- `WindowsOnOutputs` and `FocusAlive`: the two raw references of the desktop (output ids and
  surface pointers) are good after every handler, with any order of unmap, destroy, unplug, move.
- `ActivatedAgrees`: `activated` is a copy of the focus at the applications. The model marks it
  outdated after the steps that move the focus and configure nobody (a Super drag, the input reset
  of a nested session, windows without a toplevel role); after every other step it must agree for all
  windows on screen. A window on a tag that is not shown may keep a stale `activated`.
- `FullscreenKept`: no handler (fullscreen request, hide, unplug, tag) hands a taken slot over.
- `PolicyDecidesFocus`: `external_policy` is looked at in two distant places, `surface_commit` and
  `focus_fallback`; both have to agree with zwwm-protocols/README.md.
- `LayoutsCurrent`: at rest, the newest request describes the windows there are, so that its answer
  is not refused as stale, and a batch that is accepted places every tiled window exactly once. Some
  twenty handlers have to configure or announce for that. It excludes the steps that do neither
  (`silent`): `unset_modal`, `set_parent` without a parent, a float before the first map, the start
  of a tiled resize, and a key that unfloats a focused window of a hidden tag.
- `LayoutSettles`: a round announces only what it has changed. While a floating window is on the
  screen that is not so: it is announced in every round, and each announcement asks for a round.
- `OutputsAccounted`, `ChangesAreDrawn`, `HoldingsAccounted`, `RetiredGo`: a page flip finds its
  output, no two outputs share a CRTC, a change that must be drawn will be, imports are neither lost
  nor drawn after their release, reference counts of buffers are exact, mappings and descriptors have
  an owner, every release comes and none too early, and outputs without a monitor are closed in the end.
  `SearchIsMaximum`: the search for CRTCs lights as many connectors as can be lit.
- `SurfacesSound`: popups stand on what exists and close with it, and the focus and the grabs of
  the seat are not on a popup that is gone; a region is what it was made of and a confined pointer
  stays in it.
- `InputSound`: a button that a client saw pressed is released there, unless a step took the grab
  away in between (`cut`); a gesture ends with its button, but for a move during which its client
  began a drag (`crossed`); one constraint is active, where the pointer is; and no key or contact
  stays down in a client when a surface, a device or the scene goes away.
- `ExchangesSound`: selections and offers name live sources that still serve, unless one was selected
  again after it was cancelled (`reused`); the source of a drag hears how it ended, unless the
  receiver lost the focus during it (`lost`); the compositor and Xwayland agree about windows,
  surfaces and focus; X requests are answered once; two sessions never serve the same display, and a
  number that is kept is taken by nobody else but after a race for a stale lock (`raced`); registries
  become current; managers never rest on an old state.
- `PortalSound`: frames and calls end once, nothing is captured before the user has chosen it, unless
  the session was made again under its path within 350 ms (`again`); the child is restarted,
  PipeWire's memory is freed once.
- `PlacesSound`: layer surfaces are where the others leave room now; tiles cover without overlap;
  floating windows do not creep; and which steps may move what.

Every property has a mutant: a plausible error in a mapped definition (a missing guard, a missing
reset, a wrong order) under which TLC finds it violated.

`CHECK_DEADLOCK FALSE` stands where the modelled world may stop: a connection closes, the loop
ends, ids, messages or requests run out, locks, transactions and sessions are used once, or a
modelled program ends. The desktop and the backends never stop and are checked for deadlock (in `frames`, the part with
the buffers of one client may rest).

## 5. Fairness

- `protocols`: both event loops keep running, so a writable socket is flushed and a readable one is
  read (weak fairness of each stage); nothing is assumed of the kernel's segmentation. The idle of
  `invalidate()` runs (weak), as `services` shows of idles.
- `services`: the loop's own steps and the return of callbacks are weakly fair; user code, readiness
  and expiration are not. Each side dispatches what has arrived (weak); no application is assumed to
  send.
- `lock`: a tear-down is not interrupted (weak), and the hardware completes each frame: strong
  fairness, because a tear-down disables the handler between its steps while the event stays pending
  in epoll. Clients and outputs are not fair, so the liveness property says what happens once the
  surfaces of the lock are mapped and the output stays.
- `frames`: page flips that are under way complete and udev events are dispatched (weak).
- The other runs check safety only.

## 6. Proofs

A proof module extends the module it is about, or the MC module that composes the parts of a run,
and proves an inductive invariant from which the named theorems follow. They hold for arbitrary (for
some, infinite) constants under the named assumptions. Where the module is an MC module, the
theorem is about its specification `MCSpec` and every constant of it that no definition fixes.

| module | theorems | assumptions | argument |
|---|---|---|---|
| `Protocols_proof` | `TypeCorrect`, `FdsAlwaysComplete`, `NeverStranded`, `OutputAlwaysArmed`, `InputAlwaysBounded`, `RefinesChannel` | `LimitsAssumption`, `ShapesAssumption` (a message has at least a header; at most `MaxFdsPerSend` descriptors per byte) | ends of messages are ordered; for every byte sent, the descriptors of the messages that end there have been sent (`CoveredSent`), and what waits can still be covered by the bytes that wait (`CoveredPending`): this is what makes `NoStrandedFds` inductive |
| | `LayoutsAreCurrent` | `LayoutAssumption` | serials only grow, and what the server knows of a client's answer is either of the batch asked last or recognised as old: `Named`, `Drafted`, `Current`, `FoundIsWhole`, `CompleteIsWhole` |
| `Services_proof` | `CallbacksDue`, `OthersAreKept`, `TypeCorrect` (the loop) | `BoundsAssumption` of `EventLoop` | an id that was given out is not given again (`GivenOut`, `Distinct`), and what is still to come has not run (`NotYet`): so what runs once stays run |
| | `TypesAreOK`, `MessagesArrive` | `IdsAssumption` of `ServicesMC`: the two ends' ranges of ids are disjoint | what each end believes of an id, with what is on the way, always adds up to one life of the object (`IdsInv`) |
| `SessionLock_proof` | `TypeCorrect`, `SceneIsRight`, `FocusSafe`, `SingleHolder`, `HiddenWhileLocked`, `NoNormalFrame`, `HolderUnlocks` | `SessionLockAssumption` | an accepted lock is the seat's lock and lives; lock surfaces in the scene belong to it; focus and remembered focus are alive |
| `RuntimeConfiguration_proof` | `TypeCorrect`, `LostUpdates`, `WholeHandlers`, `HandledWholly`, `PreparationsEnd`, `Refusals` | `ConfigurationAssumption` | a transaction pins its base, so that the address of a base that is still current means the same object (`Pinned`, `Drafted`): this is why the wrap of the revision does no harm |
| `Desktop_proof` | `TypeCorrect`, `NoWindowStranded`, `FocusNeverDangles`, `ClientsAgree`, `FullscreenNeverStolen`, `PolicyRulesFocus` | `WindowsAssumption` (finitely many, numbered), `OutputsAssumption`, `TagsAssumption` | types, placement and focus are proved together, since a new window's output is the active one and the focus is chosen among windows on shown tags; `ClientsAgree` is inductive on top of `IInv`, action by action: whole layout, one window, or a step that configures nobody and shows nothing new |
| `Frames_proof` | `FramesTypes`, `FlipsAccounted`, `NothingLeftUndrawn`, `NothingHeldInVain` | `KmsAssumption`; `BuffersAssumption`: finitely many surfaces and buffers, `None` is neither a buffer nor a pool, parameters are not buffers | one invariant for each backend and one for the buffers. KMS: a page-flip event finds the output that waits for it or its retired record (`EventsMeet`, `RetiredWait`), no two outputs share a CRTC (`Placed`, `Apart`), and an output whose picture is old has a repaint to come (`AllDrawn`). Scene: what is shown is drawable, a renderer that is off keeps nothing (`Drawable`, `OffIsEmpty`, `TreeGone`, `Owing`). Nested: a buffer is the parent's until it releases it (`Whole`, `Awaited`). Buffers: paragraph below |
| `Partners_proof` | `PortalIsSound`, `DisplaysExclusive`, `ChangesReachManagers`, `SerialsInOrder`, `PolicyOwned`, `PartnersTyped` | `PartnersAssumption`: `None` is no value of another kind, paths are no handles, finitely many windows and frames, `MaxSerial` positive | of `PartnersSpec`, the part of `PeersMC`'s specification with the portal, the X display and the managers; paragraphs below |
| `Input_proof` | `InputInvariance`, `InputIsSound`, `InputTyped` | `InputAssumption`: `None` and the names of the physical keyboard and of `ls` are no value of another kind, the small cast of a part is part of the large one, `Timeout` positive | of `InputSpec`, the part of `SurfacesMC`'s specification with the pointer (twice, with other sets of windows and buttons), the keyboards and the touches; paragraph below |

**The portal.** `PortalSound` has three parts, each with an invariant of its own. `StreamInv`: before
the stream has its node only failures were posted, so `ready` is first and single (`ReadyLeads`); a
buffer's memory needs the devices and the pool (`MemoryInv`). `CaptureInv` follows the two ends of
the pipe between the portal's child and the service: a frame's terminal event is under way exactly
once, or never (`EndsInv`); a window that the child does not know yet is announced or its closing is
on the way (`KnownInv`); `ProcessInv` and `EndedInv` say what a dead child leaves. `PortalInv` says
of the portal's process which call keeps which dialog or timer, which session keeps which frame, and
who is served: `Kept(st, ps, hs)` is stated of a record `st` of the state with the sets of sessions
`ps` and calls `hs` that wait for a frame which is already taken away. Handlers call each other
(`Failed` drops frames, then ends screenshots, then closes sessions); in between the state is not
`PortalInv`, and `Kept` with its two sets is what one leaves for the next. A session marked `again`
may capture before its user has chosen and have two frames in flight, of which one is waited for;
the invariant says of the others that a frame in flight is the one its session waits for.

**Buffers.** `BuffersInv` counts: the references of a buffer are the surfaces that hold it (pending
or current), its object, and the one that the late error of a lock surface has lost (`StoreInv` of
the store and the *expected* counts, so that it can be said of the middle of a handler, where the
slots and the counts disagree by the reference that is on its way). A pool's `buffers` is the number
of buffers that lie in it (`PoolsKept`), a descriptor has one owner (`FdsKept`). On top of the
counts: who waits for a buffer has its object and a surface that will release it (`Waiting`), a
buffer that two surfaces show was committed on both (`SharedKnown`), and one that is shown is waited
for or was shared (`ShownWaits`). The handlers of the code are sequences of taking and dropping one
reference; each of the two has one lemma.

**X displays and managers.** In `XDisplay` nobody binds a name that is taken: who serves a display has
its abstract socket (`HolderListens`); who keeps a number, before its server runs and after that
ended, has the lock file, unless another session removed it in the race (`KeeperLocked`). What
a manager has not heard is owed: a notice is pending, or its question is on its way (`Owed`);
nothing is owed to who is not bound (`Unbound`), and what was heard is never ahead of what there is,
nor of what follows it (`NotAhead`, `Ordered`).

**Input.** `InputInv` has one invariant for each device. The pointer's (`Seated`) says of every
pressed button that it is the one of the compositor's own gesture, or was cut off by a step that
took the grab away, or is down in exactly the client that has both the grab and the focus; that a gesture of
the compositor has its button, and a move any button unless it is `crossed` by a drag; that each
window has one constraint, which is active only while the window has the focus; and that the cursor
is hidden for a lock only while one is active. The handlers are compositions of the same few (`SetFocus`, `EndMove`, `SetKeyboardFocus`,
`UpdateConstraints`), and between two of them the invariant fails in one known way: each helper has
a lemma that says what it changes and which clauses it gives back. The keyboards' (`KeysAt`) says
that what is down is held by a source, that each key that is down has been taken by one taker, and
that the told clients know of just the keys that nobody took: `Known(st, kb, ks)` is stated with the
keys `ks` that are on the way. The touches' (`TouchInv`): a contact is down in exactly the objects
that were told of it (`Told`), all of one client, which lives (`Recipients`); a client with an event
that no frame has ended is owed one (`FramesDue`).

Only model-checked:

- Liveness (`EventuallyHandled`, the part `IdlesRun` of `CallbacksKept`, `IdsComeBack`, `SentOnceCovered`,
  `LayoutSettles`, `RetiredGo`): TLAPS proves neither liveness under fairness nor ENABLED.
- `SearchIsMaximum`: what the recursive search of `CrtcAssignment` returns for every input is
  induction over data. `KmsBackend` is proved with the abstract `Maximum`.
- Those parts of `SurfacesMC` and `PeersMC` that `InputMC` and `PartnersMC` do not hold (`TypesOK`,
  `SurfacesSound`, `ExchangesSound` and `PlacesSound`): popups and regions; layers, tiling
  and floating windows, selections and X selections, Xwayland's windows, the registries. The walks
  over sequences and trees in `Regions`, `Popups`, `Layers` and `Tiling` are folds and recursive
  functions, and so induction over data; about the others no theorem has been attempted.

## 7. Findings

1. `lock_hidden`: a page flip of a frame submitted before the lock counts as presentation of the
   lock surface; `locked` can be sent while a window is still on the screen
   (compositor_server_session_lock.cpp:218). The frame in question is the last one before the lock,
   so the exposure lasts one refresh.
2. `lock_focus`: `surface_commit` and `surface_destroyed` move the keyboard focus to a window
   during a lock (compositor_server.cpp:2118, 1802).
3. `lock_deleted`: a lock that was refused and destroyed leaves its lock surfaces with a dangling
   pointer, which their destruction reads (compositor_server_session_lock.cpp:153).
4. `desktop_fullscreen`: an application that crashes while fullscreen leaves its output's slot
   taken: the wl_surface goes before the toplevel, `top_destroyed` does not find it any more, and no
   other window can be fullscreen on that output until it is unplugged (compositor_server.cpp:2382,
   2850).

Seen while modelling, without a line in the repository that says otherwise (listed as hazards where
they bite): `set_parent` moves a fullscreen window without touching either slot (2410); a window
that maps hidden or on another tag takes the keyboard (2111); `movetotag` and `select_tag` on an
output that is not active leave the focus on a window nobody sees; an application that sets
fullscreen before it maps and matches a floating rule is both; during the end of a client a
`transient_parent` may point to a deleted xdg state; with an armed focus grab `set_keyboard_focus`
refuses the fallback of a dying surface (2665); with two outputs, clients that re-commit in
turn can postpone `locked` for ever; a refused lock's surfaces are drawn; a lock surface's commit is
judged by the configured, not the acknowledged, size; a GPU without outputs keeps old programs and
shows them when a monitor returns; a keyboard section that does not compile ends the start of the
compositor, and one that is reloaded is refused without the popup that CONFIG.md 22-24 promises
(main.cpp:166); with a layout provider and a floating or fullscreen window on the screen the idle of
`invalidate()` asks for itself for ever, and managers get `changed` without end (main.cpp:287,
compositor_server.cpp:1072-1104); a request for the shown tag can name a window of another tag.

The later modules showed these, again without a run of their own; where a property would be broken
by one, the property says which states it excepts (by a history variable: `lost`, `cut`, `crossed`,
`reused`, `raced`, `again` or `thin`):

- Backends. A surface that moves to another output of the same card loses its live import when the
  old output's closing animation ends (runtime_backend.cpp 1533-1545). `assign_window` and a
  fullscreen on another output send no removal to the old output (compositor_server.cpp:3510). A
  connector's hotplug while the seat is inactive is dropped. A failed flip or draw is not retried
  before the next damage. The nested backend attaches its shared-memory buffer once
  (nested_backend.cpp:1456), so that its drawing freezes; a failed eglSwap is reported as a frame;
  a parent that disconnects leaves `connected()` true.
- Buffers. `pool_resize` maps PROT_READ only, and a capture into the pool writes there
  (buffers.cpp:69). A lock surface's commit error after the swap loses the previous buffer's
  reference (2101-2105). A DMA-BUF committed on two surfaces is released when the first drops it.
- Popups and focus. An armed or active focus grab, and the exclusive guard, refuse every fallback,
  also the one for a surface that is being destroyed (2665-2675, 1802). A popup whose wl_surface
  goes first is never dismissed. `layer_parent` is not reset (2061). After a nested grabbing popup
  the grab does not return to its parent (xdg-shell.xml:1318). Popups stay when their layer surface
  is unmapped. A window maps again without a new configure.
- Layers. A layer surface can be configured before its first commit and after an unmapping commit
  (750; zwwm-layer-shell-v1.xml 57-58). The death of the focused exclusive surface gives the
  keyboard to a window although another exclusive one is shown (1774-1802). A closed surface that
  changes its layer is mapped again and reserves space (1983-1988).
- Pointer. An unmapped window gets no leave (2121-2133). A lock that ends after the next began shows
  the cursor. A client that asks for a move and a drag with one press keeps its window at the pointer
  after the drop: `start_drag` looks at no move (compositor_server_data_device.cpp 294-297) and the
  drop takes the release that would end it (4628-4637). A gesture's release during such a drag gives
  the pointer to a client before the drop. The overview opened during a gesture, and the end of a gesture, drop other buttons
  (1563, 4610-4621). Locking leaves grab, pressed buttons and drag (`blank_unlocked_scene`). A
  confined pointer cannot cross between adjacent rectangles (input.cpp 385-402).
- Keyboards and touch. The policy owner hears no release of a bound key while locked (227-230).
  `touch_up` does not count as activity; `cancel_touches` forgets the frame of a contact that was up
  already (touch.cpp 115-118).
- Selections. A cancelled source that is set again is a selection nobody is served from, and its offers
  stay when it is replaced (compositor_server_data_device.cpp 319-344). When the receiver of a drag
  loses the focus, its offer forgets the source (146) and yet counts as accepted: the drop is
  delivered, nobody finishes or cancels it, and the source is told nothing (172-192, 80-82). A change
  of focus also kills offers of a clipboard manager that has a window. After a restart Xwayland is
  not told of the selection there is; a stale TARGETS answer takes the selection back; an INCR
  property deleted twice overwrites data (xwayland_selection.cpp 61-115).
- Xwayland. A server that dies before it is ready, or whose window manager fails to start, is not
  restarted. `_NET_WM_STATE` reads `role->surface->observer` unchecked (482). A window that is mapped
  before its serial arrives is neither focused nor centred. Of two sessions that find the same stale
  lock one removes the other's fresh one (xwayland_spawn.cpp 86-87); the abstract socket keeps the
  display exclusive while Xwayland runs. But the name goes with Xwayland, since the compositor closes
  its copies after the fork (compositor_server_xwayland.cpp:687): after such a race a second session
  can take the number that the first still keeps, and the first's reset then unlinks the second's
  files. Also a bind that fails on the abstract name has unlinked the other's socket file.
- Clients. `set_outputs` destroys a `wl_output` at once, so that a bind that crosses an unplug ends
  its client (3181, display.cpp:357); `OnlyForgottenDenied` shows that nothing else does. A client
  in error lives until its next input and one more of its requests is handled (display.cpp 84, 97).
  A hangup that arrives with unread requests drops them (389-394). The display socket's lock file is
  unlinked before its descriptor is closed (227-262).
- Portal. `presented` iterates over the sessions while `closeSession` erases one
  (screencast_portal.cpp 66-75, 218-227), and the latter is called with a reference to the erased
  key. It also sets `pipewireReady` without PipeWire (xdg-desktop-portal-zwwm/README.md 44-45).
  The timer that activates a session knows its path only and looks
  at its stage only (206-210): a session that is closed and made again under its path within 350 ms,
  and started, gets a frame asked for while its picker is still shown, and as no monitor was chosen
  it is of the first one (capture_client.cpp 109-113); the choice then asks for a second frame. A
  region selected when the last monitor is gone leaves its call without an answer
  (screenshot_portal.cpp 339-340). The removal of any output fails every frame. A source that
  goes is fatal although the protocols call it nonfatal (portal_capture.cpp:331). The first child
  may exit before SIGCHLD is watched.
- Geometry. A mapped candidate on an inactive tag is laid out among the active tag's windows. A
  dragged edge beyond the work area moves the opposite one (461-467). A window narrower than its
  borders grows at every configure once it has a minimum size (473-487). Tiles without room overlap
  with size 1. A tile resize in focus-fibonacci changes values only master-stack uses.

## 8. Not modelled

- `Desktop`: geometry, the endless canvas; layers, popups and focus grabs (in `Layers`, `Popups`);
  the pointer's own focus (in `Pointer`); Xwayland and portal windows; layout providers; the locked
  session (in `SessionLock`). An xdg_surface is taken to be destroyed with its toplevel. While a
  client is torn down its windows' parents are taken as gone.
- `SessionLock`: layer surfaces, focus grabs, pointer and touch focus, tags; the modeset path, which
  notifies synchronously, and VT switches.
- `RuntimeConfiguration`: what a configuration does to windows and outputs, and the compiler of
  `.zw` files.
- `LayoutManager`: several outputs, Xwayland, hidden and fullscreen windows, providers that are
  refused, the endless canvas, the order of windows in a request.
- `ObjectIds`: connection set-up, version checks. `WireConnection`: the in-process loopback
  transport, which nothing uses. `Clients`: the listening socket with its lock file.
- `KmsBackend`, `Scene`: several cards, the cursor plane, mode properties, interpolation.
  `NestedBackend`: connection set-up, touch positions.
- `Buffers`: damage, scale, subsurface synchronization, presentation feedback. `Popups`: positioners
  and sizes. `Pointer`, `Keyboards`, `Touch`: axis and gesture events, XKB state beyond the keys
  down, positions, cursor images.
- `Layers`, `Tiling`, `Floating`: opacity, the endless canvas and the camera (floating-point
  geometry), rounding of weights.
- `Selections`, `XSelection`: MIME types, toplevel drags. `Xwayland`: geometry, titles, states,
  hints. `PortalCapture`, `Portal`, `PipeWireStream`: pixels, regions, formats, authorization, the
  settings portal.
- `WindowManagers`: input events to the owner, which keep nothing.
- Components without a model. Message coding: lengths and padding of single messages, no state; the
  models take messages as units. Plugins: shared objects loaded and called in one straight line.
  Configuration language: text in, a configuration or an error out. zterm: text and cell grids of one
  process; a model would follow characters. zwwmctl: one request, one wait, one answer. EGL glue:
  calls into the driver.
- Left out for good: protocol XML, build files, scripts and the vendored PipeWire headers (data), GL
  drawing and text rasterisation (pixels are not state TLC can tell anything about), and the text the
  scanner prints.
