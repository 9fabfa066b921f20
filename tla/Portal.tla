------------------------------- MODULE Portal -------------------------------
(***************************************************************************)
(* The desktop portal's process: its capture client (capture_client.cpp),   *)
(* screen casts (screencast_portal.cpp, pipewire_stream.cpp), screenshots    *)
(* (screenshot_portal.cpp) and the plain dialogs (access_portal.cpp,         *)
(* file_chooser_portal.cpp).  The frontend calls, the user answers dialogs,  *)
(* the compositor answers frame requests, PipeWire asks for frames, and      *)
(* timers run; any of them may come between two others.                      *)
(*                                                                         *)
(* Options, authorization, pictures and formats are left out, and calls      *)
(* that are refused at once (they change nothing).  A request is known by    *)
(* the handle the caller chose, and a frame by its owner and a number.       *)
(* Timers know the path of a session only, which may have been used again;   *)
(* several 5 s timers of one path count as one, and of its 350 ms timers it  *)
(* is known that there is one.                                               *)
(***************************************************************************)
EXTENDS Naturals, FiniteSets

CONSTANTS Handles, Paths, Screens, Windows, None

Sources == Screens \cup Windows
Owners == Paths \cup Handles
FrameIds == Owners \X {0, 1}

VARIABLES
  calls,    \* requests_, pending_: None or a Request
  owed,     \* calls the frontend waits for
  wrong,    \* a call was answered that was not owed
  sessions, \* sessions_: None or a Session
  frames,   \* CaptureClient::frames: None or [target, copying, again]
  timers,   \* single-shot timers that will fire
  source,   \* outputs and toplevels the client knows: "new", "live", "closed", "gone"
  up        \* the client is connected and the process goes on

portalVars == <<calls, owed, wrong, sessions, frames, timers, source, up>>
mainVars == <<calls, owed, wrong, sessions, frames, timers>>

Init ==
  /\ calls = [h \in Handles |-> None] /\ owed = {} /\ wrong = FALSE
  /\ sessions = [p \in Paths |-> None] /\ frames = [k \in FrameIds |-> None] /\ timers = {}
  /\ source \in [Sources -> {"new", "live"}] /\ up = TRUE

Here == [calls |-> calls, owed |-> owed, wrong |-> wrong, sessions |-> sessions,
         frames |-> frames, timers |-> timers]
Set(st) ==
  /\ calls' = st.calls /\ owed' = st.owed /\ wrong' = st.wrong
  /\ sessions' = st.sessions /\ frames' = st.frames /\ timers' = st.timers
Step(st) == up /\ Set(st) /\ UNCHANGED <<source, up>>

\* again is history: a 350 ms timer of an earlier session of the path was running when
\* this one was made.
Fresh(again) == [stage |-> "created", source |-> None, capture |-> None, request |-> None,
                 stream |-> FALSE, first |-> FALSE, again |-> again]
Stage(st, p) == IF st.sessions[p] = None THEN None ELSE st.sessions[p].stage

Reply(h) == <<"reply", h>>
Settle(p) == <<"settle", p>>
Limit(p) == <<"limit", p>>

\* addRequest() and its likes: an object at the handle's path.
Added(h, kind, path, stage, dialog) ==
  [Here EXCEPT !.calls[h] = [kind |-> kind, path |-> path, stage |-> stage, dialog |-> dialog],
               !.owed = @ \cup {h}]

\* What the calls `hs` go through when they are completed: they are forgotten
\* and answered; a timer that would have done it later finds nothing.
Answered(st, hs) ==
  [st EXCEPT !.calls = [h \in Handles |-> IF h \in hs THEN None ELSE @[h]],
             !.owed = @ \ hs, !.wrong = @ \/ ~(hs \subseteq st.owed),
             !.timers = @ \ {Reply(h) : h \in hs}]

-----------------------------------------------------------------------------
(* Screen casts                                                            *)

Dropped(st, ks) == [st EXCEPT !.frames = [k \in FrameIds |-> IF k \in ks THEN None ELSE @[k]]]
CapturesOf(st, ps) == {st.sessions[p].capture : p \in {q \in ps : st.sessions[q] # None}} \ {None}
CallsOf(st, ps) == {h \in Handles : st.calls[h] # None /\ st.calls[h].path \in ps}

CloseKeepsFrame(st, ps) ==    \* mutant: the frame in flight is not cancelled
  [Answered(st, CallsOf(st, ps)) EXCEPT !.sessions = [p \in Paths |-> IF p \in ps THEN None ELSE @[p]]]
\* closeSession() of each of `ps`: its frame is cancelled and its requests are
\* completed; their dialogs find no session.
CloseSessions(st, ps) ==
  [Answered(Dropped(st, CapturesOf(st, ps)), CallsOf(st, ps)) EXCEPT
     !.sessions = [p \in Paths |-> IF p \in ps THEN None ELSE @[p]]]
CloseSession(st, p) == IF st.sessions[p] = None THEN st ELSE CloseSessions(st, {p})

\* completeRequest(): a dialog that is still shown is rejected.
Complete(st, h) ==
  IF st.calls[h] = None THEN st
  ELSE IF st.calls[h].kind = "start" /\ st.calls[h].dialog
    THEN CloseSession(Answered(st, {h}), st.calls[h].path) ELSE Answered(st, {h})

\* output(): without an id, which is what a session has before its user chose, the
\* first one there is.
First == IF \E x \in Screens : source[x] = "live" THEN CHOOSE x \in Screens : source[x] = "live" ELSE None
Asked(s) == IF s.source = None THEN First ELSE s.source
Live(x) == x # None /\ source[x] = "live"

\* requestOutput(), requestToplevel() for a frame number that is not in use; a
\* source the client no longer knows ends the session.
RequestFrame(st, p) ==
  LET k == <<p, IF st.frames[<<p, 0>>] = None THEN 0 ELSE 1>>
      s == st.sessions[p]
      asking == [st EXCEPT !.sessions[p].capture = k]
  IN IF Live(Asked(s))
       THEN [asking EXCEPT !.frames[k] = [target |-> Asked(s), copying |-> FALSE, again |-> s.again]]
       ELSE CloseSession(asking, p)

\* maybeCapture(), by whoever has just set pipewireReady and presentationPending: where
\* one of them was reset it asks for nothing.
MaybeCapture(st, p) ==
  LET s == st.sessions[p]
  IN IF s # None /\ s.stage = "active" /\ s.capture = None THEN RequestFrame(st, p) ELSE st

\* createSession(), selectSources(), start().
CreateSession(h, p) ==
  /\ calls[h] = None /\ sessions[p] = None
  /\ Step([Added(h, "create", p, None, FALSE) EXCEPT !.sessions[p] = Fresh(Settle(p) \in timers),
                                                     !.timers = @ \cup {Reply(h)}])
SelectSources(h, p) ==
  /\ calls[h] = None /\ Stage(Here, p) = "created"
  /\ Step([Added(h, "select", p, None, FALSE) EXCEPT !.sessions[p].stage = "selected",
                                                     !.timers = @ \cup {Reply(h)}])
Start(h, p) ==
  /\ calls[h] = None /\ Stage(Here, p) = "selected"
  /\ Step([Added(h, "start", p, None, TRUE) EXCEPT !.sessions[p].stage = "starting",
                                                   !.sessions[p].request = h])
ReplyTimer(h) == Reply(h) \in timers /\ Step(Complete([Here EXCEPT !.timers = @ \ {Reply(h)}], h))

Shown(h, kind) == calls[h] # None /\ calls[h].kind = kind /\ calls[h].dialog

\* The user shares a source of the dialog's list, which is renewed when a batch
\* of toplevel changes ends, not when a monitor goes.
Share(h, x) ==
  /\ Shown(h, "start")
  /\ source[x] \in {"live", "closed"} \/ (x \in Screens /\ source[x] = "gone")
  /\ LET p == calls[h].path
         chosen == [Here EXCEPT !.sessions[p].source = x, !.calls[h].dialog = FALSE]
     IN IF x \in Windows /\ source[x] # "live"
          THEN Step(CloseSession(chosen, p))
          ELSE Step([chosen EXCEPT !.timers = @ \cup {Settle(p)}])

\* A session that its path was not used again for has only one such timer.
Further(p) == IF sessions[p] # None /\ ~sessions[p].again THEN {{}} ELSE SUBSET {Settle(p)}

\* The picker has left the scene, or that of an earlier session of the path has: then
\* the user may not have chosen yet, and nothing is found if only windows were offered.
\* Of the frames that nobody waits for any more there is one at a time (a bound).
SettleTimer(p) ==
  /\ Settle(p) \in timers /\ \E n \in {0, 1} : frames[<<p, n>>] = None
  /\ \E left \in Further(p) :
       LET st == [Here EXCEPT !.timers = (@ \ {Settle(p)}) \cup left]
       IN IF Stage(st, p) # "starting" THEN Step(st)
          ELSE \/ Step(RequestFrame(st, p))
               \/ sessions[p].source = None /\ Step(CloseSession(st, p))

\* beginPipeWire(): the stream may fail to start; a timer limits the wait.
BeginPipeWire(st, p, starts) ==
  IF starts
    THEN [st EXCEPT !.sessions[p].stream = TRUE, !.sessions[p].first = TRUE, !.timers = @ \cup {Limit(p)}]
    ELSE CloseSession(st, p)
LimitTimer(p) ==
  /\ Limit(p) \in timers
  /\ LET st == [Here EXCEPT !.timers = @ \ {Limit(p)}]
     IN Step(IF Stage(st, p) = "starting" THEN CloseSession(st, p) ELSE st)

Streams(p) == sessions[p] # None /\ sessions[p].stream
\* The stream has a node: ready, streamReady().
StreamReady(p) ==
  /\ Streams(p) /\ sessions[p].stage = "starting"
  /\ Step(Complete([Here EXCEPT !.sessions[p].stage = "active"], sessions[p].request))
\* frameNeeded: the first frame is submitted if PipeWire has a buffer for it.
FrameNeeded(p) ==
  /\ Streams(p) /\ sessions[p].stage = "active"
  /\ IF sessions[p].first
       THEN \E failed \in BOOLEAN : Step([Here EXCEPT !.sessions[p].first = failed])
       ELSE Step(MaybeCapture(Here, p))
StreamFailed(p) == Streams(p) /\ Step(CloseSession(Here, p))

\* presented: every active session, unless one of them ends: its node of the
\* map is gone, and with it the way to the others.
Presented(ps) ==
  LET active == {p \in Paths : Stage(Here, p) = "active"}
      waiting == {p \in ps : sessions[p].capture = None}
      ending == {p \in waiting : ~Live(Asked(sessions[p]))}
      Number(p) == IF frames[<<p, 0>>] = None THEN 0 ELSE 1
      served == waiting \ ending
  IN /\ ps \subseteq active /\ ps # {} /\ (ending = {} => ps = active)
     /\ Step(CloseSessions(
          [Here EXCEPT !.sessions = [p \in Paths |->
                         IF p \in served THEN [@[p] EXCEPT !.capture = <<p, Number(p)>>] ELSE @[p]],
                       !.frames = [k \in FrameIds |->
                         IF k[1] \in served /\ k[2] = Number(k[1])
                           THEN [target |-> Asked(sessions[k[1]]), copying |-> FALSE,
                                 again |-> sessions[k[1]].again]
                           ELSE @[k]]],
          ending))

\* Close() of the session, or its owner leaves the bus.
CloseCast(p) == sessions[p] # None /\ Step(CloseSession(Here, p))

-----------------------------------------------------------------------------
(* Screenshots                                                             *)

Shots(st) == {h \in Handles : st.calls[h] # None /\ st.calls[h].kind = "shot"}

\* ScreenshotPortal::complete() of each of `hs`.
ShotsDone(st, hs) == Answered(Dropped(st, {<<h, 0>> : h \in hs}), hs)
ShotDone(st, h) == ShotsDone(st, {h})

\* request(), requestRegion(), requestToplevel() in the stage `stage`.
ShotFrame(st, h, stage, x) ==
  IF source[x] = "live"
    THEN [st EXCEPT !.calls[h].stage = stage, !.calls[h].dialog = FALSE,
                    !.frames[<<h, 0>>] = [target |-> x, copying |-> FALSE, again |-> FALSE]]
    ELSE ShotDone(st, h)
Dialog(st, h, stage) == [st EXCEPT !.calls[h].stage = stage, !.calls[h].dialog = TRUE]

\* beginScreenshot(): at once, or after the user chose a source.
BeginShot(h) ==
  /\ calls[h] = None
  /\ \/ Step(Added(h, "shot", None, "chooser", TRUE))
     \/ \E x \in Screens : source[x] = "live" /\ Step(ShotFrame(Added(h, "shot", None, "quick", FALSE), h, "quick", x))

At(h, stage) == Shown(h, "shot") /\ calls[h].stage = stage
\* showSourceChooser(), showRegionSelector(), showConfirmation(), showFileDialog().
ChooseShot(h) ==
  /\ At(h, "chooser")
  /\ \/ \E x \in Screens, stage \in {"capture", "preview"} :
          source[x] # "new" /\ Step(ShotFrame(Here, h, stage, x))
     \/ \E x \in Windows : source[x] \in {"live", "closed"} /\ Step(ShotFrame(Here, h, "capture", x))
\* A region of no monitor is none: the selector stays.
SelectRegion(h) == At(h, "selector") /\ \E x \in Screens : source[x] = "live" /\ Step(ShotFrame(Here, h, "capture", x))
ConfirmShot(h) == At(h, "confirmation") /\ Step(Dialog(Here, h, "saving"))
SaveShot(h) == At(h, "saving") /\ Step(ShotDone(Here, h))

\* captureReady().
CaptureReady(st, h) ==
  CASE st.calls[h].stage = "preview" -> Dialog(st, h, "selector")
    [] st.calls[h].stage = "capture" -> Dialog(st, h, "confirmation")
    [] OTHER -> ShotDone(st, h)

-----------------------------------------------------------------------------
(* Dialogs and requests of every kind                                      *)

\* AccessPortal::show(), FileChooserPortal::show().
ShowAccess(h) == calls[h] = None /\ Step(Added(h, "access", None, None, TRUE))
ShowFileChooser(h) == calls[h] = None /\ Step(Added(h, "file", None, None, TRUE))
\* Their complete(), of an answer either way.
AccessAnswered(h) == Shown(h, "access") /\ Step(Complete(Here, h))
FileAnswered(h) == Shown(h, "file") /\ Step(Complete(Here, h))

\* rejected, of a dialog.
RejectDialog(h) ==
  \/ Shown(h, "start") /\ Step(CloseSession([Here EXCEPT !.calls[h].dialog = FALSE], calls[h].path))
  \/ Shown(h, "shot") /\ Step(ShotDone(Here, h))

\* closeRequested, or the caller leaves the bus.
CloseCall(h) ==
  /\ calls[h] # None
  /\ CASE calls[h].kind = "shot" -> Step(ShotDone(Here, h))
       [] calls[h].kind \in {"access", "file"} -> Step(Complete(Here, h))
       [] OTHER -> Step(Complete(CloseSession(Here, calls[h].path), h))

-----------------------------------------------------------------------------
(* The compositor answers (FrameHandler, RegistryHandler, ToplevelHandler)  *)

CastOf(st, k) == {p \in Paths : st.sessions[p] # None /\ st.sessions[p].capture = k}
ShotOf(st, k) == {h \in Shots(st) : k = <<h, 0>>}

\* finishFrame(): forgotten, then captured or failed.
Captured(st, k, same, starts) ==
  LET now == Dropped(st, {k})
      casts == CastOf(now, k)
  IN IF casts # {} THEN
       LET p == CHOOSE q \in casts : TRUE
           idle == [now EXCEPT !.sessions[p].capture = None]
       IN CASE idle.sessions[p].stage = "starting" -> BeginPipeWire(idle, p, starts)
            [] idle.sessions[p].stage = "active" ->
                 IF same THEN idle ELSE CloseSession(idle, p)
            [] OTHER -> idle
     ELSE IF ShotOf(now, k) # {} THEN CaptureReady(now, k[1]) ELSE now
\* captureFailed() and the screenshot's failed, of each of `ks`.
Failed(st, ks) ==
  LET now == Dropped(st, ks)
  IN CloseSessions(ShotsDone(now, UNION {ShotOf(now, k) : k \in ks}), UNION {CastOf(now, k) : k \in ks})

\* buffer: the copy is requested, or the frame cannot be used.
FrameBuffer(k) ==
  /\ frames[k] # None /\ ~frames[k].copying
  /\ Step([Here EXCEPT !.frames[k].copying = TRUE]) \/ Step(Failed(Here, {k}))
\* ready, failed.
FrameReady(k) ==
  /\ frames[k] # None /\ frames[k].copying
  /\ \E same, starts \in BOOLEAN : Step(Captured(Here, k, same, starts))
FrameFailed(k) == frames[k] # None /\ Step(Failed(Here, {k}))

SourceAppears(x) ==
  /\ up /\ source[x] = "new" /\ source' = [source EXCEPT ![x] = "live"] /\ UNCHANGED <<mainVars, up>>
\* global_remove of an output: every frame fails, whatever it shows.
ScreenRemoved(x) ==
  /\ up /\ source[x] = "live" /\ source' = [source EXCEPT ![x] = "gone"]
  /\ Set(Failed(Here, {k \in FrameIds : frames[k] # None})) /\ UNCHANGED up
\* closed, and done at the end of a batch.
WindowCloses(w) ==
  /\ up /\ source[w] = "live" /\ source' = [source EXCEPT ![w] = "closed"] /\ UNCHANGED <<mainVars, up>>
BatchDone ==
  /\ up /\ \E w \in Windows : source[w] = "closed"
  /\ source' = [x \in Sources |-> IF source[x] = "closed" THEN "gone" ELSE source[x]]
  /\ UNCHANGED <<mainVars, up>>

\* disconnect(), then the application quits; the compositor starts another.
Disconnect ==
  /\ up /\ up' = FALSE
  /\ Set(CloseSessions(ShotsDone(Here, Shots(Here)), Paths)) /\ UNCHANGED source
Restart ==
  /\ ~up /\ up' = TRUE /\ source' \in [Sources -> {"new", "live"}]
  /\ calls' = [h \in Handles |-> None] /\ owed' = {} /\ wrong' = FALSE
  /\ sessions' = [p \in Paths |-> None] /\ frames' = [k \in FrameIds |-> None] /\ timers' = {}

Next ==
  \/ \E h \in Handles, p \in Paths : CreateSession(h, p) \/ SelectSources(h, p) \/ Start(h, p)
  \/ \E h \in Handles : \/ ReplyTimer(h) \/ BeginShot(h) \/ ChooseShot(h) \/ SelectRegion(h) \/ ConfirmShot(h)
                        \/ SaveShot(h) \/ ShowAccess(h) \/ AccessAnswered(h) \/ ShowFileChooser(h)
                        \/ FileAnswered(h) \/ RejectDialog(h) \/ CloseCall(h)
                        \/ \E x \in Sources : Share(h, x)
  \/ \E p \in Paths : \/ SettleTimer(p) \/ LimitTimer(p) \/ StreamReady(p) \/ FrameNeeded(p) \/ StreamFailed(p)
                      \/ CloseCast(p)
  \/ \E ps \in SUBSET Paths : Presented(ps)
  \/ \E k \in FrameIds : FrameBuffer(k) \/ FrameReady(k) \/ FrameFailed(k)
  \/ \E x \in Sources : SourceAppears(x)
  \/ \E x \in Screens : ScreenRemoved(x)
  \/ \E w \in Windows : WindowCloses(w)
  \/ BatchDone \/ Disconnect \/ Restart

Spec == Init /\ [][Next]_portalVars

-----------------------------------------------------------------------------
\* The state has its type.
TypeOK ==
  /\ \A h \in Handles : calls[h] # None =>
       /\ calls[h].kind \in {"create", "select", "start", "shot", "access", "file"} /\ calls[h].dialog \in BOOLEAN
       /\ calls[h].path \in Paths \cup {None}
  /\ owed \subseteq Handles /\ wrong \in BOOLEAN /\ up \in BOOLEAN
  /\ \A p \in Paths : sessions[p] # None =>
       /\ sessions[p].stage \in {"created", "selected", "starting", "active"}
       /\ sessions[p].source \in Sources \cup {None} /\ sessions[p].capture \in FrameIds \cup {None}
  /\ \A k \in FrameIds : frames[k] # None =>
       frames[k] \in [target : Sources, copying : BOOLEAN, again : BOOLEAN]
  /\ source \in [Sources -> {"new", "live", "closed", "gone"}]

\* Every call is answered exactly once: the frontend waits for the requests that
\* are kept and for nothing else, and no answer comes that it does not expect.
AnsweredOnce == ~wrong /\ owed = {h \in Handles : calls[h] # None}

\* A frame in flight belongs to the one session or screenshot that waits for
\* it, and what waits has its frame: a session has at most one in flight
\* (xdg-desktop-portal-zwwm/README.md 44-45), and none outlives it.  The exception is
\* a session whose path was used again while a 350 ms timer of the earlier session
\* was running: it asks twice, and waits for the second of its frames.
FramesOwned ==
  /\ \A k \in FrameIds : frames[k] # None =>
       LET owners == Cardinality(CastOf(Here, k)) + Cardinality(ShotOf(Here, k))
       IN owners <= 1 /\ (~frames[k].again => owners = 1)
  /\ \A p \in Paths : sessions[p] # None /\ sessions[p].capture # None => frames[sessions[p].capture] # None
  /\ \A p \in Paths :
       Cardinality({n \in {0, 1} : frames[<<p, n>>] # None /\ ~frames[<<p, n>>].again}) <= 1
  /\ \A h \in Shots(Here) : ~calls[h].dialog => frames[<<h, 0>>] # None

\* Nothing is captured or streamed for a session before its user chose the source, and
\* only that source, after the picker left; except for a session made again under its
\* path within the 350 ms after a choice: the earlier session's timer asks for a frame
\* of the first monitor while the new picker is shown.  The application that waits for
\* its stream is always that of a starting session.
Consented ==
  /\ \A p \in Paths : sessions[p] # None =>
       LET s == sessions[p]
       IN /\ ~s.again /\ (s.capture # None \/ s.stream) =>
               s.source # None /\ ~\E h \in Handles : calls[h] # None /\ calls[h].path = p /\ calls[h].dialog
          /\ ~s.again /\ s.capture # None => frames[s.capture].target = s.source
          /\ s.stage = "starting" => calls[s.request] # None /\ calls[s.request].kind = "start"
          /\ s.stage = "active" => s.stream
  /\ \A h \in Handles : calls[h] # None /\ calls[h].path # None => sessions[calls[h].path] # None
  /\ \A h \in Handles : calls[h] # None /\ calls[h].kind = "start" => Stage(Here, calls[h].path) = "starting"
=============================================================================
