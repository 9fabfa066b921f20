---------------------------- MODULE PortalCapture ----------------------------
(***************************************************************************)
(* The compositor's side of screen capture (portal_capture.cpp): the portal *)
(* is a child process that attaches one Wayland connection through a        *)
(* private channel, is told which windows there are, and asks for frames of *)
(* an output or a window.  The child is started again when it exits.        *)
(*                                                                         *)
(* The child is what capture_client.cpp makes of these messages; its        *)
(* destructors, which run when it exits, are left out, as are pixels,       *)
(* regions and cursors.  A window that is shown again counts as a new one,  *)
(* and a frame's id is used again when nothing mentions it.                 *)
(***************************************************************************)
EXTENDS Naturals, Sequences, FiniteSets, SequencesExt

CONSTANTS
  Windows, Frames, Screen,
  MaxQueue,  \* messages on their way in each direction
  None

Targets == Windows \cup {Screen}

VARIABLES
  child,   \* proc: the child process; chan: the socket and its source;
           \* conn: Impl::client; sig: SIGCHLD is pending; timer: restart_source;
           \* wanted: the executable is set and the portal is not shutting down
  window,  \* the compositor's windows: "new", "open", "gone"
  handles, \* Impl::handles by window: None, "open", "closed"
  frames,  \* Impl::frames: None or [target, terminal]
  up,      \* requests on their way
  down,    \* events on their way
  known,   \* the child's view of each window
  asked    \* the child's frames: None, or [target, state]

captureVars == <<child, window, handles, frames, up, down, known, asked>>
wireVars == <<handles, frames, up, down, known, asked>>

Bind == [rq |-> "bind"]
Done == [ev |-> "done"]
Event(e, f) == [ev |-> e, of |-> f]

Cleared == [handles |-> [w \in Windows |-> None], frames |-> [f \in Frames |-> None],
            up |-> <<>>, down |-> <<>>,
            known |-> [w \in Windows |-> None], asked |-> [f \in Frames |-> None]]

Here == [handles |-> handles, frames |-> frames, up |-> up, down |-> down, known |-> known, asked |-> asked]
Set(st) ==
  /\ handles' = st.handles /\ frames' = st.frames /\ up' = st.up /\ down' = st.down
  /\ known' = st.known /\ asked' = st.asked

Init ==
  /\ child = [proc |-> "none", chan |-> FALSE, conn |-> FALSE, sig |-> FALSE, timer |-> FALSE, wanted |-> FALSE]
  /\ window \in [Windows -> {"new", "open"}]
  /\ handles = Cleared.handles /\ frames = Cleared.frames /\ up = <<>> /\ down = <<>>
  /\ known = Cleared.known /\ asked = Cleared.asked

-----------------------------------------------------------------------------
(* The channel and the child                                               *)

\* start_child().
Started(c) == [c EXCEPT !.proc = "running", !.chan = TRUE]
\* schedule_restart().
Scheduled(c) == [c EXCEPT !.timer = c.wanted]

\* spawn(): the caller drops the portal when it fails.  A child that exits before
\* the signal source exists is not noticed by its own signal.
Spawn ==
  /\ ~child.wanted /\ child.proc = "none"
  /\ child' = Started([child EXCEPT !.wanted = TRUE])
     \/ child' = [child EXCEPT !.wanted = TRUE, !.chan = TRUE, !.proc = "exited"]
  /\ UNCHANGED <<window, wireVars>>

\* The restart timer.
RestartTimer ==
  /\ child.timer
  /\ \/ child' = Started([child EXCEPT !.timer = FALSE])
     \/ child' = Scheduled([child EXCEPT !.timer = FALSE])
  /\ UNCHANGED <<window, wireVars>>

\* The child exits, on its own or because its connection is gone; its end of
\* the connection goes with it.
ChildExits ==
  /\ child.proc = "running" /\ child' = [child EXCEPT !.proc = "exited", !.sig = TRUE]
  /\ Set([Here EXCEPT !.up = <<>>, !.down = <<>>, !.known = Cleared.known, !.asked = Cleared.asked])
  /\ UNCHANGED window
\* Another child of the compositor exits.
OtherChildExits ==
  /\ child.wanted /\ child.proc = "exited" /\ ~child.sig /\ child' = [child EXCEPT !.sig = TRUE]
  /\ UNCHANGED <<window, wireVars>>

\* close_channel(): what is left to the client of its connection is an error.
Closed(c) == [c EXCEPT !.chan = FALSE, !.conn = FALSE]
CloseChannel(c) == child' = Closed(c) /\ Set(Cleared)

\* The compositor loses the connection to a client that exited, or kills it
\* for a protocol error: client_destroyed().
ClientDestroyed == CloseChannel(child) /\ UNCHANGED window
ConnectionLost == child.conn /\ child.proc = "exited" /\ ClientDestroyed

\* readable(): the child closed its end of the channel.
HangUp == child.chan /\ child.proc = "exited" /\ CloseChannel(child) /\ UNCHANGED window

\* readable(): the child passes a connection; add_client() or the answer fails.
Attach ==
  /\ child.chan /\ child.proc = "running" /\ ~child.conn
  /\ \/ child' = [child EXCEPT !.conn = TRUE] /\ Set([Cleared EXCEPT !.up = <<Bind>>])
     \/ CloseChannel(child)
  /\ UNCHANGED window

\* child_exited(): waitpid(), close_channel(), schedule_restart().
ChildExited ==
  /\ child.proc = "exited" /\ child.sig
  /\ CloseChannel(Scheduled([child EXCEPT !.proc = "none", !.sig = FALSE]))
  /\ UNCHANGED window

\* ~PortalCapture().
Shutdown ==
  /\ child.wanted
  /\ CloseChannel([child EXCEPT !.proc = "none", !.sig = FALSE, !.timer = FALSE, !.wanted = FALSE])
  /\ UNCHANGED window

-----------------------------------------------------------------------------
(* Windows                                                                 *)

Open == {w \in Windows : window[w] = "open"}

\* send_handle() for each window of `ws`, then done.
Announced(st, ws) ==
  [st EXCEPT !.handles = [w \in Windows |-> IF w \in ws THEN "open" ELSE @[w]],
             !.down = @ \o SetToSeq({Event("toplevel", w) : w \in ws}) \o <<Done>>]

\* update_toplevels(): windows that are gone close their handles and fail their
\* frames; new ones are announced.
Lost(st, w) ==
  LET failing == {f \in Frames : st.frames[f] # None /\ st.frames[f].target = w /\ ~st.frames[f].terminal}
  IN [st EXCEPT !.handles[w] = "closed",
                !.frames = [f \in Frames |-> IF f \in failing THEN [@[f] EXCEPT !.terminal = TRUE] ELSE @[f]],
                !.down = @ \o <<Event("closed", w)>> \o SetToSeq({Event("failed", f) : f \in failing})]

WindowGone(w) ==
  /\ window[w] = "open" /\ window' = [window EXCEPT ![w] = "gone"]
  /\ IF handles[w] = "open"
       THEN Set([Lost(Here, w) EXCEPT !.down = Append(@, Done)]) ELSE UNCHANGED wireVars
  /\ Len(down) < MaxQueue /\ UNCHANGED child

\* Bound managers are those of the connection, from the time the server read
\* the bind request: `up` starts with it.
Bound == child.conn /\ (up = <<>> \/ Head(up) # Bind)
WindowShown(w) ==
  /\ window[w] = "new" /\ window' = [window EXCEPT ![w] = "open"] /\ Len(down) < MaxQueue
  /\ IF Bound /\ child.proc = "running" THEN Set(Announced(Here, {w})) ELSE UNCHANGED wireVars
  /\ UNCHANGED child

-----------------------------------------------------------------------------
(* The compositor reads a request                                          *)

Next1 == Tail(up)
Reads == child.conn /\ up # <<>> /\ Len(down) < MaxQueue

\* bind_toplevels().
ReadBind ==
  /\ Reads /\ Head(up) = Bind /\ Set(Announced([Here EXCEPT !.up = Next1], Open))
  /\ UNCHANGED <<child, window>>

Reading(req) == Reads /\ Head(up).rq = req

\* capture_request(): a frame, with the buffer it needs or a failure.
\* handle_capture(): a handle that is closed is an error of the client.
ReadCapture ==
  /\ Reading("capture")
  /\ LET f == Head(up).of  t == Head(up).target
     IN IF t # Screen /\ handles[t] # "open"
          THEN ClientDestroyed
          ELSE \E ok \in BOOLEAN :
                 /\ Set([Here EXCEPT !.up = Next1, !.frames[f] = [target |-> t, terminal |-> ~ok],
                                     !.down = Append(@, Event(IF ok THEN "buffer" ELSE "failed", f))])
                 /\ UNCHANGED <<child, window>>

\* frame_copy(): a frame that is terminal is an error of the client.
ReadCopy ==
  /\ Reading("copy")
  /\ LET f == Head(up).of
     IN IF frames[f] = None \/ frames[f].terminal
          THEN ClientDestroyed
          ELSE /\ Set([Here EXCEPT !.up = Next1, !.frames[f].terminal = TRUE,
                                   !.down = Append(@, Event("ready", f))])
               /\ UNCHANGED <<child, window>>

\* frame_destroy(), handle_destroy().
ReadDestroy ==
  /\ Reading("destroy") /\ Set([Here EXCEPT !.up = Next1, !.frames[Head(up).of] = None])
  /\ UNCHANGED <<child, window>>
ReadDrop ==
  /\ Reading("drop") /\ Set([Here EXCEPT !.up = Next1, !.handles[Head(up).of] = None])
  /\ UNCHANGED <<child, window>>

-----------------------------------------------------------------------------
(* The child (capture_client.cpp)                                          *)

Talks == child.conn /\ child.proc = "running" /\ Len(up) < MaxQueue
Mentioned(f) == \E i \in 1 .. Len(down) : down[i].ev \in {"buffer", "failed", "ready"} /\ down[i].of = f
Request(r, f) == [rq |-> r, of |-> f]

\* requestOutput(), requestToplevel().
Capture(f, t) ==
  /\ Talks /\ asked[f] = None /\ frames[f] = None /\ ~Mentioned(f)
  /\ \A i \in 1 .. Len(up) : up[i] # Bind => up[i].of # f
  /\ t \in Windows => known[t] = "open"
  /\ Set([Here EXCEPT !.asked[f] = [target |-> t, state |-> "asked"],
                      !.up = Append(@, [rq |-> "capture", of |-> f, target |-> t])])
  /\ UNCHANGED <<child, window>>

\* cancel().
CancelFrame(f) ==
  /\ Talks /\ asked[f] # None
  /\ Set([Here EXCEPT !.asked[f] = None, !.up = Append(@, Request("destroy", f))])
  /\ UNCHANGED <<child, window>>

\* FrameHandler: an event for a frame that is cancelled meets nothing; the buffer
\* may be of no use.
FrameTaken(st, e, usable) ==
  IF st.asked[e.of] = None THEN st
  ELSE IF e.ev = "buffer" /\ usable
    THEN [st EXCEPT !.asked[e.of].state = "copying", !.up = Append(@, Request("copy", e.of))]
    ELSE [st EXCEPT !.asked[e.of] = None, !.up = Append(@, Request("destroy", e.of))]
\* ToplevelHandler, ToplevelManagerHandler.
Taken(st, e, usable) ==
  CASE e.ev = "toplevel" -> [st EXCEPT !.known[e.of] = "open"]
    [] e.ev = "closed" -> [st EXCEPT !.known[e.of] = "closed"]
    [] e.ev = "done" ->
         [st EXCEPT !.known = [w \in Windows |-> IF @[w] = "closed" THEN None ELSE @[w]],
                    !.up = @ \o SetToSeq({Request("drop", w) : w \in {v \in Windows : st.known[v] = "closed"}})]
    [] OTHER -> FrameTaken(st, e, usable)

TakeEvent ==
  /\ Talks /\ down # <<>>
  /\ \E usable \in BOOLEAN : Set(Taken([Here EXCEPT !.down = Tail(@)], Head(down), usable))
  /\ UNCHANGED <<child, window>>

-----------------------------------------------------------------------------
Next ==
  \/ Spawn \/ RestartTimer \/ ChildExits \/ OtherChildExits \/ ConnectionLost \/ HangUp \/ Attach
  \/ ChildExited \/ Shutdown
  \/ \E w \in Windows : WindowGone(w) \/ WindowShown(w)
  \/ ReadBind \/ ReadCapture \/ ReadCopy \/ ReadDestroy \/ ReadDrop
  \/ \E f \in Frames : CancelFrame(f) \/ \E t \in Targets : Capture(f, t)
  \/ TakeEvent

Spec == Init /\ [][Next]_captureVars

-----------------------------------------------------------------------------
\* The state has its type.
TypeOK ==
  /\ child \in [proc : {"none", "running", "exited"}, chan : BOOLEAN, conn : BOOLEAN,
                sig : BOOLEAN, timer : BOOLEAN, wanted : BOOLEAN]
  /\ handles \in [Windows -> {None, "open", "closed"}]
  /\ frames \in [Frames -> {None} \cup [target : Targets, terminal : BOOLEAN]]
  /\ known \in [Windows -> {None, "open", "closed"}]
  /\ asked \in [Frames -> {None} \cup [target : Targets, state : {"asked", "copying"}]]

Ending(f) == Cardinality({i \in 1 .. Len(down) : down[i].ev \in {"failed", "ready"} /\ down[i].of = f})
\* A frame ends once: while the child waits for it, exactly one ready or failed
\* event is on its way if the compositor is done with it, and none otherwise.
EndsOnce ==
  child.conn /\ child.proc = "running" =>
    \A f \in Frames : asked[f] # None =>
      Ending(f) = IF frames[f] # None /\ frames[f].terminal THEN 1 ELSE 0

\* A frame of a window that is gone is over: nothing copies what is no longer
\* there, and nobody waits for it (update_toplevels).
GoneIsOver ==
  \A f \in Frames : frames[f] # None /\ frames[f].target # Screen /\ ~frames[f].terminal =>
    window[frames[f].target] = "open"

\* While the portal is wanted there is a process that has not been waited for,
\* or its restart is due; the private connection needs the channel, and the
\* channel a process that has not been waited for.
Supervised ==
  /\ child.wanted => child.proc # "none" \/ child.timer
  /\ child.timer => child.proc = "none" /\ ~child.chan
  /\ child.conn => child.chan
  /\ child.chan => child.proc # "none"
  /\ ~child.conn => frames = Cleared.frames /\ handles = Cleared.handles

\* When all messages are read the child knows the windows there are.
WindowsKnown ==
  child.conn /\ child.proc = "running" /\ up = <<>> /\ down = <<>> =>
    {w \in Windows : known[w] = "open"} = Open

=============================================================================
