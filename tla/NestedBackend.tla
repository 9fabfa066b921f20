-------------------------- MODULE NestedBackend ---------------------------
(***************************************************************************)
(* The nested backend: zwwm as a window of a parent compositor.  It draws  *)
(* with EGL or into one shared-memory buffer, asks the parent for a frame  *)
(* callback with every commit, and draws again when the callback or the    *)
(* release of the buffer comes.  The parent also sends it input.           *)
(***************************************************************************)
EXTENDS Integers, FiniteSets

Devices == {"pointer", "keyboard", "touch"}

VARIABLES
  link,    \* parent_display_: off, on, lost (the parent is gone)
  nb,      \* renderer, buffer, frame callback, flags
  win,     \* the item of one window and its texture
  seat,    \* the parent's seat: devices bound, what is pressed here
  parent   \* external: what the parent owes this client

nestedVars == <<link, nb, win, seat, parent>>

NoWin == [on |-> FALSE, tex |-> "none", upload |-> FALSE, gone |-> FALSE]

\* stale (not in the code): something on screen has changed since the last
\* frame was drawn or given up.
Fresh == [tried |-> FALSE, gpu |-> "none", attached |-> FALSE, flight |-> FALSE,
          frame |-> FALSE, owed |-> FALSE, hold |-> FALSE, cap |-> "no",
          anim |-> "no", stale |-> FALSE]

NoSeat == [devices |-> {}, pressed |-> {}, axes |-> FALSE]

NestedInit == /\ link = "off" /\ nb = Fresh /\ win = NoWin /\ seat = NoSeat
              /\ parent = [release |-> FALSE, imports |-> 0, attach |-> FALSE]

---------------------------------------------------------------------------
\* The scene part of both repaints, for one window.  Its import, if any, is
\* released when its item goes.
IsTarget(w) == w.on /\ ~w.gone /\ w.tex # "none"
Advance(n, w) ==
  LET kept == IF n.anim = "ended" THEN "no" ELSE n.anim
  IN  IF IsTarget(w) THEN "present"
      ELSE IF kept = "present" THEN "closing" ELSE kept

(***************************************************************************)
(* repaint_gpu() and repaint(): nothing while a scene is prepared, a frame *)
(* callback is outstanding or, in shared memory, the buffer is with the    *)
(* parent.  Gives the possible <<nb, win, parent>>.                        *)
(***************************************************************************)
Busy(n) == n.hold \/ n.frame
           \/ CASE n.gpu = "gl" -> FALSE
              [] n.gpu = "shm" -> ~n.attached \/ n.flight \/ ~n.owed
              [] OTHER -> TRUE

Repainted(n, w, p) ==
  LET anim == Advance(n, w)
      dead == w.on /\ w.gone /\ anim = "no"
      v == IF dead THEN NoWin ELSE w
      q == IF dead /\ w.tex = "import" THEN [p EXCEPT !.imports = @ - 1] ELSE p
      tried == [n EXCEPT !.anim = anim, !.stale = FALSE]
      drawn == [tried EXCEPT !.frame = TRUE, !.cap = "pending",
                             !.owed = anim = "closing"]
  IN  IF Busy(n) THEN {<<n, w, p>>}
      ELSE {<<tried, v, q>>} \cup     \* the frame is given up
           (IF n.gpu = "gl"
            THEN {<<drawn, v, q>>, <<[tried EXCEPT !.frame = TRUE], v, q>>}
            ELSE {<<[drawn EXCEPT !.flight = TRUE], v,
                    [q EXCEPT !.attach = FALSE, !.release = @ \/ q.attach]>>})

Repaints(n, w, p) ==
  \E r \in Repainted(n, w, p) : nb' = r[1] /\ win' = r[2] /\ parent' = r[3]

Soiled == [nb EXCEPT !.owed = TRUE, !.stale = TRUE]

---------------------------------------------------------------------------
\* start(): connects, finds the globals and makes the surface, or fails.
Start == /\ link = "off" /\ link' = "on"
         /\ UNCHANGED <<nb, win, seat, parent>>

\* stop() and release_wayland_objects().
Stop ==
  /\ link # "off" /\ link' = "off"
  /\ nb' = Fresh /\ win' = NoWin /\ seat' = NoSeat
  /\ parent' = [release |-> FALSE, imports |-> 0, attach |-> FALSE]

\* The parent hangs up; nothing of it is read any more.
ParentGone == /\ link = "on" /\ link' = "lost"
              /\ UNCHANGED <<nb, win, seat, parent>>

\* xdg_surface.configure: the first one tries EGL, and any one falls back to
\* a buffer while there is none.
Configure(egl, buffer) ==
  /\ link = "on"
  /\ LET n == [nb EXCEPT !.tried = TRUE]
     IN  IF ~nb.tried /\ egl
         THEN Repaints([n EXCEPT !.gpu = "gl", !.attached = TRUE, !.owed = TRUE,
                                 !.stale = TRUE], win, parent)
         ELSE IF ~nb.attached /\ buffer
         THEN Repaints([n EXCEPT !.gpu = "shm", !.attached = TRUE, !.owed = TRUE,
                                 !.stale = TRUE], win, [parent EXCEPT !.attach = TRUE])
         ELSE IF ~nb.attached   \* release_buffer() forgets the scene
         THEN nb' = [n EXCEPT !.owed = FALSE, !.cap = "no"] /\ win' = NoWin /\ UNCHANGED parent
         ELSE nb' = n /\ UNCHANGED <<win, parent>>
  /\ UNCHANGED <<link, seat>>

\* The parent has read the buffer.  It owes one release per attach.
BufferRelease ==
  /\ link = "on" /\ parent.release
  /\ Repaints([nb EXCEPT !.flight = FALSE], win, [parent EXCEPT !.release = FALSE])
  /\ UNCHANGED <<link, seat>>

\* FrameObserver::done().
FrameDone ==
  /\ link = "on" /\ nb.frame
  /\ LET n == [nb EXCEPT !.frame = FALSE, !.cap = IF @ = "pending" THEN "ready" ELSE @]
     IN  IF n.owed THEN Repaints(n, win, parent)
         ELSE nb' = n /\ UNCHANGED <<win, parent>>
  /\ UNCHANGED <<link, seat>>

---------------------------------------------------------------------------
\* mutant: the import is not released
PresentPixelsOnly ==
  /\ link # "off"
  /\ LET gl == nb.gpu = "gl"
         w == [win EXCEPT !.on = TRUE, !.gone = FALSE, !.tex = "upload", !.upload = gl]
     IN  IF nb.hold THEN nb' = Soiled /\ win' = w /\ UNCHANGED parent
         ELSE Repaints(Soiled, w, parent)
  /\ UNCHANGED <<link, seat>>

\* present() of a buffer of the window.
PresentPixels ==
  /\ link # "off"
  /\ LET gl == nb.gpu = "gl"
         w == [win EXCEPT !.on = TRUE, !.gone = FALSE, !.tex = "upload", !.upload = gl]
         p == IF win.tex = "import" THEN [parent EXCEPT !.imports = @ - 1] ELSE parent
     IN  IF nb.hold THEN nb' = Soiled /\ win' = w /\ parent' = p
         ELSE Repaints(Soiled, w, p)
  /\ UNCHANGED <<link, seat>>

\* Only a renderer imports DMA-BUFs; the import may fail.
PresentDmabuf(works) ==
  /\ link # "off" /\ nb.gpu = "gl"
  /\ LET w == [win EXCEPT !.on = TRUE, !.gone = FALSE,
                          !.tex = IF works THEN "import" ELSE "none"]
         p == [parent EXCEPT !.imports =
                 @ - (IF win.tex = "import" THEN 1 ELSE 0) + (IF works THEN 1 ELSE 0)]
     IN  IF nb.hold THEN nb' = Soiled /\ win' = w /\ parent' = p
         ELSE Repaints(Soiled, w, p)
  /\ UNCHANGED <<link, seat>>

\* present() without a buffer of a window that has a place in the layout: its
\* content stays, or closes with it when it is unmapped.  While a scene is
\* prepared the redraw is left to the end of the preparation.
KeepContent(unmapped, copied) ==
  /\ link # "off" /\ ~win.gone
  /\ LET closing == win.tex # "none" /\ unmapped
         copies == closing /\ nb.gpu = "gl" /\ ~win.upload /\ copied
         w == IF copies THEN [win EXCEPT !.gone = TRUE, !.tex = "upload", !.upload = TRUE]
              ELSE [win EXCEPT !.on = TRUE, !.gone = closing]
         p == IF win.tex = "import" /\ copies THEN [parent EXCEPT !.imports = @ - 1] ELSE parent
     IN  IF nb.hold THEN nb' = [nb EXCEPT !.stale = TRUE] /\ win' = w /\ parent' = p
         ELSE Repaints(Soiled, w, p)
  /\ UNCHANGED <<link, seat>>

\* present() of any other surface without a buffer: the window closes on a copy of its import,
\* made unless it has a texture for uploads already, or goes at once.
PresentNothing(fade, copied) ==
  /\ link # "off" /\ win.on /\ ~win.gone
  /\ LET copies == nb.gpu = "gl" /\ win.tex # "none" /\ ~win.upload /\ copied
         w == IF ~fade THEN NoWin
              ELSE IF copies THEN [win EXCEPT !.gone = TRUE, !.tex = "upload", !.upload = TRUE]
              ELSE [win EXCEPT !.gone = TRUE]
         p == IF win.tex = "import" /\ (~fade \/ copies)
              THEN [parent EXCEPT !.imports = @ - 1] ELSE parent
     IN  IF nb.hold THEN nb' = Soiled /\ win' = w /\ parent' = p
         ELSE Repaints(Soiled, w, p)
  /\ UNCHANGED <<link, seat>>

\* scene_reset.
SceneReset ==
  /\ link # "off" /\ win.on
  /\ LET n == [Soiled EXCEPT !.anim = "no"]
         w == [win EXCEPT !.gone = TRUE]
     IN  IF nb.hold THEN nb' = n /\ win' = w /\ UNCHANGED parent
         ELSE Repaints(n, w, parent)
  /\ UNCHANGED <<link, seat>>

\* A camera frame or a tag transition is prepared, and is ready.
Prepare == /\ link # "off" /\ ~nb.hold /\ nb' = [nb EXCEPT !.hold = TRUE]
           /\ UNCHANGED <<link, win, seat, parent>>
Ready == /\ link # "off" /\ nb.hold
         /\ Repaints([Soiled EXCEPT !.hold = FALSE], win, parent)
         /\ UNCHANGED <<link, seat>>

\* A new configuration, new shaders, an error message shown or cleared.
Redraw == /\ link # "off" /\ Repaints(Soiled, win, parent) /\ UNCHANGED <<link, seat>>

Elapse == /\ nb.anim = "closing" /\ nb' = [nb EXCEPT !.anim = "ended"]
          /\ UNCHANGED <<link, win, seat, parent>>

---------------------------------------------------------------------------
\* SeatObserver::capabilities(): devices come and go; what a device that
\* goes had started ends.  pointer_leave() ends no press.
Capabilities(caps) ==
  /\ link = "on" /\ caps # seat.devices
  /\ seat' = [devices |-> caps,
              axes |-> seat.axes /\ "pointer" \in caps,
              pressed |-> IF "keyboard" \in seat.devices \ caps THEN {}   \* input_reset()
                          ELSE seat.pressed \ ({"touch"} \ caps)]       \* touch_cancel()
  /\ UNCHANGED <<link, nb, win, parent>>

\* Buttons, keys and fingers.
Press(d, down) ==
  /\ link = "on" /\ d \in seat.devices /\ (d \in seat.pressed) # down
  /\ seat' = [seat EXCEPT !.pressed = IF down THEN @ \cup {d} ELSE @ \ {d}]
  /\ UNCHANGED <<link, nb, win, parent>>

\* KeyboardObserver::leave() resets all input.
KeyboardLeave ==
  /\ link = "on" /\ "keyboard" \in seat.devices
  /\ seat' = [seat EXCEPT !.pressed = {}]
  /\ UNCHANGED <<link, nb, win, parent>>

\* Axis events wait for the frame that closes their group.
Axis == /\ link = "on" /\ "pointer" \in seat.devices
        /\ seat' = [seat EXCEPT !.axes = ~@]
        /\ UNCHANGED <<link, nb, win, parent>>

NestedNext ==
  \/ Start \/ Stop \/ ParentGone
  \/ \E e, b \in BOOLEAN : Configure(e, b)
  \/ BufferRelease \/ FrameDone \/ PresentPixels
  \/ \E b \in BOOLEAN : PresentDmabuf(b)
  \/ \E f, c \in BOOLEAN : PresentNothing(f, c) \/ KeepContent(f, c)
  \/ SceneReset \/ Prepare \/ Ready \/ Redraw \/ Elapse
  \/ \E c \in SUBSET Devices : Capabilities(c)
  \/ \E d \in Devices, b \in BOOLEAN : Press(d, b)
  \/ KeyboardLeave \/ Axis

NestedSpec == NestedInit /\ [][NestedNext]_nestedVars

---------------------------------------------------------------------------
TypeOK ==
  /\ link \in {"off", "on", "lost"}
  /\ nb.gpu \in {"none", "gl", "shm"} /\ nb.cap \in {"no", "pending", "ready"}
  /\ nb.anim \in {"no", "present", "closing", "ended"}
  /\ {nb.tried, nb.attached, nb.flight, nb.frame, nb.owed, nb.hold, nb.stale} \subseteq BOOLEAN
  /\ win.tex \in {"none", "upload", "import"}
  /\ seat.devices \subseteq Devices /\ seat.pressed \subseteq Devices
  /\ parent.imports \in 0 .. 1

\* What has to be drawn is never forgotten: once there is something to draw
\* with, a change that no frame has taken up yet is owed, and an answer of
\* the parent or the end of a preparation will draw it.
ChangeIsOwed ==
  nb.stale /\ nb.gpu # "none" =>
    nb.hold \/ (nb.owed /\ (nb.frame \/ nb.flight))

\* Every DMA-BUF import belongs to the window that shows it: none is lost
\* when the window changes its kind of buffer, closes or is copied, and none
\* is released twice.
ImportsAccounted == parent.imports = (IF win.tex = "import" THEN 1 ELSE 0)

\* Nothing stays pressed on a keyboard or a touch screen that is gone, and
\* no scrolling waits for a pointer that is gone.
DevicesAccounted ==
  /\ {"keyboard", "touch"} \cap seat.pressed \subseteq seat.devices
  /\ seat.axes => "pointer" \in seat.devices
===========================================================================
