---------------------------- MODULE SessionLock ----------------------------
(***************************************************************************)
(* ext-session-lock in the compositor: lock objects, their lock surfaces,  *)
(* what the outputs show, and the keyboard focus.  Requests come from the  *)
(* lock clients; ordinary windows map and unmap all the time; outputs come,*)
(* go and change size; the display hardware finishes one frame per output  *)
(* at a time.  The server is one thread: a request is handled in one step, *)
(* and a client that goes away has its resources destroyed one by one      *)
(* before anything else happens.                                           *)
(***************************************************************************)
EXTENDS Integers, Sequences, FiniteSets

CONSTANTS
  Clients,       \* clients that lock the session
  Locks,         \* ext_session_lock_v1 objects
  LockSurfaces,  \* wl_surfaces of those clients
  Windows,       \* toplevels of other clients
  Floating,      \* the ones that window rules float
  Outputs, Sizes,
  MaxPending,    \* bound: configures a client has not acknowledged
  None

ASSUME SessionLockAssumption ==
  /\ Floating \subseteq Windows
  /\ Windows \cap LockSurfaces = {}
  /\ None \notin Clients \cup Locks \cup LockSurfaces \cup Windows \cup Outputs
  /\ Sizes \subseteq Nat \ {0}
  /\ MaxPending \in Nat \ {0}

VARIABLES
  session,   \* seat->session_lock
  lock,      \* SessionLockState of each lock object
  lsurf,     \* LockSurfaceState and the wl_surface it is the role of
  size,      \* size of each output, 0 when it is not there
  mapped,    \* windows with content
  at,        \* output of each window
  focus,     \* seat->keyboard_focus
  regular,   \* seat->regular_focus
  scene,     \* roots the backend draws
  flip,      \* frame handed to the hardware, per output
  due,       \* outputs with needs_repaint
  front,     \* frame on display, per output
  dying,     \* client whose resources are being destroyed
  crashed    \* a deleted lock was read

display == <<scene, flip, due, front>>
seatVars == <<focus, regular>>
windowVars == <<mapped, at>>
vars == <<session, lock, lsurf, size, windowVars, seatVars, display, dying, crashed>>

NoLock == [state |-> "free", client |-> None, alive |-> FALSE,
           accepted |-> FALSE, sent |-> FALSE]
NoSurface == [client |-> None, surface |-> FALSE, role |-> FALSE, lock |-> None,
              output |-> None, size |-> 0, serials |-> <<>>, acked |-> 0,
              mapped |-> FALSE, presented |-> FALSE]

Present == {o \in Outputs : size[o] # 0}
SurfacesOf(l) == {s \in LockSurfaces : lsurf[s].lock = l}

Init ==
  /\ session = None
  /\ lock = [l \in Locks |-> NoLock]
  /\ lsurf = [s \in LockSurfaces |-> NoSurface]
  /\ size \in [Outputs -> Sizes \cup {0}]
  /\ mapped = {} /\ at = [w \in Windows |-> None]
  /\ focus = None /\ regular = None
  /\ scene = {}
  /\ flip = [o \in Outputs |-> "none"] /\ due = {}
  /\ front = [o \in Outputs |-> "clean"]
  /\ dying = None /\ crashed = FALSE

Idle == dying = None /\ ~crashed

----------------------------------------------------------------------------
(* The outputs (runtime_backend.cpp). *)

\* Whether a frame shows the content of a window; pos is where the windows are.
Frame(sc, pos, o) == IF \E w \in Windows \cap sc : pos[w] = o THEN "normal" ELSE "clean"

\* present() changes the scene, repaint() starts a frame unless one is pending.
PaintAt(P, sc, pos) ==
  /\ scene' = sc
  /\ flip' = [o \in Outputs |-> IF o \in P /\ flip[o] = "none" THEN Frame(sc, pos, o) ELSE flip[o]]
  /\ due' = due \cup {o \in P : flip[o] # "none"}
  /\ UNCHANGED front
Paint(P, sc) == PaintAt(P, sc, at)

Placed == {w \in mapped : at[w] # None}

----------------------------------------------------------------------------
(* Keyboard focus. *)

SetFocus(next) ==
  /\ focus' = next
  /\ regular' = IF next \in Windows THEN next ELSE regular

\* focus_fallback(): the regular focus, else some visible window, else none.
Fallbacks(excluded) ==
  LET focusable == mapped \ {excluded} IN
  IF regular \in focusable THEN {regular}
  ELSE IF focusable # {} THEN focusable ELSE {None}

----------------------------------------------------------------------------
(* Locking and unlocking. *)

\* lock(): a second lock is refused; the first takes input and content away
\* from the windows (blank_unlocked_scene).
LockSession(c, l) ==
  /\ Idle /\ lock[l].state = "free"
  /\ LET new(ok) == [NoLock EXCEPT !.state = "live", !.client = c, !.alive = TRUE,
                                   !.accepted = ok] IN
     IF session # None
       THEN /\ lock' = [lock EXCEPT ![l] = new(FALSE)]
            /\ UNCHANGED <<session, focus, display>>
       ELSE /\ lock' = [lock EXCEPT ![l] = new(TRUE)]
            /\ session' = l
            /\ focus' = None
            /\ Paint(Present, scene \ Windows)
  /\ UNCHANGED <<lsurf, size, windowVars, regular, dying, crashed>>

\* restore_unlocked_scene()
Restore(l) ==
  /\ session' = IF session = l THEN None ELSE session
  /\ lsurf' = [s \in LockSurfaces |->
       IF s \in SurfacesOf(l) THEN [lsurf[s] EXCEPT !.lock = None, !.mapped = FALSE]
                              ELSE lsurf[s]]
  /\ LET kept == IF regular \in mapped THEN regular ELSE None
         dropped == focus \in LockSurfaces /\ lsurf[focus].role IN
       /\ regular' = kept
       /\ focus' = IF kept # None THEN kept ELSE IF dropped THEN None ELSE focus
  /\ Paint(Present, (scene \ SurfacesOf(l)) \cup Placed)

Delete(l) == lock' = [lock EXCEPT ![l] =
  IF SurfacesOf(l) = {} \/ session = l THEN NoLock ELSE [NoLock EXCEPT !.state = "deleted"]]

RestoreAlways(l) ==            \* mutant: a client that dies unlocks
  IF lock[l].accepted
    THEN Restore(l) /\ Delete(l)
    ELSE Delete(l) /\ UNCHANGED <<session, lsurf, seatVars, display>>
\* session_lock_resource_destroyed()
LockResourceDestroyed(l) ==
  CASE lock[l].accepted /\ ~lock[l].sent -> Restore(l) /\ Delete(l)
    [] lock[l].accepted /\ lock[l].sent ->
         /\ lock' = [lock EXCEPT ![l].alive = FALSE, ![l].client = None]
         /\ UNCHANGED <<session, lsurf, seatVars, display>>
    [] OTHER -> Delete(l) /\ UNCHANGED <<session, lsurf, seatVars, display>>

\* A protocol error: the client's resources go next.
Kill(c) == dying' = c

DestroyLock(l) ==
  /\ Idle /\ lock[l].alive
  /\ IF lock[l].sent
       THEN Kill(lock[l].client) /\ UNCHANGED <<session, lock, lsurf, seatVars, display>>
       ELSE LockResourceDestroyed(l) /\ UNCHANGED dying
  /\ UNCHANGED <<size, windowVars, crashed>>

UnlockAndDestroy(l) ==
  /\ Idle /\ lock[l].alive
  /\ IF lock[l].sent
       THEN Restore(l) /\ Delete(l) /\ UNCHANGED dying
       ELSE Kill(lock[l].client) /\ UNCHANGED <<session, lock, lsurf, seatVars, display>>
  /\ UNCHANGED <<size, windowVars, crashed>>

----------------------------------------------------------------------------
(* Lock surfaces. *)

\* get_lock_surface() for a fresh wl_surface: configured at once.
GetLockSurface(l, s, o) ==
  /\ Idle /\ lock[l].alive /\ ~lsurf[s].surface /\ ~lsurf[s].role
  /\ IF o \in Present /\ \A t \in SurfacesOf(l) : lsurf[t].output # o
       THEN /\ lsurf' = [lsurf EXCEPT ![s] =
                 [NoSurface EXCEPT !.client = lock[l].client, !.surface = TRUE, !.role = TRUE,
                    !.lock = l, !.output = o, !.size = size[o], !.serials = <<size[o]>>]]
            /\ UNCHANGED dying
       ELSE Kill(lock[l].client) /\ UNCHANGED lsurf
  /\ UNCHANGED <<session, lock, size, windowVars, seatVars, display, crashed>>

\* ack_configure(): the serial and those before it are used up.
Ack(s, n) ==
  /\ Idle /\ lsurf[s].role /\ n \in 1 .. Len(lsurf[s].serials)
  /\ lsurf' = [lsurf EXCEPT ![s].acked = lsurf[s].serials[n],
                            ![s].serials = SubSeq(lsurf[s].serials, n + 1, Len(lsurf[s].serials))]
  /\ UNCHANGED <<session, lock, size, windowVars, seatVars, display, dying, crashed>>

\* notify_surface() of a lock surface
NotifyLockSurface(s) ==
  IF lsurf[s].lock = None \/ lsurf[s].output \notin Present THEN UNCHANGED display
  ELSE Paint({lsurf[s].output}, scene \cup {s})

\* wl_surface.commit with a buffer of size b.
CommitLockSurface(s, b) ==
  /\ Idle /\ lsurf[s].surface /\ lsurf[s].role
  /\ IF lsurf[s].acked # 0 /\ b = lsurf[s].size
       THEN /\ lsurf' = [lsurf EXCEPT ![s].mapped = TRUE, ![s].presented = FALSE]
            /\ NotifyLockSurface(s)
            /\ focus' = IF focus = None THEN s ELSE focus
            /\ UNCHANGED dying
       ELSE /\ Kill(lsurf[s].client)
            /\ UNCHANGED <<lsurf, focus, display>>
  /\ UNCHANGED <<session, lock, size, windowVars, regular, crashed>>

\* lock_surface_destroyed(); a lock that was deleted meanwhile is still read.
RoleDestroyed(s) ==
  LET e == lsurf[s]
      orphan == e.lock = None \/ ~e.surface IN
  /\ lsurf' = [lsurf EXCEPT ![s] =
       IF e.surface THEN [NoSurface EXCEPT !.client = e.client, !.surface = TRUE] ELSE NoSurface]
  /\ focus' = IF ~orphan /\ focus = s THEN None ELSE focus
  /\ IF orphan THEN UNCHANGED display ELSE Paint({e.output} \cap Present, scene \ {s})
  /\ UNCHANGED <<session, lock, regular>>

ReadsDeletedLock(s) == lsurf[s].lock # None /\ lock[lsurf[s].lock].state = "deleted"

DestroyLockSurface(s) ==
  /\ Idle /\ lsurf[s].role
  /\ RoleDestroyed(s)
  /\ crashed' \in IF ReadsDeletedLock(s) THEN BOOLEAN ELSE {FALSE}
  /\ UNCHANGED <<size, windowVars, dying>>

\* surface_destroyed() of a lock surface's wl_surface
SurfaceDestroyed(s) ==
  /\ lsurf' = [lsurf EXCEPT ![s] = IF lsurf[s].role THEN [lsurf[s] EXCEPT !.surface = FALSE]
                                                    ELSE NoSurface]
  /\ IF focus = s THEN \E next \in Fallbacks(s) : SetFocus(next) ELSE UNCHANGED <<focus, regular>>
  /\ Paint(Present, scene \ {s})
  /\ UNCHANGED <<session, lock>>

DestroySurface(s) ==
  /\ Idle /\ lsurf[s].surface
  /\ SurfaceDestroyed(s)
  /\ UNCHANGED <<size, windowVars, dying, crashed>>

----------------------------------------------------------------------------
(* A client that goes away: every order of its resources. *)

Disconnect(c) ==
  /\ Idle
  /\ Kill(c)
  /\ UNCHANGED <<session, lock, lsurf, size, windowVars, seatVars, display, crashed>>

TearDown ==
  /\ dying # None /\ ~crashed
  /\ \/ \E l \in Locks :
          /\ lock[l].alive /\ lock[l].client = dying
          /\ LockResourceDestroyed(l) /\ UNCHANGED <<dying, crashed>>
     \/ \E s \in LockSurfaces :
          /\ lsurf[s].client = dying /\ lsurf[s].role
          /\ RoleDestroyed(s) /\ UNCHANGED dying
          /\ crashed' \in IF ReadsDeletedLock(s) THEN BOOLEAN ELSE {FALSE}
     \/ \E s \in LockSurfaces :
          /\ lsurf[s].client = dying /\ lsurf[s].surface
          /\ SurfaceDestroyed(s) /\ UNCHANGED <<dying, crashed>>
     \/ /\ \A l \in Locks : lock[l].client # dying
        /\ \A s \in LockSurfaces : lsurf[s].client # dying
        /\ dying' = None
        /\ UNCHANGED <<session, lock, lsurf, seatVars, display, crashed>>
  /\ UNCHANGED <<size, windowVars>>

----------------------------------------------------------------------------
(* Windows of other clients. *)

NotifyWindowAlways(w, o) ==    \* mutant: windows are drawn during a lock
  IF o = None THEN UNCHANGED display
  ELSE PaintAt({o}, scene \cup {w}, [at EXCEPT ![w] = o])
\* notify_surface() of a window on output o
NotifyWindow(w, o) ==
  IF session # None \/ o = None THEN UNCHANGED display
  ELSE PaintAt({o}, scene \cup {w}, [at EXCEPT ![w] = o])

\* A commit with content: the first one maps the window on an output.
CommitWindow(w, o) ==
  /\ Idle
  /\ at' = [at EXCEPT ![w] = o]
  /\ IF w \in mapped
       THEN at[w] = o /\ UNCHANGED <<mapped, seatVars>>
       ELSE /\ o \in Present \/ (Present = {} /\ o = None)
            /\ mapped' = mapped \cup {w}
            /\ IF focus = None \/ w \in Floating THEN SetFocus(w) ELSE UNCHANGED seatVars
  /\ NotifyWindow(w, o)
  /\ UNCHANGED <<session, lock, lsurf, size, dying, crashed>>

UnmapKeepsRegular(w) ==        \* mutant: regular_focus is not reset
  /\ IF focus = w THEN focus' \in Fallbacks(w) ELSE UNCHANGED focus
  /\ UNCHANGED regular
\* Whoever had the focus loses it, and is not remembered either.
FocusLost(w) ==
  LET next == IF focus = w THEN Fallbacks(w) ELSE {focus} IN
  \E n \in next :
    /\ focus' = n
    /\ regular' = IF n \in Windows /\ n # focus THEN n
                  ELSE IF regular = w THEN None ELSE regular

UnmapWindow(w) ==
  /\ Idle /\ w \in mapped
  /\ mapped' = mapped \ {w} /\ at' = [at EXCEPT ![w] = None]
  /\ FocusLost(w)
  /\ Paint({at[w]} \cap Present, scene \ {w})
  /\ UNCHANGED <<session, lock, lsurf, size, dying, crashed>>

----------------------------------------------------------------------------
(* Outputs. *)

ConfiguredGone(s, sz) ==       \* mutant: an output that is gone is configured too
  LET e == lsurf[s] IN
  IF session = None \/ e.lock # session \/ sz[e.output] = e.size THEN e
  ELSE [e EXCEPT !.size = sz[e.output], !.mapped = FALSE, !.presented = FALSE,
                 !.serials = Append(e.serials, sz[e.output])]
\* configure_session_lock_outputs() for the sizes sz.
Configured(s, sz) ==
  LET e == lsurf[s] IN
  IF session = None \/ e.lock # session THEN e
  ELSE IF sz[e.output] = 0 THEN [e EXCEPT !.mapped = FALSE, !.presented = FALSE]
  ELSE IF sz[e.output] = e.size THEN e
  ELSE [e EXCEPT !.size = sz[e.output], !.mapped = FALSE, !.presented = FALSE,
                 !.serials = Append(e.serials, sz[e.output])]

\* set_outputs(): what an output showed goes with it; its windows move to
\* another output and are drawn there unless the session is locked.
SetOutput(o, b) ==
  /\ Idle /\ b # size[o]
  /\ \A s \in LockSurfaces : Len(lsurf[s].serials) < MaxPending
  /\ size' = [size EXCEPT ![o] = b]
  /\ lsurf' = [s \in LockSurfaces |-> Configured(s, size')]
  /\ LET left == {p \in Outputs : size'[p] # 0}
         moved == {w \in mapped : at[w] \notin left}
         gone == moved \cup {s \in LockSurfaces : lsurf[s].output \notin left}
         replug == size[o] = 0 \/ b = 0
         shown == (scene \ gone) \cup IF session = None /\ left # {} THEN moved ELSE {} IN
     /\ \E active \in IF left = {} THEN {None} ELSE left :
          at' = [w \in Windows |-> IF w \in moved THEN active ELSE at[w]]
     /\ scene' = shown
     /\ flip' = [p \in Outputs |-> IF p = o /\ b = 0 THEN "none"
                                  ELSE IF p \in left /\ (flip[p] = "none" \/ (p = o /\ replug)) THEN Frame(shown, at', p)
                                  ELSE flip[p]]
     /\ due' = {p \in left : p \in due \/ flip[p] # "none"} \ (IF replug THEN {o} ELSE {})
     /\ front' = IF replug THEN [front EXCEPT ![o] = "clean"] ELSE front
  /\ UNCHANGED <<session, lock, mapped, seatVars, dying, crashed>>

PresentAnyLock(o) ==           \* mutant: the surfaces need not be presented
  lsurf' = lsurf
\* notify_session_lock_frame_presented()
SurfacesPresented(o) ==
  lsurf' = [s \in LockSurfaces |->
    IF /\ session # None /\ lsurf[s].lock = session /\ ~lock[session].sent
       /\ lsurf[s].output = o /\ lsurf[s].mapped
      THEN [lsurf[s] EXCEPT !.presented = TRUE] ELSE lsurf[s]]

Covered(l) == \A o \in Present : \E s \in LockSurfaces :
  lsurf'[s].lock = l /\ lsurf'[s].output = o /\ lsurf'[s].mapped /\ lsurf'[s].presented

\* page_flip_complete(): the frame is on display, and the next one may start.
PageFlip(o) ==
  /\ Idle /\ flip[o] # "none"
  /\ front' = [front EXCEPT ![o] = flip[o]]
  /\ SurfacesPresented(o)
  /\ lock' = IF session # None /\ lock[session].alive /\ Covered(session)
               THEN [lock EXCEPT ![session].sent = TRUE] ELSE lock
  /\ flip' = [flip EXCEPT ![o] = IF o \in due THEN Frame(scene, at, o) ELSE "none"]
  /\ due' = due \ {o}
  /\ UNCHANGED <<session, size, windowVars, seatVars, scene, dying, crashed>>

\* repaint() without a change of the scene: an animation, the cursor, an
\* output that was waiting.
Repaint(o) ==
  /\ Idle /\ o \in Present /\ flip[o] = "none"
  /\ flip' = [flip EXCEPT ![o] = Frame(scene, at, o)]
  /\ due' = due \ {o}
  /\ UNCHANGED <<session, lock, lsurf, size, windowVars, seatVars, scene, front, dying, crashed>>

----------------------------------------------------------------------------
ClientStep ==
  \/ \E c \in Clients, l \in Locks : LockSession(c, l)
  \/ \E l \in Locks : DestroyLock(l) \/ UnlockAndDestroy(l)
  \/ \E l \in Locks, s \in LockSurfaces, o \in Outputs : GetLockSurface(l, s, o)
  \/ \E s \in LockSurfaces : \E n \in 1 .. Len(lsurf[s].serials) : Ack(s, n)
  \/ \E s \in LockSurfaces, b \in Sizes : CommitLockSurface(s, b)
  \/ \E s \in LockSurfaces : DestroyLockSurface(s) \/ DestroySurface(s)
  \/ \E c \in Clients : Disconnect(c)

WindowStep ==
  \/ \E w \in Windows, o \in Outputs \cup {None} : CommitWindow(w, o)
  \/ \E w \in Windows : UnmapWindow(w)

OutputStep ==
  \/ \E o \in Outputs, b \in Sizes \cup {0} : SetOutput(o, b)
  \/ \E o \in Outputs : PageFlip(o) \/ Repaint(o)

Next == ClientStep \/ TearDown \/ WindowStep \/ OutputStep
Spec == Init /\ [][Next]_vars

\* The hardware finishes its frames, and a tear-down is not interrupted.  The
\* event of a finished frame stays pending in epoll while the loop handles
\* clients, so it is handled although a tear-down disables it now and then.
FairSpec == Spec /\ WF_vars(TearDown) /\ \A o \in Outputs : SF_vars(PageFlip(o))

----------------------------------------------------------------------------
\* Types of the lock, seat and display state (compositor_server_internal.hpp
\* 163-164, 272).
TypeOK ==
  /\ session \in Locks \cup {None}
  /\ lock \in [Locks -> [state : {"free", "live", "deleted"}, client : Clients \cup {None},
                          alive : BOOLEAN, accepted : BOOLEAN, sent : BOOLEAN]]
  /\ lsurf \in [LockSurfaces ->
       [client : Clients \cup {None}, surface : BOOLEAN, role : BOOLEAN,
        lock : Locks \cup {None}, output : Outputs \cup {None}, size : Sizes \cup {0},
        serials : Seq(Sizes), acked : Sizes \cup {0}, mapped : BOOLEAN, presented : BOOLEAN]]
  /\ \A s \in LockSurfaces : lsurf[s].lock # None => lsurf[s].output \in Outputs
  /\ size \in [Outputs -> Sizes \cup {0}]
  /\ mapped \subseteq Windows /\ at \in [Windows -> Outputs \cup {None}]
  /\ focus \in Windows \cup LockSurfaces \cup {None} /\ regular \in Windows \cup {None}
  /\ scene \subseteq Windows \cup LockSurfaces
  /\ flip \in [Outputs -> {"none", "normal", "clean"}] /\ due \subseteq Outputs
  /\ front \in [Outputs -> {"normal", "clean"}]
  /\ dying \in Clients \cup {None} /\ crashed \in BOOLEAN

\* While the session is locked nothing of a window is in the scene, whatever
\* windows commit and outputs do meanwhile (notify_surface 1225).
NormalHidden == session # None => scene \cap Windows = {}

\* Every window with content is drawn again once the session is unlocked.
NothingLost == session = None => Placed \subseteq scene

\* A lock surface whose lock is over, or that lost its role, is not drawn.
OrphansHidden == \A s \in LockSurfaces : lsurf[s].lock = None => s \notin scene

\* Windows are in the scene exactly while they may be, and a lock surface only
\* under its lock.
SceneFollowsLock == NormalHidden /\ NothingLost /\ OrphansHidden

\* The focus the seat keeps is that of a surface that still exists, and the
\* one it would return to is a window that can take it.
FocusAlive ==
  /\ focus \in Windows => focus \in mapped
  /\ focus \in LockSurfaces => lsurf[focus].surface
  /\ regular # None => regular \in mapped

\* Once `locked` was sent, only the client that holds the lock unlocks the
\* session; if it goes away the session stays locked.
OnlyHolderUnlocks ==
  [][session # None /\ lock[session].sent /\ session' # session
       => session' = None /\ dying = None /\ lock[session].alive]_vars

\* No frame that shows a window is started during a lock: at most one that was
\* pending before is still finished.
NoNewNormalFrame ==
  [][session # None /\ session' # None =>
       \A o \in Outputs : flip'[o] = "normal" => flip[o] = "normal" /\ front'[o] = front[o]]_vars

\* Every output has a lock surface with content.
AllMapped ==
  \A o \in Present : \E s \in LockSurfaces :
    lsurf[s].lock = session /\ lsurf[s].output = o /\ lsurf[s].mapped
Waiting == session # None /\ lock[session].alive /\ ~lock[session].sent
\* With one output, `locked` follows once its lock surface has content and
\* keeps it, however often the client commits again.
SentOnceCovered == Waiting /\ Present # {} /\ AllMapped ~> ~Waiting \/ Present = {} \/ ~AllMapped

\* ext-session-lock-v1.xml 87-90: "The locked event must not be sent until a
\* new "locked" frame [...] has been presented on all outputs".
LockedMeansHidden ==
  session # None /\ lock[session].sent => \A o \in Present : front[o] # "normal"

\* ext-session-lock-v1.xml 77-79: while locked "the compositor must stop
\* rendering and providing input to normal clients".
FocusStaysOnLock == session # None => focus \notin Windows

\* ext-session-lock-v1.xml 139-140: after the lock object is destroyed
\* "Existing objects created through this interface remain valid".
NoDeletedLockRead == ~crashed
=============================================================================
