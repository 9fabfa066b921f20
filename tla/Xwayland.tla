------------------------------ MODULE Xwayland ------------------------------
(***************************************************************************)
(* X11 windows (compositor_server_xwayland.cpp).  Xwayland speaks to the    *)
(* compositor over two sockets: a Wayland one, on which it creates surfaces *)
(* and gives each a serial, and an X one, on which zwwm is the window       *)
(* manager and hears which window has which serial.  The two are read       *)
(* independently, so window and surface meet in either order; a window that *)
(* is mapped again gets a new surface while the old one may still be there. *)
(* Xwayland may die at any moment and is started again.                     *)
(*                                                                         *)
(* Xwayland itself (xw) is external.  Geometry, titles and _NET_WM_STATE    *)
(* are left out; of the properties of a window only whether it is a dialog  *)
(* is kept, which makes it float.                                           *)
(***************************************************************************)
EXTENDS Naturals, Sequences

CONSTANTS Windows, Surfaces, MaxSerial, MaxQueue, Other, None

VARIABLES
  srv,    \* the server: stage, whether its idle restart is queued, its Wayland client
  win,    \* runtime->windows
  role,   \* the XwaylandSurfaceState of each surface of Xwayland's client
  focus,  \* seat->keyboard_focus, and the X input focus
  xw      \* Xwayland: alive, its windows, the next serial, what it sent on both sockets

xVars == <<srv, win, role, focus, xw>>

NoWin == [live |-> FALSE, serial |-> 0, mapped |-> FALSE, dialog |-> FALSE, role |-> None]
NoRole == [surface |-> FALSE, resource |-> FALSE, serial |-> 0, window |-> None,
           associated |-> FALSE, floating |-> FALSE, override |-> "no"]
NoXWin == [on |-> FALSE, mapped |-> FALSE, dialog |-> FALSE, surface |-> None]
Fresh == [alive |-> TRUE, win |-> [w \in Windows |-> NoXWin], next |-> 1, x |-> <<>>, wl |-> <<>>]

Init ==
  /\ srv = [stage |-> "starting", restart |-> FALSE, client |-> TRUE]
  /\ win = [w \in Windows |-> NoWin] /\ role = [s \in Surfaces |-> NoRole]
  /\ focus = [kbd |-> None, x |-> None] /\ xw = Fresh

Here == [win |-> win, role |-> role, focus |-> focus]
Set(st) == win' = st.win /\ role' = st.role /\ focus' = st.focus

Shown(st, s) == st.role[s].window # None /\ st.win[st.role[s].window].mapped

\* focus_xwayland_surface(), while there is a connection.
XFocus(st, s) == IF s \in Surfaces THEN st.role[s].window ELSE None
SetFocus(st, s) == IF st.focus.kbd = s THEN st ELSE [st EXCEPT !.focus = [kbd |-> s, x |-> XFocus(st, s)]]
\* focus_xwayland_if_needed()
FocusIfNeeded(st, s) == IF st.role[s].floating \/ st.focus.kbd = None THEN SetFocus(st, s) ELSE st

\* reclassify(): the user's choice, or what the window is.
Classified(r, dialog) == IF r.override = "no" THEN dialog ELSE r.override = "float"
Reclassify(st, w) ==
  LET s == st.win[w].role
  IN IF s = None THEN st ELSE [st EXCEPT !.role[s].floating = Classified(st.role[s], st.win[w].dialog)]

\* read_window_properties(): a round trip, it sees the property as it is now.
Read(st, w) == [st EXCEPT !.win[w].dialog = xw.win[w].dialog]

LinkOnce(st, w, s) ==    \* mutant: the earlier links are not undone
  IF w = None \/ s = None \/ st.role[s].window # None THEN st
  ELSE Read([st EXCEPT !.win[w].role = s, !.role[s].window = w, !.role[s].associated = TRUE], w)
\* try_associate(): window w and surface s have the same serial.
Link(st, w, s) ==
  IF w = None \/ s = None \/ st.role[s].associated \/ st.win[w].role # None THEN st
  ELSE LET read == Read(st, w)
       IN [read EXCEPT !.win[w].role = s, !.role[s].window = w, !.role[s].associated = TRUE,
                       !.role[s].floating = Classified(st.role[s], read.win[w].dialog)]

WithSerial(st, n) == LET ws == {w \in Windows : st.win[w].live /\ st.win[w].serial = n}
                     IN IF ws = {} THEN None ELSE CHOOSE w \in ws : TRUE
RoleWithSerial(st, n) ==
  LET ss == {s \in Surfaces : st.role[s].serial = n /\ ~st.role[s].associated}
  IN IF ss = {} THEN None ELSE CHOOSE s \in ss : TRUE

\* surface_destroyed() and ~SurfaceState(): focus moves on, window and role part.
DestroySurface(st, s) ==
  LET w == st.role[s].window
      shown == Shown(st, s)
      moved == IF st.focus.kbd = s THEN SetFocus(st, None) ELSE st
      parted == [moved EXCEPT !.win = [v \in Windows |-> IF v = w THEN [@[v] EXCEPT !.role = None] ELSE @[v]],
                              !.role[s] = IF @.resource THEN [@ EXCEPT !.surface = FALSE, !.window = None] ELSE NoRole]
      left == {t \in Surfaces : Shown(parted, t)}
  IN IF shown /\ parted.focus.kbd = None /\ left # {} THEN SetFocus(parted, CHOOSE t \in left : TRUE) ELSE parted

\* surface_resource_destroyed()
DestroyRole(st, s) ==
  [st EXCEPT !.role[s] = IF @.surface THEN [@ EXCEPT !.resource = FALSE] ELSE NoRole]

-----------------------------------------------------------------------------
(* Xwayland: what its clients and it do                                    *)

Send(q, e) == Append(q, e)
Room == Len(xw.x) < MaxQueue /\ Len(xw.wl) + 1 < MaxQueue

XCreate(w) ==
  /\ xw.alive /\ srv.stage = "running" /\ ~xw.win[w].on /\ Room
  /\ \E dialog \in BOOLEAN :
       xw' = [xw EXCEPT !.win[w] = [NoXWin EXCEPT !.on = TRUE, !.dialog = dialog], !.x = Send(@, <<"create", w, 0>>)]
  /\ UNCHANGED <<srv, win, role, focus>>
XProperty(w) ==
  /\ xw.alive /\ xw.win[w].on /\ Room
  /\ xw' = [xw EXCEPT !.win[w].dialog = ~@, !.x = Send(@, <<"property", w, 0>>)]
  /\ UNCHANGED <<srv, win, role, focus>>
\* The window manager mapped it, or it is override-redirect: mapped, then given a surface.
XMap(w, s) ==
  /\ xw.alive /\ xw.win[w].on /\ ~xw.win[w].mapped /\ Len(xw.x) + 1 < MaxQueue /\ Room
  /\ xw.next <= MaxSerial /\ \A v \in Windows : xw.win[v].surface # s
  /\ ~\E i \in 1..Len(xw.wl) : xw.wl[i][2] = s
  /\ role[s] = NoRole
  /\ xw' = [xw EXCEPT !.win[w].mapped = TRUE, !.win[w].surface = s, !.next = @ + 1,
                      !.x = @ \o <<<<"map", w, 0>>, <<"serial", w, xw.next>>>>,
                      !.wl = @ \o <<<<"role", s, 0>>, <<"serial", s, xw.next>>>>]
  /\ UNCHANGED <<srv, win, role, focus>>
\* Unmapped, or destroyed: the surface goes, its role object first.
XUnmap(w, destroyed) ==
  /\ xw.alive /\ xw.win[w].on /\ (xw.win[w].mapped \/ destroyed) /\ Room
  /\ LET s == xw.win[w].surface
     IN xw' = [xw EXCEPT !.win[w] = IF destroyed THEN NoXWin ELSE [@ EXCEPT !.mapped = FALSE, !.surface = None],
                         !.x = Send(@, <<IF destroyed THEN "destroy" ELSE "unmap", w, 0>>),
                         !.wl = IF s = None THEN @ ELSE @ \o <<<<"unrole", s, 0>>, <<"gone", s, 0>>>>]
  /\ UNCHANGED <<srv, win, role, focus>>
XMessage(w, kind) ==
  /\ xw.alive /\ xw.win[w].on /\ Room
  /\ xw' = [xw EXCEPT !.x = Send(@, <<kind, w, 0>>)]
  /\ UNCHANGED <<srv, win, role, focus>>
XDie ==
  /\ xw.alive /\ srv.stage \in {"starting", "running"}
  /\ xw' = [xw EXCEPT !.alive = FALSE, !.x = <<>>]
  /\ UNCHANGED <<srv, win, role, focus>>

-----------------------------------------------------------------------------
(* process_event()                                                         *)

OnCreate(st, w) == Read([st EXCEPT !.win[w] = [NoWin EXCEPT !.live = TRUE]], w)
OnDestroy(st, w) ==
  LET s == st.win[w].role
      parted == IF s = None THEN st ELSE [st EXCEPT !.role[s].window = None, !.role[s].associated = FALSE]
  IN [parted EXCEPT !.win[w] = NoWin]
\* XCB_MAP_NOTIFY
OnMap(st, w) ==
  LET read == Reclassify(Read([st EXCEPT !.win[w].mapped = TRUE], w), w)
  IN IF st.win[w].role = None THEN read ELSE FocusIfNeeded(read, st.win[w].role)
OnUnmap(st, w) == [st EXCEPT !.win[w].mapped = FALSE]
\* XCB_PROPERTY_NOTIFY, XCB_CONFIGURE_NOTIFY, XCB_MAP_REQUEST, XCB_CONFIGURE_REQUEST
OnProperty(st, w) == Reclassify(Read(st, w), w)
\* WL_SURFACE_SERIAL
OnSerial(st, w, n) ==
  LET known == [st EXCEPT !.win[w].serial = n]
  IN IF st.win[w].role # None THEN known ELSE Link(known, w, RoleWithSerial(known, n))
\* _NET_ACTIVE_WINDOW
OnActive(st, w) ==
  IF st.win[w].role # None /\ st.focus.kbd = None THEN SetFocus(st, st.win[w].role) ELSE st
\* _NET_WM_STATE with _NET_WM_STATE_HIDDEN
OnIconify(st, w) == IF st.win[w].role = None THEN st ELSE Reclassify([st EXCEPT !.win[w].mapped = FALSE], w)

Handled(st, e) ==
  LET w == e[2]
  IN CASE e[1] = "create" -> IF st.win[w].live THEN st ELSE OnCreate(st, w)
       [] ~st.win[w].live -> st
       [] e[1] = "destroy" -> OnDestroy(st, w)
       [] e[1] = "map" -> OnMap(st, w)
       [] e[1] = "unmap" -> OnUnmap(st, w)
       [] e[1] = "property" -> OnProperty(st, w)
       [] e[1] = "serial" -> OnSerial(st, w, e[3])
       [] e[1] = "active" -> OnActive(st, w)
       [] e[1] = "iconify" -> OnIconify(st, w)

XEvent ==
  /\ srv.stage = "running" /\ xw.x # <<>>
  /\ \E st \in {Handled(Here, Head(xw.x))} : Set(st)
  /\ xw' = [xw EXCEPT !.x = Tail(@)]
  /\ UNCHANGED srv

\* The requests of Xwayland's Wayland client.
Requested(st, e) ==
  LET s == e[2]
  IN CASE e[1] = "role" -> [st EXCEPT !.role[s] = [NoRole EXCEPT !.surface = TRUE, !.resource = TRUE]]
       [] e[1] = "serial" -> LET known == [st EXCEPT !.role[s].serial = e[3]] IN Link(known, WithSerial(known, e[3]), s)
       [] e[1] = "unrole" -> DestroyRole(st, s)
       [] e[1] = "gone" -> DestroySurface(st, s)
WlRequest ==
  /\ srv.client /\ xw.wl # <<>>
  /\ \E st \in {Requested(Here, Head(xw.wl))} : Set(st)
  /\ xw' = [xw EXCEPT !.wl = Tail(@)]
  /\ UNCHANGED srv

-----------------------------------------------------------------------------
(* The server process                                                      *)

\* Client::destroy(): every surface and role of Xwayland is gone.
NoClient(st) ==
  [win |-> [w \in Windows |-> [st.win[w] EXCEPT !.role = None]],
   role |-> [s \in Surfaces |-> NoRole],
   focus |-> IF st.focus.kbd \in Surfaces THEN [kbd |-> None, x |-> None] ELSE st.focus]

\* The Wayland socket of a dead Xwayland hangs up.
ClientGone ==
  /\ ~xw.alive /\ srv.client
  /\ Set(NoClient(Here)) /\ srv' = [srv EXCEPT !.client = FALSE]
  /\ xw' = [xw EXCEPT !.wl = <<>>]

\* The ready pipe: a line, or it hangs up and nobody restarts the server.
Ready ==
  /\ srv.stage = "starting"
  /\ IF xw.alive THEN \E ok \in BOOLEAN : srv' = [srv EXCEPT !.stage = IF ok THEN "running" ELSE "broken"]
     ELSE srv' = [srv EXCEPT !.stage = "broken"]
  /\ UNCHANGED <<win, role, focus, xw>>

\* dispatch() with EPOLLHUP
HangUp ==
  /\ srv.stage = "running" /\ ~xw.alive /\ ~srv.restart
  /\ srv' = [srv EXCEPT !.restart = TRUE]
  /\ UNCHANGED <<win, role, focus, xw>>

\* reset_server()
ResetServer(st) == NoClient([st EXCEPT !.win = [w \in Windows |-> NoWin]])

\* The idle restart: reset_server(), then start(), which may fail.
Restart ==
  /\ srv.restart
  /\ Set([ResetServer(Here) EXCEPT !.focus.x = None])
  /\ \E ok \in BOOLEAN :
       /\ srv' = [stage |-> IF ok THEN "starting" ELSE "off", restart |-> FALSE, client |-> ok]
       /\ xw' = [Fresh EXCEPT !.alive = ok]

-----------------------------------------------------------------------------
(* The user                                                                *)

\* A click or an action focuses a window that is shown, or something else.
Focus(s) ==
  /\ s \in Surfaces => Shown(Here, s)
  /\ Set(IF srv.stage = "running" THEN SetFocus(Here, s) ELSE [Here EXCEPT !.focus.kbd = s])
  /\ UNCHANGED <<srv, xw>>

\* set_xwayland_floating()
ToggleFloating(s) ==
  /\ role[s].window # None
  /\ role' = [role EXCEPT ![s].floating = ~@, ![s].override = IF role[s].floating THEN "tile" ELSE "float"]
  /\ UNCHANGED <<srv, win, focus, xw>>

Next ==
  \/ \E w \in Windows : \/ XCreate(w) \/ XProperty(w)
                        \/ \E s \in Surfaces : XMap(w, s)
                        \/ \E d \in BOOLEAN : XUnmap(w, d)
                        \/ \E k \in {"active", "iconify"} : XMessage(w, k)
  \/ XDie \/ XEvent \/ WlRequest
  \/ ClientGone \/ Ready \/ HangUp \/ Restart
  \/ \E s \in Surfaces \cup {Other, None} : Focus(s)
  \/ \E s \in Surfaces : ToggleFloating(s)

-----------------------------------------------------------------------------
\* The types of the variables.
TypeOK ==
  /\ srv.stage \in {"off", "starting", "running", "broken"} /\ srv.restart \in BOOLEAN
  /\ \A w \in Windows : win[w].role \in Surfaces \cup {None} /\ win[w].serial \in 0..MaxSerial
  /\ \A s \in Surfaces : role[s].window \in Windows \cup {None}
  /\ focus.kbd \in Surfaces \cup {Other, None} /\ focus.x \in Windows \cup {None}

\* A window and its surface know each other or neither does, whatever is destroyed first.
LinksMutual ==
  /\ \A w \in Windows, s \in Surfaces : win[w].role = s <=> role[s].window = w
  /\ \A s \in Surfaces : role[s].window # None => win[role[s].window].live /\ role[s].associated /\ role[s].surface

\* A window and a surface that carry the same serial have found each other, in whichever order the
\* two sockets were read; only the surface of an earlier mapping still being there delays it.
SerialsMeet ==
  \A w \in Windows, s \in Surfaces :
    win[w].live /\ role[s].surface /\ win[w].serial # 0 /\ win[w].serial = role[s].serial
      => win[w].role # None

\* The X input focus is with the window whose surface has the keyboard focus.
XFocusFollows ==
  \A s \in Surfaces : focus.kbd = s /\ role[s].window # None => focus.x = role[s].window

\* Keys never go to the surface of a client that is gone, and nothing of a server survives it.
NothingSurvives ==
  /\ focus.kbd \in Surfaces => role[focus.kbd].surface /\ srv.client
  /\ srv.stage \in {"starting", "off"} => \A w \in Windows : win[w] = NoWin

\* When all is read, the compositor agrees with Xwayland: which windows there are, which surface
\* each has, and whether it floats unless the user chose.
Settled == srv.stage = "running" /\ xw.alive /\ xw.x = <<>> /\ xw.wl = <<>>
AgreesWithX ==
  Settled => \A w \in Windows :
    /\ win[w].live = xw.win[w].on /\ win[w].role = xw.win[w].surface
    /\ win[w].dialog = xw.win[w].dialog
    /\ win[w].role # None => role[win[w].role].floating = Classified(role[win[w].role], win[w].dialog)
=============================================================================
