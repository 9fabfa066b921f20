------------------------------- MODULE Popups -------------------------------
(***************************************************************************)
(* Windows, layer surfaces and popups of one client, and the keyboard      *)
(* focus: the xdg part and the layer part of surface_commit(), the popup   *)
(* requests (compositor_server.cpp 2593-2880), the layer shell, and the    *)
(* focus grab of panels (compositor_server_focus_grab.cpp).                *)
(*                                                                         *)
(* Each of them is a wl_surface with a role given by one or two further    *)
(* objects, and the destroy handlers of the three run in any order: when a *)
(* client goes away its objects are destroyed in the order of a hash map.  *)
(* The compositor's structures point at each other (parents, the popup     *)
(* grab, the focus), and the handlers are what keeps those pointers alive. *)
(* Where one dangles the program goes on with freed memory: there the      *)
(* model stops.                                                            *)
(*                                                                         *)
(* The tags, the overview, Xwayland, the session lock and an external      *)
(* window manager are absent; one output.                                  *)
(***************************************************************************)
EXTENDS Integers, FiniteSets, TLC

CONSTANTS Windows, PopupIds, Layers, None

Surfaces == Windows \cup PopupIds \cup Layers

VARIABLES
  obj,    \* obj[s]: the objects and the state of surface s
  seat,   \* the focus of the seat and the grabs
  torn    \* the client broke a rule, and its objects are being destroyed

popupVars == <<obj, seat, torn>>

\* wl, xdg, role: the wl_surface, the xdg_surface (with a layer it is always
\* false) and the toplevel, popup or layer object are alive.  conf: the configure
\* was sent, or acknowledged.  parent is the tree of surfaces, popupParent and
\* layerParent are what the popup points at.
Absent == [wl |-> FALSE, xdg |-> FALSE, role |-> FALSE, buffer |-> FALSE, conf |-> "none",
           ready |-> FALSE, mapped |-> FALSE, exclusive |-> FALSE, dismissed |-> FALSE,
           grabbed |-> FALSE, parent |-> None, popupParent |-> None, layerParent |-> None]

\* focus: keyboard_focus; regular: regular_focus; grab: popup_grab.  panel,
\* previous, focused: the active focus grab.
NoSeat == [focus |-> None, regular |-> None, grab |-> None,
           panel |-> None, previous |-> None, focused |-> FALSE]

Init == obj = [s \in Surfaces |-> Absent] /\ seat = NoSeat /\ torn = FALSE

Here == [obj |-> obj, seat |-> seat]

\* Of a surface whose objects are all gone nothing remains.
Set(st) ==
  /\ obj' = [s \in Surfaces |->
               IF st.obj[s].wl \/ st.obj[s].xdg \/ st.obj[s].role THEN st.obj[s] ELSE Absent]
  /\ seat' = st.seat

-----------------------------------------------------------------------------
(* The tree of surfaces                                                    *)

\* root(), and the surfaces above one up to it.
Above(o, s) ==
  LET up[n \in 0 .. Cardinality(Surfaces), t \in Surfaces] ==
        IF n = 0 \/ o[t].parent = None THEN {t} ELSE {t} \cup up[n - 1, o[t].parent]
  IN up[Cardinality(Surfaces), s]
Root(o, s) == IF s = None THEN None ELSE CHOOSE t \in Above(o, s) : o[t].parent = None
Under(o, s) == {t \in Surfaces : s \in Above(o, t)}

\* popup_descendant(): along popups only.
PopupAbove(o, p) == {t \in Above(o, p) : t \in PopupIds}
ChainRoot(o, p) ==
  CHOOSE t \in PopupAbove(o, p) : o[t].popupParent \notin PopupIds

IsWindow(o, s) == s \in Windows /\ o[s].xdg /\ o[s].role
IsLayer(o, s) == s \in Layers /\ o[s].role

-----------------------------------------------------------------------------
(* The keyboard focus                                                      *)

\* focus_grab_contains()
InPanel(st, s) == s # None /\ st.seat.panel # None /\ st.obj[st.seat.panel].wl
                  /\ st.seat.panel \in Above(st.obj, s)

\* A mapped layer surface with exclusive interactivity keeps the focus from
\* windows.
HeldExclusively(st) ==
  LET top == Root(st.obj, st.seat.focus)
  IN top # None /\ st.obj[top].wl /\ IsLayer(st.obj, top) /\ st.obj[top].mapped
     /\ st.obj[top].exclusive

\* set_keyboard_focus(): while a focus grab is active its panel keeps the focus,
\* except during the grab's own changes (focus_grab_transition).
SetKeyboardFocus(st, next, transition) ==
  LET top == Root(st.obj, next)
      window == top # None /\ IsWindow(st.obj, top)
  IN IF \/ st.seat.panel # None /\ ~transition /\ ~InPanel(st, next)
        \/ window /\ ~transition /\ HeldExclusively(st)
     THEN st
     ELSE [st EXCEPT !.seat.focus = next, !.seat.regular = IF window THEN top ELSE @]

\* focus_fallback(): the window that last had the focus, or some other one.
Focusable(o, s, excluded) == s # None /\ s # excluded /\ IsWindow(o, s) /\ o[s].wl /\ o[s].mapped
FocusFallback(st, excluded) ==
  IF Focusable(st.obj, st.seat.regular, excluded) THEN st.seat.regular
  ELSE LET others == {w \in Windows : Focusable(st.obj, w, excluded)}
       IN IF others = {} THEN None ELSE CHOOSE w \in others : TRUE

\* dismiss_focus_grab(): the focus goes back to where it was, if that is alive
\* and shows something.
DismissPanel(st) ==
  IF st.seat.panel = None THEN st
  ELSE LET p == st.seat.previous
           back == IF p # None /\ st.obj[p].wl /\ st.obj[Root(st.obj, p)].buffer THEN p ELSE None
           ended == [st EXCEPT !.seat.panel = None, !.seat.previous = None, !.seat.focused = FALSE]
       IN IF st.seat.focused THEN SetKeyboardFocus(ended, back, TRUE) ELSE ended

\* refresh_focus_grab(): the panel gets the focus once it is mapped, and the grab
\* ends when it is unmapped again or destroyed.
RefreshPanel(st) ==
  LET p == st.seat.panel
  IN IF p = None THEN st
     ELSE IF ~st.obj[p].wl \/ ~st.obj[p].role THEN DismissPanel(st)
     ELSE IF ~st.obj[p].mapped THEN IF st.seat.focused THEN DismissPanel(st) ELSE st
     ELSE IF st.seat.focused THEN st
     ELSE [SetKeyboardFocus(st, p, TRUE) EXCEPT !.seat.focused = TRUE]

\* refresh_layer_keyboard_focus()
RefreshLayerFocus(before) ==
  LET st == RefreshPanel(before)
      exclusive == {l \in Layers : IsLayer(st.obj, l) /\ st.obj[l].mapped /\ st.obj[l].exclusive}
      top == Root(st.obj, st.seat.focus)
  IN IF st.seat.panel # None THEN st
     ELSE IF exclusive # {} THEN SetKeyboardFocus(st, CHOOSE l \in exclusive : TRUE, FALSE)
     ELSE IF top # None /\ IsLayer(st.obj, top) /\ ~st.obj[top].mapped
     THEN SetKeyboardFocus(st, st.seat.regular, FALSE)
     ELSE st

-----------------------------------------------------------------------------
(* Dismissing popups                                                       *)

LivePopup(o, p) == p \in PopupIds /\ o[p].xdg /\ o[p].role /\ ~o[p].dismissed

\* The popups popup_done(p) reaches: itself and, through its surface, those
\* opened on it.
Reached(o, p) ==
  IF ~LivePopup(o, p) THEN {}
  ELSE {q \in Under(o, p) : LivePopup(o, q)}

PopupDoneShallow(st, p) ==    \* mutant: the children stay
  IF ~LivePopup(st.obj, p) THEN st
  ELSE LET moved == IF st.seat.grab = p THEN [st EXCEPT !.seat.grab = None] ELSE st
       IN [moved EXCEPT !.obj[p].dismissed = TRUE, !.obj[p].parent = None, !.obj[p].popupParent = None,
                        !.obj[p].mapped = FALSE, !.obj[p].ready = FALSE]

\* popup_done(): innermost first, each is taken from the tree and unmapped; the
\* grab is given up when it is on one of them, and a focus in there moves to the
\* root of that popup's parent.
PopupDone(st, p) ==
  LET gone == Reached(st.obj, p)
      g == st.seat.grab
      released == [st EXCEPT !.seat.grab = None]
      moved == IF g \notin gone THEN st
               ELSE IF st.seat.focus # None /\ g \in Above(st.obj, st.seat.focus)
               THEN SetKeyboardFocus(released, Root(st.obj, st.obj[g].popupParent), FALSE)
               ELSE released
  IN [moved EXCEPT !.obj =
        [s \in gone |-> [@[s] EXCEPT !.dismissed = TRUE, !.parent = None, !.popupParent = None,
                                      !.mapped = FALSE, !.ready = FALSE]]
        @@ @]

\* popup_done() for every popup opened directly on s.
ChildPopups(o, s) == {p \in PopupIds : o[p].parent = s /\ LivePopup(o, p)}
DismissChildren(st, s) ==
  LET step[n \in 0 .. Cardinality(PopupIds)] ==
        IF n = 0 THEN st
        ELSE LET before == step[n - 1]
                 left == ChildPopups(before.obj, s)
             IN IF left = {} THEN before ELSE PopupDone(before, CHOOSE p \in left : TRUE)
  IN step[Cardinality(PopupIds)]

-----------------------------------------------------------------------------
(* What dangles                                                            *)

FocusDangles == seat.focus # None /\ ~obj[seat.focus].wl

\* A popup that outlives its wl_surface is no longer found by the handlers of
\* its parent and of the seat: its parent pointer and the popup grab on it are
\* freed memory soon.
PopupOutlives == \E p \in PopupIds : obj[p].role /\ ~obj[p].wl

Sound == ~FocusDangles /\ ~PopupOutlives
Alive == Sound /\ ~torn

-----------------------------------------------------------------------------
(* Objects come                                                            *)

\* create_surface() and get_xdg() with get_top(), which sends a configure.
CreateWindow(w) ==
  /\ Alive /\ obj[w] = Absent
  /\ obj' = [obj EXCEPT ![w] = [Absent EXCEPT !.wl = TRUE, !.xdg = TRUE, !.role = TRUE, !.conf = "sent"]]
  /\ UNCHANGED <<seat, torn>>

\* layer_get_surface()
CreateLayer(l) ==
  /\ Alive /\ obj[l] = Absent
  /\ obj' = [obj EXCEPT ![l] = [Absent EXCEPT !.wl = TRUE, !.role = TRUE]]
  /\ UNCHANGED <<seat, torn>>

\* get_popup(): on an xdg surface, or on none to be given to a layer surface.
CreatePopup(p, on) ==
  /\ Alive /\ obj[p] = Absent
  /\ on # None => (on \in Windows \cup PopupIds /\ obj[on].xdg /\ obj[on].wl)
  /\ on # p
  /\ obj' = [obj EXCEPT ![p] = [Absent EXCEPT !.wl = TRUE, !.xdg = TRUE, !.role = TRUE,
                                  !.parent = on, !.popupParent = on,
                                  !.conf = IF on = None THEN "none" ELSE "sent"]]
  /\ UNCHANGED <<seat, torn>>

\* associate_layer_popup()
LayerPopup(l, p) ==
  /\ Alive /\ IsLayer(obj, l) /\ obj[l].wl
  /\ LivePopup(obj, p) /\ obj[p].wl
  /\ obj[p].popupParent = None /\ obj[p].layerParent = None /\ obj[p].parent = None
  /\ obj' = [obj EXCEPT ![p].layerParent = l, ![p].parent = l, ![p].conf = IF @ = "acked" THEN @ ELSE "sent"]
  /\ UNCHANGED <<seat, torn>>

\* ack_configure() of the three kinds; a serial that is not owed is ignored.
Ack(s) ==
  /\ Alive /\ obj[s].role /\ obj[s].conf = "sent"
  /\ obj' = [obj EXCEPT ![s].conf = "acked"]
  /\ UNCHANGED <<seat, torn>>

-----------------------------------------------------------------------------
(* surface_commit()                                                        *)

\* activate_popup_grab()
ActivateGrab(st, p) ==
  IF LivePopup(st.obj, p) /\ st.obj[p].grabbed /\ st.obj[p].wl /\ st.obj[p].mapped /\ st.seat.grab = p
  THEN SetKeyboardFocus(st, p, FALSE) ELSE st

\* A buffer before the configure is acknowledged is an error.
TooEarly(s, buffer) == buffer /\ obj[s].conf # "acked"

RefusedCommit(s) ==
  /\ Alive /\ obj[s].wl /\ obj[s].role
  /\ TooEarly(s, TRUE) /\ (IF s \in Layers THEN ~obj[s].mapped ELSE ~obj[s].ready)
  /\ torn' = TRUE /\ UNCHANGED <<obj, seat>>

\* A window is mapped with a buffer; the first one takes the focus, and one that
\* is unmapped gives it up and takes its popups along.
CommitWindow(w, buffer) ==
  /\ Alive /\ obj[w].wl /\ IsWindow(obj, w) /\ ~TooEarly(w, buffer)
  /\ LET was == obj[w].mapped
         now == [Here EXCEPT !.obj[w].buffer = buffer, !.obj[w].mapped = buffer,
                             !.obj[w].ready = buffer]
         closed == IF buffer THEN now ELSE DismissChildren(now, w)
         focused == CASE ~was /\ buffer /\ closed.seat.focus = None -> SetKeyboardFocus(closed, w, FALSE)
                      [] was /\ ~buffer /\ Root(closed.obj, closed.seat.focus) = w ->
                           SetKeyboardFocus(closed, FocusFallback(closed, w), FALSE)
                      [] OTHER -> closed
     IN Set(IF was /\ ~buffer /\ focused.seat.regular = w
            THEN [focused EXCEPT !.seat.regular = None] ELSE focused)
  /\ UNCHANGED torn

\* The popup's parent must be mapped for it to be; its own popups go with it.
ParentMapped(o, p) ==
  \/ o[p].popupParent # None /\ o[o[p].popupParent].mapped
  \/ o[p].layerParent # None /\ o[o[p].layerParent].role /\ o[o[p].layerParent].mapped

\* layer_parent is looked at where the other parent does not decide; the surface
\* it points at may be gone.
LayerParentDangles(p) ==
  obj[p].layerParent # None /\ ~obj[obj[p].layerParent].wl

CommitPopup(p, buffer) ==
  /\ Alive /\ obj[p].wl /\ obj[p].xdg /\ obj[p].role /\ ~TooEarly(p, buffer) /\ ~LayerParentDangles(p)
  /\ LET was == obj[p].mapped
         ready == buffer /\ (obj[p].ready \/ obj[p].conf = "acked")
         now == [Here EXCEPT !.obj[p].buffer = buffer, !.obj[p].ready = ready,
                             !.obj[p].mapped = ready /\ ParentMapped(obj, p)]
         active == IF ~was THEN ActivateGrab(now, p) ELSE now
     IN Set(IF was /\ ~now.obj[p].mapped THEN DismissChildren(active, p) ELSE active)
  /\ UNCHANGED torn

\* A layer surface is mapped with a buffer once configured.  Taking the buffer
\* away starts over: a commit without one asks for a configure again.
CommitLayer(l, buffer, exclusive) ==
  /\ Alive /\ obj[l].wl /\ IsLayer(obj, l) /\ (TooEarly(l, buffer) => obj[l].mapped)
  /\ LET o == obj[l]
         detached == o.buffer /\ ~buffer
         next == [o EXCEPT !.buffer = buffer, !.exclusive = exclusive,
                           !.mapped = buffer /\ (@ \/ o.conf = "acked"),
                           !.conf = IF detached THEN "none" ELSE IF @ = "none" THEN "sent" ELSE @]
     IN Set(RefreshLayerFocus([Here EXCEPT !.obj[l] = next]))
  /\ UNCHANGED torn

-----------------------------------------------------------------------------
(* Grabs, and the user                                                     *)

\* popup_grab(): only on top of the chain that has the grab.
PopupGrab(p) ==
  /\ Alive /\ LivePopup(obj, p)
  /\ obj[p].popupParent \in PopupIds => obj[obj[p].popupParent].grabbed
  /\ seat.grab # None => ChainRoot(obj, seat.grab) \in PopupAbove(obj, p)
  /\ Set(ActivateGrab([Here EXCEPT !.obj[p].grabbed = TRUE, !.seat.grab = p], p))
  /\ UNCHANGED torn

\* activate of a focus grab: armed until the panel is mapped.
ActivatePanel(l) ==
  /\ Alive /\ seat.panel # l /\ IsLayer(obj, l) /\ obj[l].wl
  /\ LET ended == DismissPanel(Here)
     IN Set(RefreshPanel([ended EXCEPT !.seat.panel = l, !.seat.previous = ended.seat.focus]))
  /\ UNCHANGED torn

\* release, and the destruction of the grab object.
ReleasePanel ==
  /\ Sound /\ seat.panel # None
  /\ Set(DismissPanel(Here)) /\ UNCHANGED torn

\* pointer_button(): a press on surface t, or on none of them.  Outside the panel
\* it ends the focus grab, outside the popups the whole chain, and is consumed.
Shown(o, s) == o[s].wl /\ o[s].mapped /\ o[Root(o, s)].mapped
Press(t) ==
  /\ Sound /\ (t # None => Shown(obj, t))
  /\ Set(IF seat.panel # None /\ ~InPanel(Here, t) THEN DismissPanel(Here)
         ELSE IF /\ seat.grab # None
                 /\ ~(t \in PopupIds /\ ChainRoot(obj, seat.grab) \in PopupAbove(obj, t))
         THEN PopupDone(Here, ChainRoot(obj, seat.grab))
         ELSE IF t = None \/ (HeldExclusively(Here) /\ Root(obj, seat.focus) # Root(obj, t)) THEN Here
         ELSE SetKeyboardFocus(Here, Root(obj, t), FALSE))
  /\ UNCHANGED torn

-----------------------------------------------------------------------------
(* Objects go, in any order                                                *)

\* surface_destroyed(): `alive` is false from the start, the children's popups
\* are dismissed, the other children lose their parent.
DestroySurface(s) ==
  /\ Sound /\ obj[s].wl
  /\ LET dead == RefreshPanel([Here EXCEPT !.obj[s].wl = FALSE])
         closed == DismissChildren(dead, s)
         alone == [closed EXCEPT !.obj = [t \in Surfaces |->
                     IF @[t].parent = s THEN [@[t] EXCEPT !.parent = None] ELSE @[t]]]
         top == Root(alone.obj, s)
         focused == IF alone.seat.focus # None /\ Root(alone.obj, alone.seat.focus) = top
                    THEN SetKeyboardFocus(alone, FocusFallback(alone, top), FALSE) ELSE alone
     IN Set([focused EXCEPT !.obj[s] = [@ EXCEPT !.parent = None, !.buffer = FALSE,
                                           !.mapped = @ /\ s \notin Layers],
                            !.seat.regular = IF @ = s THEN None ELSE @])
  /\ UNCHANGED torn

\* top_destroyed(), popup_destroyed(), layer_destroyed().
DestroyRole(s) ==
  /\ Sound /\ obj[s].role
  /\ LET st == Here
         focused == st.seat.focus # None /\ Root(obj, st.seat.focus) = s
         window == [DismissChildren(st, s) EXCEPT !.obj[s].mapped = FALSE, !.obj[s].role = FALSE]
         windowEnd == LET n == IF focused THEN SetKeyboardFocus(window, FocusFallback(window, s), FALSE) ELSE window
                      IN IF n.seat.regular = s THEN [n EXCEPT !.seat.regular = None] ELSE n
         popup == [PopupDone(st, s) EXCEPT !.obj[s].role = FALSE, !.obj[s].popupParent = None,
                                           !.obj[s].layerParent = None, !.obj[s].grabbed = FALSE,
                                           !.obj[s].dismissed = FALSE]
         layer == RefreshPanel([st EXCEPT !.obj[s].role = FALSE, !.obj[s].mapped = FALSE])
         layerEnd == RefreshLayerFocus(
                       IF focused /\ Root(layer.obj, layer.seat.focus) = s
                       THEN SetKeyboardFocus(layer, layer.seat.regular, FALSE) ELSE layer)
     IN Set(IF s \in PopupIds THEN popup ELSE IF ~obj[s].wl THEN [st EXCEPT !.obj[s].role = FALSE]
            ELSE IF s \in Windows THEN windowEnd ELSE layerEnd)
  /\ UNCHANGED torn

\* xdg_destroyed(): before its role it is an error, unless the client is going.
DestroyXdg(s) ==
  /\ Sound /\ obj[s].xdg
  /\ LET done == IF obj[s].role /\ s \in PopupIds THEN PopupDone(Here, s) ELSE Here
         closed == IF obj[s].wl THEN DismissChildren(done, s) ELSE done
     IN Set([closed EXCEPT !.obj[s].xdg = FALSE, !.obj[s].mapped = FALSE, !.obj[s].ready = FALSE,
                           !.obj[s].conf = "none"])
  /\ torn' = (torn \/ obj[s].role)

WindowStep(w) == CreateWindow(w) \/ \E b \in BOOLEAN : CommitWindow(w, b)
LayerStep(l) ==
  \/ CreateLayer(l) \/ ActivatePanel(l)
  \/ \E b, e \in BOOLEAN : CommitLayer(l, b, e)
  \/ \E p \in PopupIds : LayerPopup(l, p)
PopupStep(p) ==
  \/ \E on \in Windows \cup PopupIds \cup {None} : CreatePopup(p, on)
  \/ \E b \in BOOLEAN : CommitPopup(p, b)
  \/ PopupGrab(p)

Next ==
  \/ \E w \in Windows : WindowStep(w)
  \/ \E l \in Layers : LayerStep(l)
  \/ \E p \in PopupIds : PopupStep(p)
  \/ \E s \in Surfaces : Ack(s) \/ RefusedCommit(s)
  \/ \E s \in Surfaces : DestroySurface(s) \/ DestroyRole(s) \/ DestroyXdg(s)
  \/ \E t \in Surfaces \cup {None} : Press(t)
  \/ ReleasePanel

Spec == Init /\ [][Next]_popupVars

-----------------------------------------------------------------------------
(* Properties                                                              *)

TypeOK ==
  /\ \A s \in Surfaces :
       /\ obj[s].conf \in {"none", "sent", "acked"}
       /\ {obj[s].parent, obj[s].popupParent, obj[s].layerParent} \subseteq Surfaces \cup {None}
  /\ {seat.focus, seat.regular, seat.grab, seat.panel, seat.previous} \subseteq Surfaces \cup {None}
  /\ torn \in BOOLEAN

\* No surface hangs below one that is gone, and a popup that is not dismissed
\* points at an xdg surface that exists.
ParentsAlive ==
  \A s \in Surfaces :
    /\ obj[s].parent # None => obj[obj[s].parent].wl
    /\ LivePopup(obj, s) /\ obj[s].popupParent # None => obj[obj[s].popupParent].xdg

\* A mapped popup stands on something mapped (a window or a popup; the popups of
\* a layer surface stay when it is unmapped), so that closing a window or a menu
\* closes what was opened from it.
PopupsFollow ==
  \A p \in PopupIds :
    obj[p].mapped /\ LivePopup(obj, p) /\ obj[p].popupParent # None => obj[obj[p].popupParent].mapped

\* The popup grab is on a popup that exists and is not dismissed.
GrabAlive == seat.grab # None => LivePopup(obj, seat.grab)

\* The keyboard focus is on a surface that exists, unless a focus grab or an
\* exclusive layer surface refused to let it move.
FocusAlive ==
  FocusDangles => seat.panel # None \/ \E l \in Layers : obj[l].mapped /\ obj[l].exclusive
=============================================================================
