------------------------------- MODULE Pointer -------------------------------
(***************************************************************************)
(* The pointer of the seat: which surface has it, the implicit grab of a   *)
(* pressed button, moves and resizes, panning, drags, the overview, the    *)
(* session lock, and the pointer constraints of clients                    *)
(* (compositor_server.cpp 4080-4900, compositor_server_input.cpp).         *)
(*                                                                         *)
(* Each surface is a window of a client of its own, or the lock surface.   *)
(* Where the pointer is, is the surface under it.  Popups and focus grabs  *)
(* are in Popups, what a drag offers in Selections.  External policies,    *)
(* cluster drags and hover focus are left out.                             *)
(***************************************************************************)
EXTENDS Integers, FiniteSets, Sequences

CONSTANTS
  Windows, LockSurface, Buttons, None,
  LeftButton, RightButton,
  PanButtons,     \* bound to "pan" in the configuration
  Constrainable   \* the windows whose client asks for a pointer constraint

Surfaces == Windows \cup {LockSurface}

VARIABLES
  ptr,      \* SeatState, as far as the pointer is concerned
  mapped,   \* the windows that are mapped
  cons,     \* seat->constraints, in the order they were made
  told,     \* told[s]: the buttons the client of s has seen pressed there
  held,     \* the buttons the user holds down
  cut       \* the pressed buttons whose grab was given up before their release

pointerVars == <<ptr, mapped, cons, told, held, cut>>

\* kf: keyboard_focus; move: interactive; own, pan, ownButton: compositor_interactive,
\* canvas_panning, interactive_button; hidden: cursor_hidden_for_lock; drag:
\* drag_origin; dragButton; last: the client and button of button_serial.  crossed is
\* history: a drag was begun during a move, and one of the two goes on.
Init ==
  /\ ptr = [focus |-> None, hit |-> None, grab |-> None, kf |-> None, move |-> None,
            own |-> FALSE, pan |-> FALSE, ownButton |-> None, pressed |-> {}, consumed |-> {},
            hidden |-> FALSE, drag |-> None, dragButton |-> None, last |-> <<None, None>>,
            overview |-> FALSE, locked |-> FALSE, crossed |-> FALSE]
  /\ mapped = {} /\ cons = <<>> /\ held = {} /\ cut = {}
  /\ told = [s \in Surfaces |-> {}]

Here == [p |-> ptr, c |-> cons, t |-> told, x |-> cut]
Set(st) ==
  /\ ptr' = [st.p EXCEPT !.crossed = @ /\ (st.p.drag # None \/ st.p.move # None)]
  /\ cons' = st.c /\ told' = st.t /\ cut' = st.x

-----------------------------------------------------------------------------
(* Constraints                                                             *)

Active(st) == {i \in DOMAIN st.c : st.c[i].active}

\* deactivate_constraint()
Deactivated(c) == IF c.active THEN [c EXCEPT !.active = FALSE, !.defunct = @ \/ c.oneshot] ELSE c
Off(st, i) == [st EXCEPT !.c[i] = Deactivated(st.c[i]),
                         !.p.hidden = @ /\ ~(st.c[i].active /\ st.c[i].locks)]

Focused(st, i) == ~st.c[i].defunct /\ st.c[i].on # None /\ st.p.focus = st.c[i].on

\* update_pointer_constraints(): whoever has the focus; the cursor follows the last
\* lock of the list that begins or ends.
Updated(c, focused) ==
  IF ~focused THEN Deactivated(c) ELSE [c EXCEPT !.active = TRUE]
UpdateConstraints(st) ==
  LET turned == {i \in DOMAIN st.c : st.c[i].locks /\ (st.c[i].active # Focused(st, i))}
  IN [st EXCEPT !.c = [i \in DOMAIN st.c |-> Updated(st.c[i], Focused(st, i))],
                !.p.hidden = IF turned = {} THEN @
                             ELSE \E i \in turned : Focused(st, i) /\ \A j \in turned : j <= i]

\* No constraint is left active.
AllOff(st) ==
  [st EXCEPT !.c = [i \in DOMAIN st.c |-> Deactivated(st.c[i])],
             !.p.hidden = @ /\ \A i \in DOMAIN st.c : ~(st.c[i].active /\ st.c[i].locks)]

-----------------------------------------------------------------------------
(* Focus and gestures                                                      *)

\* set_pointer_focus(): a client that the pointer leaves or enters starts with
\* no button pressed.
SetFocus(st, next) ==
  IF st.p.focus = next THEN st
  ELSE UpdateConstraints(
         [st EXCEPT !.p.focus = next,
                    !.t = [s \in Surfaces |-> IF s \in {st.p.focus, next} THEN {} ELSE @[s]]])

\* pointer_grab = nullptr while a button is down.
DropGrab(st) == [st EXCEPT !.p.grab = None, !.x = @ \cup st.p.pressed]

\* end_interactive()
EndMove(st) ==
  [st EXCEPT !.p.move = None, !.p.own = FALSE, !.p.pan = FALSE, !.p.ownButton = None,
             !.x = IF st.p.own THEN @ \cup ({st.p.ownButton} \cap st.p.pressed) ELSE @]

\* set_keyboard_focus(): ends a gesture on another window, and the constraint of one.
SetKeyboardFocus(st, next) ==
  LET ended == IF st.p.own /\ st.p.move # next THEN EndMove(st) ELSE st
      i == Active(ended)
      free == IF i # {} /\ ended.c[CHOOSE j \in i : TRUE].on # next
              THEN Off(ended, CHOOSE j \in i : TRUE) ELSE ended
  IN IF ended.p.kf = next THEN ended ELSE [free EXCEPT !.p.kf = next]

\* finish_drag() and cancel_drag(), as far as the seat is concerned.
EndDrag(st) == [st EXCEPT !.p.drag = None, !.p.dragButton = None]

-----------------------------------------------------------------------------
(* Motion                                                                  *)

\* route_pointer_motion(): a lock keeps the pointer where it is, a confinement
\* keeps it on its surface unless there is no room left, a button keeps the focus.
Route(st, h, room) ==
  LET i == CHOOSE j \in Active(st) : TRUE
      at == [st EXCEPT !.p.hit = h]
      kept == [st EXCEPT !.p.hit = st.c[i].on]
      follow(s) == IF s.p.drag # None THEN s
                   ELSE UpdateConstraints(SetFocus(s, IF s.p.grab # None THEN s.p.grab ELSE s.p.hit))
  IN IF Active(st) = {} THEN follow(at)
     ELSE IF st.c[i].locks THEN kept
     ELSE follow(IF room THEN kept ELSE Off(at, i))

\* pointer_leave()
Leave(st) ==
  LET off == IF Active(st) # {} THEN Off(st, CHOOSE j \in Active(st) : TRUE) ELSE st
      out == [off EXCEPT !.p.hit = None]
  IN IF out.p.grab = None THEN SetFocus(out, None) ELSE out

\* surface_at_global()
Visible == IF ptr.locked THEN {LockSurface} ELSE mapped

\* The surface under the pointer, or that of the constraint outside of all.
Moved(h, room) ==
  IF h # None THEN Route(Here, h, room)
  ELSE IF Active(Here) = {} THEN Leave(Here)
  ELSE Route(Here, cons[CHOOSE j \in Active(Here) : TRUE].on, room)

\* pointer_motion_global(): nothing has the pointer in the overview, and while the
\* view is panned nobody is told.
Motion(h, room) ==
  /\ h \in Visible \cup {None}
  /\ Set(IF ptr.overview THEN SetFocus(Here, None) ELSE IF ptr.pan THEN Here ELSE Moved(h, room))
  /\ UNCHANGED <<mapped, held>>

-----------------------------------------------------------------------------
(* Buttons                                                                 *)

Target == IF ptr.grab # None THEN ptr.grab ELSE ptr.focus

\* With the overview open the press only chooses there.
PressOverview(b) == [Here EXCEPT !.p.consumed = @ \cup {b}]

\* The view follows the pointer, and no client has it.
PressPan(b) ==
  SetFocus([DropGrab([Here EXCEPT !.x = @ \ {b}]) EXCEPT
              !.p.pressed = @ \cup {b}, !.p.own = TRUE, !.p.ownButton = b, !.p.pan = TRUE], None)

\* Both kinds of press give the keyboard to a window that does not have it.
Raised(st, t) == IF st.p.kf = t THEN st ELSE SetKeyboardFocus(st, t)

\* With the super key the compositor moves or resizes the window itself ("moves").  A
\* tile does not follow the left button, which is swallowed all the same ("still"), and
\* without a neighbour its resize is over at once ("ended").
PressMove(t, b, how) ==
  LET to == Raised(Here, t)
      on == [to EXCEPT !.p.move = IF how = "still" THEN @ ELSE t, !.p.grab = t, !.p.own = TRUE,
                       !.p.ownButton = b, !.p.pressed = @ \cup {b},
                       !.x = (@ \cup (IF to.p.own THEN {to.p.ownButton} ELSE {})) \ {b}]
  IN IF how = "ended" THEN EndMove(on) ELSE on

\* The client gets the button, and with it the grab and the keyboard.
PressClient(t, b) ==
  LET to == Raised([Here EXCEPT !.p.pressed = @ \cup {b}, !.p.grab = t,
                                !.x = IF ptr.focus # t THEN @ \cup {b} ELSE @ \ {b}], t)
  IN [to EXCEPT !.t[t] = @ \cup {b}, !.p.last = <<t, b>>]

\* What the keys that are down and the layout make of a press: the button is bound to
\* pan the view, there is an endless canvas behind the windows, the super key is down.
Ways == {"plain", "bound", "canvas", "moves", "still", "ended"}

Pans(b, how) ==
  /\ how = "bound" /\ b \in PanButtons
  /\ ~ptr.locked /\ ~ptr.own /\ ptr.drag = None /\ b \notin ptr.pressed
PansCanvas(b, how) == how = "canvas" /\ b = LeftButton /\ ~ptr.locked
Grips(t, b, how) ==
  /\ ~ptr.locked /\ t \in mapped
  /\ \/ how = "moves" /\ b \in {LeftButton, RightButton}
     \/ how = "still" /\ b = LeftButton
     \/ how = "ended" /\ b = RightButton

\* pointer_button(), pressed.
Press(b, how) ==
  /\ b \notin held /\ held' = held \cup {b} /\ UNCHANGED mapped
  /\ LET t == Target
     IN Set(IF ptr.overview THEN PressOverview(b)
            ELSE IF Pans(b, how) THEN PressPan(b)
            ELSE IF b \in ptr.pressed THEN Here
            ELSE IF ptr.drag # None THEN [Here EXCEPT !.p.pressed = @ \cup {b}, !.x = @ \cup {b}]
            ELSE IF t = None THEN IF PansCanvas(b, how) THEN PressPan(b) ELSE Here
            ELSE IF Grips(t, b, how) THEN PressMove(t, b, how)
            ELSE PressClient(t, b))

\* A button the compositor swallowed: the client never hears of it.
ReleaseConsumed(up, b) == [(IF ptr.overview THEN Here ELSE up) EXCEPT !.p.consumed = @ \ {b}]

\* The compositor's own gesture ends.
ReleaseOwn(up) == SetFocus(EndMove(DropGrab(up)), ptr.hit)

\* drag_button(): the drop, with the button the drag began with.
ReleaseDrag(up, b) == IF ptr.dragButton = b THEN SetFocus(EndDrag(up), ptr.hit) ELSE up

ReleaseNowhere(up, last) == IF last THEN EndMove([up EXCEPT !.p.grab = None]) ELSE up

\* The last button ends the implicit grab, and a move the client began.
ReleaseClient(up, b, last) ==
  LET sent == [up EXCEPT !.t[Target] = @ \ {b}]
  IN IF last THEN SetFocus([sent EXCEPT !.p.move = None, !.p.grab = None], ptr.hit) ELSE sent

\* pointer_button(), released.  The serial of a press is of no use once no button
\* is down.
Release(b) ==
  /\ b \in held /\ held' = held \ {b} /\ UNCHANGED mapped
  /\ LET last == ptr.pressed \subseteq {b}
         up == [Here EXCEPT !.p.pressed = @ \ {b}, !.x = @ \ {b},
                            !.p.last = IF last THEN <<None, None>> ELSE @]
     IN Set(IF b \in ptr.consumed THEN ReleaseConsumed(up, b)
            ELSE IF ptr.overview THEN Here
            ELSE IF ptr.own /\ ptr.ownButton = b THEN ReleaseOwn(up)
            ELSE IF b \notin ptr.pressed THEN Here
            ELSE IF ptr.drag # None THEN ReleaseDrag(up, b)
            ELSE IF Target = None THEN ReleaseNowhere(up, last)
            ELSE ReleaseClient(up, b, last))

-----------------------------------------------------------------------------
(* Clients                                                                 *)

\* begin_interactive(): with the serial of a press on that window that is still grabbed.
Serial(w) == ptr.last[1] = w /\ ptr.last[2] # None
BeginMove(w) ==
  /\ w \in mapped /\ Serial(w) /\ ptr.grab = w
  /\ ptr' = [ptr EXCEPT !.move = w] /\ UNCHANGED <<mapped, cons, told, held, cut>>

\* data_device_start_drag(): while that button is down and the pointer is there, also
\* in the middle of a move.
StartDrag(w) ==
  /\ w \in mapped /\ Serial(w) /\ ptr.drag = None
  /\ ptr.last[2] \in ptr.pressed /\ ptr.focus = w
  /\ LET st == [DropGrab(Here) EXCEPT !.p.drag = w, !.p.dragButton = ptr.last[2],
                                      !.p.crossed = ptr.own \/ ptr.move # None]
         free == IF Active(st) # {} THEN Off(st, CHOOSE j \in Active(st) : TRUE) ELSE st
     IN Set(SetFocus(free, None))
  /\ UNCHANGED <<mapped, held>>

\* The source of the drag is destroyed.
CancelDrag ==
  /\ ptr.drag # None /\ Set(EndDrag(Here)) /\ UNCHANGED <<mapped, held>>

\* create_constraint()
Constrain(w, locks, oneshot) ==
  /\ w \in mapped \cap Constrainable /\ \A i \in DOMAIN cons : cons[i].on # w
  /\ Len(cons) < Cardinality(Constrainable)
  /\ LET st == [Here EXCEPT !.c = Append(@, [on |-> w, locks |-> locks, oneshot |-> oneshot,
                                            active |-> FALSE, defunct |-> FALSE])]
     IN Set(IF ptr.focus = w THEN UpdateConstraints(st) ELSE st)
  /\ UNCHANGED <<mapped, held>>

\* constraint_destroyed()
Unconstrain(i) ==
  /\ i \in DOMAIN cons
  /\ LET st == Off(Here, i)
     IN Set([st EXCEPT !.c = SubSeq(@, 1, i - 1) \o SubSeq(@, i + 1, Len(@))])
  /\ UNCHANGED <<mapped, held>>

\* pointer_resource_destroyed(): the client gives up its wl_pointer.
ReleasePointer(i) ==
  /\ i \in DOMAIN cons /\ ~cons[i].defunct
  /\ Set([Off(Here, i) EXCEPT !.c[i].defunct = TRUE]) /\ UNCHANGED <<mapped, held>>

Map(w) == w \notin mapped /\ mapped' = mapped \cup {w} /\ UNCHANGED <<ptr, cons, told, held, cut>>

Forgotten(st, w) ==
  [st EXCEPT !.p.focus = IF @ = w THEN None ELSE @, !.p.hit = IF @ = w THEN None ELSE @,
             !.x = IF st.p.grab = w THEN @ \cup st.p.pressed ELSE @,
             !.p.grab = IF @ = w THEN None ELSE @]

\* A commit without a buffer: the seat forgets the window, without a leave event, the
\* keyboard focus moves to some other window, and a constraint on the window is off.
Unmap(w, next) ==
  /\ w \in mapped /\ next \in (mapped \ {w}) \cup {None}
  /\ LET st == IF ptr.move = w THEN EndMove(Here) ELSE Here
         its == {i \in DOMAIN cons : cons[i].on = w}
         off == IF its # {} THEN Off(st, CHOOSE i \in its : TRUE) ELSE st
     IN Set(Forgotten(IF off.p.kf = w THEN SetKeyboardFocus(off, next) ELSE off, w))
  /\ mapped' = mapped \ {w} /\ UNCHANGED held

\* surface_destroyed(): also of a window that is not mapped, a constraint of which
\* stays behind without a surface.
Destroy(w, next) ==
  /\ next \in (mapped \ {w}) \cup {None}
  /\ \E i \in DOMAIN cons : cons[i].on = w
  /\ LET i == CHOOSE j \in DOMAIN cons : cons[j].on = w
         st == [Off(IF ptr.move = w THEN EndMove(Here) ELSE Here, i) EXCEPT
                  !.c[i].on = None, !.c[i].defunct = TRUE]
         left == Forgotten(IF st.p.kf = w THEN SetKeyboardFocus(st, next) ELSE st, w)
     IN Set([left EXCEPT !.t[w] = {}, !.p.last = IF @[1] = w THEN <<None, None>> ELSE @,
                         !.p.drag = IF @ = w THEN None ELSE @,
                         !.p.dragButton = IF left.p.drag = w THEN None ELSE @])
  /\ mapped' = mapped \ {w} /\ UNCHANGED held

-----------------------------------------------------------------------------
(* The rest of the compositor                                              *)

\* A binding or a manager gives the keyboard to a window.
FocusWindow(w) ==
  /\ w \in mapped /\ ~ptr.locked /\ ptr.kf # w
  /\ Set(SetKeyboardFocus(Here, w)) /\ UNCHANGED <<mapped, held>>

\* update_overview(true): the clients get the releases of what is pressed, which
\* from then on is consumed.
OpenOverview ==
  /\ ~ptr.overview /\ ~ptr.locked
  /\ LET st == [Here EXCEPT !.t = [s \in Surfaces |-> IF s = ptr.grab /\ ~ptr.own
                                                      THEN @[s] \ ptr.pressed ELSE @[s]],
                            !.p.consumed = @ \cup ptr.pressed, !.p.pressed = {}, !.x = {},
                            !.p.grab = None, !.p.last = <<None, None>>]
     IN Set([EndMove(EndDrag(st)) EXCEPT !.p.overview = TRUE])
  /\ UNCHANGED <<mapped, held>>

CloseOverview ==
  /\ ptr.overview /\ Set([EndMove(Here) EXCEPT !.p.overview = FALSE]) /\ UNCHANGED <<mapped, held>>

\* blank_unlocked_scene(): the buttons that are down stay down.
LockSession ==
  /\ ~ptr.locked
  /\ LET st == [AllOff(EndMove(Here)) EXCEPT
                  !.p.overview = FALSE, !.p.locked = TRUE, !.x = @ \cup ptr.pressed]
     IN Set(SetKeyboardFocus(SetFocus(st, None), None))
  /\ UNCHANGED <<mapped, held>>

\* restore_unlocked_scene(), and the lock surface is destroyed.
UnlockSession ==
  /\ ptr.locked
  /\ LET st == [Forgotten(Here, LockSurface) EXCEPT !.p.locked = FALSE, !.t[LockSurface] = {},
                          !.p.kf = IF @ = LockSurface THEN None ELSE @,
                          !.p.last = IF @[1] = LockSurface THEN <<None, None>> ELSE @]
     IN Set(st)
  /\ UNCHANGED <<mapped, held>>

\* input_reset(): the seat is taken away, or the host window of a nested
\* compositor loses the focus; the buttons are no longer seen.
Reset ==
  /\ LET clear == [EndMove(EndDrag(Here)) EXCEPT
                     !.p.consumed = {}, !.p.pressed = {}, !.p.grab = None,
                     !.p.last = <<None, None>>, !.x = {}]
     IN Set(SetKeyboardFocus(SetFocus(clear, None), None))
  /\ held' = {} /\ UNCHANGED mapped

Next ==
  \/ \E h \in Surfaces \cup {None}, room \in BOOLEAN : Motion(h, room)
  \/ \E b \in Buttons, how \in Ways : Press(b, how)
  \/ \E b \in Buttons : Release(b)
  \/ \E w \in Windows : BeginMove(w) \/ StartDrag(w) \/ Map(w) \/ FocusWindow(w)
  \/ \E w \in Windows, next \in Windows \cup {None} : Unmap(w, next) \/ Destroy(w, next)
  \/ \E w \in Windows, locks, oneshot \in BOOLEAN : Constrain(w, locks, oneshot)
  \/ \E i \in DOMAIN cons : Unconstrain(i) \/ ReleasePointer(i)
  \/ CancelDrag \/ OpenOverview \/ CloseOverview \/ LockSession \/ UnlockSession \/ Reset

Spec == Init /\ [][Next]_pointerVars

-----------------------------------------------------------------------------
(* Properties                                                              *)

TypeOK ==
  /\ {ptr.focus, ptr.hit, ptr.grab, ptr.kf, ptr.move, ptr.drag} \subseteq Surfaces \cup {None}
  /\ ptr.pressed \cup ptr.consumed \cup held \cup cut \subseteq Buttons
  /\ mapped \subseteq Windows /\ told \in [Surfaces -> SUBSET Buttons]

\* What the seat takes for pressed or swallowed is still held by the user: no
\* button is stuck, whatever opened, closed or ended while it was down.
ButtonsHeld == ptr.pressed \cup ptr.consumed \subseteq held

\* A gesture ends with its button: no window follows the pointer afterwards, but for
\* one whose client began a drag during the move.  The drop takes the release that
\* would have ended the move, and the window follows the pointer until the next one.
GestureHeld ==
  /\ ptr.own => ptr.ownButton \in ptr.pressed
  /\ ptr.move # None => ptr.pressed # {} \/ ptr.crossed

\* A button keeps the pointer on the surface it was pressed on, so that the client
\* that saw it pressed sees it released, unless something took the grab away.
GrabKept ==
  \A b \in ptr.pressed \ cut :
    \/ ptr.own /\ b = ptr.ownButton
    \/ ptr.grab # None /\ ptr.focus = ptr.grab /\ b \in told[ptr.grab]

\* One constraint is active, on the surface with the pointer, and the cursor is not
\* hidden without a lock.  (It may be shown with one: a lock that ends after another
\* began, in the order of the list.)
ConstraintSound ==
  /\ \A i, j \in Active(Here) : i = j
  /\ \A i \in Active(Here) : ptr.focus = cons[i].on
  /\ ptr.hidden => \E i \in Active(Here) : cons[i].locks

\* During a drag no surface has the pointer, unless the drag was begun during a gesture
\* of the compositor: the release of that gesture's button gives it back to one.
DragAlone == ptr.drag # None => ptr.focus = None \/ ptr.crossed
=============================================================================
