------------------------------ MODULE Desktop ------------------------------
(***************************************************************************)
(* The window management core of the compositor: toplevels, outputs, tags, *)
(* fullscreen, hidden windows and the keyboard focus, and what             *)
(* configure_layout() last told each client.  Requests come from           *)
(* applications, keyboard and pointer, from managers (zwwm_window_manager) *)
(* and from the backend that finds outputs; each is handled in one step.   *)
(*                                                                         *)
(* A window is a wl_surface, numbered in the order of Observer::surfaces.  *)
(* Layer surfaces, popups, focus grabs, Xwayland windows, the endless      *)
(* canvas, layout providers and the locked session are not in this module. *)
(***************************************************************************)
EXTENDS Integers

CONSTANTS
  Windows,   \* wl_surfaces that become toplevels, 1..n in creation order
  Clients,   \* applications
  Outputs,   \* output ids, in the order of their connectors
  Tags       \* tags in use; a new output shows FirstTag

ASSUME WindowsAssumption ==
  Windows \subseteq Nat /\ \E n \in Windows \cup {0} : Windows \subseteq 1..n
ASSUME OutputsAssumption == Outputs \subseteq Nat \ {0}
ASSUME TagsAssumption == Tags \subseteq Nat \ {0} /\ 1 \in Tags

None == 0          \* the null surface
NoOutput == 0      \* OutputId{}
FirstTag == 1      \* OutputState::active_tag as initialised

VARIABLES
  win,       \* SurfaceState and XdgSurfaceState of each window
  owner,     \* the application a window belongs to
  outs,      \* connected outputs: active tag and OutputState::fullscreen
  active,    \* Observer::active_output
  seat,      \* keyboard_focus and regular_focus
  policy,    \* external_policy: a manager owns the window policy
  told       \* whether the last configure of a window said "activated", or
             \* "outdated" after a step that moves the focus without configuring

vars == <<win, owner, outs, active, seat, policy, told>>
----------------------------------------------------------------------------
(* State.                                                                  *)

Role == {"bare", "open", "gone"}   \* no xdg_surface, a toplevel, destroyed

\* fullscreen and, while it is set, restore_floating.
Fullscreens == {"off", "tiled", "floating"}

WindowType ==
  [role : Role, mapped : BOOLEAN, hidden : BOOLEAN, floating : BOOLEAN, fullscreen : Fullscreens,
   output : Outputs \cup {NoOutput}, tag : Tags, parent : Windows \cup {None}]

OutputType == [tag : Tags, fullscreen : Windows \cup {None}]

NoTagWindow ==    \* mutant
  [role |-> "bare", mapped |-> FALSE, hidden |-> FALSE, floating |-> FALSE, fullscreen |-> "off",
   output |-> NoOutput, tag |-> 0, parent |-> None]

NewWindow ==
  [role |-> "bare", mapped |-> FALSE, hidden |-> FALSE, floating |-> FALSE, fullscreen |-> "off",
   output |-> NoOutput, tag |-> FirstTag, parent |-> None]

NewOutput == [tag |-> FirstTag, fullscreen |-> None]

Gone == [NewWindow EXCEPT !.role = "gone"]

Lowest(S) == IF S = {} THEN NoOutput ELSE CHOOSE o \in S : \A p \in S : o <= p

Open(w) == win[w].role = "open"

IsFullscreen(w) == win[w].fullscreen # "off"

\* Leaving fullscreen: floating as before.
Restored(x) == [x EXCEPT !.fullscreen = "off", !.floating = x.fullscreen = "floating"]

\* visible_xdg() for the windows ws on the outputs os
Visible(ws, os, w) ==
  /\ ws[w].mapped /\ ~ws[w].hidden
  /\ ws[w].output \in DOMAIN os
  /\ ws[w].tag = os[ws[w].output].tag

\* focusable_toplevel()
Focusable(ws, os, w) == ws[w].role = "open" /\ Visible(ws, os, w)

\* The last of a set of windows in Observer::surfaces.
Last(S) == IF S = {} THEN None ELSE CHOOSE w \in S : \A v \in S : v <= w

FallbackIgnoringPolicy(ws, os, s, excluded) ==
  IF s.regular \notin {None, excluded} /\ Focusable(ws, os, s.regular) THEN s.regular
  ELSE Last({w \in Windows \ {excluded} : Focusable(ws, os, w)})

FocusFallback(ws, os, s, excluded) ==    \* focus_fallback()
  IF ~policy THEN FallbackIgnoringPolicy(ws, os, s, excluded)
  ELSE IF excluded = None THEN None
  ELSE LET parent == ws[excluded].parent IN
       IF parent # None /\ parent # excluded /\ Focusable(ws, os, parent) THEN parent ELSE None

\* set_keyboard_focus(): nothing changes when the focus is already there.
Focus(s, next) ==
  IF next = s.focus THEN s
  ELSE [focus |-> next, regular |-> IF next = None THEN s.regular ELSE next]

\* regular_focus forgets a window that is leaving.
Forget(s, w) == IF s.regular = w THEN [s EXCEPT !.regular = None] ELSE s

KeepRegular(ws, os, s, w) ==    \* mutant
  IF s.focus = w THEN Focus(s, FocusFallback(ws, os, s, w)) ELSE s

\* Both: the focus moves on from w, and w is no candidate for it any more.
Leave(ws, os, s, w) ==
  Forget(IF s.focus = w THEN Focus(s, FocusFallback(ws, os, s, w)) ELSE s, w)
----------------------------------------------------------------------------
(* configure_layout(): which windows it sends a configure to, and whether  *)
(* that configure says "activated".                                        *)

Configured(ws, os, candidate, w) ==
  /\ ws[w].role = "open"
  /\ IF ws[w].floating \/ ws[w].fullscreen # "off"
     THEN w = candidate \/ Visible(ws, os, w)
     ELSE /\ ~ws[w].hidden
          /\ DOMAIN os = {} \/ ws[w].output \in DOMAIN os
          /\ w = candidate \/ Visible(ws, os, w)
          /\ candidate = None \/ ws[candidate].mapped \/ w = candidate

Tell(ws, os, focus, candidate) ==
  [w \in Windows |-> IF ws[w].role # "open" THEN "outdated"
                     ELSE IF Configured(ws, os, candidate, w) THEN IF focus = w THEN "yes" ELSE "no" ELSE told[w]]

Outdated == [w \in Windows |-> "outdated"]

\* A handler that ends in configure_layout(candidate).
ConfigureLayout(candidate) == told' = Tell(win', outs', seat'.focus, candidate)
----------------------------------------------------------------------------
(* Applications.                                                           *)

\* get_xdg_surface and get_toplevel.
GetToplevel(w) ==
  /\ win[w].role = "bare"
  /\ win' = [win EXCEPT ![w].role = "open", ![w].output = active,
                        ![w].tag = IF active \in DOMAIN outs THEN outs[active].tag ELSE @]
  /\ UNCHANGED <<owner, outs, active, seat, policy>>
  /\ ConfigureLayout(w)

\* set_floating()
Floated(w, floating) ==
  /\ ~IsFullscreen(w) /\ win[w].floating # floating
  /\ win' = [win EXCEPT ![w].floating = floating]

\* set_parent with a parent: a mapped window becomes floating through
\* set_floating(), which may have nothing to do; then nothing is configured.
SetParent(w, p) ==
  /\ Open(w) /\ Open(p) /\ p # w /\ owner[p] = owner[w]
  /\ LET floats == win[w].mapped => ~IsFullscreen(w)
         relaid == win[w].mapped /\ ~IsFullscreen(w) /\ ~win[w].floating IN
     /\ win' = [win EXCEPT ![w].parent = p, ![w].output = win[p].output, ![w].tag = win[p].tag,
                           ![w].floating = @ \/ floats]
     /\ UNCHANGED <<owner, outs, active, seat, policy>>
     /\ IF relaid THEN ConfigureLayout(w)
        ELSE told' = [told EXCEPT ![w] = "outdated"]

ClearParent(w) ==
  /\ Open(w) /\ win[w].parent # None
  /\ win' = [win EXCEPT ![w].parent = None]
  /\ UNCHANGED <<owner, outs, active, seat, policy, told>>

AnyMapTakesFocus(ws, w) ==    \* mutant
  \/ seat.focus = None
  \/ ws[w].floating
  \/ ws[w].parent # None /\ seat.focus = ws[w].parent

\* The part of surface_commit() that decides who gets the keyboard when a
\* toplevel maps.
TakesFocus(ws, w) ==
  \/ ~policy /\ seat.focus = None
  \/ ws[w].floating
  \/ ws[w].parent # None /\ seat.focus = ws[w].parent

\* A commit with a buffer of an acknowledged toplevel: window rules decide
\* whether it floats, then the focus (not for a window of one pixel), then the
\* layout.
CommitMap(w, floating, tiny) ==
  /\ Open(w) /\ ~win[w].mapped
  /\ win' = [win EXCEPT ![w].mapped = TRUE, ![w].floating = floating]
  /\ seat' = IF ~tiny /\ TakesFocus(win', w) THEN Focus(seat, w) ELSE seat
  /\ UNCHANGED <<owner, outs, active, policy>>
  /\ ConfigureLayout(None)

\* A commit without a buffer.
CommitUnmap(w) ==
  /\ Open(w) /\ win[w].mapped
  /\ win' = [win EXCEPT ![w].mapped = FALSE]
  /\ seat' = Leave(win', outs, seat, w)
  /\ UNCHANGED <<owner, outs, active, policy>>
  /\ ConfigureLayout(None)

\* OutputState::fullscreen stops pointing at w where w is.
Vacated(w) ==
  [o \in DOMAIN outs |->
     IF o = win[w].output /\ outs[o].fullscreen = w THEN [outs[o] EXCEPT !.fullscreen = None] ELSE outs[o]]

\* top_destroyed(), and xdg_destroyed() after it.
DestroyToplevel(w) ==
  /\ Open(w)
  /\ outs' = Vacated(w)
  /\ win' = [v \in Windows |->
               IF v = w THEN NewWindow
               ELSE IF win[v].parent = w THEN [win[v] EXCEPT !.parent = None] ELSE win[v]]
  /\ seat' = Leave(win', outs', seat, w)
  /\ IF win[w].mapped THEN ConfigureLayout(None) ELSE told' = [told EXCEPT ![w] = "outdated"]
  /\ UNCHANGED <<owner, active, policy>>

\* surface_destroyed() for a surface whose roles are gone.
DestroySurface(w) ==
  /\ win[w].role = "bare"
  /\ win' = [win EXCEPT ![w] = Gone]
  /\ UNCHANGED <<owner, outs, active, seat, policy, told>>

SlotWindows == {outs[o].fullscreen : o \in DOMAIN outs} \ {None}

\* The windows of an application whose connection ends are destroyed one by
\* one in the order of their object ids: normally the wl_surface before its
\* xdg_toplevel, which then no longer finds its output; where an id was used
\* before, the toplevel may come first (it matters to windows in a slot).
Disconnect(c, toplevelFirst) ==
  LET dead == {w \in Windows : owner[w] = c /\ win[w].role # "gone"}
      focused == seat.focus \in dead
      survivor == IF policy THEN None
                  ELSE Last({w \in Windows \ dead : Focusable(win, outs, w)}) IN
  /\ dead # {} /\ toplevelFirst \subseteq dead
  /\ win' = [w \in Windows |-> IF w \in dead THEN Gone ELSE win[w]]
  /\ outs' = [o \in DOMAIN outs |->
                IF \E w \in dead \cap toplevelFirst :
                      Open(w) /\ win[w].output = o /\ outs[o].fullscreen = w
                THEN [outs[o] EXCEPT !.fullscreen = None] ELSE outs[o]]
  /\ seat' = [focus |-> IF focused THEN survivor ELSE seat.focus,
              regular |-> IF focused /\ survivor # None THEN survivor
                          ELSE IF seat.regular \in dead THEN None ELSE seat.regular]
  /\ IF \E w \in dead : win[w].mapped
     THEN ConfigureLayout(None)
     ELSE told' = [w \in Windows |-> IF w \in dead THEN "outdated" ELSE told[w]]
  /\ UNCHANGED <<owner, active, policy>>
----------------------------------------------------------------------------
(* Fullscreen: set_fullscreen(), asked for by the application (when no     *)
(* manager owns the policy), by a key on the focused window, by a manager. *)

StealFullscreen(w, requested) ==    \* mutant
  LET target == IF requested \in DOMAIN outs THEN requested ELSE win[w].output IN
  /\ target \in DOMAIN outs
  /\ ~(IsFullscreen(w) /\ win[w].output = target)
  /\ outs' = [o \in DOMAIN outs |->
                IF o = target THEN [outs[o] EXCEPT !.fullscreen = w]
                ELSE IF IsFullscreen(w) THEN Vacated(w)[o] ELSE outs[o]]
  /\ win' = [win EXCEPT ![w].fullscreen = IF IsFullscreen(w) THEN @
                                          ELSE IF win[w].floating THEN "floating" ELSE "tiled",
                        ![w].floating = FALSE,
                        ![w].output = target, ![w].tag = outs[target].tag]

EnterFullscreen(w, requested) ==
  LET target == IF requested \in DOMAIN outs THEN requested ELSE win[w].output IN
  /\ target \in DOMAIN outs /\ outs[target].fullscreen \in {None, w}
  /\ ~(IsFullscreen(w) /\ win[w].output = target)
  /\ outs' = [o \in DOMAIN outs |->
                IF o = target THEN [outs[o] EXCEPT !.fullscreen = w]
                ELSE IF IsFullscreen(w) THEN Vacated(w)[o] ELSE outs[o]]
  /\ win' = [win EXCEPT ![w].fullscreen = IF IsFullscreen(w) THEN @
                                          ELSE IF win[w].floating THEN "floating" ELSE "tiled",
                        ![w].floating = FALSE,
                        ![w].output = target, ![w].tag = outs[target].tag]

LeaveFullscreen(w) ==
  /\ IsFullscreen(w)
  /\ outs' = Vacated(w)
  /\ win' = [win EXCEPT ![w] = Restored(win[w])]

Fullscreen(w, requested) ==
  /\ Open(w)
  /\ ~policy \/ requested = NoOutput
  /\ EnterFullscreen(w, requested)
  /\ UNCHANGED <<owner, active, seat, policy>>
  /\ ConfigureLayout(w)

Unfullscreen(w) ==
  /\ Open(w)
  /\ LeaveFullscreen(w)
  /\ UNCHANGED <<owner, active, seat, policy>>
  /\ ConfigureLayout(w)

\* Dialogs, moves, keys and managers make a window float or tile.
SetFloating(w, floating) ==
  /\ Open(w)
  /\ Floated(w, floating)
  /\ UNCHANGED <<owner, outs, active, seat, policy>>
  /\ ConfigureLayout(w)
----------------------------------------------------------------------------
(* Keyboard and pointer.                                                   *)

\* switch_active_tag(): the keyboard goes to a window of the new tag when the
\* output is the active one.
Switched(o, t) == [outs EXCEPT ![o].tag = t]

SwitchedSeat(os, o) ==
  LET shown == {w \in Windows : win[w].role = "open" /\ win[w].output = o /\ Visible(win, os, w)} IN
  IF o = active THEN Focus(seat, Last(shown)) ELSE seat

SelectTagQuietly(o, t) ==    \* mutant
  /\ o \in DOMAIN outs /\ outs[o].tag # t
  /\ outs' = Switched(o, t)
  /\ seat' = SwitchedSeat(outs', o)
  /\ UNCHANGED <<win, owner, active, policy, told>>

SelectTag(o, t) ==
  /\ o \in DOMAIN outs /\ outs[o].tag # t
  /\ outs' = Switched(o, t)
  /\ seat' = SwitchedSeat(outs', o)
  /\ UNCHANGED <<win, owner, active, policy>>
  /\ ConfigureLayout(None)

\* dispatch "movetotag"
MoveToTag(t) ==
  LET w == seat.focus
      shown == {v \in Windows : win'[v].role = "open" /\ win'[v].output = active /\ Visible(win', outs, v)} IN
  /\ w # None
  /\ win' = [win EXCEPT ![w].tag = t]
  /\ seat' = Focus(seat, IF active \in DOMAIN outs /\ outs[active].tag = t THEN w ELSE Last(shown))
  /\ UNCHANGED <<owner, outs, active, policy>>
  /\ ConfigureLayout(None)

\* dispatch "focus": the next visible window, or a neighbour on the output.
FocusOther(v) ==
  LET shown == {w \in Windows : Focusable(win, outs, w)}
      after == {w \in shown : w > seat.focus} IN
  /\ v \in shown
  /\ IF seat.focus \notin shown THEN v = Lowest(shown)
     ELSE \/ v = Lowest(IF after = {} THEN shown ELSE after)
          \/ v # seat.focus /\ win[v].output = win[seat.focus].output
  /\ seat' = Focus(seat, v)
  /\ UNCHANGED <<win, owner, outs, active, policy>>
  /\ ConfigureLayout(None)

MovePointer(o) ==
  /\ o \in DOMAIN outs /\ active # o
  /\ active' = o
  /\ UNCHANGED <<win, owner, outs, seat, policy, told>>

\* A press or touch on a window, or the pointer moving onto it with the
\* focus-mode "hover".
Press(w) ==
  /\ Focusable(win, outs, w) /\ seat.focus # w
  /\ active' = win[w].output
  /\ seat' = IF policy THEN seat ELSE Focus(seat, w)
  /\ UNCHANGED <<win, owner, outs, policy>>
  /\ ConfigureLayout(None)

\* Super and a button: the window is focused, nothing is configured.
SuperDrag(w) ==
  /\ Focusable(win, outs, w) /\ win[w].fullscreen = "off"
  /\ active' = win[w].output
  /\ seat' = Focus(seat, w)
  /\ told' = Outdated
  /\ UNCHANGED <<win, owner, outs, policy>>

\* end_interactive(), a layer surface, a new configuration: configured again.
Relayout ==
  /\ \E w \in Windows : told[w] = "outdated"
  /\ UNCHANGED <<win, owner, outs, active, seat, policy>>
  /\ ConfigureLayout(None)

\* input_reset() of a nested session that loses the keyboard.
InputReset ==
  /\ seat.focus # None
  /\ seat' = Focus(seat, None)
  /\ told' = Outdated
  /\ UNCHANGED <<win, owner, outs, active, policy>>
----------------------------------------------------------------------------
(* Managers: control_window(), assign_window() and the policy.             *)

ControlFocus(w) ==
  /\ Open(w) /\ win[w].mapped /\ ~win[w].hidden
  /\ active' = win[w].output
  /\ LET switch == active' \in DOMAIN outs /\ outs[active'].tag # win[w].tag
         os == Switched(active', win[w].tag)
         shown == {v \in Windows : win[v].role = "open" /\ win[v].output = active' /\ Visible(win, os, v)} IN
     /\ outs' = IF switch THEN os ELSE outs
     /\ seat' = Focus(IF switch THEN Focus(seat, Last(shown)) ELSE seat, w)
  /\ UNCHANGED <<win, owner, policy>>
  /\ ConfigureLayout(None)

ControlNoFocus ==
  /\ seat' = [focus |-> None, regular |-> None]
  /\ seat # seat'
  /\ UNCHANGED <<win, owner, outs, active, policy>>
  /\ ConfigureLayout(None)

\* Hiding a window ends its fullscreen and passes the keyboard on.
ControlHidden(w, hidden) ==
  LET left == IsFullscreen(w) /\ hidden IN
  /\ Open(w) /\ win[w].hidden # hidden
  /\ outs' = IF left THEN Vacated(w) ELSE outs
  /\ win' = [win EXCEPT ![w] = [(IF left THEN Restored(win[w]) ELSE win[w]) EXCEPT !.hidden = hidden]]
  /\ seat' = IF hidden THEN Leave(win', outs', seat, w) ELSE seat
  /\ UNCHANGED <<owner, active, policy>>
  /\ ConfigureLayout(None)

AssignWindow(w, o, t) ==
  /\ Open(w) /\ ~IsFullscreen(w) /\ o \in DOMAIN outs
  /\ win[w].output # o \/ win[w].tag # t
  /\ win' = [win EXCEPT ![w].output = o, ![w].tag = t]
  /\ seat' = IF o # active \/ outs[o].tag # t THEN Leave(win', outs, seat, w) ELSE seat
  /\ UNCHANGED <<owner, outs, active, policy>>
  /\ ConfigureLayout(None)

SetPolicy(enabled) ==    \* set_external_policy()
  /\ policy # enabled
  /\ policy' = enabled
  /\ seat' = IF ~enabled /\ seat.focus = None
             THEN Focus(seat, FallbackIgnoringPolicy(win, outs, seat, None)) ELSE seat
  /\ UNCHANGED <<win, owner, outs, active>>
  /\ ConfigureLayout(None)
----------------------------------------------------------------------------
(* The backend: set_outputs().  Windows of outputs that are gone move to   *)
(* the tag shown by the first output and stop being fullscreen.            *)

MoveVisible(x, os, first) ==    \* mutant
  IF x.role # "open" \/ x.hidden \/ x.output \in DOMAIN os THEN x
  ELSE [(IF x.fullscreen = "off" THEN x ELSE Restored(x)) EXCEPT
          !.output = first, !.tag = IF first \in DOMAIN os THEN os[first].tag ELSE @]

Moved(x, os, first) ==
  IF x.role # "open" \/ x.output \in DOMAIN os THEN x
  ELSE [(IF x.fullscreen = "off" THEN x ELSE Restored(x)) EXCEPT
          !.output = first, !.tag = IF first \in DOMAIN os THEN os[first].tag ELSE @]

SetOutputs(connected) ==
  /\ connected # DOMAIN outs
  /\ outs' = [o \in connected |-> IF o \in DOMAIN outs THEN outs[o] ELSE NewOutput]
  /\ active' = Lowest(connected)
  /\ win' = [w \in Windows |-> Moved(win[w], outs', active')]
  /\ UNCHANGED <<owner, seat, policy>>
  /\ ConfigureLayout(None)
----------------------------------------------------------------------------
Init ==
  /\ owner \in [Windows -> Clients]
  /\ outs = [o \in Outputs |-> NewOutput]
  /\ active = Lowest(Outputs)
  /\ win = [w \in Windows |-> NewWindow]
  /\ seat = [focus |-> None, regular |-> None]
  /\ policy = FALSE
  /\ told = Outdated

ApplicationStep ==
  \/ \E w \in Windows :
       \/ GetToplevel(w) \/ ClearParent(w) \/ CommitUnmap(w) \/ DestroyToplevel(w)
       \/ DestroySurface(w) \/ Unfullscreen(w)
       \/ \E p \in Windows : SetParent(w, p)
       \/ \E b, tiny \in BOOLEAN : CommitMap(w, b, tiny)
       \/ \E b \in BOOLEAN : SetFloating(w, b)
       \/ \E o \in Outputs \cup {NoOutput} : Fullscreen(w, o)
  \/ \E c \in Clients : \E toplevelFirst \in SUBSET SlotWindows :
       Disconnect(c, toplevelFirst)

InputStep ==
  \/ \E o \in Outputs : MovePointer(o) \/ \E t \in Tags : SelectTag(o, t)
  \/ \E t \in Tags : MoveToTag(t)
  \/ \E w \in Windows : FocusOther(w) \/ Press(w) \/ SuperDrag(w)
  \/ Relayout \/ InputReset

ManagerStep ==
  \/ \E w \in Windows :
       \/ ControlFocus(w)
       \/ \E b \in BOOLEAN : ControlHidden(w, b)
       \/ \E o \in Outputs, t \in Tags : AssignWindow(w, o, t)
  \/ ControlNoFocus
  \/ \E b \in BOOLEAN : SetPolicy(b)

BackendStep == \E connected \in SUBSET Outputs : SetOutputs(connected)

Next == ApplicationStep \/ InputStep \/ ManagerStep \/ BackendStep

Spec == Init /\ [][Next]_vars
----------------------------------------------------------------------------
(* Properties.                                                             *)

TypeOK ==
  /\ win \in [Windows -> WindowType]
  /\ owner \in [Windows -> Clients]
  /\ outs \in UNION {[connected -> OutputType] : connected \in SUBSET Outputs}
  /\ active \in Outputs \cup {NoOutput}
  /\ seat \in [focus : Windows \cup {None}, regular : Windows \cup {None}]
  /\ policy \in BOOLEAN
  /\ told \in [Windows -> {"yes", "no", "outdated"}]

\* No window is stranded: as long as an output is connected, every toplevel and
\* the active output are on a connected one, whatever moved them (a parent, a
\* fullscreen request naming an output that was retired, a manager, an unplug).
WindowsOnOutputs ==
  DOMAIN outs # {} =>
    /\ active \in DOMAIN outs
    /\ \A w \in Windows : Open(w) => win[w].output \in DOMAIN outs

\* The pointers of the seat survive every way a window can go (unmapped, role
\* destroyed, application gone): they name mapped toplevels only.
FocusAlive ==
  \A w \in {seat.focus, seat.regular} \ {None} : Open(w) /\ win[w].mapped

\* Unless a step that is known not to configure came last, the applications on
\* screen agree with the seat about which window is activated.
ActivatedAgrees ==
  \A w \in Windows :
    /\ Focusable(win, outs, w) /\ seat.focus = w => told[w] # "no"
    /\ Focusable(win, outs, w) /\ seat.focus # w => told[w] # "yes"

\* A window is never pushed out of the fullscreen slot of its output by another.
FullscreenKept ==
  [][\A o \in DOMAIN outs \cap DOMAIN outs' :
       outs[o].fullscreen # None => outs'[o].fullscreen \in {None, outs[o].fullscreen}]_outs

\* While a manager owns the policy, an application that maps a window gets the
\* keyboard only for a floating window or a child of the focused one, and one
\* that closes its focused window gives it to the parent or to nobody
\* (zwwm-protocols/README.md, "Own the policy").
PolicyDecidesFocus ==
  [][policy /\ seat'.focus # seat.focus =>
       \A w \in Windows :
         /\ win'[w].mapped /\ ~win[w].mapped =>
              /\ seat'.focus = w
              /\ win'[w].floating \/ (win[w].parent # None /\ win[w].parent = seat.focus)
         /\ win[w].mapped /\ ~win'[w].mapped => seat'.focus \in {None, win[w].parent}]_seat

\* An output whose fullscreen slot is taken has a fullscreen window, as
\* control_window() tells managers: "output already has a fullscreen window".
SlotHolderExists == \A w \in SlotWindows : Open(w)

-----------------------------------------------------------------------------
(***************************************************************************)
(* Bounds for TLC.  The first window belongs to the first application; at  *)
(* most one window at a time is hidden, floating or a child; two windows   *)
(* use a second output or a second tag, one window uses both.              *)
(***************************************************************************)
CONSTANT FirstClient

Flagged(w) == win[w].hidden \/ win[w].floating \/ win[w].parent # None

OneFlag(w) ==
  ~\/ win[w].hidden /\ (win[w].floating \/ win[w].parent # None)
   \/ win[w].floating /\ win[w].parent # None

Flags == \A w \in Windows : Flagged(w) => OneFlag(w) /\ \A v \in Windows : Flagged(v) => v = w

OneTag == (\A w \in Windows : win[w].tag = FirstTag) /\ \A o \in DOMAIN outs : outs[o].tag = FirstTag

OneOutput == DOMAIN outs \subseteq {1} /\ \A w \in Windows : win[w].output # 2

Created(w) == win[w].role # "bare"
OneWindow == \A v, w \in Windows : Created(v) /\ Created(w) => v = w

\* Of two windows one is hidden or floating only if they belong to different
\* applications and a single output is in use.
Plain ==
  \A v, w \in Windows :
    v # w /\ Created(v) /\ Created(w) /\ (owner[v] = owner[w] \/ ~OneOutput)
      => ~win[v].hidden /\ ~win[v].floating

\* A policy is in force with two windows only if they belong to different
\* applications and a single output is in use.
Ruled == policy => OneWindow \/ (OneOutput /\ owner[2] # FirstClient)

Bound ==
  /\ owner[1] = FirstClient /\ Flags /\ Plain /\ Ruled
  /\ OneTag \/ OneOutput \/ OneWindow
=============================================================================
