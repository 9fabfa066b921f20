----------------------------- MODULE Keyboards ------------------------------
(***************************************************************************)
(* Keys from several keyboards to one focused client                       *)
(* (compositor_server.cpp keyboard_key ... input_reset,                     *)
(* compositor_server_virtual_keyboard.cpp, the keyboard half of             *)
(* compositor_server_input.cpp, compositor_server_idle.cpp).  The physical  *)
(* keyboards are one source of keys, each virtual keyboard is another; a    *)
(* key of the seat is down while any source holds it.  A pressed key goes   *)
(* to the overview, to a binding, or to the focused client, and its release *)
(* follows the press.                                                       *)
(*                                                                         *)
(* A client has one surface and at most one wl_keyboard.  The keys are      *)
(* split by what the configuration binds them to: EscKey leaves the         *)
(* overview, FocusKeys move the focus, ExternalKeys belong to the window    *)
(* policy.  The XKB state is left out, except that it lists the keys down.  *)
(***************************************************************************)
EXTENDS Naturals

CONSTANTS Clients, Virtuals, Keys, EscKey, FocusKeys, ExternalKeys, Timeout, None

VARIABLES
  keys,   \* the seat: sources, pressed, consumed and external keys, focus
  told,   \* told[c]: the keys the keyboard of c believes down
  kbd,    \* the clients with a wl_keyboard
  ov,     \* the overview: wanted, still visible, its animation timer
  seat,   \* session lock, policy owner, live virtual keyboards, keys in the XKB state
  note    \* an idle notification

keyVars == <<keys, told, kbd, ov, seat, note>>

Physical == "physical"
Sources == {Physical} \cup Virtuals
NoOverview == [on |-> FALSE, visible |-> FALSE, timer |-> FALSE]
NoNote == [live |-> FALSE, idle |-> FALSE, left |-> 0, quiet |-> 0]

Init ==
  /\ keys = [src |-> [s \in Sources |-> {}], pressed |-> {}, consumed |-> {}, external |-> {}, focus |-> None]
  /\ told = [c \in Clients |-> {}] /\ kbd = {}
  /\ ov = NoOverview
  /\ seat = [locked |-> FALSE, policy |-> FALSE, live |-> {}, xkb |-> {}]
  /\ note = NoNote

\* The state a handler works on.
Here == [keys |-> keys, told |-> told, ov |-> ov, xkb |-> seat.xkb]
Set(st) ==
  /\ keys' = st.keys /\ told' = st.told /\ ov' = st.ov

Held(src, k) == \E s \in Sources : k \in src[s]

\* keyboard_enter_keys()
EnterKeys(ks) == ks.pressed \ ks.consumed

\* set_keyboard_focus(): leave, and enter with the keys that are down.
SetFocus(st, next) ==
  IF st.keys.focus = next THEN st
  ELSE [st EXCEPT !.keys.focus = next,
                  !.told = [c \in Clients |-> IF c = next /\ c \in kbd THEN EnterKeys(st.keys) ELSE {}]]

\* wl_keyboard.key to the keyboards of the focused client.
Deliver(st, k, down) ==
  LET c == st.keys.focus
  IN IF c \notin kbd THEN st
     ELSE [st EXCEPT !.told[c] = IF down THEN @ \cup {k} ELSE @ \ {k}]

-----------------------------------------------------------------------------
(* The overview                                                            *)

\* update_overview(), refresh_overview(): closing is animated by a timer.
Overview(st, on) ==
  [st EXCEPT !.ov = [on |-> on, visible |-> on \/ @.visible, timer |-> on \/ @.visible]]
\* stop_overview_animation()
StopOverview(st) == [st EXCEPT !.ov = NoOverview]

\* The animation timer: a frame, or the last one.
OverviewFrame ==
  /\ ov.timer
  /\ \E more \in BOOLEAN : ov' = IF more THEN ov ELSE [ov EXCEPT !.timer = FALSE, !.visible = ov.on]
  /\ UNCHANGED <<keys, told, kbd, seat, note>>

-----------------------------------------------------------------------------
(* Keys                                                                    *)

\* A pressed key while the overview is visible: swallowed; Escape leaves it.
PressInOverview(st, k) ==
  LET eaten == [st EXCEPT !.keys.consumed = @ \cup {k}]
  IN IF k = EscKey THEN Overview(eaten, FALSE) ELSE eaten

\* A key the policy owner asked for.
PressExternal(st, k) ==
  [st EXCEPT !.keys.consumed = @ \cup {k}, !.keys.external = @ \cup {k}]

\* A key bound to an action; the actions that matter here move the focus.
PressBound(st, k, next) == SetFocus([st EXCEPT !.keys.consumed = @ \cup {k}], next)

\* binding_matches(): the key of a binding, with its modifiers (mods: they match).
Matches(k, bound, mods) == mods /\ k \in bound

\* The rest of keyboard_key_from_source() for a press.
Pressed(st, k, next, mods) ==
  IF st.ov.visible /\ k = EscKey THEN PressInOverview(st, k)
  ELSE IF ~seat.locked /\ Matches(k, ExternalKeys, mods) /\ seat.policy THEN PressExternal(st, k)
  ELSE IF ~seat.locked /\ Matches(k, FocusKeys, mods) THEN PressBound(st, k, next)
  ELSE IF st.ov.visible THEN PressInOverview(st, k)
  ELSE Deliver(st, k, TRUE)

\* ... and for the release of keys up: a consumed key is released to the one that
\* consumed it.
Released(st, up) ==
  LET heard == up \ st.keys.consumed
  IN [st EXCEPT !.keys.pressed = @ \ up, !.keys.consumed = @ \ up,
                !.keys.external = @ \ (up \cap st.keys.consumed), !.xkb = @ \ up,
                !.told = [c \in Clients |-> IF c \in kbd /\ c = st.keys.focus THEN @[c] \ heard ELSE @[c]]]

\* keyboard_key_from_source(), pressed
PressKey(st, s, k, next, mods) ==
  IF k \in st.keys.src[s] THEN st
  ELSE LET held == [st EXCEPT !.keys.src[s] = @ \cup {k}]
       IN IF k \in st.keys.pressed THEN held
          ELSE Pressed([held EXCEPT !.keys.pressed = @ \cup {k}, !.xkb = @ \cup {k}], k, next, mods)

LetGoAlone(st, left, ks) ==    \* mutant: who else holds the key is not looked at
  Released([st EXCEPT !.keys.src = left], ks \cap st.keys.pressed)

\* Keys ks are let go and left is what the sources still hold: a key comes up when
\* no source holds it.
LetGo(st, left, ks) ==
  Released([st EXCEPT !.keys.src = left], {k \in ks \cap st.keys.pressed : ~Held(left, k)})

\* keyboard_key_from_source(), released.
ReleaseKey(st, s, k) ==
  IF k \notin st.keys.src[s] THEN st
  ELSE LetGo(st, [st.keys.src EXCEPT ![s] = @ \ {k}], {k})

\* release_keyboard_source() for the sources ss: all their keys, in whatever order.
ReleaseSources(st, ss) ==
  LetGo(st, [s \in Sources |-> IF s \in ss THEN {} ELSE st.keys.src[s]],
        UNION {st.keys.src[s] : s \in ss})

\* reset_virtual_keyboards()
ResetVirtuals(st) == ReleaseSources(st, seat.live)

\* idle_activity()
Activity == note' = IF note.live THEN [note EXCEPT !.idle = FALSE, !.left = Timeout, !.quiet = 0] ELSE note

\* keyboard_key(), or the key request of a virtual keyboard: ignored while locked.
Key(s, k, down) ==
  /\ s # Physical => s \in seat.live /\ ~seat.locked
  /\ \E next \in IF down /\ k \in FocusKeys THEN Clients ELSE {None}, mods \in IF down THEN BOOLEAN ELSE {FALSE} :
       \E st \in {IF down THEN PressKey(Here, s, k, next, mods) ELSE ReleaseKey(Here, s, k)} :
         Set(st) /\ seat' = [seat EXCEPT !.xkb = st.xkb]
  /\ Activity
  /\ UNCHANGED kbd

\* KeyboardHandler of a virtual keyboard: created, destroyed.
CreateVirtual(v) ==
  /\ v \notin seat.live
  /\ seat' = [seat EXCEPT !.live = @ \cup {v}]
  /\ UNCHANGED <<keys, told, kbd, ov, note>>
DestroyVirtual(v) ==
  /\ v \in seat.live
  /\ \E st \in {ReleaseSources(Here, {v})} :
       Set(st) /\ seat' = [seat EXCEPT !.live = @ \ {v}, !.xkb = st.xkb]
  /\ IF keys.src[v] # {} THEN Activity ELSE UNCHANGED note
  /\ UNCHANGED kbd

\* input_reset(): a VT switch, the seat gone, the nested window without focus.
InputReset(preserve) ==
  /\ \E st \in {ReleaseSources(ResetVirtuals(Here), {Physical})} :
       \E clear \in {[st EXCEPT !.keys.src = [s \in Sources |-> {}], !.keys.consumed = {},
                                !.keys.external = {}, !.keys.pressed = {}]} :
         Set(IF preserve THEN clear ELSE SetFocus(clear, None))
  /\ seat' = [seat EXCEPT !.xkb = {}]
  /\ IF \E s \in Sources : keys.src[s] # {} THEN Activity ELSE UNCHANGED note
  /\ UNCHANGED kbd

\* update_xkb() and publish_keymap() after a reload: the new state has the keys down.
UpdateKeymap ==
  /\ seat' = [seat EXCEPT !.xkb = keys.pressed]
  /\ UNCHANGED <<keys, told, kbd, ov, note>>

-----------------------------------------------------------------------------
(* Focus, keyboards, lock, policy                                          *)

Focus(c) == Set(SetFocus(Here, c)) /\ UNCHANGED <<kbd, seat, note>>

\* get_keyboard: keymap, and enter if the client has the focus.
GetKeyboard(c) ==
  /\ c \notin kbd /\ kbd' = kbd \cup {c}
  /\ told' = IF keys.focus = c THEN [told EXCEPT ![c] = EnterKeys(keys)] ELSE told
  /\ UNCHANGED <<keys, ov, seat, note>>
ReleaseKeyboard(c) ==
  /\ c \in kbd /\ kbd' = kbd \ {c}
  /\ told' = [told EXCEPT ![c] = {}]
  /\ UNCHANGED <<keys, ov, seat, note>>

\* blank_unlocked_scene()
Lock ==
  /\ ~seat.locked
  /\ \E st \in {SetFocus(ResetVirtuals(StopOverview(Here)), None)} :
       Set(st) /\ seat' = [seat EXCEPT !.locked = TRUE, !.xkb = st.xkb]
  /\ IF \E v \in seat.live : keys.src[v] # {} THEN Activity ELSE UNCHANGED note
  /\ UNCHANGED kbd
Unlock ==
  /\ seat.locked /\ seat' = [seat EXCEPT !.locked = FALSE]
  /\ UNCHANGED <<keys, told, kbd, ov, note>>

\* The overview action, or its closing.
ToggleOverview ==
  /\ ~seat.locked /\ Set(Overview(Here, ~ov.on))
  /\ UNCHANGED <<kbd, seat, note>>

\* set_external_policy(): without a policy owner a window gets the focus again.
SetPolicy(on) ==
  /\ seat' = [seat EXCEPT !.policy = on]
  /\ \E fallback \in IF on THEN {None} ELSE Clients \cup {None} :
       LET cleared == IF on THEN Here ELSE [Here EXCEPT !.keys.external = {}]
       IN Set(IF ~on /\ ~seat.locked /\ keys.focus = None THEN SetFocus(cleared, fallback) ELSE cleared)
  /\ UNCHANGED <<kbd, note>>

-----------------------------------------------------------------------------
(* Idle notifications                                                      *)

\* create_idle_notification(), idle_notification_destroyed()
CreateNote ==
  /\ ~note.live /\ note' = [NoNote EXCEPT !.live = TRUE, !.left = Timeout]
  /\ UNCHANGED <<keys, told, kbd, ov, seat>>
DestroyNote ==
  /\ note.live /\ note' = NoNote
  /\ UNCHANGED <<keys, told, kbd, ov, seat>>
\* Time passes; the timer fires on time.
IdleTick ==
  /\ note.live /\ note.quiet < Timeout
  /\ note' = [note EXCEPT !.quiet = @ + 1,
                          !.left = IF @ = 0 THEN 0 ELSE @ - 1,
                          !.idle = @ \/ note.left = 1]
  /\ UNCHANGED <<keys, told, kbd, ov, seat>>

Next ==
  \/ \E s \in Sources, k \in Keys, down \in BOOLEAN : Key(s, k, down)
  \/ \E v \in Virtuals : CreateVirtual(v) \/ DestroyVirtual(v)
  \/ \E preserve \in BOOLEAN : InputReset(preserve)
  \/ UpdateKeymap
  \/ \E c \in Clients \cup {None} : Focus(c)
  \/ \E c \in Clients : GetKeyboard(c) \/ ReleaseKeyboard(c)
  \/ Lock \/ Unlock \/ ToggleOverview \/ OverviewFrame
  \/ \E on \in BOOLEAN : SetPolicy(on)
  \/ CreateNote \/ DestroyNote \/ IdleTick

-----------------------------------------------------------------------------
\* The types of the variables.
TypeOK ==
  /\ keys.src \in [Sources -> SUBSET Keys] /\ keys.focus \in Clients \cup {None}
  /\ told \in [Clients -> SUBSET Keys] /\ kbd \subseteq Clients
  /\ seat.live \subseteq Virtuals /\ seat.locked \in BOOLEAN

\* The seat's keys, and those of the XKB state, are the ones some source holds; only a live
\* virtual keyboard holds keys, and none does while the session is locked.
KeysBalanced ==
  /\ keys.pressed = UNION {keys.src[s] : s \in Sources}
  /\ seat.xkb = keys.pressed
  /\ \A v \in Virtuals : keys.src[v] # {} => v \in seat.live /\ ~seat.locked

\* The focused client believes down exactly the keys that are down and went to nobody else, and
\* the others believe none.
ClientsKeys ==
  \A c \in Clients :
    told[c] = IF c \in kbd /\ c = keys.focus THEN keys.pressed \ keys.consumed ELSE {}

\* A key the overview, a binding or the policy took stays theirs until it comes up, and no longer.
TakenKeys == keys.external \subseteq keys.consumed /\ keys.consumed \subseteq keys.pressed

\* An overview that closes disappears: as long as it is drawn its timer runs.
OverviewEnds == ov.visible /\ ~ov.on => ov.timer

\* A client is told idle exactly when nothing was typed for the time it asked for.
IdleHonest == note.live => (note.idle <=> note.quiet = Timeout)
=============================================================================
