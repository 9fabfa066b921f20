--------------------------- MODULE LayoutManager ---------------------------
(***************************************************************************)
(* zwwm_layout_manager_v1: an external process owns the placement of tiled *)
(* windows.  configure_layout() asks it for the tag an output shows        *)
(* whenever what it would be asked for has changed; its answers come any   *)
(* time later, for requests that may be stale by then.  What the           *)
(* compositor tells the applications is announced, and an announcement     *)
(* makes it configure again.                                               *)
(*                                                                         *)
(* One output; a placement is named by the serial of its batch.  Hidden,   *)
(* fullscreen and Xwayland windows are not in this module, and of          *)
(* providers the one that is active: any other is refused and inert.       *)
(***************************************************************************)
EXTENDS Integers, FiniteSets

CONSTANTS
  Windows,    \* toplevels
  None,       \* no window
  Tags,       \* tags of the output
  Infos,      \* what else a request says of a window: title, parent, hints, modal
  Blank,      \* what it says of a window that has not said anything yet
  Areas,      \* work areas of the output
  Settled,    \* bound: windows that were there first and stay as they are
  MaxSerial   \* bound: requests sent to providers

VARIABLES
  win,      \* windows: [role, tag, floating, info]
  focus,    \* SeatState::toplevel_focus
  shown,    \* OutputState::active_tag
  area,     \* the work area left by the layers
  told,     \* what each window was last configured to: [bounds, mode, active]
  provider, \* a provider is active
  slots,    \* a Slot for each tag; serial 0 where the map has none
  serial,   \* Impl::serial
  pending,  \* the idle of invalidate() is waiting
  silent    \* history: a handler has made what the request says differ from
            \* what there is, and has announced nothing

vars == <<win, focus, shown, area, told, provider, slots, serial, pending, silent>>

----------------------------------------------------------------------------
(* State. *)

\* "new" is a toplevel that has never been mapped.
Role == {"none", "new", "mapped", "unmapped"}
WindowType == [role : Role, tag : Tags, floating : BOOLEAN, info : Infos]
Gone == [role |-> "none", tag |-> 1, floating |-> FALSE, info |-> Blank]

\* Places: not placed yet, a place of the compositor's, or a batch's.
Nowhere == -1
Own == 0
Place == Nowhere .. MaxSerial
ToldType == [bounds : Place, mode : {"none", "tiled", "floating"}, active : BOOLEAN]
NotTold == [bounds |-> Nowhere, mode |-> "none", active |-> FALSE]

\* ManagedWindowInfo as same_window() compares it.
Saved == [role : Role, floating : BOOLEAN, info : Infos, focused : BOOLEAN]
PartialFunctions(S, T) == UNION {[D -> T] : D \in SUBSET S}

SlotType ==
  [serial : 0 .. MaxSerial, area : Areas, windows : PartialFunctions(Windows, Saved),
   accepted : PartialFunctions(Windows, 1 .. MaxSerial),
   draft : PartialFunctions(Windows, 1 .. MaxSerial), error : BOOLEAN, committed : BOOLEAN, force : BOOLEAN]

Nothing == [w \in {} |-> 0]
NoSlot(a) == [serial |-> 0, area |-> a, windows |-> Nothing, accepted |-> Nothing,
              draft |-> Nothing, error |-> FALSE, committed |-> FALSE, force |-> FALSE]

\* visible_xdg() for windows ws while tag t is shown
Visible(ws, t, w) == ws[w].role = "mapped" /\ ws[w].tag = t

Info(ws, f, w) ==
  [role |-> ws[w].role, floating |-> ws[w].floating, info |-> ws[w].info, focused |-> f = w]

----------------------------------------------------------------------------
(* configure_layout().                                                     *)

\* root_placements(): the tiled windows of the shown tag that are mapped or
\* will be for the first time, and the candidate wherever it is.
Participants(ws, t, external, candidate) ==
  {w \in Windows :
     /\ ws[w].role # "none" /\ ~ws[w].floating
     /\ \/ w = candidate \/ Visible(ws, t, w)
        \/ external /\ ws[w].role = "new" /\ ws[w].tag = t}

Asked(ws, f, t, candidate) ==
  [w \in Participants(ws, t, TRUE, candidate) |-> Info(ws, f, w)]

\* A new request forgets what was placed for the one before; the accepted
\* batch stays.
NewRequest(slot, s, a, windows) ==
  [slot EXCEPT !.serial = s, !.area = a, !.windows = windows, !.draft = Nothing, !.error = FALSE,
               !.committed = FALSE, !.force = FALSE]

\* arrange(): the provider is asked again if the answer could differ.
MustAsk(slot, a, windows) ==
  slot.serial = 0 \/ slot.force \/ slot.area # a \/ slot.windows # windows

\* What configure_layout(candidate) tells a window, given the placements.
ToldTiled(place, active) ==
  [bounds |-> place, mode |-> "tiled", active |-> active]
ToldFloating(active) ==
  [bounds |-> Own, mode |-> "floating", active |-> active]

\* The windows that are configured as tiles and as floating windows.
Tiles(ws, t, external, candidate) ==
  {w \in Participants(ws, t, external, candidate) :
     candidate = None \/ ws[candidate].role = "mapped" \/ w = candidate}
Floats(ws, t, candidate) ==
  {w \in Windows : /\ ws[w].role # "none" /\ ws[w].floating
                   /\ w = candidate \/ Visible(ws, t, w)}

\* A tile goes where the last accepted batch has it, or stays where it is, or
\* gets a provisional place.
TilePlace(w, external, accepted, tl) ==
  IF external /\ w \in DOMAIN accepted THEN accepted[w]
  ELSE IF external /\ tl[w].bounds # Nowhere THEN tl[w].bounds
  ELSE Own

Tell(ws, f, t, external, accepted, candidate, tl) ==
  LET tiles == Tiles(ws, t, external, candidate)
      floats == Floats(ws, t, candidate)
  IN  [w \in Windows |->
         IF w \in tiles THEN ToldTiled(TilePlace(w, external, accepted, tl), f = w)
         ELSE IF w \in floats THEN ToldFloating(f = w)
         ELSE IF ws[w].role = "none" THEN NotTold
         ELSE tl[w]]

AlwaysAnnounced(ws, t, external, candidate, before, after) ==    \* mutant: tiles too
  Tiles(ws, t, external, candidate) \cup Floats(ws, t, candidate)
\* The windows that are announced: tiles that are told something new, and
\* floating windows in any case.
Announced(ws, t, external, candidate, before, after) ==
  {w \in Tiles(ws, t, external, candidate) : after[w] # before[w]} \cup Floats(ws, t, candidate)

\* One configure_layout(candidate), from the slots, the serial and the
\* configures in c.  The variables above `told' are primed before it.
Round(c, candidate) ==
  LET windows == Asked(win', focus', shown', candidate)
      slot == c.slots[shown']
      ask == provider' /\ MustAsk(slot, area', windows)
      next == IF ask THEN c.serial + 1 ELSE c.serial
      tell == Tell(win', focus', shown', provider', slot.accepted, candidate, c.told)
  IN  [slots |-> IF ask
                 THEN [c.slots EXCEPT ![shown'] = NewRequest(slot, next, area', windows)]
                 ELSE c.slots,
       serial |-> next,
       told |-> tell,
       armed |-> c.armed \/ (provider' /\
                   Announced(win', shown', provider', candidate, c.told, tell) # {})]

Ends(c, quietly) ==
  /\ slots' = c.slots /\ serial' = c.serial /\ told' = c.told /\ pending' = c.armed
  /\ silent' = quietly

\* The end of a handler that calls configure_layout(candidate) with the slots
\* ss; armed says whether the idle is waiting already or the handler announces
\* something itself.
Start(ss, armed) == [slots |-> ss, serial |-> serial, told |-> told, armed |-> armed]
Configure(ss, candidate, armed) == Ends(Round(Start(ss, armed), candidate), FALSE)

\* notify_surface() or the event of a tag: invalidate() arms the idle.
Announce == provider

\* Bound: every handler may ask once, and so may an idle after it.
Room == serial + 1 < MaxSerial

----------------------------------------------------------------------------
(* Applications and the user.                                              *)

GetToplevel(w) ==
  /\ Room /\ win[w].role = "none"
  /\ win' = [win EXCEPT ![w] = [Gone EXCEPT !.role = "new", !.tag = shown]]
  /\ UNCHANGED <<focus, shown, area, provider>>
  /\ Configure(slots, w, pending)

\* A window that maps: rules or a parent may make it float; it may get the
\* keyboard.
CommitMap(w, floating) ==
  /\ Room /\ win[w].role \in {"new", "unmapped"}
  /\ win' = [win EXCEPT ![w].role = "mapped", ![w].floating = floating]
  /\ focus' \in {focus, w}
  /\ floating => focus' = w
  /\ UNCHANGED <<shown, area, provider>>
  /\ Configure(slots, None, pending \/ Announce)

\* The keyboard moves on from w: to a visible window, or to nobody.
MovesOn(w) ==
  IF focus # w THEN focus' = focus
  ELSE focus' \in {None} \cup {v \in Windows \ {w} : Visible(win', shown, v)}

CommitUnmap(w) ==
  /\ Room /\ win[w].role = "mapped"
  /\ win' = [win EXCEPT ![w].role = "unmapped"]
  /\ MovesOn(w)
  /\ UNCHANGED <<shown, area, provider>>
  /\ Configure(slots, None, pending \/ Announce)

\* top_destroyed(): only a mapped window makes the layout change; the end of
\* any is announced.
DestroyToplevel(w) ==
  /\ Room /\ win[w].role # "none"
  /\ win' = [win EXCEPT ![w] = Gone]
  /\ MovesOn(w)
  /\ UNCHANGED <<shown, area, provider>>
  /\ IF win[w].role = "mapped"
       THEN Configure(slots, None, pending \/ Announce)
       ELSE /\ pending' = (pending \/ Announce)
            /\ told' = [told EXCEPT ![w] = NotTold]
            /\ UNCHANGED <<slots, serial, silent>>

\* A commit that changes size hints configures, any other is announced only.
CommitAgain(w, i) ==
  /\ Room /\ win[w].role = "mapped"
  /\ win' = [win EXCEPT ![w].info = i]
  /\ UNCHANGED <<focus, shown, area, provider>>
  /\ IF i = win[w].info
       THEN pending' = (pending \/ Announce) /\ UNCHANGED <<told, slots, serial, silent>>
       ELSE Configure(slots, None, pending \/ Announce)

QuietTitle(w, i) ==    \* mutant: the new title is not announced
  /\ Room /\ win[w].role # "none" /\ win[w].info # i
  /\ win' = [win EXCEPT ![w].info = i]
  /\ UNCHANGED <<focus, shown, area, told, provider, slots, serial, pending, silent>>
\* set_title, set_app_id
SetTitle(w, i) ==
  /\ Room /\ win[w].role # "none" /\ win[w].info # i
  /\ win' = [win EXCEPT ![w].info = i]
  /\ pending' = (pending \/ Announce)
  /\ UNCHANGED <<focus, shown, area, told, provider, slots, serial, silent>>

\* unset_modal (and set_parent without a parent) says nothing to anyone.
UnsetModal(w, i) ==
  /\ Room /\ win[w].role # "none" /\ win[w].info # i
  /\ win' = [win EXCEPT ![w].info = i]
  /\ silent' = TRUE
  /\ UNCHANGED <<focus, shown, area, told, provider, slots, serial, pending>>

\* set_modal, set_parent, the start of a move: a mapped window floats; an
\* unmapped one is only marked.
Float(w) ==
  /\ Room /\ win[w].role # "none" /\ ~win[w].floating
  /\ win' = [win EXCEPT ![w].floating = TRUE]
  /\ UNCHANGED <<focus, shown, area, provider>>
  /\ IF win[w].role = "mapped"
       THEN Configure(slots, w, pending)
       ELSE silent' = TRUE /\ UNCHANGED <<told, slots, serial, pending>>

\* The key of the focused window, which a window that maps on a hidden tag can
\* be: then the request for the shown tag names it.
ToggleFloating(w) ==
  /\ Room /\ focus = w
  /\ win' = [win EXCEPT ![w].floating = ~@]
  /\ UNCHANGED <<focus, shown, area, provider>>
  /\ LET c == Round(Start(slots, pending), w)
     IN  Ends(c, ~c.armed /\ ~Visible(win, shown, w))

\* control_window(), for any window: configured as the candidate, wherever it
\* is, and once more without one.
ControlFloating(w, floating) ==
  /\ Room /\ win[w].role # "none" /\ win[w].floating # floating
  /\ win' = [win EXCEPT ![w].floating = floating]
  /\ UNCHANGED <<focus, shown, area, provider>>
  /\ LET c == Round(Round(Start(slots, pending \/ Announce), w), None)
     IN  c.serial <= MaxSerial /\ Ends(c, FALSE)

\* A press, a touch or a key moves the focus.
FocusWindow(w) ==
  /\ Room /\ Visible(win, shown, w) /\ focus # w
  /\ focus' = w
  /\ UNCHANGED <<win, shown, area, provider>>
  /\ Configure(slots, None, pending)

\* begin_external_tiled_resize(): the focus moves and only the policy owner is
\* told.
TiledResize(w) ==
  /\ Room /\ provider /\ Visible(win, shown, w) /\ ~win[w].floating /\ focus # w
  /\ focus' = w
  /\ silent' = TRUE
  /\ UNCHANGED <<win, shown, area, told, provider, slots, serial, pending>>

\* switch_active_tag()
SelectTag(t) ==
  /\ Room /\ t # shown
  /\ shown' = t
  /\ focus' \in {v \in Windows : Visible(win, t, v)} \cup
                (IF \A v \in Windows : ~Visible(win, t, v) THEN {None} ELSE {})
  /\ UNCHANGED <<win, area, provider>>
  /\ Configure(slots, None, pending \/ Announce)

\* assign_window()
AssignWindow(w, t) ==
  /\ Room /\ win[w].role # "none" /\ win[w].tag # t
  /\ win' = [win EXCEPT ![w].tag = t]
  /\ IF t # shown THEN MovesOn(w) ELSE focus' = focus
  /\ UNCHANGED <<shown, area, provider>>
  /\ Configure(slots, None, pending \/ Announce)

\* The commit of a layer surface with an exclusive zone.  (Bound: the zones
\* only grow.)
LayerCommit(a) ==
  /\ Room /\ a > area
  /\ area' = a
  /\ UNCHANGED <<win, focus, shown, provider>>
  /\ Configure(slots, None, pending)

----------------------------------------------------------------------------
(* The provider.                                                           *)

NoSlots == [t \in Tags |-> NoSlot(area)]

CreateProvider ==
  /\ Room /\ ~provider
  /\ provider' = TRUE
  /\ UNCHANGED <<win, focus, shown, area>>
  /\ Configure(slots, None, pending)

\* The provider's resource is destroyed, or its client ends.
DestroyProvider ==
  /\ provider
  /\ provider' = FALSE
  /\ UNCHANGED <<win, focus, shown, area>>
  /\ Configure(NoSlots, None, pending)

RequestLayout ==
  /\ Room /\ provider
  /\ UNCHANGED <<win, focus, shown, area, provider>>
  /\ Configure([t \in Tags |-> [slots[t] EXCEPT !.force = @ \/ slots[t].serial # 0]], None, pending)

\* find() for the newest serial of a tag: it is shown, and every window of the
\* request is still there and as the request said.
Found(t) ==
  /\ provider /\ slots[t].serial # 0 /\ t = shown
  /\ \A w \in DOMAIN slots[t].windows :
       win[w].role # "none" /\ win[w].tag = t /\ Info(win, focus, w) = slots[t].windows[w]

\* place with a rectangle that is valid or not; a serial that is not found, or
\* committed, is ignored.
PlaceWindow(t, w, valid) ==
  /\ Found(t) /\ ~slots[t].committed
  /\ slots' = IF valid /\ w \in DOMAIN slots[t].windows \ DOMAIN slots[t].draft
              THEN [slots EXCEPT ![t].draft =
                      [v \in DOMAIN @ \cup {w} |-> IF v = w THEN slots[t].serial ELSE @[v]]]
              ELSE [slots EXCEPT ![t].error = TRUE]
  /\ UNCHANGED <<win, focus, shown, area, told, provider, serial, pending, silent>>

Complete(slot) == ~slot.error /\ Cardinality(DOMAIN slot.draft) =
                               Cardinality(DOMAIN slot.windows)

\* commit; one that is stale, incomplete or repeated fails and changes nothing.
Commit(t) ==
  /\ Found(t) /\ ~slots[t].committed /\ Complete(slots[t])
  /\ UNCHANGED <<win, focus, shown, area, provider>>
  /\ Configure([slots EXCEPT ![t].accepted = slots[t].draft,
                             ![t].committed = TRUE], None, pending)

\* The idle of invalidate().
Relayout ==
  /\ pending
  /\ UNCHANGED <<win, focus, shown, area, provider>>
  /\ IF provider THEN Configure(slots, None, FALSE)
     ELSE pending' = FALSE /\ UNCHANGED <<told, slots, serial, silent>>

----------------------------------------------------------------------------
Init ==
  /\ win = [w \in Windows |-> IF w \in Settled THEN [Gone EXCEPT !.role = "mapped"] ELSE Gone]
  /\ focus = None /\ shown = 1 /\ area = 1
  /\ told = [w \in Windows |-> IF w \in Settled THEN ToldTiled(Own, FALSE) ELSE NotTold]
  /\ provider = FALSE /\ slots = NoSlots /\ serial = 0
  /\ pending = FALSE /\ silent = FALSE

ApplicationStep ==
  \E w \in Windows \ Settled :
    \/ GetToplevel(w) \/ CommitUnmap(w) \/ DestroyToplevel(w) \/ Float(w)
    \/ \E b \in BOOLEAN : CommitMap(w, b)
    \/ \E i \in Infos : CommitAgain(w, i) \/ SetTitle(w, i) \/ UnsetModal(w, i)

UserStep ==
  \/ \E w \in Windows : FocusWindow(w) \/ TiledResize(w)
  \/ \E w \in Windows \ Settled :
       \/ ToggleFloating(w)
       \/ \E t \in Tags : AssignWindow(w, t)
       \/ \E b \in BOOLEAN : ControlFloating(w, b)
  \/ \E t \in Tags : SelectTag(t)
  \/ \E a \in Areas : LayerCommit(a)

ProviderStep ==
  \/ CreateProvider \/ DestroyProvider \/ RequestLayout
  \/ \E t \in Tags : Commit(t) \/ \E w \in Windows, valid \in BOOLEAN : PlaceWindow(t, w, valid)

Next == ApplicationStep \/ UserStep \/ ProviderStep \/ Relayout
Spec == Init /\ [][Next]_vars

\* The event loop runs its idles.
FairSpec == Spec /\ WF_vars(Relayout)

----------------------------------------------------------------------------
TypeOK ==
  /\ win \in [Windows -> WindowType] /\ focus \in Windows \cup {None}
  /\ shown \in Tags /\ area \in Areas /\ told \in [Windows -> ToldType]
  /\ provider \in BOOLEAN /\ slots \in [Tags -> SlotType] /\ serial \in 0 .. MaxSerial
  /\ pending \in BOOLEAN /\ silent \in BOOLEAN

\* At rest the provider has been asked for exactly the windows, the states and
\* the area there are: its newest request can be answered and committed, no
\* change is lost between handlers that configure and handlers that only
\* announce (arrange() 66-74, find() 43-60, invalidate() 185-191).
NewestIsCurrent ==
  provider /\ ~pending /\ ~silent =>
    /\ slots[shown].serial # 0
    /\ slots[shown].area = area
    /\ slots[shown].windows = Asked(win, focus, shown, None)
    /\ Found(shown)

\* A batch that is accepted places every tiled window of the shown tag as it
\* is now, for the newest request (zwwm-layout-manager-v1.xml: "Commit must
\* place every participant exactly once.  New requests invalidate old serials").
AcceptedIsWhole ==
  [][\A t \in Tags :
       slots'[t].accepted # slots[t].accepted /\ provider' =>
         /\ t = shown
         /\ slots[t].windows = Asked(win, focus, t, None)
         /\ slots'[t].accepted = [w \in DOMAIN slots[t].windows |-> slots[t].serial]]_vars

FloatShown == \E w \in Windows : win[w].floating /\ Visible(win, shown, w)

\* Once nothing else happens, the compositor stops configuring again: a round
\* that tells nobody anything new is not announced.  A floating window on the
\* screen is announced by every round, and then there is no end.
LayoutSettles ==
  <>[][Relayout]_vars => <>[](~pending \/ FloatShown)
=============================================================================
