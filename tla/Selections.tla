----------------------------- MODULE Selections -----------------------------
(***************************************************************************)
(* Clipboard, primary selection and drag and drop                          *)
(* (compositor_server_data_device.cpp).  A client offers data with a       *)
(* source; the seat has one source per selection and one per drag; other   *)
(* clients see it as an offer, through which the compositor forwards their *)
(* requests.  Any of these objects can be destroyed at any time, and the   *)
(* keyboard focus decides who may see the clipboard, except for clipboard  *)
(* managers, which have a control device.                                  *)
(*                                                                         *)
(* All objects have version 3.  An offer whose source was taken away does  *)
(* nothing any more and is not kept, unless it is the active one of a      *)
(* drag, which a drop still counts.  MIME types are reduced to: accepted   *)
(* or not, and drag actions to: one was agreed on, or none.                *)
(***************************************************************************)
EXTENDS FiniteSets

CONSTANTS Clients, Managers, Sources, None

Slots == {"clip", "primary"}

VARIABLES
  src,      \* src[s]: the source, if it exists
  sel,      \* seat->selection, seat->primary_selection
  focus,    \* the client with the keyboard focus
  devices,  \* the clients with a data device; with a control device, for managers
  offers,   \* the offers that have a source, and those of the drag's target
  drag,     \* the drag: its source, and the client it is over
  lost      \* the sources of drops whose offer lost its source with the focus

selVars == <<src, sel, focus, devices, offers, drag, lost>>

\* reused (history): selected again after it was cancelled
NoSource == [owner |-> None, role |-> "unused", cancelled |-> FALSE, reused |-> FALSE]
NoDrag == [on |-> FALSE, source |-> None, target |-> None]

Init ==
  /\ src = [s \in Sources |-> NoSource]
  /\ sel = [k \in Slots |-> None] /\ focus = None /\ devices = {} /\ offers = {}
  /\ drag = NoDrag /\ lost = {}

Alive(s) == src[s].owner # None
Offer(c, k, s) ==
  [to |-> c, kind |-> k, from |-> s, accepted |-> FALSE, action |-> FALSE, dropped |-> FALSE,
   active |-> k = "drag"]

Here == [src |-> src, sel |-> sel, offers |-> offers, drag |-> drag]
Set(st) == src' = st.src /\ sel' = st.sel /\ offers' = st.offers /\ drag' = st.drag

-----------------------------------------------------------------------------
\* send_selection(), send_control_selection(): new offers for those who may see it.
Viewers(k, to) == (IF k = "clip" THEN {to} \cap (devices \ Managers) ELSE {}) \cup (devices \cap Managers)
Show(st, k) ==
  [st EXCEPT !.offers = @ \cup {Offer(c, k, st.sel[k]) : c \in IF st.sel[k] = None THEN {} ELSE Viewers(k, focus)}]

\* Offers lose their source; the active one of a drag goes on without.
Sourceless(os) == {[o EXCEPT !.from = None] : o \in {p \in os : p.active}}
Withdraw(st, s) ==
  LET its == {o \in st.offers : o.from = s}
  IN [st EXCEPT !.offers = (@ \ its) \cup Sourceless(its)]

\* cancel_source()
Cancel(st, s) ==
  IF s = None \/ st.src[s].cancelled THEN st
  ELSE Withdraw([st EXCEPT !.src[s].cancelled = TRUE, !.src[s].role = "unused"], s)

\* clear_drag_target()
ClearTarget(st) == [st EXCEPT !.drag.target = None, !.offers = {o \in @ : ~o.active}]

\* finish_drag(): delivered to an offer that accepted it, whether that still has a
\* source or not, or else cancelled.
Taken(st, drop) ==
  {o \in st.offers : drop /\ st.drag.target # None /\ o.active /\ o.accepted /\ o.action}
FinishDrag(st, drop) ==
  LET taken == Taken(st, drop)
      kept == {[o EXCEPT !.dropped = TRUE, !.active = FALSE] : o \in {p \in taken : p.from # None}}
      ended == [st EXCEPT !.offers = {o \in @ : ~o.active} \cup kept, !.drag = NoDrag]
  IN IF taken # {} THEN ended ELSE Cancel(ended, st.drag.source)

-----------------------------------------------------------------------------
(* Sources                                                                 *)

CreateSource(s, c) ==
  /\ ~Alive(s) /\ src' = [src EXCEPT ![s] = [NoSource EXCEPT !.owner = c]]
  /\ UNCHANGED <<sel, focus, devices, offers, drag, lost>>

\* data_source_destroyed()
DestroySource(s) ==
  /\ Alive(s)
  /\ LET st == Withdraw(IF drag.on /\ drag.source = s THEN FinishDrag(Here, FALSE) ELSE Here, s)
     IN Set([st EXCEPT !.src[s] = NoSource,
                       !.sel = [k \in Slots |-> IF @[k] = s THEN None ELSE @[k]]])
  /\ lost' = lost \ {s} /\ UNCHANGED <<focus, devices>>

\* replace_selection(): of a client with the focus (valid_selection_serial), or of
\* a manager.  A source in use is refused; one that was cancelled is not.
SetSelection(c, k, s) ==
  /\ c \in devices /\ (c \notin Managers => k = "clip" /\ focus = c)
  /\ s # sel[k] /\ (s # None => src[s].owner = c /\ src[s].role = "unused")
  /\ LET placed == [Here EXCEPT !.sel[k] = s,
                      !.src = IF s = None THEN @
                              ELSE [@ EXCEPT ![s].role = "selection", ![s].reused = src[s].cancelled]]
     IN Set(Show(Cancel(placed, sel[k]), k))
  /\ UNCHANGED <<focus, devices, lost>>

\* selection_focus_changed(): deactivate_offers() takes the source of all offers of the
\* client that had the focus, also of the drag that is over it and of a drop it has
\* not finished.
Focus(c) ==
  /\ c # focus /\ focus' = c
  /\ LET its == {o \in offers : focus # None /\ o.to = focus}
         seen == IF sel["clip"] = None THEN {} ELSE {c} \cap (devices \ Managers)
     IN /\ offers' = (offers \ its) \cup Sourceless(its) \cup {Offer(d, "clip", sel["clip"]) : d \in seen}
        /\ lost' = lost \cup {o.from : o \in {p \in its : p.dropped}}
  /\ UNCHANGED <<src, sel, devices, drag>>

\* manager_get_device() and get_control_device()
GetDevice(c) ==
  /\ c \notin devices /\ devices' = devices \cup {c}
  /\ offers' = offers \cup
       {Offer(c, k, sel[k]) : k \in {j \in Slots : sel[j] # None /\ (c \in Managers \/ (j = "clip" /\ focus = c))}}
  /\ UNCHANGED <<src, sel, focus, drag, lost>>

\* data_device_destroyed(): the offers stay.
ReleaseDevice(c) ==
  /\ c \in devices /\ devices' = devices \ {c}
  /\ UNCHANGED <<src, sel, focus, offers, drag, lost>>

-----------------------------------------------------------------------------
(* Drags                                                                   *)

\* drag_motion(): over a client that has a data device, or over none.
Over(st, c) ==
  LET moved == [ClearTarget(st) EXCEPT !.drag.target = c]
  IN IF c = None \/ st.drag.source = None THEN moved
     ELSE [moved EXCEPT !.offers = @ \cup {Offer(c, "drag", st.drag.source)}]

\* data_device_start_drag(), with a source or within the client; it is over what is
\* under the pointer at once.
StartDrag(c, s, t) ==
  /\ c \in devices \ Managers /\ ~drag.on /\ t \in (devices \ Managers) \cup {None}
  /\ s # None => src[s].owner = c /\ src[s].role = "unused"
  /\ LET begun == [Here EXCEPT !.drag = [on |-> TRUE, source |-> s, target |-> None],
                     !.src = IF s = None THEN @
                             ELSE [@ EXCEPT ![s].role = "drag", ![s].cancelled = FALSE]]
     IN Set(Over(begun, t))
  /\ UNCHANGED <<focus, devices, lost>>

\* The pointer moves to another surface, perhaps of the same client, or that of the
\* target goes.
DragMotion(c) ==
  /\ drag.on /\ c \in (devices \ Managers) \cup {None} /\ (c = None => drag.target # None)
  /\ Set(Over(Here, c)) /\ UNCHANGED <<focus, devices, lost>>

\* data_offer_accept(): a type of the source, if there is one.
Accept(o, yes) ==
  /\ o.kind = "drag" /\ (o.from = None => ~yes) /\ o.accepted # yes
  /\ offers' = (offers \ {o}) \cup {[o EXCEPT !.accepted = yes]}
  /\ UNCHANGED <<src, sel, focus, devices, drag, lost>>

\* data_offer_set_actions(), choose_drag_action(): both sides agree on one, or on none.
SetActions(o, yes) ==
  /\ o.kind = "drag" /\ (o.from = None => ~yes) /\ o.action # yes
  /\ offers' = (offers \ {o}) \cup {[o EXCEPT !.action = yes]}
  /\ UNCHANGED <<src, sel, focus, devices, drag, lost>>

\* drag_button(), and everything that cancels a drag.
Drop(drop) ==
  /\ drag.on /\ Set(FinishDrag(Here, drop))
  /\ lost' = lost \cup {drag.source : o \in {p \in Taken(Here, drop) : p.from = None}}
  /\ UNCHANGED <<focus, devices>>

\* data_offer_finish()
FinishOffer(o) ==
  /\ o.dropped /\ o.action
  /\ Set(IF src[o.from].role = "drag"
         THEN Withdraw([Here EXCEPT !.src[o.from].role = "unused"], o.from)
         ELSE [Here EXCEPT !.offers = @ \ {o}])
  /\ UNCHANGED <<focus, devices, lost>>

\* data_offer_destroyed(): a drop that was never finished is cancelled.
DestroyOffer(o) ==
  /\ o.kind = "drag"
  /\ LET st == [Here EXCEPT !.offers = @ \ {o}]
     IN Set(IF o.dropped /\ src[o.from].role = "drag" /\ ~\E p \in st.offers : p.dropped /\ p.from = o.from
            THEN Cancel(st, o.from) ELSE st)
  /\ UNCHANGED <<focus, devices, lost>>

Next ==
  \/ \E s \in Sources, c \in Clients : CreateSource(s, c)
  \/ \E c \in Clients, s \in Sources \cup {None}, t \in Clients \cup {None} : StartDrag(c, s, t)
  \/ \E s \in Sources : DestroySource(s)
  \/ \E c \in Clients, k \in Slots, s \in Sources \cup {None} : SetSelection(c, k, s)
  \/ \E c \in Clients \cup {None} : Focus(c) \/ DragMotion(c)
  \/ \E c \in Clients : GetDevice(c) \/ ReleaseDevice(c)
  \/ \E o \in offers : FinishOffer(o) \/ DestroyOffer(o)
  \/ \E o \in offers, yes \in BOOLEAN : Accept(o, yes) \/ SetActions(o, yes)
  \/ \E drop \in BOOLEAN : Drop(drop)

Spec == Init /\ [][Next]_selVars

-----------------------------------------------------------------------------
(* Properties                                                              *)

TypeOK ==
  /\ \A s \in Sources : src[s].role \in {"unused", "selection", "drag"} /\ src[s].owner \in Clients \cup {None}
  /\ \A k \in Slots : sel[k] \in Sources \cup {None}
  /\ focus \in Clients \cup {None} /\ devices \subseteq Clients /\ lost \subseteq Sources

\* A selection is a source that exists and is no drag, and it still serves, unless it
\* was selected again after it had been cancelled.
SelectionServes ==
  /\ \A k \in Slots : sel[k] # None => /\ Alive(sel[k]) /\ src[sel[k]].role = "selection"
                                       /\ src[sel[k]].cancelled => src[sel[k]].reused
  /\ sel["clip"] # None => sel["clip"] # sel["primary"]

\* What a client can ask for through an offer exists, was not cancelled, and is what is
\* selected.  Only the offers of a source that was selected again after it had been
\* cancelled are neither served nor taken back when another one replaces it.
OffersServed ==
  \A o \in offers : o.from # None =>
    /\ Alive(o.from)
    /\ src[o.from].reused \/ (~src[o.from].cancelled /\ (o.kind \in Slots => o.from = sel[o.kind]))

\* The clipboard can be read by the client with the focus and by managers only,
\* and the one with the focus can read it.
ClipboardFollowsFocus ==
  /\ \A o \in offers : o.kind = "clip" => o.to = focus \/ o.to \in Managers
  /\ sel["clip"] # None /\ focus \in devices \ Managers =>
       Offer(focus, "clip", sel["clip"]) \in offers

\* The source of a drag hears how it ended: as long as it has not, the drag goes
\* on, or somebody has a drop to finish.  (Lost: the receiver lost the focus while the
\* drag was over it or before it finished the drop, and the source is told nothing.)
\* And only a drag that goes on has an offer without a source.
DragsEnd ==
  /\ \A s \in Sources : src[s].role = "drag" =>
       \/ drag.on /\ drag.source = s
       \/ \E o \in offers : o.dropped /\ o.from = s
       \/ s \in lost
  /\ \A o \in offers : o.active => drag.on /\ drag.target = o.to /\ o.from \in {drag.source, None}
=============================================================================
