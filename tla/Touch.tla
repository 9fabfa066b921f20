------------------------------- MODULE Touch --------------------------------
(***************************************************************************)
(* Touch contacts (compositor_server_touch.cpp, CompositorServer::touch).  *)
(* A contact stays with the surface it went down on and with the wl_touch   *)
(* objects its client had then; surfaces, objects and clients go away while *)
(* fingers are down.  Positions are left out: which surface is under the    *)
(* finger is chosen.                                                        *)
(***************************************************************************)
EXTENDS FiniteSets

CONSTANTS
  Surfaces, LockSurfaces,  \* the surfaces; those of the session lock
  Objects,                 \* the wl_touch objects
  Owner(_),                \* the client of a surface or of an object
  Ids, None

VARIABLES
  contacts,  \* seat->touch_points: surface and recipients of each contact
  live,      \* the wl_touch objects that exist (seat->touches)
  owed,      \* seat->touch_frame_clients
  told,      \* told[o]: the contacts the object believes down
  fresh,     \* fresh[o]: the contacts with events no frame has ended yet
  surf,      \* surf[s]: "shown", "hidden", "unmapped" or "dead"
  mode       \* "normal", "locked" or "overview"

touchVars == <<contacts, live, owed, told, fresh, surf, mode>>

NoContact == [on |-> None, alive |-> FALSE, to |-> {}]
Down(i) == contacts[i].on # None
ClientOf(i) == Owner(contacts[i].on)
ObjectsOf(c) == {o \in live : Owner(o) = c}

Init ==
  /\ contacts = [i \in Ids |-> NoContact] /\ live = {} /\ owed = {}
  /\ told = [o \in Objects |-> {}] /\ fresh = [o \in Objects |-> {}]
  /\ surf = [s \in Surfaces |-> "shown"] /\ mode = "normal"

\* The contacts of clients cs end with a cancel; owes is what is left of the frames.
\* cancel_client()
Cancel(cs, owes) ==
  /\ contacts' = [i \in Ids |-> IF Down(i) /\ ClientOf(i) \in cs THEN NoContact ELSE contacts[i]]
  /\ told' = [o \in Objects |-> IF Owner(o) \in cs THEN {} ELSE told[o]]
  /\ fresh' = [o \in Objects |-> IF Owner(o) \in cs THEN {} ELSE fresh[o]]
  /\ owed' = owes

\* An event of contact i for the objects os, and the frame it needs.
Event(i, os, c) ==
  /\ fresh' = [o \in Objects |-> IF o \in os THEN fresh[o] \cup {i} ELSE fresh[o]]
  /\ owed' = owed \cup {c}

-----------------------------------------------------------------------------
\* CreateTouch: bind_touch()
CreateTouch(o) ==
  /\ o \notin live /\ live' = live \cup {o}
  /\ UNCHANGED <<contacts, owed, told, fresh, surf, mode>>

\* The object is destroyed; with the last one of a client, so are its contacts.
DestroyTouch(o) ==
  LET last == ObjectsOf(Owner(o)) = {o}
  IN /\ o \in live /\ live' = live \ {o}
     /\ contacts' = [i \in Ids |-> IF last /\ Down(i) /\ ClientOf(i) = Owner(o) THEN NoContact
                                   ELSE [contacts[i] EXCEPT !.to = @ \ {o}]]
     /\ owed' = IF last THEN owed \ {Owner(o)} ELSE owed
     /\ told' = [told EXCEPT ![o] = {}] /\ fresh' = [fresh EXCEPT ![o] = {}]
     /\ UNCHANGED <<surf, mode>>

\* surface_at_global(): what a finger can hit.
Hit == {s \in Surfaces : surf[s] = "shown" /\ (mode = "locked" <=> s \in LockSurfaces)}

\* touch_down(), deliver_touch_down(): in the overview a touch is a click.
TouchDown(i, s) ==
  /\ mode # "overview" /\ ~Down(i) /\ s \in Hit /\ ObjectsOf(Owner(s)) # {}
  /\ LET to == ObjectsOf(Owner(s))
     IN /\ contacts' = [contacts EXCEPT ![i] = [on |-> s, alive |-> TRUE, to |-> to]]
        /\ told' = [o \in Objects |-> IF o \in to THEN told[o] \cup {i} ELSE told[o]]
        /\ Event(i, to, Owner(s))
  /\ UNCHANGED <<live, surf, mode>>

\* deliver_touch_motion(): a surface that is gone or shows nothing cancels its client.
TouchMotion(i) ==
  /\ Down(i)
  /\ IF ~contacts[i].alive \/ surf[contacts[i].on] = "unmapped"
     THEN Cancel({ClientOf(i)}, owed \ {ClientOf(i)})
     ELSE Event(i, contacts[i].to, ClientOf(i)) /\ UNCHANGED <<contacts, told>>
  /\ UNCHANGED <<live, surf, mode>>

\* deliver_touch_up()
TouchUp(i) ==
  /\ Down(i)
  /\ IF ~contacts[i].alive
     THEN Cancel({ClientOf(i)}, owed \ {ClientOf(i)})
     ELSE /\ contacts' = [contacts EXCEPT ![i] = NoContact]
          /\ told' = [o \in Objects |-> told[o] \ IF o \in contacts[i].to THEN {i} ELSE {}]
          /\ Event(i, contacts[i].to, ClientOf(i))
  /\ UNCHANGED <<live, surf, mode>>

\* deliver_touch_frame()
TouchFrame ==
  /\ fresh' = [o \in Objects |-> IF Owner(o) \in owed THEN {} ELSE fresh[o]]
  /\ owed' = {}
  /\ UNCHANGED <<contacts, live, told, surf, mode>>

Touching == {ClientOf(i) : i \in {j \in Ids : Down(j)}}

\* touch_cancel(), cancel_touches(): no frame follows, not even for a contact already up.
TouchCancel ==
  /\ Cancel(Touching, {}) /\ UNCHANGED <<live, surf, mode>>

\* blank_unlocked_scene(), update_overview(): both cancel every contact.
Enter(m) ==
  /\ m # mode /\ mode # "locked" /\ mode' = m
  /\ Cancel(Touching, {}) /\ UNCHANGED <<live, surf>>
Leave ==
  /\ mode # "normal" /\ mode' = "normal"
  /\ UNCHANGED <<contacts, live, owed, told, fresh, surf>>

\* The clients cancel_touch_surface(s) cancels: those of s and of destroyed surfaces.
Swept(s) == {ClientOf(i) : i \in {j \in Ids : Down(j) /\ (~contacts[j].alive \/ contacts[j].on = s)}}

\* control_window(), hidden: the contacts of the window are cancelled.
Hide(s) ==
  /\ surf[s] = "shown" /\ mode # "locked" /\ surf' = [surf EXCEPT ![s] = "hidden"]
  /\ Cancel(Swept(s), owed \ Swept(s)) /\ UNCHANGED <<live, mode>>
Show(s) ==
  /\ surf[s] \in {"hidden", "unmapped"} /\ surf' = [surf EXCEPT ![s] = "shown"]
  /\ UNCHANGED <<contacts, live, owed, told, fresh, mode>>

\* A null buffer; nothing is told to the contacts.
Unmap(s) ==
  /\ surf[s] = "shown" /\ surf' = [surf EXCEPT ![s] = "unmapped"]
  /\ UNCHANGED <<contacts, live, owed, told, fresh, mode>>

\* surface_destroyed() only clears the surface's alive flag, which the contacts share.
DestroySurface(s) ==
  /\ surf[s] # "dead" /\ surf' = [surf EXCEPT ![s] = "dead"]
  /\ contacts' = [i \in Ids |-> IF contacts[i].on = s THEN [contacts[i] EXCEPT !.alive = FALSE] ELSE contacts[i]]
  /\ UNCHANGED <<live, owed, told, fresh, mode>>
\* A new surface may have the address of the old one.
CreateSurface(s) ==
  /\ surf[s] = "dead" /\ surf' = [surf EXCEPT ![s] = "shown"]
  /\ UNCHANGED <<contacts, live, owed, told, fresh, mode>>

Next ==
  \/ \E o \in Objects : CreateTouch(o) \/ DestroyTouch(o)
  \/ \E i \in Ids : \/ \E s \in Surfaces : TouchDown(i, s)
                    \/ TouchMotion(i) \/ TouchUp(i)
  \/ TouchFrame \/ TouchCancel \/ Leave \/ \E m \in {"locked", "overview"} : Enter(m)
  \/ \E s \in Surfaces : Hide(s) \/ Show(s) \/ Unmap(s) \/ DestroySurface(s) \/ CreateSurface(s)

-----------------------------------------------------------------------------
\* The types of the variables.
TypeOK ==
  /\ \A i \in Ids : contacts[i].on \in Surfaces \cup {None} /\ contacts[i].to \subseteq live
  /\ live \subseteq Objects /\ mode \in {"normal", "locked", "overview"}

\* Every object believes down exactly the contacts that are delivered to it: no contact is left
\* pressed in a client when its surface, its object or the scene goes away.
ContactsKnown == \A o \in Objects : told[o] = {i \in Ids : o \in contacts[i].to}

\* A contact whose last event waits for its frame gets one; frames are owed to clients that can
\* receive them.
FramesOwed ==
  /\ \A o \in live : fresh[o] \cap told[o] # {} => Owner(o) \in owed
  /\ \A c \in owed : ObjectsOf(c) # {}

\* A touch never goes through to something the user does not see: the overview and hidden
\* windows have no contacts, and while locked the lock surfaces have all of them.
TouchedVisible ==
  \A i \in Ids : Down(i) /\ contacts[i].alive =>
    /\ mode # "overview" /\ surf[contacts[i].on] # "hidden"
    /\ mode = "locked" => contacts[i].on \in LockSurfaces
=============================================================================
