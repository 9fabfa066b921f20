----------------------------- MODULE XSelection -----------------------------
(***************************************************************************)
(* The clipboard between Wayland and X11                                   *)
(* (compositor_server_xwayland_selection.cpp).  An X owner is announced by  *)
(* the X server, asked for its targets, and answers when it likes; then a   *)
(* source of the compositor's own represents it to Wayland clients.  When a *)
(* Wayland client takes the selection the window manager becomes the X      *)
(* owner and answers requests by reading the client's data from a pipe.     *)
(*                                                                         *)
(* One selection; MIME types are left out.  The X server and the owner's    *)
(* answers (owner, asked, queue) are external.                              *)
(***************************************************************************)
EXTENDS Naturals, Sequences, FiniteSets

CONSTANTS SourceIds, Requests, Fds, MaxQueue, MaxAsked, None

VARIABLES
  sel,    \* the seat's selection: None, "wl", or the X source it is
  src,    \* selection->source, the X source that exists
  offers, \* the sources Wayland clients hold offers of
  run,    \* connected, notify_on_focus, the focus is on an X window
  owner,  \* X: the owner of the selection
  asked,  \* X: targets conversions the owner has not answered
  queue,  \* X: events not read yet
  reqs,   \* selection requests of X clients: how far they are
  recv,   \* receive transfers, by the descriptor they write to
  open    \* descriptors Wayland clients handed over that are still open

selectionVars == <<sel, src, offers, run, owner, asked, queue, reqs, recv, open>>
wlVars == <<sel, src, offers>>

Init ==
  /\ sel = None /\ src = None /\ offers = {}
  /\ run = [on |-> FALSE, notify |-> FALSE, focus |-> FALSE]
  /\ owner = "none" /\ asked = 0 /\ queue = <<>>
  /\ reqs = [r \in Requests |-> "none"] /\ recv = [f \in Fds |-> "none"] /\ open = {}

Here == [sel |-> sel, src |-> src, offers |-> offers]
Set(st) == sel' = st.sel /\ src' = st.src /\ offers' = st.offers

\* cancel_source(): its offers lose it.
Cancel(st, s) == [st EXCEPT !.offers = @ \ {s}]
\* send_selection() to the focused client and to clipboard managers.
Show(st) == [st EXCEPT !.offers = IF st.sel = None THEN @ ELSE @ \cup {st.sel}]

\* The X server tells the window manager of a new owner.
Owner(o) == owner' = o /\ queue' = Append(queue, o)
Room == Len(queue) < MaxQueue

-----------------------------------------------------------------------------
(* X clients                                                               *)

XOwn(o) ==
  /\ run.on /\ Room /\ asked < MaxAsked /\ o # owner /\ (o = "none" => owner = "app") /\ Owner(o)
  /\ UNCHANGED <<wlVars, run, asked, reqs, recv, open>>
\* The owner answers a conversion to TARGETS, perhaps refusing.
XTargets ==
  /\ asked > 0 /\ Room /\ asked' = asked - 1
  /\ queue' = Append(queue, "targets") \/ queue' = queue
  /\ UNCHANGED <<wlVars, run, owner, reqs, recv, open>>
XRequest(r) ==
  /\ run.on /\ Room /\ owner = "wm" /\ reqs[r] = "none"
  /\ reqs' = [reqs EXCEPT ![r] = "sent"] /\ queue' = Append(queue, r)
  /\ UNCHANGED <<wlVars, run, owner, asked, recv, open>>
\* The requestor has its answer and may ask again.
XAnswered(r) ==
  /\ reqs[r] = "answered" /\ reqs' = [reqs EXCEPT ![r] = "none"]
  /\ UNCHANGED <<wlVars, run, owner, asked, queue, recv, open>>

-----------------------------------------------------------------------------
(* handle_xwayland_selection_event()                                       *)

\* Nobody owns the X selection: what it offered is withdrawn.
NoOwner(st) ==
  LET gone == IF st.sel = st.src /\ st.src # None
              THEN Show([Cancel(st, st.src) EXCEPT !.sel = None]) ELSE st
  IN [gone EXCEPT !.src = None]

\* install_xwayland_source(): replaces whatever is selected, and the previous X source.
Install(st, s) == Show([Cancel(st, st.sel) EXCEPT !.sel = s, !.src = s])

OwnerNotify ==
  /\ run.on /\ queue # <<>> /\ Head(queue) \in {"none", "wm", "app"}
  /\ queue' = Tail(queue)
  /\ IF Head(queue) = "none" THEN Set(NoOwner(Here)) ELSE UNCHANGED wlVars
  \* converting: the server passes it to the owner, if there is one
  /\ asked' = IF Head(queue) = "app" /\ owner = "app" THEN asked + 1 ELSE asked
  /\ UNCHANGED <<run, owner, reqs, recv, open>>
TargetsNotify ==
  /\ run.on /\ queue # <<>> /\ Head(queue) = "targets"
  /\ queue' = Tail(queue)
  /\ \E s \in SourceIds \ {src} : Set(Install(Here, s))
  /\ UNCHANGED <<run, owner, asked, reqs, recv, open>>

\* Refused unless a Wayland source is selected and an X window has the focus; TARGETS and
\* TIMESTAMP are answered at once, data when the source has written it all.
SelectionRequest(r) ==
  /\ run.on /\ queue # <<>> /\ Head(queue) = r /\ queue' = Tail(queue)
  /\ \E data \in BOOLEAN :
       reqs' = [reqs EXCEPT ![r] = IF sel = "wl" /\ run.focus /\ data THEN "pending" ELSE "answered"]
  /\ UNCHANGED <<wlVars, run, owner, asked, recv, open>>
\* The pipe of a send transfer ended.
Sent(r) ==
  /\ reqs[r] = "pending" /\ reqs' = [reqs EXCEPT ![r] = "answered"]
  /\ UNCHANGED <<wlVars, run, owner, asked, queue, recv, open>>

-----------------------------------------------------------------------------
(* Wayland clients                                                         *)

\* xwayland_wayland_selection_changed()
Changed(s) ==
  IF ~run.on THEN UNCHANGED <<run, owner, queue>>
  ELSE Owner(IF s = None THEN "none" ELSE "wm") /\ run' = [run EXCEPT !.notify = s # None]

\* replace_selection(), or the selected Wayland source is destroyed.
WlSelect(s) ==
  /\ s = None => sel # None
  /\ (run.on => Room)
  /\ Set(Show([(IF s = sel THEN Here ELSE Cancel(Here, sel)) EXCEPT !.sel = s])) /\ Changed(s)
  /\ UNCHANGED <<asked, reqs, recv, open>>

\* data_offer_receive() of an X source: xwayland_receive_selection()
Receive(f) ==
  /\ f \notin open /\ sel = src /\ src \in offers
  /\ run.on
  /\ recv' = [recv EXCEPT ![f] = "converting"] /\ open' = open \cup {f}
  /\ UNCHANGED <<wlVars, run, owner, asked, queue, reqs>>
\* remove_receive()
RemoveReceive(f) == recv' = [recv EXCEPT ![f] = "none"] /\ open' = open \ {f}

\* write_receive_property(): the data, the announcement of INCR or its next chunk; or no data.
WriteProperty(f) ==
  /\ recv[f] \in {"converting", "incr"}
  /\ \/ \E next \in IF recv[f] = "incr" THEN {"incr", "incrwriting"} ELSE {"writing", "incr", "incrwriting"} :
           recv' = [recv EXCEPT ![f] = next] /\ open' = open
     \/ RemoveReceive(f)

\* flush_receive(), for a slow reader: all is written, or the reader is gone.
FlushReceive(f) ==
  /\ recv[f] \in {"writing", "incrwriting"}
  /\ \/ recv[f] = "incrwriting" /\ recv' = [recv EXCEPT ![f] = "incr"] /\ open' = open
     \/ RemoveReceive(f)

ReceiveStep(f) ==
  /\ WriteProperty(f) \/ FlushReceive(f)
  /\ UNCHANGED <<wlVars, run, owner, asked, queue, reqs>>

-----------------------------------------------------------------------------
\* xwayland_keyboard_focus_changed(): the claim is repeated when an X window gets the focus.
FocusX(on) ==
  /\ run.focus # on
  /\ IF on /\ run.on /\ run.notify /\ sel = "wl"
     THEN Room /\ Owner("wm") /\ run' = [run EXCEPT !.focus = TRUE, !.notify = FALSE]
     ELSE run' = [run EXCEPT !.focus = on /\ run.on] /\ UNCHANGED <<owner, queue>>
  /\ UNCHANGED <<wlVars, asked, reqs, recv, open>>

\* initialize_xwm()
Connect ==
  /\ ~run.on /\ run' = [run EXCEPT !.on = TRUE]
  /\ UNCHANGED <<wlVars, owner, asked, queue, reqs, recv, open>>
\* reset_server(): xwayland_reset_selections(), and every transfer ends.
Disconnect ==
  /\ run.on /\ run' = [on |-> FALSE, notify |-> FALSE, focus |-> FALSE]
  /\ owner' = "none" /\ asked' = 0 /\ queue' = <<>>
  /\ reqs' = [r \in Requests |-> "none"] /\ recv' = [f \in Fds |-> "none"] /\ open' = {}
  /\ Set(IF src = None THEN Here
         ELSE [Show([Cancel(Here, src) EXCEPT !.sel = IF @ = src THEN None ELSE @]) EXCEPT !.src = None])

Next ==
  \/ \E o \in {"app", "none"} : XOwn(o)
  \/ XTargets \/ OwnerNotify \/ TargetsNotify
  \/ \E r \in Requests : XRequest(r) \/ XAnswered(r) \/ SelectionRequest(r) \/ Sent(r)
  \/ \E s \in {"wl", None} : WlSelect(s)
  \/ \E f \in Fds : Receive(f) \/ ReceiveStep(f)
  \/ \E on \in BOOLEAN : FocusX(on)
  \/ Connect \/ Disconnect

-----------------------------------------------------------------------------
\* The types of the variables.
TypeOK ==
  /\ sel \in SourceIds \cup {"wl", None} /\ src \in SourceIds \cup {None}
  /\ owner \in {"none", "app", "wm"} /\ asked \in Nat /\ Len(queue) <= MaxQueue

\* No offer and no selection refers to a source of the compositor's own that was deleted, in
\* whatever order X events and Wayland requests arrive; without a connection there is none.
NoDanglingSource ==
  /\ offers \cap SourceIds \subseteq {src}
  /\ sel \in SourceIds => sel = src
  /\ src # None => run.on

\* Every request of an X client is answered once or still being answered.
RequestsAnswered ==
  \A r \in Requests :
    /\ reqs[r] \in {"none", "sent", "pending", "answered"}
    /\ reqs[r] = "sent" <=> \E i \in 1..Len(queue) : queue[i] = r

\* A descriptor a Wayland client handed over is open exactly as long as its transfer.
DescriptorsEnd == open = {f \in Fds : recv[f] # "none"}
=============================================================================
