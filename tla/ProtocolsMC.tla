---------------------------- MODULE ProtocolsMC ----------------------------
(***************************************************************************)
(* Two conversations of the compositor side by side: the bytes and the     *)
(* descriptors of one connection, and the requests to an external layout   *)
(* provider with its answers.  A behaviour is one of `part`.               *)
(***************************************************************************)
EXTENDS WireConnection, FiniteSets

CONSTANTS Windows, None, Tags, Infos, Blank, Areas, Settled, MaxSerial

VARIABLES
  part, win, focus, shown, area, told, provider, slots, serial, pending, silent

Y == INSTANCE LayoutManager

\* What LayoutManager takes for granted of its constants.
ASSUME LayoutAssumption ==
  /\ IsFiniteSet(Windows) /\ None \notin Windows /\ Settled \subseteq Windows
  /\ 1 \in Tags /\ 1 \in Areas /\ Blank \in Infos /\ MaxSerial \in Nat

layoutVars == <<win, focus, shown, area, told, provider, slots, serial, pending, silent>>
allVars == <<part, vars, layoutVars>>
OthersOfWire == UNCHANGED <<part, layoutVars>>
OthersOfLayout == UNCHANGED <<part, vars>>

\* Two bytes to a header, one descriptor to a sendmsg.  MaxMessages = 3 with these
\* sizes: at most 9 bytes, so MaxBuffered = 5 can be exceeded by a read loop that
\* outruns dispatch.
MCShapes == {[size |-> 2, fds |-> 0], [size |-> 2, fds |-> 2], [size |-> 3, fds |-> 1]}

MCInit == part \in {"wire", "layout"} /\ Init /\ Y!Init

MCNext ==
  \/ part = "wire" /\ Next /\ OthersOfWire
  \/ part = "layout" /\ Y!Next /\ OthersOfLayout

\* The fairness of each part: both ends keep dispatching (see Fairness), and the
\* event loop runs its idles.
OnWire(A) == part = "wire" /\ A /\ OthersOfWire
MCSpec ==
  /\ MCInit /\ [][MCNext]_allVars
  /\ WF_vars(OnWire(WritableFlush))
  /\ WF_vars(OnWire(SendBatch \/ FlushEnd))
  /\ WF_allVars(OnWire(PollIn) \/ (part = "layout" /\ Y!Relayout /\ OthersOfLayout))
  /\ WF_vars(OnWire(Receive \/ ReceiveNothing))
  /\ WF_vars(OnWire(Dispatch \/ DispatchEnd))

\* At rest the provider's newest request says what there is, and a batch that is
\* accepted is for it and places every window of it
\* (compositor_server_layout_manager.cpp).
LayoutsCurrent == [](Y!TypeOK /\ Y!NewestIsCurrent) /\ Y!AcceptedIsWhole

\* Once nothing else happens, the compositor stops configuring again: the exchange
\* with the provider comes to rest.
LayoutSettles == Y!LayoutSettles
=============================================================================
