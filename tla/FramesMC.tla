----------------------------- MODULE FramesMC -----------------------------
(***************************************************************************)
(* What is drawn, side by side.  A behaviour is one of `part`: the search  *)
(* for CRTCs on one input, the direct backend, the scene of one of its     *)
(* outputs, the nested backend, or the buffers of one client.              *)
(***************************************************************************)
EXTENDS KmsBackend, Scene, CrtcAssignment

CONSTANTS
  None,
  ClientSurfaces, RoleSurfaces,    \* of the client, and those with the lock role
  ClientBuffers, Pools, Params, Fds,
  MaxSize                          \* bound: size of a pool, in buffers

ASSUME BuffersAssumption ==
  /\ IsFiniteSet(ClientSurfaces) /\ IsFiniteSet(ClientBuffers) /\ MaxSize \in Nat
  /\ None \notin ClientBuffers \cup Pools /\ Params \cap ClientBuffers = {}

VARIABLES part, input, link, nb, win, seat, parent
VARIABLES pool, buffer, params, surface, open, busy, shared, lost, dead, faulted

N == INSTANCE NestedBackend
Buf == INSTANCE Buffers WITH
  Surfaces <- ClientSurfaces, LockSurfaces <- RoleSurfaces, Buffers <- ClientBuffers

kmsVars == vars
nestedState == <<link, nb, win, seat, parent>>
bufferState == <<pool, buffer, params, surface, open, busy, shared, lost, dead, faulted>>
all == <<part, input, kmsVars, sceneVars, nestedState, bufferState>>

MCPossible == [k \in Connectors |-> Crtcs]

\* Three connectors and three CRTCs: which of them fit, what is kept, what is
\* busy and what the encoders drive now.
Inputs ==
  {[possible |-> p, kept |-> [i \in 1 .. 3 |-> IF i = 2 THEN k ELSE Unassigned],
    busy |-> b, current |-> c] :
     p \in [1 .. 3 -> SUBSET (0 .. 2)], k \in {Unassigned, 1}, b \in {{}, {2}},
     c \in {[i \in 1 .. 3 |-> Unassigned], [i \in 1 .. 3 |-> 3 - i]}}

NoInput == [possible |-> <<>>, kept |-> <<>>, busy |-> {}, current |-> <<>>]

MCInit ==
  /\ part \in {"crtc", "kms", "scene", "nested", "buffers"}
  /\ IF part = "crtc" THEN input \in {x \in Inputs : x.kept[2] \in x.possible[2] \cup {Unassigned}}
     ELSE input = NoInput
  /\ IF part = "kms" THEN Init
     ELSE /\ monitor = [k \in Connectors |-> 0] /\ card = FALSE
          /\ udev = <<>> /\ dev = Closed
  /\ IF part = "scene" THEN SceneInit ELSE SceneInit /\ fade = FALSE
  /\ N!NestedInit /\ Buf!Init

MCNext ==
  \/ part \in {"crtc", "buffers"} /\ UNCHANGED all
  \/ part = "kms" /\ Next /\ UNCHANGED <<part, input, sceneVars, nestedState, bufferState>>
  \/ part = "scene" /\ SceneNext /\ UNCHANGED <<part, input, kmsVars, nestedState, bufferState>>
  \/ part = "nested" /\ N!NestedNext /\ UNCHANGED <<part, input, kmsVars, sceneVars, bufferState>>
  \/ part = "buffers" /\ Buf!Next /\ UNCHANGED <<part, input, kmsVars, sceneVars, nestedState>>

MCSpec == /\ MCInit /\ [][MCNext]_all
          /\ \A i \in Objects : WF_all(part = "kms" /\ PageFlipComplete(i)
                                       /\ UNCHANGED <<part, input, sceneVars, nestedState, bufferState>>)
          /\ WF_all(part = "kms" /\ DispatchUdev
                    /\ UNCHANGED <<part, input, sceneVars, nestedState, bufferState>>)

\* Every state of the three backends, and the buffers, have their type.
TypesOK == TypeOK /\ SceneTypeOK /\ N!TypeOK /\ Buf!TypeOK

\* Whatever fits, is kept, busy or driven, the search lights as many
\* connectors as can be lit, and keeps what it has to keep.
SearchIsMaximum ==
  part = "crtc" =>
    IsMaximum(3, input.possible, input.current, input.kept, input.busy)

\* A page-flip event always finds its output, and no two outputs share a CRTC.
OutputsAccounted == FlipsHaveOutputs /\ CrtcsExclusive

\* What has to be drawn is never forgotten, by neither backend: a change no
\* frame has taken up yet is owed, and something that will draw it comes.
ChangesAreDrawn == NothingForgotten /\ N!ChangeIsOwed

\* No item draws an import that has been released and no import is lost, and a
\* window on its way out is drawn until it is gone; nothing stays pressed on a
\* device of the parent that is gone.  A wl_buffer exists exactly while something
\* holds it, its memory and its descriptors go with it, and the client gets every
\* buffer back, not too early (buffers.cpp).
HoldingsAccounted ==
  /\ NoDeadTexture /\ GoneIsOwed /\ N!ImportsAccounted /\ N!DevicesAccounted
  /\ Buf!ReferencesExact /\ Buf!MappingsKept /\ Buf!DescriptorsOwned
  /\ Buf!EveryReleaseComes /\ Buf!NotReleasedWhileShown
===========================================================================
