-------------------------- MODULE CrtcAssignment --------------------------
(***************************************************************************)
(* The choice of a CRTC for every usable connector when a DRM card is      *)
(* scanned.  First what a choice has to be, whatever search finds it: one  *)
(* CRTC per connector, one connector per CRTC, what is kept stays, and as  *)
(* many connectors as possible get one.  Then the search: assignments that *)
(* are still valid are kept and locked; the other connectors are matched   *)
(* along augmenting paths, in the order of their names, each trying the    *)
(* CRTC its encoder drives now first.                                      *)
(***************************************************************************)
EXTENDS Integers, FiniteSets, SequencesExt

Unassigned == -1

\* possible and kept are functions of the connectors; a busy CRTC may only
\* stay where it is kept.
Assignments(crtcs, possible, kept, busy) ==
  {m \in [DOMAIN possible -> crtcs \cup {Unassigned}] :
     /\ \A i \in DOMAIN m :
          /\ kept[i] # Unassigned => m[i] = kept[i]
          /\ m[i] # Unassigned => m[i] \in possible[i]
          /\ kept[i] = Unassigned => m[i] \notin busy
     /\ \A i, j \in DOMAIN m : i # j /\ m[i] # Unassigned => m[i] # m[j]}

Lit(m) == Cardinality({i \in DOMAIN m : m[i] # Unassigned})

Maximum(crtcs, possible, kept, busy) ==
  LET all == Assignments(crtcs, possible, kept, busy)
  IN  {m \in all : \A o \in all : Lit(o) <= Lit(m)}

---------------------------------------------------------------------------
\* The order in which a connector tries the CRTCs 0 .. n-1.
Order(n, current) ==
  LET others == SetToSortSeq(0 .. n - 1 \ {current}, <)
  IN  IF current \in 0 .. n - 1 THEN <<current>> \o others ELSE others

(***************************************************************************)
(* assign_crtc(i, visited): a search from connector i.  A state of the     *)
(* search is the owner of each CRTC, the CRTCs visited and whether the     *)
(* search has succeeded.  `possible` gives the CRTCs of each connector.    *)
(***************************************************************************)
Searches(n, k) ==
  [owner : [0 .. n - 1 -> 1 .. k \cup {Unassigned}], visited : SUBSET (0 .. n - 1), found : BOOLEAN]

Augment(n, possible, locked, current) ==
  LET assign[i \in DOMAIN possible, search \in Searches(n, Len(possible))] ==
        LET try(s, c) ==
              IF s.found \/ c \notin possible[i] \/ c \in s.visited \/ c \in locked
              THEN s
              ELSE LET seen == [s EXCEPT !.visited = @ \cup {c}]
                       deeper == IF s.owner[c] = Unassigned THEN [seen EXCEPT !.found = TRUE]
                                 ELSE assign[s.owner[c], seen]
                   IN  IF deeper.found THEN [deeper EXCEPT !.owner[c] = i] ELSE deeper
        IN  FoldLeft(try, search, Order(n, current[i]))
  IN  assign

\* mutant: a search may take what is kept
MatchedUnlocked(n, possible, current, kept, busy) ==
  LET start == [c \in 0 .. n - 1 |->
                  IF \E i \in DOMAIN kept : kept[i] = c
                  THEN CHOOSE i \in DOMAIN kept : kept[i] = c ELSE Unassigned]
      search(owner, i) ==
        IF kept[i] # Unassigned THEN owner
        ELSE Augment(n, possible, busy, current)
               [i, [owner |-> owner, visited |-> {}, found |-> FALSE]].owner
  IN  FoldLeft(search, start, [i \in DOMAIN possible |-> i])

(***************************************************************************)
(* The owners after every connector without a kept CRTC had its search,    *)
(* connector 1 first.  kept[i] is the CRTC a rescan keeps, or Unassigned.  *)
(***************************************************************************)
Matched(n, possible, current, kept, busy) ==
  LET locked == busy \cup {kept[i] : i \in DOMAIN kept}
      start == [c \in 0 .. n - 1 |->
                  IF \E i \in DOMAIN kept : kept[i] = c
                  THEN CHOOSE i \in DOMAIN kept : kept[i] = c ELSE Unassigned]
      search(owner, i) ==
        IF kept[i] # Unassigned THEN owner
        ELSE Augment(n, possible, locked, current)
               [i, [owner |-> owner, visited |-> {}, found |-> FALSE]].owner
  IN  FoldLeft(search, start, [i \in DOMAIN possible |-> i])

CrtcOf(owner, i) ==
  IF \E c \in DOMAIN owner : owner[c] = i
  THEN CHOOSE c \in DOMAIN owner : owner[c] = i ELSE Unassigned

---------------------------------------------------------------------------
\* As many connectors get a CRTC as any assignment gives one, and the
\* assignment is one of the valid ones.
IsMaximum(n, possible, current, kept, busy) ==
  LET owner == Matched(n, possible, current, kept, busy)
      got == [i \in DOMAIN possible |-> CrtcOf(owner, i)]
  IN  got \in Maximum(0 .. n - 1, possible, kept, busy)
===========================================================================
