------------------------------- MODULE Regions -------------------------------
(***************************************************************************)
(* wl_region objects as lists of rectangles, and what they are for here:   *)
(* the input region of a surface and the region that confines the pointer  *)
(* to it (compositor_server.cpp 2263-2286, 2140-2190;                      *)
(* compositor_server_input.cpp 337-466).                                   *)
(*                                                                         *)
(* One surface that has the pointer, and one persistent confinement; when  *)
(* constraints come and go with the focus is in Pointer.  The pointer is   *)
(* followed in the coordinates of the surface.                             *)
(***************************************************************************)
EXTENDS Integers, FiniteSets, Sequences, SequencesExt, FiniteSetsExt

CONSTANTS
  Rects,      \* rectangles that requests name
  Sizes,      \* sizes of the surface's buffer, <<width, height>>
  Inputs,     \* input regions the client sets, as rectangles
  Places,     \* where the user may put the pointer
  MaxRects    \* bound: rectangles of the region

VARIABLES
  rects,   \* RegionState::rects of the one region
  points,  \* history: the points added to it and not subtracted since
  input,   \* input region of the surface
  surf,    \* current_buffer: its size, or <<>>
  area,    \* region of the constraint, and the one pending
  pending,
  at       \* x, y of the constraint while it is active, or <<>>

regionVars == <<rects, points, input, surf, area, pending, at>>

Rect(x, y, w, h) == [x |-> x, y |-> y, w |-> w, h |-> h]
Cells(r) == {<<x, y>> \in (r.x .. r.x + r.w - 1) \X (r.y .. r.y + r.h - 1) : TRUE}
Covered(rs) == UNION {Cells(rs[i]) : i \in DOMAIN rs}

Least(a, b) == IF a < b THEN a ELSE b
Most(a, b) == IF a > b THEN a ELSE b
Clamped(v, low, high) == Least(Most(v, low), high)

-----------------------------------------------------------------------------
(* wl_region                                                               *)

RestRows(r, cut) ==    \* mutant: only rectangles without rows are dropped
  LET left == Most(r.x, cut.x)  top == Most(r.y, cut.y)
      right == Least(r.x + r.w, cut.x + cut.w)  bottom == Least(r.y + r.h, cut.y + cut.h)
  IN  IF left >= right \/ top >= bottom THEN <<r>>
      ELSE SelectSeq(<<Rect(r.x, r.y, r.w, top - r.y),
                       Rect(r.x, bottom, r.w, r.y + r.h - bottom),
                       Rect(r.x, top, left - r.x, bottom - top),
                       Rect(right, top, r.x + r.w - right, bottom - top)>>,
                     LAMBDA q : q.h > 0)

\* What is left of one rectangle: above, below, left and right of the cut.
Rest(r, cut) ==
  LET left == Most(r.x, cut.x)  top == Most(r.y, cut.y)
      right == Least(r.x + r.w, cut.x + cut.w)  bottom == Least(r.y + r.h, cut.y + cut.h)
  IN  IF left >= right \/ top >= bottom THEN <<r>>
      ELSE SelectSeq(<<Rect(r.x, r.y, r.w, top - r.y),
                       Rect(r.x, bottom, r.w, r.y + r.h - bottom),
                       Rect(r.x, top, left - r.x, bottom - top),
                       Rect(right, top, r.x + r.w - right, bottom - top)>>,
                     LAMBDA q : q.w > 0 /\ q.h > 0)

\* region_subtract()
Without(rs, cut) == FlattenSeq([i \in DOMAIN rs |-> Rest(rs[i], cut)])

Add(r) ==
  /\ Len(rects) < MaxRects
  /\ rects' = Append(rects, r) /\ points' = points \cup Cells(r)
  /\ UNCHANGED <<input, surf, area, pending, at>>

Subtract(r) ==
  /\ Len(Without(rects, r)) <= MaxRects
  /\ rects' = Without(rects, r) /\ points' = points \ Cells(r)
  /\ UNCHANGED <<input, surf, area, pending, at>>

-----------------------------------------------------------------------------
(* The confinement                                                         *)

\* The common part of two rectangles, where there is one.
Meets(a, b) ==
  LET x == Most(a.x, b.x)  y == Most(a.y, b.y)
      w == Least(a.x + a.w, b.x + b.w) - x  h == Least(a.y + a.h, b.y + b.h) - y
  IN  IF w > 0 /\ h > 0 THEN <<Rect(x, y, w, h)>> ELSE <<>>

\* constraint_rects(): in the order of the input region.
Allowed(in, size, a) ==
  LET base == IF size = <<>> THEN <<>>
              ELSE IF in.all THEN <<Rect(0, 0, size[1], size[2])>> ELSE in.rects
  IN  IF a.all THEN base
      ELSE FlattenSeq([i \in DOMAIN base |->
             FlattenSeq([j \in DOMAIN a.rects |-> Meets(base[i], a.rects[j])])])

Into(r, p) == <<Clamped(p[1], r.x, r.x + r.w - 1), Clamped(p[2], r.y, r.y + r.h - 1)>>
Distance(p, q) == (p[1] - q[1]) * (p[1] - q[1]) + (p[2] - q[2]) * (p[2] - q[2])

\* clamp_to_rects(): the nearest point of the first rectangle that has one.
Nearest(rs, p) ==
  IF p \in Covered(rs) THEN p
  ELSE LET best == Min({Distance(p, Into(rs[i], p)) : i \in DOMAIN rs})
           first == Min({i \in DOMAIN rs : Distance(p, Into(rs[i], p)) = best})
       IN  Into(rs[first], p)

\* confine_to_rects(): anywhere in a rectangle that holds the old place, else to
\* the edge of the first one that does, else to the nearest place there is.
Confined(rs, old, p) ==
  LET holding == {i \in DOMAIN rs : old \in Cells(rs[i])}
  IN  CASE \E i \in holding : p \in Cells(rs[i]) -> p
        [] holding = {} -> Nearest(rs, p)
        [] OTHER -> Into(rs[Min(holding)], p)

Region == [all |-> FALSE, rects |-> rects, points |-> points]
Shape(in) == [all |-> FALSE, rects |-> in, points |-> Covered(in)]
Whole == [all |-> TRUE, rects |-> <<>>, points |-> {}]

\* update_pointer_constraints() for a pointer that the surface has: it becomes
\* active at the nearest place, or stays at where the new rectangles leave it.
Updated(rs, p) ==
  at' = IF rs = <<>> THEN <<>> ELSE IF at = <<>> THEN Nearest(rs, p) ELSE Confined(rs, at, at)

\* The constraint is there from the start; a pointer that enters the surface.
Enter(p) ==
  /\ at = <<>> /\ surf # <<>>
  /\ Updated(Allowed(input, surf, area), p)
  /\ UNCHANGED <<rects, points, input, surf, area, pending>>

\* route_pointer_motion()
Motion(p) ==
  /\ at # <<>>
  /\ LET rs == Allowed(input, surf, area)
     IN  at' = IF rs = <<>> THEN <<>> ELSE Confined(rs, at, p)
  /\ UNCHANGED <<rects, points, input, surf, area, pending>>

\* constraint_set_region(): a copy of the region as it is, or the whole surface.
SetRegion(whole) ==
  /\ pending' = IF whole THEN Whole ELSE Region
  /\ UNCHANGED <<rects, points, input, surf, area, at>>

\* surface_commit() with a buffer or none, and with the input region that was
\* set before it, while the pointer of an inactive confinement is at p or not
\* here: one with nothing left ends, and any other is brought into what is left.
Commit(size, in, p) ==
  /\ surf' = size /\ input' = in /\ area' = pending
  /\ LET rs == Allowed(in, size, pending)
     IN  IF at = <<>> /\ p = <<>> THEN at' = <<>> ELSE Updated(rs, p)
  /\ UNCHANGED <<rects, points, pending>>

-----------------------------------------------------------------------------
Init ==
  /\ rects = <<>> /\ points = {} /\ input = Whole /\ surf = <<>>
  /\ area = Whole /\ pending = Whole /\ at = <<>>

Next ==
  \/ \E r \in Rects : Add(r) \/ Subtract(r)
  \/ \E p \in Places : Enter(p) \/ Motion(p)
  \/ \E whole \in BOOLEAN : SetRegion(whole)
  \/ \E size \in Sizes \cup {<<>>}, p \in Places \cup {<<>>} :
       Commit(size, Whole, p) \/ \E in \in Inputs : Commit(size, Shape(in), p)

-----------------------------------------------------------------------------
TypeOK ==
  /\ \A i \in DOMAIN rects : rects[i].w > 0 /\ rects[i].h > 0
  /\ surf \in Sizes \cup {<<>>} /\ Len(at) \in {0, 2}

\* The rectangles of a region cover exactly the points that were added and not
\* subtracted since, whatever the order (region_subtract() 2263-2279).
RegionExact == Covered(rects) = points

\* An active confinement keeps the pointer on a point of the surface's input
\* region and of its own region, after any motion and any commit of either.
Points(a, size) == IF a.all THEN Cells(Rect(0, 0, size[1], size[2])) ELSE a.points
PointerConfined ==
  at # <<>> => /\ surf # <<>> /\ at \in Points(input, surf)
               /\ area.all \/ at \in area.points

\* A motion between two places of one rectangle is taken as it is, and any other
\* never takes the pointer further from where the user moves it.
MotionsFollowed ==
  at # <<>> =>
    \E rs \in {Allowed(input, surf, area)} : \A p \in Places :
      \E q \in {Confined(rs, at, p)} :
        /\ (\E i \in DOMAIN rs : {at, p} \subseteq Cells(rs[i])) => q = p
        /\ Distance(q, p) <= Distance(at, p)
=============================================================================
