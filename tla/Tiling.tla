-------------------------------- MODULE Tiling --------------------------------
(***************************************************************************)
(* The built-in layouts of one output's active tag: master-stack             *)
(* (layout/master_stack.cpp) and the persistent tree of focus-fibonacci       *)
(* (layout/focus_fibonacci.cpp), as root_placements() uses them.             *)
(*                                                                         *)
(* Weights are counted in tenths and divided exactly, where the code rounds   *)
(* binary fractions; coordinates are small, so the checks of their width      *)
(* are left out.                                                             *)
(***************************************************************************)
EXTENDS Integers, Sequences, FiniteSets, SequencesExt, TLC

CONSTANTS
  Order,     \* the windows as they were created: CompositorServer::surfaces
  Layouts,   \* what a configuration may say: [kind, masters, ratio, outer, inner, smart]
  Areas,     \* what is left of the output: [x, y, w, h]
  None

Windows == {Order[i] : i \in 1 .. Len(Order)}

VARIABLES
  shown,    \* windows that are tiled, mapped and on the active tag
  focused,  \* SeatState::toplevel_focus
  leaves,   \* OutputState::fibonacci_leaves of the tag: a sequence of [id, path]
  weights,  \* OutputState::tile_weights
  layout,   \* RuntimeConfig::layout
  area

tilingVars == <<shown, focused, leaves, weights, layout, area>>

Init ==
  /\ shown = {} /\ focused = None /\ leaves = <<>> /\ weights = [w \in Windows |-> 10]
  /\ layout \in Layouts /\ area \in Areas

Roots(ws) == SelectSeq(Order, LAMBDA w : w \in ws)

-----------------------------------------------------------------------------
(* focus-fibonacci: the tree of splits, a leaf's path from the root, FALSE for *)
(* the first half and TRUE for the second.                                    *)

Within(path, prefix) == Len(path) >= Len(prefix) /\ SubSeq(path, 1, Len(prefix)) = prefix

\* The split at `depth` on the way to the i-th leaf has lost one of its halves.
Loose(ls, i, depth) ==
  LET parent == SubSeq(ls[i].path, 1, depth - 1)
  IN ~\E j \in 1 .. Len(ls) : Within(ls[j].path, Append(parent, ~ls[i].path[depth]))

\* A split with one half is taken out: of the first leaf that has one, the deepest.
CollapsedOnce(ls) ==
  LET loose == {i \in 1 .. Len(ls) : \E d \in 1 .. Len(ls[i].path) : Loose(ls, i, d)}
      i == CHOOSE k \in loose : \A m \in loose : k <= m
      ds == {d \in 1 .. Len(ls[i].path) : Loose(ls, i, d)}
      depth == CHOOSE d \in ds : \A e \in ds : d >= e
      parent == SubSeq(ls[i].path, 1, depth - 1)
  IN IF loose = {} THEN ls
     ELSE [j \in 1 .. Len(ls) |->
             IF Len(ls[j].path) >= depth /\ Within(ls[j].path, parent)
               THEN [ls[j] EXCEPT !.path = RemoveAt(@, depth)] ELSE ls[j]]
\* Until there is none; each time a path gets shorter.
Collapsed(ls) ==
  LET after[n \in Nat] == IF n = 0 THEN ls ELSE CollapsedOnce(after[n - 1])
  IN after[FoldLeft(LAMBDA sum, leaf : sum + Len(leaf.path), 0, ls)]

\* A window takes the second half of the focused leaf, or of the newest.
Grown(ls, w, focus) ==
  IF ls = <<>> THEN <<[id |-> w, path |-> <<>>]>>
  ELSE LET at == {i \in 1 .. Len(ls) : ls[i].id = focus}
           i == IF at = {} THEN Len(ls) ELSE CHOOSE k \in at : TRUE
       IN Append([ls EXCEPT ![i].path = Append(@, FALSE)], [id |-> w, path |-> Append(ls[i].path, TRUE)])

KeptUncollapsed(ls, roots) ==    \* mutant: the sibling branches of what went are not collapsed
  SelectSeq(ls, LAMBDA l : \E i \in 1 .. Len(roots) : roots[i] = l.id)
\* reconcile_fibonacci_leaves().
Kept(ls, roots) == Collapsed(SelectSeq(ls, LAMBDA l : \E i \in 1 .. Len(roots) : roots[i] = l.id))
Reconciled(ls, roots, focus) ==
  FoldLeft(LAMBDA acc, w : IF \E i \in 1 .. Len(acc) : acc[i].id = w THEN acc ELSE Grown(acc, w, focus),
           Kept(ls, roots), roots)

Least(a, b) == IF a < b THEN a ELSE b
Most(a, b) == IF a > b THEN a ELSE b

\* Half of a box along one axis.
Half(at, size, second, inner) ==
  LET gap == Least(inner, Most(0, size - 2))
      first == (size - gap) \div 2
  IN IF second THEN <<at + first + gap, size - first - gap>> ELSE <<at, first>>

\* arrange_focus_fibonacci(), of a leaf: its box, which may have no room left.
Box(path, outer, inner) ==
  LET box[d \in 0 .. Len(path)] ==
        IF d = 0
          THEN [x |-> area.x + outer, y |-> area.y + outer,
                w |-> Most(1, area.w - 2 * outer), h |-> Most(1, area.h - 2 * outer)]
          ELSE LET b == box[d - 1]
               IN IF d % 2 = 1
                    THEN LET half == Half(b.x, b.w, path[d], inner) IN [b EXCEPT !.x = half[1], !.w = half[2]]
                    ELSE LET half == Half(b.y, b.h, path[d], inner) IN [b EXCEPT !.y = half[1], !.h = half[2]]
  IN box[Len(path)]

-----------------------------------------------------------------------------
(* master-stack                                                            *)

\* tile_vertically(): the heights of `ws`, each by its weight of what is left.
Column(ws, x, y, w, h, inner) ==
  LET n == Len(ws)
      gap == IF n = 1 THEN 0 ELSE Least(inner, (h - n) \div (n - 1))
      weight == [i \in 1 .. n |-> Most(1, weights[ws[i]])]
      later[i \in 1 .. n] == weight[i] + (IF i = n THEN 0 ELSE later[i + 1])
      share(rest, i) == IF i = n THEN rest
                        ELSE Least(Most((rest * weight[i]) \div later[i], 1), rest - (n - i))
      rest[i \in 1 .. n] == IF i = 1 THEN h - gap * (n - 1) ELSE rest[i - 1] - share(rest[i - 1], i - 1)
  IN IF w = 0 \/ h < n THEN <<>>
     ELSE [i \in 1 .. n |-> [id |-> ws[i], x |-> x, w |-> w, h |-> share(rest[i], i),
                             y |-> y + (h - gap * (n - 1) - rest[i]) + gap * (i - 1)]]

\* MasterStack::arrange(): all windows in one column or in two, or none of them
\* when there is no room.
MasterStack(ws, outer) ==
  LET n == Len(ws)
      fits == area.w > 0 /\ area.h > 0 /\ outer <= (area.w - 1) \div 2 /\ outer <= (area.h - 1) \div 2
      x == area.x + outer   y == area.y + outer   w == area.w - 2 * outer   h == area.h - 2 * outer
      gap == Least(layout.inner, w - 2)
      left == Least(Most(((w - gap) * layout.ratio) \div 100, 1), w - gap - 1)
      masters == Column(SubSeq(ws, 1, layout.masters), x, y, left, h, layout.inner)
      stack == Column(SubSeq(ws, layout.masters + 1, n), x + left + gap, y, w - gap - left, h, layout.inner)
  IN CASE n = 0 \/ ~fits -> <<>>
       [] n <= layout.masters -> Column(ws, x, y, w, h, layout.inner)
       [] w < 2 -> <<>>
       [] OTHER -> IF masters = <<>> \/ stack = <<>> THEN <<>> ELSE masters \o stack

-----------------------------------------------------------------------------
(* Layout passes                                                           *)

\* configure_layout(), root_placements(): the windows that are shown, and the
\* candidate wherever it is.  Only focus-fibonacci keeps something.
Pass(kind, ws, focus) ==
  leaves' = IF kind = "fibonacci" THEN Reconciled(leaves, Roots(ws), focus) ELSE leaves

Candidate(w) == Pass(layout.kind, shown \cup {w}, focused) /\ UNCHANGED <<shown, focused, weights, layout, area>>

\* A window is mapped, comes back to the tag or is not floating any more; it
\* may have taken the focus before.
Show(w) ==
  /\ w \notin shown /\ shown' = shown \cup {w} /\ Pass(layout.kind, shown', focused)
  /\ UNCHANGED <<focused, weights, layout, area>>
\* Windows go: one, or all with the tag, which another pass of the tag's own
\* tree finds when it is active again.
Hide(ws) ==
  /\ ws # {} /\ ws \subseteq shown /\ shown' = shown \ ws
  /\ focused' = IF focused \in ws THEN None ELSE focused
  /\ Pass(layout.kind, shown', focused') /\ UNCHANGED <<weights, layout, area>>
Focus(w) == w # focused /\ focused' = w /\ UNCHANGED <<shown, leaves, weights, layout, area>>

\* The configuration is read again, the output changes.
Reload(l) ==
  /\ l # layout /\ layout' = l /\ Pass(l.kind, shown, focused) /\ UNCHANGED <<shown, focused, weights, area>>
Resize(a) ==
  /\ a # area /\ area' = a /\ Pass(layout.kind, shown, focused) /\ UNCHANGED <<shown, focused, weights, layout>>

\* notify_pointer_motion(): a drag of the border between two tiles of a column
\* moves weight from one to the other and leaves each a tenth.  Bound: one border
\* is dragged.
DragBorder(v, w) ==
  /\ layout.kind = "master" /\ \A u \in Windows : weights[u] = 10
  /\ \E i \in 1 .. Cardinality(shown) - 1 :
       i # layout.masters /\ v = Roots(shown)[i] /\ w = Roots(shown)[i + 1]
  /\ \E moved \in {1 - weights[v], weights[w] - 1} :
       weights' = [weights EXCEPT ![v] = @ + moved, ![w] = @ - moved]
  /\ Pass(layout.kind, shown, focused) /\ UNCHANGED <<shown, focused, layout, area>>

Next ==
  \/ \E w \in Windows : Candidate(w) \/ Show(w) \/ \E v \in Windows : DragBorder(v, w)
  \/ \E ws \in SUBSET Windows : Hide(ws)
  \/ \E w \in Windows \cup {None} : Focus(w)
  \/ \E l \in Layouts : Reload(l)
  \/ \E a \in Areas : Resize(a)

Spec == Init /\ [][Next]_tilingVars

-----------------------------------------------------------------------------
\* The state has its type.
TypeOK ==
  /\ shown \subseteq Windows /\ focused \in Windows \cup {None} /\ layout \in Layouts /\ area \in Areas
  /\ \A i \in 1 .. Len(leaves) : leaves[i].id \in Windows /\ leaves[i].path \in Seq(BOOLEAN)
  /\ weights \in [Windows -> Nat \ {0}]

\* The leaves are those of a tree in which every split has both halves, one for
\* each window that is shown (and for a candidate): "closing or floating a window
\* collapses its sibling branch" (CONFIG.md 406), however many go at once.
LeavesWhole ==
  /\ \A i, j \in 1 .. Len(leaves) : i # j => leaves[i].id # leaves[j].id /\ ~Within(leaves[i].path, leaves[j].path)
  /\ \A i \in 1 .. Len(leaves) : \A d \in 1 .. Len(leaves[i].path) : ~Loose(leaves, i, d)
  /\ layout.kind = "fibonacci" => shown \subseteq {leaves[i].id : i \in 1 .. Len(leaves)}

Apart(a, b) == a.x + a.w <= b.x \/ b.x + b.w <= a.x \/ a.y + a.h <= b.y \/ b.y + b.h <= a.y
Outer(n) == IF layout.smart /\ n = 1 THEN 0 ELSE layout.outer
Placed ==
  IF layout.kind = "master" THEN MasterStack(Roots(shown), Outer(Cardinality(shown)))
  ELSE [i \in 1 .. Len(leaves) |-> [id |-> leaves[i].id] @@ Box(leaves[i].path, Outer(Len(leaves)), layout.inner)]
\* Tiles have a size, do not overlap and stay in the area, as long as there is
\* room for the tree's halves; the master stack has room or places nothing.
TilesApart ==
  LET placed == Placed
      room == \A i \in 1 .. Len(placed) : placed[i].w > 0 /\ placed[i].h > 0
      outer == Outer(Len(placed))
  IN /\ layout.kind = "master" => room /\ (placed = <<>> \/ Len(placed) = Cardinality(shown))
     /\ room =>
          /\ \A i, j \in 1 .. Len(placed) : i < j => Apart(placed[i], placed[j])
          /\ \A i \in 1 .. Len(placed) :
               LET t == placed[i]
               IN /\ t.x >= area.x + outer /\ t.y >= area.y + outer
                  /\ t.x + t.w <= area.x + Most(outer + 1, area.w - outer)
                  /\ t.y + t.h <= area.y + Most(outer + 1, area.h - outer)

PathOf(ls, w) == (CHOOSE l \in {ls[i] : i \in 1 .. Len(ls)} : l.id = w).path
Ids(ls) == {ls[i].id : i \in 1 .. Len(ls)}
\* When one window goes the tiles outside its sibling branch stay as they are, and
\* when one comes only the tile that it divides changes (CONFIG.md 401-407).
OthersStayed ==
  \A w \in Windows :
    /\ Ids(leaves) \ Ids(leaves') = {w} /\ Ids(leaves') \subseteq Ids(leaves) =>
         \A v \in Ids(leaves') : ~Within(PathOf(leaves, v), Front(PathOf(leaves, w))) =>
           PathOf(leaves', v) = PathOf(leaves, v)
    /\ Ids(leaves') \ Ids(leaves) = {w} /\ Ids(leaves) \subseteq Ids(leaves') =>
         \A v \in Ids(leaves) : PathOf(leaves', v) # PathOf(leaves, v) =>
           v = focused' \/ focused' \notin Ids(leaves)
OthersStay == [][OthersStayed]_tilingVars
=============================================================================
