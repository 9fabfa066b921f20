------------------------------ MODULE Floating ------------------------------
(***************************************************************************)
(* The rectangle of a floating window, one dimension of it at a time: what *)
(* moves, resizes, size hints, rules and the work area do to it            *)
(* (compositor_server.cpp 461-487, 517-525, 1083-1135, 2396-2402,          *)
(* 2470-2490, 4360-4386, 4426-4450).                                       *)
(*                                                                         *)
(* One window, of an application or of an X client.  Both dimensions go    *)
(* through the same steps and never mix, so that one is followed here: a   *)
(* position, a length, and the near and the far edge.  Windows on an       *)
(* endless canvas, tiled ones and fullscreen ones are left out.            *)
(***************************************************************************)
EXTENDS Integers

CONSTANTS
  Works,      \* work areas of the output, [pos, len]
  Hints,      \* size hints, [min, max]; a max of 0 is none
  Natural,    \* the length the content has by itself
  Ruled,      \* the lengths that window rules give, 0 for a rule without one
  Pointers,   \* where the pointer goes
  Border,     \* the width of the border
  None

VARIABLES
  kind,     \* "xdg" or "x11"
  win,      \* floating, floating_bounds, last_floating_bounds, size hints
  work,     \* output_work()
  pointer,
  drag,     \* the move or resize, or None
  thin      \* history: the window, or the rectangle it returns to, became narrower
            \* than its borders, and it has had no length its hints allow since

floatingVars == <<kind, win, work, pointer, drag, thin>>

Span(p, n) == [pos |-> p, len |-> n]
Unset == Span(0, 0)
Least(a, b) == IF a < b THEN a ELSE b
Most(a, b) == IF a > b THEN a ELSE b
Clamped(v, low, high) == Least(Most(v, low), high)
End(b) == b.pos + b.len

\* clamp_window()
Clamp(b, area) ==
  LET n == Clamped(b.len, 1, Most(1, area.len)) IN Span(Clamped(b.pos, area.pos, End(area) - n), n)

\* position_window()
Position(b, area) ==
  Span(IF b.len > area.len THEN area.pos ELSE Clamped(b.pos, area.pos, End(area) - b.len), b.len)

\* RuntimeConfig::content_bounds()
Content(n) == Most(1, n - 2 * Border)

\* constrain_xdg_window()
Constrain(b, hints) ==
  LET n == Most(1, b.len)
      most == IF hints.max > 0 THEN Least(Content(n), hints.max) ELSE Content(n)
  IN  Span(b.pos, n + Most(Most(1, most), hints.min) - Content(n))

\* The hints of an X client are about its window.
Bounded(n, hints) ==
  LET low == Most(1, hints.min)
  IN  Clamped(n, low, Most(low, IF hints.max > 0 THEN hints.max ELSE 32768))

-----------------------------------------------------------------------------
(* configure_layout() for a floating window: a first rectangle in the      *)
(* middle, or the one it has brought back into the work area.              *)

Centred(area, n) == Span(area.pos + (area.len - n) \div 2, n)

Configured(w, area) ==
  LET b == IF w.b.len <= 0 THEN Centred(area, Natural) ELSE w.b
      fit == IF kind = "xdg" THEN Position(Constrain(Clamp(b, area), w.hints), area) ELSE Clamp(b, area)
  IN  IF ~w.floating THEN w
      ELSE [w EXCEPT !.b = fit, !.last = IF kind = "xdg" THEN fit ELSE @]

\* set_floating() of an application's window; an X window that is tiled keeps
\* its rectangle.
SetFloating(w, floating) ==
  IF w.floating = floating THEN w
  ELSE IF kind = "x11" THEN [w EXCEPT !.floating = floating]
  ELSE [w EXCEPT !.floating = floating,
                 !.b = IF floating /\ w.last.len > 0 THEN w.last ELSE @,
                 !.last = IF floating THEN @ ELSE w.b]

Toggle ==
  /\ win' = Configured(SetFloating(win, ~win.floating), work)
  /\ UNCHANGED <<kind, work, pointer, drag>>

\* apply_window_rules() at the map, or when a configuration is loaded: rules may name a
\* size (0 is none) and whether the window floats.
ApplyRule(n, floating) ==
  /\ kind = "xdg"
  /\ LET b == IF n = 0 THEN win.b ELSE Clamp(Centred(work, n), work)
     IN  win' = Configured([win EXCEPT !.b = b, !.floating = floating], work)
  /\ UNCHANGED <<kind, work, pointer, drag>>

\* A commit with other size hints; those of an X client configure nothing.
CommitHints(h) ==
  /\ win.hints # h
  /\ \E w \in {[win EXCEPT !.hints = h]} : win' = IF kind = "xdg" THEN Configured(w, work) ELSE w
  /\ UNCHANGED <<kind, work, pointer, drag>>

\* Layer surfaces reserve other space, or the output gets another size.
ChangeWork(area) ==
  /\ area # work
  /\ work' = area /\ win' = Configured(win, area)
  /\ UNCHANGED <<kind, pointer, drag>>

\* begin_interactive(): a move, or a resize by one edge; the window floats, and may be
\* tiled again before the end.
Begin(edge) ==
  /\ drag = None /\ kind = "x11" => win.floating
  /\ win' = Configured(SetFloating(win, TRUE), work)
  /\ drag' = [edge |-> edge, start |-> win'.b, from |-> pointer]
  /\ UNCHANGED <<kind, work, pointer>>

Finish == drag # None /\ drag' = None /\ UNCHANGED <<kind, win, work, pointer>>

\* What the pointer asks for.
Wanted(p) ==
  LET d == p - drag.from
      b == drag.start
  IN  CASE drag.edge = "none" -> Span(b.pos + d, b.len)
        [] drag.edge = "near" -> Span(b.pos + d, b.len - d)
        [] OTHER -> Span(b.pos, b.len + d)

\* A resize by the near edge leaves the far one where it was at the start.
Anchored(b) == IF drag.edge = "near" THEN Span(End(drag.start) - b.len, b.len) ELSE b

\* The motion of an application's window, also of one that is tiled by now.
DragXdg(p) ==
  LET asked == IF drag.edge = "none" THEN Wanted(p) ELSE Anchored(Constrain(Wanted(p), win.hints))
      fit == Anchored(Constrain(Clamp(asked, work), win.hints))
      b == Position(fit, work)
  IN  [win EXCEPT !.b = b, !.last = b]

\* The motion of an X client's window.
DragX11(p) ==
  LET n == IF drag.edge = "none" THEN drag.start.len ELSE Bounded(Wanted(p).len, win.hints)
      pos == IF drag.edge = "none" THEN Wanted(p).pos ELSE drag.start.pos
  IN  [win EXCEPT !.b = Position(Anchored(Clamp(Span(pos, n), work)), work)]

MovePointer(p) ==
  /\ pointer' = p
  /\ win' = IF drag = None \/ (kind = "x11" /\ ~win.floating) THEN win
            ELSE Configured(IF kind = "xdg" THEN DragXdg(p) ELSE DragX11(p), work)
  /\ UNCHANGED <<kind, work, drag>>

-----------------------------------------------------------------------------
Init ==
  /\ kind \in {"xdg", "x11"} /\ work \in Works /\ pointer \in Pointers /\ drag = None
  /\ thin = FALSE
  /\ \E h \in Hints : win = [floating |-> FALSE, b |-> Unset, last |-> Unset, hints |-> h]

Keeps(w) ==
  /\ Content(w.b.len) >= w.hints.min
  /\ w.hints.max >= Most(1, w.hints.min) => Content(w.b.len) <= w.hints.max

Next ==
  /\ \/ Toggle \/ Finish
     \/ \E n \in Ruled, floating \in BOOLEAN : ApplyRule(n, floating)
     \/ \E h \in Hints : CommitHints(h)
     \/ \E area \in Works : ChangeWork(area)
     \/ \E edge \in {"none", "near", "far"} : Begin(edge)
     \/ \E p \in Pointers : MovePointer(p)
  /\ thin' = ({win'.b.len, win'.last.len} \cap 1 .. 2 * Border # {} \/ (thin /\ ~Keeps(win')))

-----------------------------------------------------------------------------
TypeOK ==
  /\ win.floating \in BOOLEAN /\ win.hints \in Hints /\ work \in Works /\ pointer \in Pointers
  /\ win.floating => win.b.len > 0
  /\ drag # None => drag.edge \in {"none", "near", "far"}

\* A floating window is in the work area, or starts where it starts if it is
\* larger; the content of an application's window keeps to its size hints.
WindowPlaced ==
  win.floating =>
    /\ win.b.pos >= work.pos /\ (win.b.len <= work.len => End(win.b) <= End(work))
    /\ win.b.len > work.len => win.b.pos = work.pos
    /\ kind = "xdg" /\ ~thin => Keeps(win)

\* Configuring the layout again moves and resizes nothing: a floating window
\* does not creep.
NothingCreeps == ~thin => Configured(win, work) = win

\* While what the pointer asks for is possible within the size hints and the
\* work area, a resize leaves the edge that is not dragged where it was when it
\* started, and a move the size.
Length(p) ==
  IF kind = "xdg" THEN Constrain(Wanted(p), win.hints).len
  ELSE IF drag.edge = "none" THEN drag.start.len ELSE Bounded(Wanted(p).len, win.hints)
Possible(p) ==
  LET pos == IF drag.edge = "near" THEN End(drag.start) - Length(p) ELSE Wanted(p).pos
  IN  /\ Wanted(p).len > 2 * Border /\ pos >= work.pos /\ pos + Length(p) <= End(work)
      /\ drag.edge = "none" => Length(p) = drag.start.len
EdgeStayed ==
  drag # None /\ drag' = drag /\ pointer' # pointer /\ win.floating /\ Possible(pointer') =>
    CASE drag.edge = "near" -> End(win'.b) = End(drag.start)
      [] drag.edge = "far" -> win'.b.pos = drag.start.pos
      [] OTHER -> win'.b = Wanted(pointer')
DragAnchored == [][EdgeStayed]_floatingVars
=============================================================================
