------------------------------- MODULE Layers -------------------------------
(***************************************************************************)
(* Layer surfaces of one output: their double-buffered state, the          *)
(* configure exchange, the space the mapped ones reserve and where that    *)
(* leaves all others, and which of them has the keyboard                   *)
(* (compositor_server_layer_shell.cpp; compositor_server.cpp 310-336,      *)
(* 723-783, 1764-1783, 1889-2024, 2664-2732).                              *)
(*                                                                         *)
(* One toplevel stands for all windows.  Popups and focus grabs are in     *)
(* Popups; opacity, reports and what is drawn are left out.                *)
(***************************************************************************)
EXTENDS Integers, FiniteSets, Sequences, SequencesExt

CONSTANTS
  Surfaces,    \* wl_surfaces that get the role
  Window, None,
  Shapes,      \* Shapes[s]: the LayerStates the client of s asks for
  Edges,       \* Edges[s]: the exclusive edges it asks for
  Priorities,
  Screen       \* logical width and height of the output

VARIABLES
  layer,   \* layer[s]: the LayerSurfaceState of s with its XwlrLayerState
  output,  \* "none" (not yet), "up", or "gone"; bound: it does not come back
  mapped,  \* the window is mapped
  seat     \* keyboard_focus and regular_focus

layerVars == <<layer, output, mapped, seat>>

\* A LayerState: zwwm_layer_surface_v1's double-buffered state.  Layers are
\* numbered from the background (0) to the overlay (3).
Default(n) == [layer |-> n, anchor |-> {}, width |-> 0, height |-> 0, zone |-> 0,
               margin |-> 0, keyboard |-> "none"]
NoHints == [has |-> FALSE, edge |-> "none", priority |-> 0]

\* pinned: in layer_roots of the output; asked: a configure is not acked yet;
\* size and at: what was configured and where it is; answered: history, an ack
\* came since the surface was last unmapped.
Fresh == [life |-> "none", pinned |-> FALSE, born |-> 0, pending |-> Default(0),
          current |-> Default(0), want |-> NoHints, hints |-> NoHints, buffer |-> FALSE,
          mapped |-> FALSE, configured |-> FALSE, requested |-> FALSE, asked |-> FALSE,
          answered |-> FALSE, size |-> <<>>, at |-> <<>>]

Here == [l |-> layer, m |-> mapped, f |-> seat]
Set(st) == layer' = st.l /\ mapped' = st.m /\ seat' = st.f

-----------------------------------------------------------------------------
(* Arrangement                                                             *)

Greater(a, b) == IF a > b THEN a ELSE b
Rectangle(x, y, w, h) == [x |-> x, y |-> y, w |-> w, h |-> h]
Full == Rectangle(0, 0, Screen[1], Screen[2])

\* reservation_edge()
Edge(s) ==
  LET a == s.current.anchor
  IN  CASE s.hints.edge # "none" -> s.hints.edge
        [] a \in {{"top"}, {"top", "left", "right"}} -> "top"
        [] a \in {{"bottom"}, {"bottom", "left", "right"}} -> "bottom"
        [] a \in {{"left"}, {"left", "top", "bottom"}} -> "left"
        [] a \in {{"right"}, {"right", "top", "bottom"}} -> "right"
        [] OTHER -> "none"

\* layer_geometry(); the four margins of a surface are the same here.
Geometry(c, area) ==
  LET w == IF c.width = 0 THEN Greater(1, area.w - 2 * c.margin) ELSE c.width
      h == IF c.height = 0 THEN Greater(1, area.h - 2 * c.margin) ELSE c.height
  IN  Rectangle(CASE "left" \in c.anchor -> area.x + c.margin
                  [] "right" \in c.anchor -> area.x + area.w - w - c.margin
                  [] OTHER -> area.x + (area.w - w) \div 2,
                CASE "top" \in c.anchor -> area.y + c.margin
                  [] "bottom" \in c.anchor -> area.y + area.h - h - c.margin
                  [] OTHER -> area.y + (area.h - h) \div 2,
                w, h)

\* configure_layer_surface(): one configure that was asked for, or a new size.
Configured(s, w, h) ==
  [s EXCEPT !.size = <<w, h>>, !.requested = FALSE,
            !.asked = @ \/ s.requested \/ s.size # <<w, h>>]

\* arrange_layer_surface()
Placed(s, area) ==
  LET g == Geometry(s.current, area) IN [Configured(s, g.w, g.h) EXCEPT !.at = <<g.x, g.y>>]

Shrunk(area, s) ==
  LET amount == s.current.zone + s.current.margin
      edge == Edge(s)
  IN  [x |-> IF edge = "left" THEN area.x + amount ELSE area.x,
       y |-> IF edge = "top" THEN area.y + amount ELSE area.y,
       w |-> IF edge \in {"left", "right"} THEN Greater(0, area.w - amount) ELSE area.w,
       h |-> IF edge \in {"top", "bottom"} THEN Greater(0, area.h - amount) ELSE area.h]

\* The order of layer_roots, as reorder_layer_roots() leaves it: priorities,
\* then creation; and the layers from the overlay down.
Before(l, a, b) ==
  \/ l[a].current.layer > l[b].current.layer
  \/ /\ l[a].current.layer = l[b].current.layer
     /\ \/ l[a].hints.priority < l[b].hints.priority
        \/ l[a].hints.priority = l[b].hints.priority /\ l[a].born < l[b].born
Ordered(l, S) == SetToSortSeq(S, LAMBDA a, b : Before(l, a, b))

Roots(l) == {s \in Surfaces : l[s].pinned}
Reserving(l) == {s \in Roots(l) : l[s].mapped /\ l[s].current.zone > 0}

\* arrange_layers(): first the surfaces that reserve space, each in what the
\* ones before it have left; then all others.
Reserved(l) ==
  FoldLeft(LAMBDA acc, s : [l |-> [acc.l EXCEPT ![s] = Placed(@, acc.area)],
                            area |-> Shrunk(acc.area, acc.l[s])],
           [l |-> l, area |-> Full], Ordered(l, Reserving(l)))
Arrange(l) ==
  LET done == Reserved(l)
  IN  [s \in Surfaces |->
         IF s \in Roots(l) \ Reserving(l)
         THEN Placed(done.l[s], IF l[s].current.zone < 0 THEN Full ELSE done.area)
         ELSE done.l[s]]
Work(l) == Reserved(l).area

\* The part of configure_layout() that this module has.
Configure(st) == [st EXCEPT !.l = Arrange(@)]

-----------------------------------------------------------------------------
(* The keyboard                                                            *)

Exclusive(s) == s.mapped /\ s.current.keyboard = "exclusive"
Above(s) == s.current.layer >= 2

\* set_keyboard_focus(): a window never takes the keyboard from a mapped layer
\* surface that wants it for itself and is alive.
Focus(st, next) ==
  IF next = Window /\ st.f.focus \in Surfaces /\ Exclusive(st.l[st.f.focus]) THEN st
  ELSE [st EXCEPT !.f.focus = next, !.f.regular = IF next = Window THEN Window ELSE @]

\* The topmost surface that refresh_layer_keyboard_focus() finds: the last one
\* of the overlay, else of the top layer.
Claims(l) == {s \in Roots(l) : Exclusive(l[s]) /\ Above(l[s])}
Claimant(l) ==
  CHOOSE s \in Claims(l) :
    \A o \in Claims(l) \ {s} :
      \/ l[o].current.layer < l[s].current.layer
      \/ l[o].current.layer = l[s].current.layer /\ Before(l, o, s)

\* refresh_layer_keyboard_focus()
Refresh(st) ==
  IF output # "up" THEN st
  ELSE IF Claims(st.l) # {} THEN Focus(st, Claimant(st.l))
  ELSE IF st.f.focus \in Surfaces /\ (~st.l[st.f.focus].mapped \/ st.l[st.f.focus].current.keyboard = "none")
  THEN Focus(st, st.f.regular)
  ELSE st

\* focus_fallback()
Fallback(st) == IF st.m THEN Window ELSE None

-----------------------------------------------------------------------------
(* Requests                                                                *)

Live(s) == layer[s].life \in {"live", "closed"}
Newest == Cardinality({s \in Surfaces : layer[s].life # "none"}) + 1

\* layer_get_surface()
GetLayerSurface(s, n) ==
  /\ layer[s].life = "none"
  /\ layer' = [layer EXCEPT ![s] = [Fresh EXCEPT !.life = "live", !.pinned = (output = "up"), !.born = Newest,
                                              !.pending = Default(n), !.current = Default(n)]]
  /\ UNCHANGED <<output, mapped, seat>>

\* The requests that set pending state, one or several before a commit.
SetState(s, shape) ==
  /\ Live(s) /\ layer[s].pending # shape
  /\ layer' = [layer EXCEPT ![s].pending = shape]
  /\ UNCHANGED <<output, mapped, seat>>

\* xwlr_get_layer_surface() and the requests of the extension
SetHints(s, edge, p) ==
  /\ Live(s) /\ layer[s].want # [has |-> TRUE, edge |-> edge, priority |-> p]
  /\ layer' = [layer EXCEPT ![s].want = [has |-> TRUE, edge |-> edge, priority |-> p]]
  /\ UNCHANGED <<output, mapped, seat>>

\* xwlr_destroyed()
DestroyHints(s) ==
  /\ Live(s) /\ layer[s].want.has
  /\ Set(Refresh(Configure([Here EXCEPT !.l[s].want = NoHints, !.l[s].hints = NoHints])))
  /\ UNCHANGED output

\* layer_ack(): the newest configure, or an older one.
Ack(s) ==
  /\ Live(s) /\ layer[s].asked
  /\ \E more \in BOOLEAN :
       layer' = [layer EXCEPT ![s].configured = TRUE, ![s].answered = TRUE, ![s].asked = more]
  /\ UNCHANGED <<output, mapped, seat>>

\* What surface_commit() checks before it takes anything over.
Valid(s, attach) ==
  LET c == layer[s].pending
      w == layer[s].want
  IN  /\ c.width = 0 => {"left", "right"} \subseteq c.anchor
      /\ c.height = 0 => {"top", "bottom"} \subseteq c.anchor
      /\ w.edge # "none" => w.edge \in c.anchor
      /\ attach = "buffer" => layer[s].mapped \/ layer[s].configured

StaysMapped(s, attach) ==    \* mutant: a null buffer resets the configure, and unmaps nothing
  LET b == IF attach = "keep" THEN s.buffer ELSE attach = "buffer"
      c == [s EXCEPT !.current = s.pending, !.hints = s.want, !.buffer = b]
  IN  CASE attach = "null" -> [c EXCEPT !.configured = FALSE, !.requested = FALSE,
                                        !.asked = FALSE, !.answered = FALSE]
        [] ~s.mapped /\ b /\ s.configured -> [c EXCEPT !.mapped = TRUE]
        [] attach # "null" /\ ~s.mapped /\ ~(b /\ s.configured) -> [c EXCEPT !.requested = TRUE]
        [] OTHER -> c
\* The layer's part of surface_commit().
Committed(s, attach) ==
  LET b == IF attach = "keep" THEN s.buffer ELSE attach = "buffer"
      c == [s EXCEPT !.current = s.pending, !.hints = s.want, !.buffer = b]
  IN  CASE attach = "null" -> [c EXCEPT !.mapped = FALSE, !.configured = FALSE, !.requested = FALSE,
                                        !.asked = FALSE, !.answered = FALSE]
        [] ~s.mapped /\ b /\ s.configured -> [c EXCEPT !.mapped = TRUE]
        [] attach # "null" /\ ~s.mapped /\ ~(b /\ s.configured) -> [c EXCEPT !.requested = TRUE]
        [] OTHER -> c

\* surface_commit() ends with configure_layout() for every layer surface.
Commit(s, attach) ==
  /\ Live(s) /\ Valid(s, attach)
  /\ \E l \in {[layer EXCEPT ![s] = Committed(@, attach)]} :
       Set(Configure(Refresh(Configure([Here EXCEPT !.l = l]))))
  /\ UNCHANGED output

\* layer_destroyed(), while the surface lives
DestroyRole(s) ==
  /\ Live(s)
  /\ LET gone == [Here EXCEPT !.l[s] = [Fresh EXCEPT !.life = "dead", !.born = layer[s].born]]
         freed == IF seat.focus = s THEN Focus(gone, seat.regular) ELSE gone
     IN  Set(Refresh(Configure(freed)))
  /\ UNCHANGED output

\* surface_destroyed(): nothing is alive of it any more when the keyboard goes
\* to a window; the keyboard is not given to another layer surface.
DestroySurface(s) ==
  /\ Live(s)
  /\ LET gone == [Here EXCEPT !.l[s] = [Fresh EXCEPT !.life = "dead", !.born = layer[s].born]]
         freed == IF seat.focus = s THEN Focus(gone, Fallback(gone)) ELSE gone
     IN  Set(IF layer[s].mapped THEN Configure(freed) ELSE freed)
  /\ UNCHANGED output

-----------------------------------------------------------------------------
(* The window, the user, and the output                                    *)

\* The map of a toplevel: it takes the keyboard if nobody has it, and not from
\* an exclusive layer surface if it floats.
MapWindow(floats) ==
  /\ ~mapped
  /\ LET up == [Here EXCEPT !.m = TRUE]
     IN  Set(Configure(IF seat.focus = None \/ floats THEN Focus(up, Window) ELSE up))
  /\ UNCHANGED output

UnmapWindow ==
  /\ mapped
  /\ LET down == [Here EXCEPT !.m = FALSE]
         freed == IF seat.focus = Window THEN Focus(down, None) ELSE down
     IN  Set(Configure([freed EXCEPT !.f.regular = None]))
  /\ UNCHANGED output

\* A press on the window, or on a mapped layer surface that takes the keyboard.
PressWindow ==
  /\ mapped /\ seat.focus # Window
  /\ ~(seat.focus \in Surfaces /\ Exclusive(layer[seat.focus]) /\ Above(layer[seat.focus]))
  /\ Set(Configure(Focus(Here, Window)))
  /\ UNCHANGED output
PressLayer(s) ==
  /\ Live(s) /\ layer[s].mapped /\ layer[s].current.keyboard # "none" /\ seat.focus # s
  /\ ~(seat.focus \in Surfaces /\ Exclusive(layer[seat.focus]) /\ Above(layer[seat.focus]))
  /\ Set(Configure(Focus(Here, s)))
  /\ UNCHANGED output

\* set_outputs(): a surface that was made before there was an output gets it.
OutputAppears ==
  /\ output = "none"
  /\ output' = "up"
  /\ Set(Configure([Here EXCEPT !.l = [s \in Surfaces |-> [layer[s] EXCEPT !.pinned = @ \/ layer[s].life = "live"]]]))

\* set_outputs(): the surfaces of an output that is gone are closed.
OutputGone ==
  /\ output = "up"
  /\ output' = "gone"
  /\ LET closed == [s \in Surfaces |->
           IF layer[s].pinned
           THEN [layer[s] EXCEPT !.life = "closed", !.pinned = FALSE, !.mapped = FALSE, !.configured = FALSE,
                                 !.requested = FALSE, !.asked = FALSE, !.answered = FALSE]
           ELSE layer[s]]
         shut == [Here EXCEPT !.l = closed]
     IN  Set(IF seat.focus \in Surfaces /\ layer[seat.focus].pinned THEN Focus(shut, seat.regular) ELSE shut)

-----------------------------------------------------------------------------
Init ==
  /\ layer = [s \in Surfaces |-> Fresh] /\ output \in {"none", "up"}
  /\ mapped = FALSE /\ seat = [focus |-> None, regular |-> None]

SurfaceStep(s) ==
  \/ \E shape \in Shapes[s] : SetState(s, shape) \/ GetLayerSurface(s, shape.layer)
  \/ \E edge \in Edges[s], p \in Priorities : SetHints(s, edge, p)
  \/ DestroyHints(s) \/ Ack(s) \/ DestroyRole(s) \/ DestroySurface(s) \/ PressLayer(s)
  \/ \E attach \in {"keep", "buffer", "null"} : Commit(s, attach)

Next ==
  \/ \E s \in Surfaces : SurfaceStep(s)
  \/ \E floats \in BOOLEAN : MapWindow(floats)
  \/ UnmapWindow \/ PressWindow \/ OutputAppears \/ OutputGone

-----------------------------------------------------------------------------
TypeOK ==
  /\ \A s \in Surfaces :
       /\ layer[s].life \in {"none", "live", "closed", "dead"}
       /\ layer[s].mapped => layer[s].life = "live" /\ layer[s].pinned /\ layer[s].configured
  /\ output \in {"none", "up", "gone"} /\ mapped \in BOOLEAN
  /\ seat \in [focus : Surfaces \cup {Window, None}, regular : {Window, None}]

\* Every mapped layer surface is where, and was told the size, that what the
\* others reserve now leaves it, whoever came, went or changed last
\* (arrange_layers() 753-783).
LayersCurrent ==
  \A s \in Surfaces :
    layer[s].mapped => /\ layer[s].at = Arrange(layer)[s].at
                       /\ layer[s].size = Arrange(layer)[s].size

Box(s) == Rectangle(layer[s].at[1], layer[s].at[2], layer[s].size[1], layer[s].size[2])
Apart(a, b) == a.x + a.w <= b.x \/ b.x + b.w <= a.x \/ a.y + a.h <= b.y \/ b.y + b.h <= a.y
Inside(a, b) == a.x >= b.x /\ a.y >= b.y /\ a.x + a.w <= b.x + b.w /\ a.y + a.h <= b.y + b.h

\* A surface no thicker than the zone it reserves on one edge overlaps neither
\* the windows' work area nor another such surface, and one with zone zero that
\* fits stays inside the work area
\* (zwwm-layer-shell-v1.xml 60-62: "Positive exclusive zones reserve space when
\* anchored to one edge [...]. Zone zero avoids reserved space").
Keeps(s) ==
  LET edge == Edge(layer[s])
  IN  /\ layer[s].mapped /\ layer[s].current.zone > 0 /\ edge \in layer[s].current.anchor
      /\ IF edge \in {"left", "right"} THEN layer[s].size[1] <= layer[s].current.zone
                                       ELSE layer[s].size[2] <= layer[s].current.zone
ReservationsKept ==
  \E area \in {Work(layer)} :
    area.w > 0 /\ area.h > 0 =>
      \A s \in Surfaces :
        /\ Keeps(s) => Apart(Box(s), area) /\ \A o \in Surfaces \ {s} : Keeps(o) => Apart(Box(s), Box(o))
        /\ layer[s].mapped /\ layer[s].current.zone = 0 /\ layer[s].current.margin = 0
           /\ layer[s].size[1] <= area.w /\ layer[s].size[2] <= area.h => Inside(Box(s), area)

\* No commit that asks for a configure is left without one, and what is shown
\* has answered one since it was last unmapped ("remapping requires another
\* [...] configure exchange", zwwm-layer-shell-v1.xml 57-58).
ConfigureExchanged ==
  \A s \in Surfaces :
    /\ layer[s].pinned => ~layer[s].requested
    /\ layer[s].mapped => layer[s].answered

\* The keyboard is on a layer surface only while that is shown and wants it.
LayerFocusShown ==
  seat.focus \in Surfaces => layer[seat.focus].mapped /\ layer[seat.focus].current.keyboard # "none"

\* A shown surface of the upper layers with exclusive keyboard interactivity
\* loses the keyboard only to another one, or by being unmapped, moved down or
\* changed itself.
ExclusiveKept ==
  \A s \in Surfaces :
    seat.focus = s /\ Exclusive(layer[s]) /\ Above(layer[s]) /\ seat'.focus # s =>
      \/ ~(Exclusive(layer'[s]) /\ Above(layer'[s]))
      \/ seat'.focus \in Surfaces /\ Exclusive(layer'[seat'.focus]) /\ Above(layer'[seat'.focus])
ExclusiveKeeps == [][ExclusiveKept]_layerVars
=============================================================================
