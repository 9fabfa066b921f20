--------------------------- MODULE Desktop_proof ---------------------------
(***************************************************************************)
(* Proofs about Desktop, for every set of windows, outputs and tags.       *)
(***************************************************************************)
EXTENDS Desktop, TLAPS, WellFoundedInduction

\* A nonempty set of naturals has a least element.
LEMMA LeastNatural ==
  ASSUME NEW S, S \subseteq Nat, S # {}
  PROVE  \E o \in S : \A p \in S : o <= p
<1>1. PICK o \in S : \A p \in S : ~(<<p, o>> \in OpToRel(<, Nat))
  BY WFMin, NatLessThanWellFounded
<1>2. \A p \in S : ~(p < o)
  BY <1>1 DEF OpToRel
<1> QED BY <1>2

\* Lowest() picks an element of a set of outputs.
LEMMA LowestInSet ==
  ASSUME NEW S \in SUBSET Outputs
  PROVE  IF S = {} THEN Lowest(S) = NoOutput ELSE Lowest(S) \in S
BY LeastNatural, OutputsAssumption DEF Lowest

\* Last() picks a window of a set of windows.
LEMMA LastInSet ==
  ASSUME NEW S \in SUBSET Windows
  PROVE  IF S = {} THEN Last(S) = None ELSE Last(S) \in S
<1>1. CASE S = {}
  BY <1>1 DEF Last
<1>2. CASE S # {}
  <2>1. PICK n \in Nat : Windows \subseteq 1..n
    BY WindowsAssumption
  <2> DEFINE D == {n - w : w \in S}
  <2>2. D \subseteq Nat /\ D # {}
    <3>1. \A w \in S : n - w \in D /\ n - w \in Nat
      BY <2>1
    <3> QED BY <1>2, <3>1
  <2>3. PICK d \in D : \A e \in D : d <= e
    BY <2>2, LeastNatural
  <2>4. PICK w \in S : d = n - w
    BY <2>3
  <2>5. \A v \in S : n - w <= n - v
    BY <2>3, <2>4
  <2>6. \A v \in S : v <= w
    BY <2>1, <2>5
  <2> QED BY <1>2, <2>6 DEF Last
<1> QED BY <1>1, <1>2

----------------------------------------------------------------------------
(* The invariant, part by part.                                            *)

WinOK(ws) == ws \in [Windows -> WindowType]

OutsOK(os) == DOMAIN os \subseteq Outputs /\ os \in [DOMAIN os -> OutputType]

ToldValues == {"yes", "no", "outdated"}

SeatType == [focus : Windows \cup {None}, regular : Windows \cup {None}]

Alive(ws, w) == ws[w].role = "open" /\ ws[w].mapped

\* The seat names live windows, or perhaps the one that is leaving.
SeatBut(ws, s, leaving) ==
  /\ s \in SeatType
  /\ s.focus \notin {None, leaving} => Alive(ws, s.focus)
  /\ s.regular \notin {None, leaving} => Alive(ws, s.regular)

SeatOK(ws, s) == SeatBut(ws, s, None)

Placed(ws, os, a) ==
  DOMAIN os # {} =>
    /\ a \in DOMAIN os
    /\ \A w \in Windows : ws[w].role = "open" => ws[w].output \in DOMAIN os

\* TypeOK, WindowsOnOutputs and FocusAlive together.
IInv ==
  /\ WinOK(win)
  /\ OutsOK(outs)
  /\ active \in Outputs \cup {NoOutput}
  /\ SeatOK(win, seat)
  /\ Placed(win, outs, active)
  /\ owner \in [Windows -> Clients]
  /\ policy \in BOOLEAN
  /\ told \in [Windows -> ToldValues]

LEMMA NoneIsNoWindow == None \notin Windows /\ NoOutput \notin Outputs
BY WindowsAssumption, OutputsAssumption DEF None, NoOutput

LEMMA InvariantGivesTypeOK ==
  ASSUME IInv
  PROVE  TypeOK
<1>1. outs \in UNION {[connected -> OutputType] : connected \in SUBSET Outputs}
  BY DEF IInv, OutsOK
<1> QED BY <1>1 DEF IInv, WinOK, SeatOK, SeatBut, SeatType, ToldValues, TypeOK

LEMMA InvariantGivesPlaced ==
  ASSUME IInv
  PROVE  WindowsOnOutputs
BY DEF IInv, Placed, WindowsOnOutputs, Open

LEMMA InvariantGivesFocusAlive ==
  ASSUME IInv
  PROVE  FocusAlive
BY NoneIsNoWindow DEF IInv, SeatOK, SeatBut, SeatType, Alive, FocusAlive, Open
----------------------------------------------------------------------------
(* The focus.                                                              *)

\* focus_fallback() finds a live window other than the excluded one, or none.
LEMMA FallbackResult ==
  ASSUME NEW ws, NEW os, NEW s \in SeatType, NEW excluded \in Windows \cup {None}, WinOK(ws)
  PROVE  \A r \in {FallbackIgnoringPolicy(ws, os, s, excluded), FocusFallback(ws, os, s, excluded)} :
           /\ r \in Windows \cup {None}
           /\ r # None => r # excluded /\ Alive(ws, r)
<1> DEFINE S == {w \in Windows \ {excluded} : Focusable(ws, os, w)}
           free == FallbackIgnoringPolicy(ws, os, s, excluded)
           any == FocusFallback(ws, os, s, excluded)
<1>1. \A w : Focusable(ws, os, w) => Alive(ws, w)
  BY DEF Focusable, Visible, Alive
<1>2. IF S = {} THEN Last(S) = None ELSE Last(S) \in S
  BY LastInSet
<1>3. /\ free \in Windows \cup {None}
      /\ free # None => free # excluded /\ Alive(ws, free)
  BY <1>1, <1>2 DEF FallbackIgnoringPolicy, SeatType
<1>4. CASE policy /\ excluded # None
  <2>1. ws[excluded].parent \in Windows \cup {None}
    BY <1>4 DEF WinOK, WindowType
  <2>2. /\ any \in Windows \cup {None}
        /\ any # None => any # excluded /\ Alive(ws, any)
    BY <1>1, <1>4, <2>1 DEF FocusFallback
  <2> QED BY <1>3, <2>2
<1>5. CASE ~policy \/ excluded = None
  BY <1>3, <1>5 DEF FocusFallback
<1> QED BY <1>4, <1>5

\* set_keyboard_focus() with a live window, or with none.
LEMMA FocusOK ==
  ASSUME NEW ws, NEW s, NEW leaving, NEW next \in Windows \cup {None},
         SeatBut(ws, s, leaving), next # None => Alive(ws, next)
  PROVE  SeatBut(ws, Focus(s, next), leaving)
BY DEF SeatBut, SeatType, Focus

\* After the focus has moved on, the window that leaves is forgotten.
LEMMA LeaveOK ==
  ASSUME NEW ws, NEW os, NEW s, NEW w \in Windows, WinOK(ws), SeatBut(ws, s, w)
  PROVE  SeatOK(ws, Leave(ws, os, s, w))
<1> DEFINE next == FocusFallback(ws, os, s, w)
<1>1. next \in Windows \cup {None} /\ (next # None => next # w /\ Alive(ws, next))
  BY FallbackResult DEF SeatBut
<1> HIDE DEF next
<1>2. CASE s.focus = w
  <2>1. /\ Focus(s, next) = [focus |-> next, regular |-> IF next = None THEN s.regular ELSE next]
        /\ Leave(ws, os, s, w) = Forget(Focus(s, next), w)
    BY <1>1, <1>2, NoneIsNoWindow DEF Focus, Leave, next
  <2>2. Leave(ws, os, s, w) =
          [focus |-> next, regular |-> IF next = None THEN IF s.regular = w THEN None ELSE s.regular ELSE next]
    BY <1>1, <2>1, NoneIsNoWindow DEF Forget
  <2> QED BY <1>1, <2>2, NoneIsNoWindow DEF SeatOK, SeatBut, SeatType
<1>3. CASE s.focus # w
  BY <1>3, NoneIsNoWindow DEF Leave, Forget, SeatOK, SeatBut, SeatType
<1> QED BY <1>2, <1>3

\* The flags of a window may change, and it may leave, while the seat is kept.
LEMMA SeatKept ==
  ASSUME NEW ws, NEW vs, NEW s, NEW w, SeatOK(ws, s),
         \A v \in Windows \ {w} : Alive(ws, v) => Alive(vs, v)
  PROVE  SeatBut(vs, s, w)
BY NoneIsNoWindow DEF SeatOK, SeatBut, SeatType

\* A configure leaves the record of what clients were told well typed.
LEMMA TellType ==
  ASSUME NEW ws, NEW os, NEW focus, NEW candidate, told \in [Windows -> ToldValues]
  PROVE  Tell(ws, os, focus, candidate) \in [Windows -> ToldValues]
BY DEF Tell, ToldValues
----------------------------------------------------------------------------
(* Steps of applications.                                                  *)

\* The flags of a window change, the seat and what lives stay.
LEMMA SeatStays ==
  ASSUME NEW ws, NEW vs, NEW s, SeatOK(ws, s),
         \A v \in Windows : Alive(ws, v) => Alive(vs, v)
  PROVE  SeatOK(vs, s)
BY NoneIsNoWindow DEF SeatOK, SeatBut, SeatType

\* One window changes.
LEMMA OneWindowOK ==
  ASSUME NEW ws, WinOK(ws), NEW w \in Windows, NEW r \in WindowType
  PROVE  WinOK([ws EXCEPT ![w] = r])
BY DEF WinOK

LEMMA GetToplevelStep ==
  ASSUME IInv, NEW w \in Windows, GetToplevel(w)
  PROVE  IInv'
<1> DEFINE tag == IF active \in DOMAIN outs THEN outs[active].tag ELSE win[w].tag
<1>1. tag \in Tags
  BY DEF IInv, WinOK, WindowType, OutsOK, OutputType
<1>2. win' = [win EXCEPT ![w].role = "open", ![w].output = active, ![w].tag = tag]
  BY DEF GetToplevel, IInv, WinOK, WindowType
<1> HIDE DEF tag
<1>3. WinOK(win')
  <2> DEFINE r == [win[w] EXCEPT !.role = "open", !.output = active, !.tag = tag]
  <2>1. win' = [win EXCEPT ![w] = r]
    BY <1>2 DEF IInv, WinOK
  <2>2. r \in WindowType
    BY ZenonT(40), <1>1 DEF IInv, WinOK, WindowType, Role
  <2> HIDE DEF r
  <2> QED BY <2>1, <2>2, OneWindowOK DEF IInv
<1>4. \A v \in Windows : Alive(win, v) => Alive(win', v)
  BY <1>2 DEF Alive, IInv, WinOK, WindowType
<1>5. SeatOK(win', seat')
  <2>1. seat' = seat
    BY DEF GetToplevel
  <2> QED BY <1>4, <2>1, SeatStays DEF IInv
<1>6. Placed(win', outs', active')
  BY <1>2 DEF Placed, IInv, WinOK, WindowType, GetToplevel
<1>7. told' \in [Windows -> ToldValues]
  BY TellType DEF ConfigureLayout, IInv, GetToplevel
<1> QED BY <1>3, <1>5, <1>6, <1>7 DEF IInv, GetToplevel

LEMMA SetParentStep ==
  ASSUME IInv, NEW w \in Windows, NEW p \in Windows, SetParent(w, p)
  PROVE  IInv'
<1> DEFINE floats == win[w].floating \/ (win[w].mapped => ~IsFullscreen(w))
<1>1. win' = [win EXCEPT ![w].parent = p, ![w].output = win[p].output, ![w].tag = win[p].tag,
                         ![w].floating = floats]
  BY DEF SetParent, IInv, WinOK, WindowType
<1>2. floats \in BOOLEAN /\ win[p].output \in Outputs \cup {NoOutput} /\ win[p].tag \in Tags
  BY DEF IInv, WinOK, WindowType
<1> HIDE DEF floats
<1>3. WinOK(win')
  <2> DEFINE r == [win[w] EXCEPT !.parent = p, !.output = win[p].output, !.tag = win[p].tag,
                                 !.floating = floats]
  <2>1. win' = [win EXCEPT ![w] = r]
    BY <1>1 DEF IInv, WinOK
  <2>2. r \in WindowType
    BY ZenonT(40), <1>2 DEF IInv, WinOK, WindowType
  <2> HIDE DEF r
  <2> QED BY <2>1, <2>2, OneWindowOK DEF IInv
<1>4. \A v \in Windows : Alive(win, v) => Alive(win', v)
  BY <1>1 DEF Alive, IInv, WinOK, WindowType
<1>5. SeatOK(win', seat')
  <2>1. seat' = seat
    BY DEF SetParent
  <2> QED BY <1>4, <2>1, SeatStays DEF IInv
<1>6. Placed(win', outs', active')
  BY <1>1 DEF Placed, IInv, WinOK, WindowType, SetParent, Open
<1>7. told' \in [Windows -> ToldValues]
  BY TellType DEF ConfigureLayout, IInv, SetParent, ToldValues
<1> QED BY <1>3, <1>5, <1>6, <1>7 DEF IInv, SetParent

LEMMA ClearParentStep ==
  ASSUME IInv, NEW w \in Windows, ClearParent(w)
  PROVE  IInv'
<1>1. win' = [win EXCEPT ![w].parent = None]
  BY DEF ClearParent
<1>2. WinOK(win')
  BY <1>1 DEF IInv, WinOK, WindowType
<1>3. \A v \in Windows : Alive(win, v) => Alive(win', v)
  BY <1>1 DEF Alive, IInv, WinOK, WindowType
<1>4. SeatOK(win', seat')
  <2>1. seat' = seat
    BY DEF ClearParent
  <2> QED BY <1>3, <2>1, SeatStays DEF IInv
<1>5. Placed(win', outs', active')
  BY <1>1 DEF Placed, IInv, WinOK, WindowType, ClearParent
<1> QED BY <1>2, <1>4, <1>5 DEF IInv, ClearParent

LEMMA CommitMapStep ==
  ASSUME IInv, NEW w \in Windows, NEW floating \in BOOLEAN, NEW tiny \in BOOLEAN,
         CommitMap(w, floating, tiny)
  PROVE  IInv'
<1>1. win' = [win EXCEPT ![w].mapped = TRUE, ![w].floating = floating]
  BY DEF CommitMap
<1>2. WinOK(win')
  <2> DEFINE r == [win[w] EXCEPT !.mapped = TRUE, !.floating = floating]
  <2>1. win' = [win EXCEPT ![w] = r]
    BY <1>1 DEF IInv, WinOK
  <2>2. r \in WindowType
    BY DEF IInv, WinOK, WindowType
  <2> HIDE DEF r
  <2> QED BY <2>1, <2>2, OneWindowOK DEF IInv
<1>3. Alive(win', w) /\ \A v \in Windows : Alive(win, v) => Alive(win', v)
  BY <1>1 DEF Alive, IInv, WinOK, WindowType, CommitMap, Open
<1>4. SeatOK(win', seat)
  BY <1>3, SeatStays DEF IInv
<1>5. SeatOK(win', seat')
  <2>1. SeatOK(win', Focus(seat, w))
    BY <1>3, <1>4, FocusOK DEF SeatOK
  <2>2. seat' \in {seat, Focus(seat, w)}
    BY DEF CommitMap
  <2> QED BY <1>4, <2>1, <2>2
<1>6. Placed(win', outs', active')
  BY <1>1 DEF Placed, IInv, WinOK, WindowType, CommitMap, Open
<1>7. told' \in [Windows -> ToldValues]
  BY TellType DEF ConfigureLayout, IInv, CommitMap
<1> QED BY <1>2, <1>5, <1>6, <1>7 DEF IInv, CommitMap

LEMMA CommitUnmapStep ==
  ASSUME IInv, NEW w \in Windows, CommitUnmap(w)
  PROVE  IInv'
<1>1. win' = [win EXCEPT ![w].mapped = FALSE]
  BY DEF CommitUnmap
<1>2. WinOK(win')
  BY ZenonT(40), <1>1 DEF IInv, WinOK, WindowType
<1>3. SeatBut(win', seat, w)
  <2>1. \A v \in Windows \ {w} : Alive(win, v) => Alive(win', v)
    BY <1>1 DEF Alive, IInv, WinOK, WindowType
  <2> QED BY <2>1, SeatKept DEF IInv
<1>4. SeatOK(win', seat')
  BY <1>2, <1>3, LeaveOK DEF CommitUnmap
<1>5. Placed(win', outs', active')
  BY <1>1 DEF Placed, IInv, WinOK, WindowType, CommitUnmap
<1>6. told' \in [Windows -> ToldValues]
  BY TellType DEF ConfigureLayout, IInv, CommitUnmap
<1> QED BY <1>2, <1>4, <1>5, <1>6 DEF IInv, CommitUnmap

\* Clearing a fullscreen slot keeps the outputs.
LEMMA VacatedOK ==
  ASSUME OutsOK(outs), NEW w
  PROVE  OutsOK(Vacated(w)) /\ DOMAIN Vacated(w) = DOMAIN outs
BY DEF OutsOK, OutputType, Vacated

LEMMA DestroyToplevelStep ==
  ASSUME IInv, NEW w \in Windows, DestroyToplevel(w)
  PROVE  IInv'
<1>1. win' = [v \in Windows |->
                IF v = w THEN NewWindow
                ELSE IF win[v].parent = w THEN [win[v] EXCEPT !.parent = None] ELSE win[v]]
  BY DEF DestroyToplevel
<1>2. WinOK(win')
  <2>1. NewWindow \in WindowType
    BY TagsAssumption DEF NewWindow, WindowType, Role, Fullscreens, FirstTag
  <2>2. \A v \in Windows : [win[v] EXCEPT !.parent = None] \in WindowType
    BY DEF IInv, WinOK, WindowType
  <2> QED BY <1>1, <2>1, <2>2 DEF IInv, WinOK
<1>3. SeatBut(win', seat, w)
  <2>1. \A v \in Windows \ {w} : Alive(win, v) => Alive(win', v)
    BY <1>1 DEF Alive, IInv, WinOK, WindowType
  <2> QED BY <2>1, SeatKept DEF IInv
<1>4. SeatOK(win', seat')
  BY <1>2, <1>3, LeaveOK DEF DestroyToplevel
<1>5. OutsOK(outs') /\ DOMAIN outs' = DOMAIN outs
  BY VacatedOK DEF IInv, DestroyToplevel
<1>6. Placed(win', outs', active')
  <2>1. \A v \in Windows : win'[v].role = "open" => win[v].role = "open" /\ win'[v].output = win[v].output
    BY <1>1 DEF IInv, WinOK, WindowType, NewWindow
  <2> QED BY <1>5, <2>1 DEF Placed, IInv, DestroyToplevel
<1>7. told' \in [Windows -> ToldValues]
  BY TellType DEF ConfigureLayout, IInv, DestroyToplevel, ToldValues
<1> QED BY <1>2, <1>4, <1>5, <1>6, <1>7 DEF IInv, DestroyToplevel

LEMMA GoneTyped == Gone \in WindowType /\ Gone.role = "gone" /\ ~Gone.mapped
BY TagsAssumption DEF Gone, NewWindow, WindowType, Role, Fullscreens, FirstTag

LEMMA DestroySurfaceStep ==
  ASSUME IInv, NEW w \in Windows, DestroySurface(w)
  PROVE  IInv'
<1>1. win' = [win EXCEPT ![w] = Gone] /\ win[w].role = "bare"
  BY DEF DestroySurface
<1>2. WinOK(win')
  BY <1>1, GoneTyped, OneWindowOK DEF IInv
<1>3. SeatOK(win', seat')
  <2>1. seat' = seat
    BY DEF DestroySurface
  <2>2. \A v \in Windows : Alive(win, v) => Alive(win', v)
    BY <1>1 DEF Alive, IInv, WinOK
  <2> QED BY <2>1, <2>2, SeatStays DEF IInv
<1>4. Placed(win', outs', active')
  BY <1>1, GoneTyped DEF Placed, IInv, WinOK, DestroySurface
<1> QED BY <1>2, <1>3, <1>4 DEF IInv, DestroySurface

LEMMA DisconnectStep ==
  ASSUME IInv, NEW c \in Clients, NEW toplevelFirst, Disconnect(c, toplevelFirst)
  PROVE  IInv'
<1> DEFINE dead == {w \in Windows : owner[w] = c /\ win[w].role # "gone"}
           others == {w \in Windows \ dead : Focusable(win, outs, w)}
           survivor == IF policy THEN None ELSE Last(others)
<1>1. win' = [w \in Windows |-> IF w \in dead THEN Gone ELSE win[w]]
  BY DEF Disconnect
<1>2. WinOK(win')
  BY <1>1, GoneTyped DEF IInv, WinOK
<1>3. \A w \in Windows \ dead : Alive(win, w) => Alive(win', w)
  BY <1>1 DEF Alive
<1>4. survivor \in Windows \cup {None} /\ (survivor # None => Alive(win', survivor))
  <2>1. IF others = {} THEN Last(others) = None ELSE Last(others) \in others
    BY LastInSet
  <2>2. \A w \in others : Alive(win', w)
    BY <1>3 DEF Focusable, Visible, Alive
  <2> HIDE DEF others
  <2>3. others \subseteq Windows
    BY DEF others
  <2> QED BY <2>1, <2>2, <2>3
<1>5. SeatOK(win', seat')
  <2>1. seat' = [focus |-> IF seat.focus \in dead THEN survivor ELSE seat.focus,
                 regular |-> IF seat.focus \in dead /\ survivor # None THEN survivor
                             ELSE IF seat.regular \in dead THEN None ELSE seat.regular]
    BY DEF Disconnect
  <2> HIDE DEF survivor, dead
  <2> QED BY <1>3, <1>4, <2>1, NoneIsNoWindow DEF IInv, SeatOK, SeatBut, SeatType
<1>6. OutsOK(outs') /\ DOMAIN outs' = DOMAIN outs
  BY DEF Disconnect, IInv, OutsOK, OutputType
<1>7. Placed(win', outs', active')
  BY <1>1, <1>6, GoneTyped DEF Placed, IInv, Disconnect
<1>8. told' \in [Windows -> ToldValues]
  BY TellType DEF ConfigureLayout, IInv, Disconnect, ToldValues
<1> QED BY <1>2, <1>5, <1>6, <1>7, <1>8 DEF IInv, Disconnect
----------------------------------------------------------------------------
(* Fullscreen and floating.                                                *)

LEMMA FullscreenStep ==
  ASSUME IInv, NEW w \in Windows, NEW requested, Fullscreen(w, requested)
  PROVE  IInv'
<1> DEFINE target == IF requested \in DOMAIN outs THEN requested ELSE win[w].output
           state == IF IsFullscreen(w) THEN win[w].fullscreen
                    ELSE IF win[w].floating THEN "floating" ELSE "tiled"
<1>1. /\ target \in DOMAIN outs
      /\ win' = [win EXCEPT ![w].fullscreen = state, ![w].floating = FALSE,
                            ![w].output = target, ![w].tag = outs[target].tag]
      /\ outs' = [o \in DOMAIN outs |->
                    IF o = target THEN [outs[o] EXCEPT !.fullscreen = w]
                    ELSE IF IsFullscreen(w) THEN Vacated(w)[o] ELSE outs[o]]
  BY DEF Fullscreen, EnterFullscreen, IInv, WinOK, WindowType
<1>2. state \in Fullscreens /\ outs[target].tag \in Tags /\ target \in Outputs
  BY <1>1 DEF IInv, WinOK, WindowType, Fullscreens, OutsOK, OutputType
<1> HIDE DEF target, state
<1>3. WinOK(win')
  <2> DEFINE r == [win[w] EXCEPT !.fullscreen = state, !.floating = FALSE,
                                 !.output = target, !.tag = outs[target].tag]
  <2>1. win' = [win EXCEPT ![w] = r]
    BY <1>1 DEF IInv, WinOK
  <2>2. r \in WindowType
    BY ZenonT(40), <1>2 DEF IInv, WinOK, WindowType
  <2> HIDE DEF r
  <2> QED BY <2>1, <2>2, OneWindowOK DEF IInv
<1>4. SeatOK(win', seat')
  <2>1. seat' = seat
    BY DEF Fullscreen
  <2>2. \A v \in Windows : Alive(win, v) => Alive(win', v)
    BY <1>1 DEF Alive, IInv, WinOK, WindowType
  <2> QED BY <2>1, <2>2, SeatStays DEF IInv
<1>5. OutsOK(outs') /\ DOMAIN outs' = DOMAIN outs
  <2>1. OutsOK(Vacated(w)) /\ DOMAIN Vacated(w) = DOMAIN outs
    BY VacatedOK DEF IInv
  <2> QED BY <1>1, <2>1 DEF IInv, OutsOK, OutputType
<1>6. Placed(win', outs', active')
  BY <1>1, <1>5 DEF Placed, IInv, WinOK, WindowType, Fullscreen
<1>7. told' \in [Windows -> ToldValues]
  BY TellType DEF ConfigureLayout, IInv, Fullscreen
<1> QED BY <1>3, <1>4, <1>5, <1>6, <1>7 DEF IInv, Fullscreen

\* Leaving fullscreen touches two flags.
LEMMA RestoredOK ==
  ASSUME NEW x \in WindowType
  PROVE  /\ Restored(x) \in WindowType
         /\ Restored(x).role = x.role /\ Restored(x).mapped = x.mapped
         /\ Restored(x).output = x.output
BY DEF WindowType, Restored, Fullscreens

LEMMA UnfullscreenStep ==
  ASSUME IInv, NEW w \in Windows, Unfullscreen(w)
  PROVE  IInv'
<1>1. win' = [win EXCEPT ![w] = Restored(win[w])] /\ win[w] \in WindowType
  BY DEF Unfullscreen, LeaveFullscreen, IInv, WinOK
<1>2. WinOK(win')
  BY <1>1, RestoredOK, OneWindowOK DEF IInv
<1>3. SeatOK(win', seat')
  <2>1. seat' = seat
    BY DEF Unfullscreen
  <2>2. \A v \in Windows : Alive(win, v) => Alive(win', v)
    BY <1>1, RestoredOK DEF Alive, IInv, WinOK
  <2> QED BY <2>1, <2>2, SeatStays DEF IInv
<1>4. OutsOK(outs') /\ DOMAIN outs' = DOMAIN outs
  BY VacatedOK DEF IInv, Unfullscreen, LeaveFullscreen
<1>5. Placed(win', outs', active')
  BY <1>1, <1>4, RestoredOK DEF Placed, IInv, WinOK, Unfullscreen
<1>6. told' \in [Windows -> ToldValues]
  BY TellType DEF ConfigureLayout, IInv, Unfullscreen
<1> QED BY <1>2, <1>3, <1>4, <1>5, <1>6 DEF IInv, Unfullscreen

LEMMA SetFloatingStep ==
  ASSUME IInv, NEW w \in Windows, NEW floating \in BOOLEAN, SetFloating(w, floating)
  PROVE  IInv'
<1>1. win' = [win EXCEPT ![w].floating = floating]
  BY DEF SetFloating, Floated
<1>2. WinOK(win')
  BY <1>1 DEF IInv, WinOK, WindowType
<1>3. SeatOK(win', seat')
  <2>1. seat' = seat
    BY DEF SetFloating
  <2>2. \A v \in Windows : Alive(win, v) => Alive(win', v)
    BY <1>1 DEF Alive, IInv, WinOK, WindowType
  <2> QED BY <2>1, <2>2, SeatStays DEF IInv
<1>4. Placed(win', outs', active')
  BY <1>1 DEF Placed, IInv, WinOK, WindowType, SetFloating
<1>5. told' \in [Windows -> ToldValues]
  BY TellType DEF ConfigureLayout, IInv, SetFloating
<1> QED BY <1>2, <1>3, <1>4, <1>5 DEF IInv, SetFloating
----------------------------------------------------------------------------
(* Keyboard and pointer.                                                   *)

\* A window that can have the focus is alive, and on a connected output.
LEMMA FocusableLives ==
  ASSUME NEW ws, NEW os, NEW w, Focusable(ws, os, w)
  PROVE  Alive(ws, w) /\ ws[w].output \in DOMAIN os
BY DEF Focusable, Visible, Alive

\* The last of the windows that switch_active_tag() and movetotag look at.
LEMMA ShownLives ==
  ASSUME NEW ws, NEW os, NEW o
  PROVE  LET shown == {w \in Windows : ws[w].role = "open" /\ ws[w].output = o /\ Visible(ws, os, w)} IN
         /\ Last(shown) \in Windows \cup {None}
         /\ Last(shown) # None => Alive(ws, Last(shown))
<1> DEFINE shown == {w \in Windows : ws[w].role = "open" /\ ws[w].output = o /\ Visible(ws, os, w)}
<1>1. IF shown = {} THEN Last(shown) = None ELSE Last(shown) \in shown
  BY LastInSet
<1>2. \A w \in shown : w \in Windows /\ Alive(ws, w)
  BY DEF Visible, Alive
<1> QED BY <1>1, <1>2

LEMMA SwitchedOK ==
  ASSUME OutsOK(outs), NEW o, NEW t \in Tags
  PROVE  OutsOK(Switched(o, t)) /\ DOMAIN Switched(o, t) = DOMAIN outs
BY DEF OutsOK, OutputType, Switched

LEMMA SwitchedSeatOK ==
  ASSUME SeatOK(win, seat), NEW os, NEW o
  PROVE  SeatOK(win, SwitchedSeat(os, o))
<1> DEFINE shown == {w \in Windows : win[w].role = "open" /\ win[w].output = o /\ Visible(win, os, w)}
<1>1. Last(shown) \in Windows \cup {None} /\ (Last(shown) # None => Alive(win, Last(shown)))
  BY ShownLives
<1>2. SwitchedSeat(os, o) = IF o = active THEN Focus(seat, Last(shown)) ELSE seat
  BY DEF SwitchedSeat
<1> HIDE DEF shown
<1>3. SeatOK(win, Focus(seat, Last(shown)))
  BY <1>1, FocusOK DEF SeatOK
<1> QED BY <1>2, <1>3

LEMMA SelectTagStep ==
  ASSUME IInv, NEW o \in Outputs, NEW t \in Tags, SelectTag(o, t)
  PROVE  IInv'
<1>1. OutsOK(outs') /\ DOMAIN outs' = DOMAIN outs
  BY SwitchedOK DEF IInv, SelectTag
<1>2. SeatOK(win', seat')
  BY SwitchedSeatOK DEF IInv, SelectTag
<1>3. told' \in [Windows -> ToldValues]
  BY TellType DEF ConfigureLayout, IInv, SelectTag
<1> QED BY <1>1, <1>2, <1>3 DEF IInv, Placed, SelectTag

LEMMA MoveToTagStep ==
  ASSUME IInv, NEW t \in Tags, MoveToTag(t)
  PROVE  IInv'
<1> DEFINE w == seat.focus
           shown == {v \in Windows : win'[v].role = "open" /\ win'[v].output = active /\ Visible(win', outs, v)}
           next == IF active \in DOMAIN outs /\ outs[active].tag = t THEN w ELSE Last(shown)
<1>1. w \in Windows /\ Alive(win, w)
  BY DEF IInv, SeatOK, SeatBut, SeatType, MoveToTag
<1>2. win' = [win EXCEPT ![w].tag = t] /\ seat' = Focus(seat, next)
  BY DEF MoveToTag
<1>3. Last(shown) \in Windows \cup {None} /\ (Last(shown) # None => Alive(win', Last(shown)))
  BY ShownLives
<1> HIDE DEF w, shown
<1>4. WinOK(win')
  BY <1>1, <1>2 DEF IInv, WinOK, WindowType
<1>5. \A v \in Windows : Alive(win, v) => Alive(win', v)
  BY <1>1, <1>2 DEF Alive, IInv, WinOK, WindowType
<1>6. SeatOK(win', seat')
  <2>1. SeatOK(win', seat)
    BY <1>5, SeatStays DEF IInv
  <2>2. next \in Windows \cup {None} /\ (next # None => Alive(win', next))
    BY <1>1, <1>3, <1>5
  <2> HIDE DEF next
  <2> QED BY <1>2, <2>1, <2>2, FocusOK DEF SeatOK
<1>7. Placed(win', outs', active')
  BY <1>1, <1>2 DEF Placed, IInv, WinOK, WindowType, MoveToTag
<1>8. told' \in [Windows -> ToldValues]
  BY TellType DEF ConfigureLayout, IInv, MoveToTag
<1> QED BY <1>4, <1>6, <1>7, <1>8 DEF IInv, MoveToTag

\* The other steps of the input devices move only the focus and the active
\* output, to where a window is.
LEMMA InputFocusStep ==
  ASSUME IInv,
         \/ Relayout \/ InputReset
         \/ \E o \in Outputs : MovePointer(o)
         \/ \E w \in Windows : FocusOther(w) \/ Press(w) \/ SuperDrag(w)
  PROVE  IInv'
<1> DEFINE kept == SeatOK(win, seat') /\ active' \in Outputs \cup {NoOutput} /\ Placed(win, outs, active')
<1>1. UNCHANGED <<win, owner, outs, policy>>
  BY DEF Relayout, InputReset, MovePointer, FocusOther, Press, SuperDrag
<1>2. kept
  <2>1. CASE Relayout
    BY <2>1 DEF IInv, Relayout
  <2>2. CASE InputReset
    <3>1. SeatOK(win, Focus(seat, None))
      BY FocusOK DEF IInv, SeatOK
    <3> QED BY <2>2, <3>1 DEF IInv, InputReset
  <2>3. ASSUME NEW o \in Outputs, MovePointer(o) PROVE kept
    BY <2>3 DEF IInv, Placed, MovePointer
  <2>4. ASSUME NEW w \in Windows, Focusable(win, outs, w), active' \in {active, win[w].output},
               seat' \in {seat, Focus(seat, w)}
        PROVE kept
    <3>1. Alive(win, w) /\ win[w].output \in DOMAIN outs
      BY <2>4, FocusableLives
    <3>2. SeatOK(win, Focus(seat, w))
      BY <3>1, FocusOK DEF IInv, SeatOK
    <3> QED BY <2>4, <3>1, <3>2 DEF IInv, Placed, OutsOK
  <2>5. ASSUME NEW w \in Windows, FocusOther(w) \/ Press(w) \/ SuperDrag(w) PROVE kept
    BY <2>4, <2>5 DEF FocusOther, Press, SuperDrag
  <2> QED BY <2>1, <2>2, <2>3, <2>5
<1>3. told' \in [Windows -> ToldValues]
  <2>1. told' \in {told, Outdated, Tell(win', outs', seat'.focus, None)}
    BY DEF ConfigureLayout, Relayout, InputReset, MovePointer, FocusOther, Press, SuperDrag
  <2>2. Outdated \in [Windows -> ToldValues]
    BY DEF Outdated, ToldValues
  <2>3. Tell(win', outs', seat'.focus, None) \in [Windows -> ToldValues]
    BY TellType DEF IInv
  <2> QED BY <2>1, <2>2, <2>3 DEF IInv
<1> QED BY <1>1, <1>2, <1>3 DEF IInv
----------------------------------------------------------------------------
(* Managers and the backend.                                               *)

LEMMA ControlFocusStep ==
  ASSUME IInv, NEW w \in Windows, ControlFocus(w)
  PROVE  IInv'
<1> DEFINE switch == active' \in DOMAIN outs /\ outs[active'].tag # win[w].tag
           os == Switched(active', win[w].tag)
           shown == {v \in Windows : win[v].role = "open" /\ win[v].output = active' /\ Visible(win, os, v)}
           between == IF switch THEN Focus(seat, Last(shown)) ELSE seat
<1>1. /\ Alive(win, w) /\ active' = win[w].output
      /\ outs' = IF switch THEN os ELSE outs
      /\ seat' = Focus(between, w)
  BY DEF ControlFocus, Open, Alive
<1>2. Last(shown) \in Windows \cup {None} /\ (Last(shown) # None => Alive(win, Last(shown)))
  BY ShownLives
<1>3. OutsOK(os) /\ DOMAIN os = DOMAIN outs
  BY SwitchedOK DEF IInv, WinOK, WindowType
<1> HIDE DEF os, shown, switch
<1>4. SeatOK(win, between)
  BY <1>2, FocusOK DEF IInv, SeatOK
<1> HIDE DEF between
<1>5. SeatOK(win, seat')
  BY <1>1, <1>4, FocusOK DEF SeatOK
<1>6. OutsOK(outs') /\ DOMAIN outs' = DOMAIN outs
  BY <1>1, <1>3 DEF IInv
<1>7. active' \in Outputs \cup {NoOutput} /\ Placed(win, outs', active')
  BY <1>1, <1>6 DEF IInv, WinOK, WindowType, Placed, Alive
<1>8. told' \in [Windows -> ToldValues]
  BY TellType DEF ConfigureLayout, IInv, ControlFocus
<1> QED BY <1>5, <1>6, <1>7, <1>8 DEF IInv, ControlFocus

LEMMA ControlNoFocusStep ==
  ASSUME IInv, ControlNoFocus
  PROVE  IInv'
<1>1. SeatOK(win, seat')
  BY DEF ControlNoFocus, SeatOK, SeatBut, SeatType
<1>2. told' \in [Windows -> ToldValues]
  BY TellType DEF ConfigureLayout, IInv, ControlNoFocus
<1> QED BY <1>1, <1>2 DEF IInv, ControlNoFocus

LEMMA ControlHiddenStep ==
  ASSUME IInv, NEW w \in Windows, NEW hidden \in BOOLEAN, ControlHidden(w, hidden)
  PROVE  IInv'
<1> DEFINE left == IsFullscreen(w) /\ hidden
           x == IF left THEN Restored(win[w]) ELSE win[w]
           r == [x EXCEPT !.hidden = hidden]
<1>1. win' = [win EXCEPT ![w] = r]
  BY DEF ControlHidden
<1>2. x \in WindowType /\ x.role = win[w].role /\ x.mapped = win[w].mapped /\ x.output = win[w].output
  BY RestoredOK DEF IInv, WinOK
<1> HIDE DEF x
<1>3. r \in WindowType /\ r.role = win[w].role /\ r.mapped = win[w].mapped /\ r.output = win[w].output
  BY <1>2 DEF WindowType
<1> HIDE DEF r
<1>4. WinOK(win')
  BY <1>1, <1>3, OneWindowOK DEF IInv
<1>5. SeatOK(win', seat')
  <2>1. SeatOK(win', seat)
    <3>1. \A v \in Windows : Alive(win, v) => Alive(win', v)
      BY <1>1, <1>3 DEF Alive, IInv, WinOK
    <3> QED BY <3>1, SeatStays DEF IInv
  <2>2. SeatBut(win', seat, w)
    BY <2>1 DEF SeatOK, SeatBut
  <2>3. SeatOK(win', Leave(win', outs', seat, w))
    BY <1>4, <2>2, LeaveOK
  <2> QED BY <2>1, <2>3 DEF ControlHidden
<1>6. OutsOK(outs') /\ DOMAIN outs' = DOMAIN outs
  BY VacatedOK DEF IInv, ControlHidden
<1>7. Placed(win', outs', active')
  BY <1>1, <1>3, <1>6 DEF Placed, IInv, WinOK, ControlHidden
<1>8. told' \in [Windows -> ToldValues]
  BY TellType DEF ConfigureLayout, IInv, ControlHidden
<1> QED BY <1>4, <1>5, <1>6, <1>7, <1>8 DEF IInv, ControlHidden

LEMMA AssignWindowStep ==
  ASSUME IInv, NEW w \in Windows, NEW o \in Outputs, NEW t \in Tags, AssignWindow(w, o, t)
  PROVE  IInv'
<1>1. win' = [win EXCEPT ![w].output = o, ![w].tag = t] /\ o \in DOMAIN outs
  BY DEF AssignWindow
<1>2. WinOK(win')
  <2> DEFINE r == [win[w] EXCEPT !.output = o, !.tag = t]
  <2>1. win' = [win EXCEPT ![w] = r]
    BY <1>1 DEF IInv, WinOK
  <2>2. r \in WindowType
    BY DEF IInv, WinOK, WindowType
  <2> HIDE DEF r
  <2> QED BY <2>1, <2>2, OneWindowOK DEF IInv
<1>3. SeatOK(win', seat')
  <2>1. SeatOK(win', seat)
    <3>1. \A v \in Windows : Alive(win, v) => Alive(win', v)
      BY <1>1 DEF Alive, IInv, WinOK, WindowType
    <3> QED BY <3>1, SeatStays DEF IInv
  <2>2. SeatBut(win', seat, w)
    BY <2>1 DEF SeatOK, SeatBut
  <2>3. SeatOK(win', Leave(win', outs, seat, w))
    BY <1>2, <2>2, LeaveOK
  <2> QED BY <2>1, <2>3 DEF AssignWindow
<1>4. Placed(win', outs', active')
  BY <1>1 DEF Placed, IInv, WinOK, WindowType, AssignWindow
<1>5. told' \in [Windows -> ToldValues]
  BY TellType DEF ConfigureLayout, IInv, AssignWindow
<1> QED BY <1>2, <1>3, <1>4, <1>5 DEF IInv, AssignWindow

LEMMA SetPolicyStep ==
  ASSUME IInv, NEW enabled \in BOOLEAN, SetPolicy(enabled)
  PROVE  IInv'
<1> DEFINE next == FallbackIgnoringPolicy(win, outs, seat, None)
<1>1. next \in Windows \cup {None} /\ (next # None => Alive(win, next))
  BY FallbackResult DEF IInv, SeatOK, SeatBut
<1> HIDE DEF next
<1>2. SeatOK(win, Focus(seat, next))
  BY <1>1, FocusOK DEF IInv, SeatOK
<1>3. SeatOK(win', seat')
  BY <1>2 DEF IInv, SetPolicy, next
<1>4. told' \in [Windows -> ToldValues]
  BY TellType DEF ConfigureLayout, IInv, SetPolicy
<1> QED BY <1>3, <1>4 DEF IInv, SetPolicy

LEMMA SetOutputsStep ==
  ASSUME IInv, NEW connected \in SUBSET Outputs, SetOutputs(connected)
  PROVE  IInv'
<1>1. OutsOK(outs') /\ DOMAIN outs' = connected
  BY TagsAssumption DEF IInv, SetOutputs, OutsOK, OutputType, NewOutput, FirstTag
<1>2. IF connected = {} THEN active' = NoOutput ELSE active' \in connected
  BY LowestInSet DEF SetOutputs
<1>3. \A w \in Windows :
        LET x == win[w]
            y == Moved(x, outs', active') IN
        /\ y \in WindowType /\ y.role = x.role /\ y.mapped = x.mapped
        /\ x.role = "open" /\ connected # {} => y.output \in connected
  <2> SUFFICES ASSUME NEW w \in Windows
               PROVE  LET x == win[w]
                          y == Moved(x, outs', active') IN
                      /\ y \in WindowType /\ y.role = x.role /\ y.mapped = x.mapped
                      /\ x.role = "open" /\ connected # {} => y.output \in connected
    OBVIOUS
  <2> DEFINE x == win[w]
             left == IF x.fullscreen = "off" THEN x ELSE Restored(x)
             tag == IF active' \in DOMAIN outs' THEN outs'[active'].tag ELSE left.tag
             y == Moved(x, outs', active')
  <2>1. x \in WindowType
    BY DEF IInv, WinOK
  <2>2. left \in WindowType /\ left.role = x.role /\ left.mapped = x.mapped
    BY <2>1, RestoredOK
  <2>3. y \in {x, [left EXCEPT !.output = active', !.tag = tag]}
    BY <2>2 DEF Moved, WindowType
  <2>4. x.role = "open" /\ y = x => x.output \in DOMAIN outs' \/ y.output = active'
    BY <2>1, <2>2 DEF Moved, WindowType
  <2>5. tag \in Tags /\ active' \in Outputs \cup {NoOutput}
    BY <1>1, <1>2, <2>2 DEF OutsOK, OutputType, WindowType
  <2> HIDE DEF x, left, tag, y
  <2>6. y \in WindowType /\ y.role = x.role /\ y.mapped = x.mapped
    BY <2>1, <2>2, <2>3, <2>5 DEF WindowType
  <2>7. x.role = "open" /\ connected # {} => y.output \in connected
    BY <1>1, <1>2, <2>1, <2>2, <2>3, <2>4 DEF WindowType
  <2> QED BY <2>6, <2>7 DEF x, y
<1>4. win' = [w \in Windows |-> Moved(win[w], outs', active')]
  BY DEF SetOutputs
<1>5. WinOK(win')
  BY <1>3, <1>4 DEF WinOK
<1>6. SeatOK(win', seat')
  <2>1. seat' = seat
    BY DEF SetOutputs
  <2>2. \A v \in Windows : Alive(win, v) => Alive(win', v)
    BY <1>3, <1>4 DEF Alive
  <2> QED BY <2>1, <2>2, SeatStays DEF IInv
<1>7. Placed(win', outs', active') /\ active' \in Outputs \cup {NoOutput}
  BY <1>1, <1>2, <1>3, <1>4 DEF Placed
<1>8. told' \in [Windows -> ToldValues]
  BY TellType DEF ConfigureLayout, IInv, SetOutputs
<1> QED BY <1>1, <1>5, <1>6, <1>7, <1>8 DEF IInv, SetOutputs
----------------------------------------------------------------------------
(* The invariant.                                                          *)

LEMMA InitInvariant ==
  ASSUME Init
  PROVE  IInv
<1>1. NewWindow \in WindowType
  BY TagsAssumption DEF NewWindow, WindowType, Role, Fullscreens, FirstTag
<1>2. OutsOK(outs) /\ DOMAIN outs = Outputs
  BY TagsAssumption DEF Init, OutsOK, OutputType, NewOutput, FirstTag
<1>3. IF Outputs = {} THEN active = NoOutput ELSE active \in Outputs
  BY LowestInSet DEF Init
<1>4. Placed(win, outs, active)
  BY <1>2, <1>3 DEF Init, Placed, NewWindow
<1>5. SeatOK(win, seat)
  BY DEF Init, SeatOK, SeatBut, SeatType
<1> QED BY <1>1, <1>2, <1>3, <1>4, <1>5 DEF Init, IInv, WinOK, Outdated, ToldValues

LEMMA NextInvariant ==
  ASSUME IInv, [Next]_vars
  PROVE  IInv'
<1>1. CASE ApplicationStep
  BY <1>1, GetToplevelStep, SetParentStep, ClearParentStep, CommitMapStep, CommitUnmapStep,
     DestroyToplevelStep, DestroySurfaceStep, DisconnectStep, FullscreenStep, UnfullscreenStep,
     SetFloatingStep DEF ApplicationStep
<1>2. CASE InputStep
  BY <1>2, SelectTagStep, MoveToTagStep, InputFocusStep DEF InputStep
<1>3. CASE ManagerStep
  BY <1>3, ControlFocusStep, ControlNoFocusStep, ControlHiddenStep, AssignWindowStep, SetPolicyStep
     DEF ManagerStep
<1>4. CASE BackendStep
  BY <1>4, SetOutputsStep DEF BackendStep
<1>5. CASE UNCHANGED vars
  BY <1>5 DEF vars, IInv
<1> QED BY <1>1, <1>2, <1>3, <1>4, <1>5 DEF Next

\* The inductive invariant: types, placement and focus depend on each other,
\* since a window's output comes from the active one and the focus from the
\* windows that can be seen.
THEOREM Invariance == Spec => []IInv
<1>1. Init => IInv
  BY InitInvariant
<1>2. IInv /\ [Next]_vars => IInv'
  BY NextInvariant
<1> QED BY <1>1, <1>2, PTL DEF Spec

\* The window management state stays well typed, for any number of windows,
\* outputs and tags.
THEOREM TypeCorrect == Spec => []TypeOK
<1>1. IInv => TypeOK
  BY InvariantGivesTypeOK
<1> QED BY <1>1, Invariance, PTL

\* No window is stranded on an output that is gone while another is there.
THEOREM NoWindowStranded == Spec => []WindowsOnOutputs
<1>1. IInv => WindowsOnOutputs
  BY InvariantGivesPlaced
<1> QED BY <1>1, Invariance, PTL

\* The seat's pointers never dangle, whatever way windows leave.
THEOREM FocusNeverDangles == Spec => []FocusAlive
<1>1. IInv => FocusAlive
  BY InvariantGivesFocusAlive
<1> QED BY <1>1, Invariance, PTL
----------------------------------------------------------------------------
(* What clients are told.                                                  *)

\* configure_layout() with no candidate, or a mapped one, reaches every
\* window that can be seen.
LEMMA ConfigureReachesAll ==
  ASSUME NEW ws, NEW os, NEW focus, NEW candidate, candidate = None \/ ws[candidate].mapped,
         NEW w \in Windows, Focusable(ws, os, w)
  PROVE  Tell(ws, os, focus, candidate)[w] = IF focus = w THEN "yes" ELSE "no"
BY DEF Focusable, Visible, Configured, Tell

\* Otherwise it leaves some as they were.
LEMMA ConfigureOrKeeps ==
  ASSUME NEW ws, NEW os, NEW focus, NEW candidate, NEW w \in Windows, ws[w].role = "open"
  PROVE  Tell(ws, os, focus, candidate)[w] \in {told[w], IF focus = w THEN "yes" ELSE "no"}
BY DEF Tell

\* A step that ends in configure_layout() over the whole layout.
LEMMA WholeLayoutAgrees ==
  ASSUME NEW candidate, candidate = None \/ win'[candidate].mapped, ConfigureLayout(candidate)
  PROVE  ActivatedAgrees'
<1> SUFFICES ASSUME NEW w \in Windows, Focusable(win', outs', w)
             PROVE  told'[w] = IF seat'.focus = w THEN "yes" ELSE "no"
  BY DEF ActivatedAgrees
<1> QED BY ConfigureReachesAll DEF ConfigureLayout

\* A step that changes only one window, and configures for it.
LEMMA OneWindowAgrees ==
  ASSUME ActivatedAgrees, NEW w \in Windows, ConfigureLayout(w), seat'.focus = seat.focus,
         \A v \in Windows \ {w} : Focusable(win', outs', v) => Focusable(win, outs, v)
  PROVE  ActivatedAgrees'
<1>1. CASE win'[w].mapped
  BY <1>1, WholeLayoutAgrees
<1>2. CASE ~win'[w].mapped
  <2> SUFFICES ASSUME NEW v \in Windows, Focusable(win', outs', v)
               PROVE  /\ seat'.focus = v => told'[v] # "no"
                      /\ seat'.focus # v => told'[v] # "yes"
    BY DEF ActivatedAgrees
  <2>1. v # w /\ Focusable(win, outs, v) /\ win'[v].role = "open"
    BY <1>2 DEF Focusable, Visible
  <2>2. told'[v] \in {told[v], IF seat'.focus = v THEN "yes" ELSE "no"}
    BY <2>1, ConfigureOrKeeps DEF ConfigureLayout
  <2> QED BY <2>1, <2>2 DEF ActivatedAgrees
<1> QED BY <1>1, <1>2

\* A step that tells nobody anything, moves no focus and shows no new window,
\* except for windows that are known to be out of date.
LEMMA QuietStepAgrees ==
  ASSUME ActivatedAgrees, seat'.focus = seat.focus,
         \A v \in Windows : \/ told'[v] = "outdated"
                            \/ ~Focusable(win', outs', v)
                            \/ told'[v] = told[v] /\ Focusable(win, outs, v)
  PROVE  ActivatedAgrees'
BY DEF ActivatedAgrees

LEMMA AgreesAfterWholeLayout ==
  ASSUME \/ \E w \in Windows :
              \/ CommitUnmap(w) \/ FocusOther(w) \/ Press(w) \/ ControlFocus(w)
              \/ \E floating, tiny \in BOOLEAN : CommitMap(w, floating, tiny)
              \/ \E hidden \in BOOLEAN : ControlHidden(w, hidden)
              \/ \E o \in Outputs, t \in Tags : AssignWindow(w, o, t)
         \/ \E o \in Outputs, t \in Tags : SelectTag(o, t)
         \/ \E t \in Tags : MoveToTag(t)
         \/ Relayout \/ ControlNoFocus
         \/ \E enabled \in BOOLEAN : SetPolicy(enabled)
         \/ \E connected \in SUBSET Outputs : SetOutputs(connected)
  PROVE  ActivatedAgrees'
<1>1. ConfigureLayout(None)
  BY DEF CommitUnmap, FocusOther, Press, ControlFocus, CommitMap, ControlHidden, AssignWindow,
     SelectTag, MoveToTag, Relayout, ControlNoFocus, SetPolicy, SetOutputs
<1> QED BY <1>1, WholeLayoutAgrees

LEMMA AgreesAfterOneWindow ==
  ASSUME IInv, ActivatedAgrees, NEW w \in Windows,
         \/ GetToplevel(w) \/ Unfullscreen(w)
         \/ \E floating \in BOOLEAN : SetFloating(w, floating)
         \/ \E requested \in Outputs \cup {NoOutput} : Fullscreen(w, requested)
  PROVE  ActivatedAgrees'
<1>1. ConfigureLayout(w) /\ seat' = seat
  BY DEF GetToplevel, Unfullscreen, SetFloating, Fullscreen
<1>2. \A v \in Windows \ {w} : win'[v] = win[v]
  BY DEF GetToplevel, Unfullscreen, LeaveFullscreen, SetFloating, Floated, Fullscreen, EnterFullscreen,
     IInv, WinOK
<1>3. DOMAIN outs' = DOMAIN outs /\ \A o \in DOMAIN outs : outs'[o].tag = outs[o].tag
  <2>1. \A o \in DOMAIN outs : Vacated(w)[o].tag = outs[o].tag
    BY DEF Vacated, IInv, OutsOK, OutputType
  <2>2. CASE outs' \in {outs, Vacated(w)}
    BY <2>1, <2>2 DEF Vacated
  <2>3. ASSUME NEW requested, Fullscreen(w, requested)
        PROVE  DOMAIN outs' = DOMAIN outs /\ \A o \in DOMAIN outs : outs'[o].tag = outs[o].tag
    <3> DEFINE target == IF requested \in DOMAIN outs THEN requested ELSE win[w].output
    <3>1. outs' = [o \in DOMAIN outs |->
                     IF o = target THEN [outs[o] EXCEPT !.fullscreen = w]
                     ELSE IF IsFullscreen(w) THEN Vacated(w)[o] ELSE outs[o]]
      BY <2>3 DEF Fullscreen, EnterFullscreen
    <3> HIDE DEF target
    <3>2. \A o \in DOMAIN outs : [outs[o] EXCEPT !.fullscreen = w].tag = outs[o].tag
      BY DEF IInv, OutsOK, OutputType
    <3> QED BY <2>1, <3>1, <3>2
  <2> QED BY <2>2, <2>3 DEF GetToplevel, Unfullscreen, LeaveFullscreen, SetFloating
<1>4. \A v \in Windows \ {w} : Focusable(win', outs', v) => Focusable(win, outs, v)
  BY <1>2, <1>3 DEF Focusable, Visible
<1> QED BY <1>1, <1>4, OneWindowAgrees

LEMMA AgreesAfterSetParent ==
  ASSUME IInv, ActivatedAgrees, NEW w \in Windows, NEW p \in Windows, SetParent(w, p)
  PROVE  ActivatedAgrees'
<1>1. seat' = seat /\ outs' = outs /\ \A v \in Windows \ {w} : win'[v] = win[v]
  BY DEF SetParent, IInv, WinOK
<1>2. \A v \in Windows \ {w} : Focusable(win', outs', v) => Focusable(win, outs, v)
  BY <1>1 DEF Focusable, Visible
<1>3. CASE ConfigureLayout(w)
  BY <1>1, <1>2, <1>3, OneWindowAgrees
<1>4. CASE ~ConfigureLayout(w)
  <2>1. told' = [told EXCEPT ![w] = "outdated"]
    BY <1>4 DEF SetParent
  <2>2. told'[w] = "outdated" /\ \A v \in Windows \ {w} : told'[v] = told[v]
    BY <2>1 DEF IInv
  <2> QED BY <1>1, <1>2, <2>2, QuietStepAgrees
<1> QED BY <1>3, <1>4

LEMMA AgreesAfterDestroyToplevel ==
  ASSUME IInv, ActivatedAgrees, NEW w \in Windows, DestroyToplevel(w)
  PROVE  ActivatedAgrees'
<1>1. CASE win[w].mapped
  BY <1>1, WholeLayoutAgrees DEF DestroyToplevel
<1>2. CASE ~win[w].mapped
  <2>1. seat'.focus = seat.focus
    <3>1. seat.focus # w
      BY <1>2, NoneIsNoWindow DEF IInv, SeatOK, SeatBut, Alive
    <3> QED BY <3>1 DEF DestroyToplevel, Leave, Forget, IInv, SeatOK, SeatBut, SeatType
  <2>2. told' = [told EXCEPT ![w] = "outdated"]
    BY <1>2 DEF DestroyToplevel
  <2>3. \A v \in Windows \ {w} :
          /\ win'[v].role = win[v].role /\ win'[v].mapped = win[v].mapped
          /\ win'[v].hidden = win[v].hidden
          /\ win'[v].output = win[v].output /\ win'[v].tag = win[v].tag
    BY DEF DestroyToplevel, IInv, WinOK, WindowType
  <2>4. DOMAIN outs' = DOMAIN outs /\ \A o \in DOMAIN outs : outs'[o].tag = outs[o].tag
    BY DEF DestroyToplevel, Vacated, IInv, OutsOK, OutputType
  <2>5. \A v \in Windows \ {w} : Focusable(win', outs', v) => Focusable(win, outs, v)
    BY <2>3, <2>4 DEF Focusable, Visible
  <2>6. told'[w] = "outdated" /\ \A v \in Windows \ {w} : told'[v] = told[v]
    BY <2>2 DEF IInv
  <2> QED BY <2>1, <2>5, <2>6, QuietStepAgrees
<1> QED BY <1>1, <1>2

LEMMA AgreesAfterDisconnect ==
  ASSUME IInv, ActivatedAgrees, NEW c \in Clients, NEW toplevelFirst, Disconnect(c, toplevelFirst)
  PROVE  ActivatedAgrees'
<1> DEFINE dead == {w \in Windows : owner[w] = c /\ win[w].role # "gone"}
<1>1. CASE \E w \in dead : win[w].mapped
  BY <1>1, WholeLayoutAgrees DEF Disconnect
<1>2. CASE ~\E w \in dead : win[w].mapped
  <2>1. seat'.focus = seat.focus
    <3>1. seat.focus \notin dead
      BY <1>2, NoneIsNoWindow DEF IInv, SeatOK, SeatBut, Alive
    <3> QED BY <3>1 DEF Disconnect
  <2>2. told' = [w \in Windows |-> IF w \in dead THEN "outdated" ELSE told[w]]
    BY <1>2 DEF Disconnect
  <2>3. \A v \in Windows \ dead : win'[v] = win[v]
    BY DEF Disconnect
  <2>4. DOMAIN outs' = DOMAIN outs /\ \A o \in DOMAIN outs : outs'[o].tag = outs[o].tag
    BY DEF Disconnect, IInv, OutsOK, OutputType
  <2>5. \A v \in Windows \ dead : Focusable(win', outs', v) => Focusable(win, outs, v)
    BY <2>3, <2>4 DEF Focusable, Visible
  <2> QED BY <2>1, <2>2, <2>5, QuietStepAgrees
<1> QED BY <1>1, <1>2

LEMMA AgreesAfterQuietStep ==
  ASSUME IInv, ActivatedAgrees,
         \/ \E w \in Windows : ClearParent(w) \/ DestroySurface(w) \/ SuperDrag(w)
         \/ \E o \in Outputs : MovePointer(o)
         \/ InputReset
         \/ UNCHANGED vars
  PROVE  ActivatedAgrees'
<1>1. CASE (\E w \in Windows : SuperDrag(w)) \/ InputReset
  BY <1>1 DEF SuperDrag, InputReset, Outdated, ActivatedAgrees
<1>2. ASSUME NEW w \in Windows, ClearParent(w) \/ DestroySurface(w) PROVE ActivatedAgrees'
  <2>1. seat' = seat /\ told' = told /\ outs' = outs /\ \A v \in Windows \ {w} : win'[v] = win[v]
    BY <1>2 DEF ClearParent, DestroySurface, IInv, WinOK
  <2>2. Focusable(win', outs', w) => Focusable(win, outs, w)
    BY <1>2, <2>1, GoneTyped DEF ClearParent, DestroySurface, Focusable, Visible, IInv, WinOK, WindowType
  <2>3. \A v \in Windows : Focusable(win', outs', v) => Focusable(win, outs, v)
    BY <2>1, <2>2 DEF Focusable, Visible
  <2> QED BY <2>1, <2>3, QuietStepAgrees
<1>3. CASE (\E o \in Outputs : MovePointer(o)) \/ UNCHANGED vars
  BY <1>3 DEF MovePointer, vars, ActivatedAgrees, Focusable, Visible
<1> QED BY <1>1, <1>2, <1>3

LEMMA NextAgrees ==
  ASSUME IInv, ActivatedAgrees, [Next]_vars
  PROVE  ActivatedAgrees'
<1>1. CASE ApplicationStep
  <2>1. ASSUME NEW w \in Windows,
               \/ GetToplevel(w) \/ Unfullscreen(w)
               \/ \E b \in BOOLEAN : SetFloating(w, b)
               \/ \E o \in Outputs \cup {NoOutput} : Fullscreen(w, o)
        PROVE  ActivatedAgrees'
    BY <2>1, AgreesAfterOneWindow
  <2>2. ASSUME NEW w \in Windows, ClearParent(w) \/ DestroySurface(w) PROVE ActivatedAgrees'
    BY <2>2, AgreesAfterQuietStep
  <2>3. ASSUME NEW w \in Windows,
               CommitUnmap(w) \/ \E b, tiny \in BOOLEAN : CommitMap(w, b, tiny)
        PROVE  ActivatedAgrees'
    BY <2>3, AgreesAfterWholeLayout
  <2> QED BY <1>1, <2>1, <2>2, <2>3, AgreesAfterSetParent, AgreesAfterDestroyToplevel,
          AgreesAfterDisconnect DEF ApplicationStep
<1>2. CASE InputStep
  <2>1. CASE \/ \E w \in Windows : SuperDrag(w)
             \/ \E o \in Outputs : MovePointer(o)
             \/ InputReset
    BY <2>1, AgreesAfterQuietStep
  <2>2. CASE \/ \E w \in Windows : FocusOther(w) \/ Press(w)
             \/ \E o \in Outputs, t \in Tags : SelectTag(o, t)
             \/ \E t \in Tags : MoveToTag(t)
             \/ Relayout
    BY <2>2, AgreesAfterWholeLayout
  <2> QED BY <1>2, <2>1, <2>2 DEF InputStep
<1>3. CASE ManagerStep
  BY <1>3, AgreesAfterWholeLayout DEF ManagerStep
<1>4. CASE BackendStep
  BY <1>4, AgreesAfterWholeLayout DEF BackendStep
<1>5. CASE UNCHANGED vars
  BY <1>5, AgreesAfterQuietStep
<1> QED BY <1>1, <1>2, <1>3, <1>4, <1>5 DEF Next

\* Applications on screen agree with the seat about who is activated, unless
\* the last change was one of the few that configure nobody.
THEOREM ClientsAgree == Spec => []ActivatedAgrees
<1>1. Init => ActivatedAgrees
  BY DEF Init, Outdated, ActivatedAgrees
<1>2. IInv /\ ActivatedAgrees /\ [Next]_vars => ActivatedAgrees'
  BY NextAgrees
<1> QED BY <1>1, <1>2, Invariance, PTL DEF Spec
----------------------------------------------------------------------------
(* What a step never does.                                                 *)

\* No slot of os2 has passed from one window of os1 to another.
SlotsKept(os1, os2) ==
  \A o \in DOMAIN os1 \cap DOMAIN os2 :
    os1[o].fullscreen # None => os2[o].fullscreen \in {None, os1[o].fullscreen}

LEMMA VacatedKeepsSlots ==
  ASSUME IInv, NEW w \in Windows
  PROVE  SlotsKept(outs, Vacated(w))
BY DEF SlotsKept, Vacated, IInv, OutsOK, OutputType

LEMMA FullscreenKeepsSlots ==
  ASSUME IInv, NEW w \in Windows, NEW requested, Fullscreen(w, requested)
  PROVE  SlotsKept(outs, outs')
<1> DEFINE target == IF requested \in DOMAIN outs THEN requested ELSE win[w].output
<1>1. /\ target \in DOMAIN outs /\ outs[target].fullscreen \in {None, w}
      /\ outs' = [o \in DOMAIN outs |->
                    IF o = target THEN [outs[o] EXCEPT !.fullscreen = w]
                    ELSE IF IsFullscreen(w) THEN Vacated(w)[o] ELSE outs[o]]
  BY DEF Fullscreen, EnterFullscreen
<1> HIDE DEF target
<1>2. [outs[target] EXCEPT !.fullscreen = w].fullscreen = w
  BY <1>1 DEF IInv, OutsOK, OutputType
<1>3. \A o \in DOMAIN outs :
        outs[o].fullscreen # None => Vacated(w)[o].fullscreen \in {None, outs[o].fullscreen}
  BY VacatedKeepsSlots DEF SlotsKept, Vacated
<1> QED BY <1>1, <1>2, <1>3 DEF SlotsKept

LEMMA SwitchedKeepsSlots ==
  ASSUME IInv, NEW o \in DOMAIN outs, NEW t
  PROVE  SlotsKept(outs, Switched(o, t))
BY DEF SlotsKept, Switched, IInv, OutsOK, OutputType

LEMMA NextKeepsSlots ==
  ASSUME IInv, [Next]_vars
  PROVE  SlotsKept(outs, outs')
<1>1. CASE outs' = outs
  BY <1>1 DEF SlotsKept
<1>2. ASSUME NEW w \in Windows, outs' = Vacated(w) PROVE SlotsKept(outs, outs')
  BY <1>2, VacatedKeepsSlots
<1>3. CASE ApplicationStep
  <2>1. ASSUME NEW c \in Clients, NEW toplevelFirst, Disconnect(c, toplevelFirst)
        PROVE  SlotsKept(outs, outs')
    BY <2>1 DEF Disconnect, SlotsKept, IInv, OutsOK, OutputType
  <2> QED BY ZenonT(40), <1>1, <1>2, <1>3, <2>1, FullscreenKeepsSlots
          DEF ApplicationStep, GetToplevel, ClearParent, CommitUnmap, DestroyToplevel, DestroySurface,
              Unfullscreen, LeaveFullscreen, SetParent, CommitMap, SetFloating
<1>4. CASE InputStep
  BY <1>1, <1>4, SwitchedKeepsSlots
     DEF InputStep, MovePointer, SelectTag, MoveToTag, FocusOther, Press, SuperDrag, Relayout, InputReset
<1>5. CASE ManagerStep
  BY <1>1, <1>2, <1>5, SwitchedKeepsSlots
     DEF ManagerStep, ControlFocus, ControlHidden, AssignWindow, ControlNoFocus, SetPolicy
<1>6. CASE BackendStep
  BY <1>6 DEF BackendStep, SetOutputs, SlotsKept
<1>7. CASE UNCHANGED vars
  BY <1>1, <1>7 DEF vars
<1> QED BY <1>3, <1>4, <1>5, <1>6, <1>7 DEF Next

\* A window is never pushed out of the fullscreen slot of its output by another
\* one (set_fullscreen() refuses a target whose slot is taken).
THEOREM FullscreenNeverStolen == Spec => FullscreenKept
<1>1. IInv /\ [Next]_vars => [SlotsKept(outs, outs')]_outs
  BY NextKeepsSlots
<1> QED BY <1>1, Invariance, PTL DEF Spec, FullscreenKept, SlotsKept

\* What the policy says of a step that maps or unmaps windows.
PolicyObeyed ==
  policy /\ seat'.focus # seat.focus =>
    \A w \in Windows :
      /\ win'[w].mapped /\ ~win[w].mapped =>
           /\ seat'.focus = w
           /\ win'[w].floating \/ (win[w].parent # None /\ win[w].parent = seat.focus)
      /\ win[w].mapped /\ ~win'[w].mapped => seat'.focus \in {None, win[w].parent}

LEMMA NothingMapsOrUnmaps ==
  ASSUME \/ seat' = seat
         \/ \A w \in Windows : win'[w].mapped = win[w].mapped
  PROVE  PolicyObeyed
BY DEF PolicyObeyed

LEMMA CommitMapObeys ==
  ASSUME IInv, NEW w \in Windows, NEW floating \in BOOLEAN, NEW tiny \in BOOLEAN,
         CommitMap(w, floating, tiny)
  PROVE  PolicyObeyed
<1> SUFFICES ASSUME policy, seat'.focus # seat.focus PROVE PolicyObeyed
  BY DEF PolicyObeyed
<1>1. TakesFocus(win', w) /\ seat' = Focus(seat, w)
  BY DEF CommitMap
<1>2. seat'.focus = w
  BY <1>1 DEF Focus, IInv, SeatOK, SeatBut, SeatType
<1>3. /\ \A v \in Windows \ {w} : win'[v].mapped = win[v].mapped
      /\ win'[w].mapped /\ ~win[w].mapped /\ win'[w].parent = win[w].parent
  BY DEF CommitMap, IInv, WinOK, WindowType
<1>4. win'[w].floating \/ (win[w].parent # None /\ win[w].parent = seat.focus)
  BY <1>1, <1>3 DEF TakesFocus
<1> QED BY <1>2, <1>3, <1>4 DEF PolicyObeyed

\* With a policy, a window that leaves can only pass the focus to its parent.
LEMMA LeavePassesToParent ==
  ASSUME IInv, policy, NEW ws, NEW os, NEW w \in Windows, Leave(ws, os, seat, w).focus # seat.focus
  PROVE  Leave(ws, os, seat, w).focus \in {None, ws[w].parent}
<1>1. seat.focus = w
  BY DEF Leave, Forget, IInv, SeatOK, SeatBut, SeatType
<1> DEFINE next == FocusFallback(ws, os, seat, w)
<1>2. next \in {None, ws[w].parent}
  BY NoneIsNoWindow DEF FocusFallback
<1> HIDE DEF next
<1>3. Leave(ws, os, seat, w).focus = next
  BY <1>1 DEF Leave, Forget, Focus, next, IInv, SeatOK, SeatBut, SeatType
<1> QED BY <1>2, <1>3

LEMMA CommitUnmapObeys ==
  ASSUME IInv, NEW w \in Windows, CommitUnmap(w)
  PROVE  PolicyObeyed
<1>1. /\ \A v \in Windows \ {w} : win'[v].mapped = win[v].mapped
      /\ ~win'[w].mapped /\ win'[w].parent = win[w].parent
  BY DEF CommitUnmap, IInv, WinOK, WindowType
<1> QED BY ZenonT(40), <1>1, LeavePassesToParent DEF PolicyObeyed, CommitUnmap

LEMMA DestroyToplevelObeys ==
  ASSUME IInv, NEW w \in Windows, DestroyToplevel(w)
  PROVE  PolicyObeyed
<1>1. /\ \A v \in Windows \ {w} : win'[v].mapped = win[v].mapped
      /\ ~win'[w].mapped /\ win'[w].parent = None
  BY DEF DestroyToplevel, NewWindow, IInv, WinOK, WindowType
<1> QED BY <1>1, LeavePassesToParent DEF PolicyObeyed, DestroyToplevel

LEMMA DisconnectObeys ==
  ASSUME IInv, NEW c \in Clients, NEW toplevelFirst, Disconnect(c, toplevelFirst)
  PROVE  PolicyObeyed
<1>1. \A v \in Windows : win'[v] \in {win[v], Gone}
  BY DEF Disconnect
<1>2. ~Gone.mapped
  BY DEF Gone, NewWindow
<1>3. policy => seat'.focus \in {None, seat.focus}
  BY DEF Disconnect
<1> QED BY <1>1, <1>2, <1>3 DEF PolicyObeyed

LEMMA NextObeys ==
  ASSUME IInv, [Next]_vars
  PROVE  PolicyObeyed
<1>1. CASE ApplicationStep
  BY <1>1, NothingMapsOrUnmaps, CommitMapObeys, CommitUnmapObeys, DestroyToplevelObeys, DisconnectObeys
     DEF ApplicationStep, GetToplevel, ClearParent, DestroySurface, Unfullscreen, SetParent, SetFloating,
         Fullscreen
<1>2. CASE InputStep
  <2>1. ASSUME NEW t \in Tags, MoveToTag(t)
        PROVE  \A w \in Windows : win'[w].mapped = win[w].mapped
    BY <2>1 DEF MoveToTag, IInv, WinOK, WindowType
  <2> QED BY <1>2, <2>1, NothingMapsOrUnmaps
          DEF InputStep, MovePointer, SelectTag, FocusOther, Press, SuperDrag, Relayout, InputReset
<1>3. CASE ManagerStep
  <2>1. ASSUME NEW w \in Windows,
               \/ \E hidden \in BOOLEAN : ControlHidden(w, hidden)
               \/ \E o \in Outputs, t \in Tags : AssignWindow(w, o, t)
        PROVE  \A v \in Windows : win'[v].mapped = win[v].mapped
    <3>1. ASSUME NEW hidden \in BOOLEAN, ControlHidden(w, hidden)
          PROVE  \A v \in Windows : win'[v].mapped = win[v].mapped
      <4> DEFINE base == IF IsFullscreen(w) /\ hidden THEN Restored(win[w]) ELSE win[w]
      <4>1. win' = [win EXCEPT ![w] = [base EXCEPT !.hidden = hidden]]
        BY <3>1 DEF ControlHidden
      <4>2. [base EXCEPT !.hidden = hidden].mapped = win[w].mapped
        BY DEF Restored, IInv, WinOK, WindowType
      <4> HIDE DEF base
      <4> QED BY <4>1, <4>2 DEF IInv, WinOK
    <3>2. ASSUME NEW o \in Outputs, NEW t \in Tags, AssignWindow(w, o, t)
          PROVE  \A v \in Windows : win'[v].mapped = win[v].mapped
      BY <3>2 DEF AssignWindow, IInv, WinOK, WindowType
    <3> QED BY <2>1, <3>1, <3>2
  <2> QED BY <1>3, <2>1, NothingMapsOrUnmaps DEF ManagerStep, ControlFocus, ControlNoFocus, SetPolicy
<1>4. CASE BackendStep
  BY <1>4, NothingMapsOrUnmaps DEF BackendStep, SetOutputs
<1>5. CASE UNCHANGED vars
  BY <1>5, NothingMapsOrUnmaps DEF vars
<1> QED BY <1>1, <1>2, <1>3, <1>4, <1>5 DEF Next

\* While a manager owns the policy, applications that map or close windows get
\* the keyboard, or pass it on, only where the policy lets them (focus_fallback()
\* and the end of surface_commit()).
THEOREM PolicyRulesFocus == Spec => PolicyDecidesFocus
<1>1. IInv /\ [Next]_vars => [PolicyObeyed]_seat
  BY NextObeys
<1> QED BY <1>1, Invariance, PTL DEF Spec, PolicyDecidesFocus, PolicyObeyed
=============================================================================
