---------------------------- MODULE Input_proof ----------------------------
(***************************************************************************)
(* What was pressed on a device comes up again: the inductive invariants   *)
(* of the keyboards, the touches and the pointer.                          *)
(***************************************************************************)
EXTENDS InputMC, SequenceTheorems, TLAPS

-----------------------------------------------------------------------------
(* Keyboards: every key down is held by a source and went to one taker.     *)

keys == v1
seat == v5
note == v6
kbdState == <<v1, v2, v3, v4, v5, v6>>

KeyRecords ==
  [src : [Key!Sources -> SUBSET Keys], pressed : SUBSET Keys, consumed : SUBSET Keys,
   external : SUBSET Keys, focus : Clients \cup {None}]
OvRecords == [on : BOOLEAN, visible : BOOLEAN, timer : BOOLEAN]
NoteRecords == [live : BOOLEAN, idle : BOOLEAN, left : 0 .. Timeout, quiet : 0 .. Timeout]
SeatRecords == [locked : BOOLEAN, policy : BOOLEAN, live : SUBSET Virtuals, xkb : SUBSET Keys]

\* The state a handler works on; `kb` are the clients with a wl_keyboard.
Works(st) ==
  /\ DOMAIN st = {"keys", "told", "ov", "xkb"}
  /\ st.keys \in KeyRecords /\ st.told \in [Clients -> SUBSET Keys] /\ st.ov \in OvRecords
  /\ st.xkb \in SUBSET Keys

\* The clients know of the keys that are down and taken by nobody, but for `ks`.
Known(st, kb, ks) ==
  \A c \in Clients : st.told[c] = IF c \in kb /\ c = st.keys.focus
                                  THEN (st.keys.pressed \ st.keys.consumed) \ ks ELSE {}

Balanced(st) ==
  /\ \A k \in Keys : k \in st.keys.pressed <=> Key!Held(st.keys.src, k)
  /\ st.xkb = st.keys.pressed
  /\ st.keys.external \subseteq st.keys.consumed /\ st.keys.consumed \subseteq st.keys.pressed
  /\ st.ov.visible /\ ~st.ov.on => st.ov.timer

KeysAt(st, kb) == Works(st) /\ Balanced(st) /\ Known(st, kb, {})

\* A virtual keyboard that is gone holds no key, and none does while locked.
VirtualsHold(src, s) ==
  \A v \in Virtuals : src[v] # {} => v \in s.live /\ ~s.locked

NoteHonest(n) ==
  n.live => n.left + n.quiet = Timeout /\ (n.idle <=> n.quiet = Timeout)

KeyInv ==
  /\ KeysAt(Key!Here, v3) /\ v3 \subseteq Clients
  /\ seat \in SeatRecords /\ VirtualsHold(keys.src, seat)
  /\ note \in NoteRecords /\ NoteHonest(note)

\* The invariant has the types and the properties.
LEMMA KeySafe ==
  ASSUME InputAssumption, KeyInv
  PROVE  /\ Key!TypeOK /\ Key!KeysBalanced /\ Key!ClientsKeys /\ Key!TakenKeys
         /\ Key!OverviewEnds /\ Key!IdleHonest
<1> DEFINE H == Key!Here
<1>1. /\ H.keys = v1 /\ H.told = v2 /\ H.ov = v4 /\ H.xkb = v5.xkb
  BY DEF Key!Here
<1>2. Works(H) /\ Balanced(H) /\ Known(H, v3, {})
  BY DEF KeyInv, KeysAt
<1> HIDE DEF H
<1>3. Key!TypeOK
  BY <1>1, <1>2 DEF KeyInv, Works, KeyRecords, SeatRecords, Key!TypeOK, seat
<1>4. Key!KeysBalanced
  <2>1. v1.pressed = UNION {v1.src[s] : s \in Key!Sources}
    BY <1>1, <1>2 DEF Works, KeyRecords, Balanced, Key!Held
  <2> QED
    BY <1>1, <1>2, <2>1 DEF KeyInv, Balanced, VirtualsHold, Key!KeysBalanced, seat, keys
<1>5. Key!ClientsKeys
  BY <1>1, <1>2 DEF Known, Key!ClientsKeys
<1>6. Key!TakenKeys /\ Key!OverviewEnds
  BY <1>1, <1>2 DEF Balanced, Key!TakenKeys, Key!OverviewEnds
<1>7. Key!IdleHonest
  BY DEF KeyInv, NoteHonest, Key!IdleHonest, note
<1> QED
  BY <1>3, <1>4, <1>5, <1>6, <1>7

LEMMA KeyInit == ASSUME InputAssumption, Key!Init PROVE KeyInv
<1> DEFINE H == Key!Here
<1>1. /\ H.keys = v1 /\ H.told = v2 /\ H.ov = v4 /\ H.xkb = v5.xkb /\ DOMAIN H = {"keys", "told", "ov", "xkb"}
  BY DEF Key!Here
<1> HIDE DEF H
<1>2. Works(H)
  BY <1>1 DEF Key!Init, Works, KeyRecords, OvRecords, Key!NoOverview
<1>3. Balanced(H) /\ Known(H, v3, {})
  BY <1>1 DEF Key!Init, Balanced, Known, Key!Held, Key!NoOverview
<1>4. KeysAt(Key!Here, v3)
  BY <1>2, <1>3 DEF KeysAt, H
<1>5. v3 \subseteq Clients /\ seat \in SeatRecords /\ VirtualsHold(keys.src, seat)
  BY DEF Key!Init, SeatRecords, VirtualsHold, seat, keys, Key!Sources
<1>6. note \in NoteRecords /\ NoteHonest(note)
  BY DEF Key!Init, NoteRecords, NoteHonest, note, Key!NoNote, InputAssumption
<1> QED
  BY <1>4, <1>5, <1>6 DEF KeyInv

-----------------------------------------------------------------------------
(* What the handlers do to the keys.                                        *)

LEMMA FocusKeepsKeys ==
  ASSUME NEW st, NEW ks, Works(st), Balanced(st), Known(st, v3, ks),
         NEW next \in Clients \cup {None}, ks = {} \/ ks \subseteq st.keys.consumed
  PROVE  KeysAt(Key!SetFocus(st, next), v3)
<1> DEFINE r == Key!SetFocus(st, next)
<1>1. CASE st.keys.focus = next
  BY <1>1 DEF Key!SetFocus, KeysAt, Known
<1>2. CASE st.keys.focus # next
  <2>1. r = [st EXCEPT !.keys.focus = next,
               !.told = [c \in Clients |-> IF c = next /\ c \in v3 THEN Key!EnterKeys(st.keys) ELSE {}]]
    BY <1>2 DEF Key!SetFocus
  <2>2. /\ r.keys = [st.keys EXCEPT !.focus = next] /\ r.ov = st.ov /\ r.xkb = st.xkb
        /\ r.told = [c \in Clients |-> IF c = next /\ c \in v3 THEN Key!EnterKeys(st.keys) ELSE {}]
        /\ DOMAIN r = DOMAIN st
    BY <2>1 DEF Works
  <2> HIDE DEF r
  <2>3. Works(r)
    BY <2>2 DEF Works, KeyRecords, Key!EnterKeys
  <2>4. Balanced(r)
    BY <2>2 DEF Balanced, Works, KeyRecords
  <2>5. Known(r, v3, {})
    BY <2>2 DEF Known, Works, KeyRecords, Key!EnterKeys
  <2> QED
    BY <2>3, <2>4, <2>5 DEF KeysAt, r
<1> QED
  BY <1>1, <1>2

LEMMA OverviewKeepsKeys ==
  ASSUME NEW st, NEW kb, KeysAt(st, kb), NEW on \in BOOLEAN
  PROVE  KeysAt(Key!Overview(st, on), kb) /\ KeysAt(Key!StopOverview(st), kb)
<1> DEFINE r == Key!Overview(st, on)
           z == Key!StopOverview(st)
<1>1. /\ r.keys = st.keys /\ r.told = st.told /\ r.xkb = st.xkb /\ DOMAIN r = DOMAIN st
      /\ r.ov = [on |-> on, visible |-> on \/ st.ov.visible, timer |-> on \/ st.ov.visible]
  BY DEF Key!Overview, KeysAt, Works
<1>2. /\ z.keys = st.keys /\ z.told = st.told /\ z.xkb = st.xkb /\ DOMAIN z = DOMAIN st
      /\ z.ov = [on |-> FALSE, visible |-> FALSE, timer |-> FALSE]
  BY DEF Key!StopOverview, Key!NoOverview, KeysAt, Works
<1> HIDE DEF r, z
<1>3. st.ov.visible \in BOOLEAN
  BY DEF KeysAt, Works, OvRecords
<1>4. Works(r) /\ Works(z)
  BY <1>1, <1>2, <1>3 DEF KeysAt, Works, OvRecords
<1>5. Balanced(r) /\ Balanced(z)
  BY <1>1, <1>2 DEF KeysAt, Balanced
<1>6. Known(r, kb, {}) /\ Known(z, kb, {})
  BY <1>1, <1>2 DEF KeysAt, Known
<1> QED
  BY <1>4, <1>5, <1>6 DEF KeysAt, r, z

LEMMA LetGoKeeps ==
  ASSUME NEW st, KeysAt(st, v3), NEW left \in [Key!Sources -> SUBSET Keys], NEW ks \in SUBSET Keys,
         \A k \in Keys : Key!Held(left, k) => Key!Held(st.keys.src, k),
         \A k \in Keys \ ks : Key!Held(st.keys.src, k) => Key!Held(left, k)
  PROVE  /\ KeysAt(Key!LetGo(st, left, ks), v3) /\ Key!LetGo(st, left, ks).keys.src = left
         /\ Key!LetGo(st, left, ks).keys.focus = st.keys.focus
         /\ Key!LetGo(st, left, ks).ov = st.ov
<1> DEFINE up == {k \in ks \cap st.keys.pressed : ~Key!Held(left, k)}
           at == [st EXCEPT !.keys.src = left]
           r == Key!Released(at, up)
           c == st.keys.focus
<1>0. Works(st) /\ Balanced(st) /\ Known(st, v3, {})
  BY DEF KeysAt
<1>1. /\ at.keys = [st.keys EXCEPT !.src = left] /\ at.told = st.told /\ at.ov = st.ov
      /\ at.xkb = st.xkb /\ DOMAIN at = DOMAIN st
  BY <1>0 DEF Works
<1>2. /\ at.keys \in KeyRecords /\ at.keys.src = left /\ at.keys.pressed = st.keys.pressed
      /\ at.keys.consumed = st.keys.consumed /\ at.keys.external = st.keys.external
      /\ at.keys.focus = c
  BY <1>0, <1>1 DEF Works, KeyRecords
<1> HIDE DEF at
<1>3. /\ r.keys = [at.keys EXCEPT !.pressed = @ \ up, !.consumed = @ \ up,
                     !.external = @ \ (up \cap at.keys.consumed)]
      /\ r.xkb = st.xkb \ up /\ r.ov = st.ov /\ DOMAIN r = DOMAIN st
      /\ r.told = [d \in Clients |-> IF d \in v3 /\ d = c THEN st.told[d] \ (up \ st.keys.consumed) ELSE st.told[d]]
  <2>1. r = [at EXCEPT !.keys.pressed = @ \ up, !.keys.consumed = @ \ up,
                       !.keys.external = @ \ (up \cap st.keys.consumed), !.xkb = @ \ up,
                       !.told = [d \in Clients |-> IF d \in v3 /\ d = c THEN st.told[d] \ (up \ st.keys.consumed) ELSE st.told[d]]]
    BY <1>1, <1>2 DEF Key!Released
  <2> HIDE DEF r, up
  <2>2. r.keys = [at.keys EXCEPT !.pressed = @ \ up, !.consumed = @ \ up,
                     !.external = @ \ (up \cap at.keys.consumed)]
    BY <1>0, <1>1, <1>2, <2>1 DEF Works
  <2>3. r.xkb = st.xkb \ up /\ r.ov = st.ov /\ DOMAIN r = DOMAIN st
    BY <1>0, <1>1, <2>1 DEF Works
  <2>4. r.told = [d \in Clients |-> IF d \in v3 /\ d = c THEN st.told[d] \ (up \ st.keys.consumed) ELSE st.told[d]]
    BY <1>0, <1>1, <2>1 DEF Works
  <2> QED
    BY <2>2, <2>3, <2>4
<1>4. r = Key!LetGo(st, left, ks)
  BY DEF Key!LetGo, at
<1> HIDE DEF r
<1>5. /\ r.keys \in KeyRecords /\ r.keys.src = left /\ r.keys.focus = c
      /\ r.keys.pressed = st.keys.pressed \ up /\ r.keys.consumed = st.keys.consumed \ up
      /\ r.keys.external = st.keys.external \ (up \cap st.keys.consumed)
  <2> DEFINE gone == up \cap at.keys.consumed
  <2>1. r.keys = [at.keys EXCEPT !.pressed = @ \ up, !.consumed = @ \ up, !.external = @ \ gone]
    BY <1>3
  <2>2. gone = up \cap st.keys.consumed
    BY <1>2
  <2> HIDE DEF up, gone
  <2>3. /\ r.keys \in KeyRecords /\ r.keys.src = at.keys.src /\ r.keys.focus = at.keys.focus
        /\ r.keys.pressed = at.keys.pressed \ up /\ r.keys.consumed = at.keys.consumed \ up
        /\ r.keys.external = at.keys.external \ gone
    BY <1>2, <2>1 DEF KeyRecords
  <2> QED
    BY <1>2, <2>2, <2>3
<1>6. \A d \in Clients : r.told[d] = IF c \in v3 /\ d = c THEN st.told[d] \ (up \ st.keys.consumed) ELSE st.told[d]
  BY <1>0, <1>3 DEF Works
<1>7. r.told \in [Clients -> SUBSET Keys]
  <2> HIDE DEF c, up
  <2>1. st.told \in [Clients -> SUBSET Keys]
    BY <1>0 DEF Works
  <2>2. r.told = [d \in Clients |-> IF d \in v3 /\ d = c THEN st.told[d] \ (up \ st.keys.consumed) ELSE st.told[d]]
    BY <1>3
  <2> QED
    BY ONLY <2>1, <2>2
<1>8. Works(r)
  BY <1>0, <1>3, <1>5, <1>7 DEF Works
<1>9. Balanced(r)
  <2>1. \A k \in Keys : k \in r.keys.pressed <=> Key!Held(r.keys.src, k)
    BY <1>0, <1>5 DEF Balanced
  <2> QED
    BY <1>0, <1>3, <1>5, <2>1 DEF Balanced
<1>10. Known(r, v3, {})
  <2> SUFFICES ASSUME NEW d \in Clients
               PROVE  r.told[d] = IF d \in v3 /\ d = r.keys.focus
                                  THEN (r.keys.pressed \ r.keys.consumed) \ {} ELSE {}
    BY DEF Known
  <2>1. st.told[d] = IF d \in v3 /\ d = c THEN (st.keys.pressed \ st.keys.consumed) \ {} ELSE {}
    BY <1>0 DEF Known
  <2>2. CASE d \in v3 /\ d = c
    <3>1. r.told[d] = (st.keys.pressed \ st.keys.consumed) \ (up \ st.keys.consumed)
      BY <1>6, <2>1, <2>2
    <3> HIDE DEF up
    <3> QED
      BY <1>5, <2>2, <3>1
  <2>3. CASE ~(d \in v3 /\ d = c)
    BY <1>5, <1>6, <2>1, <2>3
  <2> QED
    BY <2>2, <2>3
<1> QED
  BY <1>3, <1>4, <1>5, <1>8, <1>9, <1>10 DEF KeysAt

LEMMA ReleaseKeeps ==
  ASSUME NEW st, KeysAt(st, v3), NEW s \in Key!Sources, NEW k \in Keys
  PROVE  /\ KeysAt(Key!ReleaseKey(st, s, k), v3)
         /\ \A v \in Key!Sources : Key!ReleaseKey(st, s, k).keys.src[v] \subseteq st.keys.src[v]
<1> DEFINE left == [st.keys.src EXCEPT ![s] = @ \ {k}]
           ks == {k}
<1>0. st.keys.src \in [Key!Sources -> SUBSET Keys]
  BY DEF KeysAt, Works, KeyRecords
<1>1. /\ left \in [Key!Sources -> SUBSET Keys] /\ ks \in SUBSET Keys
      /\ \A v \in Key!Sources : left[v] = IF v = s THEN st.keys.src[v] \ ks ELSE st.keys.src[v]
  BY <1>0
<1> HIDE DEF left, ks
<1>2. \A j \in Keys : Key!Held(left, j) => Key!Held(st.keys.src, j)
  BY <1>1 DEF Key!Held
<1>3. \A j \in Keys \ ks : Key!Held(st.keys.src, j) => Key!Held(left, j)
  BY <1>1 DEF Key!Held
<1>4. /\ KeysAt(Key!LetGo(st, left, ks), v3) /\ Key!LetGo(st, left, ks).keys.src = left
  BY <1>1, <1>2, <1>3, LetGoKeeps
<1>5. Key!ReleaseKey(st, s, k) = IF k \notin st.keys.src[s] THEN st ELSE Key!LetGo(st, left, ks)
  BY DEF Key!ReleaseKey, left, ks
<1> QED
  BY <1>1, <1>4, <1>5

LEMMA SourcesKeep ==
  ASSUME NEW st, KeysAt(st, v3), NEW ss \in SUBSET Key!Sources
  PROVE  /\ KeysAt(Key!ReleaseSources(st, ss), v3)
         /\ \A v \in Key!Sources : Key!ReleaseSources(st, ss).keys.src[v] =
              IF v \in ss THEN {} ELSE st.keys.src[v]
         /\ Key!ReleaseSources(st, ss).keys.focus = st.keys.focus
         /\ Key!ReleaseSources(st, ss).ov = st.ov
<1> DEFINE left == [s \in Key!Sources |-> IF s \in ss THEN {} ELSE st.keys.src[s]]
           ks == UNION {st.keys.src[s] : s \in ss}
<1>0. st.keys.src \in [Key!Sources -> SUBSET Keys]
  BY DEF KeysAt, Works, KeyRecords
<1>1. /\ left \in [Key!Sources -> SUBSET Keys] /\ ks \in SUBSET Keys
      /\ \A v \in Key!Sources : left[v] = IF v \in ss THEN {} ELSE st.keys.src[v]
      /\ \A s \in ss : st.keys.src[s] \subseteq ks
  BY <1>0
<1>2. Key!ReleaseSources(st, ss) = Key!LetGo(st, left, ks)
  BY DEF Key!ReleaseSources
<1> HIDE DEF left, ks
<1>3. \A j \in Keys : Key!Held(left, j) => Key!Held(st.keys.src, j)
  BY <1>1 DEF Key!Held
<1>4. \A j \in Keys \ ks : Key!Held(st.keys.src, j) => Key!Held(left, j)
  BY <1>1 DEF Key!Held
<1>5. /\ KeysAt(Key!LetGo(st, left, ks), v3) /\ Key!LetGo(st, left, ks).keys.src = left
      /\ Key!LetGo(st, left, ks).keys.focus = st.keys.focus /\ Key!LetGo(st, left, ks).ov = st.ov
  BY <1>1, <1>3, <1>4, LetGoKeeps
<1> QED
  BY <1>1, <1>2, <1>5

LEMMA PressKeeps ==
  ASSUME NEW st, KeysAt(st, v3), NEW s \in Key!Sources, NEW k \in Keys,
         NEW next \in Clients \cup {None}, NEW mods \in BOOLEAN
  PROVE  /\ KeysAt(Key!PressKey(st, s, k, next, mods), v3)
         /\ \A v \in Key!Sources : v # s => Key!PressKey(st, s, k, next, mods).keys.src[v] = st.keys.src[v]
<1> DEFINE ks == {k}
           held == [st EXCEPT !.keys.src[s] = @ \cup ks]
           x == [held EXCEPT !.keys.pressed = @ \cup ks, !.xkb = @ \cup ks]
           z == Key!Pressed(x, k, next, mods)
           keeps(r) == KeysAt(r, v3) /\ \A v \in Key!Sources : v # s => r.keys.src[v] = st.keys.src[v]
<1>0. Works(st) /\ Balanced(st) /\ Known(st, v3, {}) /\ k \in ks /\ ks \subseteq Keys /\ \A j \in ks : j = k
  BY DEF KeysAt
<1>1. Key!PressKey(st, s, k, next, mods) =
        IF k \in st.keys.src[s] THEN st ELSE IF k \in st.keys.pressed THEN held ELSE z
  BY DEF Key!PressKey
<1> HIDE DEF ks
<1>2. /\ held.keys = [st.keys EXCEPT !.src[s] = @ \cup ks] /\ held.told = st.told /\ held.ov = st.ov
      /\ held.xkb = st.xkb /\ DOMAIN held = DOMAIN st
  BY <1>0 DEF Works
<1>3. /\ held.keys \in KeyRecords /\ held.keys.pressed = st.keys.pressed
      /\ held.keys.consumed = st.keys.consumed /\ held.keys.external = st.keys.external
      /\ held.keys.focus = st.keys.focus
      /\ \A v \in Key!Sources : held.keys.src[v] = IF v = s THEN st.keys.src[v] \cup ks ELSE st.keys.src[v]
  BY <1>0, <1>2 DEF Works, KeyRecords
<1> HIDE DEF held
<1>4. \A j \in Keys : Key!Held(held.keys.src, j) <=> Key!Held(st.keys.src, j) \/ j = k
  BY <1>0, <1>3 DEF Key!Held
<1>5. CASE k \in st.keys.src[s]
  BY <1>1, <1>5
<1>6. CASE k \notin st.keys.src[s] /\ k \in st.keys.pressed
  <2>1. Works(held)
    BY <1>0, <1>2, <1>3 DEF Works
  <2>2. Known(held, v3, {})
    BY <1>0, <1>2, <1>3 DEF Known
  <2>3. \A j \in Keys : j \in held.keys.pressed <=> Key!Held(held.keys.src, j)
    BY <1>0, <1>3, <1>4, <1>6 DEF Balanced
  <2>4. Balanced(held)
    BY <1>0, <1>2, <1>3, <2>3 DEF Balanced
  <2> QED
    BY <1>1, <1>3, <1>6, <2>1, <2>2, <2>4 DEF KeysAt
<1>7. CASE k \notin st.keys.src[s] /\ k \notin st.keys.pressed
  <2>1. /\ x.keys = [held.keys EXCEPT !.pressed = @ \cup ks] /\ x.told = st.told /\ x.ov = st.ov
        /\ x.xkb = st.xkb \cup ks /\ DOMAIN x = DOMAIN st
    BY <1>0, <1>2 DEF Works
  <2>2. /\ x.keys \in KeyRecords /\ x.keys.pressed = st.keys.pressed \cup ks
        /\ x.keys.consumed = st.keys.consumed /\ x.keys.external = st.keys.external
        /\ x.keys.focus = st.keys.focus /\ x.keys.src = held.keys.src
    BY <1>0, <1>3, <2>1 DEF KeyRecords
  <2> HIDE DEF x
  <2>3. Works(x) /\ k \notin st.keys.consumed
    BY <1>0, <1>7, <2>1, <2>2 DEF Works, Balanced
  <2>4. Balanced(x)
    BY <1>0, <1>4, <2>1, <2>2 DEF Balanced
  <2>5. Known(x, v3, ks)
    BY <1>0, <1>7, <2>1, <2>2 DEF Known, Balanced
  <2>6. \A v \in Key!Sources : v # s => x.keys.src[v] = st.keys.src[v]
    BY <1>3, <2>2
  \* Taken by the overview, a binding or the policy.
  <2> DEFINE eaten == [x EXCEPT !.keys.consumed = @ \cup ks]
             given == [x EXCEPT !.keys.consumed = @ \cup ks, !.keys.external = @ \cup ks]
  <2>7. /\ eaten.keys = [x.keys EXCEPT !.consumed = @ \cup ks] /\ eaten.told = x.told
        /\ eaten.ov = x.ov /\ eaten.xkb = x.xkb /\ DOMAIN eaten = DOMAIN x
        /\ given.keys = [x.keys EXCEPT !.consumed = @ \cup ks, !.external = @ \cup ks]
        /\ given.told = x.told /\ given.ov = x.ov /\ given.xkb = x.xkb /\ DOMAIN given = DOMAIN x
    BY <2>3 DEF Works
  <2>9. Key!PressExternal(x, k) = given /\ Key!PressBound(x, k, next) = Key!SetFocus(eaten, next)
    BY DEF Key!PressExternal, Key!PressBound, ks
  <2>10. Key!PressInOverview(x, k) = IF k = EscKey THEN Key!Overview(eaten, FALSE) ELSE eaten
    BY DEF Key!PressInOverview, ks
  <2> HIDE DEF eaten, given
  <2>11. KeysAt(eaten, v3) /\ eaten.keys.src = x.keys.src /\ ks \subseteq eaten.keys.consumed
    <3>1. /\ eaten.keys \in KeyRecords /\ eaten.keys.pressed = x.keys.pressed
          /\ eaten.keys.consumed = x.keys.consumed \cup ks /\ eaten.keys.external = x.keys.external
          /\ eaten.keys.focus = x.keys.focus /\ eaten.keys.src = x.keys.src
      BY <1>0, <2>2, <2>7 DEF KeyRecords
    <3>2. Works(eaten)
      BY <2>3, <2>7, <3>1 DEF Works
    <3>3. Balanced(eaten)
      BY <2>2, <2>4, <2>7, <3>1 DEF Balanced
    <3>4. Known(eaten, v3, {})
      BY <2>5, <2>7, <3>1 DEF Known
    <3> QED
      BY <3>1, <3>2, <3>3, <3>4 DEF KeysAt
  <2>12. KeysAt(given, v3) /\ given.keys.src = x.keys.src
    <3>1. /\ given.keys \in KeyRecords /\ given.keys.pressed = x.keys.pressed
          /\ given.keys.consumed = x.keys.consumed \cup ks /\ given.keys.external = x.keys.external \cup ks
          /\ given.keys.focus = x.keys.focus /\ given.keys.src = x.keys.src
      BY <1>0, <2>2, <2>7 DEF KeyRecords
    <3>2. Works(given)
      BY <2>3, <2>7, <3>1 DEF Works
    <3>3. Balanced(given)
      BY <2>2, <2>4, <2>7, <3>1 DEF Balanced
    <3>4. Known(given, v3, {})
      BY <2>5, <2>7, <3>1 DEF Known
    <3> QED
      BY <3>1, <3>2, <3>3, <3>4 DEF KeysAt
  <2>13. keeps(Key!PressExternal(x, k))
    BY <2>6, <2>9, <2>12
  <2>14. keeps(Key!PressBound(x, k, next))
    <3>1. KeysAt(Key!SetFocus(eaten, next), v3)
      BY <2>11, FocusKeepsKeys DEF KeysAt
    <3>2. Key!SetFocus(eaten, next).keys.src = eaten.keys.src
      BY <2>11 DEF Key!SetFocus, KeysAt, Works, KeyRecords
    <3> QED
      BY <2>6, <2>9, <2>11, <3>1, <3>2
  <2>15. keeps(Key!PressInOverview(x, k))
    <3>1. KeysAt(Key!Overview(eaten, FALSE), v3)
      BY <2>11, OverviewKeepsKeys
    <3>2. Key!Overview(eaten, FALSE).keys = eaten.keys
      BY <2>11 DEF Key!Overview, KeysAt, Works
    <3> QED
      BY <2>6, <2>10, <2>11, <3>1, <3>2
  \* The focused client gets it.
  <2>16. keeps(Key!Deliver(x, k, TRUE))
    <3> DEFINE d == Key!Deliver(x, k, TRUE)
               c == x.keys.focus
    <3>1. d = IF c \notin v3 THEN x ELSE [x EXCEPT !.told[c] = @ \cup ks]
      BY DEF Key!Deliver, ks
    <3>2. /\ d.keys = x.keys /\ d.ov = x.ov /\ d.xkb = x.xkb /\ DOMAIN d = DOMAIN x
          /\ d.told = IF c \notin v3 THEN x.told ELSE [x.told EXCEPT ![c] = @ \cup ks]
      BY <2>3, <3>1 DEF Works
    <3> HIDE DEF d
    <3>3. Works(d)
      BY <1>0, <2>3, <3>2 DEF Works
    <3>4. Balanced(d)
      BY <2>4, <3>2 DEF Balanced
    <3>5. Known(d, v3, {})
      <4> SUFFICES ASSUME NEW e \in Clients
                   PROVE  d.told[e] = IF e \in v3 /\ e = d.keys.focus
                                      THEN (d.keys.pressed \ d.keys.consumed) \ {} ELSE {}
        BY DEF Known
      <4>1. x.told[e] = IF e \in v3 /\ e = c THEN (x.keys.pressed \ x.keys.consumed) \ ks ELSE {}
        BY <2>5 DEF Known
      <4>2. CASE e \in v3 /\ e = c
        <5>1. d.told[e] = x.told[e] \cup ks
          BY <2>3, <3>2, <4>2 DEF Works
        <5>2. ks \subseteq x.keys.pressed /\ ks \cap x.keys.consumed = {}
          BY <1>0, <2>2, <2>3
        <5> QED
          BY <3>2, <4>1, <4>2, <5>1, <5>2
      <4>3. CASE ~(e \in v3 /\ e = c)
        <5>1. d.told[e] = x.told[e]
          BY <2>3, <3>2, <4>3 DEF Works
        <5> QED
          BY <3>2, <4>1, <4>3, <5>1
      <4> QED
        BY <4>2, <4>3
    <3> QED
      BY <2>6, <3>2, <3>3, <3>4, <3>5 DEF KeysAt, d
  <2>17. \/ z = Key!PressExternal(x, k) \/ z = Key!PressBound(x, k, next)
         \/ z = Key!PressInOverview(x, k) \/ z = Key!Deliver(x, k, TRUE)
    BY DEF Key!Pressed
  <2>18. keeps(z)
    BY <2>13, <2>14, <2>15, <2>16, <2>17
  <2> QED
    BY <1>1, <1>7, <2>18
<1> QED
  BY <1>5, <1>6, <1>7

-----------------------------------------------------------------------------
(* The steps.                                                               *)

\* What a handler leaves is what the variables are afterwards.
LEMMA KeysSet ==
  ASSUME NEW st, KeysAt(st, v3), Key!Set(st), seat'.xkb = st.xkb, v3' = v3
  PROVE  KeysAt(Key!Here, v3)' /\ keys' = st.keys
<1> DEFINE H == Key!Here'
<1>1. /\ H.keys = st.keys /\ H.told = st.told /\ H.ov = st.ov /\ H.xkb = st.xkb
      /\ DOMAIN H = {"keys", "told", "ov", "xkb"} /\ v1' = st.keys
  BY DEF Key!Here, Key!Set, seat
<1> HIDE DEF H
<1>2. Works(H)
  BY <1>1 DEF KeysAt, Works
<1>3. Balanced(H) /\ Known(H, v3', {})
  BY <1>1 DEF KeysAt, Balanced, Known
<1> QED
  BY <1>1, <1>2, <1>3 DEF KeysAt, H, Works, Balanced, Known, keys

\* An activity only restarts the timer of the notification.
LEMMA ActivityHonest ==
  ASSUME InputAssumption, note \in NoteRecords, NoteHonest(note), Key!Activity \/ UNCHANGED note
  PROVE  note' \in NoteRecords /\ NoteHonest(note')
<1>1. CASE UNCHANGED note
  BY <1>1 DEF NoteHonest
<1>2. CASE Key!Activity /\ note.live
  <2>1. note' = [note EXCEPT !.idle = FALSE, !.left = Timeout, !.quiet = 0]
    BY <1>2 DEF Key!Activity, note
  <2>2. Timeout \in Nat \ {0}
    BY DEF InputAssumption
  <2>3. Timeout \in 0 .. Timeout /\ 0 \in 0 .. Timeout
    BY <2>2
  <2>4. note' \in NoteRecords
    BY <2>1, <2>3 DEF NoteRecords
  <2>5. note'.left = Timeout /\ note'.quiet = 0
    BY <2>1 DEF NoteRecords
  <2>6. note'.idle = FALSE
    BY <2>1 DEF NoteRecords
  <2> QED
    BY <2>2, <2>4, <2>5, <2>6 DEF NoteHonest
<1>3. CASE Key!Activity /\ ~note.live
  BY <1>3 DEF Key!Activity, note, NoteHonest
<1> QED
  BY <1>1, <1>2, <1>3

LEMMA KeyKeepsKeys ==
  ASSUME InputAssumption, KeyInv,
         NEW s \in Key!Sources, NEW k \in Keys, NEW down \in BOOLEAN, Key!Key(s, k, down)
  PROVE  KeyInv'
<1> DEFINE H == Key!Here
<1>0. /\ KeysAt(H, v3) /\ seat \in SeatRecords /\ VirtualsHold(keys.src, seat)
      /\ H.keys = keys
  BY DEF KeyInv, Key!Here, keys
<1>1. /\ s # "physical" => s \in seat.live /\ ~seat.locked
      /\ Key!Activity /\ v3' = v3
  BY DEF Key!Key, Key!Physical, seat
<1>2. PICK next \in Clients \cup {None}, mods \in BOOLEAN :
        LET st == IF down THEN Key!PressKey(H, s, k, next, mods) ELSE Key!ReleaseKey(H, s, k)
        IN Key!Set(st) /\ seat' = [seat EXCEPT !.xkb = st.xkb]
  BY DEF Key!Key, seat
<1> DEFINE st == IF down THEN Key!PressKey(H, s, k, next, mods) ELSE Key!ReleaseKey(H, s, k)
<1> HIDE DEF H
<1>3. /\ KeysAt(st, v3) /\ \A v \in Key!Sources : v # s => st.keys.src[v] \subseteq keys.src[v]
  <2>1. CASE down
    BY <1>0, <2>1, PressKeeps
  <2>2. CASE ~down
    BY <1>0, <2>2, ReleaseKeeps
  <2> QED
    BY <2>1, <2>2
<1>4. Key!Set(st) /\ seat' = [seat EXCEPT !.xkb = st.xkb]
  BY <1>2
<1> HIDE DEF st
<1>5. seat'.xkb = st.xkb /\ seat' \in SeatRecords /\ seat'.live = seat.live /\ seat'.locked = seat.locked
  BY <1>0, <1>3, <1>4 DEF SeatRecords, KeysAt, Works
<1>6. KeysAt(Key!Here, v3)' /\ keys' = st.keys
  BY <1>1, <1>3, <1>4, <1>5, KeysSet
<1>7. VirtualsHold(keys', seat') \/ TRUE
  OBVIOUS
<1>8. VirtualsHold(keys'.src, seat')
  <2> SUFFICES ASSUME NEW v \in Virtuals, keys'.src[v] # {}
               PROVE  v \in seat'.live /\ ~seat'.locked
    BY DEF VirtualsHold
  <2>1. v # "physical" /\ v \in Key!Sources
    BY DEF InputAssumption, Key!Sources
  <2> QED
    BY <1>0, <1>1, <1>3, <1>5, <1>6, <2>1 DEF VirtualsHold
<1>9. (note \in NoteRecords)' /\ NoteHonest(note')
  BY <1>1, ActivityHonest DEF KeyInv
<1> QED
  BY <1>1, <1>5, <1>6, <1>8, <1>9 DEF KeyInv

\* A handler whose keys of the virtual keyboards are a part of those before.
LEMMA HandlerKeepsKeys ==
  ASSUME InputAssumption, KeyInv, NEW st, KeysAt(st, v3), Key!Set(st), v3' = v3,
         seat' \in SeatRecords, seat'.xkb = st.xkb, VirtualsHold(st.keys.src, seat'),
         Key!Activity \/ UNCHANGED note
  PROVE  KeyInv'
<1>1. KeysAt(Key!Here, v3)' /\ keys' = st.keys
  BY KeysSet
<1>2. (note \in NoteRecords)' /\ NoteHonest(note')
  BY ActivityHonest DEF KeyInv
<1> QED
  BY <1>1, <1>2 DEF KeyInv

LEMMA VirtualKeepsKeys ==
  ASSUME InputAssumption, KeyInv, NEW v \in Virtuals, Key!CreateVirtual(v) \/ Key!DestroyVirtual(v)
  PROVE  KeyInv'
<1> DEFINE H == Key!Here
<1>0. /\ KeysAt(H, v3) /\ seat \in SeatRecords /\ VirtualsHold(keys.src, seat)
      /\ H.keys = keys /\ H.xkb = seat.xkb /\ Key!Sources = {"physical"} \cup Virtuals
  BY DEF KeyInv, Key!Here, keys, seat, Key!Sources, Key!Physical
<1>1. CASE Key!CreateVirtual(v)
  <2>1. /\ Key!Set(H) /\ v3' = v3 /\ UNCHANGED note
        /\ seat' = [seat EXCEPT !.live = @ \cup {v}]
    BY <1>1 DEF Key!CreateVirtual, Key!Set, Key!Here, seat, note
  <2> HIDE DEF H
  <2>2. /\ seat' \in SeatRecords /\ seat'.xkb = seat.xkb /\ seat'.locked = seat.locked
        /\ seat.live \subseteq seat'.live
    BY <1>0, <2>1 DEF SeatRecords
  <2>3. VirtualsHold(H.keys.src, seat')
    BY <1>0, <2>2 DEF VirtualsHold
  <2> QED
    BY <1>0, <2>1, <2>2, <2>3, HandlerKeepsKeys
<1>2. CASE Key!DestroyVirtual(v)
  <2> DEFINE ss == {v}
             st == Key!ReleaseSources(H, ss)
  <2>1. /\ Key!Set(st) /\ v3' = v3 /\ (Key!Activity \/ UNCHANGED note)
        /\ seat' = [seat EXCEPT !.live = @ \ {v}, !.xkb = st.xkb]
    BY <1>2 DEF Key!DestroyVirtual, seat, note
  <2>2. ss \in SUBSET Key!Sources /\ v \in ss /\ \A w \in ss : w = v
    BY <1>0
  <2> HIDE DEF H, ss
  <2>3. /\ KeysAt(st, v3)
        /\ \A w \in Key!Sources : st.keys.src[w] = IF w \in ss THEN {} ELSE keys.src[w]
    BY <1>0, <2>2, SourcesKeep
  <2> HIDE DEF st
  <2>4. /\ seat' \in SeatRecords /\ seat'.xkb = st.xkb /\ seat'.locked = seat.locked
        /\ seat'.live = seat.live \ {v}
    BY <1>0, <2>1, <2>3 DEF SeatRecords, KeysAt, Works
  <2>5. VirtualsHold(st.keys.src, seat')
    BY <1>0, <2>2, <2>3, <2>4 DEF VirtualsHold
  <2> QED
    BY <2>1, <2>3, <2>4, <2>5, HandlerKeepsKeys
<1> QED
  BY <1>1, <1>2

LEMMA ResetKeepsKeys ==
  ASSUME InputAssumption, KeyInv, NEW preserve \in BOOLEAN, Key!InputReset(preserve)
  PROVE  KeyInv'
<1> DEFINE H == Key!Here
           mine == {"physical"}
           none == {}
           a == Key!ReleaseSources(H, seat.live)
           b == Key!ReleaseSources(a, mine)
           clear == [b EXCEPT !.keys.src = [s \in Key!Sources |-> {}], !.keys.consumed = {},
                              !.keys.external = {}, !.keys.pressed = {}]
           st == IF preserve THEN clear ELSE Key!SetFocus(clear, None)
<1>0. /\ KeysAt(H, v3) /\ seat \in SeatRecords /\ VirtualsHold(keys.src, seat)
      /\ H.keys = keys /\ Key!Sources = {"physical"} \cup Virtuals /\ mine \in SUBSET Key!Sources
      /\ seat.live \in SUBSET Key!Sources
  BY DEF KeyInv, Key!Here, keys, Key!Sources, Key!Physical, SeatRecords
<1>1. /\ Key!Set(st) /\ v3' = v3 /\ (Key!Activity \/ UNCHANGED note)
      /\ seat' = [seat EXCEPT !.xkb = {}]
  BY DEF Key!InputReset, Key!ResetVirtuals, Key!Physical, seat, note
<1> HIDE DEF H, mine
<1> DEFINE ss == seat.live
<1>2a. a = Key!ReleaseSources(H, ss) /\ ss \in SUBSET Key!Sources
  BY <1>0
<1> HIDE DEF a, ss
<1>2b. KeysAt(a, v3) /\ \A s \in Key!Sources : a.keys.src[s] = IF s \in ss THEN {} ELSE H.keys.src[s]
  BY <1>0, <1>2a, SourcesKeep
<1>2. KeysAt(a, v3) /\ \A s \in Key!Sources : a.keys.src[s] = IF s \in seat.live THEN {} ELSE keys.src[s]
  BY <1>0, <1>2b DEF ss
<1>3. KeysAt(b, v3) /\ \A s \in Key!Sources : b.keys.src[s] = IF s \in mine THEN {} ELSE a.keys.src[s]
  BY <1>0, <1>2, SourcesKeep
<1> HIDE DEF b
\* The sources hold nothing any more.
<1>4. \A s \in Key!Sources : b.keys.src[s] = {}
  BY <1>0, <1>2, <1>3 DEF VirtualsHold, mine
<1>5. b.keys.pressed = {} /\ b.keys.consumed = {} /\ b.keys.external = {} /\ b.xkb = {}
  <2>1. \A k \in Keys : ~Key!Held(b.keys.src, k)
    BY <1>4 DEF Key!Held
  <2>2. b.keys.pressed \subseteq Keys
    BY <1>3 DEF KeysAt, Works, KeyRecords
  <2> QED
    BY <1>3, <2>1, <2>2 DEF KeysAt, Balanced
<1>6. b.keys.src = [s \in Key!Sources |-> {}]
  BY <1>3, <1>4 DEF KeysAt, Works, KeyRecords
<1>7. /\ KeysAt(clear, v3) /\ clear.keys.src = b.keys.src /\ clear.xkb = b.xkb
  <2> DEFINE nothing == [s \in Key!Sources |-> {}]
  <2>1. /\ clear.keys = [b.keys EXCEPT !.src = nothing, !.consumed = {}, !.external = {}, !.pressed = {}]
        /\ clear.told = b.told /\ clear.ov = b.ov /\ clear.xkb = b.xkb /\ DOMAIN clear = DOMAIN b
    BY <1>3 DEF KeysAt, Works
  <2> HIDE DEF clear
  <2>2. nothing = b.keys.src
    BY <1>6
  <2> HIDE DEF nothing
  <2>3. b.keys \in KeyRecords
    BY <1>3 DEF KeysAt, Works
  <2>4. /\ clear.keys \in KeyRecords /\ clear.keys.src = b.keys.src /\ clear.keys.pressed = {}
        /\ clear.keys.consumed = {} /\ clear.keys.external = {} /\ clear.keys.focus = b.keys.focus
    BY <2>1, <2>2, <2>3 DEF KeyRecords
  <2> QED
    BY <1>3, <1>5, <2>1, <2>4 DEF KeysAt, Works, Balanced, Known
<1> HIDE DEF clear
<1>8. KeysAt(st, v3) /\ st.keys.src = b.keys.src /\ st.xkb = {}
  <2>1. KeysAt(Key!SetFocus(clear, None), v3)
    BY <1>7, FocusKeepsKeys DEF KeysAt
  <2>2. Key!SetFocus(clear, None).keys.src = b.keys.src /\ Key!SetFocus(clear, None).xkb = b.xkb
    BY <1>7 DEF Key!SetFocus, KeysAt, Works, KeyRecords
  <2> QED
    BY <1>3, <1>5, <1>7, <2>1, <2>2
<1> HIDE DEF st
<1>9. seat' \in SeatRecords /\ seat'.xkb = st.xkb
  BY <1>0, <1>1, <1>8 DEF SeatRecords
<1>10. VirtualsHold(st.keys.src, seat')
  BY <1>0, <1>4, <1>8 DEF VirtualsHold
<1> QED
  BY <1>1, <1>8, <1>9, <1>10, HandlerKeepsKeys

LEMMA KeymapKeepsKeys == ASSUME InputAssumption, KeyInv, Key!UpdateKeymap PROVE KeyInv'
<1> DEFINE H == Key!Here
<1>0. /\ KeysAt(H, v3) /\ seat \in SeatRecords /\ VirtualsHold(keys.src, seat)
      /\ H.keys = keys /\ H.xkb = seat.xkb /\ H.xkb = keys.pressed
  BY DEF KeyInv, KeysAt, Balanced, Key!Here, keys, seat
<1>1. Key!Set(H) /\ v3' = v3 /\ UNCHANGED note /\ seat' = [seat EXCEPT !.xkb = keys.pressed]
  BY DEF Key!UpdateKeymap, Key!Set, Key!Here, seat, note, keys
<1> HIDE DEF H
<1>2. seat' = seat
  BY <1>0, <1>1 DEF SeatRecords
<1> QED
  BY <1>0, <1>1, <1>2, HandlerKeepsKeys

LEMMA LockKeepsKeys == ASSUME InputAssumption, KeyInv, Key!Lock PROVE KeyInv'
<1> DEFINE H == Key!Here
           z == Key!StopOverview(H)
           a == Key!ReleaseSources(z, seat.live)
           st == Key!SetFocus(a, None)
<1>0. /\ KeysAt(H, v3) /\ seat \in SeatRecords /\ VirtualsHold(keys.src, seat)
      /\ H.keys = keys /\ Key!Sources = {"physical"} \cup Virtuals
      /\ seat.live \in SUBSET Key!Sources
  BY DEF KeyInv, Key!Here, keys, Key!Sources, Key!Physical, SeatRecords
<1>1. /\ Key!Set(st) /\ v3' = v3 /\ (Key!Activity \/ UNCHANGED note)
      /\ seat' = [seat EXCEPT !.locked = TRUE, !.xkb = st.xkb]
  BY DEF Key!Lock, Key!ResetVirtuals, seat, note
<1> HIDE DEF H
<1>2. KeysAt(z, v3)
  BY <1>0, OverviewKeepsKeys
<1>3. z.keys = keys
  BY <1>0 DEF Key!StopOverview, KeysAt, Works
<1> HIDE DEF z
<1>4. KeysAt(a, v3) /\ \A s \in Key!Sources : a.keys.src[s] = IF s \in seat.live THEN {} ELSE keys.src[s]
  BY <1>0, <1>2, <1>3, SourcesKeep
<1> HIDE DEF a
<1>5. KeysAt(st, v3)
  BY <1>4, FocusKeepsKeys DEF KeysAt
<1>6. st.keys.src = a.keys.src
  BY <1>4 DEF Key!SetFocus, KeysAt, Works, KeyRecords
<1> HIDE DEF st
<1>7. seat' \in SeatRecords /\ seat'.xkb = st.xkb
  BY <1>0, <1>1, <1>5 DEF SeatRecords, KeysAt, Works
<1>8. VirtualsHold(st.keys.src, seat')
  BY <1>0, <1>4, <1>6 DEF VirtualsHold
<1> QED
  BY <1>1, <1>5, <1>7, <1>8, HandlerKeepsKeys

\* The focus, the end of the lock, the overview and the policy owner.
LEMMA FocusStepKeepsKeys ==
  ASSUME InputAssumption, KeyInv,
         \/ \E c \in Clients \cup {None} : Key!Focus(c)
         \/ Key!Unlock \/ Key!ToggleOverview \/ Key!OverviewFrame
         \/ \E on \in BOOLEAN : Key!SetPolicy(on)
  PROVE  KeyInv'
<1> DEFINE H == Key!Here
<1>0. /\ KeysAt(H, v3) /\ seat \in SeatRecords /\ VirtualsHold(keys.src, seat)
      /\ H.keys = keys /\ H.xkb = seat.xkb /\ H.ov = v4 /\ H.told = v2
  BY DEF KeyInv, Key!Here, keys, seat
<1>1. ASSUME NEW c \in Clients \cup {None}, Key!Focus(c) PROVE KeyInv'
  <2> DEFINE st == Key!SetFocus(H, c)
  <2>1. Key!Set(st) /\ v3' = v3 /\ seat' = seat /\ UNCHANGED note
    BY <1>1 DEF Key!Focus, seat, note
  <2> HIDE DEF H
  <2>2. KeysAt(st, v3)
    BY <1>0, FocusKeepsKeys DEF KeysAt
  <2>3. st.keys.src = keys.src /\ st.xkb = seat.xkb
    BY <1>0 DEF Key!SetFocus, KeysAt, Works, KeyRecords
  <2> QED
    BY <1>0, <2>1, <2>2, <2>3, HandlerKeepsKeys
<1>2. CASE Key!Unlock
  <2>1. Key!Set(H) /\ v3' = v3 /\ UNCHANGED note /\ seat' = [seat EXCEPT !.locked = FALSE]
    BY <1>2 DEF Key!Unlock, Key!Set, Key!Here, seat, note
  <2> HIDE DEF H
  <2>2. seat' \in SeatRecords /\ seat'.xkb = seat.xkb /\ seat'.live = seat.live /\ ~seat'.locked
    BY <1>0, <2>1 DEF SeatRecords
  <2>3. VirtualsHold(H.keys.src, seat')
    BY <1>0, <2>2 DEF VirtualsHold
  <2> QED
    BY <1>0, <2>1, <2>2, <2>3, HandlerKeepsKeys
<1>3. CASE Key!ToggleOverview
  <2> DEFINE on == ~v4.on
             st == Key!Overview(H, on)
  <2>1. Key!Set(st) /\ v3' = v3 /\ seat' = seat /\ UNCHANGED note
    BY <1>3 DEF Key!ToggleOverview, seat, note
  <2>2. on \in BOOLEAN
    BY <1>0 DEF KeysAt, Works, OvRecords
  <2> HIDE DEF H, on
  <2>3. KeysAt(st, v3)
    BY <1>0, <2>2, OverviewKeepsKeys
  <2>4. st.keys = keys /\ st.xkb = seat.xkb
    BY <1>0 DEF Key!Overview, KeysAt, Works
  <2> QED
    BY <1>0, <2>1, <2>3, <2>4, HandlerKeepsKeys
<1>4. CASE Key!OverviewFrame
  <2>1. PICK more \in BOOLEAN : v4' = IF more THEN v4 ELSE [v4 EXCEPT !.timer = FALSE, !.visible = v4.on]
    BY <1>4 DEF Key!OverviewFrame
  <2> DEFINE st == [keys |-> v1, told |-> v2, ov |-> v4', xkb |-> seat.xkb]
  <2>2. /\ st.keys = keys /\ st.told = v2 /\ st.ov = v4' /\ st.xkb = seat.xkb
        /\ DOMAIN st = {"keys", "told", "ov", "xkb"}
    BY DEF keys
  <2>3. Key!Set(st) /\ v3' = v3 /\ seat' = seat /\ UNCHANGED note
    BY <1>4 DEF Key!OverviewFrame, Key!Set, seat, note
  <2> HIDE DEF H, st
  <2>4. v4' \in OvRecords /\ (v4'.visible /\ ~v4'.on => v4'.timer)
    BY <1>0, <2>1 DEF KeysAt, Works, Balanced, OvRecords
  <2>5. Works(st) /\ Balanced(st) /\ Known(st, v3, {})
    BY <1>0, <2>2, <2>4 DEF KeysAt, Works, Balanced, Known
  <2> QED
    BY <1>0, <2>2, <2>3, <2>5, HandlerKeepsKeys DEF KeysAt
<1>5. ASSUME NEW on \in BOOLEAN, Key!SetPolicy(on) PROVE KeyInv'
  <2> DEFINE cl == IF on THEN H ELSE [H EXCEPT !.keys.external = {}]
  <2>1. PICK next \in Clients \cup {None} :
          \/ Key!Set(cl) \/ Key!Set(Key!SetFocus(cl, next))
    BY <1>5 DEF Key!SetPolicy
  <2>2. seat' = [seat EXCEPT !.policy = on] /\ v3' = v3 /\ UNCHANGED note
    BY <1>5 DEF Key!SetPolicy, seat, note
  <2> HIDE DEF H
  <2>3. seat' \in SeatRecords /\ seat'.xkb = seat.xkb /\ seat'.live = seat.live /\ seat'.locked = seat.locked
    BY <1>0, <2>2 DEF SeatRecords
  <2>4. KeysAt(cl, v3) /\ cl.keys.src = keys.src /\ cl.xkb = seat.xkb
    <3>1. CASE on
      BY <1>0, <3>1
    <3>2. CASE ~on
      <4>1. /\ cl.keys = [H.keys EXCEPT !.external = {}] /\ cl.told = H.told /\ cl.ov = H.ov
            /\ cl.xkb = H.xkb /\ DOMAIN cl = DOMAIN H
        BY <1>0, <3>2 DEF KeysAt, Works
      <4> HIDE DEF cl
      <4>2. /\ cl.keys \in KeyRecords /\ cl.keys.src = keys.src /\ cl.keys.pressed = keys.pressed
            /\ cl.keys.consumed = keys.consumed /\ cl.keys.external = {} /\ cl.keys.focus = keys.focus
        BY <1>0, <4>1 DEF KeysAt, Works, KeyRecords
      <4>3. Works(cl) /\ Balanced(cl) /\ Known(cl, v3, {})
        BY <1>0, <4>1, <4>2 DEF KeysAt, Works, Balanced, Known
      <4> QED
        BY <1>0, <4>1, <4>2, <4>3 DEF KeysAt
    <3> QED
      BY <3>1, <3>2
  <2> HIDE DEF cl
  <2>5. VirtualsHold(keys.src, seat')
    BY <1>0, <2>3 DEF VirtualsHold
  <2>6. CASE Key!Set(cl)
    BY <2>2, <2>3, <2>4, <2>5, <2>6, HandlerKeepsKeys
  <2>7. CASE Key!Set(Key!SetFocus(cl, next))
    <3>1. KeysAt(Key!SetFocus(cl, next), v3)
      BY <2>4, FocusKeepsKeys DEF KeysAt
    <3>2. Key!SetFocus(cl, next).keys.src = keys.src /\ Key!SetFocus(cl, next).xkb = seat.xkb
      BY <2>4 DEF Key!SetFocus, KeysAt, Works, KeyRecords
    <3> QED
      BY <2>2, <2>3, <2>5, <2>7, <3>1, <3>2, HandlerKeepsKeys
  <2> QED
    BY <2>1, <2>6, <2>7
<1> QED
  BY <1>1, <1>2, <1>3, <1>4, <1>5

\* A wl_keyboard comes or goes.
LEMMA KeyboardKeepsKeys ==
  ASSUME InputAssumption, KeyInv, NEW c \in Clients, Key!GetKeyboard(c) \/ Key!ReleaseKeyboard(c)
  PROVE  KeyInv'
<1> DEFINE H == Key!Here
           G == Key!Here'
           cs == {c}
<1>0. /\ KeysAt(H, v3) /\ H.keys = v1 /\ H.told = v2 /\ H.xkb = v5.xkb /\ H.ov = v4 /\ v3 \subseteq Clients
  BY DEF KeyInv, Key!Here
<1>1. /\ G.keys = v1 /\ G.told = v2' /\ G.ov = v4 /\ G.xkb = v5.xkb
      /\ DOMAIN G = {"keys", "told", "ov", "xkb"} /\ v1' = v1 /\ v5' = v5 /\ v6' = v6
  BY DEF Key!GetKeyboard, Key!ReleaseKeyboard, Key!Here
<1>2. /\ v3' \subseteq Clients /\ \A d \in Clients : d # c => (d \in v3' <=> d \in v3) /\ v2'[d] = v2[d]
      /\ v2' \in [Clients -> SUBSET Keys]
      /\ v2'[c] = IF c \in v3' /\ c = v1.focus THEN v1.pressed \ v1.consumed ELSE {}
  <2>1. /\ v2 \in [Clients -> SUBSET Keys] /\ v1.pressed \subseteq Keys
        /\ v2[c] = IF c \in v3 /\ c = v1.focus THEN (v1.pressed \ v1.consumed) \ {} ELSE {}
    BY <1>0 DEF KeysAt, Works, Known, KeyRecords
  <2>2. CASE Key!GetKeyboard(c)
    <3>1. /\ c \notin v3 /\ v3' = v3 \cup cs
          /\ v2' = IF v1.focus = c THEN [v2 EXCEPT ![c] = Key!EnterKeys(v1)] ELSE v2
      BY <2>2 DEF Key!GetKeyboard
    <3> QED
      BY <1>0, <2>1, <3>1 DEF Key!EnterKeys
  <2>3. CASE Key!ReleaseKeyboard(c)
    <3>1. v3' = v3 \ cs /\ v2' = [v2 EXCEPT ![c] = {}]
      BY <2>3 DEF Key!ReleaseKeyboard
    <3> QED
      BY <1>0, <2>1, <3>1
  <2> QED
    BY <2>2, <2>3
<1> HIDE DEF H, G
<1>3. Works(G)
  BY <1>0, <1>1, <1>2 DEF KeysAt, Works
<1>4. Balanced(G)
  BY <1>0, <1>1 DEF KeysAt, Balanced
<1>5. Known(G, v3', {})
  BY <1>0, <1>1, <1>2 DEF KeysAt, Known
<1>6. KeysAt(Key!Here, v3)'
  BY <1>3, <1>4, <1>5 DEF KeysAt, Works, Balanced, Known, G
<1> QED
  BY <1>1, <1>2, <1>6 DEF KeyInv, keys, seat, note

\* The idle notification.
LEMMA NoteKeepsKeys ==
  ASSUME InputAssumption, KeyInv, Key!CreateNote \/ Key!DestroyNote \/ Key!IdleTick
  PROVE  KeyInv'
<1>0. /\ Timeout \in Nat \ {0} /\ note \in NoteRecords /\ NoteHonest(note)
  BY DEF InputAssumption, KeyInv
<1>1. UNCHANGED <<v1, v2, v3, v4, v5>>
  BY DEF Key!CreateNote, Key!DestroyNote, Key!IdleTick
<1>2. note' \in NoteRecords /\ NoteHonest(note')
  <2>1. CASE Key!CreateNote
    <3>1. note' = [live |-> TRUE, idle |-> FALSE, left |-> Timeout, quiet |-> 0]
      BY <2>1 DEF Key!CreateNote, Key!NoNote, note
    <3> QED
      BY <1>0, <3>1 DEF NoteRecords, NoteHonest
  <2>2. CASE Key!DestroyNote
    BY <1>0, <2>2 DEF Key!DestroyNote, Key!NoNote, note, NoteRecords, NoteHonest
  <2>3. CASE Key!IdleTick
    <3>1. /\ note.live /\ note.quiet < Timeout
          /\ note' = [note EXCEPT !.quiet = @ + 1, !.left = IF @ = 0 THEN 0 ELSE @ - 1,
                                  !.idle = @ \/ note.left = 1]
      BY <2>3 DEF Key!IdleTick, note
    <3>2. /\ note'.live = note.live /\ note'.quiet = note.quiet + 1
          /\ note'.left = note.left - 1 /\ note'.idle = (note.idle \/ note.left = 1)
          /\ note' \in NoteRecords
      <4>1. /\ note.left \in 0 .. Timeout /\ note.quiet \in 0 .. Timeout /\ note.left # 0
            /\ note.left - 1 \in 0 .. Timeout /\ note.quiet + 1 \in 0 .. Timeout
        BY <1>0, <3>1 DEF NoteRecords, NoteHonest
      <4>2. note' = [note EXCEPT !.quiet = @ + 1, !.left = @ - 1, !.idle = @ \/ note.left = 1]
        BY <1>0, <3>1, <4>1 DEF NoteRecords
      <4> QED
        BY <1>0, <4>1, <4>2 DEF NoteRecords
    <3>3. /\ note.left \in Nat /\ note.quiet \in Nat /\ note.left + note.quiet = Timeout
          /\ note.idle \in BOOLEAN /\ (note.idle <=> note.quiet = Timeout)
      BY <1>0, <3>1 DEF NoteRecords, NoteHonest
    <3>4. note'.quiet = Timeout <=> note.left = 1
      BY <1>0, <3>2, <3>3
    <3>5. ~note.idle
      BY <1>0, <3>1, <3>3
    <3>6. note'.idle <=> note.left = 1
      BY <3>2, <3>5
    <3>7. note'.left + note'.quiet = Timeout
      BY <1>0, <3>2, <3>3
    <3> QED
      BY <3>2, <3>4, <3>6, <3>7 DEF NoteHonest
  <2> QED
    BY <2>1, <2>2, <2>3
<1>3. KeysAt(Key!Here, v3)'
  <2>1. Key!Here' = Key!Here
    BY <1>1 DEF Key!Here
  <2> QED
    BY <1>1, <2>1 DEF KeyInv, KeysAt, Works, Balanced, Known
<1> QED
  BY <1>1, <1>2, <1>3 DEF KeyInv, keys, seat, note, VirtualsHold

LEMMA KeyStep == ASSUME InputAssumption, KeyInv, Key!Next PROVE KeyInv'
<1>1. \/ \E s \in Key!Sources, k \in Keys, down \in BOOLEAN : Key!Key(s, k, down)
      \/ \E v \in Virtuals : Key!CreateVirtual(v) \/ Key!DestroyVirtual(v)
      \/ \E preserve \in BOOLEAN : Key!InputReset(preserve)
      \/ Key!UpdateKeymap
      \/ \E c \in Clients : Key!GetKeyboard(c) \/ Key!ReleaseKeyboard(c)
      \/ Key!Lock
      \/ \/ \E c \in Clients \cup {None} : Key!Focus(c)
         \/ Key!Unlock \/ Key!ToggleOverview \/ Key!OverviewFrame
         \/ \E on \in BOOLEAN : Key!SetPolicy(on)
      \/ Key!CreateNote \/ Key!DestroyNote \/ Key!IdleTick
  BY DEF Key!Next
<1> QED
  BY <1>1, KeyKeepsKeys, VirtualKeepsKeys, ResetKeepsKeys, KeymapKeepsKeys, KeyboardKeepsKeys,
     LockKeepsKeys, FocusStepKeepsKeys, NoteKeepsKeys

LEMMA KeyStutter == ASSUME KeyInv, UNCHANGED <<v1, v2, v3, v4, v5, v6>> PROVE KeyInv'
<1>1. Key!Here' = Key!Here
  BY DEF Key!Here
<1> QED
  BY <1>1 DEF KeyInv, KeysAt, Works, Balanced, Known, keys, seat, note, VirtualsHold, NoteHonest

-----------------------------------------------------------------------------
(* Touch: a contact is down in exactly the objects that were told of it.    *)

ContactRecords == [on : Touched \cup {None}, alive : BOOLEAN, to : SUBSET TouchObjects]

TouchTypes ==
  /\ v1 \in [Fingers -> ContactRecords] /\ v2 \in SUBSET TouchObjects
  /\ v4 \in [TouchObjects -> SUBSET Fingers] /\ v5 \in [TouchObjects -> SUBSET Fingers]
  /\ v6 \in [Touched -> {"shown", "hidden", "unmapped", "dead"}]
  /\ v7 \in {"normal", "locked", "overview"}

\* A contact goes to living objects of the client of its surface, which has some.
Recipients ==
  \A i \in Fingers :
    /\ v1[i].on = None => v1[i].to = {}
    /\ v1[i].on # None =>
         \E o \in v2 : TouchOwner(o) = TouchOwner(v1[i].on)
    /\ \A o \in v1[i].to : o \in v2 /\ TouchOwner(o) = TouchOwner(v1[i].on)

Told == \A o \in TouchObjects : \A i \in Fingers : i \in v4[o] <=> o \in v1[i].to

FramesDue ==
  /\ \A o \in v2 : \A i \in Fingers : i \in v5[o] /\ i \in v4[o] => TouchOwner(o) \in v3
  /\ \A c \in v3 : \E o \in v2 : TouchOwner(o) = c

OnVisible ==
  \A i \in Fingers : v1[i].on # None /\ v1[i].alive =>
    /\ v7 # "overview" /\ v6[v1[i].on] # "hidden"
    /\ v7 = "locked" => v1[i].on \in LockTouched

TouchInv == TouchTypes /\ Recipients /\ Told /\ FramesDue /\ OnVisible

LEMMA TouchSafe ==
  ASSUME TouchInv
  PROVE  Tou!TypeOK /\ Tou!ContactsKnown /\ Tou!FramesOwed /\ Tou!TouchedVisible
<1>1. Tou!TypeOK
  BY DEF TouchInv, TouchTypes, Recipients, ContactRecords, Tou!TypeOK
<1>2. Tou!ContactsKnown
  BY DEF TouchInv, TouchTypes, Told, Tou!ContactsKnown
<1>3. Tou!FramesOwed
  BY DEF TouchInv, TouchTypes, FramesDue, Tou!FramesOwed, Tou!ObjectsOf
<1>4. Tou!TouchedVisible
  BY DEF TouchInv, OnVisible, Tou!TouchedVisible, Tou!Down
<1> QED
  BY <1>1, <1>2, <1>3, <1>4

LEMMA TouchInit == ASSUME Tou!Init PROVE TouchInv
<1>1. TouchTypes
  BY DEF Tou!Init, Tou!NoContact, TouchTypes, ContactRecords
<1>2. Recipients /\ Told /\ FramesDue /\ OnVisible
  BY DEF Tou!Init, Tou!NoContact, Recipients, Told, FramesDue, OnVisible
<1> QED
  BY <1>1, <1>2 DEF TouchInv

-----------------------------------------------------------------------------
(* The handlers.                                                            *)

\* The contacts of the clients `cs` are cancelled; what is owed to the others stays owed
\* where they have contacts.
LEMMA CancelKeeps ==
  ASSUME TouchInv, NEW cs, NEW owes, Tou!Cancel(cs, owes), v2' = v2,
         owes \subseteq v3, \A c \in v3 \ owes : \/ c \in cs
                                                 \/ \A i \in Fingers : v1[i].on # None => TouchOwner(v1[i].on) # c,
         v6' \in [Touched -> {"shown", "hidden", "unmapped", "dead"}],
         v7' \in {"normal", "locked", "overview"},
         \A i \in Fingers : v1[i].on # None /\ v1[i].alive /\ TouchOwner(v1[i].on) \notin cs =>
           /\ v7' # "overview" /\ v6'[v1[i].on] # "hidden"
           /\ v7' = "locked" => v1[i].on \in LockTouched
  PROVE  TouchInv'
<1> DEFINE gone(i) == v1[i].on # None /\ TouchOwner(v1[i].on) \in cs
           none == [on |-> None, alive |-> FALSE, to |-> {}]
<1>1. /\ v1' = [i \in Fingers |-> IF gone(i) THEN none ELSE v1[i]]
      /\ v4' = [o \in TouchObjects |-> IF TouchOwner(o) \in cs THEN {} ELSE v4[o]]
      /\ v5' = [o \in TouchObjects |-> IF TouchOwner(o) \in cs THEN {} ELSE v5[o]]
      /\ v3' = owes
  BY DEF Tou!Cancel, Tou!Down, Tou!ClientOf, Tou!NoContact
<1>2. none \in ContactRecords /\ none.on = None /\ none.to = {}
  BY DEF ContactRecords
<1> HIDE DEF none
<1>3. \A i \in Fingers : v1'[i] = IF gone(i) THEN none ELSE v1[i]
  BY <1>1
<1>4. \A o \in TouchObjects :
        /\ v4'[o] = IF TouchOwner(o) \in cs THEN {} ELSE v4[o]
        /\ v5'[o] = IF TouchOwner(o) \in cs THEN {} ELSE v5[o]
  BY <1>1
<1>5. TouchTypes'
  BY <1>1, <1>2 DEF TouchInv, TouchTypes
<1>6. Recipients'
  BY <1>2, <1>3 DEF TouchInv, Recipients
<1>7. Told'
  <2> SUFFICES ASSUME NEW o \in TouchObjects, NEW i \in Fingers
               PROVE  i \in v4'[o] <=> o \in v1'[i].to
    BY DEF Told
  <2>1. i \in v4[o] <=> o \in v1[i].to
    BY DEF TouchInv, Told
  <2>2. o \in v1[i].to => v1[i].on # None /\ TouchOwner(o) = TouchOwner(v1[i].on)
    BY DEF TouchInv, Recipients
  <2> QED
    BY <1>2, <1>3, <1>4, <2>1, <2>2
<1>8. FramesDue'
  <2>1. ASSUME NEW o \in v2', NEW i \in Fingers, i \in v5'[o], i \in v4'[o] PROVE TouchOwner(o) \in v3'
    <3>1. o \in TouchObjects /\ o \in v2
      BY DEF TouchInv, TouchTypes
    <3>2. TouchOwner(o) \notin cs /\ i \in v5[o] /\ i \in v4[o]
      BY <1>4, <2>1, <3>1
    <3>3. TouchOwner(o) \in v3 /\ o \in v1[i].to
      BY <3>1, <3>2 DEF TouchInv, FramesDue, Told
    <3>4. v1[i].on # None /\ TouchOwner(v1[i].on) = TouchOwner(o)
      BY <3>3 DEF TouchInv, Recipients
    <3> QED
      BY <1>1, <3>2, <3>3, <3>4
  <2>2. \A c \in v3' : \E o \in v2' : TouchOwner(o) = c
    BY <1>1 DEF TouchInv, FramesDue
  <2> QED
    BY <2>1, <2>2 DEF FramesDue
<1>9. OnVisible'
  BY <1>2, <1>3 DEF OnVisible
<1> QED
  BY <1>5, <1>6, <1>7, <1>8, <1>9 DEF TouchInv

LEMMA CreateTouchKeeps ==
  ASSUME TouchInv, NEW o \in TouchObjects, Tou!CreateTouch(o)
  PROVE  TouchInv'
<1> DEFINE os == {o}
<1>1. /\ o \notin v2 /\ v2' = v2 \cup os /\ os \subseteq TouchObjects
      /\ UNCHANGED <<v1, v3, v4, v5, v6, v7>>
  BY DEF Tou!CreateTouch
<1>1a. \A p \in os : p = o
  OBVIOUS
<1> HIDE DEF os
<1>2. \A i \in Fingers : o \notin v1[i].to
  BY <1>1 DEF TouchInv, Recipients
<1>3. \A i \in Fingers : i \notin v4[o]
  BY <1>2 DEF TouchInv, Told
<1>4. TouchTypes'
  BY <1>1 DEF TouchInv, TouchTypes
<1>5. Recipients'
  BY <1>1 DEF TouchInv, Recipients
<1>6. Told' /\ OnVisible'
  BY <1>1 DEF TouchInv, Told, OnVisible
<1>7. FramesDue'
  BY <1>1, <1>1a, <1>3 DEF TouchInv, FramesDue
<1> QED
  BY <1>4, <1>5, <1>6, <1>7 DEF TouchInv

LEMMA DestroyTouchKeeps ==
  ASSUME TouchInv, NEW o \in TouchObjects, Tou!DestroyTouch(o)
  PROVE  TouchInv'
<1> DEFINE os == {o}
           mine == {TouchOwner(o)}
           last == Tou!ObjectsOf(TouchOwner(o)) = {o}
           none == [on |-> None, alive |-> FALSE, to |-> {}]
           gone(i) == last /\ v1[i].on # None /\ TouchOwner(v1[i].on) = TouchOwner(o)
<1>1. /\ o \in v2 /\ v2' = v2 \ os
      /\ v1' = [i \in Fingers |-> IF gone(i) THEN none ELSE [v1[i] EXCEPT !.to = @ \ os]]
      /\ v3' = IF last THEN v3 \ mine ELSE v3
      /\ v4' = [v4 EXCEPT ![o] = {}] /\ v5' = [v5 EXCEPT ![o] = {}]
      /\ UNCHANGED <<v6, v7>>
  BY DEF Tou!DestroyTouch, Tou!Down, Tou!ClientOf, Tou!NoContact
<1>2. /\ none \in ContactRecords /\ none.on = None /\ none.to = {} /\ \A p : p \in os <=> p = o
      /\ \A c : c \in mine <=> c = TouchOwner(o)
  BY DEF ContactRecords
<1>3. last <=> \A p \in v2 : TouchOwner(p) = TouchOwner(o) => p = o
  BY <1>1 DEF Tou!ObjectsOf
<1> HIDE DEF none, os, last, mine
<1>4. \A i \in Fingers :
        /\ v1'[i] \in ContactRecords
        /\ gone(i) => v1'[i] = none
        /\ ~gone(i) => v1'[i].on = v1[i].on /\ v1'[i].alive = v1[i].alive /\ v1'[i].to = v1[i].to \ os
  BY <1>1, <1>2 DEF TouchInv, TouchTypes, ContactRecords
<1>5. TouchTypes'
  <2>1. v1' \in [Fingers -> ContactRecords]
    BY <1>1, <1>4
  <2> QED
    BY <1>1, <2>1 DEF TouchInv, TouchTypes
<1>6. \A p \in TouchObjects : v4'[p] = (IF p = o THEN {} ELSE v4[p]) /\ v5'[p] = (IF p = o THEN {} ELSE v5[p])
  BY <1>1 DEF TouchInv, TouchTypes
<1>7. Recipients'
  <2> SUFFICES ASSUME NEW i \in Fingers
               PROVE  /\ v1'[i].on = None => v1'[i].to = {}
                      /\ v1'[i].on # None => \E p \in v2' : TouchOwner(p) = TouchOwner(v1'[i].on)
                      /\ \A p \in v1'[i].to : p \in v2' /\ TouchOwner(p) = TouchOwner(v1'[i].on)
    BY DEF Recipients
  <2>1. CASE gone(i)
    BY <1>2, <1>4, <2>1
  <2>2. CASE ~gone(i)
    <3>1. /\ v1[i].on = None => v1[i].to = {}
          /\ v1[i].on # None => \E p \in v2 : TouchOwner(p) = TouchOwner(v1[i].on)
          /\ \A p \in v1[i].to : p \in v2 /\ TouchOwner(p) = TouchOwner(v1[i].on)
      BY DEF TouchInv, Recipients
    <3>2. v1[i].on # None => \E p \in v2' : TouchOwner(p) = TouchOwner(v1[i].on)
      <4>1. CASE TouchOwner(v1[i].on) # TouchOwner(o)
        BY <1>1, <1>2, <3>1, <4>1
      <4>2. CASE TouchOwner(v1[i].on) = TouchOwner(o)
        BY <1>1, <1>2, <1>3, <2>2, <4>2
      <4> QED
        BY <4>1, <4>2
    <3> QED
      BY <1>1, <1>2, <1>4, <2>2, <3>1, <3>2
  <2> QED
    BY <2>1, <2>2
<1>8. Told'
  <2> SUFFICES ASSUME NEW p \in TouchObjects, NEW i \in Fingers
               PROVE  i \in v4'[p] <=> p \in v1'[i].to
    BY DEF Told
  <2>1. i \in v4[p] <=> p \in v1[i].to
    BY DEF TouchInv, Told
  <2>2. p \in v1[i].to => p \in v2 /\ TouchOwner(p) = TouchOwner(v1[i].on)
    BY DEF TouchInv, Recipients
  <2>3. CASE gone(i)
    BY <1>2, <1>3, <1>4, <1>6, <2>1, <2>2, <2>3
  <2>4. CASE ~gone(i)
    BY <1>2, <1>4, <1>6, <2>1, <2>4
  <2> QED
    BY <2>3, <2>4
<1>9. FramesDue'
  <2>1. ASSUME NEW p \in v2', NEW i \in Fingers, i \in v5'[p], i \in v4'[p] PROVE TouchOwner(p) \in v3'
    <3>1. p \in TouchObjects /\ p \in v2 /\ p # o
      BY <1>1, <1>2 DEF TouchInv, TouchTypes
    <3>2. TouchOwner(p) \in v3
      BY <1>6, <2>1, <3>1 DEF TouchInv, FramesDue
    <3> QED
      BY <1>1, <1>2, <1>3, <3>1, <3>2
  <2>2. ASSUME NEW c \in v3' PROVE \E p \in v2' : TouchOwner(p) = c
    <3>1. c \in v3 /\ (last => c # TouchOwner(o))
      BY <1>1, <1>2
    <3>2. PICK p \in v2 : TouchOwner(p) = c
      BY <3>1 DEF TouchInv, FramesDue
    <3> QED
      BY <1>1, <1>2, <1>3, <3>1, <3>2
  <2> QED
    BY <2>1, <2>2 DEF FramesDue
<1>10. OnVisible'
  BY <1>1, <1>2, <1>4 DEF TouchInv, OnVisible
<1> QED
  BY <1>5, <1>7, <1>8, <1>9, <1>10 DEF TouchInv

\* `os` are told of an event of contact i, which needs a frame.
LEMMA EventKeeps ==
  ASSUME TouchInv, NEW i \in Fingers, v1[i].on # None, v1[i].alive,
         Tou!Event(i, v1[i].to, TouchOwner(v1[i].on)), UNCHANGED <<v2, v6, v7>>,
         \/ UNCHANGED <<v1, v4>>
         \/ /\ v1' = [v1 EXCEPT ![i] = Tou!NoContact]
            /\ v4' = [o \in TouchObjects |-> v4[o] \ IF o \in v1[i].to THEN {i} ELSE {}]
  PROVE  TouchInv'
<1> DEFINE is == {i}
           mine == {TouchOwner(v1[i].on)}
           none == [on |-> None, alive |-> FALSE, to |-> {}]
<1>1. /\ v5' = [o \in TouchObjects |-> IF o \in v1[i].to THEN v5[o] \cup is ELSE v5[o]]
      /\ v3' = v3 \cup mine
      /\ \/ UNCHANGED <<v1, v4>>
         \/ /\ v1' = [v1 EXCEPT ![i] = none]
            /\ v4' = [o \in TouchObjects |-> v4[o] \ IF o \in v1[i].to THEN is ELSE {}]
  BY DEF Tou!Event, Tou!NoContact
<1>2. /\ \A j : j \in is <=> j = i
      /\ \A c : c \in mine <=> c = TouchOwner(v1[i].on)
      /\ none \in ContactRecords /\ none.on = None /\ none.to = {}
  BY DEF ContactRecords
<1>2a. is \subseteq Fingers
  BY <1>2
<1> HIDE DEF is, mine, none
<1>3. \A j \in Fingers : v1'[j] = v1[j] \/ (j = i /\ v1'[j] = none)
  BY <1>1 DEF TouchInv, TouchTypes
<1>4. \A o \in TouchObjects :
        /\ v5'[o] = IF o \in v1[i].to THEN v5[o] \cup is ELSE v5[o]
        /\ v4'[o] \subseteq v4[o]
  BY <1>1
<1>5. TouchTypes'
  BY <1>1, <1>2, <1>2a DEF TouchInv, TouchTypes
<1>6. Recipients'
  <2> SUFFICES ASSUME NEW j \in Fingers
               PROVE  /\ v1'[j].on = None => v1'[j].to = {}
                      /\ v1'[j].on # None => \E p \in v2' : TouchOwner(p) = TouchOwner(v1'[j].on)
                      /\ \A p \in v1'[j].to : p \in v2' /\ TouchOwner(p) = TouchOwner(v1'[j].on)
    BY DEF Recipients
  <2>1. CASE v1'[j] = v1[j]
    BY <2>1 DEF TouchInv, Recipients
  <2>2. CASE v1'[j] = none
    BY <1>2, <2>2
  <2> QED
    BY <1>3, <2>1, <2>2
<1>7. Told'
  <2> SUFFICES ASSUME NEW o \in TouchObjects, NEW j \in Fingers
               PROVE  j \in v4'[o] <=> o \in v1'[j].to
    BY DEF Told
  <2>1. j \in v4[o] <=> o \in v1[j].to
    BY DEF TouchInv, Told
  <2>2. CASE UNCHANGED <<v1, v4>>
    BY <2>1, <2>2
  <2>3. CASE /\ v1' = [v1 EXCEPT ![i] = none]
             /\ v4' = [p \in TouchObjects |-> v4[p] \ IF p \in v1[i].to THEN is ELSE {}]
    <3>1. v1'[j] = IF j = i THEN none ELSE v1[j]
      BY <2>3 DEF TouchInv, TouchTypes
    <3>2. v4'[o] = v4[o] \ IF o \in v1[i].to THEN is ELSE {}
      BY <2>3
    <3> QED
      BY <1>2, <2>1, <3>1, <3>2
  <2> QED
    BY <1>1, <2>2, <2>3
<1>8. FramesDue'
  <2>1. ASSUME NEW o \in v2', NEW j \in Fingers, j \in v5'[o], j \in v4'[o] PROVE TouchOwner(o) \in v3'
    <3>1. o \in TouchObjects /\ o \in v2 /\ j \in v4[o]
      BY <1>4, <2>1 DEF TouchInv, TouchTypes
    <3>2. CASE j \in v5[o]
      BY <1>1, <3>1, <3>2 DEF TouchInv, FramesDue
    <3>3. CASE j \notin v5[o]
      <4>1. o \in v1[i].to
        BY <1>4, <2>1, <3>1, <3>3
      <4>2. TouchOwner(o) = TouchOwner(v1[i].on)
        BY <4>1 DEF TouchInv, Recipients
      <4> QED
        BY <1>1, <1>2, <4>2
    <3> QED
      BY <3>2, <3>3
  <2>2. ASSUME NEW c \in v3' PROVE \E o \in v2' : TouchOwner(o) = c
    <3>1. c \in v3 \/ c = TouchOwner(v1[i].on)
      BY <1>1, <1>2
    <3> QED
      BY <3>1 DEF TouchInv, FramesDue, Recipients
  <2> QED
    BY <2>1, <2>2 DEF FramesDue
<1>9. OnVisible'
  BY <1>2, <1>3 DEF TouchInv, OnVisible
<1> QED
  BY <1>5, <1>6, <1>7, <1>8, <1>9 DEF TouchInv

LEMMA DownKeeps ==
  ASSUME InputAssumption, TouchInv, NEW i \in Fingers, NEW s \in Touched, Tou!TouchDown(i, s)
  PROVE  TouchInv'
<1> DEFINE is == {i}
           mine == {TouchOwner(s)}
           to == Tou!ObjectsOf(TouchOwner(s))
           new == [on |-> s, alive |-> TRUE, to |-> to]
<1>1. /\ v7 # "overview" /\ v1[i].on = None /\ v6[s] = "shown" /\ (v7 = "locked" <=> s \in LockTouched)
      /\ to # {} /\ UNCHANGED <<v2, v6, v7>>
      /\ v1' = [v1 EXCEPT ![i] = new]
      /\ v4' = [o \in TouchObjects |-> IF o \in to THEN v4[o] \cup is ELSE v4[o]]
      /\ v5' = [o \in TouchObjects |-> IF o \in to THEN v5[o] \cup is ELSE v5[o]]
      /\ v3' = v3 \cup mine
  BY DEF Tou!TouchDown, Tou!Event, Tou!Down, Tou!Hit
<1>2. /\ \A j : j \in is <=> j = i
      /\ \A c : c \in mine <=> c = TouchOwner(s)
      /\ \A o : o \in to <=> o \in v2 /\ TouchOwner(o) = TouchOwner(s)
  BY DEF Tou!ObjectsOf
<1>3. /\ new \in ContactRecords /\ new.on = s /\ new.alive /\ new.to = to /\ s # None
      /\ to \subseteq v2 /\ is \subseteq Fingers
  <2>1. to \subseteq TouchObjects
    BY <1>2 DEF TouchInv, TouchTypes
  <2> QED
    BY <1>2, <2>1 DEF ContactRecords, InputAssumption
<1> HIDE DEF is, mine, to, new
<1>4. \A j \in Fingers : v1'[j] = IF j = i THEN new ELSE v1[j]
  BY <1>1 DEF TouchInv, TouchTypes
<1>5. \A o \in TouchObjects :
        /\ v4'[o] = IF o \in to THEN v4[o] \cup is ELSE v4[o]
        /\ v5'[o] = IF o \in to THEN v5[o] \cup is ELSE v5[o]
  BY <1>1
<1>6. TouchTypes'
  BY <1>1, <1>3 DEF TouchInv, TouchTypes
<1>7. Recipients'
  <2> SUFFICES ASSUME NEW j \in Fingers
               PROVE  /\ v1'[j].on = None => v1'[j].to = {}
                      /\ v1'[j].on # None => \E p \in v2' : TouchOwner(p) = TouchOwner(v1'[j].on)
                      /\ \A p \in v1'[j].to : p \in v2' /\ TouchOwner(p) = TouchOwner(v1'[j].on)
    BY DEF Recipients
  <2>1. CASE j = i
    BY <1>1, <1>2, <1>3, <1>4, <2>1
  <2>2. CASE j # i
    BY <1>1, <1>4, <2>2 DEF TouchInv, Recipients
  <2> QED
    BY <2>1, <2>2
<1>8. Told'
  <2> SUFFICES ASSUME NEW o \in TouchObjects, NEW j \in Fingers
               PROVE  j \in v4'[o] <=> o \in v1'[j].to
    BY DEF Told
  <2>1. (j \in v4[o] <=> o \in v1[j].to) /\ (j = i => o \notin v1[j].to)
    BY <1>1 DEF TouchInv, Told, Recipients
  <2> QED
    BY <1>2, <1>3, <1>4, <1>5, <2>1
<1>9. FramesDue'
  <2>1. ASSUME NEW o \in v2', NEW j \in Fingers, j \in v5'[o], j \in v4'[o] PROVE TouchOwner(o) \in v3'
    <3>1. o \in TouchObjects /\ o \in v2
      BY <1>1 DEF TouchInv, TouchTypes
    <3>2. CASE o \in to
      BY <1>1, <1>2, <3>2
    <3>3. CASE o \notin to
      BY <1>1, <1>5, <2>1, <3>1, <3>3 DEF TouchInv, FramesDue
    <3> QED
      BY <3>2, <3>3
  <2>2. \A c \in v3' : \E o \in v2' : TouchOwner(o) = c
    <3>1. \A c \in v3' : c \in v3 \/ c = TouchOwner(s)
      BY <1>1, <1>2
    <3>2. \E o \in v2' : TouchOwner(o) = TouchOwner(s)
      BY <1>1, <1>2
    <3> QED
      BY <1>1, <3>1, <3>2 DEF TouchInv, FramesDue
  <2> QED
    BY <2>1, <2>2 DEF FramesDue
<1>10. OnVisible'
  BY <1>1, <1>3, <1>4 DEF TouchInv, OnVisible
<1> QED
  BY <1>6, <1>7, <1>8, <1>9, <1>10 DEF TouchInv

\* A contact whose surface is gone, or shows nothing, ends with its client's others.
LEMMA MovedKeeps ==
  ASSUME TouchInv, NEW i \in Fingers, Tou!TouchMotion(i) \/ Tou!TouchUp(i)
  PROVE  TouchInv'
<1> DEFINE cs == {TouchOwner(v1[i].on)}
           owes == v3 \ cs
<1>1. v1[i].on # None /\ UNCHANGED <<v2, v6, v7>>
  BY DEF Tou!TouchMotion, Tou!TouchUp, Tou!Down
<1>2. CASE Tou!Cancel(cs, owes)
  <2>1. owes \subseteq v3 /\ \A c \in v3 \ owes : c \in cs
    OBVIOUS
  <2> HIDE DEF owes, cs
  <2>2. /\ v6' \in [Touched -> {"shown", "hidden", "unmapped", "dead"}]
        /\ v7' \in {"normal", "locked", "overview"}
        /\ v2' = v2
    BY <1>1 DEF TouchInv, TouchTypes
  <2>3. \A j \in Fingers : v1[j].on # None /\ v1[j].alive /\ TouchOwner(v1[j].on) \notin cs =>
           /\ v7' # "overview" /\ v6'[v1[j].on] # "hidden"
           /\ v7' = "locked" => v1[j].on \in LockTouched
    BY <1>1 DEF TouchInv, OnVisible
  <2> QED
    BY <1>2, <2>1, <2>2, <2>3, CancelKeeps
<1>3. CASE v1[i].alive /\ ~Tou!Cancel(cs, owes)
  <2>1. /\ Tou!Event(i, v1[i].to, TouchOwner(v1[i].on))
        /\ \/ UNCHANGED <<v1, v4>>
           \/ /\ v1' = [v1 EXCEPT ![i] = Tou!NoContact]
              /\ v4' = [o \in TouchObjects |-> v4[o] \ IF o \in v1[i].to THEN {i} ELSE {}]
    BY <1>3 DEF Tou!TouchMotion, Tou!TouchUp, Tou!ClientOf
  <2> QED
    BY <1>1, <1>3, <2>1, EventKeeps
<1>4. v1[i].alive \/ Tou!Cancel(cs, owes)
  BY DEF Tou!TouchMotion, Tou!TouchUp, Tou!ClientOf
<1> QED
  BY <1>2, <1>3, <1>4

LEMMA FrameKeeps == ASSUME TouchInv, Tou!TouchFrame PROVE TouchInv'
<1>1. /\ v5' = [o \in TouchObjects |-> IF TouchOwner(o) \in v3 THEN {} ELSE v5[o]]
      /\ v3' = {} /\ UNCHANGED <<v1, v2, v4, v6, v7>>
  BY DEF Tou!TouchFrame
<1>2. TouchTypes' /\ Recipients' /\ Told' /\ OnVisible'
  BY <1>1 DEF TouchInv, TouchTypes, Recipients, Told, OnVisible
<1>3. FramesDue'
  BY <1>1 DEF TouchInv, TouchTypes, FramesDue
<1> QED
  BY <1>2, <1>3 DEF TouchInv

\* The end of all contacts, and the scene that hides them.
LEMMA AllCancelKeeps ==
  ASSUME TouchInv, Tou!TouchCancel \/ \E m \in {"locked", "overview"} : Tou!Enter(m)
  PROVE  TouchInv'
<1> DEFINE cs == Tou!Touching
           none == {}
<1>1. /\ Tou!Cancel(cs, none) /\ UNCHANGED <<v2, v6>>
      /\ v7' \in {"normal", "locked", "overview"}
  BY DEF Tou!TouchCancel, Tou!Enter, TouchInv, TouchTypes
<1>2. \A i \in Fingers : v1[i].on # None => TouchOwner(v1[i].on) \in cs
  BY DEF Tou!Touching, Tou!Down, Tou!ClientOf
<1>3. none \subseteq v3 /\ v3 \ none = v3
  OBVIOUS
<1>4. v6' \in [Touched -> {"shown", "hidden", "unmapped", "dead"}] /\ v2' = v2
  BY <1>1 DEF TouchInv, TouchTypes
<1> HIDE DEF cs, none
<1>5. \A c \in v3 \ none : \/ c \in cs
                          \/ \A i \in Fingers : v1[i].on # None => TouchOwner(v1[i].on) # c
  BY <1>2
<1>6. \A i \in Fingers : v1[i].on # None /\ v1[i].alive /\ TouchOwner(v1[i].on) \notin cs =>
           /\ v7' # "overview" /\ v6'[v1[i].on] # "hidden"
           /\ v7' = "locked" => v1[i].on \in LockTouched
  BY <1>2
<1> QED
  BY <1>1, <1>3, <1>4, <1>5, <1>6, CancelKeeps

LEMMA HideKeeps == ASSUME TouchInv, NEW s \in Touched, Tou!Hide(s) PROVE TouchInv'
<1> DEFINE cs == Tou!Swept(s)
           owes == v3 \ cs
<1>1. /\ Tou!Cancel(cs, owes) /\ UNCHANGED <<v2, v7>> /\ v6' = [v6 EXCEPT ![s] = "hidden"]
  BY DEF Tou!Hide
<1>2. \A i \in Fingers : v1[i].on # None /\ v1[i].on = s => TouchOwner(v1[i].on) \in cs
  BY DEF Tou!Swept, Tou!Down, Tou!ClientOf
<1>3. owes \subseteq v3 /\ \A c \in v3 \ owes : c \in cs
  OBVIOUS
<1> HIDE DEF cs, owes
<1>4. /\ v6' \in [Touched -> {"shown", "hidden", "unmapped", "dead"}] /\ v2' = v2
      /\ v7' \in {"normal", "locked", "overview"}
  BY <1>1 DEF TouchInv, TouchTypes
<1>5. ASSUME NEW i \in Fingers, v1[i].on # None, v1[i].alive, TouchOwner(v1[i].on) \notin cs
      PROVE  /\ v7' # "overview" /\ v6'[v1[i].on] # "hidden"
             /\ v7' = "locked" => v1[i].on \in LockTouched
  <2>1. v1[i].on \in Touched /\ v1[i].on # s
    BY <1>2, <1>5 DEF TouchInv, TouchTypes, ContactRecords
  <2>2. v6'[v1[i].on] = v6[v1[i].on]
    BY <1>1, <2>1 DEF TouchInv, TouchTypes
  <2> QED
    BY <1>1, <1>5, <2>2 DEF TouchInv, OnVisible
<1> QED
  BY <1>1, <1>3, <1>4, <1>5, CancelKeeps

\* A surface is shown, shows nothing, goes or comes: its contacts are told nothing.
LEMMA SurfaceKeepsTouches ==
  ASSUME TouchInv, NEW s \in Touched,
         Tou!Show(s) \/ Tou!Unmap(s) \/ Tou!DestroySurface(s) \/ Tou!CreateSurface(s)
  PROVE  TouchInv'
<1>1. /\ UNCHANGED <<v2, v3, v4, v5, v7>>
      /\ \/ v6' = [v6 EXCEPT ![s] = "shown"] \/ v6' = [v6 EXCEPT ![s] = "unmapped"]
         \/ v6' = [v6 EXCEPT ![s] = "dead"]
      /\ \/ v1' = v1
         \/ v1' = [i \in Fingers |-> IF v1[i].on = s THEN [v1[i] EXCEPT !.alive = FALSE] ELSE v1[i]]
  BY DEF Tou!Show, Tou!Unmap, Tou!DestroySurface, Tou!CreateSurface
<1>2. \A i \in Fingers :
        /\ v1'[i] \in ContactRecords /\ v1'[i].on = v1[i].on /\ v1'[i].to = v1[i].to
        /\ v1'[i].alive => v1[i].alive
  <2> SUFFICES ASSUME NEW i \in Fingers
               PROVE  /\ v1'[i] \in ContactRecords /\ v1'[i].on = v1[i].on /\ v1'[i].to = v1[i].to
                      /\ v1'[i].alive => v1[i].alive
    OBVIOUS
  <2>1. v1[i] \in ContactRecords
    BY DEF TouchInv, TouchTypes
  <2>2. v1'[i] = v1[i] \/ v1'[i] = [v1[i] EXCEPT !.alive = FALSE]
    BY <1>1
  <2> QED
    BY <2>1, <2>2 DEF ContactRecords
<1>3. TouchTypes'
  <2>1. v1' \in [Fingers -> ContactRecords]
    BY <1>1, <1>2 DEF TouchInv, TouchTypes
  <2>2. v6' \in [Touched -> {"shown", "hidden", "unmapped", "dead"}]
    BY <1>1 DEF TouchInv, TouchTypes
  <2> QED
    BY <1>1, <2>1, <2>2 DEF TouchInv, TouchTypes
<1>4. Recipients' /\ Told' /\ FramesDue'
  BY <1>1, <1>2 DEF TouchInv, Recipients, Told, FramesDue
<1>5. \A z \in Touched : v6'[z] = "hidden" => v6[z] = "hidden"
  BY <1>1 DEF TouchInv, TouchTypes
<1>6. OnVisible'
  <2> SUFFICES ASSUME NEW i \in Fingers, v1'[i].on # None, v1'[i].alive
               PROVE  /\ v7' # "overview" /\ v6'[v1'[i].on] # "hidden"
                      /\ v7' = "locked" => v1'[i].on \in LockTouched
    BY DEF OnVisible
  <2>1. v1[i].on # None /\ v1[i].alive /\ v1[i].on \in Touched /\ v1'[i].on = v1[i].on
    BY <1>2 DEF TouchInv, TouchTypes, ContactRecords
  <2> QED
    BY <1>1, <1>5, <2>1 DEF TouchInv, OnVisible
<1> QED
  BY <1>3, <1>4, <1>6 DEF TouchInv

LEMMA TouchLeaveKeeps == ASSUME TouchInv, Tou!Leave PROVE TouchInv'
<1>1. UNCHANGED <<v1, v2, v3, v4, v5, v6>> /\ v7' = "normal"
  BY DEF Tou!Leave
<1> QED
  BY <1>1 DEF TouchInv, TouchTypes, Recipients, Told, FramesDue, OnVisible

LEMMA TouchStep == ASSUME InputAssumption, TouchInv, Tou!Next PROVE TouchInv'
<1>1. \/ \E o \in TouchObjects : Tou!CreateTouch(o) \/ Tou!DestroyTouch(o)
      \/ \E i \in Fingers, s \in Touched : Tou!TouchDown(i, s)
      \/ \E i \in Fingers : Tou!TouchMotion(i) \/ Tou!TouchUp(i)
      \/ Tou!TouchFrame
      \/ Tou!TouchCancel \/ \E m \in {"locked", "overview"} : Tou!Enter(m)
      \/ Tou!Leave
      \/ \E s \in Touched : Tou!Hide(s)
      \/ \E s \in Touched :
           Tou!Show(s) \/ Tou!Unmap(s) \/ Tou!DestroySurface(s) \/ Tou!CreateSurface(s)
  BY DEF Tou!Next
<1> QED
  BY <1>1, CreateTouchKeeps, DestroyTouchKeeps, DownKeeps, MovedKeeps, FrameKeeps, AllCancelKeeps,
     TouchLeaveKeeps, HideKeeps, SurfaceKeepsTouches

LEMMA TouchStutter == ASSUME TouchInv, UNCHANGED <<v1, v2, v3, v4, v5, v6, v7>> PROVE TouchInv'
  BY DEF TouchInv, TouchTypes, Recipients, Told, FramesDue, OnVisible

-----------------------------------------------------------------------------
(* The pointer: a button that is down is down in the client that has the   *)
(* grab, or its grab was given up; and one constraint is active at most.   *)

Spots(W) == W \cup {ls, None}
Maybe(S) == S \cup {None}
Some(B) == SUBSET B

PtrRecords(W, B) ==
  [focus : Spots(W), hit : Spots(W), grab : Spots(W), kf : Spots(W), move : Maybe(W),
   own : BOOLEAN, pan : BOOLEAN, ownButton : Maybe(B), pressed : Some(B), consumed : Some(B),
   hidden : BOOLEAN, drag : Spots(W), dragButton : Maybe(B), last : Spots(W) \X Maybe(B),
   overview : BOOLEAN, locked : BOOLEAN, crossed : BOOLEAN]

ConRecords(W) ==
  [on : Maybe(W), locks : BOOLEAN, oneshot : BOOLEAN, active : BOOLEAN, defunct : BOOLEAN]

\* What the handlers of the pointer work on.
Seats(W, B) ==
  [p : PtrRecords(W, B), c : Seq(ConRecords(W)), t : [W \cup {ls} -> SUBSET B], x : SUBSET B]

\* A window has one constraint.
OneEach(st) ==
  \A i, j \in DOMAIN st.c : st.c[i].on # None /\ st.c[i].on = st.c[j].on => i = j

HiddenByLock(st) == st.p.hidden => \E i \in DOMAIN st.c : st.c[i].active /\ st.c[i].locks

\* The active constraint is on the surface that has the pointer.
Constrained(st) ==
  /\ OneEach(st) /\ HiddenByLock(st)
  /\ \A i \in DOMAIN st.c : st.c[i].active =>
       /\ st.c[i].on # None /\ st.p.focus = st.c[i].on
       /\ \A j \in DOMAIN st.c : st.c[j].active => i = j

\* Buttons and gestures, whatever has the pointer; h: the buttons that are held.
Gestures(st, h) ==
  /\ st.p.pressed \subseteq h /\ st.p.consumed \subseteq h
  /\ \A b \in st.p.pressed : b \notin st.p.consumed
  /\ st.p.overview =>
       /\ st.p.pressed = {} /\ st.p.last[2] = None /\ st.p.grab = None
       /\ ~st.p.own /\ st.p.move = None /\ st.p.drag = None
  /\ st.p.last[2] # None => st.p.pressed # {}
  /\ st.p.own => st.p.ownButton \in st.p.pressed
  /\ st.p.pan => st.p.own /\ st.p.grab = None /\ st.p.drag = None
  /\ st.p.move # None => st.p.pressed # {} \/ st.p.crossed
  /\ st.p.drag # None =>
       /\ st.p.grab = None
       /\ st.p.own \/ st.p.move # None => st.p.crossed

\* Every button is the compositor's own, cut off, or pressed where the grab is.
OwnOrCut(st) == \A b \in st.p.pressed \ st.x : st.p.own /\ b = st.p.ownButton
Grabbed(st) ==
  \A b \in st.p.pressed \ st.x :
    \/ st.p.own /\ b = st.p.ownButton
    \/ st.p.grab # None /\ st.p.focus = st.p.grab /\ b \in st.t[st.p.grab]

Focussed(st) ==
  /\ st.p.pan => st.p.focus = None
  /\ st.p.drag # None => st.p.focus = None \/ st.p.crossed
  /\ st.p.grab # None => st.p.focus \in {st.p.grab, None}
  /\ Grabbed(st)

Pressing(st, h) == Gestures(st, h) /\ Focussed(st)

Seated(W, B, st, h) == st \in Seats(W, B) /\ Constrained(st) /\ Pressing(st, h)

PtrInv(W, B) ==
  /\ Seated(W, B, [p |-> v1, c |-> v3, t |-> v4, x |-> v6], v5)
  /\ v2 \subseteq W /\ v5 \subseteq B

\* All that is known of the constants.
Pointed(W, B, P, C) ==
  /\ None \notin W \cup {ls} \cup B /\ ls \notin W /\ P \subseteq B /\ C \subseteq W

LEMMA Members ==
  ASSUME NEW W, NEW B
  PROVE  /\ None \in Spots(W) /\ None \in Maybe(W) /\ ls \in Spots(W)
         /\ \A z \in W : z \in Spots(W) /\ z \in Maybe(W)
         /\ \A z \in Maybe(W) : z \in Spots(W) /\ (z # None => z \in W)
         /\ \A z \in Spots(W) : z = None \/ z \in W \cup {ls}
         /\ \A z \in W \cup {ls} : z \in Spots(W)
         /\ \A b : b \in Some(B) <=> b \subseteq B
BY DEF Spots, Maybe, Some

-----------------------------------------------------------------------------
(* What the handlers of the pointer are made of.                            *)

\* Two seats that differ in the focus, the constraints and what the clients saw.
SameSeat(r, st) ==
  /\ r.p.hit = st.p.hit /\ r.p.grab = st.p.grab /\ r.p.kf = st.p.kf /\ r.p.move = st.p.move
  /\ r.p.own = st.p.own /\ r.p.pan = st.p.pan /\ r.p.ownButton = st.p.ownButton
  /\ r.p.pressed = st.p.pressed /\ r.p.consumed = st.p.consumed
  /\ r.p.drag = st.p.drag /\ r.p.dragButton = st.p.dragButton /\ r.p.last = st.p.last
  /\ r.p.overview = st.p.overview /\ r.p.crossed = st.p.crossed /\ r.p.locked = st.p.locked
  /\ r.x = st.x

\* They differ in the constraints only.
SameBut(r, st) == SameSeat(r, st) /\ r.p.focus = st.p.focus /\ r.t = st.t

LEMMA SamePressing ==
  ASSUME NEW r, NEW st, NEW h, SameBut(r, st), Pressing(st, h)
  PROVE  Pressing(r, h)
BY DEF SameBut, SameSeat, Pressing, Gestures, Focussed, Grabbed

\* The p of a seat, and the seat with another one.
IsTurned(W, d, c, on) ==
  d \in ConRecords(W) /\ d.active = on /\ d.on = c.on /\ d.locks = c.locks

LEMMA DeactivatedIs ==
  ASSUME NEW W, NEW B, NEW P, NEW C, NEW c \in ConRecords(W)
  PROVE  IsTurned(W, Ptr(W, B, P, C)!Deactivated(c), c, FALSE)
BY DEF Ptr!Deactivated, ConRecords, IsTurned

\* The state with other constraints and another `hidden`.
IsWith(W, B, r, st, c, hide) ==
  r \in Seats(W, B) /\ SameBut(r, st) /\ r.c = c /\ r.p.hidden = hide

LEMMA WithCons ==
  ASSUME NEW W, NEW B, NEW st \in Seats(W, B), NEW c \in Seq(ConRecords(W)), NEW hide \in BOOLEAN,
         NEW r, r = [st EXCEPT !.c = c, !.p.hidden = hide]
  PROVE  IsWith(W, B, r, st, c, hide)
<1> DEFINE q == [st.p EXCEPT !.hidden = hide]
<1>1. r.p = q /\ r.c = c /\ r.t = st.t /\ r.x = st.x /\ r \in [p : {q}, c : {c}, t : {st.t}, x : {st.x}]
  BY DEF Seats
<1>1a. st.p \in PtrRecords(W, B) /\ st \in Seats(W, B)
  BY DEF Seats
<1>1b. q \in PtrRecords(W, B)
  BY <1>1a DEF PtrRecords
<1>2. /\ q.hidden = hide
      /\ q.hit = st.p.hit /\ q.grab = st.p.grab /\ q.kf = st.p.kf /\ q.move = st.p.move
      /\ q.own = st.p.own /\ q.pan = st.p.pan /\ q.ownButton = st.p.ownButton
      /\ q.pressed = st.p.pressed /\ q.consumed = st.p.consumed
      /\ q.drag = st.p.drag /\ q.dragButton = st.p.dragButton /\ q.last = st.p.last
      /\ q.overview = st.p.overview /\ q.locked = st.p.locked /\ q.focus = st.p.focus
      /\ q.crossed = st.p.crossed
  BY <1>1a DEF PtrRecords
<1> HIDE DEF q
<1>3. r \in Seats(W, B)
  BY <1>1, <1>1a, <1>1b DEF Seats
<1>4. SameBut(r, st)
  BY <1>1, <1>2 DEF SameBut, SameSeat
<1> QED
  BY <1>1, <1>2, <1>3, <1>4 DEF IsWith

IsOff(W, B, r, st, i) ==
  /\ r \in Seats(W, B) /\ SameBut(r, st) /\ DOMAIN r.c = DOMAIN st.c
  /\ r.c[i].active = FALSE
  /\ \A j \in DOMAIN st.c :
       /\ r.c[j].on = st.c[j].on /\ r.c[j].locks = st.c[j].locks
       /\ j # i => r.c[j] = st.c[j]
  /\ r.p.hidden = (st.p.hidden /\ ~(st.c[i].active /\ st.c[i].locks))

LEMMA OffIs ==
  ASSUME NEW W, NEW B, NEW P, NEW C, NEW st \in Seats(W, B), NEW i \in DOMAIN st.c
  PROVE  IsOff(W, B, Ptr(W, B, P, C)!Off(st, i), st, i)
<1> DEFINE D == Ptr(W, B, P, C)!Deactivated(st.c[i])
           c == [st.c EXCEPT ![i] = D]
           hide == st.p.hidden /\ ~(st.c[i].active /\ st.c[i].locks)
           r == [st EXCEPT !.c = c, !.p.hidden = hide]
<1>1. st.c \in Seq(ConRecords(W)) /\ DOMAIN st.c = 1 .. Len(st.c) /\ st.c[i] \in ConRecords(W)
  BY DEF Seats
<1>2. IsTurned(W, D, st.c[i], FALSE)
  BY <1>1, DeactivatedIs
<1>3. Ptr(W, B, P, C)!Off(st, i) = r
  BY DEF Ptr!Off, Seats
<1> HIDE DEF D
<1>4. c \in Seq(ConRecords(W)) /\ DOMAIN c = DOMAIN st.c /\ c[i] = D /\ \A j \in DOMAIN st.c : j # i => c[j] = st.c[j]
  BY <1>1, <1>2 DEF IsTurned
<1>5. hide \in BOOLEAN
  OBVIOUS
<1> HIDE DEF c, hide
<1>6a. r = [st EXCEPT !.c = c, !.p.hidden = hide]
  OBVIOUS
<1> HIDE DEF r
<1>6. IsWith(W, B, r, st, c, hide)
  BY <1>4, <1>5, <1>6a, WithCons
<1> QED
  BY <1>2, <1>3, <1>4, <1>6 DEF hide, IsWith, IsTurned, IsOff

LEMMA OffKeeps ==
  ASSUME NEW W, NEW B, NEW P, NEW C, NEW st \in Seats(W, B), NEW i \in DOMAIN st.c, Constrained(st)
  PROVE  Constrained(Ptr(W, B, P, C)!Off(st, i))
<1> DEFINE r == Ptr(W, B, P, C)!Off(st, i)
<1>0. IsOff(W, B, r, st, i)
  BY OffIs
<1>1. /\ SameBut(r, st) /\ DOMAIN r.c = DOMAIN st.c
      /\ r.c[i].active = FALSE
      /\ \A j \in DOMAIN st.c :
           /\ r.c[j].on = st.c[j].on /\ r.c[j].locks = st.c[j].locks
           /\ j # i => r.c[j] = st.c[j]
      /\ r.p.hidden = (st.p.hidden /\ ~(st.c[i].active /\ st.c[i].locks))
  BY <1>0 DEF IsOff
<1> HIDE DEF r
<1>2. OneEach(r)
  BY <1>1 DEF Constrained, OneEach
<1>3. HiddenByLock(r)
  BY <1>1 DEF Constrained, HiddenByLock
<1>4. \A j \in DOMAIN r.c : r.c[j].active => st.c[j].active
  BY <1>1
<1>5. r.p.focus = st.p.focus
  BY <1>1 DEF SameBut
<1>6. \A k \in DOMAIN r.c : r.c[k].active =>
       /\ r.c[k].on # None /\ r.p.focus = r.c[k].on
       /\ \A j \in DOMAIN r.c : r.c[j].active => k = j
  BY <1>1, <1>4, <1>5 DEF Constrained
<1> QED
  BY <1>2, <1>3, <1>6 DEF Constrained, r

IsUpdated(W, B, r, st) == r \in Seats(W, B) /\ SameBut(r, st) /\ Constrained(r)

LEMMA AllOffIs ==
  ASSUME NEW W, NEW B, NEW P, NEW C, NEW st \in Seats(W, B), Constrained(st)
  PROVE  IsUpdated(W, B, Ptr(W, B, P, C)!AllOff(st), st)
<1> DEFINE D(k) == Ptr(W, B, P, C)!Deactivated(st.c[k])
           c == [k \in DOMAIN st.c |-> D(k)]
           hide == st.p.hidden /\ \A k \in DOMAIN st.c : ~(st.c[k].active /\ st.c[k].locks)
           r == [st EXCEPT !.c = c, !.p.hidden = hide]
<1>1. st.c \in Seq(ConRecords(W)) /\ DOMAIN st.c = 1 .. Len(st.c) /\ Len(st.c) \in Nat
  BY DEF Seats
<1>2. ASSUME NEW k \in DOMAIN st.c PROVE IsTurned(W, D(k), st.c[k], FALSE)
  <2>1. st.c[k] \in ConRecords(W)
    BY <1>1
  <2> QED
    BY <2>1, DeactivatedIs
<1>3. Ptr(W, B, P, C)!AllOff(st) = r
  BY DEF Ptr!AllOff, Seats
<1> HIDE DEF D
<1>4. c \in Seq(ConRecords(W)) /\ DOMAIN c = DOMAIN st.c /\ \A k \in DOMAIN st.c : c[k] = D(k)
  <2>1. \A k \in DOMAIN st.c : D(k) \in ConRecords(W)
    BY <1>2 DEF IsTurned
  <2> QED
    BY <1>1, <2>1
<1>5. hide = FALSE
  BY DEF Constrained, HiddenByLock
<1> HIDE DEF c, hide
<1>6a. r = [st EXCEPT !.c = c, !.p.hidden = hide]
  OBVIOUS
<1> HIDE DEF r
<1>6. IsWith(W, B, r, st, c, hide)
  BY <1>4, <1>5, <1>6a, WithCons
<1>6b. /\ DOMAIN r.c = DOMAIN st.c /\ r.p.hidden = FALSE
       /\ \A k \in DOMAIN st.c : r.c[k].active = FALSE /\ r.c[k].on = st.c[k].on
  BY <1>2, <1>4, <1>5, <1>6 DEF IsTurned, IsWith
<1>7. Constrained(r)
  BY <1>6b DEF Constrained, OneEach, HiddenByLock
<1> QED
  BY <1>3, <1>6, <1>7 DEF IsWith, IsUpdated

LEMMA UpdateIs ==
  ASSUME NEW W, NEW B, NEW P, NEW C, NEW st \in Seats(W, B), OneEach(st), HiddenByLock(st)
  PROVE  IsUpdated(W, B, Ptr(W, B, P, C)!UpdateConstraints(st), st)
<1> DEFINE F(k) == ~st.c[k].defunct /\ st.c[k].on # None /\ st.p.focus = st.c[k].on
           U(k) == Ptr(W, B, P, C)!Updated(st.c[k], F(k))
           c == [k \in DOMAIN st.c |-> U(k)]
           turned == {k \in DOMAIN st.c : st.c[k].locks /\ (st.c[k].active # F(k))}
           hide == IF turned = {} THEN st.p.hidden
                   ELSE \E k \in turned : F(k) /\ \A j \in turned : j <= k
           r == [st EXCEPT !.c = c, !.p.hidden = hide]
<1>1. st.c \in Seq(ConRecords(W)) /\ DOMAIN st.c = 1 .. Len(st.c) /\ Len(st.c) \in Nat
      /\ st.p.hidden \in BOOLEAN
  BY DEF Seats, PtrRecords
<1>2. ASSUME NEW k \in DOMAIN st.c
      PROVE  IsTurned(W, U(k), st.c[k], F(k))
  <2>1. st.c[k] \in ConRecords(W) /\ F(k) \in BOOLEAN
    BY <1>1
  <2>2. CASE F(k)
    BY <2>1, <2>2 DEF Ptr!Updated, ConRecords, IsTurned
  <2>3. CASE ~F(k)
    <3>1. U(k) = Ptr(W, B, P, C)!Deactivated(st.c[k])
      BY <2>3 DEF Ptr!Updated
    <3>2. IsTurned(W, U(k), st.c[k], FALSE)
      BY <2>1, <3>1, DeactivatedIs
    <3> QED
      BY <2>1, <2>3, <3>2
  <2> QED
    BY <2>1, <2>2, <2>3
<1>3. Ptr(W, B, P, C)!UpdateConstraints(st) = r
  BY DEF Ptr!UpdateConstraints, Ptr!Focused, Seats
<1> HIDE DEF U
<1>4. c \in Seq(ConRecords(W)) /\ DOMAIN c = DOMAIN st.c /\ \A k \in DOMAIN st.c : c[k] = U(k)
  BY <1>1, <1>2 DEF IsTurned
<1>5. hide \in BOOLEAN /\ (turned = {} => hide = st.p.hidden)
      /\ (turned # {} /\ hide => \E k \in DOMAIN st.c : st.c[k].locks /\ F(k))
  BY <1>1
<1>5a. turned = {} => \A k \in DOMAIN st.c : st.c[k].locks /\ st.c[k].active => F(k)
  <2> SUFFICES ASSUME turned = {}, NEW k \in DOMAIN st.c, st.c[k].locks, st.c[k].active, ~F(k)
               PROVE  FALSE
    OBVIOUS
  <2>1. k \in turned
    OBVIOUS
  <2> QED
    BY <2>1
<1> HIDE DEF c, hide, turned
<1>6a. r = [st EXCEPT !.c = c, !.p.hidden = hide]
  OBVIOUS
<1> HIDE DEF r
<1>6. IsWith(W, B, r, st, c, hide)
  BY <1>4, <1>5, <1>6a, WithCons
<1>7. r.p.focus = st.p.focus
  BY <1>6 DEF SameBut, IsWith
<1>8. OneEach(r)
  BY <1>2, <1>4, <1>6 DEF OneEach, IsTurned, IsWith
<1>9. HiddenByLock(r)
  BY <1>2, <1>4, <1>5, <1>5a, <1>6 DEF HiddenByLock, IsTurned, IsWith
<1>10. \A k \in DOMAIN r.c : r.c[k].active =>
         /\ r.c[k].on # None /\ r.p.focus = r.c[k].on
         /\ \A j \in DOMAIN r.c : r.c[j].active => k = j
  <2>1. \A k \in DOMAIN r.c : r.c[k].active => r.c[k].on # None /\ r.p.focus = r.c[k].on
    BY <1>2, <1>4, <1>6, <1>7 DEF IsTurned, IsWith
  <2> QED
    BY <1>8, <2>1 DEF OneEach
<1> QED
  BY <1>3, <1>6, <1>8, <1>9, <1>10 DEF Constrained, IsWith, IsUpdated

-----------------------------------------------------------------------------
(* The focus.                                                               *)

LEMMA SameConstrained ==
  ASSUME NEW r, NEW st, r.c = st.c, r.p.hidden = st.p.hidden, Constrained(st),
         r.p.focus = st.p.focus \/ \A i \in DOMAIN st.c : ~st.c[i].active
  PROVE  Constrained(r)
BY DEF Constrained, OneEach, HiddenByLock

\* What set_pointer_focus() does to the seat.
IsFocus(W, B, r, st, next) ==
  /\ r \in Seats(W, B) /\ SameSeat(r, st) /\ r.p.focus = next
  /\ Constrained(r)
  /\ st.p.focus = next => r.t = st.t

LEMMA FocusIs ==
  ASSUME NEW W, NEW B, NEW P, NEW C, NEW st \in Seats(W, B), NEW next \in Spots(W),
         Constrained(st)
  PROVE  IsFocus(W, B, Ptr(W, B, P, C)!SetFocus(st, next), st, next)
<1>1. CASE st.p.focus = next
  <2>1. Ptr(W, B, P, C)!SetFocus(st, next) = st
    BY <1>1 DEF Ptr!SetFocus
  <2> QED
    BY <1>1, <2>1 DEF IsFocus, SameSeat
<1>2. CASE st.p.focus # next
  <2> DEFINE q == [st.p EXCEPT !.focus = next]
             t == [s \in W \cup {ls} |-> IF s \in {st.p.focus, next} THEN {} ELSE st.t[s]]
             m == [st EXCEPT !.p.focus = next, !.t = t]
             r == Ptr(W, B, P, C)!UpdateConstraints(m)
  <2>1. Ptr(W, B, P, C)!SetFocus(st, next) = r
    BY <1>2 DEF Ptr!SetFocus, Ptr!Surfaces, Seats
  <2>2. m.p = q /\ m.c = st.c /\ m.t = t /\ m.x = st.x /\ m \in [p : {q}, c : {st.c}, t : {t}, x : {st.x}]
    BY DEF Seats
  <2>3. st.p \in PtrRecords(W, B) /\ st.t \in [W \cup {ls} -> SUBSET B]
        /\ st.c \in Seq(ConRecords(W)) /\ st.x \in SUBSET B
    BY DEF Seats
  <2>4. t \in [W \cup {ls} -> SUBSET B]
    BY <2>3
  <2>5. q \in PtrRecords(W, B) /\ q.focus = next /\ q.hidden = st.p.hidden
    BY <2>3 DEF PtrRecords
  <2>6. /\ q.hit = st.p.hit /\ q.grab = st.p.grab /\ q.kf = st.p.kf /\ q.move = st.p.move
        /\ q.own = st.p.own /\ q.pan = st.p.pan /\ q.ownButton = st.p.ownButton
        /\ q.pressed = st.p.pressed /\ q.consumed = st.p.consumed
        /\ q.drag = st.p.drag /\ q.dragButton = st.p.dragButton /\ q.last = st.p.last
        /\ q.overview = st.p.overview /\ q.crossed = st.p.crossed /\ q.locked = st.p.locked
    BY <2>3 DEF PtrRecords
  <2> HIDE DEF q, t, m
  <2>7. m \in Seats(W, B)
    BY <2>2, <2>3, <2>4, <2>5 DEF Seats
  <2>8. OneEach(m) /\ HiddenByLock(m)
    BY <2>2, <2>5 DEF Constrained, OneEach, HiddenByLock
  <2>9. IsUpdated(W, B, r, m)
    BY <2>7, <2>8, UpdateIs
  <2> HIDE DEF r
  <2>10. SameSeat(m, st) /\ m.p.focus = next
    BY <2>2, <2>5, <2>6 DEF SameSeat
  <2> QED
    BY <1>2, <2>1, <2>9, <2>10 DEF IsUpdated, IsFocus, SameBut, SameSeat
<1> QED
  BY <1>1, <1>2

\* The buttons stay right when no client with the grab loses the pointer.
LEMMA FocusPressing ==
  ASSUME NEW W, NEW B, NEW r, NEW st, NEW next, NEW h, IsFocus(W, B, r, st, next),
         Gestures(st, h), st.p.pan => next = None,
         st.p.drag # None => next = None \/ st.p.crossed,
         st.p.grab # None => next \in {st.p.grab, None},
         OwnOrCut(st) \/ (Focussed(st) /\ next = st.p.grab) \/ (Focussed(st) /\ st.p.grab = None)
  PROVE  Pressing(r, h)
<1>1. Gestures(r, h)
  BY DEF IsFocus, SameSeat, Gestures
<1>2. Grabbed(r)
  <2>1. CASE OwnOrCut(st)
    BY <2>1 DEF IsFocus, SameSeat, OwnOrCut, Grabbed
  <2>2. CASE Focussed(st) /\ st.p.focus = next
    BY <2>2 DEF IsFocus, SameSeat, Focussed, Grabbed
  <2>3. CASE Focussed(st) /\ st.p.focus # next /\ ~OwnOrCut(st)
    BY <2>3 DEF Focussed, Grabbed, OwnOrCut
  <2> QED
    BY <2>1, <2>2, <2>3
<1>3. Focussed(r)
  BY <1>2 DEF Focussed, IsFocus, SameSeat
<1> QED
  BY <1>1, <1>3 DEF Pressing

-----------------------------------------------------------------------------
(* Gestures and the keyboard focus.                                         *)

\* Fields of a seat that no handler of this group changes.
IsEnd(W, B, r, st) ==
  /\ r \in Seats(W, B) /\ r.c = st.c /\ r.t = st.t
  /\ r.x = IF st.p.own THEN st.x \cup ({st.p.ownButton} \cap st.p.pressed) ELSE st.x
  /\ r.p.move = None /\ r.p.own = FALSE /\ r.p.pan = FALSE /\ r.p.ownButton = None
  /\ r.p.focus = st.p.focus /\ r.p.hidden = st.p.hidden
  /\ r.p.hit = st.p.hit /\ r.p.grab = st.p.grab /\ r.p.kf = st.p.kf
  /\ r.p.pressed = st.p.pressed /\ r.p.consumed = st.p.consumed
  /\ r.p.drag = st.p.drag /\ r.p.dragButton = st.p.dragButton /\ r.p.last = st.p.last
  /\ r.p.overview = st.p.overview /\ r.p.crossed = st.p.crossed /\ r.p.locked = st.p.locked

LEMMA EndIs ==
  ASSUME NEW W, NEW B, NEW P, NEW C, NEW st \in Seats(W, B)
  PROVE  IsEnd(W, B, Ptr(W, B, P, C)!EndMove(st), st)
<1> DEFINE q == [st.p EXCEPT !.move = None, !.own = FALSE, !.pan = FALSE, !.ownButton = None]
           x == IF st.p.own THEN st.x \cup ({st.p.ownButton} \cap st.p.pressed) ELSE st.x
           r == Ptr(W, B, P, C)!EndMove(st)
<1>1. r.p = q /\ r.c = st.c /\ r.t = st.t /\ r.x = x /\ r \in [p : {q}, c : {st.c}, t : {st.t}, x : {x}]
  BY DEF Ptr!EndMove, Seats
<1>2. st.p \in PtrRecords(W, B) /\ st.x \in SUBSET B
      /\ st.t \in [W \cup {ls} -> SUBSET B] /\ st.c \in Seq(ConRecords(W))
  BY DEF Seats
<1>2a. st.p.pressed \in SUBSET B
  BY <1>2 DEF PtrRecords, Some
<1>3. q \in PtrRecords(W, B)
  <2>1. None \in Maybe(W) /\ None \in Maybe(B)
    BY Members
  <2> QED
    BY <1>2, <2>1 DEF PtrRecords
<1>4. x \in SUBSET B
  BY <1>2, <1>2a
<1>5. /\ q.move = None /\ q.own = FALSE /\ q.pan = FALSE /\ q.ownButton = None
      /\ q.focus = st.p.focus /\ q.hidden = st.p.hidden
      /\ q.hit = st.p.hit /\ q.grab = st.p.grab /\ q.kf = st.p.kf
      /\ q.pressed = st.p.pressed /\ q.consumed = st.p.consumed
      /\ q.drag = st.p.drag /\ q.dragButton = st.p.dragButton /\ q.last = st.p.last
      /\ q.overview = st.p.overview /\ q.crossed = st.p.crossed /\ q.locked = st.p.locked
  BY <1>2 DEF PtrRecords
<1> HIDE DEF q, r
<1>6. r \in Seats(W, B)
  BY <1>1, <1>2, <1>3, <1>4 DEF Seats
<1> QED
  BY <1>1, <1>5, <1>6 DEF IsEnd, r

LEMMA EndPressing ==
  ASSUME NEW W, NEW B, NEW r, NEW st, NEW h, IsEnd(W, B, r, st), Pressing(st, h)
  PROVE  Pressing(r, h)
<1>1. Gestures(r, h)
  BY DEF IsEnd, Pressing, Gestures
<1>2. Focussed(r)
  BY DEF IsEnd, Pressing, Gestures, Focussed, Grabbed
<1> QED
  BY <1>1, <1>2 DEF Pressing

\* No constraint is active that was not.
Fewer(r, st) ==
  /\ DOMAIN r.c = DOMAIN st.c
  /\ \A k \in DOMAIN r.c : r.c[k].on = st.c[k].on /\ (r.c[k].active => st.c[k].active)

\* What set_keyboard_focus() does to the seat.
IsKf(W, B, r, st, next) ==
  /\ r \in Seats(W, B) /\ Constrained(r) /\ Fewer(r, st) /\ r.t = st.t
  /\ r.p.focus = st.p.focus /\ r.p.hit = st.p.hit /\ r.p.grab = st.p.grab
  /\ r.p.pressed = st.p.pressed /\ r.p.consumed = st.p.consumed
  /\ r.p.drag = st.p.drag /\ r.p.dragButton = st.p.dragButton /\ r.p.last = st.p.last
  /\ r.p.overview = st.p.overview /\ r.p.crossed = st.p.crossed /\ r.p.locked = st.p.locked
  /\ \/ /\ r.x = st.x /\ r.p.move = st.p.move /\ r.p.own = st.p.own
        /\ r.p.pan = st.p.pan /\ r.p.ownButton = st.p.ownButton
     \/ /\ st.p.own /\ st.p.move # next /\ r.x = st.x \cup ({st.p.ownButton} \cap st.p.pressed)
        /\ r.p.move = None /\ r.p.own = FALSE /\ r.p.pan = FALSE /\ r.p.ownButton = None

\* One active constraint, if there is one.
LEMMA ActiveOne ==
  ASSUME NEW W, NEW B, NEW P, NEW C, NEW st
  PROVE  /\ Ptr(W, B, P, C)!Active(st) \subseteq DOMAIN st.c
         /\ Ptr(W, B, P, C)!Active(st) # {} =>
              (CHOOSE j \in Ptr(W, B, P, C)!Active(st) : TRUE) \in DOMAIN st.c
BY DEF Ptr!Active

IsWithKf(W, B, r, st, next) ==
  /\ r \in Seats(W, B) /\ r.c = st.c /\ r.t = st.t /\ r.x = st.x
  /\ r.p = [st.p EXCEPT !.kf = next]

LEMMA WithKf ==
  ASSUME NEW W, NEW B, NEW st \in Seats(W, B), NEW next \in Spots(W),
         NEW r, r = [st EXCEPT !.p.kf = next]
  PROVE  IsWithKf(W, B, r, st, next)
<1>1. r.p = [st.p EXCEPT !.kf = next] /\ r.c = st.c /\ r.t = st.t /\ r.x = st.x
  BY DEF Seats
<1>2. [st.p EXCEPT !.kf = next] \in PtrRecords(W, B)
  <2>1. st.p \in PtrRecords(W, B)
    BY DEF Seats
  <2> QED
    BY <2>1 DEF PtrRecords
<1> QED
  BY <1>1, <1>2 DEF Seats, IsWithKf

LEMMA KfIs ==
  ASSUME NEW W, NEW B, NEW P, NEW C, NEW st \in Seats(W, B), NEW next \in Spots(W),
         Constrained(st)
  PROVE  IsKf(W, B, Ptr(W, B, P, C)!SetKeyboardFocus(st, next), st, next)
<1> DEFINE ended == IF st.p.own /\ st.p.move # next THEN Ptr(W, B, P, C)!EndMove(st) ELSE st
           i == Ptr(W, B, P, C)!Active(ended)
           k == CHOOSE j \in i : TRUE
           free == IF i # {} /\ ended.c[k].on # next THEN Ptr(W, B, P, C)!Off(ended, k) ELSE ended
           r == [free EXCEPT !.p.kf = next]
           m == Ptr(W, B, P, C)!SetKeyboardFocus(st, next)
<1>1. m = IF ended.p.kf = next THEN ended ELSE r
  BY DEF Ptr!SetKeyboardFocus
<1>2. IsKf(W, B, ended, st, next)
  <2>1. CASE st.p.own /\ st.p.move # next
    <3>1. IsEnd(W, B, ended, st)
      BY <2>1, EndIs
    <3> HIDE DEF ended
    <3>2. Constrained(ended)
      BY <3>1, SameConstrained DEF IsEnd
    <3> QED
      BY <2>1, <3>1, <3>2 DEF IsEnd, IsKf, Fewer
  <2>2. CASE ~(st.p.own /\ st.p.move # next)
    BY <2>2 DEF IsKf, Fewer
  <2> QED
    BY <2>1, <2>2
<1>3. i # {} => k \in DOMAIN ended.c
  BY ActiveOne
<1> HIDE DEF ended, i, k, m
<1>4. IsKf(W, B, free, st, next)
  <2>1. CASE i # {} /\ ended.c[k].on # next
    <3>1. ended \in Seats(W, B) /\ Constrained(ended) /\ k \in DOMAIN ended.c
      BY <1>2, <1>3, <2>1 DEF IsKf
    <3>2. IsOff(W, B, free, ended, k) /\ Constrained(free)
      BY <2>1, <3>1, OffIs, OffKeeps
    <3> HIDE DEF free
    <3> QED
      <4>1. Fewer(free, ended)
        BY <3>2 DEF IsOff, Fewer
      <4>2. Fewer(free, st)
        BY <1>2, <4>1 DEF IsKf, Fewer
      <4> QED
        BY <1>2, <3>2, <4>2 DEF IsOff, IsKf, SameBut, SameSeat
  <2>2. CASE ~(i # {} /\ ended.c[k].on # next)
    BY <1>2, <2>2
  <2> QED
    BY <2>1, <2>2
<1> HIDE DEF free
<1>5. IsKf(W, B, r, st, next)
  <2>1. free \in Seats(W, B) /\ r = [free EXCEPT !.p.kf = next]
    BY <1>4 DEF IsKf
  <2> HIDE DEF r
  <2>1a. IsWithKf(W, B, r, free, next)
    BY <2>1, WithKf
  <2>2. /\ r \in Seats(W, B) /\ r.c = free.c /\ r.t = free.t /\ r.x = free.x
        /\ r.p = [free.p EXCEPT !.kf = next]
    BY <2>1a DEF IsWithKf
  <2>3. free.p \in PtrRecords(W, B)
    BY <2>1 DEF Seats
  <2>4. /\ r.p.focus = free.p.focus /\ r.p.hidden = free.p.hidden
        /\ r.p.hit = free.p.hit /\ r.p.grab = free.p.grab /\ r.p.move = free.p.move
        /\ r.p.own = free.p.own /\ r.p.pan = free.p.pan /\ r.p.ownButton = free.p.ownButton
        /\ r.p.pressed = free.p.pressed /\ r.p.consumed = free.p.consumed
        /\ r.p.drag = free.p.drag /\ r.p.dragButton = free.p.dragButton /\ r.p.last = free.p.last
        /\ r.p.overview = free.p.overview /\ r.p.locked = free.p.locked
        /\ r.p.crossed = free.p.crossed
    BY <2>2, <2>3 DEF PtrRecords
  <2>5. Constrained(r)
    BY <1>4, <2>2, <2>4, SameConstrained DEF IsKf
  <2>6. Fewer(r, st)
    BY <1>4, <2>2 DEF IsKf, Fewer
  <2> QED
    BY <1>4, <2>2, <2>4, <2>5, <2>6 DEF IsKf
<1> QED
  BY <1>1, <1>2, <1>5 DEF m

LEMMA RaisedIs ==
  ASSUME NEW W, NEW B, NEW P, NEW C, NEW st \in Seats(W, B), NEW next \in Spots(W),
         Constrained(st)
  PROVE  IsKf(W, B, Ptr(W, B, P, C)!Raised(st, next), st, next)
<1>1. CASE st.p.kf = next
  <2>1. Ptr(W, B, P, C)!Raised(st, next) = st
    BY <1>1 DEF Ptr!Raised
  <2> QED
    BY <2>1 DEF IsKf, Fewer
<1>2. CASE st.p.kf # next
  BY <1>2, KfIs DEF Ptr!Raised
<1> QED
  BY <1>1, <1>2

LEMMA KfPressing ==
  ASSUME NEW W, NEW B, NEW r, NEW st, NEW next, NEW h, IsKf(W, B, r, st, next), Pressing(st, h)
  PROVE  Pressing(r, h)
<1>1. CASE /\ r.x = st.x /\ r.p.move = st.p.move /\ r.p.own = st.p.own
           /\ r.p.pan = st.p.pan /\ r.p.ownButton = st.p.ownButton
  BY <1>1 DEF IsKf, Pressing, Gestures, Focussed, Grabbed
<1>2. CASE /\ st.p.own /\ st.p.move # next /\ r.x = st.x \cup ({st.p.ownButton} \cap st.p.pressed)
           /\ r.p.move = None /\ r.p.own = FALSE /\ r.p.pan = FALSE /\ r.p.ownButton = None
  <2>1. Gestures(r, h)
    BY <1>2 DEF IsKf, Pressing, Gestures
  <2>2. Grabbed(r)
    BY <1>2 DEF IsKf, Pressing, Focussed, Grabbed
  <2>3. Focussed(r)
    BY <1>2, <2>2 DEF IsKf, Pressing, Focussed
  <2> QED
    BY <2>1, <2>3 DEF Pressing
<1> QED
  BY <1>1, <1>2 DEF IsKf

\* No constraint of the window is active.
NotOn(st, w) == \A i \in DOMAIN st.c : st.c[i].active => st.c[i].on # w

\* The seat forgets a surface.
IsForgotten(W, B, r, st, w) ==
  /\ r \in Seats(W, B) /\ Constrained(r) /\ r.t = st.t
  /\ r.p.focus = (IF st.p.focus = w THEN None ELSE st.p.focus)
  /\ r.p.grab = (IF st.p.grab = w THEN None ELSE st.p.grab)
  /\ r.x = (IF st.p.grab = w THEN st.x \cup st.p.pressed ELSE st.x)
  /\ r.p.kf = st.p.kf /\ r.p.move = st.p.move
  /\ r.p.own = st.p.own /\ r.p.pan = st.p.pan /\ r.p.ownButton = st.p.ownButton
  /\ r.p.pressed = st.p.pressed /\ r.p.consumed = st.p.consumed
  /\ r.p.drag = st.p.drag /\ r.p.dragButton = st.p.dragButton /\ r.p.last = st.p.last
  /\ r.p.overview = st.p.overview /\ r.p.locked = st.p.locked /\ r.c = st.c
  /\ r.p.crossed = st.p.crossed
  /\ r.p.hidden = st.p.hidden

LEMMA ForgottenIs ==
  ASSUME NEW W, NEW B, NEW P, NEW C, NEW st \in Seats(W, B), NEW w, Constrained(st), w # None, NotOn(st, w)
  PROVE  IsForgotten(W, B, Ptr(W, B, P, C)!Forgotten(st, w), st, w)
<1> DEFINE f == IF st.p.focus = w THEN None ELSE st.p.focus
           z == IF st.p.hit = w THEN None ELSE st.p.hit
           g == IF st.p.grab = w THEN None ELSE st.p.grab
           q == [st.p EXCEPT !.focus = f, !.hit = z, !.grab = g]
           x == IF st.p.grab = w THEN st.x \cup st.p.pressed ELSE st.x
           r == Ptr(W, B, P, C)!Forgotten(st, w)
<1>1. r.p = q /\ r.c = st.c /\ r.t = st.t /\ r.x = x /\ r \in [p : {q}, c : {st.c}, t : {st.t}, x : {x}]
  BY DEF Ptr!Forgotten, Seats
<1>2. st.p \in PtrRecords(W, B) /\ st.x \in SUBSET B
      /\ st.t \in [W \cup {ls} -> SUBSET B] /\ st.c \in Seq(ConRecords(W))
  BY DEF Seats
<1>3. /\ st.p.pressed \in SUBSET B
      /\ f \in Spots(W) /\ z \in Spots(W) /\ g \in Spots(W)
  BY <1>2, Members DEF PtrRecords, Some
<1>4. x \in SUBSET B /\ (f = st.p.focus \/ \A i \in DOMAIN st.c : ~st.c[i].active)
  <2>1. x \in SUBSET B
    BY <1>2, <1>3
  <2>2. CASE st.p.focus = w
    BY <2>1, <2>2 DEF Constrained, NotOn
  <2>3. CASE st.p.focus # w
    BY <2>1, <2>3
  <2> QED
    BY <2>2, <2>3
<1> HIDE DEF f, z, g
<1>5. q \in PtrRecords(W, B)
  <2>1. st.p \in PtrRecords(W, B)
    BY <1>2
  <2> DEFINE q1 == [st.p EXCEPT !.focus = f]
             q2 == [q1 EXCEPT !.hit = z]
             q3 == [q2 EXCEPT !.grab = g]
  <2>2. q1 \in PtrRecords(W, B)
    BY ONLY <1>3, <2>1 DEF PtrRecords, q1
  <2>3. q = q3
    BY ONLY <2>1 DEF PtrRecords, q, q1, q2, q3
  <2> HIDE DEF q1, q
  <2>4. q2 \in PtrRecords(W, B)
    BY ONLY <1>3, <2>2 DEF PtrRecords, q2
  <2> HIDE DEF q2
  <2>5. q3 \in PtrRecords(W, B)
    BY ONLY <1>3, <2>4 DEF PtrRecords, q3
  <2> QED
    BY <2>3, <2>5
<1>6. /\ q.focus = f /\ q.grab = g
      /\ q.hidden = st.p.hidden /\ q.kf = st.p.kf /\ q.move = st.p.move
      /\ q.own = st.p.own /\ q.pan = st.p.pan /\ q.ownButton = st.p.ownButton
      /\ q.pressed = st.p.pressed /\ q.consumed = st.p.consumed
      /\ q.drag = st.p.drag /\ q.dragButton = st.p.dragButton /\ q.last = st.p.last
      /\ q.overview = st.p.overview /\ q.crossed = st.p.crossed /\ q.locked = st.p.locked
  BY <1>2 DEF PtrRecords
<1> HIDE DEF q, r
<1>7. r \in Seats(W, B)
  BY <1>1, <1>2, <1>4, <1>5 DEF Seats
<1>8. Constrained(r)
  BY <1>1, <1>4, <1>6, SameConstrained
<1> QED
  BY <1>1, <1>6, <1>7, <1>8 DEF IsForgotten, f, g, r

LEMMA ForgottenPressing ==
  ASSUME NEW W, NEW B, NEW r, NEW st, NEW w, NEW h, IsForgotten(W, B, r, st, w), w # None,
         Pressing(st, h)
  PROVE  Pressing(r, h)
<1>1. Gestures(r, h)
  BY DEF IsForgotten, Pressing, Gestures
<1>2. Grabbed(r)
  <2>1. CASE st.p.grab = w
    BY <2>1 DEF IsForgotten, Pressing, Focussed, Grabbed
  <2>2. CASE st.p.grab # w
    BY <2>2 DEF IsForgotten, Pressing, Focussed, Grabbed
  <2> QED
    BY <2>1, <2>2
<1>3. Focussed(r)
  BY <1>2 DEF IsForgotten, Pressing, Focussed
<1> QED
  BY <1>1, <1>3 DEF Pressing

-----------------------------------------------------------------------------
(* The steps of the pointer.                                                *)

\* A seat is made of its parts.
LEMMA SeatParts ==
  ASSUME NEW W, NEW B, NEW st \in Seats(W, B)
  PROVE  /\ st.p \in PtrRecords(W, B) /\ st.c \in Seq(ConRecords(W))
         /\ st.t \in [W \cup {ls} -> SUBSET B] /\ st.x \in SUBSET B
         /\ DOMAIN st = {"p", "c", "t", "x"}
         /\ st.p.pressed \in SUBSET B /\ st.p.consumed \in SUBSET B
BY DEF Seats, PtrRecords, Some

LEMMA PartsSeat ==
  ASSUME NEW W, NEW B, NEW r, r = [p |-> r.p, c |-> r.c, t |-> r.t, x |-> r.x],
         r.p \in PtrRecords(W, B), r.c \in Seq(ConRecords(W)), r.t \in [W \cup {ls} -> SUBSET B],
         r.x \in SUBSET B
  PROVE  r \in Seats(W, B)
BY DEF Seats

LEMMA SeatSet ==
  ASSUME NEW W, NEW B, NEW P, NEW C, NEW st, Seated(W, B, st, v5'), Ptr(W, B, P, C)!Set(st),
         v2' \subseteq W, v5' \subseteq B
  PROVE  PtrInv(W, B)'
<1> DEFINE z == st.p.crossed /\ (st.p.drag # None \/ st.p.move # None)
           q == [st.p EXCEPT !.crossed = z]
           r == [p |-> q, c |-> st.c, t |-> st.t, x |-> st.x]
<1>1. v1' = q /\ v3' = st.c /\ v4' = st.t /\ v6' = st.x
  BY DEF Ptr!Set
<1>2. st \in Seats(W, B) /\ Constrained(st) /\ Pressing(st, v5')
  BY DEF Seated
<1>3. /\ st.p \in PtrRecords(W, B) /\ st.c \in Seq(ConRecords(W))
      /\ st.t \in [W \cup {ls} -> SUBSET B] /\ st.x \in SUBSET B
  BY <1>2, SeatParts
<1>4. /\ q \in PtrRecords(W, B) /\ q.crossed = z
      /\ q.focus = st.p.focus /\ q.hidden = st.p.hidden /\ q.hit = st.p.hit /\ q.grab = st.p.grab
      /\ q.kf = st.p.kf /\ q.move = st.p.move
      /\ q.own = st.p.own /\ q.pan = st.p.pan /\ q.ownButton = st.p.ownButton
      /\ q.pressed = st.p.pressed /\ q.consumed = st.p.consumed
      /\ q.drag = st.p.drag /\ q.dragButton = st.p.dragButton /\ q.last = st.p.last
      /\ q.overview = st.p.overview /\ q.locked = st.p.locked
  BY <1>3 DEF PtrRecords
<1>5. r.p = q /\ r.c = st.c /\ r.t = st.t /\ r.x = st.x
      /\ r = [p |-> r.p, c |-> r.c, t |-> r.t, x |-> r.x]
  OBVIOUS
<1> HIDE DEF q, r
<1>6. r \in Seats(W, B)
  BY <1>3, <1>4, <1>5, PartsSeat
<1>7. Constrained(r)
  BY <1>2, <1>4, <1>5, SameConstrained
<1>8. Gestures(r, v5')
  BY <1>2, <1>4, <1>5 DEF Pressing, Gestures
<1>9. Focussed(r)
  BY <1>2, <1>4, <1>5 DEF Pressing, Focussed, Grabbed
<1>10. r = [p |-> v1', c |-> v3', t |-> v4', x |-> v6']
  BY <1>1, <1>5
<1> QED
  BY <1>6, <1>7, <1>8, <1>9, <1>10 DEF PtrInv, Seated, Pressing

LEMMA HereSeated ==
  ASSUME NEW W, NEW B, NEW P, NEW C, PtrInv(W, B)
  PROVE  /\ Seated(W, B, Ptr(W, B, P, C)!Here, v5) /\ v2 \subseteq W /\ v5 \subseteq B
         /\ v1 \in PtrRecords(W, B) /\ v3 \in Seq(ConRecords(W))
BY DEF PtrInv, Ptr!Here, Seated, Seats

LEMMA ConsAre ==
  ASSUME NEW W, NEW B, NEW st, NEW h, Seated(W, B, st, h), NEW i \in DOMAIN st.c
  PROVE  st.c[i] \in ConRecords(W)
<1>1. st.c \in Seq(ConRecords(W))
  BY DEF Seated, Seats
<1> QED
  BY <1>1

IsHit(W, B, r, st, h, z) ==
  /\ Seated(W, B, r, h) /\ r.c = st.c /\ r.p.hit = z /\ r.p.grab = st.p.grab
  /\ r.p.pan = st.p.pan /\ r.p.drag = st.p.drag

LEMMA WithHit ==
  ASSUME NEW W, NEW B, NEW st, NEW h, NEW z \in Spots(W), Seated(W, B, st, h),
         NEW r, r = [st EXCEPT !.p.hit = z]
  PROVE  IsHit(W, B, r, st, h, z)
<1> DEFINE q == [st.p EXCEPT !.hit = z]
<1>0. st \in Seats(W, B) /\ Constrained(st) /\ Pressing(st, h)
  BY DEF Seated
<1>1. r.p = q /\ r.c = st.c /\ r.t = st.t /\ r.x = st.x /\ r \in [p : {q}, c : {st.c}, t : {st.t}, x : {st.x}]
  BY <1>0 DEF Seats
<1>2. st.p \in PtrRecords(W, B)
  BY <1>0 DEF Seats
<1>3. q \in PtrRecords(W, B)
  BY <1>2 DEF PtrRecords
<1>4. /\ q.focus = st.p.focus /\ q.grab = st.p.grab /\ q.hit = z
      /\ q.hidden = st.p.hidden /\ q.kf = st.p.kf /\ q.move = st.p.move
      /\ q.own = st.p.own /\ q.pan = st.p.pan /\ q.ownButton = st.p.ownButton
      /\ q.pressed = st.p.pressed /\ q.consumed = st.p.consumed
      /\ q.drag = st.p.drag /\ q.dragButton = st.p.dragButton /\ q.last = st.p.last
      /\ q.overview = st.p.overview /\ q.crossed = st.p.crossed /\ q.locked = st.p.locked
  BY <1>2 DEF PtrRecords
<1> HIDE DEF q
<1>5. r \in Seats(W, B)
  BY <1>0, <1>1, <1>3 DEF Seats
<1>6. Constrained(r)
  BY <1>0, <1>1, <1>4, SameConstrained
<1>7. Pressing(r, h)
  BY <1>0, <1>1, <1>4 DEF Pressing, Gestures, Focussed, Grabbed
<1> QED
  BY <1>1, <1>4, <1>5, <1>6, <1>7 DEF Seated, IsHit

\* A constraint that ends leaves the rest of the seat.
LEMMA OffSeated ==
  ASSUME NEW W, NEW B, NEW P, NEW C, NEW st, NEW h, Seated(W, B, st, h), NEW i \in DOMAIN st.c
  PROVE  LET r == Ptr(W, B, P, C)!Off(st, i)
         IN Seated(W, B, r, h) /\ SameBut(r, st)
<1>1. st \in Seats(W, B) /\ Constrained(st) /\ Pressing(st, h)
  BY DEF Seated
<1>2. IsOff(W, B, Ptr(W, B, P, C)!Off(st, i), st, i) /\ Constrained(Ptr(W, B, P, C)!Off(st, i))
  BY <1>1, OffIs, OffKeeps
<1>3. SameBut(Ptr(W, B, P, C)!Off(st, i), st)
  BY <1>2 DEF IsOff
<1>4. Pressing(Ptr(W, B, P, C)!Off(st, i), h)
  BY <1>1, <1>3, SamePressing
<1> QED
  BY <1>2, <1>3, <1>4 DEF Seated, IsOff

LEMMA FocusSeated ==
  ASSUME NEW W, NEW B, NEW P, NEW C, NEW st, NEW h, NEW next \in Spots(W),
         Seated(W, B, st, h), st.p.pan => next = None,
         st.p.drag # None => next = None \/ st.p.crossed,
         st.p.grab # None => next = st.p.grab
  PROVE  Seated(W, B, Ptr(W, B, P, C)!SetFocus(st, next), h)
<1> DEFINE r == Ptr(W, B, P, C)!SetFocus(st, next)
<1>1. st \in Seats(W, B) /\ Constrained(st) /\ Pressing(st, h)
  BY DEF Seated
<1>2. IsFocus(W, B, r, st, next)
  BY <1>1, FocusIs
<1> HIDE DEF r
<1>3. Gestures(st, h) /\ Focussed(st)
  BY <1>1 DEF Pressing
<1>4. Pressing(r, h)
  BY <1>2, <1>3, FocusPressing
<1> QED
  BY <1>2, <1>4 DEF Seated, IsFocus, r

LEMMA EndSeated ==
  ASSUME NEW W, NEW B, NEW P, NEW C, NEW st, NEW h, Seated(W, B, st, h)
  PROVE  LET r == Ptr(W, B, P, C)!EndMove(st) IN IsEnd(W, B, r, st) /\ Seated(W, B, r, h)
<1> DEFINE r == Ptr(W, B, P, C)!EndMove(st)
<1>1. st \in Seats(W, B) /\ Constrained(st) /\ Pressing(st, h)
  BY DEF Seated
<1>2. IsEnd(W, B, r, st)
  BY <1>1, EndIs
<1> HIDE DEF r
<1>3. Pressing(r, h)
  BY <1>1, <1>2, EndPressing
<1>4. Constrained(r)
  <2>1. r.c = st.c /\ r.p.hidden = st.p.hidden /\ r.p.focus = st.p.focus
    BY <1>2 DEF IsEnd
  <2> QED
    BY <1>1, <2>1, SameConstrained
<1>5. IsEnd(W, B, r, st) /\ Seated(W, B, r, h)
  BY <1>2, <1>3, <1>4 DEF Seated, IsEnd
<1> QED
  BY <1>5 DEF r

LEMMA FollowSeated ==
  ASSUME NEW W, NEW B, NEW P, NEW C, NEW st, NEW h,
         Seated(W, B, st, h), ~st.p.pan, st.p.drag = None
  PROVE  Seated(W, B, Ptr(W, B, P, C)!UpdateConstraints(
                        Ptr(W, B, P, C)!SetFocus(st, IF st.p.grab # None THEN st.p.grab ELSE st.p.hit)), h)
<1> DEFINE next == IF st.p.grab # None THEN st.p.grab ELSE st.p.hit
           m == Ptr(W, B, P, C)!SetFocus(st, next)
           r == Ptr(W, B, P, C)!UpdateConstraints(m)
<1>1. next \in Spots(W) /\ (st.p.grab # None => next = st.p.grab)
  BY DEF Seated, Seats, PtrRecords
<1> HIDE DEF next
<1>2. Seated(W, B, m, h)
  BY <1>1, FocusSeated
<1> HIDE DEF m
<1>3. m \in Seats(W, B) /\ OneEach(m) /\ HiddenByLock(m)
  BY <1>2 DEF Seated, Constrained
<1>4. IsUpdated(W, B, r, m)
  BY <1>3, UpdateIs
<1> HIDE DEF r
<1>5. Pressing(r, h)
  BY <1>2, <1>4, SamePressing DEF IsUpdated, Seated
<1>6. Seated(W, B, r, h)
  BY <1>4, <1>5 DEF Seated, IsUpdated
<1> QED
  BY <1>6 DEF r, m, next

LEMMA RouteSeated ==
  ASSUME NEW W, NEW B, NEW P, NEW C, NEW st, NEW h, NEW z \in W \cup {ls}, NEW room,
         Seated(W, B, st, h), ~st.p.pan
  PROVE  Seated(W, B, Ptr(W, B, P, C)!Route(st, z, room), h)
<1> DEFINE A == Ptr(W, B, P, C)!Active(st)
           i == CHOOSE j \in A : TRUE
           at == [st EXCEPT !.p.hit = z]
           kept == [st EXCEPT !.p.hit = st.c[i].on]
           follow(s) == IF s.p.drag # None THEN s
                        ELSE Ptr(W, B, P, C)!UpdateConstraints(
                               Ptr(W, B, P, C)!SetFocus(s, IF s.p.grab # None THEN s.p.grab ELSE s.p.hit))
           off == Ptr(W, B, P, C)!Off(at, i)
<1>1. Ptr(W, B, P, C)!Route(st, z, room) =
        IF A = {} THEN follow(at)
        ELSE IF st.c[i].locks THEN kept
        ELSE follow(IF room THEN kept ELSE off)
  BY DEF Ptr!Route
<1>2. A # {} => i \in DOMAIN st.c
  BY ActiveOne
<1>3. Seated(W, B, at, h) /\ ~at.p.pan /\ at.c = st.c
  <2>1. at = [st EXCEPT !.p.hit = z] /\ z \in Spots(W)
    BY Members
  <2> HIDE DEF at
  <2>2. IsHit(W, B, at, st, h, z)
    BY <2>1, WithHit
  <2> QED
    BY <2>2 DEF IsHit
<1>4. A # {} => Seated(W, B, kept, h) /\ ~kept.p.pan
  <2>1. A # {} => kept = [st EXCEPT !.p.hit = st.c[i].on]
    OBVIOUS
  <2>2. A # {} => st.c[i].on \in Spots(W)
    <3> HIDE DEF A, i
    <3> QED
      BY <1>2, ConsAre, Members DEF ConRecords
  <2> HIDE DEF kept, A, i
  <2>3. A # {} => IsHit(W, B, kept, st, h, st.c[i].on)
    BY <2>1, <2>2, WithHit
  <2> QED
    BY <2>3 DEF IsHit
<1>5. A # {} => Seated(W, B, off, h) /\ ~off.p.pan
  <2> HIDE DEF at, A, i
  <2>1. A # {} => i \in DOMAIN at.c
    BY <1>2, <1>3
  <2>2. A # {} => Seated(W, B, off, h) /\ SameBut(off, at)
    BY <1>3, <2>1, OffSeated
  <2> QED
    BY <1>3, <2>2 DEF SameBut, SameSeat
<1>6. ASSUME NEW s, Seated(W, B, s, h), ~s.p.pan PROVE Seated(W, B, follow(s), h)
  <2>1. CASE s.p.drag # None
    BY <1>6, <2>1
  <2>2. CASE s.p.drag = None
    BY <1>6, <2>2, FollowSeated
  <2> QED
    BY <2>1, <2>2
<1> HIDE DEF A, i, at, kept, follow, off
<1>7. CASE A = {}
  BY <1>1, <1>3, <1>6, <1>7
<1>8. CASE A # {} /\ st.c[i].locks
  BY <1>1, <1>4, <1>8
<1>9. CASE A # {} /\ ~st.c[i].locks /\ room
  BY <1>1, <1>4, <1>6, <1>9
<1>10. CASE A # {} /\ ~st.c[i].locks /\ ~room
  BY <1>1, <1>5, <1>6, <1>10
<1> QED
  BY <1>7, <1>8, <1>9, <1>10

LEMMA LeaveSeated ==
  ASSUME NEW W, NEW B, NEW P, NEW C, NEW st, NEW h, Seated(W, B, st, h)
  PROVE  Seated(W, B, Ptr(W, B, P, C)!Leave(st), h)
<1> DEFINE A == Ptr(W, B, P, C)!Active(st)
           off == IF A # {} THEN Ptr(W, B, P, C)!Off(st, CHOOSE j \in A : TRUE) ELSE st
           out == [off EXCEPT !.p.hit = None]
<1>1. Ptr(W, B, P, C)!Leave(st) = IF out.p.grab = None THEN Ptr(W, B, P, C)!SetFocus(out, None) ELSE out
  BY DEF Ptr!Leave
<1>2. Seated(W, B, off, h)
  BY ActiveOne, OffSeated
<1>3. None \in Spots(W)
  BY Members
<1> HIDE DEF off
<1>4. Seated(W, B, out, h)
  <2>1. out = [off EXCEPT !.p.hit = None]
    OBVIOUS
  <2> HIDE DEF out
  <2>2. IsHit(W, B, out, off, h, None)
    BY <1>2, <1>3, <2>1, WithHit
  <2> QED
    BY <2>2 DEF IsHit
<1> HIDE DEF out
<1>5. CASE out.p.grab = None
  BY <1>1, <1>3, <1>4, <1>5, FocusSeated
<1>6. CASE out.p.grab # None
  BY <1>1, <1>4, <1>6
<1> QED
  BY <1>5, <1>6

LEMMA MotionKeeps ==
  ASSUME NEW W, NEW B, NEW P, NEW C, Pointed(W, B, P, C), PtrInv(W, B),
         NEW h \in Spots(W), NEW room \in BOOLEAN, Ptr(W, B, P, C)!Motion(h, room)
  PROVE  PtrInv(W, B)'
<1> DEFINE H == Ptr(W, B, P, C)!Here
           A == Ptr(W, B, P, C)!Active(H)
           on == v3[CHOOSE j \in A : TRUE].on
           moved == IF h # None THEN Ptr(W, B, P, C)!Route(H, h, room)
                    ELSE IF A = {} THEN Ptr(W, B, P, C)!Leave(H)
                    ELSE Ptr(W, B, P, C)!Route(H, on, room)
           st == IF v1.overview THEN Ptr(W, B, P, C)!SetFocus(H, None) ELSE IF v1.pan THEN H ELSE moved
<1>1. Ptr(W, B, P, C)!Set(st) /\ v2' = v2 /\ v5' = v5
  BY DEF Ptr!Motion, Ptr!Moved
<1>2. /\ Seated(W, B, H, v5) /\ v2 \subseteq W /\ v5 \subseteq B
      /\ H.p = v1 /\ H.c = v3
  BY HereSeated DEF Ptr!Here
<1> HIDE DEF H
<1>3. CASE v1.overview
  <2>1. v1.grab = None
    BY <1>2, <1>3 DEF Seated, Pressing, Gestures
  <2>2. Seated(W, B, Ptr(W, B, P, C)!SetFocus(H, None), v5)
    <3>1. None \in Spots(W)
      BY Members
    <3> QED
      BY <1>2, <2>1, <3>1, FocusSeated
  <2> QED
    BY <1>1, <1>2, <1>3, <2>2, SeatSet
<1>4. CASE ~v1.overview /\ v1.pan
  BY <1>1, <1>2, <1>4, SeatSet
<1>5. CASE ~v1.overview /\ ~v1.pan
  <2>1. CASE h # None
    <3>0. h \in W \cup {ls}
      BY <2>1, Members
    <3>1. Seated(W, B, Ptr(W, B, P, C)!Route(H, h, room), v5)
      BY <1>2, <1>5, <2>1, <3>0, RouteSeated
    <3> QED
      BY <1>1, <1>2, <1>5, <2>1, <3>1, SeatSet
  <2>2. CASE h = None /\ A = {}
    <3>1. Seated(W, B, Ptr(W, B, P, C)!Leave(H), v5)
      BY <1>2, LeaveSeated
    <3> QED
      BY <1>1, <1>2, <1>5, <2>2, <3>1, SeatSet
  <2>3. CASE h = None /\ A # {}
    <3>1. on \in W
      <4>1. (CHOOSE j \in A : TRUE) \in A /\ A = {i \in DOMAIN v3 : v3[i].active}
        BY <1>2, <2>3 DEF Ptr!Active
      <4> HIDE DEF A
      <4>2. on # None /\ on \in Maybe(W)
        BY <1>2, <4>1, ConsAre DEF Seated, Constrained, ConRecords
      <4> QED
        BY <4>2, Members
    <3> HIDE DEF on
    <3>2. Seated(W, B, Ptr(W, B, P, C)!Route(H, on, room), v5)
      BY <1>2, <1>5, <3>1, RouteSeated
    <3> QED
      BY <1>1, <1>2, <1>5, <2>3, <3>2, SeatSet DEF on
  <2> QED
    BY <2>1, <2>2, <2>3
<1> QED
  BY <1>3, <1>4, <1>5

LEMMA HeldMore ==
  ASSUME NEW st, NEW h, NEW g, h \subseteq g, Pressing(st, h)
  PROVE  Pressing(st, g)
BY DEF Pressing, Gestures

\* A seat whose gesture fields, focus and cuts are known.
LEMMA OverviewPress ==
  ASSUME NEW W, NEW B, NEW P, NEW C, PtrInv(W, B), NEW b \in B, b \notin v5, v5' = v5 \cup {b},
         v1.overview, v2' = v2, Ptr(W, B, P, C)!Set(Ptr(W, B, P, C)!PressOverview(b))
  PROVE  PtrInv(W, B)'
<1> DEFINE H == Ptr(W, B, P, C)!Here
           bs == {b}
           q == [v1 EXCEPT !.consumed = @ \cup bs]
           r == Ptr(W, B, P, C)!PressOverview(b)
<1>0. /\ Seated(W, B, H, v5) /\ v2 \subseteq W /\ v5 \subseteq B /\ H \in Seats(W, B)
      /\ H.p = v1 /\ H.c = v3 /\ H.t = v4 /\ H.x = v6 /\ v1 \in PtrRecords(W, B)
  BY HereSeated DEF Ptr!Here, Seated
<1>1. r.p = q /\ r.c = v3 /\ r.t = v4 /\ r.x = v6 /\ r = [p |-> r.p, c |-> r.c, t |-> r.t, x |-> r.x]
  BY DEF Ptr!PressOverview, Ptr!Here
<1>2. bs \subseteq B /\ v5' = v5 \cup bs /\ \A j : j \in bs <=> j = b
  OBVIOUS
<1> HIDE DEF H, bs, r
<1>3. q \in PtrRecords(W, B)
  <2>1. v1.consumed \cup bs \in Some(B)
    BY <1>0, <1>2 DEF PtrRecords, Some
  <2> QED
    BY <1>0, <2>1 DEF PtrRecords
<1>4. /\ q.focus = v1.focus /\ q.grab = v1.grab
      /\ q.hidden = v1.hidden /\ q.kf = v1.kf /\ q.move = v1.move
      /\ q.own = v1.own /\ q.pan = v1.pan /\ q.ownButton = v1.ownButton
      /\ q.pressed = v1.pressed /\ q.consumed = v1.consumed \cup bs
      /\ q.drag = v1.drag /\ q.dragButton = v1.dragButton /\ q.last = v1.last
      /\ q.overview = v1.overview /\ q.crossed = v1.crossed /\ q.locked = v1.locked
  BY <1>0 DEF PtrRecords
<1> HIDE DEF q
<1>5. r \in Seats(W, B)
  <2>1. v3 \in Seq(ConRecords(W)) /\ v4 \in [W \cup {ls} -> SUBSET B] /\ v6 \in SUBSET B
    BY <1>0, SeatParts
  <2> QED
    BY <1>1, <1>3, <2>1, PartsSeat
<1>6. Constrained(r)
  BY <1>0, <1>1, <1>4, SameConstrained DEF Seated
<1>7. Pressing(r, v5')
  BY <1>0, <1>1, <1>2, <1>4 DEF Seated, Pressing, Gestures, Focussed, Grabbed
<1>8. Seated(W, B, r, v5') /\ v2' \subseteq W /\ v5' \subseteq B
  BY <1>0, <1>2, <1>5, <1>6, <1>7 DEF Seated
<1> QED
  BY <1>8, SeatSet DEF r

LEMMA PanPress ==
  ASSUME NEW W, NEW B, NEW P, NEW C, PtrInv(W, B), NEW b \in B, b \notin v5, v5' = v5 \cup {b},
         ~v1.overview, v2' = v2, v1.drag = None, None \notin B,
         Ptr(W, B, P, C)!Set(Ptr(W, B, P, C)!PressPan(b))
  PROVE  PtrInv(W, B)'
<1> DEFINE H == Ptr(W, B, P, C)!Here
           bs == {b}
           q == [v1 EXCEPT !.grab = None, !.pressed = @ \cup bs, !.own = TRUE, !.ownButton = b, !.pan = TRUE]
           x == (v6 \ bs) \cup v1.pressed
           m == [p |-> q, c |-> v3, t |-> v4, x |-> x]
           r == Ptr(W, B, P, C)!SetFocus(m, None)
<1>0. /\ Seated(W, B, H, v5) /\ v2 \subseteq W /\ v5 \subseteq B /\ H \in Seats(W, B)
      /\ H.p = v1 /\ H.c = v3 /\ H.t = v4 /\ H.x = v6 /\ v1 \in PtrRecords(W, B)
  BY HereSeated DEF Ptr!Here, Seated
<1>1. Ptr(W, B, P, C)!PressPan(b) = r
  <2> DEFINE a == [H EXCEPT !.x = @ \ bs]
             d == Ptr(W, B, P, C)!DropGrab(a)
             e == [d EXCEPT !.p.pressed = @ \cup bs, !.p.own = TRUE, !.p.ownButton = b, !.p.pan = TRUE]
             g == [v1 EXCEPT !.grab = None]
  <2>1. Ptr(W, B, P, C)!PressPan(b) = Ptr(W, B, P, C)!SetFocus(e, None)
    BY DEF Ptr!PressPan
  <2>2. a \in [p : {v1}, c : {v3}, t : {v4}, x : {v6 \ bs}]
    BY DEF Ptr!Here
  <2> HIDE DEF a
  <2>3. d \in [p : {g}, c : {v3}, t : {v4}, x : {x}]
    BY <2>2 DEF Ptr!DropGrab
  <2> HIDE DEF x, d, g
  <2> DEFINE f == [g EXCEPT !.pressed = @ \cup bs, !.own = TRUE, !.ownButton = b, !.pan = TRUE]
  <2>3a. e \in [p : {f}, c : {v3}, t : {v4}, x : {x}]
    BY <2>3
  <2> HIDE DEF e
  <2>3b. e = [p |-> f, c |-> v3, t |-> v4, x |-> x]
    BY <2>3a
  <2>4. q = [g EXCEPT !.pressed = @ \cup bs, !.own = TRUE, !.ownButton = b, !.pan = TRUE]
    BY <1>0 DEF PtrRecords, g
  <2> HIDE DEF q
  <2>5. e = m
    BY <2>3b, <2>4
  <2> QED
    BY <2>1, <2>5
<1>2. bs \subseteq B /\ v5' = v5 \cup bs /\ \A j : j \in bs <=> j = b
  OBVIOUS
<1> HIDE DEF H, bs, r
<1>3. v1.pressed \cup bs \in SUBSET B /\ x \in SUBSET B
  BY <1>0, <1>2, SeatParts
<1>3a. q \in PtrRecords(W, B)
  <2>1. None \in Spots(W) /\ b \in Maybe(B) /\ v1.pressed \cup bs \in Some(B)
    BY <1>3, Members DEF Some
  <2> QED
    BY <1>0, <2>1 DEF PtrRecords
<1>4. /\ q.focus = v1.focus /\ q.grab = None
      /\ q.hidden = v1.hidden /\ q.move = v1.move
      /\ q.own = TRUE /\ q.pan = TRUE /\ q.ownButton = b
      /\ q.pressed = v1.pressed \cup bs /\ q.consumed = v1.consumed
      /\ q.drag = v1.drag /\ q.last = v1.last
      /\ q.overview = v1.overview /\ q.crossed = v1.crossed
  BY <1>0 DEF PtrRecords
<1> HIDE DEF q
<1>4a. m.p = q /\ m.c = v3 /\ m.t = v4 /\ m.x = x /\ m = [p |-> m.p, c |-> m.c, t |-> m.t, x |-> m.x]
  OBVIOUS
<1> HIDE DEF m
<1>5. m \in Seats(W, B)
  <2>1. v3 \in Seq(ConRecords(W)) /\ v4 \in [W \cup {ls} -> SUBSET B]
    BY <1>0, SeatParts
  <2> QED
    BY <1>3, <1>3a, <1>4a, <2>1, PartsSeat
<1>6. Constrained(m)
  BY <1>0, <1>4, <1>4a, SameConstrained DEF Seated
<1>7. Gestures(m, v5')
  BY <1>0, <1>2, <1>4, <1>4a DEF Seated, Pressing, Gestures
<1>8. OwnOrCut(m)
  BY <1>2, <1>4, <1>4a DEF OwnOrCut
<1>9. IsFocus(W, B, r, m, None)
  <2>1. None \in Spots(W)
    BY Members
  <2> QED
    BY <1>5, <1>6, <2>1, FocusIs DEF r
<1>10. Pressing(r, v5')
  <2>1. m.p.grab = None /\ m.p.drag = None
    BY <1>4, <1>4a
  <2> QED
    BY <1>7, <1>8, <1>9, <2>1, FocusPressing
<1>11. Seated(W, B, r, v5') /\ v2' \subseteq W /\ v5' \subseteq B
  BY <1>0, <1>2, <1>9, <1>10 DEF Seated, IsFocus
<1> QED
  BY <1>1, <1>11, SeatSet

\* A button during a drag.
LEMMA DragPress ==
  ASSUME NEW W, NEW B, NEW P, NEW C, PtrInv(W, B), NEW b \in B, b \notin v5, v5' = v5 \cup {b},
         ~v1.overview, v1.drag # None, v2' = v2,
         Ptr(W, B, P, C)!Set([Ptr(W, B, P, C)!Here EXCEPT !.p.pressed = @ \cup {b}, !.x = @ \cup {b}])
  PROVE  PtrInv(W, B)'
<1> DEFINE H == Ptr(W, B, P, C)!Here
           bs == {b}
           q == [v1 EXCEPT !.pressed = @ \cup bs]
           r == [H EXCEPT !.p.pressed = @ \cup bs, !.x = @ \cup bs]
<1>0. /\ Seated(W, B, H, v5) /\ v2 \subseteq W /\ v5 \subseteq B /\ H \in Seats(W, B)
      /\ H.p = v1 /\ H.c = v3 /\ H.t = v4 /\ H.x = v6 /\ v1 \in PtrRecords(W, B)
  BY HereSeated DEF Ptr!Here, Seated
<1>1b. r \in [p : {q}, c : {v3}, t : {v4}, x : {v6 \cup bs}]
  BY DEF Ptr!Here
<1>1. /\ r.p = q /\ r.c = v3 /\ r.t = v4 /\ r.x = v6 \cup bs
      /\ r = [p |-> r.p, c |-> r.c, t |-> r.t, x |-> r.x]
  <2> HIDE DEF r, q
  <2> QED
    BY <1>1b
<1>1a. Ptr(W, B, P, C)!Set(r)
  OBVIOUS
<1>2. bs \subseteq B /\ v5' = v5 \cup bs /\ \A j : j \in bs <=> j = b
  OBVIOUS
<1> HIDE DEF H, bs, r
<1>3. v1.pressed \cup bs \in SUBSET B /\ v6 \cup bs \in SUBSET B
  BY <1>0, <1>2, SeatParts
<1>3a. q \in PtrRecords(W, B)
  <2>1. v1.pressed \cup bs \in Some(B)
    BY <1>3 DEF Some
  <2> QED
    BY <1>0, <2>1 DEF PtrRecords
<1>4. /\ q.focus = v1.focus /\ q.grab = v1.grab
      /\ q.hidden = v1.hidden /\ q.move = v1.move
      /\ q.own = v1.own /\ q.pan = v1.pan /\ q.ownButton = v1.ownButton
      /\ q.pressed = v1.pressed \cup bs /\ q.consumed = v1.consumed
      /\ q.drag = v1.drag /\ q.last = v1.last
      /\ q.overview = v1.overview /\ q.crossed = v1.crossed
  BY <1>0 DEF PtrRecords
<1> HIDE DEF q
<1>5. r \in Seats(W, B)
  <2>1. v3 \in Seq(ConRecords(W)) /\ v4 \in [W \cup {ls} -> SUBSET B]
    BY <1>0, SeatParts
  <2> QED
    BY <1>1, <1>3, <1>3a, <2>1, PartsSeat
<1>6. Constrained(r)
  BY <1>0, <1>1, <1>4, SameConstrained DEF Seated
<1>7. Pressing(r, v5')
  BY <1>0, <1>1, <1>2, <1>4 DEF Seated, Pressing, Gestures, Focussed, Grabbed
<1>8. Seated(W, B, r, v5') /\ v2' \subseteq W /\ v5' \subseteq B
  BY <1>0, <1>2, <1>5, <1>6, <1>7 DEF Seated
<1> QED
  BY <1>1a, <1>8, SeatSet

\* A seat put together from its parts.
IsBuilt(W, B, r, q, c, t, x) ==
  r \in Seats(W, B) /\ r.p = q /\ r.c = c /\ r.t = t /\ r.x = x

LEMMA Built ==
  ASSUME NEW W, NEW B, NEW r, NEW q \in PtrRecords(W, B), NEW c \in Seq(ConRecords(W)),
         NEW t \in [W \cup {ls} -> SUBSET B], NEW x \in SUBSET B,
         r \in [p : {q}, c : {c}, t : {t}, x : {x}]
  PROVE  IsBuilt(W, B, r, q, c, t, x)
BY DEF IsBuilt, Seats

LEMMA MovePress ==
  ASSUME NEW W, NEW B, NEW P, NEW C, PtrInv(W, B), NEW b \in B, b \notin v5, v5' = v5 \cup {b},
         ~v1.overview, v1.drag = None, v2' = v2,
         NEW t \in W, t # None, t = IF v1.grab # None THEN v1.grab ELSE v1.focus, NEW how,
         Ptr(W, B, P, C)!Set(Ptr(W, B, P, C)!PressMove(t, b, how))
  PROVE  PtrInv(W, B)'
<1> DEFINE H == Ptr(W, B, P, C)!Here
           bs == {b}
           mv == Ptr(W, B, P, C)!Raised(H, t)
           os == IF mv.p.own THEN {mv.p.ownButton} ELSE {}
           z == IF how = "still" THEN mv.p.move ELSE t
           q == [mv.p EXCEPT !.move = z, !.grab = t, !.own = TRUE, !.ownButton = b, !.pressed = @ \cup bs]
           x == (mv.x \cup os) \ bs
           r == [mv EXCEPT !.p.move = IF how = "still" THEN @ ELSE t, !.p.grab = t, !.p.own = TRUE,
                           !.p.ownButton = b, !.p.pressed = @ \cup bs, !.x = (@ \cup os) \ bs]
           e == Ptr(W, B, P, C)!EndMove(r)
<1>0. /\ Seated(W, B, H, v5) /\ v2 \subseteq W /\ v5 \subseteq B /\ H \in Seats(W, B)
      /\ H.p = v1 /\ H.c = v3 /\ H.t = v4 /\ H.x = v6 /\ v1 \in PtrRecords(W, B)
  BY HereSeated DEF Ptr!Here, Seated
<1>1. Ptr(W, B, P, C)!Set(IF how = "ended" THEN e ELSE r)
  BY DEF Ptr!PressMove
<1>2. bs \subseteq B /\ v5' = v5 \cup bs /\ \A j : j \in bs <=> j = b
  OBVIOUS
<1> HIDE DEF H, bs
<1>3. IsKf(W, B, mv, H, t)
  <2>1. t \in Spots(W) /\ Constrained(H)
    BY <1>0, Members DEF Seated
  <2> QED
    BY <1>0, <2>1, RaisedIs
<1> HIDE DEF mv
<1>4. Pressing(mv, v5)
  <2>1. Pressing(H, v5)
    BY <1>0 DEF Seated
  <2> QED
    BY <1>3, <2>1, KfPressing
<1>5. /\ mv \in Seats(W, B) /\ Constrained(mv)
      /\ mv.p.focus = v1.focus /\ mv.p.grab = v1.grab /\ ~mv.p.overview /\ mv.p.drag = None
  BY <1>0, <1>3 DEF IsKf
<1>6. /\ mv.p \in PtrRecords(W, B) /\ mv.c \in Seq(ConRecords(W))
      /\ mv.t \in [W \cup {ls} -> SUBSET B] /\ mv.x \in SUBSET B /\ mv.p.pressed \in SUBSET B
  BY <1>5, SeatParts
<1>7. os \subseteq B
  BY <1>4, <1>6 DEF Pressing, Gestures
<1>7a. \A j : j \in os <=> mv.p.own /\ j = mv.p.ownButton
  OBVIOUS
<1> HIDE DEF os
<1>8. q \in PtrRecords(W, B)
  <2>1. t \in Maybe(W) /\ t \in Spots(W) /\ b \in Maybe(B) /\ mv.p.pressed \cup bs \in Some(B)
    BY <1>2, <1>6, Members DEF Maybe
  <2>2. z \in Maybe(W)
    BY <1>6, <2>1 DEF PtrRecords
  <2> HIDE DEF z
  <2> QED
    BY <1>6, <2>1, <2>2 DEF PtrRecords
<1>9. /\ q.focus = v1.focus /\ q.grab = t /\ q.hidden = mv.p.hidden
      /\ q.own = TRUE /\ q.pan = mv.p.pan /\ q.ownButton = b
      /\ q.pressed = mv.p.pressed \cup bs /\ q.consumed = mv.p.consumed
      /\ q.drag = None /\ q.last = mv.p.last /\ ~q.overview
  BY <1>5, <1>6 DEF PtrRecords
<1>10. x \in SUBSET B
  BY <1>6, <1>7
<1>11. r \in [p : {q}, c : {mv.c}, t : {mv.t}, x : {x}]
  BY <1>5 DEF Seats
<1> HIDE DEF e, q, r, x
<1>12. IsBuilt(W, B, r, q, mv.c, mv.t, x)
  BY <1>6, <1>8, <1>10, <1>11, Built
<1>13. Constrained(r)
  <2>1. r.c = mv.c /\ r.p.hidden = mv.p.hidden /\ r.p.focus = mv.p.focus
    BY <1>5, <1>9, <1>12 DEF IsBuilt
  <2> QED
    BY <1>5, <2>1, SameConstrained
<1>14. ~mv.p.pan
  BY <1>4, <1>5 DEF Pressing, Gestures, Focussed
<1>15. Gestures(r, v5')
  BY <1>0, <1>2, <1>4, <1>9, <1>12, <1>14 DEF IsBuilt, Pressing, Gestures
<1>16. Grabbed(r)
  <2> SUFFICES ASSUME NEW j \in r.p.pressed, j \notin r.x, j # b
               PROVE  r.p.focus = r.p.grab /\ j \in r.t[r.p.grab]
    BY <1>9, <1>12 DEF Grabbed, IsBuilt
  <2>1. j \in mv.p.pressed /\ j \notin mv.x /\ ~(mv.p.own /\ j = mv.p.ownButton)
    BY <1>2, <1>7a, <1>9, <1>12 DEF IsBuilt, x
  <2>2. mv.p.grab # None /\ mv.p.focus = mv.p.grab /\ j \in mv.t[mv.p.grab]
    BY <1>4, <2>1 DEF Pressing, Focussed, Grabbed
  <2> QED
    BY <1>5, <1>9, <1>12, <2>2 DEF IsBuilt
<1>17. Focussed(r)
  BY <1>4, <1>5, <1>9, <1>12, <1>14, <1>16 DEF IsBuilt, Pressing, Focussed
<1>18. Seated(W, B, r, v5') /\ v2' \subseteq W /\ v5' \subseteq B
  BY <1>0, <1>2, <1>12, <1>13, <1>15, <1>17 DEF Seated, IsBuilt, Pressing
<1>19. Seated(W, B, e, v5')
  BY <1>18, EndSeated DEF e
<1> QED
  BY <1>1, <1>18, <1>19, SeatSet

LEMMA ClientPress ==
  ASSUME NEW W, NEW B, NEW P, NEW C, PtrInv(W, B), NEW b \in B, b \notin v5, v5' = v5 \cup {b},
         ~v1.overview, v1.drag = None, v2' = v2, None \notin B,
         NEW t, t # None, t = IF v1.grab # None THEN v1.grab ELSE v1.focus,
         Ptr(W, B, P, C)!Set(Ptr(W, B, P, C)!PressClient(t, b))
  PROVE  PtrInv(W, B)'
<1> DEFINE H == Ptr(W, B, P, C)!Here
           bs == {b}
           y == IF v1.focus # t THEN v6 \cup bs ELSE v6 \ bs
           m == [H EXCEPT !.p.pressed = @ \cup bs, !.p.grab = t, !.x = y]
           mq == [v1 EXCEPT !.pressed = @ \cup bs, !.grab = t]
           to == Ptr(W, B, P, C)!Raised(m, t)
           pair == <<t, b>>
           q == [to.p EXCEPT !.last = pair]
           tt == [to.t EXCEPT ![t] = @ \cup bs]
           r == [to EXCEPT !.t[t] = @ \cup bs, !.p.last = pair]
<1>0. /\ Seated(W, B, H, v5) /\ v2 \subseteq W /\ v5 \subseteq B /\ H \in Seats(W, B)
      /\ H.p = v1 /\ H.c = v3 /\ H.t = v4 /\ H.x = v6 /\ v1 \in PtrRecords(W, B)
  BY HereSeated DEF Ptr!Here, Seated
<1>1. Ptr(W, B, P, C)!Set(r)
  BY DEF Ptr!PressClient, Ptr!Here
<1>2. bs \subseteq B /\ v5' = v5 \cup bs /\ \A j : j \in bs <=> j = b
  OBVIOUS
<1>2a. m \in [p : {mq}, c : {v3}, t : {v4}, x : {y}]
  BY DEF Ptr!Here
<1>2b. pair[1] = t /\ pair[2] = b /\ (t \in Spots(W) => pair \in Spots(W) \X Maybe(B))
  BY DEF Maybe
<1> HIDE DEF H, bs, m, pair
<1>3. /\ v3 \in Seq(ConRecords(W)) /\ v4 \in [W \cup {ls} -> SUBSET B] /\ v6 \in SUBSET B
      /\ v1.pressed \in SUBSET B
  BY <1>0, SeatParts
<1>4. t \in Spots(W) /\ t \in W \cup {ls}
  <2>1. t \in Spots(W)
    BY <1>0 DEF PtrRecords
  <2> QED
    BY <2>1, Members
<1>5. mq \in PtrRecords(W, B)
  <2>1. v1.pressed \cup bs \in Some(B)
    BY <1>2, <1>3, Members
  <2> QED
    BY <1>0, <1>4, <2>1 DEF PtrRecords
<1>6. /\ mq.focus = v1.focus /\ mq.grab = t /\ mq.hidden = v1.hidden /\ mq.move = v1.move
      /\ mq.own = v1.own /\ mq.pan = v1.pan /\ mq.ownButton = v1.ownButton
      /\ mq.pressed = v1.pressed \cup bs /\ mq.consumed = v1.consumed
      /\ mq.drag = None /\ mq.last = v1.last /\ ~mq.overview
  BY <1>0 DEF PtrRecords
<1>7. y \in SUBSET B
  BY <1>2, <1>3
<1> HIDE DEF mq, y
<1>8. IsBuilt(W, B, m, mq, v3, v4, y)
  BY <1>2a, <1>3, <1>5, <1>7, Built
<1>9. Constrained(m)
  <2>1. m.c = H.c /\ m.p.hidden = H.p.hidden /\ m.p.focus = H.p.focus /\ Constrained(H)
    BY <1>0, <1>6, <1>8 DEF IsBuilt, Seated
  <2> QED
    BY <2>1, SameConstrained
<1>10. IsKf(W, B, to, m, t)
  <2>1. m \in Seats(W, B)
    BY <1>8 DEF IsBuilt
  <2> QED
    BY <1>4, <1>9, <2>1, RaisedIs
<1> HIDE DEF to
<1>11. /\ to \in Seats(W, B) /\ Constrained(to) /\ to.t = v4
       /\ to.p.focus = v1.focus /\ to.p.grab = t /\ to.p.pressed = v1.pressed \cup bs
       /\ to.p.consumed = v1.consumed /\ to.p.drag = None /\ ~to.p.overview
  BY <1>6, <1>8, <1>10 DEF IsKf, IsBuilt
<1>12. \/ /\ to.x = y /\ to.p.move = v1.move /\ to.p.own = v1.own
          /\ to.p.pan = v1.pan /\ to.p.ownButton = v1.ownButton
       \/ /\ v1.own /\ to.x = y \cup ({v1.ownButton} \cap (v1.pressed \cup bs))
          /\ to.p.move = None /\ to.p.own = FALSE /\ to.p.pan = FALSE
  BY <1>6, <1>8, <1>10 DEF IsKf, IsBuilt
<1>13. /\ to.p \in PtrRecords(W, B) /\ to.c \in Seq(ConRecords(W))
       /\ to.t \in [W \cup {ls} -> SUBSET B] /\ to.x \in SUBSET B
  BY <1>11, SeatParts
<1>14. q \in PtrRecords(W, B)
  BY <1>2b, <1>4, <1>13 DEF PtrRecords
<1>15. /\ q.focus = to.p.focus /\ q.grab = to.p.grab /\ q.hidden = to.p.hidden /\ q.move = to.p.move
       /\ q.own = to.p.own /\ q.pan = to.p.pan /\ q.ownButton = to.p.ownButton
       /\ q.pressed = to.p.pressed /\ q.consumed = to.p.consumed
       /\ q.drag = to.p.drag /\ q.last = pair /\ q.overview = to.p.overview
       /\ q.crossed = to.p.crossed
  BY <1>13 DEF PtrRecords
<1>16. tt \in [W \cup {ls} -> SUBSET B] /\ tt[t] = v4[t] \cup bs
  BY <1>2, <1>4, <1>11, <1>13
<1>17. r \in [p : {q}, c : {to.c}, t : {tt}, x : {to.x}]
  BY <1>11 DEF Seats
<1> HIDE DEF q, tt, r
<1>18. IsBuilt(W, B, r, q, to.c, tt, to.x)
  BY <1>13, <1>14, <1>16, <1>17, Built
<1>19. Constrained(r)
  <2>1. r.c = to.c /\ r.p.hidden = to.p.hidden /\ r.p.focus = to.p.focus
    BY <1>15, <1>18 DEF IsBuilt
  <2> QED
    BY <1>11, <2>1, SameConstrained
<1>20. Gestures(H, v5) /\ Focussed(H)
  BY <1>0 DEF Seated, Pressing
<1>20a. ~v1.pan
  BY <1>0, <1>20 DEF Gestures, Focussed
<1>21. Gestures(r, v5')
  BY <1>0, <1>2, <1>2b, <1>11, <1>12, <1>15, <1>18, <1>20, <1>20a DEF IsBuilt, Gestures
<1>22. Grabbed(r)
  <2> SUFFICES ASSUME NEW j \in v1.pressed \cup bs, j \notin to.x,
                      ~(to.p.own /\ j = to.p.ownButton)
               PROVE  v1.focus = t /\ j \in tt[t]
    BY <1>11, <1>15, <1>18 DEF Grabbed, IsBuilt
  <2>1. j \notin y /\ (j = v1.ownButton => ~v1.own)
    BY <1>12
  <2>2. CASE j = b
    BY <1>2, <1>16, <2>1, <2>2 DEF y
  <2>3. CASE j # b
    <3>1. j \in v1.pressed /\ j \notin v6
      BY <1>2, <2>1, <2>3 DEF y
    <3>2. v1.grab # None /\ v1.focus = v1.grab /\ j \in v4[v1.grab]
      BY <1>0, <1>20, <2>1, <3>1 DEF Focussed, Grabbed
    <3> QED
      BY <1>16, <3>2
  <2> QED
    BY <2>2, <2>3
<1>23. Focussed(r)
  BY <1>0, <1>11, <1>12, <1>15, <1>18, <1>20, <1>20a, <1>22 DEF IsBuilt, Focussed
<1>24. Seated(W, B, r, v5') /\ v2' \subseteq W /\ v5' \subseteq B
  BY <1>0, <1>2, <1>18, <1>19, <1>21, <1>23 DEF Seated, IsBuilt, Pressing
<1> QED
  BY <1>1, <1>24, SeatSet

LEMMA PressKeepsPointer ==
  ASSUME NEW W, NEW B, NEW P, NEW C, Pointed(W, B, P, C), PtrInv(W, B),
         NEW b \in B, NEW how, Ptr(W, B, P, C)!Press(b, how)
  PROVE  PtrInv(W, B)'
<1> DEFINE t == IF v1.grab # None THEN v1.grab ELSE v1.focus
           H == Ptr(W, B, P, C)!Here
           pans == Ptr(W, B, P, C)!Pans(b, how)
           canvas == Ptr(W, B, P, C)!PansCanvas(b, how)
           moves == Ptr(W, B, P, C)!Grips(t, b, how)
<1>1. /\ b \notin v5 /\ v5' = v5 \cup {b} /\ v2' = v2
      /\ Ptr(W, B, P, C)!Set(
           IF v1.overview THEN Ptr(W, B, P, C)!PressOverview(b)
           ELSE IF pans THEN Ptr(W, B, P, C)!PressPan(b)
           ELSE IF b \in v1.pressed THEN H
           ELSE IF v1.drag # None THEN [H EXCEPT !.p.pressed = @ \cup {b}, !.x = @ \cup {b}]
           ELSE IF t = None THEN IF canvas THEN Ptr(W, B, P, C)!PressPan(b) ELSE H
           ELSE IF moves THEN Ptr(W, B, P, C)!PressMove(t, b, how)
           ELSE Ptr(W, B, P, C)!PressClient(t, b))
  BY DEF Ptr!Press, Ptr!Target
<1>2. None \notin B /\ Seated(W, B, H, v5) /\ v2 \subseteq W /\ v5 \subseteq B
  BY HereSeated DEF Pointed
<1>3. Ptr(W, B, P, C)!Set(H) => PtrInv(W, B)'
  <2> HIDE DEF H
  <2>1. v5 \subseteq v5' /\ v5' \subseteq B /\ v2' \subseteq W
    BY <1>1, <1>2
  <2>2. Seated(W, B, H, v5')
    <3>1. Pressing(H, v5')
      BY <1>2, <2>1, HeldMore DEF Seated
    <3> QED
      BY <1>2, <3>1 DEF Seated
  <2> QED
    BY <2>1, <2>2, SeatSet
<1>3a. (pans => v1.drag = None) /\ (moves => t \in v2)
  BY DEF Ptr!Pans, Ptr!Grips
<1> HIDE DEF t, pans, canvas, moves
<1>4. CASE v1.overview
  BY <1>1, <1>4, OverviewPress
<1>5. CASE ~v1.overview /\ pans
  BY <1>1, <1>2, <1>3a, <1>5, PanPress
<1>6. CASE ~v1.overview /\ ~pans /\ b \in v1.pressed
  BY <1>1, <1>3, <1>6
<1>7. CASE ~v1.overview /\ ~pans /\ b \notin v1.pressed /\ v1.drag # None
  BY <1>1, <1>7, DragPress
<1>8. CASE ~v1.overview /\ ~pans /\ b \notin v1.pressed /\ v1.drag = None
  <2>1. CASE t = None /\ ~canvas
    BY <1>1, <1>3, <1>8, <2>1
  <2>1a. CASE t = None /\ canvas
    BY <1>1, <1>2, <1>8, <2>1a, PanPress
  <2>2. CASE t # None /\ moves
    <3>1. t \in W /\ t = IF v1.grab # None THEN v1.grab ELSE v1.focus
      BY <1>2, <1>3a, <2>2 DEF t
    <3>2. Ptr(W, B, P, C)!Set(Ptr(W, B, P, C)!PressMove(t, b, how))
      BY <1>1, <1>8, <2>2
    <3> QED
      BY <1>1, <1>8, <2>2, <3>1, <3>2, MovePress
  <2>3. CASE t # None /\ ~moves
    <3>1. t = IF v1.grab # None THEN v1.grab ELSE v1.focus
      BY DEF t
    <3>2. Ptr(W, B, P, C)!Set(Ptr(W, B, P, C)!PressClient(t, b))
      BY <1>1, <1>8, <2>3
    <3> QED
      BY <1>1, <1>2, <1>8, <2>3, <3>1, <3>2, ClientPress
  <2> QED
    BY <2>1, <2>1a, <2>2, <2>3
<1> QED
  BY <1>4, <1>5, <1>6, <1>7, <1>8

-----------------------------------------------------------------------------
(* Releases.                                                                *)

IsUp(W, B, r, bs) ==
  /\ r \in Seats(W, B) /\ Constrained(r)
  /\ r.c = v3 /\ r.t = v4 /\ r.x = v6 \ bs
  /\ r.p.focus = v1.focus /\ r.p.grab = v1.grab /\ r.p.move = v1.move
  /\ r.p.own = v1.own /\ r.p.pan = v1.pan /\ r.p.ownButton = v1.ownButton
  /\ r.p.pressed = v1.pressed \ bs /\ r.p.consumed = v1.consumed
  /\ r.p.drag = v1.drag /\ r.p.overview = v1.overview /\ r.p.crossed = v1.crossed
  /\ v1.pressed \subseteq bs => r.p.last[2] = None
  /\ ~(v1.pressed \subseteq bs) => r.p.last = v1.last

LEMMA UpIs ==
  ASSUME NEW W, NEW B, NEW P, NEW C, PtrInv(W, B), NEW bs \in SUBSET B,
         NEW l, l = IF v1.pressed \subseteq bs THEN <<None, None>> ELSE v1.last,
         NEW q, q = [v1 EXCEPT !.pressed = @ \ bs, !.last = l],
         NEW x, x = v6 \ bs,
         NEW r \in [p : {q}, c : {v3}, t : {v4}, x : {x}]
  PROVE  IsUp(W, B, r, bs)
<1> DEFINE H == Ptr(W, B, P, C)!Here
<1>0. /\ Seated(W, B, H, v5) /\ H \in Seats(W, B)
      /\ H.p = v1 /\ H.c = v3 /\ H.t = v4 /\ H.x = v6 /\ v1 \in PtrRecords(W, B)
  BY HereSeated DEF Ptr!Here, Seated
<1> HIDE DEF H
<1>2. /\ v3 \in Seq(ConRecords(W)) /\ v4 \in [W \cup {ls} -> SUBSET B] /\ v6 \in SUBSET B
      /\ v1.pressed \in SUBSET B
  BY <1>0, SeatParts
<1>2a. x \in SUBSET B
  BY <1>2
<1>3. l \in Spots(W) \X Maybe(B)
  <2>1. None \in Spots(W) /\ None \in Maybe(B)
    BY Members
  <2>2. v1.last \in Spots(W) \X Maybe(B)
    BY <1>0 DEF PtrRecords
  <2> QED
    BY <2>1, <2>2
<1>4. (v1.pressed \subseteq bs => l[2] = None) /\ (~(v1.pressed \subseteq bs) => l = v1.last)
  OBVIOUS
<1>5. q \in PtrRecords(W, B)
  <2>1. v1.pressed \ bs \in Some(B)
    BY <1>2, Members
  <2> QED
    BY <1>0, <1>3, <2>1 DEF PtrRecords
<1>6. /\ q.focus = v1.focus /\ q.grab = v1.grab /\ q.move = v1.move
      /\ q.own = v1.own /\ q.pan = v1.pan /\ q.ownButton = v1.ownButton
      /\ q.pressed = v1.pressed \ bs /\ q.consumed = v1.consumed /\ q.hidden = v1.hidden
      /\ q.drag = v1.drag /\ q.last = l /\ q.overview = v1.overview /\ q.crossed = v1.crossed
  BY <1>0 DEF PtrRecords
<1>7. IsBuilt(W, B, r, q, v3, v4, x)
  BY <1>2, <1>2a, <1>5, Built
<1>8. Constrained(r)
  <2>1. r.c = H.c /\ r.p.hidden = H.p.hidden /\ r.p.focus = H.p.focus /\ Constrained(H)
    BY <1>0, <1>6, <1>7 DEF IsBuilt, Seated
  <2> QED
    BY <2>1, SameConstrained
<1> QED
  BY <1>4, <1>6, <1>7, <1>8 DEF IsBuilt, IsUp

\* What is known when the button b, of bs = {b}, comes up.
Releasing(W, B, b, bs, up) ==
  /\ PtrInv(W, B) /\ IsUp(W, B, up, bs) /\ bs \subseteq B /\ (\A j : j \in bs <=> j = b)
  /\ v5' = v5 \ bs /\ v2' = v2

LEMMA ReleasingIs ==
  ASSUME NEW W, NEW B, NEW P, NEW C, NEW b, NEW bs, NEW up, Releasing(W, B, b, bs, up)
  PROVE  LET H == Ptr(W, B, P, C)!Here
         IN /\ Seated(W, B, H, v5) /\ H \in Seats(W, B) /\ Gestures(H, v5) /\ Focussed(H)
            /\ H.p = v1 /\ H.c = v3 /\ H.t = v4 /\ H.x = v6 /\ v1 \in PtrRecords(W, B)
            /\ v2' \subseteq W /\ v5' \subseteq B
BY HereSeated DEF Releasing, Ptr!Here, Seated, Pressing

LEMMA ConsumedRelease ==
  ASSUME NEW W, NEW B, NEW P, NEW C, NEW b, NEW bs, NEW up, Releasing(W, B, b, bs, up),
         b \in v1.consumed,
         NEW s, s = IF v1.overview THEN Ptr(W, B, P, C)!Here ELSE up,
         Ptr(W, B, P, C)!Set([s EXCEPT !.p.consumed = @ \ bs])
  PROVE  PtrInv(W, B)'
<1> DEFINE H == Ptr(W, B, P, C)!Here
           q == [s.p EXCEPT !.consumed = @ \ bs]
           r == [s EXCEPT !.p.consumed = @ \ bs]
<1>0. /\ Seated(W, B, H, v5) /\ H \in Seats(W, B) /\ Gestures(H, v5) /\ Focussed(H)
      /\ H.p = v1 /\ H.c = v3 /\ H.t = v4 /\ H.x = v6 /\ v1 \in PtrRecords(W, B)
      /\ v2' \subseteq W /\ v5' \subseteq B
  BY ReleasingIs
<1>0a. IsUp(W, B, up, bs) /\ (\A j : j \in bs <=> j = b) /\ v5' = v5 \ bs
  BY DEF Releasing
<1>1. Ptr(W, B, P, C)!Set(r)
  OBVIOUS
<1> HIDE DEF H
<1>2. s \in Seats(W, B) /\ Constrained(s)
  BY <1>0, <1>0a DEF IsUp, Seated, H
<1>3. r \in [p : {q}, c : {s.c}, t : {s.t}, x : {s.x}]
  BY <1>2 DEF Seats
<1>4. /\ s.p \in PtrRecords(W, B) /\ s.c \in Seq(ConRecords(W))
      /\ s.t \in [W \cup {ls} -> SUBSET B] /\ s.x \in SUBSET B /\ s.p.consumed \in SUBSET B
  BY ONLY <1>2, SeatParts
<1>5. q \in PtrRecords(W, B)
  <2>1. s.p.consumed \ bs \in Some(B)
    BY <1>4, Members
  <2> QED
    BY <1>4, <2>1 DEF PtrRecords
<1>6. /\ q.focus = s.p.focus /\ q.grab = s.p.grab /\ q.move = s.p.move
      /\ q.own = s.p.own /\ q.pan = s.p.pan /\ q.ownButton = s.p.ownButton
      /\ q.pressed = s.p.pressed /\ q.consumed = s.p.consumed \ bs /\ q.hidden = s.p.hidden
      /\ q.drag = s.p.drag /\ q.last = s.p.last /\ q.overview = s.p.overview
      /\ q.crossed = s.p.crossed
  BY <1>4 DEF PtrRecords
<1> HIDE DEF q, r
<1>7. IsBuilt(W, B, r, q, s.c, s.t, s.x)
  BY <1>3, <1>4, <1>5, Built
<1>8. Constrained(r)
  <2>1. r.c = s.c /\ r.p.hidden = s.p.hidden /\ r.p.focus = s.p.focus
    BY <1>6, <1>7 DEF IsBuilt
  <2> QED
    BY <1>2, <2>1, SameConstrained
<1>9. /\ s.p.focus = v1.focus /\ s.p.grab = v1.grab /\ s.p.move = v1.move
      /\ s.p.own = v1.own /\ s.p.pan = v1.pan /\ s.p.ownButton = v1.ownButton
      /\ s.p.consumed = v1.consumed /\ s.p.drag = v1.drag /\ s.p.overview = v1.overview
      /\ s.p.crossed = v1.crossed
      /\ s.t = v4
  BY <1>0, <1>0a DEF IsUp, H
<1>10. b \notin v1.pressed
  BY <1>0 DEF Gestures
<1>11. /\ s.p.pressed = v1.pressed /\ (\A j \in v1.pressed : j \in s.x <=> j \in v6)
       /\ (s.p.last[2] # None => v1.last[2] # None)
  BY <1>0, <1>0a, <1>10 DEF IsUp, H
<1>12. Gestures(r, v5')
  BY <1>0, <1>0a, <1>6, <1>7, <1>9, <1>10, <1>11 DEF IsBuilt, Gestures
<1>13. Focussed(r)
  BY <1>0, <1>6, <1>7, <1>9, <1>11 DEF IsBuilt, Focussed, Grabbed
<1>14. Seated(W, B, r, v5')
  BY <1>7, <1>8, <1>12, <1>13 DEF Seated, IsBuilt, Pressing
<1> QED
  BY <1>0, <1>1, <1>14, SeatSet

\* A button that neither the seat nor the overview knows.
LEMMA StrayRelease ==
  ASSUME NEW W, NEW B, NEW P, NEW C, NEW b, NEW bs, NEW up, Releasing(W, B, b, bs, up),
         b \notin v1.consumed, b \notin v1.pressed,
         Ptr(W, B, P, C)!Set(Ptr(W, B, P, C)!Here)
  PROVE  PtrInv(W, B)'
<1> DEFINE H == Ptr(W, B, P, C)!Here
<1>0. /\ Seated(W, B, H, v5) /\ H \in Seats(W, B) /\ Gestures(H, v5) /\ Focussed(H)
      /\ H.p = v1 /\ H.c = v3 /\ H.t = v4 /\ H.x = v6 /\ v1 \in PtrRecords(W, B)
      /\ v2' \subseteq W /\ v5' \subseteq B
  BY ReleasingIs
<1>1. (\A j : j \in bs <=> j = b) /\ v5' = v5 \ bs
  BY DEF Releasing
<1> HIDE DEF H
<1>2. Pressing(H, v5')
  BY <1>0, <1>1 DEF Seated, Pressing, Gestures
<1>3. Seated(W, B, H, v5')
  BY <1>0, <1>2 DEF Seated
<1> QED
  BY <1>0, <1>3, SeatSet DEF H

\* One of several buttons comes up.
LEMMA UpPressing ==
  ASSUME NEW W, NEW B, NEW b, NEW bs, NEW up, Releasing(W, B, b, bs, up),
         b \notin v1.consumed, ~v1.overview, ~(v1.own /\ v1.ownButton = b),
         ~(v1.pressed \subseteq bs) \/ v1.drag # None
  PROVE  Seated(W, B, up, v5')
<1> DEFINE H == Ptr(W, B, {}, {})!Here
<1>0. /\ Seated(W, B, H, v5) /\ H \in Seats(W, B) /\ Gestures(H, v5) /\ Focussed(H)
      /\ H.p = v1 /\ H.c = v3 /\ H.t = v4 /\ H.x = v6 /\ v1 \in PtrRecords(W, B)
      /\ v2' \subseteq W /\ v5' \subseteq B
  BY ReleasingIs
<1>1. IsUp(W, B, up, bs) /\ (\A j : j \in bs <=> j = b) /\ v5' = v5 \ bs
  BY DEF Releasing
<1> HIDE DEF H
<1>2. v1.drag # None /\ v1.move # None => v1.crossed
  BY <1>0 DEF Gestures
<1>3. v1.pressed \subseteq bs => up.p.pressed = {}
  BY <1>1 DEF IsUp
<1>4. Gestures(up, v5')
  BY <1>0, <1>1, <1>2, <1>3 DEF IsUp, Gestures
<1>5. Focussed(up)
  BY <1>0, <1>1 DEF IsUp, Focussed, Grabbed
<1> QED
  BY <1>1, <1>4, <1>5 DEF Seated, IsUp, Pressing

IsDropped(W, B, r, st) ==
  /\ r \in Seats(W, B) /\ r.c = st.c /\ r.t = st.t /\ r.x = st.x \cup st.p.pressed
  /\ r.p.focus = st.p.focus /\ r.p.grab = None /\ r.p.move = st.p.move /\ r.p.hit = st.p.hit
  /\ r.p.own = st.p.own /\ r.p.pan = st.p.pan /\ r.p.ownButton = st.p.ownButton
  /\ r.p.pressed = st.p.pressed /\ r.p.consumed = st.p.consumed /\ r.p.hidden = st.p.hidden
  /\ r.p.drag = st.p.drag /\ r.p.last = st.p.last /\ r.p.overview = st.p.overview
  /\ r.p.crossed = st.p.crossed

LEMMA DroppedIs ==
  ASSUME NEW W, NEW B, NEW P, NEW C, NEW st \in Seats(W, B)
  PROVE  IsDropped(W, B, Ptr(W, B, P, C)!DropGrab(st), st)
<1> DEFINE q == [st.p EXCEPT !.grab = None]
           x == st.x \cup st.p.pressed
           r == Ptr(W, B, P, C)!DropGrab(st)
<1>1. r \in [p : {q}, c : {st.c}, t : {st.t}, x : {x}]
  BY DEF Ptr!DropGrab, Seats
<1>2. /\ st.p \in PtrRecords(W, B) /\ st.c \in Seq(ConRecords(W))
      /\ st.t \in [W \cup {ls} -> SUBSET B] /\ st.x \in SUBSET B /\ st.p.pressed \in SUBSET B
  BY SeatParts
<1>3. x \in SUBSET B
  BY <1>2
<1>4. q \in PtrRecords(W, B)
  <2>1. None \in Spots(W)
    BY Members
  <2> QED
    BY <1>2, <2>1 DEF PtrRecords
<1>5. /\ q.focus = st.p.focus /\ q.grab = None /\ q.move = st.p.move /\ q.hit = st.p.hit
      /\ q.own = st.p.own /\ q.pan = st.p.pan /\ q.ownButton = st.p.ownButton
      /\ q.pressed = st.p.pressed /\ q.consumed = st.p.consumed /\ q.hidden = st.p.hidden
      /\ q.drag = st.p.drag /\ q.last = st.p.last /\ q.overview = st.p.overview
      /\ q.crossed = st.p.crossed
  BY <1>2 DEF PtrRecords
<1> HIDE DEF q, r
<1>6. IsBuilt(W, B, r, q, st.c, st.t, x)
  BY <1>1, <1>2, <1>3, <1>4, Built
<1>7. IsDropped(W, B, r, st)
  BY <1>5, <1>6 DEF IsBuilt, IsDropped
<1> QED
  BY <1>7 DEF r

\* The focus changes when no button is left to the client that had it.
LEMMA FocusBack ==
  ASSUME NEW W, NEW B, NEW P, NEW C, NEW m, NEW z \in Spots(W), m \in Seats(W, B), Constrained(m),
         Gestures(m, v5'), OwnOrCut(m), m.p.grab = None, m.p.pan => z = None,
         m.p.drag # None => z = None \/ m.p.crossed, v2' \subseteq W, v5' \subseteq B,
         Ptr(W, B, P, C)!Set(Ptr(W, B, P, C)!SetFocus(m, z))
  PROVE  PtrInv(W, B)'
<1> DEFINE r == Ptr(W, B, P, C)!SetFocus(m, z)
<1>1. IsFocus(W, B, r, m, z)
  BY FocusIs
<1> HIDE DEF r
<1>2. Pressing(r, v5')
  BY <1>1, FocusPressing
<1>3. Seated(W, B, r, v5')
  BY <1>1, <1>2 DEF Seated, IsFocus
<1> QED
  BY <1>3, SeatSet DEF r

LEMMA OwnRelease ==
  ASSUME NEW W, NEW B, NEW P, NEW C, NEW b, NEW bs, NEW up, Releasing(W, B, b, bs, up),
         b \notin v1.consumed, v1.own, v1.ownButton = b,
         Ptr(W, B, P, C)!Set(Ptr(W, B, P, C)!ReleaseOwn(up))
  PROVE  PtrInv(W, B)'
<1> DEFINE H == Ptr(W, B, P, C)!Here
           d == Ptr(W, B, P, C)!DropGrab(up)
           m == Ptr(W, B, P, C)!EndMove(d)
<1>0. /\ Seated(W, B, H, v5) /\ H \in Seats(W, B) /\ Gestures(H, v5) /\ Focussed(H)
      /\ H.p = v1 /\ H.c = v3 /\ H.t = v4 /\ H.x = v6 /\ v1 \in PtrRecords(W, B)
      /\ v2' \subseteq W /\ v5' \subseteq B
  <2>1. Releasing(W, B, b, bs, up)
    OBVIOUS
  <2> QED
    BY ONLY <2>1, ReleasingIs
<1>1. IsUp(W, B, up, bs) /\ (\A j : j \in bs <=> j = b) /\ v5' = v5 \ bs
  BY DEF Releasing
<1>2. Ptr(W, B, P, C)!Set(Ptr(W, B, P, C)!SetFocus(m, v1.hit)) /\ v1.hit \in Spots(W)
  BY <1>0 DEF Ptr!ReleaseOwn, PtrRecords
<1> HIDE DEF H
<1>3. IsDropped(W, B, d, up)
  BY <1>1, DroppedIs DEF IsUp
<1> HIDE DEF d
<1>4. IsEnd(W, B, m, d)
  BY <1>3, EndIs DEF IsDropped
<1> HIDE DEF m
<1>5. m \in Seats(W, B) /\ Constrained(m)
  <2>1. m.c = up.c /\ m.p.hidden = up.p.hidden /\ m.p.focus = up.p.focus /\ Constrained(up)
    BY <1>1, <1>3, <1>4 DEF IsUp, IsDropped, IsEnd
  <2>2. Constrained(m)
    BY <2>1, SameConstrained
  <2> QED
    BY <1>4, <2>2 DEF IsEnd
<1>6. /\ m.p.pressed = v1.pressed \ bs /\ m.p.consumed = v1.consumed /\ m.p.grab = None
      /\ m.p.move = None /\ m.p.own = FALSE /\ m.p.pan = FALSE /\ m.p.drag = v1.drag
      /\ m.p.overview = v1.overview /\ m.p.crossed = v1.crossed /\ m.p.last = up.p.last
      /\ \A j \in m.p.pressed : j \in m.x
  BY <1>1, <1>3, <1>4 DEF IsUp, IsDropped, IsEnd
<1>7. ~v1.overview /\ (v1.drag # None => v1.crossed)
  BY <1>0 DEF Gestures
<1>8. Gestures(m, v5')
  BY <1>0, <1>1, <1>6, <1>7 DEF IsUp, Gestures
<1>9. OwnOrCut(m)
  BY <1>6 DEF OwnOrCut
<1> QED
  BY <1>0, <1>2, <1>5, <1>6, <1>7, <1>8, <1>9, FocusBack

IsUndragged(W, B, r, st) ==
  /\ r \in Seats(W, B) /\ r.c = st.c /\ r.t = st.t /\ r.x = st.x
  /\ r.p.focus = st.p.focus /\ r.p.grab = st.p.grab /\ r.p.move = st.p.move /\ r.p.hit = st.p.hit
  /\ r.p.own = st.p.own /\ r.p.pan = st.p.pan /\ r.p.ownButton = st.p.ownButton
  /\ r.p.pressed = st.p.pressed /\ r.p.consumed = st.p.consumed /\ r.p.hidden = st.p.hidden
  /\ r.p.drag = None /\ r.p.last = st.p.last /\ r.p.overview = st.p.overview
  /\ r.p.crossed = st.p.crossed

LEMMA UndraggedIs ==
  ASSUME NEW W, NEW B, NEW P, NEW C, NEW st \in Seats(W, B)
  PROVE  IsUndragged(W, B, Ptr(W, B, P, C)!EndDrag(st), st)
<1> DEFINE q == [st.p EXCEPT !.drag = None, !.dragButton = None]
           r == Ptr(W, B, P, C)!EndDrag(st)
<1>1. r \in [p : {q}, c : {st.c}, t : {st.t}, x : {st.x}]
  BY DEF Ptr!EndDrag, Seats
<1>2. /\ st.p \in PtrRecords(W, B) /\ st.c \in Seq(ConRecords(W))
      /\ st.t \in [W \cup {ls} -> SUBSET B] /\ st.x \in SUBSET B
  BY SeatParts
<1>3. q \in PtrRecords(W, B)
  <2>1. None \in Spots(W) /\ None \in Maybe(B)
    BY Members
  <2> QED
    BY <1>2, <2>1 DEF PtrRecords
<1>4. /\ q.focus = st.p.focus /\ q.grab = st.p.grab /\ q.move = st.p.move /\ q.hit = st.p.hit
      /\ q.own = st.p.own /\ q.pan = st.p.pan /\ q.ownButton = st.p.ownButton
      /\ q.pressed = st.p.pressed /\ q.consumed = st.p.consumed /\ q.hidden = st.p.hidden
      /\ q.drag = None /\ q.last = st.p.last /\ q.overview = st.p.overview
      /\ q.crossed = st.p.crossed
  BY <1>2 DEF PtrRecords
<1> HIDE DEF q, r
<1>5. IsBuilt(W, B, r, q, st.c, st.t, st.x)
  BY <1>1, <1>2, <1>3, Built
<1>6. IsUndragged(W, B, r, st)
  BY <1>4, <1>5 DEF IsBuilt, IsUndragged
<1> QED
  BY <1>6 DEF r

LEMMA DragRelease ==
  ASSUME NEW W, NEW B, NEW P, NEW C, NEW b, NEW bs, NEW up, Releasing(W, B, b, bs, up),
         b \notin v1.consumed, b \in v1.pressed, ~v1.overview, v1.drag # None,
         ~(v1.own /\ v1.ownButton = b),
         Ptr(W, B, P, C)!Set(Ptr(W, B, P, C)!ReleaseDrag(up, b))
  PROVE  PtrInv(W, B)'
<1> DEFINE H == Ptr(W, B, P, C)!Here
           m == Ptr(W, B, P, C)!EndDrag(up)
<1>0. /\ Seated(W, B, H, v5) /\ H \in Seats(W, B) /\ Gestures(H, v5) /\ Focussed(H)
      /\ H.p = v1 /\ H.c = v3 /\ H.t = v4 /\ H.x = v6 /\ v1 \in PtrRecords(W, B)
      /\ v2' \subseteq W /\ v5' \subseteq B
  BY ReleasingIs
<1>1. IsUp(W, B, up, bs) /\ (\A j : j \in bs <=> j = b) /\ v5' = v5 \ bs
  BY DEF Releasing
<1>2. v1.hit \in Spots(W)
  BY <1>0 DEF PtrRecords
<1> HIDE DEF H
<1>3. v1.grab = None /\ ~v1.pan
  BY <1>0 DEF Gestures
<1>4. Seated(W, B, up, v5')
  BY UpPressing
<1>5. CASE v1.dragButton # b
  <2>1. Ptr(W, B, P, C)!Set(up)
    BY <1>5 DEF Ptr!ReleaseDrag
  <2> QED
    BY <1>0, <1>4, <2>1, SeatSet
<1>6. CASE v1.dragButton = b
  <2>1. Ptr(W, B, P, C)!Set(Ptr(W, B, P, C)!SetFocus(m, v1.hit))
    BY <1>6 DEF Ptr!ReleaseDrag
  <2>2. up \in Seats(W, B) /\ Constrained(up) /\ Gestures(up, v5') /\ Focussed(up)
    BY <1>4 DEF Seated, Pressing
  <2>3. IsUndragged(W, B, m, up)
    BY <2>2, UndraggedIs
  <2> HIDE DEF m
  <2>4. m \in Seats(W, B) /\ Constrained(m)
    <3>1. m.c = up.c /\ m.p.hidden = up.p.hidden /\ m.p.focus = up.p.focus
      BY <2>3 DEF IsUndragged
    <3>2. Constrained(m)
      BY <2>2, <3>1, SameConstrained
    <3> QED
      BY <2>3, <3>2 DEF IsUndragged
  <2>5. Gestures(m, v5')
    BY <2>2, <2>3 DEF IsUndragged, Gestures
  <2>6. up.p.grab = None /\ ~up.p.pan
    BY <1>1, <1>3 DEF IsUp
  <2>7. OwnOrCut(m)
    BY <2>2, <2>3, <2>6 DEF IsUndragged, Focussed, Grabbed, OwnOrCut
  <2>8. m.p.grab = None /\ ~m.p.pan /\ m.p.drag = None
    BY <2>3, <2>6 DEF IsUndragged
  <2> QED
    BY <1>0, <1>2, <2>1, <2>4, <2>5, <2>7, <2>8, FocusBack
<1> QED
  BY <1>5, <1>6

LEMMA NowhereRelease ==
  ASSUME NEW W, NEW B, NEW P, NEW C, NEW b, NEW bs, NEW up, Releasing(W, B, b, bs, up),
         b \notin v1.consumed, b \in v1.pressed, ~v1.overview, v1.drag = None,
         ~(v1.own /\ v1.ownButton = b), v1.grab = None,
         NEW last, last = (v1.pressed \subseteq bs),
         Ptr(W, B, P, C)!Set(Ptr(W, B, P, C)!ReleaseNowhere(up, last))
  PROVE  PtrInv(W, B)'
<1> DEFINE H == Ptr(W, B, P, C)!Here
           q == [up.p EXCEPT !.grab = None]
           g == [up EXCEPT !.p.grab = None]
           m == Ptr(W, B, P, C)!EndMove(g)
<1>0. /\ Seated(W, B, H, v5) /\ H \in Seats(W, B) /\ Gestures(H, v5) /\ Focussed(H)
      /\ H.p = v1 /\ H.c = v3 /\ H.t = v4 /\ H.x = v6 /\ v1 \in PtrRecords(W, B)
      /\ v2' \subseteq W /\ v5' \subseteq B
  BY ReleasingIs
<1>1. IsUp(W, B, up, bs) /\ (\A j : j \in bs <=> j = b) /\ v5' = v5 \ bs
  BY DEF Releasing
<1> HIDE DEF H
<1>2. CASE ~last
  <2>1. Ptr(W, B, P, C)!Set(up)
    BY <1>2 DEF Ptr!ReleaseNowhere
  <2>2. Seated(W, B, up, v5')
    BY <1>2, UpPressing
  <2> QED
    BY <1>0, <2>1, <2>2, SeatSet
<1>3. CASE last
  <2>1. Ptr(W, B, P, C)!Set(m)
    BY <1>3 DEF Ptr!ReleaseNowhere
  <2>2. /\ up \in Seats(W, B) /\ Constrained(up) /\ up.p \in PtrRecords(W, B)
        /\ up.c \in Seq(ConRecords(W)) /\ up.t \in [W \cup {ls} -> SUBSET B] /\ up.x \in SUBSET B
    BY <1>1, SeatParts DEF IsUp
  <2>3. g \in [p : {q}, c : {up.c}, t : {up.t}, x : {up.x}]
    BY <2>2 DEF Seats
  <2>4. q \in PtrRecords(W, B)
    <3>1. None \in Spots(W)
      BY Members
    <3> QED
      BY <2>2, <3>1 DEF PtrRecords
  <2>5. /\ q.focus = up.p.focus /\ q.grab = None /\ q.hidden = up.p.hidden
        /\ q.pressed = up.p.pressed /\ q.consumed = up.p.consumed
        /\ q.drag = up.p.drag /\ q.last = up.p.last /\ q.overview = up.p.overview
        /\ q.crossed = up.p.crossed
    BY <2>2 DEF PtrRecords
  <2> HIDE DEF q, g
  <2>6. IsBuilt(W, B, g, q, up.c, up.t, up.x)
    BY <2>2, <2>3, <2>4, Built
  <2>7. IsEnd(W, B, m, g)
    BY <2>6, EndIs DEF IsBuilt
  <2> HIDE DEF m
  <2>8. Constrained(m)
    <3>1. m.c = up.c /\ m.p.hidden = up.p.hidden /\ m.p.focus = up.p.focus
      BY <2>5, <2>6, <2>7 DEF IsBuilt, IsEnd
    <3> QED
      BY <2>2, <3>1, SameConstrained
  <2>9. /\ m.p.pressed = {} /\ m.p.consumed = v1.consumed /\ m.p.grab = None
        /\ m.p.move = None /\ m.p.own = FALSE /\ m.p.pan = FALSE /\ m.p.drag = None
        /\ ~m.p.overview /\ m.p.last[2] = None
    BY <1>1, <1>3, <2>5, <2>6, <2>7 DEF IsUp, IsBuilt, IsEnd
  <2>10. Gestures(m, v5')
    BY <1>0, <1>1, <2>9 DEF Gestures
  <2>11. Focussed(m)
    BY <2>9 DEF Focussed, Grabbed
  <2>12. Seated(W, B, m, v5')
    BY <2>7, <2>8, <2>10, <2>11 DEF Seated, IsEnd, Pressing
  <2> QED
    BY <1>0, <2>1, <2>12, SeatSet
<1> QED
  BY <1>2, <1>3

LEMMA ClientRelease ==
  ASSUME NEW W, NEW B, NEW P, NEW C, NEW b, NEW bs, NEW up, Releasing(W, B, b, bs, up),
         bs = {b}, b \notin v1.consumed, b \in v1.pressed, ~v1.overview, v1.drag = None,
         ~(v1.own /\ v1.ownButton = b),
         NEW t, t = IF v1.grab # None THEN v1.grab ELSE v1.focus, t # None,
         NEW last, last = (v1.pressed \subseteq bs),
         Ptr(W, B, P, C)!Set(Ptr(W, B, P, C)!ReleaseClient(up, b, last))
  PROVE  PtrInv(W, B)'
<1> DEFINE H == Ptr(W, B, P, C)!Here
           tt == [up.t EXCEPT ![t] = @ \ bs]
           s == [up EXCEPT !.t[t] = @ \ bs]
           q == [up.p EXCEPT !.move = None, !.grab = None]
           m == [s EXCEPT !.p.move = None, !.p.grab = None]
<1>0. /\ Seated(W, B, H, v5) /\ H \in Seats(W, B) /\ Gestures(H, v5) /\ Focussed(H)
      /\ H.p = v1 /\ H.c = v3 /\ H.t = v4 /\ H.x = v6 /\ v1 \in PtrRecords(W, B)
      /\ v2' \subseteq W /\ v5' \subseteq B
  BY ReleasingIs
<1>1. IsUp(W, B, up, bs) /\ (\A j : j \in bs <=> j = b) /\ v5' = v5 \ bs
  BY DEF Releasing
<1>2. /\ Ptr(W, B, P, C)!Set(IF last THEN Ptr(W, B, P, C)!SetFocus(m, v1.hit) ELSE s)
      /\ v1.hit \in Spots(W)
  BY <1>0 DEF Ptr!ReleaseClient, Ptr!Target, PtrRecords
<1> HIDE DEF H
<1>3. /\ up \in Seats(W, B) /\ Constrained(up) /\ up.p \in PtrRecords(W, B)
      /\ up.c \in Seq(ConRecords(W)) /\ up.t \in [W \cup {ls} -> SUBSET B] /\ up.x \in SUBSET B
  BY <1>1, SeatParts DEF IsUp
<1>4. t \in W \cup {ls}
  <2>1. t \in Spots(W)
    BY <1>0 DEF PtrRecords
  <2> QED
    BY <2>1, Members
<1>5. tt \in [W \cup {ls} -> SUBSET B] /\ \A j \in W \cup {ls} : tt[j] = up.t[j] \/ tt[j] = up.t[j] \ bs
  BY <1>3, <1>4
<1>6. s \in [p : {up.p}, c : {up.c}, t : {tt}, x : {up.x}]
  BY <1>3 DEF Seats
<1> HIDE DEF s, tt
<1>7. IsBuilt(W, B, s, up.p, up.c, tt, up.x)
  BY <1>3, <1>5, <1>6, Built
<1>8. Constrained(s)
  <2>1. s.c = up.c /\ s.p.hidden = up.p.hidden /\ s.p.focus = up.p.focus
    BY <1>7 DEF IsBuilt
  <2> QED
    BY <1>3, <2>1, SameConstrained
<1>9. CASE ~last
  <2>1. Ptr(W, B, P, C)!Set(s)
    BY <1>2, <1>9
  <2>2. Gestures(up, v5') /\ Focussed(up)
    <3>1. Seated(W, B, up, v5')
      BY <1>9, UpPressing
    <3> QED
      BY <3>1 DEF Seated, Pressing
  <2>3. Gestures(s, v5')
    BY <1>7, <2>2 DEF IsBuilt, Gestures
  <2>4. Grabbed(s)
    <3> SUFFICES ASSUME NEW j \in up.p.pressed, j \notin up.x,
                        ~(up.p.own /\ j = up.p.ownButton)
                 PROVE  up.p.grab # None /\ up.p.focus = up.p.grab /\ j \in tt[up.p.grab]
      BY <1>7 DEF IsBuilt, Grabbed
    <3>1. up.p.grab # None /\ up.p.focus = up.p.grab /\ j \in up.t[up.p.grab]
      BY <2>2 DEF Focussed, Grabbed
    <3>2. j \notin bs
      BY <1>1 DEF IsUp
    <3>3. up.p.grab \in W \cup {ls}
      <4>1. up.p.grab \in Spots(W)
        BY <1>3 DEF PtrRecords
      <4> QED
        BY <3>1, <4>1, Members
    <3>4. tt[up.p.grab] = up.t[up.p.grab] \/ tt[up.p.grab] = up.t[up.p.grab] \ bs
      BY <1>5, <3>3
    <3> QED
      BY <3>1, <3>2, <3>4
  <2>5. Focussed(s)
    BY <1>7, <2>2, <2>4 DEF IsBuilt, Focussed
  <2>6. Seated(W, B, s, v5')
    BY <1>7, <1>8, <2>3, <2>5 DEF Seated, IsBuilt, Pressing
  <2> QED
    BY <1>0, <2>1, <2>6, SeatSet
<1>10. CASE last
  <2>1. Ptr(W, B, P, C)!Set(Ptr(W, B, P, C)!SetFocus(m, v1.hit))
    BY <1>2, <1>10
  <2>2. m \in [p : {q}, c : {up.c}, t : {tt}, x : {up.x}]
    BY <1>7 DEF IsBuilt, Seats
  <2>3. q \in PtrRecords(W, B)
    <3>1. None \in Spots(W) /\ None \in Maybe(W)
      BY Members
    <3> QED
      BY <1>3, <3>1 DEF PtrRecords
  <2>4. /\ q.focus = up.p.focus /\ q.grab = None /\ q.hidden = up.p.hidden /\ q.move = None
        /\ q.own = up.p.own /\ q.ownButton = up.p.ownButton /\ q.pan = up.p.pan
        /\ q.pressed = up.p.pressed /\ q.consumed = up.p.consumed
        /\ q.drag = up.p.drag /\ q.last = up.p.last /\ q.overview = up.p.overview
        /\ q.crossed = up.p.crossed
    BY <1>3 DEF PtrRecords
  <2> HIDE DEF q, m
  <2>5. IsBuilt(W, B, m, q, up.c, tt, up.x)
    BY <1>3, <1>5, <2>2, <2>3, Built
  <2>6. Constrained(m)
    <3>1. m.c = up.c /\ m.p.hidden = up.p.hidden /\ m.p.focus = up.p.focus
      BY <2>4, <2>5 DEF IsBuilt
    <3> QED
      BY <1>3, <3>1, SameConstrained
  <2>7. ~v1.own /\ ~v1.pan
    BY <1>0, <1>1, <1>10 DEF Gestures
  <2>8. /\ m.p.pressed = {} /\ m.p.consumed = v1.consumed /\ m.p.grab = None
        /\ m.p.move = None /\ ~m.p.own /\ ~m.p.pan /\ m.p.drag = None
        /\ ~m.p.overview /\ m.p.last[2] = None
    BY <1>1, <1>10, <2>4, <2>5, <2>7 DEF IsUp, IsBuilt
  <2>9. Gestures(m, v5')
    BY <1>0, <1>1, <2>8 DEF Gestures
  <2>10. OwnOrCut(m)
    BY <2>8 DEF OwnOrCut
  <2>11. m \in Seats(W, B)
    BY <2>5 DEF IsBuilt
  <2> QED
    BY <1>0, <1>2, <2>1, <2>6, <2>8, <2>9, <2>10, <2>11, FocusBack
<1> QED
  BY <1>9, <1>10

LEMMA ReleaseKeepsPointer ==
  ASSUME NEW W, NEW B, NEW P, NEW C, Pointed(W, B, P, C), PtrInv(W, B),
         NEW b \in B, Ptr(W, B, P, C)!Release(b)
  PROVE  PtrInv(W, B)'
<1> DEFINE H == Ptr(W, B, P, C)!Here
           bs == {b}
           t == IF v1.grab # None THEN v1.grab ELSE v1.focus
           last == v1.pressed \subseteq bs
           up == [H EXCEPT !.p.pressed = @ \ bs, !.x = @ \ bs,
                           !.p.last = IF v1.pressed \subseteq bs THEN <<None, None>> ELSE @]
           s == IF v1.overview THEN H ELSE up
<1>1. /\ b \in v5 /\ v5' = v5 \ bs /\ v2' = v2
      /\ Ptr(W, B, P, C)!Set(
           IF b \in v1.consumed THEN [s EXCEPT !.p.consumed = @ \ bs]
           ELSE IF v1.overview THEN H
           ELSE IF v1.own /\ v1.ownButton = b THEN Ptr(W, B, P, C)!ReleaseOwn(up)
           ELSE IF b \notin v1.pressed THEN H
           ELSE IF v1.drag # None THEN Ptr(W, B, P, C)!ReleaseDrag(up, b)
           ELSE IF t = None THEN Ptr(W, B, P, C)!ReleaseNowhere(up, last)
           ELSE Ptr(W, B, P, C)!ReleaseClient(up, b, last))
  BY DEF Ptr!Release, Ptr!Target, Ptr!ReleaseConsumed
<1>2. bs \in SUBSET B /\ bs = {b} /\ \A j : j \in bs <=> j = b
  OBVIOUS
<1>3. Gestures(H, v5) /\ H.p = v1
  BY HereSeated DEF Seated, Pressing, Ptr!Here
<1>3a. s = IF v1.overview THEN H ELSE up
  OBVIOUS
<1> HIDE DEF bs, s
<1>4. IsUp(W, B, up, bs)
  <2> DEFINE l == IF v1.pressed \subseteq bs THEN <<None, None>> ELSE v1.last
             q == [v1 EXCEPT !.pressed = @ \ bs, !.last = l]
             x == v6 \ bs
  <2>1. up \in [p : {q}, c : {v3}, t : {v4}, x : {x}]
    BY DEF Ptr!Here
  <2>2. PtrInv(W, B)
    OBVIOUS
  <2>3. /\ l = IF v1.pressed \subseteq bs THEN <<None, None>> ELSE v1.last
        /\ q = [v1 EXCEPT !.pressed = @ \ bs, !.last = l] /\ x = v6 \ bs
    OBVIOUS
  <2> HIDE DEF up, H, l, q, x
  <2> QED
    BY ONLY <1>2, <2>1, <2>2, <2>3, UpIs
<1>5. last = (v1.pressed \subseteq bs) /\ t = IF v1.grab # None THEN v1.grab ELSE v1.focus
  OBVIOUS
<1> HIDE DEF up, last, t
<1>6. Releasing(W, B, b, bs, up)
  BY <1>1, <1>2, <1>4 DEF Releasing
<1>7. CASE b \in v1.consumed
  BY <1>1, <1>3a, <1>6, <1>7, ConsumedRelease
<1>8. CASE b \notin v1.consumed /\ v1.overview
  <2>1. b \notin v1.pressed
    BY <1>3, <1>8 DEF Gestures
  <2> QED
    BY <1>1, <1>6, <1>8, <2>1, StrayRelease
<1>9. CASE b \notin v1.consumed /\ ~v1.overview /\ v1.own /\ v1.ownButton = b
  BY <1>1, <1>6, <1>9, OwnRelease
<1>10. CASE b \notin v1.consumed /\ ~v1.overview /\ ~(v1.own /\ v1.ownButton = b) /\ b \notin v1.pressed
  BY <1>1, <1>6, <1>10, StrayRelease
<1>11. CASE /\ b \notin v1.consumed /\ ~v1.overview /\ ~(v1.own /\ v1.ownButton = b) /\ b \in v1.pressed
            /\ v1.drag # None
  BY <1>1, <1>6, <1>11, DragRelease
<1>12. CASE /\ b \notin v1.consumed /\ ~v1.overview /\ ~(v1.own /\ v1.ownButton = b) /\ b \in v1.pressed
            /\ v1.drag = None /\ t = None
  <2>1. v1.grab = None
    BY <1>5, <1>12
  <2> QED
    BY <1>1, <1>5, <1>6, <1>12, <2>1, NowhereRelease
<1>13. CASE /\ b \notin v1.consumed /\ ~v1.overview /\ ~(v1.own /\ v1.ownButton = b) /\ b \in v1.pressed
            /\ v1.drag = None /\ t # None
  BY <1>1, <1>2, <1>5, <1>6, <1>13, ClientRelease
<1> QED
  BY <1>7, <1>8, <1>9, <1>10, <1>11, <1>12, <1>13

-----------------------------------------------------------------------------
(* What clients ask for.                                                    *)

LEMMA BeginMoveKeeps ==
  ASSUME NEW W, NEW B, NEW P, NEW C, Pointed(W, B, P, C), PtrInv(W, B),
         NEW w \in W, Ptr(W, B, P, C)!BeginMove(w)
  PROVE  PtrInv(W, B)'
<1> DEFINE H == Ptr(W, B, P, C)!Here
           q == [v1 EXCEPT !.move = w]
           r == [p |-> q, c |-> v3, t |-> v4, x |-> v6]
<1>0. /\ Seated(W, B, H, v5) /\ v2 \subseteq W /\ v5 \subseteq B /\ H \in Seats(W, B)
      /\ H.p = v1 /\ H.c = v3 /\ H.t = v4 /\ H.x = v6 /\ v1 \in PtrRecords(W, B)
      /\ Gestures(H, v5) /\ Focussed(H)
  BY HereSeated DEF Ptr!Here, Seated, Pressing
<1>1. /\ r = [p |-> v1', c |-> v3', t |-> v4', x |-> v6'] /\ v2' = v2 /\ v5' = v5
      /\ v1.last[2] # None /\ v1.grab = w /\ w # None
  BY DEF Ptr!BeginMove, Ptr!Serial, Pointed
<1> HIDE DEF H
<1>2. /\ v3 \in Seq(ConRecords(W)) /\ v4 \in [W \cup {ls} -> SUBSET B] /\ v6 \in SUBSET B
  BY <1>0, SeatParts
<1>3. q \in PtrRecords(W, B)
  <2>1. w \in Maybe(W)
    BY Members
  <2> QED
    BY <1>0, <2>1 DEF PtrRecords
<1>4. /\ q.focus = v1.focus /\ q.grab = v1.grab /\ q.hidden = v1.hidden /\ q.move = w
      /\ q.own = v1.own /\ q.pan = v1.pan /\ q.ownButton = v1.ownButton
      /\ q.pressed = v1.pressed /\ q.consumed = v1.consumed
      /\ q.drag = v1.drag /\ q.last = v1.last /\ q.overview = v1.overview /\ q.crossed = v1.crossed
  BY <1>0 DEF PtrRecords
<1>5. r \in [p : {q}, c : {v3}, t : {v4}, x : {v6}]
  OBVIOUS
<1> HIDE DEF q, r
<1>6. IsBuilt(W, B, r, q, v3, v4, v6)
  BY <1>2, <1>3, <1>5, Built
<1>7. Constrained(r)
  <2>1. r.c = H.c /\ r.p.hidden = H.p.hidden /\ r.p.focus = H.p.focus /\ Constrained(H)
    BY <1>0, <1>4, <1>6 DEF IsBuilt, Seated
  <2> QED
    BY <2>1, SameConstrained
<1>8. Gestures(r, v5')
  BY <1>0, <1>1, <1>4, <1>6 DEF IsBuilt, Gestures
<1>9. Focussed(r)
  BY <1>0, <1>4, <1>6 DEF IsBuilt, Focussed, Grabbed
<1>10. Seated(W, B, r, v5') /\ v2' \subseteq W /\ v5' \subseteq B
  BY <1>0, <1>1, <1>6, <1>7, <1>8, <1>9 DEF Seated, IsBuilt, Pressing
<1> QED
  BY <1>1, <1>10 DEF PtrInv

LEMMA SameGestures ==
  ASSUME NEW r, NEW st, NEW h, SameBut(r, st), Gestures(st, h), OwnOrCut(st)
  PROVE  Gestures(r, h) /\ OwnOrCut(r)
BY DEF SameBut, SameSeat, Gestures, OwnOrCut

LEMMA StartDragKeeps ==
  ASSUME NEW W, NEW B, NEW P, NEW C, Pointed(W, B, P, C), PtrInv(W, B),
         NEW w \in W, Ptr(W, B, P, C)!StartDrag(w)
  PROVE  PtrInv(W, B)'
<1> DEFINE H == Ptr(W, B, P, C)!Here
           d == Ptr(W, B, P, C)!DropGrab(H)
           k == v1.last[2]
           z == v1.own \/ v1.move # None
           q == [d.p EXCEPT !.drag = w, !.dragButton = k, !.crossed = z]
           m == [d EXCEPT !.p.drag = w, !.p.dragButton = k, !.p.crossed = z]
           A == Ptr(W, B, P, C)!Active(m)
           j == CHOOSE i \in A : TRUE
           free == IF A # {} THEN Ptr(W, B, P, C)!Off(m, j) ELSE m
<1>0. /\ Seated(W, B, H, v5) /\ v2 \subseteq W /\ v5 \subseteq B /\ H \in Seats(W, B)
      /\ H.p = v1 /\ H.c = v3 /\ H.t = v4 /\ H.x = v6 /\ v1 \in PtrRecords(W, B)
      /\ Gestures(H, v5) /\ Focussed(H)
  BY HereSeated DEF Ptr!Here, Seated, Pressing
<1>1. /\ Ptr(W, B, P, C)!Set(Ptr(W, B, P, C)!SetFocus(free, None)) /\ v2' = v2 /\ v5' = v5
      /\ k # None /\ v1.drag = None /\ v1.focus = w /\ w # None
  BY DEF Ptr!StartDrag, Ptr!Serial, Pointed
<1>2. ~v1.pan /\ ~v1.overview /\ v1.pressed # {}
  BY <1>0, <1>1 DEF Gestures, Focussed
<1>3. k \in Maybe(B) /\ w \in Spots(W) /\ None \in Spots(W)
  BY <1>0, Members DEF PtrRecords
<1> HIDE DEF H, k
<1>4. IsDropped(W, B, d, H)
  BY <1>0, DroppedIs
<1> HIDE DEF d
<1>5. /\ d \in Seats(W, B) /\ d.p \in PtrRecords(W, B) /\ d.c \in Seq(ConRecords(W))
      /\ d.t \in [W \cup {ls} -> SUBSET B] /\ d.x \in SUBSET B
  BY <1>4, SeatParts DEF IsDropped
<1>6. m \in [p : {q}, c : {d.c}, t : {d.t}, x : {d.x}]
  BY <1>5 DEF Seats
<1>7. q \in PtrRecords(W, B)
  BY <1>3, <1>5 DEF PtrRecords
<1>8. /\ q.focus = d.p.focus /\ q.grab = d.p.grab /\ q.hidden = d.p.hidden /\ q.move = d.p.move
      /\ q.own = d.p.own /\ q.pan = d.p.pan /\ q.ownButton = d.p.ownButton
      /\ q.pressed = d.p.pressed /\ q.consumed = d.p.consumed
      /\ q.drag = w /\ q.last = d.p.last /\ q.overview = d.p.overview /\ q.crossed = z
  BY <1>5 DEF PtrRecords
<1>9. A # {} => j \in DOMAIN m.c
  BY ActiveOne
<1> HIDE DEF q, m, A, j, z
<1>10. IsBuilt(W, B, m, q, d.c, d.t, d.x)
  BY <1>5, <1>6, <1>7, Built
<1>11. m \in Seats(W, B) /\ Constrained(m)
  <2>1. m.c = H.c /\ m.p.hidden = H.p.hidden /\ m.p.focus = H.p.focus /\ Constrained(H)
    BY <1>0, <1>4, <1>8, <1>10 DEF IsBuilt, IsDropped, Seated
  <2>2. Constrained(m)
    BY <2>1, SameConstrained
  <2> QED
    BY <1>10, <2>2 DEF IsBuilt
<1>12. Gestures(m, v5')
  BY <1>0, <1>1, <1>2, <1>4, <1>8, <1>10 DEF IsBuilt, IsDropped, Gestures, z
<1>13. OwnOrCut(m)
  BY <1>4, <1>8, <1>10 DEF IsBuilt, IsDropped, OwnOrCut
<1>14. free \in Seats(W, B) /\ Constrained(free) /\ SameBut(free, m)
  <2>1. CASE A # {}
    <3>1. IsOff(W, B, free, m, j) /\ Constrained(free)
      BY <1>9, <1>11, <2>1, OffIs, OffKeeps
    <3> QED
      BY <3>1 DEF IsOff
  <2>2. CASE A = {}
    BY <1>11, <2>2 DEF SameBut, SameSeat
  <2> QED
    BY <2>1, <2>2
<1> HIDE DEF free
<1>15. Gestures(free, v5') /\ OwnOrCut(free)
  BY <1>12, <1>13, <1>14, SameGestures
<1>16. free.p.grab = None /\ ~free.p.pan
  BY <1>0, <1>2, <1>4, <1>8, <1>10, <1>14 DEF SameBut, SameSeat, IsBuilt, IsDropped
<1> QED
  BY <1>0, <1>1, <1>3, <1>14, <1>15, <1>16, FocusBack

LEMMA CancelDragKeeps ==
  ASSUME NEW W, NEW B, NEW P, NEW C, Pointed(W, B, P, C), PtrInv(W, B), Ptr(W, B, P, C)!CancelDrag
  PROVE  PtrInv(W, B)'
<1> DEFINE H == Ptr(W, B, P, C)!Here
           m == Ptr(W, B, P, C)!EndDrag(H)
<1>0. Seated(W, B, H, v5) /\ v2 \subseteq W /\ v5 \subseteq B
  BY HereSeated
<1>1. Ptr(W, B, P, C)!Set(m) /\ v2' = v2 /\ v5' = v5
  BY DEF Ptr!CancelDrag
<1> HIDE DEF H
<1>2. IsUndragged(W, B, m, H)
  BY <1>0, UndraggedIs DEF Seated
<1> HIDE DEF m
<1>3. Constrained(m)
  <2>1. m.c = H.c /\ m.p.hidden = H.p.hidden /\ m.p.focus = H.p.focus /\ Constrained(H)
    BY <1>0, <1>2 DEF IsUndragged, Seated
  <2> QED
    BY <2>1, SameConstrained
<1>4. Gestures(m, v5)
  BY <1>0, <1>2 DEF IsUndragged, Seated, Pressing, Gestures
<1>5. Focussed(m)
  BY <1>0, <1>2 DEF IsUndragged, Seated, Pressing, Focussed, Grabbed
<1>6. Seated(W, B, m, v5') /\ v2' \subseteq W /\ v5' \subseteq B
  BY <1>0, <1>1, <1>2, <1>3, <1>4, <1>5 DEF IsUndragged, Seated, Pressing
<1> QED
  BY <1>1, <1>6, SeatSet

LEMMA MapKeeps ==
  ASSUME NEW W, NEW B, NEW P, NEW C, PtrInv(W, B), NEW w \in W, Ptr(W, B, P, C)!Map(w)
  PROVE  PtrInv(W, B)'
BY DEF PtrInv, Ptr!Map

-----------------------------------------------------------------------------
(* Constraints.                                                             *)

LEMMA ConstrainKeeps ==
  ASSUME NEW W, NEW B, NEW P, NEW C, Pointed(W, B, P, C), PtrInv(W, B),
         NEW w \in W, NEW locks \in BOOLEAN, NEW oneshot \in BOOLEAN,
         Ptr(W, B, P, C)!Constrain(w, locks, oneshot)
  PROVE  PtrInv(W, B)'
<1> DEFINE H == Ptr(W, B, P, C)!Here
           new == [on |-> w, locks |-> locks, oneshot |-> oneshot, active |-> FALSE, defunct |-> FALSE]
           c == Append(v3, new)
           m == [H EXCEPT !.c = Append(@, new)]
           r == Ptr(W, B, P, C)!UpdateConstraints(m)
<1>0. /\ Seated(W, B, H, v5) /\ v2 \subseteq W /\ v5 \subseteq B /\ H \in Seats(W, B)
      /\ H.p = v1 /\ H.c = v3 /\ H.t = v4 /\ H.x = v6 /\ v1 \in PtrRecords(W, B)
      /\ Pressing(H, v5) /\ Constrained(H)
  BY HereSeated DEF Ptr!Here, Seated
<1>1. /\ Ptr(W, B, P, C)!Set(IF v1.focus = w THEN r ELSE m) /\ v2' = v2 /\ v5' = v5
      /\ \A i \in DOMAIN v3 : v3[i].on # w
  BY DEF Ptr!Constrain
<1>2. /\ v3 \in Seq(ConRecords(W)) /\ v4 \in [W \cup {ls} -> SUBSET B] /\ v6 \in SUBSET B
  <2>1. H \in Seats(W, B) /\ H.c = v3 /\ H.t = v4 /\ H.x = v6
    BY ONLY <1>0
  <2> QED
    BY ONLY <2>1 DEF Seats
<1>3. new \in ConRecords(W) /\ new.on = w /\ new.active = FALSE
  BY Members DEF ConRecords
<1>4. m \in [p : {v1}, c : {c}, t : {v4}, x : {v6}]
  BY DEF Ptr!Here
<1> HIDE DEF H, new
<1>5. c \in Seq(ConRecords(W)) /\ DOMAIN v3 \subseteq DOMAIN c
      /\ \A i \in DOMAIN c : (i \in DOMAIN v3 /\ c[i] = v3[i]) \/ (i = Len(v3) + 1 /\ c[i] = new)
  BY <1>2, <1>3
<1> HIDE DEF c, m
<1>6. IsBuilt(W, B, m, v1, c, v4, v6)
  BY <1>0, <1>2, <1>4, <1>5, Built
<1>7. SameBut(m, H)
  BY <1>0, <1>6 DEF SameBut, SameSeat, IsBuilt
<1>8. Pressing(m, v5')
  BY <1>0, <1>1, <1>7, SamePressing
<1>9. OneEach(m)
  <2>1. \A i, j \in DOMAIN c : c[i].on # None /\ c[i].on = c[j].on => i = j
    BY <1>0, <1>1, <1>3, <1>5 DEF Constrained, OneEach
  <2> QED
    BY <1>6, <2>1 DEF IsBuilt, OneEach
<1>10. \A i \in DOMAIN v3 : i \in DOMAIN c /\ c[i] = v3[i]
  <2>1. Len(v3) + 1 \notin DOMAIN v3
    BY <1>2
  <2> QED
    BY <1>5, <2>1
<1>11. HiddenByLock(m)
  BY <1>0, <1>6, <1>10 DEF IsBuilt, HiddenByLock, Constrained
<1>12. CASE v1.focus = w
  <2>1. m \in Seats(W, B)
    BY <1>6 DEF IsBuilt
  <2>2. IsUpdated(W, B, r, m)
    BY <1>9, <1>11, <2>1, UpdateIs
  <2> HIDE DEF r
  <2>3. Pressing(r, v5')
    BY <1>8, <2>2, SamePressing DEF IsUpdated
  <2>4. Seated(W, B, r, v5') /\ v2' \subseteq W /\ v5' \subseteq B
    BY <1>0, <1>1, <2>2, <2>3 DEF Seated, IsUpdated
  <2> QED
    BY <1>1, <1>12, <2>4, SeatSet
<1>13. CASE v1.focus # w
  <2>1. \A i \in DOMAIN c : c[i].active => i \in DOMAIN v3 /\ c[i] = v3[i]
    BY <1>3, <1>5
  <2>2. \A i \in DOMAIN c : c[i].active =>
          /\ c[i].on # None /\ v1.focus = c[i].on
          /\ \A j \in DOMAIN c : c[j].active => i = j
    BY <1>0, <2>1 DEF Constrained
  <2>3. Constrained(m)
    BY <1>6, <1>9, <1>11, <2>2 DEF IsBuilt, Constrained
  <2>4. Seated(W, B, m, v5') /\ v2' \subseteq W /\ v5' \subseteq B
    BY <1>0, <1>1, <1>6, <1>8, <2>3 DEF Seated, IsBuilt
  <2> QED
    BY <1>1, <1>13, <2>4, SeatSet
<1> QED
  BY <1>12, <1>13

\* A list without one of its members.
IsWithout(S, d, c, i) ==
  /\ d \in Seq(S) /\ i \in Int /\ \A j \in DOMAIN d : j \in Int
  /\ \A j \in DOMAIN d : \E k \in DOMAIN c : k # i /\ d[j] = c[k] /\ k = IF j < i THEN j ELSE j + 1
  /\ \A k \in DOMAIN c : k # i => \E j \in DOMAIN d : d[j] = c[k]

LEMMA WithoutIs ==
  ASSUME NEW S, NEW c \in Seq(S), NEW n \in Nat, n = Len(c), NEW i \in 1 .. n,
         NEW d \in Seq(S), Len(d) = n - 1,
         \A j \in 1 .. n - 1 : d[j] = IF j < i THEN c[j] ELSE c[j + 1]
  PROVE  IsWithout(S, d, c, i)
<1>1. DOMAIN c = 1 .. n /\ DOMAIN d = 1 .. n - 1
  OBVIOUS
<1>2. ASSUME NEW j \in 1 .. n - 1
      PROVE  \E k \in 1 .. n : k # i /\ d[j] = c[k] /\ k = IF j < i THEN j ELSE j + 1
  <2>1. j \in 1 .. n /\ j + 1 \in 1 .. n /\ (j < i => j # i) /\ (~(j < i) => j + 1 # i)
    OBVIOUS
  <2> QED
    BY <2>1
<1>3. ASSUME NEW k \in 1 .. n, k # i PROVE \E j \in 1 .. n - 1 : d[j] = c[k]
  <2>1. CASE k < i
    <3>1. k \in 1 .. n - 1
      BY <2>1
    <3> QED
      BY <2>1, <3>1
  <2>2. CASE ~(k < i)
    <3>1. k - 1 \in 1 .. n - 1 /\ ~(k - 1 < i) /\ (k - 1) + 1 = k
      BY <1>3, <2>2
    <3> QED
      BY <3>1
  <2> QED
    BY <2>1, <2>2
<1>4. \A j \in 1 .. n - 1 : j \in Int
  OBVIOUS
<1> QED
  BY <1>1, <1>2, <1>3, <1>4 DEF IsWithout

LEMMA Indices ==
  ASSUME NEW n \in Nat, NEW i \in 1 .. n, NEW m \in Int, m = i + 1
  PROVE  /\ \A j \in 1 .. n - i : j \in 1 .. n - m + 1 /\ m + j - 1 = i + j
         /\ \A j \in 1 .. n - 1 : ~(j < i) =>
              j - (i - 1) \in 1 .. n - i /\ i + (j - (i - 1)) = j + 1 /\ ~(j <= i - 1)
         /\ (i - 1) + (n - i) = n - 1
OBVIOUS

LEMMA Without ==
  ASSUME NEW S, NEW c \in Seq(S), NEW i \in DOMAIN c,
         NEW d, d = SubSeq(c, 1, i - 1) \o SubSeq(c, i + 1, Len(c))
  PROVE  IsWithout(S, d, c, i)
<1> DEFINE a == SubSeq(c, 1, i - 1)
           n == Len(c)
           m == i + 1
           b == SubSeq(c, m, n)
<1>1. /\ n \in Nat /\ DOMAIN c = 1 .. n /\ i \in 1 .. n /\ m \in Int /\ n \in Int /\ m = i + 1
      /\ n = Len(c) /\ \A k \in 1 .. n : c[k] \in S
  OBVIOUS
<1>2. a \in Seq(S) /\ Len(a) = i - 1 /\ \A j \in 1 .. i - 1 : a[j] = c[j]
  BY <1>1
<1>2a. d = a \o b
  OBVIOUS
<1> HIDE DEF a, n, m
<1>2b. /\ \A j \in 1 .. n - i : j \in 1 .. n - m + 1 /\ m + j - 1 = i + j
       /\ \A j \in 1 .. n - 1 : ~(j < i) =>
            j - (i - 1) \in 1 .. n - i /\ i + (j - (i - 1)) = j + 1 /\ ~(j <= i - 1)
       /\ (i - 1) + (n - i) = n - 1
  BY <1>1, Indices
<1>3. b \in Seq(S) /\ Len(b) = n - i /\ \A j \in 1 .. n - i : b[j] = c[i + j]
  <2>1. \A k \in m .. n : c[k] \in S
    BY <1>1
  <2>2. /\ b \in Seq(S) /\ Len(b) = IF m <= n THEN n - m + 1 ELSE 0
        /\ \A j \in 1 .. n - m + 1 : b[j] = c[m + j - 1]
    BY <1>1, <2>1, SubSeqProperties
  <2> HIDE DEF b
  <2>3. Len(b) = n - i
    BY <1>1, <2>2
  <2>4. ASSUME NEW j \in 1 .. n - i PROVE b[j] = c[i + j]
    BY <1>2b, <2>2
  <2> QED
    BY <2>2, <2>3, <2>4
<1> HIDE DEF b
<1>5. /\ d \in Seq(S) /\ Len(d) = n - 1
      /\ \A j \in 1 .. n - 1 : d[j] = IF j <= i - 1 THEN a[j] ELSE b[j - (i - 1)]
  <2>1. /\ a \o b \in Seq(S) /\ Len(a \o b) = Len(a) + Len(b)
        /\ \A j \in 1 .. Len(a) + Len(b) : (a \o b)[j] = IF j <= Len(a) THEN a[j] ELSE b[j - Len(a)]
    BY <1>2, <1>3, ConcatProperties
  <2>2. Len(a) + Len(b) = n - 1
    BY <1>2, <1>2b, <1>3
  <2> QED
    BY <1>2, <1>2a, <2>1, <2>2
<1>6. ASSUME NEW j \in 1 .. n - 1 PROVE d[j] = IF j < i THEN c[j] ELSE c[j + 1]
  <2>1. CASE j < i
    BY <1>1, <1>2, <1>5, <2>1
  <2>2. CASE ~(j < i)
    <3>1. j - (i - 1) \in 1 .. n - i /\ i + (j - (i - 1)) = j + 1 /\ ~(j <= i - 1)
      BY <1>2b, <2>2
    <3>2. d[j] = b[j - (i - 1)]
      BY <1>5, <3>1
    <3>3. b[j - (i - 1)] = c[i + (j - (i - 1))]
      BY <1>3, <3>1
    <3> QED
      BY <2>2, <3>1, <3>2, <3>3
  <2> QED
    BY <2>1, <2>2
<1> QED
  BY <1>1, <1>5, <1>6, WithoutIs

LEMMA UnconstrainKeeps ==
  ASSUME NEW W, NEW B, NEW P, NEW C, Pointed(W, B, P, C), PtrInv(W, B),
         NEW i \in DOMAIN v3, Ptr(W, B, P, C)!Unconstrain(i)
  PROVE  PtrInv(W, B)'
<1> DEFINE H == Ptr(W, B, P, C)!Here
           m == Ptr(W, B, P, C)!Off(H, i)
           d == SubSeq(m.c, 1, i - 1) \o SubSeq(m.c, i + 1, Len(m.c))
           r == [m EXCEPT !.c = SubSeq(@, 1, i - 1) \o SubSeq(@, i + 1, Len(@))]
<1>0. Seated(W, B, H, v5) /\ v2 \subseteq W /\ v5 \subseteq B /\ H.c = v3
  BY HereSeated DEF Ptr!Here
<1>1. Ptr(W, B, P, C)!Set(r) /\ v2' = v2 /\ v5' = v5
  BY DEF Ptr!Unconstrain
<1> HIDE DEF H
<1>2. IsOff(W, B, m, H, i) /\ Seated(W, B, m, v5)
  BY <1>0, OffIs, OffSeated DEF Seated
<1> HIDE DEF m
<1>3. /\ m \in Seats(W, B) /\ Constrained(m) /\ Pressing(m, v5)
      /\ m.c[i].active = FALSE /\ i \in DOMAIN m.c
  BY <1>0, <1>2 DEF Seated, IsOff
<1>4. /\ m.p \in PtrRecords(W, B) /\ m.c \in Seq(ConRecords(W))
      /\ m.t \in [W \cup {ls} -> SUBSET B] /\ m.x \in SUBSET B
  BY <1>3, SeatParts
<1>4a. d = SubSeq(m.c, 1, i - 1) \o SubSeq(m.c, i + 1, Len(m.c))
  OBVIOUS
<1>5. r \in [p : {m.p}, c : {d}, t : {m.t}, x : {m.x}]
  BY <1>3 DEF Seats
<1> HIDE DEF d, r
<1>6. /\ d \in Seq(ConRecords(W)) /\ i \in Int /\ \A j \in DOMAIN d : j \in Int
      /\ \A j \in DOMAIN d : \E k \in DOMAIN m.c : k # i /\ d[j] = m.c[k] /\ k = IF j < i THEN j ELSE j + 1
      /\ \A k \in DOMAIN m.c : k # i => \E j \in DOMAIN d : d[j] = m.c[k]
  <2>1. IsWithout(ConRecords(W), d, m.c, i)
    BY ONLY <1>3, <1>4, <1>4a, Without
  <2> QED
    BY ONLY <2>1 DEF IsWithout
<1>7. IsBuilt(W, B, r, m.p, d, m.t, m.x)
  BY <1>4, <1>5, <1>6, Built
<1>8. ASSUME NEW j \in DOMAIN d, NEW l \in DOMAIN d, d[j].on # None, d[j].on = d[l].on
      PROVE  j = l
  <2>1. PICK k \in DOMAIN m.c : k # i /\ d[j] = m.c[k] /\ k = IF j < i THEN j ELSE j + 1
    BY <1>6
  <2>2. PICK n \in DOMAIN m.c : n # i /\ d[l] = m.c[n] /\ n = IF l < i THEN l ELSE l + 1
    BY <1>6
  <2>3. k = n
    BY <1>3, <1>8, <2>1, <2>2 DEF Constrained, OneEach
  <2>4. i \in Int /\ j \in Int /\ l \in Int
    BY <1>6
  <2> QED
    BY <2>1, <2>2, <2>3, <2>4
<1>9. ASSUME NEW j \in DOMAIN d, NEW l \in DOMAIN d, d[j].active, d[l].active
      PROVE  j = l /\ d[j].on # None /\ m.p.focus = d[j].on
  <2>1. PICK k \in DOMAIN m.c : k # i /\ d[j] = m.c[k] /\ k = IF j < i THEN j ELSE j + 1
    BY <1>6
  <2>2. PICK n \in DOMAIN m.c : n # i /\ d[l] = m.c[n] /\ n = IF l < i THEN l ELSE l + 1
    BY <1>6
  <2>3. k = n /\ m.c[k].on # None /\ m.p.focus = m.c[k].on
    BY <1>3, <1>9, <2>1, <2>2 DEF Constrained
  <2>4. i \in Int /\ j \in Int /\ l \in Int
    BY <1>6
  <2> QED
    BY <2>1, <2>2, <2>3, <2>4
<1>10. HiddenByLock(r)
  <2> SUFFICES ASSUME m.p.hidden PROVE \E j \in DOMAIN d : d[j].active /\ d[j].locks
    BY <1>7 DEF IsBuilt, HiddenByLock
  <2>1. PICK k \in DOMAIN m.c : m.c[k].active /\ m.c[k].locks
    BY <1>3 DEF Constrained, HiddenByLock
  <2>2. k # i
    BY <1>3, <2>1
  <2> QED
    BY <1>6, <2>1, <2>2
<1>11. Constrained(r)
  BY <1>7, <1>8, <1>9, <1>10 DEF IsBuilt, Constrained, OneEach
<1>12. Pressing(r, v5')
  <2>1. SameBut(r, m)
    BY <1>7 DEF IsBuilt, SameBut, SameSeat
  <2> QED
    BY <1>1, <1>3, <2>1, SamePressing
<1>13. Seated(W, B, r, v5') /\ v2' \subseteq W /\ v5' \subseteq B
  BY <1>0, <1>1, <1>7, <1>11, <1>12 DEF Seated, IsBuilt
<1> QED
  BY <1>1, <1>13, SeatSet

LEMMA ReleasePointerKeeps ==
  ASSUME NEW W, NEW B, NEW P, NEW C, Pointed(W, B, P, C), PtrInv(W, B),
         NEW i \in DOMAIN v3, Ptr(W, B, P, C)!ReleasePointer(i)
  PROVE  PtrInv(W, B)'
<1> DEFINE H == Ptr(W, B, P, C)!Here
           m == Ptr(W, B, P, C)!Off(H, i)
           d == [m.c EXCEPT ![i].defunct = TRUE]
           r == [m EXCEPT !.c[i].defunct = TRUE]
<1>0. Seated(W, B, H, v5) /\ v2 \subseteq W /\ v5 \subseteq B /\ H.c = v3
  BY HereSeated DEF Ptr!Here
<1>1. Ptr(W, B, P, C)!Set(r) /\ v2' = v2 /\ v5' = v5
  BY DEF Ptr!ReleasePointer
<1> HIDE DEF H
<1>2. IsOff(W, B, m, H, i) /\ Seated(W, B, m, v5)
  BY <1>0, OffIs, OffSeated DEF Seated
<1> HIDE DEF m
<1>3. m \in Seats(W, B) /\ Constrained(m) /\ Pressing(m, v5) /\ i \in DOMAIN m.c
  BY <1>0, <1>2 DEF Seated, IsOff
<1>4. /\ m.p \in PtrRecords(W, B) /\ m.c \in Seq(ConRecords(W))
      /\ m.t \in [W \cup {ls} -> SUBSET B] /\ m.x \in SUBSET B
  BY <1>3, SeatParts
<1>5. r \in [p : {m.p}, c : {d}, t : {m.t}, x : {m.x}]
  BY <1>3 DEF Seats
<1>6. /\ d \in Seq(ConRecords(W)) /\ DOMAIN d = DOMAIN m.c
      /\ \A j \in DOMAIN d : d[j].on = m.c[j].on /\ d[j].active = m.c[j].active /\ d[j].locks = m.c[j].locks
  <2>1. m.c[i] \in ConRecords(W)
    BY <1>3, <1>4
  <2> DEFINE e == [m.c[i] EXCEPT !.defunct = TRUE]
  <2>2. e \in ConRecords(W) /\ e.on = m.c[i].on /\ e.active = m.c[i].active /\ e.locks = m.c[i].locks
    BY <2>1 DEF ConRecords
  <2>3. d = [m.c EXCEPT ![i] = e]
    OBVIOUS
  <2> HIDE DEF e, d
  <2> QED
    BY <1>3, <1>4, <2>2, <2>3
<1> HIDE DEF d, r
<1>7. IsBuilt(W, B, r, m.p, d, m.t, m.x)
  BY <1>4, <1>5, <1>6, Built
<1>8. Constrained(r)
  BY <1>3, <1>6, <1>7 DEF IsBuilt, Constrained, OneEach, HiddenByLock
<1>9. Pressing(r, v5')
  <2>1. SameBut(r, m)
    BY <1>7 DEF IsBuilt, SameBut, SameSeat
  <2> QED
    BY <1>1, <1>3, <2>1, SamePressing
<1>10. Seated(W, B, r, v5') /\ v2' \subseteq W /\ v5' \subseteq B
  BY <1>0, <1>1, <1>7, <1>8, <1>9 DEF Seated, IsBuilt
<1> QED
  BY <1>1, <1>10, SeatSet

-----------------------------------------------------------------------------
(* Windows that come and go, and the focus.                                 *)

LEMMA KfSeated ==
  ASSUME NEW W, NEW B, NEW P, NEW C, NEW st, NEW h, NEW next \in Spots(W), Seated(W, B, st, h)
  PROVE  LET r == Ptr(W, B, P, C)!SetKeyboardFocus(st, next)
         IN IsKf(W, B, r, st, next) /\ Seated(W, B, r, h)
<1> DEFINE r == Ptr(W, B, P, C)!SetKeyboardFocus(st, next)
<1>1. st \in Seats(W, B) /\ Constrained(st) /\ Pressing(st, h)
  BY DEF Seated
<1>2. IsKf(W, B, r, st, next)
  BY <1>1, KfIs
<1> HIDE DEF r
<1>3. Pressing(r, h)
  BY <1>1, <1>2, KfPressing
<1>4. IsKf(W, B, r, st, next) /\ Seated(W, B, r, h)
  BY <1>2, <1>3 DEF Seated, IsKf
<1> QED
  BY <1>4 DEF r

LEMMA ForgottenSeated ==
  ASSUME NEW W, NEW B, NEW P, NEW C, NEW st, NEW h, NEW w, w # None, NotOn(st, w),
         Seated(W, B, st, h)
  PROVE  LET r == Ptr(W, B, P, C)!Forgotten(st, w)
         IN IsForgotten(W, B, r, st, w) /\ Seated(W, B, r, h)
<1> DEFINE r == Ptr(W, B, P, C)!Forgotten(st, w)
<1>1. st \in Seats(W, B) /\ Constrained(st) /\ Pressing(st, h)
  BY DEF Seated
<1>2. IsForgotten(W, B, r, st, w)
  BY <1>1, ForgottenIs
<1> HIDE DEF r
<1>3. Pressing(r, h)
  BY <1>1, <1>2, ForgottenPressing
<1>4. IsForgotten(W, B, r, st, w) /\ Seated(W, B, r, h)
  BY <1>2, <1>3 DEF Seated, IsForgotten
<1> QED
  BY <1>4 DEF r

\* The window that goes is not moved any more.
IsQuiet(W, B, r) == Seated(W, B, r, v5) /\ r.c = v3

LEMMA QuietIs ==
  ASSUME NEW W, NEW B, NEW P, NEW C, PtrInv(W, B), NEW w, w # None,
         NEW r, r = IF v1.move = w THEN Ptr(W, B, P, C)!EndMove(Ptr(W, B, P, C)!Here)
                    ELSE Ptr(W, B, P, C)!Here
  PROVE  IsQuiet(W, B, r)
<1> DEFINE H == Ptr(W, B, P, C)!Here
<1>1. Seated(W, B, H, v5) /\ H.p = v1 /\ H.c = v3
  BY HereSeated DEF Ptr!Here
<1>2. r = IF v1.move = w THEN Ptr(W, B, P, C)!EndMove(H) ELSE H
  OBVIOUS
<1> HIDE DEF H
<1>3. CASE v1.move = w
  <2>1. IsEnd(W, B, r, H) /\ Seated(W, B, r, v5)
    BY <1>1, <1>2, <1>3, EndSeated
  <2> QED
    BY <1>1, <2>1 DEF IsEnd, IsQuiet
<1>4. CASE v1.move # w
  BY <1>1, <1>2, <1>4 DEF IsQuiet
<1> QED
  BY <1>3, <1>4

\* The keyboard goes to another window, and the seat forgets the old one.
IsLeft(W, B, r, st, w) ==
  /\ Seated(W, B, r, v5) /\ r.p.grab # w /\ r.p.focus # w

LEMMA LeftIs ==
  ASSUME NEW W, NEW B, NEW P, NEW C, NEW st, NEW w, w # None, NotOn(st, w), NEW next \in Spots(W),
         Seated(W, B, st, v5),
         NEW r, r = Ptr(W, B, P, C)!Forgotten(
                      IF st.p.kf = w THEN Ptr(W, B, P, C)!SetKeyboardFocus(st, next) ELSE st, w)
  PROVE  IsLeft(W, B, r, st, w)
<1> DEFINE m == IF st.p.kf = w THEN Ptr(W, B, P, C)!SetKeyboardFocus(st, next) ELSE st
<1>1. r = Ptr(W, B, P, C)!Forgotten(m, w)
  OBVIOUS
<1>2. Seated(W, B, m, v5) /\ NotOn(m, w)
  <2>1. CASE st.p.kf = w
    <3>1. IsKf(W, B, m, st, next) /\ Seated(W, B, m, v5)
      BY <2>1, KfSeated
    <3> HIDE DEF m
    <3> QED
      BY <3>1 DEF IsKf, Fewer, NotOn
  <2>2. CASE st.p.kf # w
    BY <2>2
  <2> QED
    BY <2>1, <2>2
<1> HIDE DEF m
<1>3. IsForgotten(W, B, r, m, w) /\ Seated(W, B, r, v5)
  BY <1>1, <1>2, ForgottenSeated
<1> QED
  BY <1>3 DEF IsForgotten, IsLeft

LEMMA UnmapKeeps ==
  ASSUME NEW W, NEW B, NEW P, NEW C, Pointed(W, B, P, C), PtrInv(W, B),
         NEW w \in W, NEW next \in W \cup {None}, Ptr(W, B, P, C)!Unmap(w, next)
  PROVE  PtrInv(W, B)'
<1> DEFINE H == Ptr(W, B, P, C)!Here
           m == IF v1.move = w THEN Ptr(W, B, P, C)!EndMove(H) ELSE H
           its == {i \in DOMAIN v3 : v3[i].on = w}
           k == CHOOSE i \in its : TRUE
           o == IF its # {} THEN Ptr(W, B, P, C)!Off(m, k) ELSE m
           r == Ptr(W, B, P, C)!Forgotten(
                  IF o.p.kf = w THEN Ptr(W, B, P, C)!SetKeyboardFocus(o, next) ELSE o, w)
<1>1. /\ Ptr(W, B, P, C)!Set(r) /\ v2' = v2 \ {w} /\ v5' = v5 /\ w # None
  BY DEF Ptr!Unmap, Pointed
<1>2. v2 \subseteq W /\ v5 \subseteq B /\ next \in Spots(W)
  BY HereSeated, Members DEF Spots
<1>3. IsQuiet(W, B, m)
  BY <1>1, QuietIs
<1>3a. its # {} => k \in DOMAIN v3 /\ v3[k].on = w
  <2>1. its # {} => k \in its
    OBVIOUS
  <2> QED
    BY <2>1
<1>3b. its = {} => \A i \in DOMAIN v3 : v3[i].on # w
  OBVIOUS
<1> HIDE DEF m, its, k
<1>3c. Seated(W, B, o, v5) /\ NotOn(o, w)
  <2>1. CASE its = {}
    BY <1>3, <1>3b, <2>1 DEF IsQuiet, NotOn
  <2>2. CASE its # {}
    <3>1. Seated(W, B, m, v5) /\ m.c = v3 /\ k \in DOMAIN m.c /\ m.c[k].on = w
      BY <1>3, <1>3a, <2>2 DEF IsQuiet
    <3>2. IsOff(W, B, o, m, k) /\ Seated(W, B, o, v5)
      BY <2>2, <3>1, OffIs, OffSeated DEF Seated
    <3> HIDE DEF o
    <3>3. ASSUME NEW j \in DOMAIN o.c, o.c[j].active PROVE o.c[j].on # w
      <4>1. j \in DOMAIN m.c /\ o.c[j].on = m.c[j].on /\ j # k
        BY <3>2, <3>3 DEF IsOff
      <4> QED
        BY <1>1, <3>1, <4>1 DEF Seated, Constrained, OneEach
    <3> QED
      BY <3>2, <3>3 DEF NotOn
  <2> QED
    BY <2>1, <2>2
<1> HIDE DEF o
<1>4. IsLeft(W, B, r, o, w)
  BY <1>1, <1>2, <1>3c, LeftIs
<1> HIDE DEF r
<1>5. Seated(W, B, r, v5') /\ v2' \subseteq W /\ v5' \subseteq B
  BY <1>1, <1>2, <1>4 DEF IsLeft
<1> QED
  BY <1>1, <1>5, SeatSet

LEMMA DestroyKeeps ==
  ASSUME NEW W, NEW B, NEW P, NEW C, Pointed(W, B, P, C), PtrInv(W, B),
         NEW w \in W, NEW next \in W \cup {None}, Ptr(W, B, P, C)!Destroy(w, next)
  PROVE  PtrInv(W, B)'
<1> DEFINE H == Ptr(W, B, P, C)!Here
           i == CHOOSE j \in DOMAIN v3 : v3[j].on = w
           m == IF v1.move = w THEN Ptr(W, B, P, C)!EndMove(H) ELSE H
           o == Ptr(W, B, P, C)!Off(m, i)
           d == [o.c EXCEPT ![i].on = None, ![i].defunct = TRUE]
           s == [o EXCEPT !.c[i].on = None, !.c[i].defunct = TRUE]
           left == Ptr(W, B, P, C)!Forgotten(
                     IF s.p.kf = w THEN Ptr(W, B, P, C)!SetKeyboardFocus(s, next) ELSE s, w)
           tt == [left.t EXCEPT ![w] = {}]
           l == IF left.p.last[1] = w THEN <<None, None>> ELSE left.p.last
           g == IF left.p.drag = w THEN None ELSE left.p.drag
           gb == IF left.p.drag = w THEN None ELSE left.p.dragButton
           q == [left.p EXCEPT !.last = l, !.drag = g, !.dragButton = gb]
           r == [left EXCEPT !.t[w] = {}, !.p.last = IF @[1] = w THEN <<None, None>> ELSE @,
                         !.p.drag = IF @ = w THEN None ELSE @,
                         !.p.dragButton = IF left.p.drag = w THEN None ELSE @]
<1>1. /\ Ptr(W, B, P, C)!Set(r) /\ v2' = v2 \ {w} /\ v5' = v5 /\ w # None
  BY DEF Ptr!Destroy, Pointed
<1>2. v2 \subseteq W /\ v5 \subseteq B /\ next \in Spots(W)
  BY HereSeated, Members DEF Spots
<1>3. i \in DOMAIN v3 /\ v3[i].on = w
  <2>1. \E j \in DOMAIN v3 : v3[j].on = w
    BY DEF Ptr!Destroy
  <2> QED
    BY <2>1
<1>4. IsQuiet(W, B, m)
  BY <1>1, QuietIs
<1> HIDE DEF m, i
<1>5. IsOff(W, B, o, m, i) /\ Seated(W, B, o, v5)
  BY <1>3, <1>4, OffIs, OffSeated DEF IsQuiet, Seated
<1> HIDE DEF o
<1>6. /\ o \in Seats(W, B) /\ Constrained(o) /\ Pressing(o, v5) /\ i \in DOMAIN o.c
      /\ o.c[i].active = FALSE /\ o.c[i].on = w
  BY <1>3, <1>4, <1>5 DEF IsQuiet, Seated, IsOff
<1>7. /\ o.p \in PtrRecords(W, B) /\ o.c \in Seq(ConRecords(W))
      /\ o.t \in [W \cup {ls} -> SUBSET B] /\ o.x \in SUBSET B
  BY <1>6, SeatParts
<1>8. s \in [p : {o.p}, c : {d}, t : {o.t}, x : {o.x}]
  BY <1>6 DEF Seats
<1>9. /\ d \in Seq(ConRecords(W)) /\ DOMAIN d = DOMAIN o.c
      /\ d[i].on = None /\ d[i].active = FALSE
      /\ \A j \in DOMAIN d : j # i => d[j] = o.c[j]
  <2>1. o.c[i] \in ConRecords(W)
    BY <1>6, <1>7
  <2> DEFINE e == [o.c[i] EXCEPT !.on = None, !.defunct = TRUE]
  <2>2. e \in ConRecords(W) /\ e.on = None /\ e.active = FALSE
    BY <1>6, <2>1 DEF ConRecords, Maybe
  <2>3. d = [o.c EXCEPT ![i] = e]
    BY <1>6, <1>7
  <2> HIDE DEF e, d
  <2> QED
    BY <1>6, <1>7, <2>2, <2>3
<1> HIDE DEF d, s
<1>10. IsBuilt(W, B, s, o.p, d, o.t, o.x)
  BY <1>7, <1>8, <1>9, Built
<1>11. Constrained(s)
  <2>1. OneEach(s)
    BY <1>6, <1>9, <1>10 DEF IsBuilt, Constrained, OneEach
  <2>2. HiddenByLock(s)
    BY <1>6, <1>9, <1>10 DEF IsBuilt, Constrained, HiddenByLock
  <2> QED
    BY <1>6, <1>9, <1>10, <2>1, <2>2 DEF IsBuilt, Constrained
<1>12. Seated(W, B, s, v5)
  <2>1. SameBut(s, o)
    BY <1>10 DEF IsBuilt, SameBut, SameSeat
  <2>2. Pressing(s, v5)
    BY <1>6, <2>1, SamePressing
  <2> QED
    BY <1>6, <1>10, <1>11, <2>2 DEF IsBuilt, Seated
<1>12a. NotOn(s, w)
  BY <1>1, <1>6, <1>9, <1>10 DEF IsBuilt, Constrained, OneEach, NotOn
<1>13. IsLeft(W, B, left, s, w)
  BY <1>1, <1>2, <1>12, <1>12a, LeftIs
<1> HIDE DEF left
<1>14. /\ left \in Seats(W, B) /\ Constrained(left) /\ Gestures(left, v5) /\ Focussed(left)
       /\ left.p.grab # w
  BY <1>13 DEF IsLeft, Seated, Pressing
<1>15. /\ left.p \in PtrRecords(W, B) /\ left.c \in Seq(ConRecords(W))
       /\ left.t \in [W \cup {ls} -> SUBSET B] /\ left.x \in SUBSET B
  BY <1>14, SeatParts
<1>16. /\ tt \in [W \cup {ls} -> SUBSET B] /\ \A j \in W \cup {ls} : j # w => tt[j] = left.t[j]
  BY <1>15
<1>17. /\ l \in Spots(W) \X Maybe(B) /\ g \in Spots(W) /\ gb \in Maybe(B)
       /\ (l[2] # None => left.p.last[2] # None) /\ (g # None => left.p.drag # None)
  <2>1. None \in Spots(W) /\ None \in Maybe(B)
    BY Members
  <2>2. left.p.last \in Spots(W) \X Maybe(B) /\ left.p.drag \in Spots(W) /\ left.p.dragButton \in Maybe(B)
    BY <1>15 DEF PtrRecords
  <2> QED
    BY <2>1, <2>2
<1>18. r \in [p : {q}, c : {left.c}, t : {tt}, x : {left.x}]
  BY <1>14, <1>15 DEF Seats, PtrRecords
<1> HIDE DEF tt, l, g, gb, r
<1>19. q \in PtrRecords(W, B)
  BY <1>15, <1>17 DEF PtrRecords
<1>20. /\ q.focus = left.p.focus /\ q.grab = left.p.grab /\ q.hidden = left.p.hidden /\ q.move = left.p.move
       /\ q.own = left.p.own /\ q.pan = left.p.pan /\ q.ownButton = left.p.ownButton
       /\ q.pressed = left.p.pressed /\ q.consumed = left.p.consumed
       /\ q.drag = g /\ q.last = l /\ q.overview = left.p.overview /\ q.crossed = left.p.crossed
  BY <1>15 DEF PtrRecords
<1> HIDE DEF q
<1>21. IsBuilt(W, B, r, q, left.c, tt, left.x)
  BY <1>15, <1>16, <1>18, <1>19, Built
<1>22. Constrained(r)
  <2>1. r.c = left.c /\ r.p.hidden = left.p.hidden /\ r.p.focus = left.p.focus
    BY <1>20, <1>21 DEF IsBuilt
  <2> QED
    BY <1>14, <2>1, SameConstrained
<1>23. Gestures(r, v5)
  BY <1>14, <1>17, <1>20, <1>21 DEF IsBuilt, Gestures
<1>24. left.p.grab # None => tt[left.p.grab] = left.t[left.p.grab]
  <2>1. left.p.grab \in Spots(W)
    BY <1>15 DEF PtrRecords
  <2> QED
    BY <1>14, <1>16, <2>1, Members
<1>25. Focussed(r)
  BY <1>14, <1>17, <1>20, <1>21, <1>24 DEF IsBuilt, Focussed, Grabbed
<1>26. Seated(W, B, r, v5') /\ v2' \subseteq W /\ v5' \subseteq B
  BY <1>1, <1>2, <1>21, <1>22, <1>23, <1>25 DEF IsBuilt, Seated, Pressing
<1> QED
  BY <1>1, <1>26, SeatSet

LEMMA FocusWindowKeeps ==
  ASSUME NEW W, NEW B, NEW P, NEW C, Pointed(W, B, P, C), PtrInv(W, B),
         NEW w \in W, Ptr(W, B, P, C)!FocusWindow(w)
  PROVE  PtrInv(W, B)'
<1> DEFINE H == Ptr(W, B, P, C)!Here
           r == Ptr(W, B, P, C)!SetKeyboardFocus(H, w)
<1>1. Ptr(W, B, P, C)!Set(r) /\ v2' = v2 /\ v5' = v5
  BY DEF Ptr!FocusWindow
<1>2. Seated(W, B, H, v5) /\ v2 \subseteq W /\ v5 \subseteq B /\ w \in Spots(W)
  BY HereSeated, Members
<1> HIDE DEF H
<1>3. IsKf(W, B, r, H, w) /\ Seated(W, B, r, v5)
  BY <1>2, KfSeated
<1> HIDE DEF r
<1> QED
  BY <1>1, <1>2, <1>3, SeatSet

-----------------------------------------------------------------------------
(* The overview, the lock, and the seat that is taken away.                 *)

LEMMA OpenOverviewKeeps ==
  ASSUME NEW W, NEW B, NEW P, NEW C, Pointed(W, B, P, C), PtrInv(W, B), Ptr(W, B, P, C)!OpenOverview
  PROVE  PtrInv(W, B)'
<1> DEFINE H == Ptr(W, B, P, C)!Here
           nn == <<None, None>>
           tt == [z \in W \cup {ls} |-> IF z = v1.grab /\ ~v1.own THEN v4[z] \ v1.pressed ELSE v4[z]]
           q == [v1 EXCEPT !.consumed = @ \cup v1.pressed, !.pressed = {}, !.grab = None, !.last = nn]
           s == [H EXCEPT !.t = [z \in W \cup {ls} |-> IF z = v1.grab /\ ~v1.own
                                                       THEN @[z] \ v1.pressed ELSE @[z]],
                          !.p.consumed = @ \cup v1.pressed, !.p.pressed = {}, !.x = {},
                          !.p.grab = None, !.p.last = nn]
           d == Ptr(W, B, P, C)!EndDrag(s)
           m == Ptr(W, B, P, C)!EndMove(d)
           qm == [m.p EXCEPT !.overview = TRUE]
           r == [m EXCEPT !.p.overview = TRUE]
<1>0. /\ Seated(W, B, H, v5) /\ v2 \subseteq W /\ v5 \subseteq B /\ H \in Seats(W, B)
      /\ H.p = v1 /\ H.c = v3 /\ H.t = v4 /\ H.x = v6 /\ v1 \in PtrRecords(W, B)
  BY HereSeated DEF Ptr!Here, Seated
<1>1. Ptr(W, B, P, C)!Set(r) /\ v2' = v2 /\ v5' = v5
  BY DEF Ptr!OpenOverview, Ptr!Surfaces
<1>2. s \in [p : {q}, c : {v3}, t : {tt}, x : {{}}]
  BY DEF Ptr!Here
<1>3. nn \in Spots(W) \X Maybe(B) /\ nn[2] = None /\ None \in Spots(W)
  BY Members
<1> HIDE DEF H, nn
<1>4. /\ v3 \in Seq(ConRecords(W)) /\ v4 \in [W \cup {ls} -> SUBSET B]
      /\ v1.pressed \in SUBSET B /\ v1.consumed \in SUBSET B
  BY <1>0, SeatParts
<1>5. tt \in [W \cup {ls} -> SUBSET B]
  BY <1>4
<1>6. q \in PtrRecords(W, B)
  <2>1. v1.consumed \cup v1.pressed \in Some(B) /\ {} \in Some(B)
    BY <1>4, Members
  <2> QED
    BY <1>0, <1>3, <2>1 DEF PtrRecords
<1>7. /\ q.focus = v1.focus /\ q.grab = None /\ q.hidden = v1.hidden
      /\ q.pressed = {} /\ q.consumed = v1.consumed \cup v1.pressed /\ q.last = nn
  BY <1>0 DEF PtrRecords
<1> HIDE DEF q, s, tt
<1>8. IsBuilt(W, B, s, q, v3, tt, {})
  BY <1>2, <1>4, <1>5, <1>6, Built
<1>9. IsUndragged(W, B, d, s)
  BY <1>8, UndraggedIs DEF IsBuilt
<1> HIDE DEF d
<1>10. IsEnd(W, B, m, d)
  BY <1>9, EndIs DEF IsUndragged
<1> HIDE DEF m
<1>11. /\ m \in Seats(W, B) /\ m.p \in PtrRecords(W, B) /\ m.c \in Seq(ConRecords(W))
       /\ m.t \in [W \cup {ls} -> SUBSET B] /\ m.x \in SUBSET B
  BY <1>10, SeatParts DEF IsEnd
<1>12. r \in [p : {qm}, c : {m.c}, t : {m.t}, x : {m.x}]
  BY <1>11 DEF Seats
<1>13. qm \in PtrRecords(W, B)
  BY <1>11 DEF PtrRecords
<1>14. /\ qm.focus = m.p.focus /\ qm.grab = m.p.grab /\ qm.hidden = m.p.hidden /\ qm.move = m.p.move
       /\ qm.own = m.p.own /\ qm.pan = m.p.pan /\ qm.pressed = m.p.pressed
       /\ qm.consumed = m.p.consumed /\ qm.drag = m.p.drag /\ qm.last = m.p.last
  BY <1>11 DEF PtrRecords
<1> HIDE DEF qm, r
<1>15. IsBuilt(W, B, r, qm, m.c, m.t, m.x)
  BY <1>11, <1>12, <1>13, Built
<1>16. Constrained(r)
  <2>1. r.c = H.c /\ r.p.hidden = H.p.hidden /\ r.p.focus = H.p.focus /\ Constrained(H)
    BY <1>0, <1>7, <1>8, <1>9, <1>10, <1>14, <1>15 DEF IsBuilt, IsUndragged, IsEnd, Seated
  <2> QED
    BY <2>1, SameConstrained
<1>17. /\ r.p.pressed = {} /\ r.p.consumed = v1.consumed \cup v1.pressed /\ r.p.last[2] = None
       /\ r.p.grab = None /\ r.p.own = FALSE /\ r.p.pan = FALSE /\ r.p.move = None /\ r.p.drag = None
  BY <1>3, <1>7, <1>8, <1>9, <1>10, <1>14, <1>15 DEF IsBuilt, IsUndragged, IsEnd
<1>18. Gestures(r, v5')
  BY <1>0, <1>1, <1>17 DEF Seated, Pressing, Gestures
<1>19. Focussed(r)
  BY <1>17 DEF Focussed, Grabbed
<1>20. Seated(W, B, r, v5') /\ v2' \subseteq W /\ v5' \subseteq B
  BY <1>0, <1>1, <1>15, <1>16, <1>18, <1>19 DEF IsBuilt, Seated, Pressing
<1> QED
  BY <1>1, <1>20, SeatSet

LEMMA CloseOverviewKeeps ==
  ASSUME NEW W, NEW B, NEW P, NEW C, Pointed(W, B, P, C), PtrInv(W, B), Ptr(W, B, P, C)!CloseOverview
  PROVE  PtrInv(W, B)'
<1> DEFINE H == Ptr(W, B, P, C)!Here
           m == Ptr(W, B, P, C)!EndMove(H)
           q == [m.p EXCEPT !.overview = FALSE]
           r == [m EXCEPT !.p.overview = FALSE]
<1>0. Seated(W, B, H, v5) /\ v2 \subseteq W /\ v5 \subseteq B
  BY HereSeated
<1>1. Ptr(W, B, P, C)!Set(r) /\ v2' = v2 /\ v5' = v5
  BY DEF Ptr!CloseOverview
<1> HIDE DEF H
<1>2. Seated(W, B, m, v5)
  BY <1>0, EndSeated
<1> HIDE DEF m
<1>3. m \in Seats(W, B) /\ Constrained(m) /\ Pressing(m, v5)
  BY <1>2 DEF Seated
<1>4. /\ m.p \in PtrRecords(W, B) /\ m.c \in Seq(ConRecords(W))
      /\ m.t \in [W \cup {ls} -> SUBSET B] /\ m.x \in SUBSET B
  BY <1>3, SeatParts
<1>5. r \in [p : {q}, c : {m.c}, t : {m.t}, x : {m.x}]
  BY <1>3 DEF Seats
<1>6. q \in PtrRecords(W, B)
  BY <1>4 DEF PtrRecords
<1>7. /\ q.focus = m.p.focus /\ q.grab = m.p.grab /\ q.hidden = m.p.hidden /\ q.move = m.p.move
      /\ q.own = m.p.own /\ q.pan = m.p.pan /\ q.pressed = m.p.pressed /\ q.ownButton = m.p.ownButton
      /\ q.consumed = m.p.consumed /\ q.drag = m.p.drag /\ q.last = m.p.last /\ q.overview = FALSE /\ q.crossed = m.p.crossed
  BY <1>4 DEF PtrRecords
<1> HIDE DEF q, r
<1>8. IsBuilt(W, B, r, q, m.c, m.t, m.x)
  BY <1>4, <1>5, <1>6, Built
<1>9. Constrained(r)
  <2>1. r.c = m.c /\ r.p.hidden = m.p.hidden /\ r.p.focus = m.p.focus
    BY <1>7, <1>8 DEF IsBuilt
  <2> QED
    BY <1>3, <2>1, SameConstrained
<1>10. Gestures(r, v5)
  BY <1>3, <1>7, <1>8 DEF IsBuilt, Pressing, Gestures
<1>11. Focussed(r)
  BY <1>3, <1>7, <1>8 DEF IsBuilt, Pressing, Focussed, Grabbed
<1>12. Seated(W, B, r, v5') /\ v2' \subseteq W /\ v5' \subseteq B
  BY <1>0, <1>1, <1>8, <1>9, <1>10, <1>11 DEF IsBuilt, Seated, Pressing
<1> QED
  BY <1>1, <1>12, SeatSet

\* Both focuses are taken from a seat whose buttons are all cut off.
LEMMA Blanked ==
  ASSUME NEW W, NEW B, NEW P, NEW C, NEW m, m \in Seats(W, B), Constrained(m),
         Gestures(m, v5'), OwnOrCut(m), v2' \subseteq W, v5' \subseteq B,
         Ptr(W, B, P, C)!Set(Ptr(W, B, P, C)!SetKeyboardFocus(Ptr(W, B, P, C)!SetFocus(m, None), None))
  PROVE  PtrInv(W, B)'
<1> DEFINE f == Ptr(W, B, P, C)!SetFocus(m, None)
           r == Ptr(W, B, P, C)!SetKeyboardFocus(f, None)
<1>1. None \in Spots(W)
  BY Members
<1>2. IsFocus(W, B, f, m, None)
  BY <1>1, FocusIs
<1>3. Ptr(W, B, P, C)!Set(r)
  OBVIOUS
<1> HIDE DEF f
<1>4. Pressing(f, v5')
  BY <1>2, FocusPressing
<1>5. Seated(W, B, f, v5')
  BY <1>2, <1>4 DEF Seated, IsFocus
<1>6. IsKf(W, B, r, f, None) /\ Seated(W, B, r, v5')
  BY <1>1, <1>5, KfSeated
<1> HIDE DEF r
<1> QED
  BY <1>3, <1>6, SeatSet

LEMMA LockKeeps ==
  ASSUME NEW W, NEW B, NEW P, NEW C, Pointed(W, B, P, C), PtrInv(W, B), Ptr(W, B, P, C)!LockSession
  PROVE  PtrInv(W, B)'
<1> DEFINE H == Ptr(W, B, P, C)!Here
           e == Ptr(W, B, P, C)!EndMove(H)
           a == Ptr(W, B, P, C)!AllOff(e)
           q == [a.p EXCEPT !.overview = FALSE, !.locked = TRUE]
           x == a.x \cup v1.pressed
           m == [a EXCEPT !.p.overview = FALSE, !.p.locked = TRUE, !.x = @ \cup v1.pressed]
<1>0. /\ Seated(W, B, H, v5) /\ v2 \subseteq W /\ v5 \subseteq B /\ H \in Seats(W, B) /\ H.p = v1
  BY HereSeated DEF Ptr!Here, Seated
<1>1. /\ Ptr(W, B, P, C)!Set(Ptr(W, B, P, C)!SetKeyboardFocus(Ptr(W, B, P, C)!SetFocus(m, None), None))
      /\ v2' = v2 /\ v5' = v5
  BY DEF Ptr!LockSession
<1> HIDE DEF H
<1>2. IsEnd(W, B, e, H) /\ Seated(W, B, e, v5)
  BY <1>0, EndSeated
<1> HIDE DEF e
<1>3. IsUpdated(W, B, a, e)
  BY <1>2, AllOffIs DEF Seated
<1> HIDE DEF a
<1>4. a \in Seats(W, B) /\ Constrained(a) /\ SameBut(a, e) /\ Pressing(a, v5)
  BY <1>2, <1>3, SamePressing DEF Seated, IsUpdated
<1>5. /\ a.p \in PtrRecords(W, B) /\ a.c \in Seq(ConRecords(W))
      /\ a.t \in [W \cup {ls} -> SUBSET B] /\ a.x \in SUBSET B
  BY <1>4, SeatParts
<1>6. v1.pressed \in SUBSET B /\ a.p.pressed = v1.pressed
  BY <1>0, <1>2, <1>4, SeatParts DEF IsEnd, SameBut, SameSeat
<1>7. m \in [p : {q}, c : {a.c}, t : {a.t}, x : {x}]
  BY <1>4 DEF Seats
<1>8. x \in SUBSET B
  BY <1>5, <1>6
<1>9. q \in PtrRecords(W, B)
  BY <1>5 DEF PtrRecords
<1>10. /\ q.focus = a.p.focus /\ q.grab = a.p.grab /\ q.hidden = a.p.hidden /\ q.move = a.p.move
       /\ q.own = a.p.own /\ q.pan = a.p.pan /\ q.pressed = a.p.pressed /\ q.ownButton = a.p.ownButton
       /\ q.consumed = a.p.consumed /\ q.drag = a.p.drag /\ q.last = a.p.last /\ q.overview = FALSE /\ q.crossed = a.p.crossed
  BY <1>5 DEF PtrRecords
<1> HIDE DEF q, m
<1>11. IsBuilt(W, B, m, q, a.c, a.t, x)
  BY <1>5, <1>7, <1>8, <1>9, Built
<1>12. Constrained(m)
  <2>1. m.c = a.c /\ m.p.hidden = a.p.hidden /\ m.p.focus = a.p.focus
    BY <1>10, <1>11 DEF IsBuilt
  <2> QED
    BY <1>4, <2>1, SameConstrained
<1>13. Gestures(m, v5')
  BY <1>1, <1>4, <1>10, <1>11 DEF IsBuilt, Pressing, Gestures
<1>14. OwnOrCut(m)
  BY <1>6, <1>10, <1>11 DEF IsBuilt, OwnOrCut
<1>15. m \in Seats(W, B) /\ v2' \subseteq W /\ v5' \subseteq B
  BY <1>0, <1>1, <1>11 DEF IsBuilt
<1> QED
  BY <1>1, <1>12, <1>13, <1>14, <1>15, Blanked

LEMMA ResetKeeps ==
  ASSUME NEW W, NEW B, NEW P, NEW C, Pointed(W, B, P, C), PtrInv(W, B), Ptr(W, B, P, C)!Reset
  PROVE  PtrInv(W, B)'
<1> DEFINE H == Ptr(W, B, P, C)!Here
           d == Ptr(W, B, P, C)!EndDrag(H)
           e == Ptr(W, B, P, C)!EndMove(d)
           nn == <<None, None>>
           q == [e.p EXCEPT !.consumed = {}, !.pressed = {}, !.grab = None, !.last = nn]
           m == [e EXCEPT !.p.consumed = {}, !.p.pressed = {}, !.p.grab = None, !.p.last = nn, !.x = {}]
<1>0. /\ Seated(W, B, H, v5) /\ v2 \subseteq W /\ v5 \subseteq B /\ H \in Seats(W, B) /\ H.p = v1
  BY HereSeated DEF Ptr!Here, Seated
<1>1. /\ Ptr(W, B, P, C)!Set(Ptr(W, B, P, C)!SetKeyboardFocus(Ptr(W, B, P, C)!SetFocus(m, None), None))
      /\ v2' = v2 /\ v5' = {}
  BY DEF Ptr!Reset
<1>2. nn \in Spots(W) \X Maybe(B) /\ nn[2] = None /\ None \in Spots(W)
  BY Members
<1> HIDE DEF H, nn
<1>3. IsUndragged(W, B, d, H)
  BY <1>0, UndraggedIs
<1> HIDE DEF d
<1>4. IsEnd(W, B, e, d)
  BY <1>3, EndIs DEF IsUndragged
<1> HIDE DEF e
<1>5. /\ e \in Seats(W, B) /\ e.p \in PtrRecords(W, B) /\ e.c \in Seq(ConRecords(W))
      /\ e.t \in [W \cup {ls} -> SUBSET B]
  BY <1>4, SeatParts DEF IsEnd
<1>6. m \in [p : {q}, c : {e.c}, t : {e.t}, x : {{}}]
  BY <1>5 DEF Seats
<1>7. q \in PtrRecords(W, B)
  <2>1. {} \in Some(B)
    BY Members
  <2> QED
    BY <1>2, <1>5, <2>1 DEF PtrRecords
<1>8. /\ q.focus = e.p.focus /\ q.grab = None /\ q.hidden = e.p.hidden /\ q.move = e.p.move
      /\ q.own = e.p.own /\ q.pan = e.p.pan /\ q.pressed = {}
      /\ q.consumed = {} /\ q.drag = e.p.drag /\ q.last = nn
  BY <1>5 DEF PtrRecords
<1> HIDE DEF q, m
<1>9. IsBuilt(W, B, m, q, e.c, e.t, {})
  BY <1>5, <1>6, <1>7, Built
<1>10. Constrained(m)
  <2>1. m.c = H.c /\ m.p.hidden = H.p.hidden /\ m.p.focus = H.p.focus /\ Constrained(H)
    BY <1>0, <1>3, <1>4, <1>8, <1>9 DEF IsBuilt, IsUndragged, IsEnd, Seated
  <2> QED
    BY <2>1, SameConstrained
<1>11. /\ m.p.pressed = {} /\ m.p.consumed = {} /\ m.p.last[2] = None /\ m.p.grab = None
       /\ m.p.own = FALSE /\ m.p.pan = FALSE /\ m.p.move = None /\ m.p.drag = None
  BY <1>2, <1>3, <1>4, <1>8, <1>9 DEF IsBuilt, IsUndragged, IsEnd
<1>12. Gestures(m, v5') /\ OwnOrCut(m)
  BY <1>11 DEF Gestures, OwnOrCut
<1>13. m \in Seats(W, B) /\ v2' \subseteq W /\ v5' \subseteq B
  BY <1>0, <1>1, <1>9 DEF IsBuilt
<1> QED
  BY <1>1, <1>10, <1>12, <1>13, Blanked

LEMMA UnlockKeeps ==
  ASSUME NEW W, NEW B, NEW P, NEW C, Pointed(W, B, P, C), PtrInv(W, B), Ptr(W, B, P, C)!UnlockSession
  PROVE  PtrInv(W, B)'
<1> DEFINE H == Ptr(W, B, P, C)!Here
           m == Ptr(W, B, P, C)!Forgotten(H, ls)
           k == IF m.p.kf = ls THEN None ELSE m.p.kf
           l == IF m.p.last[1] = ls THEN <<None, None>> ELSE m.p.last
           tt == [m.t EXCEPT ![ls] = {}]
           q == [m.p EXCEPT !.locked = FALSE, !.kf = k, !.last = l]
           r == [m EXCEPT !.p.locked = FALSE, !.t[ls] = {},
                          !.p.kf = IF @ = ls THEN None ELSE @,
                          !.p.last = IF @[1] = ls THEN <<None, None>> ELSE @]
<1>0. /\ Seated(W, B, H, v5) /\ v2 \subseteq W /\ v5 \subseteq B /\ H.p = v1 /\ v1 \in PtrRecords(W, B)
  BY HereSeated DEF Ptr!Here
<1>1. Ptr(W, B, P, C)!Set(r) /\ v2' = v2 /\ v5' = v5 /\ ls # None
  BY DEF Ptr!UnlockSession, Pointed
<1>2. NotOn(H, ls)
  <2> HIDE DEF H
  <2>1. ASSUME NEW i \in DOMAIN H.c PROVE H.c[i].on \in Maybe(W)
    BY <1>0, ConsAre DEF ConRecords
  <2> QED
    BY <1>1, <2>1 DEF Maybe, Pointed, NotOn
<1> HIDE DEF H
<1>3. IsForgotten(W, B, m, H, ls) /\ Seated(W, B, m, v5)
  BY <1>0, <1>1, <1>2, ForgottenSeated
<1> HIDE DEF m
<1>4. /\ m \in Seats(W, B) /\ Constrained(m) /\ Gestures(m, v5) /\ Focussed(m) /\ m.p.grab # ls
  BY <1>1, <1>3 DEF IsForgotten, Seated, Pressing
<1>5. /\ m.p \in PtrRecords(W, B) /\ m.c \in Seq(ConRecords(W))
      /\ m.t \in [W \cup {ls} -> SUBSET B] /\ m.x \in SUBSET B
  BY <1>4, SeatParts
<1>6. /\ tt \in [W \cup {ls} -> SUBSET B] /\ \A j \in W \cup {ls} : j # ls => tt[j] = m.t[j]
  BY <1>5
<1>7. /\ l \in Spots(W) \X Maybe(B) /\ k \in Spots(W) /\ (l[2] # None => m.p.last[2] # None)
  <2>1. None \in Spots(W) /\ None \in Maybe(B)
    BY Members
  <2>2. m.p.last \in Spots(W) \X Maybe(B) /\ m.p.kf \in Spots(W)
    BY <1>5 DEF PtrRecords
  <2> QED
    BY <2>1, <2>2
<1>8. r \in [p : {q}, c : {m.c}, t : {tt}, x : {m.x}]
  BY <1>4, <1>5 DEF Seats, PtrRecords
<1> HIDE DEF tt, l, k, r
<1>9. q \in PtrRecords(W, B)
  BY <1>5, <1>7 DEF PtrRecords
<1>10. /\ q.focus = m.p.focus /\ q.grab = m.p.grab /\ q.hidden = m.p.hidden /\ q.move = m.p.move
       /\ q.own = m.p.own /\ q.pan = m.p.pan /\ q.ownButton = m.p.ownButton
       /\ q.pressed = m.p.pressed /\ q.consumed = m.p.consumed
       /\ q.drag = m.p.drag /\ q.last = l /\ q.overview = m.p.overview /\ q.crossed = m.p.crossed
  BY <1>5 DEF PtrRecords
<1> HIDE DEF q
<1>11. IsBuilt(W, B, r, q, m.c, tt, m.x)
  BY <1>5, <1>6, <1>8, <1>9, Built
<1>12. Constrained(r)
  <2>1. r.c = m.c /\ r.p.hidden = m.p.hidden /\ r.p.focus = m.p.focus
    BY <1>10, <1>11 DEF IsBuilt
  <2> QED
    BY <1>4, <2>1, SameConstrained
<1>13. Gestures(r, v5)
  BY <1>4, <1>7, <1>10, <1>11 DEF IsBuilt, Gestures
<1>14. m.p.grab # None => tt[m.p.grab] = m.t[m.p.grab]
  <2>1. m.p.grab \in Spots(W)
    BY <1>5 DEF PtrRecords
  <2> QED
    BY <1>4, <1>6, <2>1, Members
<1>15. Focussed(r)
  BY <1>4, <1>10, <1>11, <1>14 DEF IsBuilt, Focussed, Grabbed
<1>16. Seated(W, B, r, v5') /\ v2' \subseteq W /\ v5' \subseteq B
  BY <1>0, <1>1, <1>11, <1>12, <1>13, <1>15 DEF IsBuilt, Seated, Pressing
<1> QED
  BY <1>1, <1>16, SeatSet

-----------------------------------------------------------------------------
(* The pointer as a whole.                                                  *)

LEMMA PtrInit ==
  ASSUME NEW W, NEW B, NEW P, NEW C, Ptr(W, B, P, C)!Init
  PROVE  PtrInv(W, B)
<1> DEFINE nn == <<None, None>>
           st == [p |-> v1, c |-> v3, t |-> v4, x |-> v6]
<1>1. /\ v1 = [focus |-> None, hit |-> None, grab |-> None, kf |-> None, move |-> None,
               own |-> FALSE, pan |-> FALSE, ownButton |-> None, pressed |-> {}, consumed |-> {},
               hidden |-> FALSE, drag |-> None, dragButton |-> None, last |-> nn,
               overview |-> FALSE, locked |-> FALSE, crossed |-> FALSE]
      /\ v2 = {} /\ v3 = <<>> /\ v5 = {} /\ v6 = {} /\ v4 = [s \in W \cup {ls} |-> {}]
  BY DEF Ptr!Init, Ptr!Surfaces
<1>2. nn \in Spots(W) \X Maybe(B) /\ nn[2] = None /\ None \in Spots(W) /\ None \in Maybe(W)
      /\ None \in Maybe(B) /\ {} \in Some(B)
  BY Members
<1> HIDE DEF nn
<1>3. v1 \in PtrRecords(W, B)
  BY <1>1, <1>2 DEF PtrRecords
<1>4. v3 \in Seq(ConRecords(W)) /\ DOMAIN v3 = {} /\ v4 \in [W \cup {ls} -> SUBSET B] /\ v6 \in SUBSET B
  BY <1>1
<1>5. st \in [p : {v1}, c : {v3}, t : {v4}, x : {v6}]
  OBVIOUS
<1> HIDE DEF st
<1>6. IsBuilt(W, B, st, v1, v3, v4, v6)
  BY <1>3, <1>4, <1>5, Built
<1>7. /\ v1.focus = None /\ v1.grab = None /\ v1.move = None /\ v1.own = FALSE /\ v1.pan = FALSE
      /\ v1.pressed = {} /\ v1.consumed = {} /\ v1.hidden = FALSE /\ v1.drag = None /\ v1.last = nn
      /\ v1.overview = FALSE /\ v1.crossed = FALSE
  BY <1>1
<1>8. Constrained(st)
  BY <1>4, <1>6, <1>7 DEF IsBuilt, Constrained, OneEach, HiddenByLock
<1>9. Pressing(st, v5)
  BY <1>2, <1>6, <1>7 DEF IsBuilt, Pressing, Gestures, Focussed, Grabbed
<1>10. Seated(W, B, st, v5)
  BY <1>6, <1>8, <1>9 DEF IsBuilt, Seated
<1> QED
  BY <1>1, <1>10 DEF PtrInv, st

LEMMA PtrStutter ==
  ASSUME NEW W, NEW B, PtrInv(W, B), UNCHANGED <<v1, v2, v3, v4, v5, v6>>
  PROVE  PtrInv(W, B)'
BY DEF PtrInv

LEMMA PtrStep ==
  ASSUME NEW W, NEW B, NEW P, NEW C, Pointed(W, B, P, C), PtrInv(W, B), Ptr(W, B, P, C)!Next
  PROVE  PtrInv(W, B)'
<1>1. \/ \E h \in W \cup {ls} \cup {None}, room \in BOOLEAN : Ptr(W, B, P, C)!Motion(h, room)
      \/ \E b \in B, how \in Ptr(W, B, P, C)!Ways : Ptr(W, B, P, C)!Press(b, how)
      \/ \E b \in B : Ptr(W, B, P, C)!Release(b)
      \/ \E w \in W : \/ Ptr(W, B, P, C)!BeginMove(w) \/ Ptr(W, B, P, C)!StartDrag(w)
                      \/ Ptr(W, B, P, C)!Map(w) \/ Ptr(W, B, P, C)!FocusWindow(w)
      \/ \E w \in W, next \in W \cup {None} :
           Ptr(W, B, P, C)!Unmap(w, next) \/ Ptr(W, B, P, C)!Destroy(w, next)
      \/ \E w \in W, locks, oneshot \in BOOLEAN : Ptr(W, B, P, C)!Constrain(w, locks, oneshot)
      \/ \E i \in DOMAIN v3 : Ptr(W, B, P, C)!Unconstrain(i) \/ Ptr(W, B, P, C)!ReleasePointer(i)
      \/ Ptr(W, B, P, C)!CancelDrag
      \/ Ptr(W, B, P, C)!OpenOverview
      \/ Ptr(W, B, P, C)!CloseOverview
      \/ Ptr(W, B, P, C)!LockSession
      \/ Ptr(W, B, P, C)!UnlockSession
      \/ Ptr(W, B, P, C)!Reset
  BY DEF Ptr!Next, Ptr!Surfaces
<1>2. CASE \E h \in W \cup {ls} \cup {None}, room \in BOOLEAN : Ptr(W, B, P, C)!Motion(h, room)
  BY <1>2, MotionKeeps, Members DEF Spots
<1>3. CASE \E b \in B, how \in Ptr(W, B, P, C)!Ways : Ptr(W, B, P, C)!Press(b, how)
  BY <1>3, PressKeepsPointer
<1>4. CASE \E b \in B : Ptr(W, B, P, C)!Release(b)
  BY <1>4, ReleaseKeepsPointer
<1>5. CASE \E w \in W : \/ Ptr(W, B, P, C)!BeginMove(w) \/ Ptr(W, B, P, C)!StartDrag(w)
                        \/ Ptr(W, B, P, C)!Map(w) \/ Ptr(W, B, P, C)!FocusWindow(w)
  BY <1>5, BeginMoveKeeps, StartDragKeeps, MapKeeps, FocusWindowKeeps
<1>6. CASE \E w \in W, next \in W \cup {None} :
             Ptr(W, B, P, C)!Unmap(w, next) \/ Ptr(W, B, P, C)!Destroy(w, next)
  BY <1>6, UnmapKeeps, DestroyKeeps
<1>7. CASE \E w \in W, locks, oneshot \in BOOLEAN : Ptr(W, B, P, C)!Constrain(w, locks, oneshot)
  BY <1>7, ConstrainKeeps
<1>8. CASE \E i \in DOMAIN v3 : Ptr(W, B, P, C)!Unconstrain(i) \/ Ptr(W, B, P, C)!ReleasePointer(i)
  BY <1>8, UnconstrainKeeps, ReleasePointerKeeps
<1>9. CASE Ptr(W, B, P, C)!CancelDrag
  BY <1>9, CancelDragKeeps
<1>10. CASE Ptr(W, B, P, C)!OpenOverview
  BY <1>10, OpenOverviewKeeps
<1>11. CASE Ptr(W, B, P, C)!CloseOverview
  BY <1>11, CloseOverviewKeeps
<1>12. CASE Ptr(W, B, P, C)!LockSession
  BY <1>12, LockKeeps
<1>13. CASE Ptr(W, B, P, C)!UnlockSession
  BY <1>13, UnlockKeeps
<1>14. CASE Ptr(W, B, P, C)!Reset
  BY <1>14, ResetKeeps
<1> QED
  BY <1>1, <1>2, <1>3, <1>4, <1>5, <1>6, <1>7, <1>8, <1>9, <1>10, <1>11, <1>12, <1>13, <1>14

\* What the inductive invariant says of the pointer.
LEMMA PtrSafe ==
  ASSUME NEW W, NEW B, NEW P, NEW C, PtrInv(W, B)
  PROVE  PointerSound(W, B, P, C) /\ Ptr(W, B, P, C)!TypeOK
<1> DEFINE H == Ptr(W, B, P, C)!Here
           A == Ptr(W, B, P, C)!Active(H)
<1>0. /\ Seated(W, B, H, v5) /\ v2 \subseteq W /\ v5 \subseteq B /\ H \in Seats(W, B)
      /\ H.p = v1 /\ H.c = v3 /\ H.t = v4 /\ H.x = v6 /\ v1 \in PtrRecords(W, B)
      /\ Gestures(H, v5) /\ Focussed(H) /\ Constrained(H)
  BY HereSeated DEF Ptr!Here, Seated, Pressing
<1>1. A = {i \in DOMAIN v3 : v3[i].active}
  BY DEF Ptr!Active, Ptr!Here
<1> HIDE DEF H
<1>2. Ptr(W, B, P, C)!ButtonsHeld
  BY <1>0 DEF Ptr!ButtonsHeld, Gestures
<1>3. Ptr(W, B, P, C)!GestureHeld
  BY <1>0 DEF Ptr!GestureHeld, Gestures
<1>4. Ptr(W, B, P, C)!GrabKept
  BY <1>0 DEF Ptr!GrabKept, Focussed, Grabbed
<1>5. Ptr(W, B, P, C)!DragAlone
  BY <1>0 DEF Ptr!DragAlone, Focussed
<1>6. Ptr(W, B, P, C)!ConstraintSound
  <2>1. \A i, j \in A : i = j
    BY <1>0, <1>1 DEF Constrained
  <2>2. \A i \in A : v1.focus = v3[i].on
    BY <1>0, <1>1 DEF Constrained
  <2>3. v1.hidden => \E i \in A : v3[i].locks
    BY <1>0, <1>1 DEF Constrained, HiddenByLock
  <2> QED
    BY <2>1, <2>2, <2>3 DEF Ptr!ConstraintSound, H
<1>7. Ptr(W, B, P, C)!TypeOK
  <2>1. {v1.focus, v1.hit, v1.grab, v1.kf, v1.move, v1.drag} \subseteq Spots(W)
    BY <1>0, Members DEF PtrRecords
  <2>2. /\ v1.pressed \in SUBSET B /\ v1.consumed \in SUBSET B
        /\ v4 \in [W \cup {ls} -> SUBSET B] /\ v6 \in SUBSET B
    BY <1>0, SeatParts
  <2> QED
    BY <1>0, <2>1, <2>2 DEF Ptr!TypeOK, Ptr!Surfaces, Spots
<1> QED
  BY <1>2, <1>3, <1>4, <1>5, <1>6, <1>7 DEF PointerSound

-----------------------------------------------------------------------------
(* The parts together.                                                      *)

InputInv ==
  /\ part = "pointer" => PtrInv(Windows, OneButton)
  /\ part = "buttons" => PtrInv(OneWindow, Buttons)
  /\ part = "keyboards" => KeyInv
  /\ part = "touch" => TouchInv

LEMMA BothPointed ==
  ASSUME InputAssumption
  PROVE  /\ Pointed(Windows, OneButton, {}, Constrainable)
         /\ Pointed(OneWindow, Buttons, PanButtons, {})
BY DEF InputAssumption, Pointed

LEMMA InputStarts == ASSUME InputAssumption, InputInit PROVE InputInv
<1>1. CASE part = "pointer" /\ Ptr(Windows, OneButton, {}, Constrainable)!Init
  BY <1>1, PtrInit DEF InputInv
<1>2. CASE part = "buttons" /\ Ptr(OneWindow, Buttons, PanButtons, {})!Init
  BY <1>2, PtrInit DEF InputInv
<1>3. CASE part = "keyboards" /\ Key!Init
  BY <1>3, KeyInit DEF InputInv
<1>4. CASE part = "touch" /\ Tou!Init
  BY <1>4, TouchInit DEF InputInv
<1> QED
  BY <1>1, <1>2, <1>3, <1>4 DEF InputInit

LEMMA InputMoves ==
  ASSUME InputAssumption, InputInv, InputNext \/ UNCHANGED allVars
  PROVE  InputInv'
<1>1. CASE part = "pointer" /\ Ptr(Windows, OneButton, {}, Constrainable)!Next /\ part' = part
  <2>1. PtrInv(Windows, OneButton)'
    BY <1>1, BothPointed, PtrStep DEF InputInv
  <2> QED
    BY <1>1, <2>1 DEF InputInv
<1>2. CASE part = "buttons" /\ Ptr(OneWindow, Buttons, PanButtons, {})!Next /\ part' = part
  <2>1. PtrInv(OneWindow, Buttons)'
    BY <1>2, BothPointed, PtrStep DEF InputInv
  <2> QED
    BY <1>2, <2>1 DEF InputInv
<1>3. CASE part = "keyboards" /\ Key!Next /\ part' = part
  <2>1. KeyInv'
    BY <1>3, KeyStep DEF InputInv
  <2> QED
    BY <1>3, <2>1 DEF InputInv
<1>4. CASE part = "touch" /\ Tou!Next /\ part' = part
  <2>1. TouchInv'
    BY <1>4, TouchStep DEF InputInv
  <2> QED
    BY <1>4, <2>1 DEF InputInv
<1>5. CASE UNCHANGED allVars
  <2>1. /\ part' = part /\ UNCHANGED <<v1, v2, v3, v4, v5, v6>> /\ UNCHANGED <<v1, v2, v3, v4, v5, v6, v7>>
    BY <1>5 DEF allVars
  <2>2. PtrInv(Windows, OneButton) => PtrInv(Windows, OneButton)'
    BY <2>1, PtrStutter
  <2>3. PtrInv(OneWindow, Buttons) => PtrInv(OneWindow, Buttons)'
    BY <2>1, PtrStutter
  <2>4. KeyInv => KeyInv'
    BY <2>1, KeyStutter
  <2>5. TouchInv => TouchInv'
    BY <2>1, TouchStutter
  <2> QED
    BY <2>1, <2>2, <2>3, <2>4, <2>5 DEF InputInv
<1> QED
  BY <1>1, <1>2, <1>3, <1>4, <1>5 DEF InputNext

LEMMA InputSafe == ASSUME InputAssumption, InputInv PROVE InputTypes /\ InputSound
<1>1. part = "pointer" =>
        /\ Ptr(Windows, OneButton, {}, Constrainable)!TypeOK
        /\ PointerSound(Windows, OneButton, {}, Constrainable)
  BY PtrSafe, BothPointed DEF InputInv
<1>2. part = "buttons" =>
        /\ Ptr(OneWindow, Buttons, PanButtons, {})!TypeOK
        /\ PointerSound(OneWindow, Buttons, PanButtons, {})
  BY PtrSafe, BothPointed DEF InputInv
<1>3. part = "keyboards" =>
        /\ Key!TypeOK /\ Key!KeysBalanced /\ Key!ClientsKeys /\ Key!TakenKeys
        /\ Key!OverviewEnds /\ Key!IdleHonest
  BY KeySafe DEF InputInv
<1>4. part = "touch" =>
        Tou!TypeOK /\ Tou!ContactsKnown /\ Tou!FramesOwed /\ Tou!TouchedVisible
  BY TouchSafe DEF InputInv
<1>5. InputTypes
  BY <1>1, <1>2, <1>3, <1>4 DEF InputTypes
<1>6. InputSound
  BY <1>1, <1>2, <1>3, <1>4 DEF InputSound
<1> QED
  BY <1>5, <1>6

\* Each part of the input keeps its inductive invariant: for the pointer (a window set
\* with one button, and one window set with several), that a pressed button is the
\* compositor's own gesture, was cut off, or is down in the client that has the grab and
\* the focus; that a move has a button that is down, unless a drag was begun during it;
\* and that the active constraint is that of the surface with the pointer, also when a
\* surface is unmapped; for the keyboards and the touches, that what the clients were
\* told is what the seat still remembers.
THEOREM InputInvariance == InputSpec => []InputInv
<1>1. InputInit => InputInv
  BY InputAssumption, InputStarts
<1>2. InputInv /\ [InputNext]_allVars => InputInv'
  BY InputAssumption, InputMoves
<1> QED
  BY <1>1, <1>2, PTL DEF InputSpec

\* No key or contact stays down in a client when a surface, a device, a grab or the scene
\* goes away; a button that a client saw pressed is released there, unless the grab was
\* taken from it in between; a gesture ends with its button, but for the move during which
\* a drag was begun; and one pointer constraint is active at most, on the surface with the
\* pointer: for any number of windows, buttons, keys, clients, keyboards, touch objects
\* and fingers.
THEOREM InputIsSound == InputSpec => []InputSound
<1>1. InputInv => InputSound
  BY InputAssumption, InputSafe
<1> QED
  BY <1>1, InputInvariance, PTL

\* What the pointer is on, holds and drags are surfaces there are, what is pressed are
\* buttons and keys, keyboards belong to clients, and a contact goes to living objects.
THEOREM InputTyped == InputSpec => []InputTypes
<1>1. InputInv => InputTypes
  BY InputAssumption, InputSafe
<1> QED
  BY <1>1, InputInvariance, PTL
=============================================================================
