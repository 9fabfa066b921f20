--------------------- MODULE RuntimeConfiguration_proof ---------------------
(***************************************************************************)
(* Proofs about RuntimeConfiguration for any number of transactions, GPUs, *)
(* settings and addresses, and any modulus of the revision.  The inductive *)
(* invariant says that a transaction whose base is the configuration in    *)
(* force is one nobody was faster than: the base object is held, so its    *)
(* address is not given to a newer configuration.                          *)
(***************************************************************************)
EXTENDS RuntimeConfiguration, TLAPS

DeviceType == [outputs : BOOLEAN, renderer : BOOLEAN,
               program : Shaders \cup {None}, pending : Shaders \cup {None}]
TransactionType ==
  [open : BOOLEAN, base : Address, draft : AnyDraft \cup {None},
   revision : Revisions \cup {None}, error : BOOLEAN, finished : BOOLEAN,
   result : {"none", "applied", "failed"}, fresh : BOOLEAN]

ForceTyped ==
  /\ current \in [id : Objects, keyboard : Keyboards, shader : Shaders]
  /\ overriding \in BOOLEAN /\ popup \in BOOLEAN /\ revision \in Revisions
FileTyped ==
  /\ file \in Files \cup {None} /\ dir \in BOOLEAN /\ watchDir \in BOOLEAN
  /\ events \subseteq {"dir", "file"} /\ pendingReload \in BOOLEAN /\ unseen \in BOOLEAN
DevTyped == dev \in [Devices -> DeviceType]
TxTyped == tx \in [Transactions -> TransactionType]

LEMMA TypeParts == TypeOK <=> ForceTyped /\ FileTyped /\ DevTyped /\ TxTyped
  BY DEF TypeOK, ForceTyped, FileTyped, DevTyped, TxTyped, DeviceType, TransactionType

\* The base of an open transaction is the configuration in force only if no
\* other configuration was installed since.
Pinned == \A t \in Transactions :
  tx[t].open /\ tx[t].base = current.id => tx[t].fresh

\* An open transaction has a draft.
Drafted == \A t \in Transactions : tx[t].open => tx[t].draft \in AnyDraft

IInv == TypeOK /\ NothingPending /\ Pinned /\ Drafted

----------------------------------------------------------------------------
(* The helpers. *)

LEMMA DiscardTyped ==
  ASSUME NEW dv \in [Devices -> DeviceType], NEW D \in SUBSET Devices
  PROVE  Discard(dv, D) \in [Devices -> DeviceType]
<1>1. ASSUME NEW d \in Devices PROVE [dv[d] EXCEPT !.pending = None] \in DeviceType
  BY DEF DeviceType
<1> QED BY <1>1 DEF Discard

LEMMA PendingTyped ==
  ASSUME NEW dv \in [Devices -> DeviceType], NEW D \in SUBSET Devices, NEW s \in Shaders
  PROVE  Pending(dv, D, s) \in [Devices -> DeviceType]
<1>1. ASSUME NEW d \in Devices PROVE [dv[d] EXCEPT !.pending = s] \in DeviceType
  BY DEF DeviceType
<1> QED BY <1>1 DEF Pending

LEMMA SwitchedTyped ==
  ASSUME NEW dv \in [Devices -> DeviceType]
  PROVE  Switched(dv) \in [Devices -> DeviceType]
<1>1. ASSUME NEW d \in Devices
      PROVE [dv[d] EXCEPT !.program = dv[d].pending, !.pending = None] \in DeviceType
  BY DEF DeviceType
<1> QED BY <1>1 DEF Switched

LEMMA ActiveDevices == Active \subseteq Devices
  BY DEF Active

\* Giving up what was prepared restores the GPUs.
LEMMA DiscardRestores ==
  ASSUME DevTyped, NothingPending, NEW D \in SUBSET Devices, NEW s
  PROVE  Discard(Pending(dev, D, s), D) = dev
<1> DEFINE p == Pending(dev, D, s)
<1>1. ASSUME NEW d \in Devices PROVE Discard(p, D)[d] = dev[d]
  <2>1. CASE d \in D
    <3>1. p[d] = [dev[d] EXCEPT !.pending = s]
      BY <2>1 DEF Pending
    <3>2. Discard(p, D)[d] = [p[d] EXCEPT !.pending = None]
      BY <2>1 DEF Discard
    <3>3. dev[d] \in DeviceType /\ dev[d].pending = None
      BY DEF DevTyped, NothingPending
    <3> QED BY <3>1, <3>2, <3>3 DEF DeviceType
  <2>2. CASE d \notin D
    BY <2>2 DEF Discard, Pending
  <2> QED BY <2>1, <2>2
<1>2. Discard(p, D) = [d \in Devices |-> Discard(p, D)[d]]
  BY DEF Discard
<1>3. dev = [d \in Devices |-> dev[d]]
  BY DEF DevTyped
<1> HIDE DEF p
<1>4. [d \in Devices |-> Discard(p, D)[d]] = [d \in Devices |-> dev[d]]
  BY <1>1
<1> QED BY <1>2, <1>3, <1>4 DEF p

\* What preparing the programs may lead to: a failure leaves the GPUs alone,
\* a success has prepared all that are active.
LEMMA PreparationsDo ==
  ASSUME DevTyped, NothingPending, NEW s \in Shaders, NEW p \in Preparations(s)
  PROVE  /\ ~p.ok => p.dev = dev
         /\ p.ok => p.dev = Pending(dev, Active, s)
         /\ p.ok \in BOOLEAN
         /\ p.dev \in [Devices -> DeviceType]
<1>1. CASE \E D \in SUBSET Active \ {Active} :
             p = [ok |-> FALSE, dev |-> Discard(Pending(dev, D, s), D)]
  <2>1. PICK D \in SUBSET Devices : p = [ok |-> FALSE, dev |-> Discard(Pending(dev, D, s), D)]
    BY <1>1, ActiveDevices
  <2>2. Discard(Pending(dev, D, s), D) = dev
    BY DiscardRestores
  <2> QED BY <2>1, <2>2 DEF DevTyped
<1>2. CASE p = [ok |-> Active # {}, dev |-> Pending(dev, Active, s)]
  <2>1. Active = {} => Pending(dev, Active, s) = dev
    BY DEF Pending, DevTyped
  <2>2. Pending(dev, Active, s) \in [Devices -> DeviceType]
    BY ActiveDevices, PendingTyped DEF DevTyped
  <2> QED BY <1>2, <2>1, <2>2
<1> QED BY <1>1, <1>2 DEF Preparations

\* After a switch nothing is left prepared.
LEMMA SwitchedClean ==
  ASSUME DevTyped, NothingPending, NEW s \in Shaders, NEW d \in Devices
  PROVE  Switched(Pending(dev, Active, s))[d].pending = None
<1> DEFINE q == Pending(dev, Active, s)
<1>1. q \in [Devices -> DeviceType]
  BY ActiveDevices, PendingTyped DEF DevTyped
<1>2. CASE d \in Active
  <2>1. q[d] \in DeviceType /\ Switched(q)[d] \in {[q[d] EXCEPT !.program = q[d].pending, !.pending = None], q[d]}
    BY <1>1 DEF Switched
  <2>2. q[d].pending = None => Switched(q)[d] = q[d]
    BY <1>1 DEF Switched
  <2>3. q[d].pending # None => Switched(q)[d] = [q[d] EXCEPT !.program = q[d].pending, !.pending = None]
    BY <1>1, <1>2 DEF Switched
  <2>4. Switched(q)[d].pending = None
    BY <2>1, <2>2, <2>3 DEF DeviceType
  <2> QED BY <2>4
<1>3. CASE d \notin Active
  BY <1>3 DEF Switched, Pending, NothingPending
<1> QED BY <1>2, <1>3

\* A refusal closes a transaction and nothing else.
EndedTyping(t, r) ==
  /\ Ended(t, r) \in [Transactions -> TransactionType]
  /\ \A u \in Transactions :
       /\ Ended(t, r)[u].base = tx[u].base /\ Ended(t, r)[u].open = tx[u].open
       /\ Ended(t, r)[u].fresh = tx[u].fresh /\ Ended(t, r)[u].draft = tx[u].draft
  /\ \A u \in Transactions : u # t => Ended(t, r)[u] = tx[u]
  /\ Ended(t, r)[t].result = r /\ Ended(t, r)[t].finished = TRUE

LEMMA EndedTyped ==
  ASSUME TxTyped, NEW t \in Transactions, NEW r \in {"applied", "failed"}
  PROVE  EndedTyping(t, r)
<1> DEFINE new == [tx[t] EXCEPT !.finished = TRUE, !.error = (r = "failed"), !.result = r]
<1>1. Ended(t, r) = [tx EXCEPT ![t] = new]
  BY DEF Ended, TxTyped
<1>2. tx[t] \in TransactionType
  BY DEF TxTyped
<1>3. new \in TransactionType /\ new.base = tx[t].base /\ new.open = tx[t].open
        /\ new.fresh = tx[t].fresh /\ new.draft = tx[t].draft /\ new.result = r /\ new.finished = TRUE
  BY <1>2 DEF TransactionType
<1> HIDE DEF new
<1> QED BY <1>1, <1>3 DEF TxTyped, EndedTyping

LEMMA AppliedTyped ==
  ASSUME IInv, NEW t \in Transactions
  PROVE  /\ Ended(t, "applied") \in [Transactions -> TransactionType]
         /\ \A u \in Transactions :
              /\ Ended(t, "applied")[u].base = tx[u].base /\ Ended(t, "applied")[u].open = tx[u].open
              /\ Ended(t, "applied")[u].draft = tx[u].draft
         /\ \A u \in Transactions : u # t => Ended(t, "applied")[u] = tx[u]
         /\ Ended(t, "applied")[t].result = "applied"
<1>1. TxTyped
  BY TypeParts DEF IInv
<1>2. EndedTyping(t, "applied")
  BY <1>1, EndedTyped
<1> QED BY <1>2 DEF EndedTyping

LEMMA RefusedTyped ==
  ASSUME IInv, NEW t \in Transactions
  PROVE  /\ \A u \in Transactions : u # t => Ended(t, "failed")[u] = tx[u]
         /\ Ended(t, "failed")[t].result = "failed"
<1>1. TxTyped
  BY TypeParts DEF IInv
<1>2. EndedTyping(t, "failed")
  BY <1>1, EndedTyped
<1> QED BY <1>2 DEF EndedTyping

\* Installing a configuration: its address is nobody's base.
LEMMA Installed ==
  ASSUME TypeOK, NEW c \in [keyboard : Keyboards, shader : Shaders],
         NEW txs \in [Transactions -> TransactionType],
         Drafted,
         \A u \in Transactions : txs[u].base = tx[u].base /\ txs[u].open = tx[u].open
                                  /\ txs[u].draft = tx[u].draft,
         Install(c, txs)
  PROVE  /\ current' \in [id : Objects, keyboard : Keyboards, shader : Shaders]
         /\ current'.shader = c.shader /\ current'.id # current.id
         /\ revision' \in Revisions
         /\ TxTyped' /\ Pinned' /\ Drafted'
         /\ \A u \in Transactions : tx'[u].result = txs[u].result /\ tx'[u].finished = txs[u].finished
<1>1. PICK id \in Fresh : current' = Config(id, c)
  BY DEF Install
<1>2. id \in Objects /\ id # current.id /\ \A u \in Transactions : id # tx[u].base
  BY <1>1 DEF Fresh
<1>3. current' \in [id : Objects, keyboard : Keyboards, shader : Shaders] /\ current'.id = id
        /\ current'.shader = c.shader
  BY <1>1, <1>2 DEF Config
<1>4. revision' \in Revisions
  BY ConfigurationAssumption DEF Install, Revisions, TypeOK
<1>5. ASSUME NEW u \in Transactions
      PROVE  /\ tx'[u] \in TransactionType /\ tx'[u].base = txs[u].base
             /\ tx'[u].open = txs[u].open /\ tx'[u].draft = txs[u].draft
             /\ tx'[u].result = txs[u].result /\ tx'[u].finished = txs[u].finished
  <2>1. txs[u] \in TransactionType /\ tx'[u] = [txs[u] EXCEPT !.fresh = FALSE]
    BY DEF Install
  <2> QED BY <2>1 DEF TransactionType
<1>6. tx' = [u \in Transactions |-> tx'[u]]
  BY DEF Install
<1>7. TxTyped'
  BY <1>5, <1>6 DEF TxTyped
<1>8. Pinned'
  BY <1>2, <1>3, <1>5 DEF Pinned
<1>9. Drafted'
  BY <1>5 DEF Drafted
<1> QED BY <1>2, <1>3, <1>4, <1>5, <1>7, <1>8, <1>9

----------------------------------------------------------------------------
(* The handlers. *)

Good == [keyboard : Keyboards, shader : Shaders]

\* A commit either refuses and leaves all but the transaction alone, or
\* applies the draft of a transaction nobody was faster than.
LEMMA CommitDoes ==
  ASSUME IInv, NEW t \in Transactions, Commit(t)
  PROVE  \/ Refused(t) /\ UNCHANGED dev
         \/ /\ tx[t].open /\ tx[t].base = current.id /\ tx[t].draft \in Good
            /\ Install(tx[t].draft, Ended(t, "applied"))
            /\ overriding' = TRUE
            /\ dev' = Switched(Pending(dev, Active, tx[t].draft.shader))
<1> DEFINE e == tx[t]
           s == e.draft.shader
           Apply == /\ Install(e.draft, Ended(t, "applied"))
                    /\ overriding' = TRUE
                    /\ dev' = Switched(Pending(dev, Active, s))
<1>1. CASE Refused(t) /\ UNCHANGED dev
  BY <1>1
<1>2. CASE /\ ~(e.finished \/ e.error \/ Stale(e)) /\ Valid(e.draft)
           /\ \E p \in Preparations(s), keyed \in KeymapOutcomes(e.draft.keyboard) :
                CASE ~p.ok -> Refused(t) /\ dev' = p.dev
                  [] p.ok /\ ~keyed -> KeymapRefused(t, p.dev)
                  [] OTHER -> /\ Install(e.draft, Ended(t, "applied"))
                              /\ overriding' = TRUE
                              /\ dev' = Switched(p.dev)
  <2>1. e.open /\ e.base = current.id /\ e.draft \in Good
    BY <1>2 DEF Commit, Stale, Valid, IInv, Drafted, AnyDraft, Good
  <2>2. PICK p \in Preparations(s), keyed \in KeymapOutcomes(e.draft.keyboard) :
                CASE ~p.ok -> Refused(t) /\ dev' = p.dev
                  [] p.ok /\ ~keyed -> KeymapRefused(t, p.dev)
                  [] OTHER -> /\ Install(e.draft, Ended(t, "applied"))
                              /\ overriding' = TRUE
                              /\ dev' = Switched(p.dev)
    BY <1>2
  <2>3. s \in Shaders /\ DevTyped /\ NothingPending
    BY <2>1, TypeParts DEF Good, IInv
  <2>4. /\ ~p.ok => p.dev = dev
        /\ p.ok => p.dev = Pending(dev, Active, s)
        /\ p.ok \in BOOLEAN
    BY <2>3, PreparationsDo
  <2>5. keyed \in BOOLEAN
    BY DEF KeymapOutcomes
  <2>6. CASE ~p.ok
    BY <2>2, <2>4, <2>6
  <2>7. CASE p.ok /\ ~keyed
    <3>1. KeymapRefused(t, p.dev)
      BY <2>2, <2>7
    <3>2. Discard(p.dev, Active) = dev
      BY <2>3, <2>4, <2>7, DiscardRestores, ActiveDevices
    <3> QED BY <3>1, <3>2 DEF KeymapRefused
  <2>8. CASE p.ok /\ keyed
    <3>1. Apply
      BY <2>2, <2>4, <2>8
    <3> QED BY <2>1, <3>1
  <2> QED BY <2>4, <2>5, <2>6, <2>7, <2>8
<1> QED BY <1>1, <1>2 DEF Commit

\* Rebuilding the programs keeps the GPUs clean.
LEMMA RebuildKeeps ==
  ASSUME IInv, NEW s \in Shaders, NEW p \in Preparations(s), Rebuild(p)
  PROVE  DevTyped' /\ NothingPending' /\ popup' \in BOOLEAN
<1>1. DevTyped /\ NothingPending
  BY TypeParts DEF IInv
<1>2. /\ ~p.ok => p.dev = dev
      /\ p.ok => p.dev = Pending(dev, Active, s)
      /\ p.ok \in BOOLEAN /\ p.dev \in [Devices -> DeviceType]
  BY <1>1, PreparationsDo
<1>3. popup' \in BOOLEAN
  BY <1>2 DEF Rebuild
<1>4. CASE p.ok
  <2>1. dev' = Switched(Pending(dev, Active, s)) /\ DevTyped'
    BY <1>2, <1>4, SwitchedTyped DEF Rebuild, DevTyped
  <2> QED BY <1>1, <1>3, <2>1, SwitchedClean DEF NothingPending
<1>5. CASE ~p.ok
  BY <1>1, <1>2, <1>3, <1>5 DEF Rebuild, DevTyped, NothingPending
<1> QED BY <1>2, <1>4, <1>5

\* A reload leaves transactions alone but for `fresh`.
LEMMA ReloadDoes ==
  ASSUME IInv, Reload
  PROVE  /\ ForceTyped' /\ unseen' \in BOOLEAN /\ DevTyped' /\ NothingPending'
         /\ TxTyped' /\ Pinned' /\ Drafted'
         /\ \A u \in Transactions : tx'[u].result = tx[u].result /\ tx'[u].finished = tx[u].finished
<1>0. ForceTyped /\ FileTyped /\ DevTyped /\ TxTyped /\ TypeOK /\ NothingPending /\ Pinned /\ Drafted
  BY TypeParts DEF IInv
<1>1. unseen' \in BOOLEAN
  BY DEF Reload
<1>2. CASE LoadFails
  BY <1>0, <1>1, <1>2 DEF LoadFails, inForce, ForceTyped, DevTyped, NothingPending, TxTyped, Pinned, Drafted
<1>3. CASE /\ file \in Files
           /\ \E keyed \in KeymapOutcomes(file.keyboard), p \in Preparations(MergedShader(file)) :
                IF keyed
                  THEN Install([file EXCEPT !.shader = MergedShader(file)], tx) /\ Rebuild(p)
                  ELSE UNCHANGED <<inForce, dev, popup, tx>>
           /\ UNCHANGED overriding
  <2> DEFINE s == MergedShader(file)
             c == [file EXCEPT !.shader = s]
  <2>1. file \in Contents
    BY <1>3, ConfigurationAssumption
  <2>2. s \in Shaders
    BY <1>0, <2>1 DEF MergedShader, Contents, ForceTyped
  <2>3. PICK keyed \in KeymapOutcomes(file.keyboard), p \in Preparations(s) :
                IF keyed THEN Install(c, tx) /\ Rebuild(p)
                ELSE UNCHANGED <<inForce, dev, popup, tx>>
    BY <1>3
  <2>4. CASE ~keyed
    BY <1>0, <1>1, <1>3, <2>3, <2>4 DEF inForce, ForceTyped, DevTyped, NothingPending, TxTyped, Pinned, Drafted
  <2>5. CASE keyed
    <3>1. file.keyboard \in Keyboards
      BY <1>0, <2>1, <2>5 DEF KeymapOutcomes, ForceTyped
    <3>2. c \in [keyboard : Keyboards, shader : Shaders]
      BY <2>1, <2>2, <3>1 DEF Contents
    <3>3. Install(c, tx) /\ Rebuild(p)
      BY <2>3, <2>5
    <3> HIDE DEF c, s
    <3>4. /\ current' \in [id : Objects, keyboard : Keyboards, shader : Shaders]
          /\ revision' \in Revisions /\ TxTyped' /\ Pinned' /\ Drafted'
          /\ \A u \in Transactions : tx'[u].result = tx[u].result /\ tx'[u].finished = tx[u].finished
      BY <1>0, <3>2, <3>3, Installed DEF TxTyped
    <3>5. DevTyped' /\ NothingPending' /\ popup' \in BOOLEAN
      BY <2>2, <3>3, RebuildKeeps
    <3> QED BY <1>0, <1>1, <1>3, <3>4, <3>5 DEF ForceTyped
  <2> QED BY <2>4, <2>5
<1> QED BY <1>2, <1>3 DEF Reload

----------------------------------------------------------------------------
(* The invariant. *)

LEMMA InitIInv == Init => IInv
<1> SUFFICES ASSUME Init PROVE IInv
  OBVIOUS
<1>1. FileTyped
  BY ConfigurationAssumption DEF Init, FileTyped
<1>2. ForceTyped
  <2>1. revision \in Revisions
    BY ConfigurationAssumption DEF Init, Revisions
  <2>2. PICK id \in Objects :
          \/ current = Config(id, [keyboard |-> DefaultKeyboard, shader |-> DefaultShader])
          \/ file \in Files /\ current = Config(id, file)
    BY DEF Init
  <2>3. file \in Files => file \in Contents /\ file.keyboard \in Keyboards
    BY ConfigurationAssumption DEF Init, Contents, AnyDraft
  <2>4. current \in [id : Objects, keyboard : Keyboards, shader : Shaders]
    BY <2>2, <2>3, ConfigurationAssumption DEF Config, Contents
  <2> QED BY <2>1, <2>4 DEF Init, ForceTyped
<1>3. DevTyped /\ NothingPending
  BY DEF Init, DevTyped, NothingPending, DeviceType, NoDevice
<1>4. TxTyped /\ Pinned /\ Drafted
  BY DEF Init, TxTyped, Pinned, Drafted, TransactionType, NoTransaction, Address
<1> QED BY <1>1, <1>2, <1>3, <1>4, TypeParts DEF IInv

\* Only the files, the watcher and the popup change.
LEMMA Elsewhere ==
  ASSUME IInv, UNCHANGED <<inForce, overriding, dev, tx>>, popup' \in BOOLEAN, FileTyped'
  PROVE  IInv'
<1>0. ForceTyped /\ DevTyped /\ TxTyped /\ NothingPending /\ Pinned /\ Drafted
  BY TypeParts DEF IInv
<1>1. ForceTyped' /\ DevTyped' /\ TxTyped'
  BY <1>0 DEF ForceTyped, DevTyped, TxTyped, inForce
<1>2. NothingPending' /\ Pinned' /\ Drafted'
  BY <1>0 DEF NothingPending, Pinned, Drafted, inForce
<1>3. TypeOK'
  BY <1>1, TypeParts DEF TypeOK, ForceTyped, FileTyped, DevTyped, TxTyped, DeviceType, TransactionType
<1> QED BY <1>2, <1>3 DEF IInv

\* Only one transaction changes.
LEMMA OneTransaction ==
  ASSUME IInv, NEW t \in Transactions, NEW e \in TransactionType,
         tx' = [tx EXCEPT ![t] = e],
         e.open /\ e.base = current.id => e.fresh,
         e.open => e.draft \in AnyDraft,
         UNCHANGED <<inForce, overriding, dev, popup, fileVars>>
  PROVE  IInv'
<1>0. ForceTyped /\ FileTyped /\ DevTyped /\ TxTyped /\ NothingPending /\ Pinned /\ Drafted
  BY TypeParts DEF IInv
<1>1. ForceTyped' /\ DevTyped' /\ FileTyped' /\ NothingPending'
  BY <1>0 DEF ForceTyped, DevTyped, FileTyped, NothingPending, inForce, fileVars
<1>2. TxTyped' /\ Pinned' /\ Drafted'
  BY <1>0 DEF TxTyped, Pinned, Drafted, inForce
<1> QED BY <1>1, <1>2 DEF IInv, TypeOK, ForceTyped, FileTyped, DevTyped, TxTyped, DeviceType, TransactionType

LEMMA CreateKeeps == ASSUME IInv, NEW t \in Transactions, Create(t) PROVE IInv'
<1> DEFINE e == [NoTransaction EXCEPT !.open = TRUE, !.base = current.id, !.draft = Content(current),
                                      !.revision = revision, !.fresh = TRUE]
<1>1. e \in TransactionType /\ e.fresh /\ e.draft \in AnyDraft
  BY DEF NoTransaction, TransactionType, Content, AnyDraft, Address, IInv, TypeOK
<1>2. tx' = [tx EXCEPT ![t] = e] /\ UNCHANGED <<inForce, overriding, dev, popup, fileVars>>
  BY DEF Create
<1> HIDE DEF e
<1> QED BY <1>1, <1>2, OneTransaction

LEMMA EditKeeps ==
  ASSUME IInv, NEW t \in Transactions, NEW draft \in AnyDraft, NEW valid \in BOOLEAN,
         Edit(t, draft, valid)
  PROVE  IInv'
<1> DEFINE e == IF tx[t].finished \/ ~valid THEN [tx[t] EXCEPT !.error = TRUE]
                ELSE IF tx[t].error THEN tx[t] ELSE [tx[t] EXCEPT !.draft = draft]
<1>1. tx[t] \in TransactionType /\ (tx[t].open /\ tx[t].base = current.id => tx[t].fresh)
        /\ (tx[t].open => tx[t].draft \in AnyDraft)
  BY TypeParts DEF IInv, TxTyped, Pinned, Drafted
<1>2. e \in TransactionType /\ (e.open /\ e.base = current.id => e.fresh)
        /\ (e.open => e.draft \in AnyDraft)
  BY <1>1 DEF TransactionType
<1>3. tx' = [tx EXCEPT ![t] = e] /\ UNCHANGED <<inForce, overriding, dev, popup, fileVars>>
  BY DEF Edit, IInv, TypeOK
<1> HIDE DEF e
<1> QED BY <1>2, <1>3, OneTransaction

LEMMA DropKeeps == ASSUME IInv, NEW t \in Transactions, Drop(t) PROVE IInv'
<1>1. NoTransaction \in TransactionType /\ ~NoTransaction.open
  BY DEF NoTransaction, TransactionType, Address
<1>2. tx' = [tx EXCEPT ![t] = NoTransaction] /\ UNCHANGED <<inForce, overriding, dev, popup, fileVars>>
  BY DEF Drop
<1> QED BY <1>1, <1>2, OneTransaction

LEMMA CommitKeeps == ASSUME IInv, NEW t \in Transactions, Commit(t) PROVE IInv'
<1>0. TypeOK /\ ForceTyped /\ FileTyped /\ DevTyped /\ TxTyped /\ NothingPending /\ Pinned /\ Drafted
  BY TypeParts DEF IInv
<1>1. CASE Refused(t) /\ UNCHANGED dev
  <2> DEFINE e == [tx[t] EXCEPT !.finished = TRUE, !.error = ("failed" = "failed"), !.result = "failed"]
  <2>1. tx' = [tx EXCEPT ![t] = e]
    BY <1>0, <1>1 DEF Refused, Ended, TxTyped
  <2>2. tx[t] \in TransactionType /\ (tx[t].open /\ tx[t].base = current.id => tx[t].fresh)
          /\ (tx[t].open => tx[t].draft \in AnyDraft)
    BY <1>0 DEF TxTyped, Pinned, Drafted
  <2>3. e \in TransactionType /\ (e.open /\ e.base = current.id => e.fresh)
          /\ (e.open => e.draft \in AnyDraft)
    BY <2>2 DEF TransactionType
  <2>4. UNCHANGED <<inForce, overriding, dev, popup, fileVars>>
    BY <1>1 DEF Refused, Commit
  <2> HIDE DEF e
  <2> QED BY <2>1, <2>3, <2>4, OneTransaction
<1>2. CASE /\ tx[t].open /\ tx[t].base = current.id /\ tx[t].draft \in Good
           /\ Install(tx[t].draft, Ended(t, "applied"))
           /\ overriding' = TRUE
           /\ dev' = Switched(Pending(dev, Active, tx[t].draft.shader))
  <2> DEFINE c == tx[t].draft
  <2>1. /\ Ended(t, "applied") \in [Transactions -> TransactionType]
        /\ \A u \in Transactions :
              /\ Ended(t, "applied")[u].base = tx[u].base /\ Ended(t, "applied")[u].open = tx[u].open
              /\ Ended(t, "applied")[u].draft = tx[u].draft
    BY AppliedTyped
  <2>2. c \in [keyboard : Keyboards, shader : Shaders] /\ c.shader \in Shaders
    BY <1>2 DEF Good
  <2> HIDE DEF c
  <2>3. Install(c, Ended(t, "applied"))
    BY <1>2 DEF c
  <2>4. /\ current' \in [id : Objects, keyboard : Keyboards, shader : Shaders]
        /\ revision' \in Revisions /\ TxTyped' /\ Pinned' /\ Drafted'
    BY <1>0, <2>1, <2>2, <2>3, Installed
  <2>5. DevTyped' /\ NothingPending'
    <3>1. dev' = Switched(Pending(dev, Active, c.shader))
      BY <1>2 DEF c
    <3>2. Pending(dev, Active, c.shader) \in [Devices -> DeviceType]
      BY <1>0, <2>2, ActiveDevices, PendingTyped DEF DevTyped
    <3> QED BY <1>0, <2>2, <3>1, <3>2, SwitchedTyped, SwitchedClean DEF DevTyped, NothingPending
  <2>6. ForceTyped' /\ FileTyped'
    BY <1>0, <1>2, <2>4 DEF ForceTyped, FileTyped, Commit, fileVars
  <2>7. TypeOK'
    BY <2>4, <2>5, <2>6 DEF TypeOK, ForceTyped, FileTyped, DevTyped, TxTyped, DeviceType, TransactionType
  <2> QED BY <2>4, <2>5, <2>7 DEF IInv
<1> QED BY <1>1, <1>2, CommitDoes

\* Both ways to reload.
LEMMA ReloadKeeps ==
  ASSUME IInv, Reload, UNCHANGED <<file, dir, watchDir, events>>, pendingReload' \in BOOLEAN
  PROVE  IInv'
<1>1. ForceTyped' /\ unseen' \in BOOLEAN /\ DevTyped' /\ NothingPending' /\ TxTyped' /\ Pinned' /\ Drafted'
  BY ReloadDoes
<1>2. FileTyped'
  BY <1>1, TypeParts DEF FileTyped, IInv
<1>3. TypeOK'
  BY <1>1, <1>2 DEF TypeOK, ForceTyped, FileTyped, DevTyped, TxTyped, DeviceType, TransactionType
<1> QED BY <1>1, <1>3 DEF IInv

\* One GPU is plugged in or out.
LEMMA OneDevice ==
  ASSUME IInv, NEW d \in Devices, NEW v \in DeviceType, v.pending = None,
         dev' = [dev EXCEPT ![d] = v],
         UNCHANGED <<inForce, overriding, popup, tx, fileVars>>
  PROVE  IInv'
<1>0. ForceTyped /\ FileTyped /\ DevTyped /\ TxTyped /\ NothingPending /\ Pinned /\ Drafted
  BY TypeParts DEF IInv
<1>1. ForceTyped' /\ TxTyped' /\ FileTyped' /\ Pinned' /\ Drafted'
  BY <1>0 DEF ForceTyped, TxTyped, FileTyped, Pinned, Drafted, inForce, fileVars
<1>2. DevTyped' /\ NothingPending'
  BY <1>0 DEF DevTyped, NothingPending
<1> QED BY <1>1, <1>2 DEF IInv, TypeOK, ForceTyped, FileTyped, DevTyped, TxTyped, DeviceType, TransactionType

LEMMA PlugKeeps == ASSUME IInv, NEW d \in Devices, Plug(d) PROVE IInv'
<1>1. dev \in [Devices -> DeviceType] /\ dev[d].pending = None /\ current.shader \in Shaders
  BY TypeParts DEF IInv, NothingPending, DevTyped, ForceTyped
<1>2. PICK compiled \in BOOLEAN, made \in BOOLEAN :
       dev' = [dev EXCEPT ![d] =
         IF @.renderer \/ ~made THEN [@ EXCEPT !.outputs = TRUE]
         ELSE [outputs |-> TRUE, renderer |-> TRUE, pending |-> None,
               program |-> IF compiled THEN current.shader ELSE None]]
  BY DEF Plug
<1> DEFINE v == IF dev[d].renderer \/ ~made THEN [dev[d] EXCEPT !.outputs = TRUE]
                ELSE [outputs |-> TRUE, renderer |-> TRUE, pending |-> None,
                      program |-> IF compiled THEN current.shader ELSE None]
<1>3. dev' = [dev EXCEPT ![d] = v]
  BY <1>1, <1>2
<1>4. v \in DeviceType /\ v.pending = None
  BY <1>1 DEF DeviceType
<1>5. UNCHANGED <<inForce, overriding, popup, tx, fileVars>>
  BY DEF Plug
<1> HIDE DEF v
<1> QED BY <1>3, <1>4, <1>5, OneDevice

LEMMA UnplugKeeps == ASSUME IInv, NEW d \in Devices, Unplug(d) PROVE IInv'
<1>1. dev \in [Devices -> DeviceType] /\ dev[d].pending = None
  BY TypeParts DEF IInv, NothingPending, DevTyped
<1>2. UNCHANGED <<inForce, overriding, popup, tx, fileVars>>
  BY DEF Unplug
<1>3. CASE dev' = [dev EXCEPT ![d].outputs = FALSE]
  <2> DEFINE v == [dev[d] EXCEPT !.outputs = FALSE]
  <2>1. dev' = [dev EXCEPT ![d] = v] /\ v \in DeviceType /\ v.pending = None
    BY <1>1, <1>3 DEF DeviceType
  <2> HIDE DEF v
  <2> QED BY <1>2, <2>1, OneDevice
<1>4. CASE dev' = [dev EXCEPT ![d] = NoDevice]
  <2>1. NoDevice \in DeviceType /\ NoDevice.pending = None
    BY DEF NoDevice, DeviceType
  <2> QED BY <1>2, <1>4, <2>1, OneDevice
<1> QED BY <1>3, <1>4 DEF Unplug

LEMMA IInvKept == IInv /\ [Next]_vars => IInv'
<1> SUFFICES ASSUME IInv, [Next]_vars PROVE IInv'
  OBVIOUS
<1>0. ForceTyped /\ FileTyped /\ DevTyped /\ TxTyped /\ NothingPending /\ Drafts \subseteq AnyDraft
  BY TypeParts, ConfigurationAssumption DEF IInv
<1>1. ASSUME NEW t \in Transactions, Create(t) PROVE IInv'
  BY <1>1, CreateKeeps
<1>2. ASSUME NEW t \in Transactions, Commit(t) PROVE IInv'
  BY <1>2, CommitKeeps
<1>3. ASSUME NEW t \in Transactions, Drop(t) PROVE IInv'
  BY <1>3, DropKeeps
<1>4. ASSUME NEW t \in Transactions, NEW draft \in Drafts, NEW valid \in BOOLEAN, Edit(t, draft, valid)
      PROVE IInv'
  BY <1>0, <1>4, EditKeeps
<1>5. CASE ReloadRequest
  BY <1>0, <1>5, ReloadKeeps DEF ReloadRequest, FileTyped
<1>6. CASE RebuildRequest
  <2>1. current.shader \in Shaders
    BY <1>0 DEF ForceTyped
  <2>2. DevTyped' /\ NothingPending' /\ popup' \in BOOLEAN
    BY <1>6, <2>1, RebuildKeeps DEF RebuildRequest
  <2>3. ForceTyped' /\ FileTyped' /\ TxTyped' /\ Pinned' /\ Drafted'
    BY <1>0, <1>6, <2>2 DEF RebuildRequest, ForceTyped, FileTyped, TxTyped, Pinned, Drafted, IInv, inForce, fileVars
  <2>4. TypeOK'
    BY <2>2, <2>3 DEF TypeOK, ForceTyped, FileTyped, DevTyped, TxTyped, DeviceType, TransactionType
  <2> QED BY <2>2, <2>3, <2>4 DEF IInv
<1>7. CASE ReloadIdle
  BY <1>7, ReloadKeeps DEF ReloadIdle
<1>8. CASE OnInotify
  BY <1>0, <1>8, Elsewhere DEF OnInotify, FileTyped, ForceTyped, Relevant
<1>9. CASE ErrorTimeout
  BY <1>0, <1>9, Elsewhere DEF ErrorTimeout, FileTyped, fileVars
<1>10. CASE MakeDirectory
  BY <1>0, <1>10, Elsewhere DEF MakeDirectory, FileTyped, ForceTyped
<1>11. ASSUME NEW f \in Files \cup {None}, Save(f) PROVE IInv'
  BY <1>0, <1>11, Elsewhere DEF Save, FileTyped, ForceTyped
<1>12. ASSUME NEW d \in Devices, Plug(d) PROVE IInv'
  BY <1>12, PlugKeeps
<1>13. ASSUME NEW d \in Devices, Unplug(d) PROVE IInv'
  BY <1>13, UnplugKeeps
<1>14. CASE UNCHANGED vars
  BY <1>0, <1>14, Elsewhere DEF vars, fileVars, FileTyped, ForceTyped
<1> QED BY <1>1, <1>2, <1>3, <1>4, <1>5, <1>6, <1>7, <1>8, <1>9, <1>10, <1>11, <1>12, <1>13, <1>14
        DEF Next, ManagerStep, LoopStep, WorldStep

THEOREM Invariant == Spec => []IInv
  BY InitIInv, IInvKept, PTL DEF Spec

----------------------------------------------------------------------------
(* What follows. *)

\* The type invariant, for all constants.
THEOREM TypeCorrect == Spec => []TypeOK
  BY Invariant, PTL DEF IInv

\* Whatever fails in a handler, no GPU is left with programs that were
\* prepared and neither switched to nor given up.
THEOREM PreparationsEnd == Spec => []NothingPending
  BY Invariant, PTL DEF IInv

\* The result of a transaction is settled by its commit, and forgotten with it.
LEMMA ResultChanges ==
  ASSUME IInv, [Next]_vars, NEW t \in Transactions
  PROVE  \/ tx'[t].result = tx[t].result /\ tx'[t].finished = tx[t].finished
         \/ tx'[t].result = "none" /\ ~tx'[t].finished
         \/ Commit(t)
<1> DEFINE Same == tx'[t].result = tx[t].result /\ tx'[t].finished = tx[t].finished
           Forgotten == tx'[t].result = "none" /\ ~tx'[t].finished
<1>0. TxTyped
  BY TypeParts DEF IInv
<1>1. ASSUME NEW u \in Transactions, Create(u) \/ Drop(u) PROVE Same \/ Forgotten
  <2> DEFINE e == [NoTransaction EXCEPT !.open = TRUE, !.base = current.id, !.draft = Content(current),
                                        !.revision = revision, !.fresh = TRUE]
  <2>1. e.result = "none" /\ ~e.finished /\ NoTransaction.result = "none" /\ ~NoTransaction.finished
    BY DEF NoTransaction
  <2>2. tx' = [tx EXCEPT ![u] = e] \/ tx' = [tx EXCEPT ![u] = NoTransaction]
    BY <1>1 DEF Create, Drop
  <2> HIDE DEF e
  <2> QED BY <1>0, <2>1, <2>2 DEF TxTyped
<1>2. ASSUME NEW u \in Transactions, NEW draft \in Drafts, NEW valid \in BOOLEAN, Edit(u, draft, valid)
      PROVE Same
  <2> DEFINE e == IF tx[u].finished \/ ~valid THEN [tx[u] EXCEPT !.error = TRUE]
                  ELSE IF tx[u].error THEN tx[u] ELSE [tx[u] EXCEPT !.draft = draft]
  <2>1. tx' = [tx EXCEPT ![u] = e]
    BY <1>0, <1>2 DEF Edit, TxTyped
  <2>2. e.result = tx[u].result /\ e.finished = tx[u].finished
    BY <1>0 DEF TxTyped, TransactionType
  <2> HIDE DEF e
  <2> QED BY <1>0, <2>1, <2>2 DEF TxTyped
<1>3. ASSUME NEW u \in Transactions, u # t, Commit(u) PROVE Same
  <2>1. CASE Refused(u)
    BY <1>0, <1>3, <2>1, RefusedTyped DEF Refused
  <2>2. CASE /\ tx[u].draft \in Good /\ Install(tx[u].draft, Ended(u, "applied"))
    <3>1. /\ Ended(u, "applied") \in [Transactions -> TransactionType]
          /\ \A w \in Transactions :
                /\ Ended(u, "applied")[w].base = tx[w].base /\ Ended(u, "applied")[w].open = tx[w].open
                /\ Ended(u, "applied")[w].draft = tx[w].draft
          /\ Ended(u, "applied")[t] = tx[t]
      BY <1>3, AppliedTyped
    <3>2. tx[u].draft \in [keyboard : Keyboards, shader : Shaders]
      BY <2>2 DEF Good
    <3>3. TypeOK /\ Drafted /\ Install(tx[u].draft, Ended(u, "applied"))
      BY <2>2 DEF IInv
    <3>4. \A w \in Transactions : /\ tx'[w].result = Ended(u, "applied")[w].result
                                  /\ tx'[w].finished = Ended(u, "applied")[w].finished
      BY <3>1, <3>2, <3>3, Installed
    <3> QED BY <3>1, <3>4
  <2> QED BY <1>3, <2>1, <2>2, CommitDoes
<1>4. ASSUME Reload PROVE Same
  BY <1>4, ReloadDoes
<1>5. ASSUME tx' = tx PROVE Same
  BY <1>5
<1> SUFFICES Same \/ Forgotten \/ Commit(t)
  OBVIOUS
<1> HIDE DEF Same, Forgotten
<1>6. CASE \E u \in Transactions : Commit(u)
  BY <1>3, <1>6
<1>7. CASE ReloadIdle \/ ReloadRequest
  BY <1>4, <1>7 DEF ReloadIdle, ReloadRequest
<1>8. CASE \/ RebuildRequest \/ OnInotify \/ ErrorTimeout \/ WorldStep \/ UNCHANGED vars
  BY <1>5, <1>8 DEF WorldStep, RebuildRequest, OnInotify, ErrorTimeout, MakeDirectory, Save, Plug, Unplug, vars
<1>9. CASE \E u \in Transactions : Create(u) \/ Drop(u)
  BY <1>1, <1>9
<1>10. CASE \E u \in Transactions, draft \in Drafts, valid \in BOOLEAN : Edit(u, draft, valid)
  BY <1>2, <1>10
<1> QED BY <1>6, <1>7, <1>8, <1>9, <1>10 DEF Next, ManagerStep, LoopStep

LEMMA OnlyCommitEnds ==
  ASSUME IInv, [Next]_vars, NEW t \in Transactions,
         \/ tx[t].result # "applied" /\ tx'[t].result = "applied"
         \/ ~tx[t].finished /\ tx'[t].finished
  PROVE  Commit(t)
BY ResultChanges

\* No transaction overwrites a configuration it was not drafted from, for
\* every modulus of the revision and every number of transactions.
THEOREM LostUpdates == Spec => NoLostUpdate
<1>1. ASSUME IInv, [Next]_vars
      PROVE [\A t \in Transactions :
               tx[t].result # "applied" /\ tx'[t].result = "applied" => tx[t].fresh]_vars
  <2> SUFFICES ASSUME NEW t \in Transactions, tx[t].result # "applied", tx'[t].result = "applied"
               PROVE tx[t].fresh
    OBVIOUS
  <2>1. Commit(t)
    BY <1>1, OnlyCommitEnds
  <2>2. ~Refused(t)
    BY <1>1, RefusedTyped DEF Refused
  <2>3. tx[t].open /\ tx[t].base = current.id
    BY <1>1, <2>1, <2>2, CommitDoes
  <2> QED BY <1>1, <2>3 DEF IInv, Pinned
<1> QED BY <1>1, Invariant, PTL DEF Spec, NoLostUpdate

LEMMA RefusalsStep == ASSUME IInv, [Next]_vars PROVE RefusalIsClean
<1> SUFFICES ASSUME NEW t \in Transactions, ~tx[t].finished, tx'[t].finished, tx'[t].result = "failed"
             PROVE UNCHANGED <<inForce, overriding, dev, popup>>
  BY DEF RefusalIsClean
<1>1. Commit(t)
  BY OnlyCommitEnds
<1>2. CASE Refused(t) /\ UNCHANGED dev
  BY <1>1, <1>2 DEF Refused, Commit
<1>3. CASE tx[t].draft \in Good /\ Install(tx[t].draft, Ended(t, "applied"))
  <2>1. /\ Ended(t, "applied") \in [Transactions -> TransactionType]
        /\ \A w \in Transactions :
              /\ Ended(t, "applied")[w].base = tx[w].base /\ Ended(t, "applied")[w].open = tx[w].open
              /\ Ended(t, "applied")[w].draft = tx[w].draft
        /\ Ended(t, "applied")[t].result = "applied"
    BY AppliedTyped
  <2>2. tx[t].draft \in [keyboard : Keyboards, shader : Shaders]
    BY <1>3 DEF Good
  <2>3. tx'[t].result = "applied"
    BY <1>3, <2>1, <2>2, Installed DEF IInv
  <2> QED BY <2>3
<1> QED BY <1>1, <1>2, <1>3, CommitDoes

\* A refused transaction changes nothing but itself, wherever the commit
\* failed and however many GPUs had prepared their programs.
THEOREM Refusals == Spec => RefusedChangesNothing
<1>1. IInv /\ [Next]_vars => [RefusalIsClean]_vars
  BY RefusalsStep
<1> QED BY <1>1, Invariant, PTL DEF Spec, RefusedChangesNothing

----------------------------------------------------------------------------
(* What is applied, and what was edited. *)

\* Switching gives every active GPU the programs that were prepared.
LEMMA SwitchedAll ==
  ASSUME DevTyped, NEW s \in Shaders, NEW d \in Active
  PROVE  Switched(Pending(dev, Active, s))[d].program = s
<1> DEFINE q == Pending(dev, Active, s)
<1>1. d \in Devices /\ dev[d] \in DeviceType
  BY DEF Active, DevTyped
<1>2. q[d] = [dev[d] EXCEPT !.pending = s]
  BY <1>1 DEF Pending
<1>3. q[d] \in DeviceType /\ q[d].pending = s /\ s # None
  BY <1>1, <1>2, ConfigurationAssumption DEF DeviceType
<1> HIDE DEF q
<1>4. Switched(q)[d] = [q[d] EXCEPT !.program = s, !.pending = None]
  BY <1>1, <1>3 DEF Switched
<1>5. Switched(q)[d].program = s
  BY <1>3, <1>4 DEF DeviceType
<1> QED BY <1>5 DEF q

\* A transaction that was applied was not before.
Final == \A t \in Transactions : tx[t].result = "applied" => tx[t].finished

\* What a commit that does not refuse comes to.
LEMMA CommitApplies ==
  ASSUME IInv, Final, NEW t \in Transactions, Commit(t), ~Refused(t)
  PROVE  /\ Applies(t) /\ tx'[t].finished
         /\ \A d \in Active : dev'[d].program = current'.shader
<1>0. TypeOK /\ DevTyped /\ TxTyped /\ Drafted
  BY TypeParts DEF IInv
<1>1. /\ tx[t].draft \in Good /\ Install(tx[t].draft, Ended(t, "applied"))
      /\ dev' = Switched(Pending(dev, Active, tx[t].draft.shader))
  BY CommitDoes
<1>2. ~tx[t].finished
  BY DEF Commit
<1>3. EndedTyping(t, "applied")
  BY <1>0, EndedTyped
<1>4. tx[t].draft \in [keyboard : Keyboards, shader : Shaders] /\ tx[t].draft.shader \in Shaders
  BY <1>1 DEF Good
<1>5. /\ current'.shader = tx[t].draft.shader
      /\ \A u \in Transactions : /\ tx'[u].result = Ended(t, "applied")[u].result
                                 /\ tx'[u].finished = Ended(t, "applied")[u].finished
  <2>1. /\ Ended(t, "applied") \in [Transactions -> TransactionType]
        /\ \A u \in Transactions :
              /\ Ended(t, "applied")[u].base = tx[u].base /\ Ended(t, "applied")[u].open = tx[u].open
              /\ Ended(t, "applied")[u].draft = tx[u].draft
    BY AppliedTyped
  <2> QED BY <1>0, <1>1, <1>4, <2>1, Installed
<1>6. Applies(t) /\ tx'[t].finished
  BY <1>2, <1>3, <1>5 DEF Applies, Final, EndedTyping
<1> QED BY <1>0, <1>1, <1>4, <1>5, <1>6, SwitchedAll

LEMMA FinalKept == IInv /\ Final /\ [Next]_vars => Final'
<1> SUFFICES ASSUME IInv, Final, [Next]_vars, NEW t \in Transactions, tx'[t].result = "applied"
             PROVE  tx'[t].finished
  BY DEF Final
<1>1. CASE Commit(t)
  <2>1. ~Refused(t)
    BY RefusedTyped DEF Refused
  <2> QED BY <1>1, <2>1, CommitApplies
<1> QED BY <1>1, ResultChanges DEF Final

\* What a reload that makes another configuration the current one comes to.
LEMMA ReloadInstalls ==
  ASSUME IInv, Reload, current' # current
  PROVE  /\ overriding => current'.shader = current.shader
         /\ ~popup' => \A d \in Active : dev'[d].program = current'.shader
<1> DEFINE s == MergedShader(file)
           c == [file EXCEPT !.shader = s]
<1>0. TypeOK /\ ForceTyped /\ DevTyped /\ TxTyped /\ NothingPending /\ Drafted
  BY TypeParts DEF IInv
<1>1. file \in Files /\ file \in Contents
  BY ConfigurationAssumption DEF Reload, LoadFails, inForce
<1>2. s \in Shaders /\ (overriding => s = current.shader)
  BY <1>0, <1>1 DEF MergedShader, Contents, ForceTyped
<1>3. PICK keyed \in KeymapOutcomes(file.keyboard), p \in Preparations(s) :
        keyed /\ Install(c, tx) /\ Rebuild(p)
  BY DEF Reload, LoadFails, inForce
<1>4. c \in [keyboard : Keyboards, shader : Shaders] /\ c.shader = s
  <2>1. file.keyboard \in Keyboards
    BY <1>0, <1>1, <1>3 DEF KeymapOutcomes, ForceTyped
  <2> QED BY <1>1, <1>2, <2>1 DEF Contents
<1> HIDE DEF c, s
<1>5. current'.shader = s
  BY <1>0, <1>3, <1>4, Installed DEF TxTyped
<1>6. p.ok => p.dev = Pending(dev, Active, s)
  BY <1>0, <1>2, PreparationsDo
<1>7. ~popup' => dev' = Switched(Pending(dev, Active, s))
  BY <1>3, <1>6 DEF Rebuild
<1> QED BY <1>0, <1>2, <1>5, <1>7, SwitchedAll

\* Which steps make another configuration the current one.
LEMMA OnlyTheseInstall ==
  ASSUME [Next]_vars, current' # current
  PROVE  (\E t \in Transactions : Commit(t) /\ ~Refused(t)) \/ Reload
BY DEF Next, ManagerStep, LoopStep, WorldStep, Create, Drop, Edit, Refused, ReloadRequest,
       RebuildRequest, ReloadIdle, OnInotify, ErrorTimeout, MakeDirectory, Save, Plug, Unplug,
       vars, inForce

\* A handler that refuses changes nothing, one that accepts reaches every active GPU, and
\* a reload keeps the shaders a transaction has set (apply_config, commit).
THEOREM WholeHandlers == Spec => HandlersAreWhole
<1>1. Init => Final
  BY DEF Init, Final, NoTransaction
<1>2. ASSUME IInv, Final, [Next]_vars PROVE AppliedEverywhere
  <2>1. ASSUME NEW t \in Transactions, Applies(t)
        PROVE  \A d \in Active : dev'[d].program = current'.shader
    <3>1. Commit(t)
      BY <1>2, <2>1, OnlyCommitEnds DEF Applies
    <3>2. ~Refused(t)
      BY <1>2, <2>1, RefusedTyped DEF Refused, Applies
    <3> QED BY <1>2, <3>1, <3>2, CommitApplies
  <2>2. ASSUME Reloads, ~popup' PROVE \A d \in Active : dev'[d].program = current'.shader
    <3>1. current' # current
      BY <2>2 DEF Reloads
    <3>2. Reload
      BY <1>2, <2>2 DEF Reloads, Next, ManagerStep, LoopStep, WorldStep, Create, Drop, Edit, Commit,
         ReloadRequest, RebuildRequest, ReloadIdle, OnInotify, ErrorTimeout, MakeDirectory, Save,
         Plug, Unplug, vars, fileVars
    <3> QED BY <1>2, <2>2, <3>1, <3>2, ReloadInstalls
  <2> QED BY <2>1, <2>2 DEF AppliedEverywhere
<1>3. ASSUME IInv, Final, [Next]_vars PROVE ShadersKept
  <2> SUFFICES ASSUME overriding, current'.shader # current.shader
               PROVE  \E t \in Transactions : Applies(t)
    BY DEF ShadersKept
  <2> QED BY <1>3, OnlyTheseInstall, CommitApplies, ReloadInstalls
<1>4. ASSUME IInv, [Next]_vars PROVE RefusalIsClean \/ UNCHANGED vars
  BY <1>4, RefusalsStep
<1>5. IInv /\ Final /\ [Next]_vars => [RefusalIsClean /\ AppliedEverywhere /\ ShadersKept]_vars
  BY <1>2, <1>3, <1>4
<1> QED BY <1>1, <1>5, FinalKept, Invariant, PTL DEF Spec, HandlersAreWhole

\* The watcher watches the directory or is about to be told of it; a file has one.
WatchInv ==
  /\ "dir" \in events <=> dir /\ ~watchDir
  /\ watchDir => dir
  /\ file # None => dir

LEMMA WatchKept ==
  TypeOK /\ WatchInv /\ NoEditLost /\ [Next]_vars => WatchInv' /\ NoEditLost'
<1> SUFFICES ASSUME TypeOK, WatchInv, NoEditLost, [Next]_vars PROVE WatchInv' /\ NoEditLost'
  OBVIOUS
<1> USE DEF WatchInv, NoEditLost
<1>1. CASE OnInotify
  BY <1>1 DEF OnInotify, Relevant, TypeOK
<1>2. CASE MakeDirectory
  BY <1>2 DEF MakeDirectory, TypeOK
<1>3. ASSUME NEW f \in Files \cup {None}, Save(f) PROVE WatchInv' /\ NoEditLost'
  BY <1>3 DEF Save, TypeOK
<1>4. CASE ReloadIdle \/ ReloadRequest
  BY <1>4 DEF ReloadIdle, ReloadRequest, Reload
<1>5. CASE RebuildRequest \/ ErrorTimeout \/ UNCHANGED vars
  BY <1>5 DEF RebuildRequest, ErrorTimeout, vars, fileVars
<1>6. ASSUME NEW t \in Transactions, Create(t) \/ Commit(t) \/ Drop(t) PROVE WatchInv' /\ NoEditLost'
  BY <1>6 DEF Create, Commit, Drop, fileVars
<1>7. ASSUME NEW t \in Transactions, NEW draft \in Drafts, NEW valid \in BOOLEAN, Edit(t, draft, valid)
      PROVE  WatchInv' /\ NoEditLost'
  BY <1>7 DEF Edit, fileVars
<1>8. ASSUME NEW d \in Devices, Plug(d) \/ Unplug(d) PROVE WatchInv' /\ NoEditLost'
  BY <1>8 DEF Plug, Unplug, fileVars
<1> QED BY <1>1, <1>2, <1>3, <1>4, <1>5, <1>6, <1>7, <1>8 DEF Next, ManagerStep, LoopStep, WorldStep

\* No GPU is left with shaders prepared, and an edit of the file is not forgotten, also
\* when the directory was made and the file saved before the watcher knew.
THEOREM HandledWholly == Spec => []NothingHalfDone
<1>1. Init => WatchInv /\ NoEditLost
  <2> SUFFICES ASSUME Init PROVE WatchInv /\ NoEditLost
    OBVIOUS
  <2>1. events = {} /\ unseen = FALSE /\ watchDir = dir
    BY DEF Init
  <2>2. file # None => dir = TRUE
    BY DEF Init
  <2> QED BY <2>1, <2>2 DEF WatchInv, NoEditLost
<1>2. NothingPending /\ NoEditLost => NothingHalfDone
  BY DEF NothingHalfDone
<1> QED BY <1>1, <1>2, WatchKept, TypeCorrect, PreparationsEnd, PTL DEF Spec
=============================================================================
