------------------------ MODULE RuntimeConfiguration ------------------------
(***************************************************************************)
(* The configuration in force and everyone who changes it: the watched     *)
(* file, `zwwmctl reload`, and the transactions of the window manager      *)
(* protocol.  One handler changes the compositor, the keymap of the seat,  *)
(* the backend and the shader programs of every GPU, and any of these may  *)
(* refuse half way.                                                        *)
(***************************************************************************)
EXTENDS Integers, FiniteSets, TLC

CONSTANTS
  Keyboards,     \* keyboard settings that compile to a keymap
  BadKeyboard,   \* one that does not
  Shaders,       \* shader selections whose roles match
  BadShader,     \* one that names a shader nobody defined
  DefaultKeyboard, DefaultShader,  \* of the built-in configuration
  Files,         \* what the file may hold; a syntax error is a load that fails
  Drafts,        \* what a transaction may be edited to
  Objects,       \* addresses of RuntimeConfig objects
  Transactions,
  Devices,       \* GPUs
  RevisionMod,   \* revisions count modulo this (2^32 in the code)
  None

Contents == [keyboard : Keyboards \cup {BadKeyboard}, shader : Shaders]
AnyDraft == [keyboard : Keyboards \cup {BadKeyboard}, shader : Shaders \cup {BadShader}]
Revisions == 0 .. RevisionMod - 1

ASSUME ConfigurationAssumption ==
  /\ BadKeyboard \notin Keyboards /\ BadShader \notin Shaders /\ None \notin Shaders
  /\ DefaultKeyboard \in Keyboards /\ DefaultShader \in Shaders
  /\ RevisionMod \in Nat \ {0}
  /\ Files \subseteq Contents /\ Drafts \subseteq AnyDraft
  /\ None \notin AnyDraft \cup Shaders \cup Revisions \cup Objects

VARIABLES
  current,    \* the configuration in force: its address and content
  overriding, \* protocol_shader_config: a transaction has set the shaders
  dev,        \* per GPU: whether it has outputs, its renderer and programs
  popup,      \* the error popup is on screen
  revision,   \* WindowManagerProtocol::revision
  tx,         \* transactions
  file,       \* the configuration file: content, None if missing
  dir, watchDir, events, pendingReload, \* the watcher
  unseen      \* the file changed since it was last read

fileVars == <<file, dir, watchDir, events, pendingReload, unseen>>
inForce == <<current, revision>>
vars == <<inForce, overriding, dev, popup, tx, fileVars>>

NoTransaction ==
  [open |-> FALSE, base |-> None, draft |-> None, revision |-> None, error |-> FALSE,
   finished |-> FALSE, result |-> "none", fresh |-> FALSE]
NoDevice == [outputs |-> FALSE, renderer |-> FALSE, program |-> None, pending |-> None]

Config(id, c) == [id |-> id, keyboard |-> c.keyboard, shader |-> c.shader]
Content(c) == [keyboard |-> c.keyboard, shader |-> c.shader]

\* main() up to the event loop: an invalid or missing file gives the built-in
\* configuration; with a keyboard that does not compile there is no compositor.
Init ==
  /\ file \in {f \in Files : f.keyboard \in Keyboards} \cup {None}
  /\ dir \in IF file = None THEN BOOLEAN ELSE {TRUE}
  /\ watchDir = dir /\ events = {} /\ pendingReload = FALSE /\ unseen = FALSE
  /\ \E id \in Objects :
       \/ /\ current = Config(id, [keyboard |-> DefaultKeyboard, shader |-> DefaultShader])
          /\ popup \in BOOLEAN
       \/ file \in Files /\ current = Config(id, file) /\ popup = FALSE
  /\ overriding = FALSE /\ dev = [d \in Devices |-> NoDevice]
  /\ revision = 1 % RevisionMod
  /\ tx = [t \in Transactions |-> NoTransaction]

----------------------------------------------------------------------------
(* Shader programs. *)

Active == {d \in Devices : dev[d].outputs /\ dev[d].renderer}

Discard(dv, D) == [d \in Devices |-> IF d \in D THEN [dv[d] EXCEPT !.pending = None] ELSE dv[d]]
Pending(dv, D, s) == [d \in Devices |-> IF d \in D THEN [dv[d] EXCEPT !.pending = s] ELSE dv[d]]

\* prepare_config_shaders(): the sources may be unreadable, any GPU may refuse
\* them, and then the GPUs before it give up theirs.
Preparations(s) ==
  {[ok |-> FALSE, dev |-> Discard(Pending(dev, D, s), D)] : D \in SUBSET Active \ {Active}}
    \cup {[ok |-> Active # {}, dev |-> Pending(dev, Active, s)]}

\* commit_config_shaders()
Switched(dv) ==
  [d \in Devices |-> IF d \in Active /\ dv[d].pending # None
     THEN [dv[d] EXCEPT !.program = dv[d].pending, !.pending = None] ELSE dv[d]]

\* A monitor is plugged in: a GPU's first output makes its renderer, with the
\* programs of the backend's configuration if they compile.
Plug(d) ==
  /\ ~(dev[d].outputs /\ dev[d].renderer)
  /\ \E compiled \in BOOLEAN, made \in BOOLEAN :
       dev' = [dev EXCEPT ![d] =
         IF @.renderer \/ ~made THEN [@ EXCEPT !.outputs = TRUE]
         ELSE [outputs |-> TRUE, renderer |-> TRUE, pending |-> None,
               program |-> IF compiled THEN current.shader ELSE None]]
  /\ UNCHANGED <<inForce, overriding, popup, tx, fileVars>>

\* The last one is unplugged, and the renderer stays; or the GPU itself is.
Unplug(d) ==
  /\ dev[d] # NoDevice
  /\ dev' \in {[dev EXCEPT ![d].outputs = FALSE], [dev EXCEPT ![d] = NoDevice]}
  /\ UNCHANGED <<inForce, overriding, popup, tx, fileVars>>

----------------------------------------------------------------------------
(* Making a configuration the current one. *)

\* Addresses for a new object: the backend lets go of the old one in the same
\* handler, transactions hold on to theirs.
Fresh == Objects \ ({current.id} \cup {tx[t].base : t \in Transactions})

KeymapIgnored(k) == {TRUE}     \* mutant: the result of update_xkb() is ignored
\* Outcomes of update_xkb(); it is not tried when the keyboard stays the same.
KeymapOutcomes(k) ==
  IF k = current.keyboard THEN {TRUE} ELSE IF k \in Keyboards THEN BOOLEAN ELSE {FALSE}

\* set_config() of the compositor and of the backend, and config_changed().
\* txs are the transactions after the handler.
Install(c, txs) ==
  /\ \E id \in Fresh : current' = Config(id, c)
  /\ revision' = (revision + 1) % RevisionMod
  /\ tx' = [t \in Transactions |-> [txs[t] EXCEPT !.fresh = FALSE]]

----------------------------------------------------------------------------
(* Transactions of the window manager protocol. *)

Create(t) ==
  /\ ~tx[t].open
  /\ tx' = [tx EXCEPT ![t] =
       [NoTransaction EXCEPT !.open = TRUE, !.base = current.id, !.draft = Content(current),
                             !.revision = revision, !.fresh = TRUE]]
  /\ UNCHANGED <<inForce, overriding, dev, popup, fileVars>>

\* The setters: the first invalid one spoils the draft, and so does one that
\* comes after the commit.
Edit(t, draft, valid) ==
  /\ tx[t].open
  /\ tx' = [tx EXCEPT ![t] =
       IF @.finished \/ ~valid THEN [@ EXCEPT !.error = TRUE]
       ELSE IF @.error THEN @ ELSE [@ EXCEPT !.draft = draft]]
  /\ UNCHANGED <<inForce, overriding, dev, popup, fileVars>>

StaleByRevision(e) == e.revision # revision    \* mutant: the revision alone
\* Another configuration was applied since the draft was made.
Stale(e) == e.revision # revision \/ e.base # current.id

\* validate()
Valid(draft) == draft.keyboard \in Keyboards /\ draft.shader \in Shaders

Ended(t, result) ==
  [tx EXCEPT ![t].finished = TRUE, ![t].error = (result = "failed"), ![t].result = result]

Refused(t) ==
  /\ tx' = Ended(t, "failed")
  /\ UNCHANGED <<inForce, overriding>>

KeymapFails(t, prepared) ==    \* mutant: the prepared programs are kept
  Refused(t) /\ dev' = prepared
\* apply_protocol_config() when set_config() refuses.
KeymapRefused(t, prepared) == Refused(t) /\ dev' = Discard(prepared, Active)

\* commit(): once, and all or nothing.
Commit(t) ==
  /\ tx[t].open
  /\ LET e == tx[t] IN
     \/ /\ e.finished \/ e.error \/ Stale(e) \/ ~Valid(e.draft)
        /\ Refused(t) /\ UNCHANGED dev
     \/ /\ ~(e.finished \/ e.error \/ Stale(e)) /\ Valid(e.draft)
        /\ \E p \in Preparations(e.draft.shader), keyed \in KeymapOutcomes(e.draft.keyboard) :
             CASE ~p.ok -> Refused(t) /\ dev' = p.dev
               [] p.ok /\ ~keyed -> KeymapRefused(t, p.dev)
               [] OTHER -> /\ Install(e.draft, Ended(t, "applied"))
                           /\ overriding' = TRUE
                           /\ dev' = Switched(p.dev)
  /\ UNCHANGED <<popup, fileVars>>

Drop(t) ==
  /\ tx[t].open
  /\ tx' = [tx EXCEPT ![t] = NoTransaction]
  /\ UNCHANGED <<inForce, overriding, dev, popup, fileVars>>

----------------------------------------------------------------------------
(* Reloading. *)

\* apply_config() keeps the shaders a transaction has set.
MergedShader(c) == IF overriding THEN current.shader ELSE c.shader

\* rebuild_switch_shaders() for the shader selection s of the backend
Rebuild(p) ==
  /\ dev' = IF p.ok THEN Switched(p.dev) ELSE p.dev
  /\ popup' = ~p.ok

\* A failure before the configuration is touched: the file does not load, a
\* plugin refuses its options, the environment cannot be set.
LoadFails ==
  /\ popup' = TRUE
  /\ UNCHANGED <<inForce, overriding, dev, tx>>

\* reload(): load, configure the plugins, set the environment, apply_config().
Reload ==
  /\ unseen' = FALSE
  /\ \/ LoadFails
     \/ /\ file \in Files
        /\ \E keyed \in KeymapOutcomes(file.keyboard), p \in Preparations(MergedShader(file)) :
             IF keyed
               THEN Install([file EXCEPT !.shader = MergedShader(file)], tx) /\ Rebuild(p)
               ELSE UNCHANGED <<inForce, dev, popup, tx>>
        /\ UNCHANGED overriding

\* The idle of the watcher.
ReloadIdle ==
  /\ pendingReload /\ pendingReload' = FALSE
  /\ Reload
  /\ UNCHANGED <<file, dir, watchDir, events>>

\* ext_zwwm_manager_v1.reload and .rebuild_switch_shaders
ReloadRequest ==
  /\ Reload
  /\ UNCHANGED <<file, dir, watchDir, events, pendingReload>>
RebuildRequest ==
  /\ \E p \in Preparations(current.shader) : Rebuild(p)
  /\ UNCHANGED <<inForce, overriding, tx, fileVars>>

ErrorTimeout ==
  /\ popup /\ popup' = FALSE
  /\ UNCHANGED <<inForce, overriding, dev, tx, fileVars>>

----------------------------------------------------------------------------
(* The watcher. *)

\* The user makes the directory of the file; its parent is watched.
MakeDirectory ==
  /\ ~dir /\ dir' = TRUE
  /\ events' = events \cup {"dir"}
  /\ UNCHANGED <<inForce, overriding, dev, popup, tx, file, watchDir,
                 pendingReload, unseen>>

\* The user saves or deletes the file.
Save(f) ==
  /\ dir /\ f # file
  /\ file' = f /\ unseen' = TRUE
  /\ events' = IF watchDir THEN events \cup {"file"} ELSE events
  /\ UNCHANGED <<inForce, overriding, dev, popup, tx, dir, watchDir,
                 pendingReload>>

RelevantLater == watchDir /\ "file" \in events  \* mutant: a file made before the watch is not looked for
\* on_inotify(): the new directory is watched from now on, and a file that was
\* made before that is looked for.
Relevant == IF watchDir THEN "file" \in events ELSE "dir" \in events /\ file # None
OnInotify ==
  /\ events # {} /\ events' = {}
  /\ watchDir' = (watchDir \/ "dir" \in events)
  /\ pendingReload' = (pendingReload \/ Relevant)
  /\ UNCHANGED <<inForce, overriding, dev, popup, tx, file, dir, unseen>>

----------------------------------------------------------------------------
ManagerStep ==
  \/ \E t \in Transactions : Create(t) \/ Commit(t) \/ Drop(t)
  \/ \E t \in Transactions, draft \in Drafts, valid \in BOOLEAN : Edit(t, draft, valid)
  \/ ReloadRequest \/ RebuildRequest

LoopStep == ReloadIdle \/ OnInotify \/ ErrorTimeout

WorldStep ==
  \/ MakeDirectory
  \/ \E f \in Files \cup {None} : Save(f)
  \/ \E d \in Devices : Plug(d) \/ Unplug(d)

Next == ManagerStep \/ LoopStep \/ WorldStep
Spec == Init /\ [][Next]_vars

----------------------------------------------------------------------------
Address == Objects \cup {None}

\* Types of the members of WindowManagerProtocol::Impl, ConfigTargets,
\* ConfigReloader and the GPUs.
TypeOK ==
  /\ current \in [id : Objects, keyboard : Keyboards, shader : Shaders]
  /\ overriding \in BOOLEAN
  /\ dev \in [Devices -> [outputs : BOOLEAN, renderer : BOOLEAN,
                          program : Shaders \cup {None}, pending : Shaders \cup {None}]]
  /\ popup \in BOOLEAN /\ revision \in Revisions
  /\ tx \in [Transactions ->
       [open : BOOLEAN, base : Address, draft : AnyDraft \cup {None},
        revision : Revisions \cup {None}, error : BOOLEAN, finished : BOOLEAN,
        result : {"none", "applied", "failed"}, fresh : BOOLEAN]]
  /\ file \in Files \cup {None} /\ dir \in BOOLEAN /\ watchDir \in BOOLEAN
  /\ events \subseteq {"dir", "file"} /\ pendingReload \in BOOLEAN /\ unseen \in BOOLEAN

\* No transaction overwrites a configuration it was not drafted from, however
\* many were applied meanwhile and although revisions wrap around (384).
NoLostUpdate ==
  [][\A t \in Transactions :
       tx[t].result # "applied" /\ tx'[t].result = "applied" => tx[t].fresh]_vars

\* A transaction that is refused, at whichever stage, leaves the configuration
\* in force, the programs of every GPU and what managers know as they were.
RefusalIsClean ==
  \A t \in Transactions :
    ~tx[t].finished /\ tx'[t].finished /\ tx'[t].result = "failed"
      => UNCHANGED <<inForce, overriding, dev, popup>>
RefusedChangesNothing == [][RefusalIsClean]_vars

\* A GPU holds prepared programs only during a handler: none is switched later
\* by somebody else's commit.
NothingPending == \A d \in Devices : dev[d].pending = None

\* What a transaction did when it was applied.
Applies(t) == tx[t].result # "applied" /\ tx'[t].result = "applied"
\* What the watcher did when it made a configuration the current one.
Reloads == pendingReload /\ ~pendingReload' /\ current'.id # current.id

\* After a transaction that was applied, and a reload that showed no error,
\* every GPU with outputs runs the selected programs.
AppliedEverywhere ==
  (\E t \in Transactions : Applies(t)) \/ (Reloads /\ ~popup')
    => \A d \in Active : dev'[d].program = current'.shader

\* Once a transaction has set the shaders, no reload takes them back.
ShadersKept ==
  overriding /\ current'.shader # current.shader => \E t \in Transactions : Applies(t)

\* An edit of the file is not forgotten, whatever the watcher was doing.
NoEditLost == unseen /\ file # None => pendingReload \/ events # {}

\* No GPU is left with shaders prepared, and no edit is lost.
NothingHalfDone == NothingPending /\ NoEditLost

\* A handler that refuses changes nothing, one that accepts reaches every GPU
\* and keyboard, and a reload keeps the shaders a client has set.
HandlersAreWhole == [][RefusalIsClean /\ AppliedEverywhere /\ ShadersKept]_vars

-----------------------------------------------------------------------------
(* For TLC: few contents, and interchangeable addresses and GPUs.          *)
CONSTANTS us, de, plain, round

MCFiles == {[keyboard |-> us, shader |-> round], [keyboard |-> BadKeyboard, shader |-> plain]}
MCDrafts == {[keyboard |-> de, shader |-> plain], [keyboard |-> us, shader |-> round],
             [keyboard |-> BadKeyboard, shader |-> BadShader]}

Symmetry == Permutations(Objects) \cup Permutations(Devices)
=============================================================================
