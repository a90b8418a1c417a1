----------------------------- MODULE RulesProofs -----------------------------
(***************************************************************************)
(* The rules files.  First, what rulescache.Sync keeps for any number of   *)
(* sessions, plugins, texts and edits: syncs decide on what they read      *)
(* under the lock and write it some steps later, and the inductive         *)
(* invariant says what is still true of that reading when the write comes. *)
(* Then init, update and the loop around them, for any trackers, versions, *)
(* flags, edits, releases and deaths: what a config.yaml said is never     *)
(* lost, the adapter follows the .env, "done" is true, and no run takes a  *)
(* person's work.                                                          *)
(***************************************************************************)
EXTENDS RulesCache, Upkeep, TLAPS

(* The sessions whose Sync has decided to touch the file, or its key.      *)
Replacing == {"backup", "write"}
Working == Replacing \cup {"record"}

ReleasedGrows == plugins \subseteq known

(* The plugin at work was installed once, so that its text is a release.   *)
RootReleased == \A s \in Sessions : stage[s] \in Working => root[s] \in known

(* The gate that was passed under the lock is the gate of the key there is *)
(* now: nobody else writes the key meanwhile.                              *)
GatePassed ==
  \A s \in Sessions : stage[s] \in Replacing =>
    /\ saw[s].key = rulesKey
    /\ saw[s].copy = NoText
         \/ VersionIn[RulesAt[root[s]]] >= Gate(saw[s].copy, rulesKey, saw[s].installed)

(* What is about to be replaced is a release, or has its backup.           *)
Kept ==
  \A s \in Sessions : stage[s] = "write" =>
    saw[s].copy = NoText \/ saw[s].copy \in Shipped \cup backups

(* Only a text that was there gets a backup.                               *)
BackupReal == \A s \in Sessions : stage[s] = "backup" => saw[s].copy \in Texts

Holding == OneWriter /\ ReleasedGrows /\ KeyGrounded
Planned == RootReleased /\ GatePassed /\ Kept /\ BackupReal
SyncInv == RulesTypeOK /\ Holding /\ Planned

-----------------------------------------------------------------------------
(* The key a trusted plugin leaves is its own.                             *)
LEMMA KeyForType ==
  ASSUME NEW r \in Roots
  PROVE  /\ KeyFor(r) \in Keys
         /\ KeyFor(r).from = r
  BY RulesAssumption DEF KeyFor, Keys

(* A replacement is decided only for a trusted plugin at or above the gate *)
(* of what it replaces; a first copy only for a trusted plugin.            *)
LEMMA CreateSound ==
  ASSUME NEW r, NEW c, NEW k, NEW inst, NEW cr \in BOOLEAN,
         Verdict(r, c, k, inst, cr) = "create"
  PROVE  r \in inst /\ c = NoText
  BY SMT DEF Verdict, Trusted

LEMMA ReplaceSound ==
  ASSUME NEW r, NEW c, NEW k, NEW inst, NEW cr \in BOOLEAN,
         Verdict(r, c, k, inst, cr) = "replace"
  PROVE  r \in inst /\ c # NoText /\ ~(VersionIn[RulesAt[r]] < Gate(c, k, inst))
  BY SMT DEF Verdict, Trusted

(* LETS content is a release: the key's own text, or an installed one's.   *)
LEMMA ProvableShipped ==
  ASSUME KeyGrounded, ReleasedGrows, NEW t, t # NoText, Provable(t, rulesKey, plugins)
  PROVE  t \in Shipped
  BY DEF KeyGrounded, ReleasedGrows, Provable, Pristine, Shipped, NoKey, KeyFor

(* A gate is a version.                                                    *)
LEMMA GateType ==
  ASSUME NEW t \in Texts, NEW k \in Keys \cup {NoKey}, NEW inst
  PROVE  Gate(t, k, inst) \in Nat
  BY RulesAssumption DEF Gate, Keys, NoKey

-----------------------------------------------------------------------------
(* The inductive invariant.                                                *)

LEMMA SyncStarts == SyncInit => SyncInv
  BY RulesAssumption, BoundsAssumption
     DEF SyncInit, SyncInv, RulesTypeOK, Holding, Planned, OneWriter, ReleasedGrows,
         RootReleased, KeyGrounded, GatePassed, Kept, BackupReal, Replacing, Working,
         Stages, Views, NoView, Budgets, Keys

(* Each step keeps the types.                                              *)
LEMMA TypeStep == SyncInv /\ [SyncNext]_rulesVars => RulesTypeOK'
<1> SUFFICES ASSUME RulesTypeOK, Planned, [SyncNext]_rulesVars
             PROVE  RulesTypeOK'
  BY DEF SyncInv
<1> USE DEF RulesTypeOK
<1>v. NoView \in Views
  BY RulesAssumption DEF NoView, Views, NoKey
<1>e. ASSUME NEW s \in Sessions, End(s)
      PROVE  /\ stage' \in [Sessions -> Stages]
             /\ root' \in [Sessions -> Roots \cup {NoRoot}]
             /\ create' \in [Sessions -> BOOLEAN]
             /\ saw' \in [Sessions -> Views]
  BY <1>e, <1>v DEF End, Goto, Stages
<1>s. ASSUME NEW k \in Budgets, Spend(k)
      PROVE  taken' \in [Budgets -> Nat]
  BY <1>s DEF Spend, Limit
<1>k. {"syncs", "edits", "installs", "faults"} \subseteq Budgets
  BY DEF Budgets
<1>1. ASSUME NEW s \in Sessions, Start(s)
      PROVE  RulesTypeOK'
  BY <1>1, <1>s, <1>k, RulesAssumption DEF Start, Goto, Stages
<1>2. ASSUME NEW s \in Sessions, NotInUse(s) \/ Busy(s) \/ Unlock(s)
      PROVE  RulesTypeOK'
  BY <1>2, <1>e DEF NotInUse, Busy, Unlock
<1>3. ASSUME NEW s \in Sessions, Lock(s)
      PROVE  RulesTypeOK'
  BY <1>3 DEF Lock, Goto, Stages
<1>4. ASSUME NEW s \in Sessions, Decide(s)
      PROVE  RulesTypeOK'
  <2>1. [key |-> rulesKey, copy |-> rulesCopy, installed |-> plugins] \in Views
    BY DEF Views
  <2>2. stage' \in [Sessions -> Stages]
    BY <1>4 DEF Decide, Goto, Stages
  <2> QED
    BY <1>4, <2>1, <2>2 DEF Decide
<1>5. ASSUME NEW s \in Sessions, Backup(s)
      PROVE  RulesTypeOK'
  BY <1>5 DEF Backup, Goto, Stages, Planned, BackupReal
<1>6. ASSUME NEW s \in Sessions, Write(s) \/ Record(s)
      PROVE  RulesTypeOK'
  <2>1. root[s] \in Roots
    BY <1>6 DEF Write, Record, Planned, RootReleased, Working, Replacing
  <2>2. CASE Write(s)
    BY <2>1, <2>2, RulesAssumption DEF Write, Goto, Stages
  <2>3. CASE Record(s)
    BY <2>1, <2>3, KeyForType DEF Record, Goto, Stages
  <2> QED
    BY <1>6, <2>2, <2>3
<1>7. ASSUME NEW s \in Sessions, Fails(s)
      PROVE  RulesTypeOK'
  BY <1>7, <1>s, <1>k DEF Fails, Goto, Stages
<1>8. ASSUME NEW s \in Sessions, SyncDies(s)
      PROVE  RulesTypeOK'
  BY <1>8, <1>e, <1>s, <1>k DEF SyncDies
<1>9. CASE Edited
  BY <1>9, <1>s, <1>k DEF Edited
<1>10. ASSUME NEW r \in Roots, PluginAdded(r) \/ PluginPruned(r)
       PROVE  RulesTypeOK'
  BY <1>10, <1>s, <1>k DEF PluginAdded, PluginPruned
<1>11. CASE UNCHANGED rulesVars
  BY <1>11 DEF rulesVars
<1> QED
  BY <1>1, <1>2, <1>3, <1>4, <1>5, <1>6, <1>7, <1>8, <1>9, <1>10, <1>11 DEF SyncNext, Sync

(* A step in which a session s leaves the work, or stays out of it, and    *)
(* nobody writes the key, disturbs nobody's plan.                          *)
LEMMA PlansStay ==
  ASSUME SyncInv, NEW s \in Sessions,
         \A t \in Sessions \ {s} : /\ stage'[t] = stage[t] /\ root'[t] = root[t]
                                   /\ saw'[t] = saw[t],
         stage'[s] \notin Working,
         rulesKey' = rulesKey, known \subseteq known', backups \subseteq backups'
  PROVE  Planned'
<1>1. Shipped \subseteq Shipped'
  BY DEF Shipped
<1>2. \A t \in Sessions : stage'[t] \in Working => t # s
  OBVIOUS
<1>3. RootReleased' /\ BackupReal'
  BY <1>2 DEF SyncInv, Planned, RootReleased, BackupReal, Working, Replacing
<1>4. GatePassed'
  BY <1>2 DEF SyncInv, Planned, GatePassed, Working, Replacing
<1>5. ASSUME NEW t \in Sessions, stage'[t] = "write"
      PROVE  saw'[t].copy = NoText \/ saw'[t].copy \in Shipped' \cup backups'
  <2>1. t # s
    BY <1>2, <1>5 DEF Working, Replacing
  <2>2. saw[t].copy = NoText \/ saw[t].copy \in Shipped \cup backups
    BY <2>1, <1>5 DEF SyncInv, Planned, Kept
  <2> QED
    BY <1>1, <2>1, <2>2
<1> QED
  BY <1>3, <1>4, <1>5 DEF Planned, Kept

(* Nobody else is at work beside the holder of the lock.                   *)
LEMMA Alone ==
  ASSUME OneWriter, NEW s \in Sessions, stage[s] \notin {"idle", "start"},
         NEW t \in Sessions \ {s}
  PROVE  stage[t] \in {"idle", "start"}
  BY DEF OneWriter

(* One writer at a time: only the holder of the lock leaves "start".       *)
LEMMA OneWriterStep == SyncInv /\ [SyncNext]_rulesVars => OneWriter'
<1> SUFFICES ASSUME SyncInv, [SyncNext]_rulesVars
             PROVE  OneWriter'
  OBVIOUS
<1> USE DEF SyncInv, RulesTypeOK, Holding, OneWriter
<1>1. ASSUME NEW s \in Sessions, Start(s) \/ NotInUse(s) \/ Busy(s)
      PROVE  OneWriter'
  BY <1>1 DEF Start, NotInUse, Busy, End, Goto
<1>2. ASSUME NEW s \in Sessions, Lock(s)
      PROVE  OneWriter'
  BY <1>2, BoundsAssumption DEF Lock, Goto
<1>3. ASSUME NEW s \in Sessions,
             Decide(s) \/ Backup(s) \/ Write(s) \/ Record(s) \/ Fails(s)
      PROVE  OneWriter'
  BY <1>3 DEF Decide, Backup, Write, Record, Fails, Goto
<1>4. ASSUME NEW s \in Sessions, Unlock(s) \/ SyncDies(s)
      PROVE  OneWriter'
  BY <1>4 DEF Unlock, SyncDies, End, Goto
<1>5. ASSUME Edited \/ (\E r \in Roots : PluginAdded(r) \/ PluginPruned(r))
                    \/ UNCHANGED rulesVars
      PROVE  OneWriter'
  BY <1>5 DEF Edited, PluginAdded, PluginPruned, rulesVars
<1> QED
  BY <1>1, <1>2, <1>3, <1>4, <1>5 DEF SyncNext, Sync

(* The key is written by a released plugin, with its own text.             *)
LEMMA GroundedStep == SyncInv /\ [SyncNext]_rulesVars => (ReleasedGrows /\ KeyGrounded)'
<1> SUFFICES ASSUME SyncInv, [SyncNext]_rulesVars
             PROVE  (ReleasedGrows /\ KeyGrounded)'
  OBVIOUS
<1> USE DEF SyncInv, Holding, ReleasedGrows, KeyGrounded
<1>1. ASSUME NEW s \in Sessions, Record(s)
      PROVE  (ReleasedGrows /\ KeyGrounded)'
  <2>1. root[s] \in known /\ known \subseteq Roots
    BY <1>1 DEF Record, Planned, RootReleased, Working, RulesTypeOK
  <2>2. rulesKey' = KeyFor(root[s]) /\ UNCHANGED <<plugins, known>>
    BY <1>1 DEF Record
  <2>3. KeyFor(root[s]).from = root[s]
    BY <2>1, KeyForType
  <2> QED
    BY <2>1, <2>2, <2>3
<1>2. ASSUME rulesKey' = rulesKey, plugins' \subseteq known', known \subseteq known'
      PROVE  (ReleasedGrows /\ KeyGrounded)'
  BY <1>2
<1>3. ASSUME NEW s \in Sessions, Sync(s), ~Record(s)
      PROVE  rulesKey' = rulesKey /\ plugins' = plugins /\ known' = known
  BY <1>3 DEF Sync, Start, NotInUse, Busy, Lock, Decide, Backup, Write, Fails, Unlock,
              SyncDies
<1>4. ASSUME Edited \/ (\E r \in Roots : PluginAdded(r) \/ PluginPruned(r))
                    \/ UNCHANGED rulesVars
      PROVE  rulesKey' = rulesKey /\ plugins' \subseteq known' /\ known \subseteq known'
  BY <1>4 DEF Edited, PluginAdded, PluginPruned, rulesVars
<1> QED
  BY <1>1, <1>2, <1>3, <1>4 DEF SyncNext

(* Only the holder s works, in this step and after it: its own plan is all *)
(* there is to show.                                                       *)
LEMMA OwnPlan ==
  ASSUME SyncInv, NEW s \in Sessions, stage[s] \notin {"idle", "start"},
         \A t \in Sessions \ {s} : stage'[t] = stage[t],
         stage'[s] \in Working => root'[s] \in known',
         stage'[s] \in Replacing =>
           /\ saw'[s].key = rulesKey'
           /\ saw'[s].copy = NoText
                \/ VersionIn[RulesAt[root'[s]]]
                     >= Gate(saw'[s].copy, rulesKey', saw'[s].installed),
         stage'[s] = "write" => saw'[s].copy = NoText \/ saw'[s].copy \in Shipped' \cup backups',
         stage'[s] = "backup" => saw'[s].copy \in Texts
  PROVE  Planned'
<1>1. \A t \in Sessions \ {s} : stage'[t] \in {"idle", "start"}
  BY Alone DEF SyncInv, Holding
<1>2. \A t \in Sessions : stage'[t] \in Working => t = s
  BY <1>1 DEF Working, Replacing
<1>3. RootReleased'
  BY <1>2 DEF RootReleased
<1>4. GatePassed'
  BY <1>2 DEF GatePassed, Working
<1>5. Kept'
  BY <1>2 DEF Kept, Working, Replacing
<1>6. BackupReal'
  BY <1>2 DEF BackupReal, Working, Replacing
<1> QED
  BY <1>3, <1>4, <1>5, <1>6 DEF Planned

(* What Decide plans rests on what it just read.                           *)
LEMMA DecidePlans ==
  ASSUME SyncInv, NEW s \in Sessions, Decide(s)
  PROVE  Planned'
<1> DEFINE r == root[s]
           v == Verdict(r, rulesCopy, rulesKey, plugins, create[s])
<1> USE DEF SyncInv, RulesTypeOK
<1>1. /\ stage[s] \notin {"idle", "start"}
      /\ \A t \in Sessions \ {s} : stage'[t] = stage[t]
      /\ root' = root /\ rulesKey' = rulesKey /\ known' = known /\ backups' = backups
      /\ saw'[s] = [key |-> rulesKey, copy |-> rulesCopy, installed |-> plugins]
  BY DEF Decide, Goto
<1>2. /\ stage'[s] = "record" => Trusted(r, plugins)
      /\ stage'[s] = "write" =>
           v = "create" \/ (v = "replace" /\ Provable(rulesCopy, rulesKey, plugins))
      /\ stage'[s] = "backup" => v = "replace"
  <2> DEFINE rekeys == Rekeys(r, rulesKey, plugins)
             provable == Provable(rulesCopy, rulesKey, plugins)
  <2>0. \/ v = "equal" /\ rekeys /\ Goto(s, "record")
        \/ v = "equal" /\ ~rekeys /\ Goto(s, "unlock")
        \/ v = "create" /\ Goto(s, "write")
        \/ v = "replace" /\ provable /\ Goto(s, "write")
        \/ v = "replace" /\ ~provable /\ Goto(s, "backup")
        \/ v \notin {"equal", "create", "replace"} /\ Goto(s, "unlock")
    BY Zenon DEF Decide
  <2>1. \/ rekeys /\ stage' = [stage EXCEPT ![s] = "record"]
        \/ v = "create" /\ stage' = [stage EXCEPT ![s] = "write"]
        \/ v = "replace" /\ provable /\ stage' = [stage EXCEPT ![s] = "write"]
        \/ v = "replace" /\ stage' = [stage EXCEPT ![s] = "backup"]
        \/ stage' = [stage EXCEPT ![s] = "unlock"]
    <3> HIDE DEF v, rekeys, provable, SyncInv, RulesTypeOK
    <3> QED
      BY <2>0, Zenon DEF Goto
  <2>2. stage \in [Sessions -> Stages]
    OBVIOUS
  <2>3. (rekeys => Trusted(r, plugins)) /\ (provable => Provable(rulesCopy, rulesKey, plugins))
    BY DEF Rekeys
  <2> HIDE DEF v, rekeys, provable
  <2> QED
    BY <2>1, <2>2, <2>3
<1>3. v = "create" => r \in plugins /\ rulesCopy = NoText
  BY CreateSound
<1>4. v = "replace" => r \in plugins /\ rulesCopy # NoText
                         /\ ~(VersionIn[RulesAt[r]] < Gate(rulesCopy, rulesKey, plugins))
  BY ReplaceSound
<1>5. stage'[s] \in Working => root'[s] \in known'
  BY <1>1, <1>2, <1>3, <1>4 DEF Working, Replacing, Trusted, Holding, ReleasedGrows
<1>6. v = "replace" => VersionIn[RulesAt[r]] >= Gate(rulesCopy, rulesKey, plugins)
  <2> SUFFICES ASSUME v = "replace"
               PROVE  VersionIn[RulesAt[r]] >= Gate(rulesCopy, rulesKey, plugins)
    OBVIOUS
  <2>1. Gate(rulesCopy, rulesKey, plugins) \in Nat
    BY <1>4, GateType
  <2>2. VersionIn[RulesAt[r]] \in Nat
    BY <1>4, RulesAssumption
  <2> QED
    BY <1>4, <2>1, <2>2
<1>7. stage'[s] \in Replacing =>
        /\ saw'[s].key = rulesKey'
        /\ saw'[s].copy = NoText
             \/ VersionIn[RulesAt[root'[s]]]
                  >= Gate(saw'[s].copy, rulesKey', saw'[s].installed)
  <2> HIDE DEF v, SyncInv, RulesTypeOK
  <2> QED
    BY <1>1, <1>2, <1>3, <1>6 DEF Replacing
<1>8. stage'[s] = "write" => saw'[s].copy = NoText \/ saw'[s].copy \in Shipped' \cup backups'
  <2>1. Provable(rulesCopy, rulesKey, plugins) /\ rulesCopy # NoText => rulesCopy \in Shipped
    BY ProvableShipped DEF Holding
  <2>2. Shipped' = Shipped
    BY <1>1 DEF Shipped
  <2> HIDE DEF v, SyncInv, RulesTypeOK
  <2> QED
    BY <1>1, <1>2, <1>3, <2>1, <2>2
<1>9. stage'[s] = "backup" => saw'[s].copy \in Texts
  BY <1>1, <1>2, <1>4
<1> HIDE DEF SyncInv, RulesTypeOK
<1> QED
  BY <1>1, <1>5, <1>7, <1>8, <1>9, OwnPlan

LEMMA PlannedStep == SyncInv /\ [SyncNext]_rulesVars => Planned'
<1> SUFFICES ASSUME SyncInv, [SyncNext]_rulesVars
             PROVE  Planned'
  OBVIOUS
<1>t. RulesTypeOK
  BY DEF SyncInv
<1>1. ASSUME NEW s \in Sessions, Backup(s)
      PROVE  Planned'
  <2>1. /\ stage[s] = "backup" /\ stage'[s] = "write"
        /\ \A t \in Sessions \ {s} : stage'[t] = stage[t]
        /\ UNCHANGED <<root, saw, rulesKey, known>>
        /\ saw[s].copy \in backups'
    BY <1>1, <1>t DEF Backup, Goto, RulesTypeOK
  <2>2. /\ root[s] \in known /\ saw[s].key = rulesKey
        /\ saw[s].copy = NoText
             \/ VersionIn[RulesAt[root[s]]] >= Gate(saw[s].copy, rulesKey, saw[s].installed)
    BY <2>1 DEF SyncInv, Planned, RootReleased, GatePassed, Working, Replacing
  <2> QED
    BY <2>1, <2>2, OwnPlan
<1>2. ASSUME NEW s \in Sessions, Write(s)
      PROVE  Planned'
  <2>1. /\ stage[s] = "write" /\ stage'[s] = "record"
        /\ \A t \in Sessions \ {s} : stage'[t] = stage[t]
        /\ UNCHANGED <<root, known>>
    BY <1>2, <1>t DEF Write, Goto, RulesTypeOK
  <2>2. root[s] \in known
    BY <2>1 DEF SyncInv, Planned, RootReleased, Working, Replacing
  <2> QED
    BY <2>1, <2>2, OwnPlan DEF Replacing
<1>3. ASSUME NEW s \in Sessions, Record(s)
      PROVE  Planned'
  <2>1. /\ stage[s] = "record" /\ stage'[s] = "unlock"
        /\ \A t \in Sessions \ {s} : stage'[t] = stage[t]
    BY <1>3, <1>t DEF Record, Goto, RulesTypeOK
  <2> QED
    BY <2>1, OwnPlan DEF Replacing, Working
<1>4. ASSUME NEW s \in Sessions,
             Start(s) \/ NotInUse(s) \/ Busy(s) \/ Lock(s) \/ Fails(s) \/ Unlock(s) \/ SyncDies(s)
      PROVE  Planned'
  <2>1. /\ stage'[s] \in {"start", "idle", "locked", "unlock"}
        /\ \A t \in Sessions \ {s} : /\ stage'[t] = stage[t] /\ root'[t] = root[t]
                                     /\ saw'[t] = saw[t]
        /\ rulesKey' = rulesKey /\ known' = known /\ backups' = backups
    BY <1>4, <1>t DEF Start, NotInUse, Busy, Lock, Fails, Unlock, SyncDies, End, Goto, RulesTypeOK
  <2>2. stage'[s] \notin Working
    BY <2>1 DEF Working, Replacing
  <2> QED
    BY <2>1, <2>2, PlansStay
<1>5. ASSUME Edited \/ (\E r \in Roots : PluginAdded(r) \/ PluginPruned(r))
                    \/ UNCHANGED rulesVars
      PROVE  Planned'
  <2>1. UNCHANGED <<rulesKey, backups, stage, root, saw>> /\ known \subseteq known'
    BY <1>5 DEF Edited, PluginAdded, PluginPruned, rulesVars
  <2>2. Shipped \subseteq Shipped'
    BY <2>1 DEF Shipped
  <2> QED
    BY <2>1, <2>2 DEF SyncInv, Planned, RootReleased, GatePassed, Kept, BackupReal
<1> QED
  BY <1>1, <1>2, <1>3, <1>4, <1>5, DecidePlans DEF SyncNext, Sync

LEMMA SyncInductive == SyncInv /\ [SyncNext]_rulesVars => SyncInv'
  BY TypeStep, OneWriterStep, GroundedStep, PlannedStep DEF SyncInv, Holding

(* The plan of every Sync at work still stands, in every reachable state.  *)
THEOREM SyncInvariance == RulesSpec => []SyncInv
  BY SyncStarts, SyncInductive, PTL DEF RulesSpec

-----------------------------------------------------------------------------
(* What the invariant gives, for any number of sessions, plugins, texts    *)
(* and edits.                                                              *)

(* Every variable of the rules cache keeps its type.                       *)
THEOREM RulesTyped == RulesSpec => []RulesTypeOK
<1>1. SyncInv => RulesTypeOK
  BY DEF SyncInv
<1> QED
  BY <1>1, SyncInvariance, PTL

(* Two syncs never work on the file, its backups or its key at once: the   *)
(* lock of rulescache.Sync does what the rest relies on.                   *)
THEOREM OneAtATime == RulesSpec => []OneWriter
<1>1. SyncInv => OneWriter
  BY DEF SyncInv, Holding
<1> QED
  BY <1>1, SyncInvariance, PTL

(* The key of rules-cache.json is always one an installed plugin wrote for *)
(* its own text.                                                           *)
THEOREM KeyIsGrounded == RulesSpec => []KeyGrounded
<1>1. SyncInv => KeyGrounded
  BY DEF SyncInv, Holding
<1> QED
  BY <1>1, SyncInvariance, PTL

(* Only Write replaces the file on the way from "write" to "record".       *)
LEMMA ReplaceIsWrite ==
  ASSUME SyncInv, [SyncNext]_rulesVars, NEW s \in Sessions, Replaces(s)
  PROVE  Write(s)
<1> USE DEF SyncInv, RulesTypeOK, Replaces
<1>1. ASSUME NEW t \in Sessions, Sync(t)
      PROVE  Write(s)
  <2>1. Write(t) /\ t = s
    BY <1>1 DEF Sync, Start, NotInUse, Busy, Lock, Decide, Backup, Write, Record, Fails,
                Unlock, SyncDies, End, Goto
  <2> QED
    BY <2>1
<1>2. ASSUME Edited \/ (\E r \in Roots : PluginAdded(r) \/ PluginPruned(r))
                    \/ UNCHANGED rulesVars
      PROVE  FALSE
  BY <1>2 DEF Edited, PluginAdded, PluginPruned, rulesVars
<1> QED
  BY <1>1, <1>2 DEF SyncNext

(* A person's own text is in a backup, or was put there after the sync had *)
(* read the file, when a sync replaces it.                                 *)
THEOREM BackedUp == RulesSpec => EditsBackedUp
<1>1. ASSUME SyncInv, [SyncNext]_rulesVars, NEW s \in Sessions, Replaces(s)
      PROVE  rulesCopy = NoText \/ rulesCopy \in Shipped \cup backups \/ rulesCopy # saw[s].copy
  BY <1>1 DEF SyncInv, Planned, Kept, Replaces
<1>2. SyncInv /\ [SyncNext]_rulesVars =>
        [\A s \in Sessions : Replaces(s) =>
           \/ rulesCopy = NoText
           \/ rulesCopy \in Shipped \cup backups
           \/ rulesCopy # saw[s].copy]_rulesVars
  BY <1>1
<1> QED
  BY <1>2, SyncInvariance, PTL DEF RulesSpec, EditsBackedUp

(* No sync replaces a release, or what the key names, by an older version. *)
THEOREM NeverBack == RulesSpec => ForwardOnly
<1>1. ASSUME SyncInv, [SyncNext]_rulesVars, NEW s \in Sessions, Replaces(s),
             rulesCopy = saw[s].copy, rulesCopy # NoText
      PROVE  IF rulesCopy # rulesKey.text /\ \E r \in saw[s].installed : RulesAt[r] = rulesCopy
             THEN VersionIn[rulesCopy'] >= VersionIn[rulesCopy]
             ELSE VersionIn[rulesCopy'] >= rulesKey.version
  <2>1. Write(s)
    BY <1>1, ReplaceIsWrite
  <2>a. stage[s] = "write" /\ rulesCopy' = RulesAt[root[s]]
    BY <2>1 DEF Write
  <2>b. root[s] \in known
    BY <1>1, <2>a DEF SyncInv, Planned, RootReleased, Working, Replacing
  <2>2. /\ root[s] \in Roots /\ rulesCopy' = RulesAt[root[s]]
        /\ saw[s].copy = rulesCopy /\ rulesCopy \in Texts /\ rulesKey \in Keys \cup {NoKey}
    BY <1>1, <2>a, <2>b DEF SyncInv, RulesTypeOK
  <2>3. VersionIn[rulesCopy'] >= Gate(rulesCopy, rulesKey, saw[s].installed)
    BY <1>1, <2>1, <2>2 DEF Write, SyncInv, Planned, GatePassed, Replacing
  <2>4. VersionIn[rulesCopy'] \in Nat /\ VersionIn[rulesCopy] \in Nat /\ rulesKey.version \in Nat
    BY <2>2, RulesAssumption DEF Keys, NoKey
  <2>5. CASE rulesCopy # rulesKey.text /\ \E r \in saw[s].installed : RulesAt[r] = rulesCopy
    <3>1. VersionIn[rulesCopy] > 0 =>
            Gate(rulesCopy, rulesKey, saw[s].installed) = VersionIn[rulesCopy]
      BY <2>5 DEF Gate, Pristine
    <3> QED
      BY <2>3, <2>4, <2>5, <3>1
  <2>6. CASE ~(rulesCopy # rulesKey.text /\ \E r \in saw[s].installed : RulesAt[r] = rulesCopy)
    <3>1. Gate(rulesCopy, rulesKey, saw[s].installed) = rulesKey.version
      BY <2>6 DEF Gate, Pristine
    <3> QED
      BY <2>3, <2>4, <2>6, <3>1
  <2> QED
    BY <2>5, <2>6
<1>2. SyncInv /\ [SyncNext]_rulesVars =>
        [\A s \in Sessions : Replaces(s) /\ rulesCopy = saw[s].copy /\ rulesCopy # NoText =>
           IF rulesCopy # rulesKey.text /\ \E r \in saw[s].installed : RulesAt[r] = rulesCopy
           THEN VersionIn[rulesCopy'] >= VersionIn[rulesCopy]
           ELSE VersionIn[rulesCopy'] >= rulesKey.version]_rulesVars
  BY <1>1
<1> QED
  BY <1>2, SyncInvariance, PTL DEF RulesSpec, ForwardOnly

-----------------------------------------------------------------------------
(***************************************************************************)
(* init and update                                                         *)
(***************************************************************************)
(* Types.                                                                  *)
UpdateSteps == {".env", "rules", "user-rules", "clean", "board", "adapter", "report"}
InitSteps == {"shim", "migrate", "unlink", ".env", "files", "rules", "clean", "adapter", "board"}
Statuses == {"none", "unknown", "outdated", "ok", "skipped", "uninit", "deferred", "updated",
             "delegated", "pending"}
Kinds == {"rerun", "init", "init-user", "binary", "reload", "plugin", "main-checkout",
          "new-session", "user-rules", "done"}
Runs == [doing : {"none", "update", "init"}, at : UpdateSteps \cup InitSteps \cup {"end"},
         flags : Values, root : Roots \cup {NoText}, verified : BOOLEAN,
         seen : Versions \cup {0}, rows : [RowNames -> Statuses]]
Languages == (Settings \cup {"none"}) \ {""}

ProjectTypeOK ==
  /\ env \in [version : Versions \cup {0}, values : Values]
  /\ legacy \in Languages /\ owed \in Languages
  /\ rules \in Texts \cup {NoText}
  /\ adapter \in [Trackers -> Nat]
  /\ board \in [Trackers -> {"none", "template", "edited"}]
  /\ owned \in [OwnFiles -> {"absent", "stale", "lets", "foreign"}]
  /\ left \subseteq ShippedTrackers

MachineTypeOK ==
  /\ home \in Values
  /\ copy \in Texts \cup {NoText} /\ key \in Keys \cup {NoKey}
  /\ {binary, released} \subseteq Versions /\ fetched \in Versions \cup {0}
  /\ installed \subseteq Versions
  /\ loaded \in RootsOf(Versions) \cup Checkouts

RunTypeOK ==
  /\ run \in Runs /\ (run.doing # "none" => run.root \in Roots)
  /\ next \in Kinds
  /\ spent \in [edits : Nat, deaths : Nat]

UpkeepTypeOK == ProjectTypeOK /\ MachineTypeOK /\ RunTypeOK

(* Of the installed versions one is the newest.                            *)
NewestThere == \E v \in installed : \A w \in installed : w <= v

(* Without a .env there are no values; an update has no flags, and the     *)
(* roots it resolved at its start stay the ones of the session.            *)
RunKnows ==
  /\ env.version = 0 => env.values = Blank
  /\ run.doing = "update" => /\ run.flags = Blank /\ next = "rerun" /\ run.at \in UpdateSteps
                             /\ run.root = Resolved(loaded) /\ run.verified = Verified(loaded)

(* A language that is owed is in the .env, once there is one; and where    *)
(* config.yaml is about to go, there is one.                               *)
OwedInPlace ==
  /\ owed \in PlainLanguages =>
       IF env.version = 0 THEN legacy = owed ELSE env.values["language"] = owed
  /\ run.doing = "init" /\ run.at = "unlink" => env.version > 0 \/ legacy = "none"

(* The project's rules are those of root r.                                *)
RulesOf(r) == rules # NoText /\ VersionIn[rules] = VersionOf(r)

(* The global copy is that of the newest plugin, and its key says so.      *)
InForce ==
  /\ copy = RulesAt[RootOf[Newest]] /\ key.text = copy
  /\ key.version = VersionOf(RootOf[Newest])

After(steps) == run.doing = "update" /\ run.at \notin steps

(* What the rows of an update say holds until its report.                  *)
RowsTrue ==
  /\ After({".env"}) =>
       /\ run.rows[".env"] \in {"skipped", "uninit", "ok"}
       /\ run.rows[".env"] = "ok" => env.version = binary
       /\ run.rows[".env"] = "skipped" => inWorktree
  /\ After({".env", "rules"}) =>
       /\ run.rows["rules"] \in {"skipped", "delegated", "uninit", "deferred", "updated", "ok"}
       /\ inWorktree => run.rows["rules"] = "skipped"
       /\ run.rows["rules"] = "ok" => RulesOf(run.root)
       /\ run.rows["rules"] = "delegated" => copy # NoText
  /\ After({".env", "rules", "user-rules"}) =>
       /\ run.rows["user-rules"] \in {"none", "ok", "pending", "unknown"}
       /\ run.rows["user-rules"] = "none" => run.rows["rules"] # "delegated"
       /\ run.rows["user-rules"] = "ok" => run.verified /\ InForce

(* The shipped adapters while an update of the main checkout replaces them. *)
OthersGone ==
  Active \notin left /\ \A n \in ShippedTrackers \ left : n # Active => adapter[n] = 0
AdaptersSwap ==
  ~inWorktree /\ Ships =>
    /\ run.doing = "update" /\ run.at \in {"board", "adapter", "report"} => OthersGone
    /\ \/ run.doing = "update" /\ run.at = "report"
       \/ Resting /\ next # "rerun"
       => OthersGone /\ adapter[Active] > 0

(* "done" and what keeps it true.                                          *)
DoneHolds ==
  next = "done" =>
    /\ run.doing # "update"
    /\ Resting =>
        /\ ~inWorktree /\ env.version = binary
        /\ loaded \in Checkouts \/ ~indexed \/ loaded = RootOf[Newest]
        /\ \/ RulesOf(loaded)
           \/ Verified(loaded) /\ loaded = RootOf[Newest] /\ InForce

IInv ==
  UpkeepTypeOK /\ NewestThere /\ RunKnows /\ OwedInPlace /\ RowsTrue /\ AdaptersSwap /\ DoneHolds

-----------------------------------------------------------------------------
(* Constants and runs.                                                     *)

LEMMA BlankIsBlank == Blank \in Values /\ \A k \in EnvKeys : Blank[k] = ""
  BY SettingsAssumption DEF Blank

LEMMA MergedType ==
  ASSUME NEW flags \in Values, NEW values \in Values
  PROVE  Merged(flags, values) \in Values
  BY SettingsAssumption DEF Merged, Values, First

LEMMA RootsVersioned ==
  /\ \A v \in Versions : /\ v \in Nat /\ v > 0 /\ RootOf[v] \in Roots \ Checkouts
                         /\ VersionOf(RootOf[v]) = v
  /\ \A r \in Roots : RulesAt[r] \in Texts /\ VersionOf(r) \in Nat
  /\ \A r \in RootsOf(Versions) \cup Checkouts : r \in Roots /\ VersionOf(r) > 0
<1>1. \A v \in Versions : /\ v \in Nat /\ v > 0 /\ RootOf[v] \in Roots \ Checkouts
                         /\ VersionOf(RootOf[v]) = v
  BY UpkeepAssumption DEF VersionOf
<1>2. \A r \in Roots : RulesAt[r] \in Texts /\ VersionOf(r) \in Nat
  BY RulesAssumption DEF VersionOf
<1>3. \A r \in Checkouts : r \in Roots /\ VersionOf(r) > 0
  BY CheckoutsVersioned, RulesAssumption DEF VersionOf
<1> QED BY <1>1, <1>2, <1>3 DEF RootsOf

(* The newest of the installed versions.                                   *)
LEMMA NewestIs ==
  ASSUME NEW vs, vs \subseteq Versions, \E v \in vs : \A w \in vs : w <= v
  PROVE  NewestOf(vs) \in vs /\ \A w \in vs : w <= NewestOf(vs)
  BY DEF NewestOf

LEMMA ResolvedRoot ==
  ASSUME MachineTypeOK, NewestThere
  PROVE  /\ Newest \in installed /\ \A w \in installed : w <= Newest
         /\ Resolved(loaded) \in RootsOf(Versions) \cup Checkouts
<1>1. Newest \in installed /\ \A w \in installed : w <= Newest
  BY NewestIs DEF MachineTypeOK, NewestThere, Newest
<1>2. RootOf[Newest] \in RootsOf(Versions)
  BY <1>1 DEF MachineTypeOK, RootsOf
<1> QED BY <1>1, <1>2 DEF Resolved, MachineTypeOK

LEMMA NoRunIsRun == NoRun \in Runs /\ NoRun.doing = "none" /\ NoRun.at = "end"
  BY BlankIsBlank DEF NoRun, Runs, NoRows, RowNames, Statuses

(* A step of a run moves its place, and may write one row.                 *)
LEMMA AtStep ==
  ASSUME run \in Runs, NEW step \in UpdateSteps \cup InitSteps, At(step)
  PROVE  /\ run' \in Runs /\ run'.at = step /\ run'.doing = run.doing
         /\ run'.flags = run.flags /\ run'.root = run.root /\ run'.verified = run.verified
         /\ run'.seen = run.seen /\ run'.rows = run.rows
  BY DEF Runs, At

LEMMA RowStep ==
  ASSUME run \in Runs, NEW step \in UpdateSteps, NEW name \in RowNames,
         NEW status \in Statuses, Row(name, status, step)
  PROVE  /\ run' \in Runs /\ run'.at = step /\ run'.doing = run.doing
         /\ run'.flags = run.flags /\ run'.root = run.root /\ run'.verified = run.verified
         /\ run'.seen = run.seen /\ run'.rows[name] = status
         /\ \A n \in RowNames \ {name} : run'.rows[n] = run.rows[n]
  BY DEF Runs, Row

LEMMA StatusType ==
  /\ RulesStatus \in {"skipped", "delegated", "uninit", "deferred", "updated", "ok"}
  /\ AdapterStatus \in {"skipped", "delegated", "none", "deferred", "updated", "ok"}
  /\ \A r, verified : UserRules(r, verified) \in {"none", "ok", "pending", "unknown"}
  BY DEF RulesStatus, AdapterStatus, UserRules

LEMMA SyncedType ==
  ASSUME MachineTypeOK, NEW r \in Roots, NEW vs, NEW creates, Synced(r, vs, creates)
  PROVE  copy' \in Texts \cup {NoText} /\ key' \in Keys \cup {NoKey}
<1>1. RulesAt[r] \in Texts /\ KeyFor(r) \in Keys
  BY RulesAssumption DEF KeyFor, Keys
<1> QED BY <1>1 DEF Synced, MachineTypeOK

(* A sync writes a text, never an absence.                                 *)
LEMMA SyncedStays ==
  ASSUME NEW r \in Roots, NEW vs, NEW creates, Synced(r, vs, creates), copy # NoText
  PROVE  copy' # NoText
  BY RootsVersioned, RulesAssumption DEF Synced

-----------------------------------------------------------------------------
(* Steps after which no update is under way and no report stands.          *)
LEMMA Quiet ==
  ASSUME run'.doing # "update", run'.doing = "none" => next' = "rerun"
  PROVE  /\ RowsTrue' /\ AdaptersSwap' /\ DoneHolds'
         /\ (env.version = 0 => env.values = Blank)' => RunKnows'
  BY DEF RowsTrue, AdaptersSwap, DoneHolds, RunKnows, After, Resting

LEMMA Begins == Init => IInv
<1> SUFFICES ASSUME Init PROVE IInv
  OBVIOUS
<1> PICK b \in Beginnings :
      /\ env = b.env /\ legacy = b.legacy /\ rules = b.rules
      /\ adapter = b.adapter /\ owned = b.owned
      /\ copy = b.copy /\ installed = b.installed /\ indexed = b.indexed
      /\ loaded \in {RootOf[v] : v \in b.installed} \cup Checkouts
      /\ binary = b.binary
      /\ owed = IF b.env.version = 0 THEN b.legacy ELSE "none"
  BY DEF Init
<1>1. NewestThere
  BY BeginningsAssumption DEF NewestThere
<1>2. Newest \in installed
  BY <1>1, NewestIs, BeginningsAssumption DEF NewestThere, Newest
<1>3. ProjectTypeOK
  <2>1. /\ board \in [Trackers -> {"none", "template", "edited"}]
        /\ owed \in Languages /\ left = {}
    BY BeginningsAssumption DEF Init, Languages
  <2> QED BY <2>1, BeginningsAssumption DEF ProjectTypeOK, Languages
<1>4. MachineTypeOK
  BY <1>2, BeginningsAssumption, SettingsAssumption DEF Init, MachineTypeOK, RootsOf
<1>5. RunTypeOK
  BY NoRunIsRun DEF Init, RunTypeOK, Kinds
<1>6. RunKnows /\ OwedInPlace /\ RowsTrue /\ AdaptersSwap /\ DoneHolds
  BY NoRunIsRun, BeginningsAssumption, SettingsAssumption
  DEF Init, RunKnows, OwedInPlace, RowsTrue, AdaptersSwap, DoneHolds, After, Resting
<1> QED BY <1>1, <1>3, <1>4, <1>5, <1>6 DEF IInv, UpkeepTypeOK

(* What the person does between runs, and a release.                       *)
LEMMA PersonKeeps ==
  ASSUME IInv, SetsValue \/ RulesChange \/ BoardEdited \/ OwnAdapter \/ CopyEdited \/ Released
  PROVE  IInv'
<1>1. run' = run /\ run.doing = "none" /\ next' = "rerun" /\ RunTypeOK'
  BY DEF IInv, UpkeepTypeOK, RunTypeOK, Kinds, SetsValue, RulesChange, BoardEdited, OwnAdapter,
         CopyEdited, Released, ByPerson, Resting
<1>2. ProjectTypeOK' /\ (env.version = 0 => env.values = Blank)' /\ OwedInPlace'
  <2>1. CASE SetsValue
    <3> PICK c \in Choices :
          /\ left' = left
          /\ env' = [env EXCEPT !.values[c[1]] = c[2]]
          /\ owed' = IF c[1] = "language" THEN "none" ELSE owed
      BY <2>1 DEF SetsValue
    <3>1. c[1] \in EnvKeys /\ c[2] \in Settings /\ env.version > 0
      BY <2>1, SettingsAssumption DEF SetsValue
    <3>2. /\ env'.version = env.version /\ env'.values \in Values
          /\ \A k \in EnvKeys \ {c[1]} : env'.values[k] = env.values[k]
          /\ env' \in [version : Versions \cup {0}, values : Values]
      BY <3>1 DEF IInv, UpkeepTypeOK, ProjectTypeOK, Values
    <3>3. owed' \in {owed, "none"} /\ (c[1] = "language" => owed' = "none")
          /\ legacy' = legacy
      BY <2>1 DEF SetsValue
    <3>4. ProjectTypeOK'
      BY <2>1, <3>2, <3>3 DEF IInv, UpkeepTypeOK, ProjectTypeOK, SetsValue, Languages
    <3>5. OwedInPlace'
      <4>1. owed' \in PlainLanguages => env'.values["language"] = owed'
        BY <3>1, <3>2, <3>3, SettingsAssumption DEF IInv, OwedInPlace, EnvKeys
      <4> QED BY <1>1, <3>1, <3>2, <4>1 DEF OwedInPlace
    <3> QED BY <3>1, <3>2, <3>4, <3>5
  <2>2. CASE ~SetsValue
    <3>1. env' = env /\ legacy' = legacy /\ owed' = owed /\ left' = left
      BY <2>2 DEF RulesChange, BoardEdited, OwnAdapter, CopyEdited, Released, project
    <3>2. ProjectTypeOK'
      BY <2>2, <3>1 DEF IInv, UpkeepTypeOK, ProjectTypeOK, RulesChange, BoardEdited, OwnAdapter,
                        CopyEdited, Released, project
    <3> QED BY <1>1, <3>1, <3>2 DEF IInv, RunKnows, OwedInPlace
  <2> QED BY <2>1, <2>2
<1>3. MachineTypeOK' /\ NewestThere'
  BY DEF IInv, UpkeepTypeOK, MachineTypeOK, NewestThere, machine, SetsValue, RulesChange,
         BoardEdited, OwnAdapter, CopyEdited, Released
<1> QED BY <1>1, <1>2, <1>3, Quiet DEF IInv, UpkeepTypeOK

(* An init begins, or a run dies.                                          *)
LEMMA BeginOrDie ==
  ASSUME IInv, RunsInit \/ DoInit \/ Dies
  PROVE  IInv'
<1>1. run' \in Runs /\ run'.doing # "update" /\ (run'.doing = "none" => next' = "rerun")
      /\ run'.at # "unlink" /\ (run'.doing # "none" => run'.root \in Roots)
  <2>1. CASE Dies
    BY <2>1, NoRunIsRun DEF Dies, NoRun
  <2>2. CASE RunsInit \/ DoInit
    <3> PICK flags \in FlagSets : StartInit(flags)
      BY <2>2 DEF RunsInit, DoInit
    <3>1. flags \in Values /\ loaded \in Roots
      BY SettingsAssumption, RootsVersioned DEF IInv, UpkeepTypeOK, MachineTypeOK
    <3> QED BY <3>1, NoRunIsRun DEF StartInit, Runs, InitSteps
  <2> QED BY <2>1, <2>2
<1>2. UNCHANGED <<project, machine, inWorktree, owed, left>> /\ next' \in Kinds
      /\ spent' \in [edits : Nat, deaths : Nat]
  <2>1. spent \in [edits : Nat, deaths : Nat] /\ next \in Kinds /\ "rerun" \in Kinds
    BY DEF IInv, UpkeepTypeOK, RunTypeOK, Kinds
  <2>2. CASE Dies
    BY <2>1, <2>2 DEF Dies
  <2>3. CASE RunsInit
    BY <2>1, <2>3 DEF RunsInit
  <2>4. CASE DoInit
    BY <2>1, <2>4 DEF DoInit
  <2> QED BY <2>2, <2>3, <2>4
<1>3. UpkeepTypeOK' /\ NewestThere'
  BY <1>1, <1>2 DEF IInv, UpkeepTypeOK, ProjectTypeOK, MachineTypeOK, RunTypeOK, NewestThere,
                    project, machine
<1>4. OwedInPlace' /\ (env.version = 0 => env.values = Blank)'
  BY <1>1, <1>2 DEF IInv, OwedInPlace, RunKnows, project
<1> QED BY <1>1, <1>3, <1>4, Quiet DEF IInv

(* The person does what the report says.                                   *)
LEMMA FollowKeeps ==
  ASSUME IInv, DoInitUser \/ DoBinary \/ DoReload \/ DoPlugin \/ DoMainCheckout
  PROVE  IInv'
<1>1. run' = run /\ run.doing = "none" /\ next' = "rerun" /\ RunTypeOK'
  <2>1. run' = run /\ run.doing = "none" /\ next' = "rerun"
    BY DEF DoInitUser, DoBinary, DoReload, DoPlugin, DoMainCheckout, FreshSession, Told, Resting
  <2>2. \/ spent' = spent
        \/ spent' = [spent EXCEPT !.deaths = @ + 1]
    BY DEF DoInitUser, DoBinary, DoReload, DoPlugin, DoMainCheckout, FreshSession
  <2>3. spent' \in [edits : Nat, deaths : Nat]
    BY <2>2 DEF IInv, UpkeepTypeOK, RunTypeOK
  <2> QED BY <2>1, <2>3 DEF IInv, UpkeepTypeOK, RunTypeOK, Kinds
<1>2. UNCHANGED <<project, owed, left>>
  BY DEF DoInitUser, DoBinary, DoReload, DoPlugin, DoMainCheckout, FreshSession
<1>3. ProjectTypeOK' /\ OwedInPlace' /\ (env.version = 0 => env.values = Blank)'
  BY <1>1, <1>2 DEF IInv, UpkeepTypeOK, ProjectTypeOK, OwedInPlace, RunKnows, project
<1>4. MachineTypeOK' /\ NewestThere'
  <2>1. CASE DoInitUser
    <3>1. loaded \in Roots /\ Synced(loaded, installed, TRUE)
      BY <2>1, RootsVersioned DEF IInv, UpkeepTypeOK, MachineTypeOK, DoInitUser
    <3>2. copy' \in Texts \cup {NoText} /\ key' \in Keys \cup {NoKey}
      BY <3>1, SyncedType DEF IInv, UpkeepTypeOK
    <3>3. home' \in Values
      <4>1. CASE \E flags \in FlagSets : home' = UserRegenerated(flags)
        <5> PICK flags \in FlagSets : home' = UserRegenerated(flags)
          BY <4>1
        <5>1. home \in Values /\ flags \in Values /\ Defaults \in Values
          BY SettingsAssumption DEF IInv, UpkeepTypeOK, MachineTypeOK
        <5>2. \A k \in EnvKeys : First(flags[k], home[k], Defaults[k]) \in Settings
          BY <5>1 DEF First, Values
        <5> QED BY <5>1, <5>2 DEF UserRegenerated, Values
      <4> QED BY <2>1, <4>1 DEF DoInitUser, IInv, UpkeepTypeOK, MachineTypeOK
    <3> QED BY <2>1, <3>2, <3>3
            DEF DoInitUser, IInv, UpkeepTypeOK, MachineTypeOK, NewestThere
  <2>2. ASSUME NEW vs, vs \subseteq Versions, \E v \in vs : \A w \in vs : w <= v,
               FreshSession(vs)
        PROVE  MachineTypeOK' /\ NewestThere'
    <3>1. loaded' \in RootsOf(Versions) \cup Checkouts
      BY <2>2, NewestIs DEF FreshSession, IInv, UpkeepTypeOK, MachineTypeOK, RootsOf
    <3>2. loaded' \in Roots /\ Synced(loaded', vs, HookCreates)
      BY <2>2, <3>1, RootsVersioned DEF FreshSession
    <3>3. copy' \in Texts \cup {NoText} /\ key' \in Keys \cup {NoKey}
      <4> DEFINE now == loaded'
      <4>1. now \in Roots /\ Synced(now, vs, HookCreates)
        BY <3>2
      <4> HIDE DEF now
      <4> QED BY <4>1, SyncedType DEF IInv, UpkeepTypeOK
    <3> QED BY <2>2, <3>1, <3>3 DEF FreshSession, IInv, UpkeepTypeOK, MachineTypeOK, NewestThere
  <2>3. CASE DoReload
    BY <2>2, <2>3 DEF DoReload, IInv, UpkeepTypeOK, MachineTypeOK, NewestThere
  <2>4. CASE DoPlugin
    <3> DEFINE vs == installed \cup {released}
    <3>1. vs \subseteq Versions /\ FreshSession(vs)
      BY <2>4 DEF DoPlugin, IInv, UpkeepTypeOK, MachineTypeOK
    <3>2. \E v \in vs : \A w \in vs : w <= v
      <4> PICK v \in installed : \A w \in installed : w <= v
        BY DEF IInv, NewestThere
      <4>1. v \in Nat /\ released \in Nat /\ installed \subseteq Nat
        BY UpkeepAssumption DEF IInv, UpkeepTypeOK, MachineTypeOK
      <4>2. CASE released <= v
        BY <4>1, <4>2
      <4>3. CASE v < released
        BY <4>1, <4>3
      <4> QED BY <4>1, <4>2, <4>3
    <3> HIDE DEF vs
    <3> QED BY <2>2, <3>1, <3>2
  <2>5. CASE DoBinary \/ DoMainCheckout
    BY <2>5 DEF DoBinary, DoMainCheckout, IInv, UpkeepTypeOK, MachineTypeOK, NewestThere, machine
  <2> QED BY <2>1, <2>3, <2>4, <2>5
<1> QED BY <1>1, <1>3, <1>4, Quiet DEF IInv, UpkeepTypeOK

-----------------------------------------------------------------------------
(* lets init.                                                              *)
LEMMA RegeneratedType ==
  ASSUME ProjectTypeOK, binary \in Versions, NEW flags \in Values
  PROVE  /\ Regenerated(flags) \in [version : Versions \cup {0}, values : Values]
         /\ Regenerated(flags).values = Merged(flags, env.values)
         /\ Regenerated(flags).version = binary
BY MergedType DEF ProjectTypeOK, Regenerated

LEMMA FromLegacyType ==
  ASSUME ProjectTypeOK, binary \in Versions, legacy # "none"
  PROVE  /\ FromLegacy \in [version : Versions \cup {0}, values : Values]
         /\ FromLegacy.version = binary
         /\ legacy \in PlainLanguages => FromLegacy.values["language"] = legacy
<1> DEFINE language == IF legacy \in PlainLanguages THEN legacy ELSE Defaults["language"]
           values == [Blank EXCEPT !["tracker"] = Defaults["tracker"], !["language"] = language]
<1>1. legacy \in Settings /\ "" \in Settings /\ Defaults \in Values
  <2>1. "language" \in EnvKeys
    BY DEF EnvKeys
  <2>2. Blank["language"] = "" /\ Blank["language"] \in Settings
    BY <2>1, BlankIsBlank DEF Values
  <2> QED BY <2>2, SettingsAssumption DEF ProjectTypeOK, Languages
<1>2. Defaults["tracker"] \in Settings /\ Defaults["language"] \in Settings
  BY <1>1 DEF Values, EnvKeys
<1>3. language \in Settings /\ (legacy \in PlainLanguages => language = legacy)
  BY <1>1, <1>2
<1> HIDE DEF language
<1>4. values \in Values /\ values["language"] = language
  BY <1>2, <1>3, BlankIsBlank DEF Values, EnvKeys
<1> QED BY <1>3, <1>4 DEF FromLegacy, language

(* The adapters after a cleanup, and after the active one is written.      *)
LEMMA AdapterTypes ==
  ASSUME ProjectTypeOK
  PROVE  /\ \A failed : WithoutOthers(failed) \in [Trackers -> Nat]
         /\ Ships => /\ [adapter EXCEPT ![Active] = VersionOf(run.root)][Active]
                            = VersionOf(run.root)
                     /\ run.root \in Roots =>
                          [adapter EXCEPT ![Active] = VersionOf(run.root)] \in [Trackers -> Nat]
  BY RootsVersioned, UpkeepAssumption DEF ProjectTypeOK, WithoutOthers, Ships

LEMMA ScaffoldedType ==
  ASSUME ProjectTypeOK
  PROVE  Scaffolded \in [Trackers -> {"none", "template", "edited"}]
  BY DEF ProjectTypeOK, Scaffolded

LEMMA InitStepKeeps ==
  ASSUME IInv, InitStep
  PROVE  IInv'
<1>1. run' \in Runs /\ run'.doing # "update" /\ (run'.doing = "none" => next' = "rerun")
      /\ next' \in Kinds /\ run.doing = "init" /\ (run'.doing # "none" => run'.root \in Roots)
      /\ (run'.at = "unlink" => run.at = "migrate" /\ InitMigrate)
  <2>1. run \in Runs /\ next \in Kinds /\ "rerun" \in Kinds
        /\ (run.doing # "none" => run.root \in Roots)
    BY DEF IInv, UpkeepTypeOK, RunTypeOK, Kinds
  <2>2. CASE InitEnv
    <3>1. CASE env.version = 0 /\ run.flags["language"] = ""
      <4>1. run' = NoRun /\ next' = "rerun" /\ run.doing = "init"
        BY <2>2, <3>1 DEF InitEnv, Initing
      <4> QED BY <2>1, <4>1, NoRunIsRun
    <3>2. CASE ~(env.version = 0 /\ run.flags["language"] = "")
      <4>1. At("files") /\ next' = next /\ run.doing = "init" /\ "files" \in InitSteps
        BY <2>2, <3>2 DEF InitEnv, Initing, InitSteps
      <4> QED BY <2>1, <4>1, AtStep
    <3> QED BY <3>1, <3>2
  <2>3. CASE InitBoard
    BY <2>1, <2>3, NoRunIsRun DEF InitBoard, Initing, NoRun
  <2>4. CASE InitShim \/ InitMigrate \/ InitUnlink \/ InitFiles \/ InitRules \/ InitClean
             \/ InitAdapter
    <3>1. next' = next /\ run.doing = "init"
          /\ \E step \in InitSteps : At(step) /\ (step = "unlink" => InitMigrate)
      BY <2>4 DEF InitShim, InitMigrate, InitUnlink, InitFiles, InitRules, InitClean, InitAdapter,
                  Initing, InitSteps
    <3> PICK step \in InitSteps : At(step) /\ (step = "unlink" => InitMigrate)
      BY <3>1
    <3> QED BY <2>1, <3>1, AtStep DEF InitMigrate, Initing
  <2> QED BY <2>2, <2>3, <2>4 DEF InitStep
<1>2. UNCHANGED <<machine, inWorktree, spent>> /\ machine' = machine /\ spent' = spent
  BY DEF InitStep, InitShim, InitMigrate, InitUnlink, InitEnv, InitFiles, InitRules, InitClean,
         InitAdapter, InitBoard
<1>3. MachineTypeOK' /\ NewestThere' /\ RunTypeOK'
  BY <1>1, <1>2 DEF IInv, UpkeepTypeOK, MachineTypeOK, RunTypeOK, NewestThere, machine
<1>4. ProjectTypeOK'
  <2>1. CASE InitShim
    BY <2>1 DEF IInv, UpkeepTypeOK, ProjectTypeOK, InitShim
  <2>2. CASE InitMigrate
    BY <2>2, FromLegacyType
    DEF IInv, UpkeepTypeOK, ProjectTypeOK, MachineTypeOK, InitMigrate, Migrates
  <2>3. CASE InitUnlink
    BY <2>3 DEF IInv, UpkeepTypeOK, ProjectTypeOK, InitUnlink, Languages
  <2>4. CASE InitEnv
    <3>1. run.flags \in Values
      BY DEF IInv, UpkeepTypeOK, RunTypeOK, Runs
    <3>2. env' = env \/ env' = Regenerated(run.flags)
      BY <2>4 DEF InitEnv
    <3>3. env' \in [version : Versions \cup {0}, values : Values]
      BY <3>1, <3>2, RegeneratedType DEF IInv, UpkeepTypeOK, ProjectTypeOK, MachineTypeOK
    <3> QED BY <2>4, <3>3 DEF IInv, UpkeepTypeOK, ProjectTypeOK, InitEnv, Languages
  <2>5. CASE InitFiles
    BY <2>5 DEF IInv, UpkeepTypeOK, ProjectTypeOK, InitFiles
  <2>6. CASE InitRules
    BY <2>6, <1>1, RulesAssumption
    DEF IInv, UpkeepTypeOK, ProjectTypeOK, InitRules, RunTypeOK
  <2>7. CASE InitClean
    BY <2>7, AdapterTypes DEF IInv, UpkeepTypeOK, ProjectTypeOK, InitClean
  <2>8. CASE InitAdapter
    BY <2>8, <1>1, AdapterTypes DEF IInv, UpkeepTypeOK, ProjectTypeOK, InitAdapter, RunTypeOK
  <2>9. CASE InitBoard
    BY <2>9, ScaffoldedType DEF IInv, UpkeepTypeOK, ProjectTypeOK, InitBoard
  <2> QED BY <2>1, <2>2, <2>3, <2>4, <2>5, <2>6, <2>7, <2>8, <2>9 DEF InitStep
<1>5. OwedInPlace' /\ (env.version = 0 => env.values = Blank)'
  <2>1. CASE InitMigrate
    <3>0. CASE UNCHANGED env /\ At(".env")
      <4>1. env' = env /\ legacy' = legacy /\ owed' = owed /\ run'.at # "unlink"
        BY <2>1, <3>0, AtStep DEF InitMigrate, IInv, UpkeepTypeOK, RunTypeOK, InitSteps
      <4> QED BY <4>1 DEF IInv, OwedInPlace, RunKnows
    <3>1. CASE ~(UNCHANGED env /\ At(".env")) /\ Migrates
      <4>1. /\ env' = FromLegacy /\ legacy' = legacy /\ owed' = owed
            /\ legacy # "none" /\ env.version = 0
        BY <2>1, <3>1 DEF InitMigrate, Migrates
      <4>2. /\ env'.version = binary /\ binary > 0
            /\ legacy \in PlainLanguages => env'.values["language"] = legacy
        BY <3>1, <4>1, FromLegacyType, RootsVersioned DEF IInv, UpkeepTypeOK, MachineTypeOK
      <4>3. owed \in PlainLanguages => owed = legacy
        BY <4>1 DEF IInv, OwedInPlace
      <4> QED BY <4>1, <4>2, <4>3, RootsVersioned
              DEF IInv, UpkeepTypeOK, MachineTypeOK, OwedInPlace
    <3>2. CASE ~(UNCHANGED env /\ At(".env")) /\ ~Migrates
      <4>1. env' = env /\ legacy' = legacy /\ owed' = owed
        BY <2>1, <3>2 DEF InitMigrate
      <4>2. env.version > 0 \/ legacy = "none"
        BY <3>2, RootsVersioned DEF Migrates, IInv, UpkeepTypeOK, ProjectTypeOK
      <4> QED BY <4>1, <4>2 DEF IInv, OwedInPlace, RunKnows
    <3> QED BY <3>0, <3>1, <3>2
  <2>2. CASE InitUnlink
    <3>1. env.version > 0 \/ legacy = "none"
      BY <2>2 DEF IInv, OwedInPlace, InitUnlink, Initing
    <3>2. env' = env /\ owed' = owed /\ legacy' = "none" /\ run'.at # "unlink"
      BY <1>1, <2>2 DEF InitUnlink, Initing
    <3> QED BY <3>1, <3>2 DEF IInv, OwedInPlace, RunKnows
  <2>3. CASE InitEnv
    <3>1. run.flags \in Values
      BY DEF IInv, UpkeepTypeOK, RunTypeOK, Runs
    <3>2. legacy' = legacy /\ run'.at # "unlink"
      BY <1>1, <2>3 DEF InitEnv, Initing
    <3>3. CASE env.version = 0 /\ run.flags["language"] = ""
      BY <2>3, <3>2, <3>3 DEF IInv, OwedInPlace, RunKnows, InitEnv
    <3>4. CASE ~(env.version = 0 /\ run.flags["language"] = "")
      <4>1. env' = Regenerated(run.flags)
            /\ owed' = IF run.flags["language"] # "" THEN "none" ELSE owed
        BY <2>3, <3>4 DEF InitEnv
      <4>2. env'.version = binary /\ env'.values = Merged(run.flags, env.values) /\ env'.version > 0
        BY <3>1, <4>1, RegeneratedType, RootsVersioned DEF IInv, UpkeepTypeOK, MachineTypeOK
      <4>3. owed' \in PlainLanguages => env'.values["language"] = owed'
        <5> SUFFICES ASSUME owed' \in PlainLanguages PROVE env'.values["language"] = owed'
          OBVIOUS
        <5>1. run.flags["language"] = "" /\ owed' = owed /\ env.version # 0 /\ owed # ""
          BY <3>4, <4>1, SettingsAssumption DEF IInv, UpkeepTypeOK, ProjectTypeOK, Languages
        <5>2. env.values["language"] = owed
          BY <5>1 DEF IInv, OwedInPlace
        <5>3. Merged(run.flags, env.values)["language"] = owed
          BY <5>1, <5>2 DEF Merged, First, EnvKeys
        <5> QED BY <4>2, <5>1, <5>3
      <4> QED BY <3>2, <4>2, <4>3 DEF OwedInPlace
    <3> QED BY <3>3, <3>4
  <2>4. CASE InitShim \/ InitFiles \/ InitRules \/ InitClean \/ InitAdapter \/ InitBoard
    <3>1. env' = env /\ legacy' = legacy /\ owed' = owed /\ run'.at # "unlink"
      BY <1>1, <2>4 DEF InitShim, InitFiles, InitRules, InitClean, InitAdapter, InitBoard, Initing
    <3> QED BY <3>1 DEF IInv, OwedInPlace, RunKnows
  <2> QED BY <2>1, <2>2, <2>3, <2>4 DEF InitStep
<1> QED BY <1>1, <1>3, <1>4, <1>5, Quiet DEF IInv, UpkeepTypeOK

-----------------------------------------------------------------------------
(* The global copy under the hooks of other sessions.                      *)
(* A copy of the newest plugin's rules whose key says so is never replaced *)
(* by an older plugin: an older root finds a newer gate.                   *)
LEMMA SyncedInForce ==
  ASSUME MachineTypeOK, NewestThere, InForce, NEW r \in Installed \cup Checkouts, NEW creates,
         Synced(r, installed, creates)
  PROVE  copy' = RulesAt[RootOf[Newest]] /\ key'.text = copy'
         /\ key'.version = VersionOf(RootOf[Newest])
<1>1. copy = RulesAt[RootOf[Newest]] /\ key.text = copy /\ key.version = VersionOf(RootOf[Newest])
  BY DEF InForce
<1>2. Newest \in installed /\ Newest \in Versions /\ VersionOf(RootOf[Newest]) = Newest
      /\ copy # NoText /\ \A w \in installed : w <= Newest
  <2>1. Newest \in installed /\ \A w \in installed : w <= Newest
    BY ResolvedRoot
  <2> QED BY <1>1, <2>1, RootsVersioned, RulesAssumption DEF MachineTypeOK
<1>3. CASE copy = RulesAt[r]
  BY <1>1, <1>2, <1>3 DEF Synced, Verdict, Rekeys, KeyFor, VersionOf, Installed
<1>4. CASE copy # RulesAt[r] /\ ~Trusted(r, Installed)
  BY <1>1, <1>2, <1>4 DEF Synced, Verdict, Installed
<1>5. CASE copy # RulesAt[r] /\ Trusted(r, Installed)
  <2>1. PICK w \in installed : r = RootOf[w]
    BY <1>5 DEF Trusted, Installed, RootsOf
  <2>2. w \in Versions /\ w # Newest /\ w <= Newest /\ VersionOf(r) = w
    BY <1>1, <1>2, <1>5, <2>1, RootsVersioned DEF MachineTypeOK
  <2>3. VersionIn[RulesAt[r]] < Gate(copy, key, Installed)
    BY <1>1, <1>2, <2>2, RootsVersioned DEF Gate, VersionOf
  <2>4. Verdict(r, copy, key, Installed, creates) = "kept-newer"
    BY <1>2, <1>5, <2>3 DEF Verdict
  <2> QED BY <1>1, <2>4 DEF Synced, Installed
<1> QED BY <1>3, <1>4, <1>5

LEMMA OtherSessionKeeps ==
  ASSUME IInv, OtherSession
  PROVE  IInv'
<1> PICK r \in Installed \cup Checkouts : Synced(r, installed, HookCreates)
  BY DEF OtherSession
<1>1. UNCHANGED <<project, home, binary, released, fetched, installed, indexed, loaded,
                  inWorktree, run, next, owed, left, spent>>
  BY DEF OtherSession
<1>2. MachineTypeOK /\ NewestThere
  BY DEF IInv, UpkeepTypeOK
<1>3. r \in Roots
  BY <1>2, RootsVersioned DEF MachineTypeOK, Installed, RootsOf
<1>4. copy' \in Texts \cup {NoText} /\ key' \in Keys \cup {NoKey}
  BY <1>2, <1>3, SyncedType
<1>5. copy # NoText => copy' # NoText
  BY <1>3, SyncedStays
<1>6. InForce => InForce'
  BY <1>1, <1>2, SyncedInForce DEF InForce, Newest
<1>7. UpkeepTypeOK' /\ NewestThere'
  BY <1>1, <1>4 DEF IInv, UpkeepTypeOK, ProjectTypeOK, MachineTypeOK, RunTypeOK, NewestThere,
                    project
<1>8. RunKnows' /\ OwedInPlace' /\ AdaptersSwap'
  BY <1>1 DEF IInv, RunKnows, OwedInPlace, AdaptersSwap, OthersGone, Ships, Active, Resting,
              Resolved, Verified, Newest, project
<1>9. RowsTrue'
  BY <1>1, <1>5, <1>6 DEF IInv, RowsTrue, After, RulesOf, project
<1>10. DoneHolds'
  BY <1>1, <1>6 DEF IInv, DoneHolds, RulesOf, Resting, Verified, Newest, project
<1> QED BY <1>7, <1>8, <1>9, <1>10 DEF IInv

-----------------------------------------------------------------------------
(* lets update.                                                            *)
LEMMA StartUpdateKeeps ==
  ASSUME IInv, StartUpdate
  PROVE  IInv'
<1> PICK seen \in Latest :
      /\ fetched' = IF seen = released THEN seen ELSE fetched
      /\ run' = [doing |-> "update", at |-> ".env", flags |-> Blank, root |-> Resolved(loaded),
                 verified |-> Verified(loaded), seen |-> seen,
                 rows |-> [NoRows EXCEPT
                             !["binary"] = VersionRow(binary, seen),
                             !["plugin"] = VersionRow(VersionOf(Resolved(loaded)), seen)]]
  BY DEF StartUpdate
<1>1. UNCHANGED <<project, home, copy, key, binary, released, installed, indexed, loaded,
                  inWorktree, next, owed, spent>> /\ next = "rerun" /\ left' = {}
  BY DEF StartUpdate
<1>2. seen \in Versions \cup {0}
  BY DEF IInv, UpkeepTypeOK, MachineTypeOK, Latest
<1>3. Resolved(loaded) \in Roots
  BY ResolvedRoot, RootsVersioned DEF IInv, UpkeepTypeOK
<1>4. run' \in Runs
  <2>1. \A v : VersionRow(v, seen) \in Statuses
    BY DEF VersionRow, Statuses
  <2>2. [NoRows EXCEPT !["binary"] = VersionRow(binary, seen),
                       !["plugin"] = VersionRow(VersionOf(Resolved(loaded)), seen)]
          \in [RowNames -> Statuses]
    BY <2>1 DEF NoRows, Statuses
  <2>3. Verified(loaded) \in BOOLEAN
    BY DEF Verified
  <2> QED BY <1>2, <1>3, <2>2, <2>3, BlankIsBlank DEF Runs, UpdateSteps
<1>5. UpkeepTypeOK' /\ NewestThere'
  BY <1>1, <1>2, <1>3, <1>4 DEF IInv, UpkeepTypeOK, ProjectTypeOK, MachineTypeOK, RunTypeOK,
                                NewestThere, project
<1>6. RunKnows' /\ OwedInPlace'
  BY <1>1 DEF IInv, RunKnows, OwedInPlace, UpdateSteps, Resolved, Verified, Newest, project
<1>7. RowsTrue' /\ AdaptersSwap' /\ DoneHolds'
  BY <1>1 DEF RowsTrue, AdaptersSwap, DoneHolds, After, Resting
<1> QED BY <1>5, <1>6, <1>7 DEF IInv

(* What every step of an update leaves alone, and where it stands.         *)
LEMMA UpdateFrame ==
  ASSUME IInv, UpdateStep
  PROVE  /\ run.doing = "update" /\ run.flags = Blank /\ next = "rerun" /\ run \in Runs
         /\ run.root = Resolved(loaded) /\ run.verified = Verified(loaded)
         /\ run.root \in Roots /\ VersionOf(run.root) \in Nat /\ VersionOf(run.root) > 0
         /\ machine' = machine /\ UNCHANGED <<legacy, owned, inWorktree, owed, spent>>
<1>1. run.doing = "update"
  BY DEF UpdateStep, UpdateEnv, UpdateRules, UpdateUserRules, UpdateClean, UpdateBoard,
         UpdateAdapter, Report, Updating
<1>2. run.flags = Blank /\ next = "rerun" /\ run.root = Resolved(loaded)
      /\ run.verified = Verified(loaded)
  BY <1>1 DEF IInv, RunKnows
<1>3. run.root \in Roots /\ VersionOf(run.root) \in Nat /\ VersionOf(run.root) > 0
  BY <1>2, ResolvedRoot, RootsVersioned DEF IInv, UpkeepTypeOK
<1>4. machine' = machine /\ UNCHANGED <<legacy, owned, inWorktree, owed, spent>>
  BY DEF UpdateStep, UpdateEnv, UpdateRules, UpdateUserRules, UpdateClean, UpdateBoard,
         UpdateAdapter, Report, project
<1> QED BY <1>1, <1>2, <1>3, <1>4 DEF IInv, UpkeepTypeOK, RunTypeOK

LEMMA UpdateMoves ==
  ASSUME IInv, UpdateStep, ~Report
  PROVE  /\ run' \in Runs /\ run'.doing = "update" /\ run'.at \in UpdateSteps
         /\ run'.flags = run.flags /\ run'.root = run.root /\ run'.verified = run.verified
         /\ next' = next
<1> DEFINE Moved == /\ run' \in Runs /\ run'.doing = "update" /\ run'.at \in UpdateSteps
                    /\ run'.flags = run.flags /\ run'.root = run.root
                    /\ run'.verified = run.verified
<1>1. ASSUME NEW step \in UpdateSteps, At(step)
      PROVE  Moved
  BY <1>1, AtStep, UpdateFrame
<1>2. ASSUME NEW step \in UpdateSteps, NEW name \in RowNames, NEW status \in Statuses,
             Row(name, status, step)
      PROVE  Moved
  BY <1>2, RowStep, UpdateFrame
<1>3. /\ RulesStatus \in Statuses /\ AdapterStatus \in Statuses
      /\ {"skipped", "uninit", "ok"} \subseteq Statuses
      /\ \A r, verified : UserRules(r, verified) \in Statuses
  BY StatusType DEF Statuses
<1>4. CASE UpdateEnv
  <2>1. \E status \in Statuses : Row(".env", status, "rules")
    BY <1>3, <1>4 DEF UpdateEnv
  <2>2. ".env" \in RowNames /\ "rules" \in UpdateSteps
    BY DEF RowNames, UpdateSteps
  <2>3. Moved
    BY <1>2, <2>1, <2>2
  <2> QED BY <1>4, <2>3 DEF UpdateEnv
<1>5. CASE UpdateRules
  <2>1. Row("rules", RulesStatus, "user-rules") /\ "rules" \in RowNames
        /\ "user-rules" \in UpdateSteps
    BY <1>5 DEF UpdateRules, RowNames, UpdateSteps
  <2>2. Moved
    BY <1>2, <1>3, <2>1
  <2> QED BY <1>5, <2>2 DEF UpdateRules
<1>6. CASE UpdateUserRules
  <2>1. Row("user-rules", UserRules(run.root, run.verified), "clean")
        /\ "user-rules" \in RowNames /\ "clean" \in UpdateSteps
    BY <1>6 DEF UpdateUserRules, RowNames, UpdateSteps
  <2>2. Moved
    BY <1>2, <1>3, <2>1
  <2> QED BY <1>6, <2>2 DEF UpdateUserRules
<1>7. CASE UpdateAdapter
  <2>1. Row("tracker-rules", AdapterStatus, "report") /\ "tracker-rules" \in RowNames
        /\ "report" \in UpdateSteps
    BY <1>7 DEF UpdateAdapter, RowNames, UpdateSteps
  <2>2. Moved
    BY <1>2, <1>3, <2>1
  <2> QED BY <1>7, <2>2 DEF UpdateAdapter
<1>8. CASE UpdateClean \/ UpdateBoard
  <2>1. (At("board") \/ At("adapter")) /\ {"board", "adapter"} \subseteq UpdateSteps
    BY <1>8 DEF UpdateClean, UpdateBoard, UpdateSteps
  <2>2. Moved
    BY <1>1, <2>1
  <2> QED BY <1>8, <2>2 DEF UpdateClean, UpdateBoard
<1> QED BY <1>4, <1>5, <1>6, <1>7, <1>8 DEF UpdateStep

(* The project's files.                                                    *)
LEMMA UpdateFiles ==
  ASSUME IInv, UpdateStep
  PROVE  ProjectTypeOK' /\ OwedInPlace' /\ (env.version = 0 => env.values = Blank)'
<1>1. legacy' = legacy /\ owned' = owned /\ owed' = owed /\ run.root \in Roots
      /\ run.flags = Blank /\ run'.doing # "init"
  BY UpdateFrame, UpdateMoves, NoRunIsRun DEF Report
<1>2. CASE UpdateEnv
  <2>1. CASE env' = env
    BY <1>1, <1>2, <2>1
    DEF IInv, UpkeepTypeOK, ProjectTypeOK, OwedInPlace, RunKnows, UpdateEnv
  <2>2. CASE env' # env
    <3>1. env' = Regenerated(Blank) /\ env.version # 0
      BY <1>2, <2>2 DEF UpdateEnv
    <3>2. /\ env' \in [version : Versions \cup {0}, values : Values] /\ env'.version # 0
          /\ env'.values = Merged(Blank, env.values)
      <4>1. ProjectTypeOK /\ binary \in Versions /\ Blank \in Values
        BY BlankIsBlank DEF IInv, UpkeepTypeOK, MachineTypeOK
      <4>2. binary # 0
        BY <4>1, RootsVersioned
      <4> QED BY <3>1, <4>1, <4>2, RegeneratedType
    <3>3. owed \in PlainLanguages => env'.values["language"] = owed
      <4> SUFFICES ASSUME owed \in PlainLanguages PROVE env'.values["language"] = owed
        OBVIOUS
      <4>1. env.values["language"] = owed /\ owed # "" /\ Blank["language"] = ""
        BY <3>1, BlankIsBlank
        DEF IInv, UpkeepTypeOK, ProjectTypeOK, OwedInPlace, Languages, EnvKeys
      <4> QED BY <3>2, <4>1 DEF Merged, First, EnvKeys
    <3>4. ProjectTypeOK'
      BY <1>1, <1>2, <3>2 DEF IInv, UpkeepTypeOK, ProjectTypeOK, UpdateEnv
    <3> QED BY <1>1, <3>2, <3>3, <3>4 DEF OwedInPlace
  <2> QED BY <2>1, <2>2
<1>3. CASE ~UpdateEnv
  <2>1. env' = env
    BY <1>3 DEF UpdateStep, UpdateRules, UpdateUserRules, UpdateClean, UpdateBoard,
                UpdateAdapter, Report, project
  <2>2. rules' \in Texts \cup {NoText}
    BY <1>1, <1>3, RulesAssumption
    DEF IInv, UpkeepTypeOK, ProjectTypeOK, UpdateStep, UpdateRules, UpdateUserRules,
        UpdateClean, UpdateBoard, UpdateAdapter, Report, project
  <2>3. adapter' \in [Trackers -> Nat] /\ left' \subseteq ShippedTrackers
    <3>1. ProjectTypeOK /\ (AdapterStatus = "updated" => Ships)
      BY DEF IInv, UpkeepTypeOK, AdapterStatus
    <3> QED
      BY <1>1, <1>3, <3>1, AdapterTypes
      DEF ProjectTypeOK, UpdateStep, UpdateRules, UpdateUserRules, UpdateClean, UpdateBoard,
          UpdateAdapter, Report, project, Others
  <2>4. board' \in [Trackers -> {"none", "template", "edited"}]
    BY <1>3, ScaffoldedType
    DEF IInv, UpkeepTypeOK, ProjectTypeOK, UpdateStep, UpdateRules, UpdateUserRules,
        UpdateClean, UpdateBoard, UpdateAdapter, Report, project
  <2> QED BY <1>1, <2>1, <2>2, <2>3, <2>4
          DEF IInv, UpkeepTypeOK, ProjectTypeOK, OwedInPlace, RunKnows
<1> QED BY <1>2, <1>3

(* A rules row "ok" is no drift: the project's rules are of that version.  *)
LEMMA RulesOk ==
  ASSUME run.root \in Roots, VersionOf(run.root) \in Nat, VersionOf(run.root) > 0,
         rules \in Texts \cup {NoText}
  PROVE  /\ RulesStatus = "ok" => RulesOf(run.root)
         /\ RulesStatus = "delegated" => copy # NoText
         /\ inWorktree => RulesStatus = "skipped"
<1>1. rules # NoText => VersionIn[rules] \in Nat
  BY RulesAssumption
<1> QED BY <1>1 DEF RulesStatus, RulesDrift, Drift, Detected, RulesOf

LEMMA UserRulesOk ==
  ASSUME IInv, NEW r
  PROVE  /\ UserRules(r, run.verified) = "none" => copy = NoText
         /\ r = RootOf[Newest] /\ UserRules(r, run.verified) = "ok" => run.verified /\ InForce
  BY DEF UserRules, InForce

LEMMA UpdateRows ==
  ASSUME IInv, UpdateStep, ~Report
  PROVE  RowsTrue'
<1>1. /\ machine' = machine /\ inWorktree' = inWorktree /\ run \in Runs /\ run.doing = "update"
      /\ run.root = Resolved(loaded) /\ run.verified = Verified(loaded) /\ run.root \in Roots
      /\ VersionOf(run.root) \in Nat /\ VersionOf(run.root) > 0
  BY UpdateFrame
<1>2. run'.root = run.root /\ run'.verified = run.verified /\ InForce' = InForce
      /\ binary' = binary /\ copy' = copy
  BY <1>1, UpdateMoves DEF machine, InForce, Newest
<1>3. run.verified => run.root = RootOf[Newest]
  BY <1>1 DEF Resolved
<1>4. RowsTrue /\ ".env" \in RowNames /\ "rules" \in RowNames /\ "user-rules" \in RowNames
      /\ "tracker-rules" \in RowNames
  BY DEF IInv, RowNames
<1>5. CASE UpdateEnv
  <2> PICK status \in {"skipped", "uninit", "ok"} :
        /\ Row(".env", status, "rules")
        /\ status = "skipped" => inWorktree
        /\ status = "ok" => env' = Regenerated(Blank)
    BY <1>5 DEF UpdateEnv
  <2>1. run'.at = "rules" /\ run'.rows[".env"] = status
    BY <1>1, <1>4, RowStep DEF UpdateSteps, Statuses
  <2>2. status = "ok" => env'.version = binary
    BY RegeneratedType, BlankIsBlank DEF IInv, UpkeepTypeOK, MachineTypeOK
  <2> QED BY <1>1, <1>2, <2>1, <2>2 DEF RowsTrue, After
<1>6. CASE UpdateRules
  <2>1. env' = env /\ Row("rules", RulesStatus, "user-rules") /\ run.at = "rules"
        /\ rules' = IF RulesStatus = "updated" THEN RulesAt[run.root] ELSE rules
    BY <1>6 DEF UpdateRules, Updating
  <2>2. RulesStatus \in Statuses
    BY StatusType DEF Statuses
  <2>3. run'.at = "user-rules" /\ run'.rows["rules"] = RulesStatus
        /\ run'.rows[".env"] = run.rows[".env"]
    BY <1>1, <1>4, <2>1, <2>2, RowStep DEF UpdateSteps
  <2>4. /\ RulesStatus = "ok" => RulesOf(run.root)
        /\ RulesStatus = "delegated" => copy # NoText
        /\ inWorktree => RulesStatus = "skipped"
    BY <1>1, RulesOk DEF IInv, UpkeepTypeOK, ProjectTypeOK
  <2>5. RulesStatus = "ok" => rules' # NoText /\ VersionIn[rules'] = VersionOf(run'.root)
    BY <1>2, <2>1, <2>4 DEF RulesOf
  <2> QED BY <1>1, <1>2, <1>4, <2>1, <2>3, <2>4, <2>5, StatusType
          DEF RowsTrue, After, RulesOf
<1>7. CASE UpdateUserRules
  <2> DEFINE status == UserRules(run.root, run.verified)
  <2>1. project' = project /\ Row("user-rules", status, "clean") /\ run.at = "user-rules"
    BY <1>7 DEF UpdateUserRules, Updating
  <2>2. status \in {"none", "ok", "pending", "unknown"} /\ status \in Statuses
    BY StatusType DEF Statuses
  <2>3. /\ status = "none" => copy = NoText
        /\ status = "ok" => run.verified /\ InForce
    <3>1. status = "none" => copy = NoText
      BY UserRulesOk
    <3>2. status = "ok" => run.verified
      BY DEF UserRules
    <3> QED BY <1>3, <3>1, <3>2, UserRulesOk
  <2> HIDE DEF status
  <2>4. run'.at = "clean" /\ run'.rows["user-rules"] = status
        /\ run'.rows[".env"] = run.rows[".env"] /\ run'.rows["rules"] = run.rows["rules"]
    BY <1>1, <1>4, <2>1, <2>2, RowStep DEF UpdateSteps
  <2> QED BY <1>1, <1>2, <1>4, <2>1, <2>2, <2>3, <2>4 DEF RowsTrue, After, RulesOf, project
<1>8. CASE UpdateClean \/ UpdateBoard
  <2>1. env' = env /\ rules' = rules /\ run.at \in {"clean", "board"}
        /\ (At("board") \/ At("adapter"))
    BY <1>8 DEF UpdateClean, UpdateBoard, Updating
  <2>2. run'.rows = run.rows /\ run'.doing = run.doing
    BY <1>1, <2>1, AtStep DEF UpdateSteps
  <2> QED BY <1>1, <1>2, <1>4, <2>1, <2>2 DEF RowsTrue, After, RulesOf
<1>9. CASE UpdateAdapter
  <2>1. env' = env /\ rules' = rules /\ run.at = "adapter"
        /\ Row("tracker-rules", AdapterStatus, "report")
    BY <1>9 DEF UpdateAdapter, Updating
  <2>2. AdapterStatus \in Statuses
    BY StatusType DEF Statuses
  <2>3. run'.rows[".env"] = run.rows[".env"] /\ run'.rows["rules"] = run.rows["rules"]
        /\ run'.rows["user-rules"] = run.rows["user-rules"]
    BY <1>1, <1>4, <2>1, <2>2, RowStep DEF UpdateSteps
  <2> QED BY <1>1, <1>2, <1>4, <2>1, <2>3 DEF RowsTrue, After, RulesOf
<1> QED BY <1>5, <1>6, <1>7, <1>8, <1>9 DEF UpdateStep

(* An adapter row other than "updated" found the active adapter there.     *)
LEMMA AdapterThere ==
  ASSUME run.root \in Roots, VersionOf(run.root) \in Nat, VersionOf(run.root) > 0,
         adapter \in [Trackers -> Nat], ~inWorktree, Ships, AdapterStatus # "updated"
  PROVE  adapter[Active] > 0
<1>1. adapter[Active] \in Nat
  BY UpkeepAssumption DEF Ships
<1> QED BY <1>1 DEF AdapterStatus, AdapterDrift, Drift, Detected

LEMMA UpdateAdapters ==
  ASSUME IInv, UpdateStep
  PROVE  AdaptersSwap'
<1> SUFFICES ASSUME ~inWorktree', Ships'
             PROVE  /\ run'.doing = "update" /\ run'.at \in {"board", "adapter", "report"}
                         => OthersGone'
                    /\ \/ run'.doing = "update" /\ run'.at = "report"
                       \/ run'.doing = "none" /\ next' # "rerun"
                       => OthersGone' /\ adapter'[Active'] > 0
  BY DEF AdaptersSwap, Resting
<1>1. /\ inWorktree' = inWorktree /\ run \in Runs /\ run.doing = "update"
      /\ run.root \in Roots /\ VersionOf(run.root) \in Nat /\ VersionOf(run.root) > 0
      /\ adapter \in [Trackers -> Nat] /\ AdaptersSwap /\ next = "rerun"
  BY UpdateFrame DEF IInv, UpkeepTypeOK, ProjectTypeOK
<1>2. ~Report => run'.doing = "update" /\ next' = "rerun"
  BY <1>1, UpdateMoves
<1>3. CASE UpdateEnv \/ UpdateRules \/ UpdateUserRules
  <2>1. \E name \in RowNames, status \in Statuses, step \in {"rules", "user-rules", "clean"} :
          Row(name, status, step)
    <3>1. /\ RulesStatus \in Statuses /\ {"skipped", "uninit", "ok"} \subseteq Statuses
          /\ \A r, verified : UserRules(r, verified) \in Statuses
          /\ {".env", "rules", "user-rules"} \subseteq RowNames
      BY StatusType DEF Statuses, RowNames
    <3> QED BY <1>3, <3>1 DEF UpdateEnv, UpdateRules, UpdateUserRules
  <2>2. run'.at \in {"rules", "user-rules", "clean"}
    BY <1>1, <2>1, RowStep DEF UpdateSteps
  <2>3. ~Report
    BY <1>1, <1>3 DEF UpdateEnv, UpdateRules, UpdateUserRules, Report, Updating
  <2> QED BY <1>2, <2>2, <2>3
<1>4. CASE UpdateClean
  <2>1. env' = env /\ At("board")
        /\ \E failed \in SUBSET Others : adapter' = WithoutOthers(failed) /\ left' = failed
    BY <1>1, <1>4 DEF UpdateClean, Ships, Active
  <2>2. run'.at = "board" /\ run'.doing = "update"
    BY <1>1, <2>1, AtStep DEF UpdateSteps
  <2>3. OthersGone'
    <3>1. Active' = Active /\ Active' \notin left'
      BY <2>1 DEF Active, Others
    <3>2. ASSUME NEW n \in ShippedTrackers \ left', n # Active PROVE adapter'[n] = 0
      <4>1. n \in Trackers /\ adapter[n] \in Nat /\ (n \in Others <=> adapter[n] > 0)
        BY <1>1, <3>2, UpkeepAssumption DEF Others
      <4> QED BY <2>1, <3>2, <4>1 DEF WithoutOthers
    <3> QED BY <3>1, <3>2 DEF OthersGone
  <2> QED BY <2>2, <2>3
<1>5. CASE UpdateBoard
  <2>1. /\ env' = env /\ adapter' = adapter /\ left' = left
        /\ At("adapter") /\ run.at = "board"
    BY <1>5 DEF UpdateBoard, Updating
  <2>2. run'.at = "adapter" /\ run'.doing = "update"
    BY <1>1, <2>1, AtStep DEF UpdateSteps
  <2>3. OthersGone'
    BY <1>1, <2>1 DEF AdaptersSwap, OthersGone, Ships, Active
  <2> QED BY <2>2, <2>3
<1>6. CASE UpdateAdapter
  <2>1. env' = env /\ run.at = "adapter" /\ left' = left
        /\ adapter' = IF AdapterStatus = "updated"
                      THEN [adapter EXCEPT ![Active] = VersionOf(run.root)] ELSE adapter
    BY <1>6 DEF UpdateAdapter, Updating
  <2>2. OthersGone /\ Ships /\ ~inWorktree /\ Active' = Active /\ Active \in Trackers
    BY <1>1, <2>1, UpkeepAssumption DEF AdaptersSwap, Ships, Active
  <2>3. adapter'[Active] > 0
    BY <1>1, <2>1, <2>2, AdapterThere
  <2>4. \A n \in ShippedTrackers \ left : n # Active => adapter'[n] = 0
    BY <1>1, <2>1, <2>2, UpkeepAssumption DEF OthersGone
  <2> QED BY <2>1, <2>2, <2>3, <2>4 DEF OthersGone
<1>7. CASE Report
  <2>1. /\ env' = env /\ adapter' = adapter /\ left' = left
        /\ run.at = "report" /\ run'.doing = "none"
    BY <1>7, NoRunIsRun DEF Report, Updating, project
  <2>2. OthersGone /\ adapter[Active] > 0
    BY <1>1, <2>1 DEF AdaptersSwap, Ships, Active
  <2> QED BY <2>1, <2>2 DEF OthersGone, Active
<1> QED BY <1>3, <1>4, <1>5, <1>6, <1>7 DEF UpdateStep

(* "done": no row asks for anything, and what the rows say still holds.    *)
LEMMA ReportsDone ==
  ASSUME IInv, Report, Kind(run.rows, run.root) = "done"
  PROVE  /\ ~inWorktree /\ env.version = binary
         /\ loaded \in Checkouts \/ ~indexed \/ loaded = RootOf[Newest]
         /\ \/ RulesOf(loaded)
            \/ Verified(loaded) /\ loaded = RootOf[Newest] /\ InForce
<1>1. /\ run.root = loaded /\ run.rows[".env"] # "uninit"
      /\ run.rows["user-rules"] \notin {"pending", "unknown"}
      /\ run.rows["rules"] \notin {"uninit", "skipped", "deferred", "updated"}
  BY DEF Kind
<1>2. run.doing = "update" /\ run.at = "report"
  BY DEF Report, Updating
<1>3. run.root = Resolved(loaded) /\ run.verified = Verified(loaded)
  BY <1>2 DEF IInv, RunKnows
<1>4. RowsTrue /\ After({".env"}) /\ After({".env", "rules"}) /\ After({".env", "rules", "user-rules"})
  BY <1>2 DEF IInv, After
<1>5. ~inWorktree /\ env.version = binary
  BY <1>1, <1>4 DEF RowsTrue
<1>6. Verified(loaded) => loaded = RootOf[Newest]
  BY <1>1, <1>3 DEF Resolved
<1>7. RulesOf(loaded) \/ (Verified(loaded) /\ InForce)
  BY <1>1, <1>3, <1>4 DEF RowsTrue
<1> QED BY <1>5, <1>6, <1>7 DEF Verified

LEMMA UpdateStepKeeps ==
  ASSUME IInv, UpdateStep
  PROVE  IInv'
<1>1. /\ machine' = machine /\ UNCHANGED <<legacy, owned, inWorktree, owed, spent>>
      /\ run \in Runs /\ run.doing = "update" /\ next = "rerun" /\ run.flags = Blank
      /\ run.root = Resolved(loaded) /\ run.verified = Verified(loaded) /\ run.root \in Roots
  BY UpdateFrame
<1>2. MachineTypeOK' /\ NewestThere'
  BY <1>1 DEF IInv, UpkeepTypeOK, MachineTypeOK, NewestThere, machine
<1>3. ProjectTypeOK' /\ OwedInPlace' /\ (env.version = 0 => env.values = Blank)' /\ AdaptersSwap'
  BY UpdateFiles, UpdateAdapters
<1>4. CASE Report
  <2>1. next' = Kind(run.rows, run.root) /\ run' = NoRun /\ project' = project
    BY <1>4 DEF Report
  <2>2. Kind(run.rows, run.root) \in Kinds
    BY DEF Kind, Kinds
  <2>3. RunTypeOK'
    BY <1>1, <2>1, <2>2, NoRunIsRun DEF IInv, UpkeepTypeOK, RunTypeOK
  <2>4. RunKnows' /\ RowsTrue'
    BY <1>3, <2>1, NoRunIsRun DEF RunKnows, RowsTrue, After
  <2>5. DoneHolds'
    <3> SUFFICES ASSUME next' = "done" PROVE DoneHolds'
      BY DEF DoneHolds
    <3>1. /\ ~inWorktree /\ env.version = binary
          /\ loaded \in Checkouts \/ ~indexed \/ loaded = RootOf[Newest]
          /\ \/ RulesOf(loaded)
             \/ Verified(loaded) /\ loaded = RootOf[Newest] /\ InForce
      BY <1>4, <2>1, ReportsDone
    <3> QED BY <1>1, <2>1, <3>1, NoRunIsRun
            DEF DoneHolds, RulesOf, Verified, InForce, Newest, machine, project
  <2> QED BY <1>2, <1>3, <2>3, <2>4, <2>5 DEF IInv, UpkeepTypeOK
<1>5. CASE ~Report
  <2>1. /\ run' \in Runs /\ run'.doing = "update" /\ run'.at \in UpdateSteps
        /\ run'.flags = run.flags /\ run'.root = run.root /\ run'.verified = run.verified
        /\ next' = next
    BY <1>5, UpdateMoves
  <2>2. RunTypeOK'
    BY <1>1, <2>1 DEF IInv, UpkeepTypeOK, RunTypeOK
  <2>3. RunKnows'
    BY <1>1, <1>3, <2>1 DEF RunKnows, Resolved, Verified, Newest, machine
  <2>4. RowsTrue' /\ DoneHolds'
    BY <1>1, <1>5, <2>1, UpdateRows DEF DoneHolds
  <2> QED BY <1>2, <1>3, <2>2, <2>3, <2>4 DEF IInv, UpkeepTypeOK
<1> QED BY <1>4, <1>5

-----------------------------------------------------------------------------
LEMMA UpkeepStutters ==
  ASSUME IInv, UNCHANGED upkeepVars
  PROVE  IInv'
<1>1. /\ env' = env /\ legacy' = legacy /\ rules' = rules /\ adapter' = adapter
      /\ board' = board /\ owned' = owned /\ home' = home /\ copy' = copy /\ key' = key
      /\ binary' = binary /\ released' = released /\ fetched' = fetched
      /\ installed' = installed /\ indexed' = indexed /\ loaded' = loaded
      /\ inWorktree' = inWorktree /\ run' = run /\ next' = next /\ owed' = owed
      /\ spent' = spent /\ left' = left
  BY DEF upkeepVars, project, machine
<1>2. UpkeepTypeOK' /\ NewestThere'
  BY <1>1 DEF IInv, UpkeepTypeOK, ProjectTypeOK, MachineTypeOK, RunTypeOK, NewestThere
<1>3. RunKnows' /\ OwedInPlace' /\ AdaptersSwap'
  BY <1>1 DEF IInv, RunKnows, OwedInPlace, AdaptersSwap, OthersGone, Ships, Active, Resting,
              Resolved, Verified, Newest
<1>4. RowsTrue' /\ DoneHolds'
  BY <1>1 DEF IInv, RowsTrue, DoneHolds, After, RulesOf, InForce, Resting, Verified, Newest
<1> QED BY <1>2, <1>3, <1>4 DEF IInv

(* What holds between the steps of init, update and the loop around them.  *)
THEOREM UpkeepInvariance == UpkeepSpec => []IInv
<1>1. Init => IInv
  BY Begins
<1>2. IInv /\ [Next]_upkeepVars => IInv'
  BY PersonKeeps, BeginOrDie, FollowKeeps, InitStepKeeps, OtherSessionKeeps, StartUpdateKeeps,
     UpdateStepKeeps, UpkeepStutters DEF Next, Follow
<1> QED BY <1>1, <1>2, PTL DEF UpkeepSpec

(* Every file, setting, row and next action keeps its type.                *)
THEOREM UpkeepTypes == UpkeepSpec => []UpkeepTypeOK
<1>1. IInv => UpkeepTypeOK
  BY DEF IInv
<1> QED BY <1>1, UpkeepInvariance, PTL

(* What config.yaml said is in the file or in .env, wherever init dies.    *)
THEOREM LegacyStays == UpkeepSpec => []LegacyKept
<1>1. IInv => LegacyKept
  BY DEF IInv, OwedInPlace, LegacyKept
<1> QED BY <1>1, UpkeepInvariance, PTL

(* After a report the project loads the adapter its .env names, and no     *)
(* other of the shipped ones.                                              *)
THEOREM AdapterIsTheTrackers == UpkeepSpec => []AdapterFollows
<1>1. IInv => AdapterFollows
  BY DEF IInv, AdaptersSwap, OthersGone, AdapterFollows, Reported, Ships
<1> QED BY <1>1, UpkeepInvariance, PTL

(* "done" is true, and stays true while other sessions start.              *)
THEOREM DoneIsTrue == UpkeepSpec => []DoneTruthful
<1>1. IInv => DoneTruthful
  <2> SUFFICES ASSUME IInv, Resting, next = "done"
               PROVE  /\ inWorktree \/ env.version = binary
                      /\ loaded \in Checkouts \/ ~indexed \/ loaded = RootOf[Newest]
                      /\ \/ rules # NoText /\ VersionIn[rules] = VersionOf(loaded)
                         \/ copy # NoText /\ copy = RulesAt[loaded]
    BY DEF DoneTruthful
  <2>1. loaded \in Roots
    BY RootsVersioned DEF IInv, UpkeepTypeOK, MachineTypeOK
  <2>2. RulesAt[loaded] # NoText
    BY <2>1, RulesAssumption
  <2> QED BY <2>2 DEF IInv, DoneHolds, RulesOf, InForce
<1> QED BY <1>1, UpkeepInvariance, PTL

-----------------------------------------------------------------------------
(* A merge keeps a value unless a flag replaces it, and never sets a gates *)
(* level nobody asked for.                                                 *)
LEMMA MergedKeeps ==
  ASSUME NEW flags \in Values, NEW values \in Values
  PROVE  /\ \A k \in EnvKeys : values[k] # "" =>
              \/ Merged(flags, values)[k] = values[k]
              \/ k \notin {"tracker", "other"} /\ flags[k] # ""
                   /\ Merged(flags, values)[k] = flags[k]
         /\ flags["gates"] = "" => Merged(flags, values)["gates"] = values["gates"]
<1>1. ASSUME NEW k \in EnvKeys, values[k] # ""
      PROVE  \/ Merged(flags, values)[k] = values[k]
             \/ k \notin {"tracker", "other"} /\ flags[k] # ""
                  /\ Merged(flags, values)[k] = flags[k]
  BY <1>1 DEF Merged, First
<1>2. Merged(flags, values)["gates"] = First(flags["gates"], values["gates"], "")
  BY DEF Merged, EnvKeys, Defaults
<1> QED BY <1>1, <1>2 DEF First

(* A step of a run writes .env by one of three rules.                      *)
LEMMA EnvKeeps ==
  ASSUME IInv, UpdateStep \/ InitStep
  PROVE  /\ home' = home
         /\ \A k \in EnvKeys : env.values[k] # "" =>
              \/ env'.values[k] = env.values[k]
              \/ k \notin {"tracker", "other"} /\ run.flags[k] # ""
                   /\ env'.values[k] = run.flags[k]
         /\ run.flags["gates"] = "" => env'.values["gates"] = env.values["gates"]
<1>1. home' = home
  BY UpdateFrame
  DEF machine, InitStep, InitShim, InitMigrate, InitUnlink, InitEnv, InitFiles, InitRules,
      InitClean, InitAdapter, InitBoard
<1>2. /\ ProjectTypeOK /\ binary \in Versions /\ run.flags \in Values /\ env.values \in Values
      /\ env.version = 0 => env.values = Blank
  BY DEF IInv, UpkeepTypeOK, ProjectTypeOK, MachineTypeOK, RunTypeOK, Runs, RunKnows
<1>3. env' = env \/ env' = Regenerated(run.flags) \/ (env.version = 0 /\ env' = FromLegacy)
  <2>1. CASE UpdateStep
    BY <2>1, UpdateFrame
    DEF UpdateStep, UpdateEnv, UpdateRules, UpdateUserRules, UpdateClean, UpdateBoard,
        UpdateAdapter, Report, project
  <2>2. CASE InitStep
    BY <2>2 DEF InitStep, InitShim, InitMigrate, Migrates, InitUnlink, InitEnv, InitFiles,
                InitRules, InitClean, InitAdapter, InitBoard
  <2> QED BY <2>1, <2>2
<1>4. CASE env' = env
  BY <1>1, <1>4
<1>5. CASE env' = Regenerated(run.flags)
  <2> DEFINE flags == run.flags
             values == env.values
  <2>1. env'.values = Merged(flags, values)
    BY <1>2, <1>5, RegeneratedType
  <2>2. flags \in Values /\ values \in Values
    BY <1>2
  <2> HIDE DEF flags, values
  <2>3. /\ \A k \in EnvKeys : values[k] # "" =>
             \/ env'.values[k] = values[k]
             \/ k \notin {"tracker", "other"} /\ flags[k] # "" /\ env'.values[k] = flags[k]
        /\ flags["gates"] = "" => env'.values["gates"] = values["gates"]
    <3> DEFINE merged == Merged(flags, values)
    <3>1. /\ \A k \in EnvKeys : values[k] # "" =>
               \/ merged[k] = values[k]
               \/ k \notin {"tracker", "other"} /\ flags[k] # "" /\ merged[k] = flags[k]
          /\ flags["gates"] = "" => merged["gates"] = values["gates"]
      BY <2>2, MergedKeeps
    <3>2. env'.values = merged
      BY <2>1
    <3> HIDE DEF merged
    <3> QED BY <3>1, <3>2
  <2> QED BY <1>1, <2>3 DEF flags, values
<1>6. CASE env.version = 0 /\ env' = FromLegacy
  <2>1. \A k \in EnvKeys : env.values[k] = ""
    BY <1>2, <1>6, BlankIsBlank
  <2>2. env'.values["gates"] = "" /\ "gates" \in EnvKeys
    BY <1>6 DEF FromLegacy, Blank, EnvKeys
  <2> QED BY <1>1, <2>1, <2>2
<1> QED BY <1>3, <1>4, <1>5, <1>6

LEMMA FilesKeep ==
  ASSUME IInv, UpdateStep \/ InitStep
  PROVE  /\ \A n \in Trackers : board[n] = "edited" => board'[n] = "edited"
         /\ \A n \in Trackers \ ShippedTrackers : adapter'[n] = adapter[n]
         /\ \A f \in OwnFiles : owned[f] = "foreign" => owned'[f] = "foreign"
<1>1. ProjectTypeOK
  BY DEF IInv, UpkeepTypeOK
<1>2. \A n \in Trackers : board[n] = "edited" => board'[n] = "edited"
  <2>1. board' = board \/ board' = Scaffolded
    BY DEF UpdateStep, UpdateEnv, UpdateRules, UpdateUserRules, UpdateClean, UpdateBoard,
           UpdateAdapter, Report, project, InitStep, InitShim, InitMigrate, InitUnlink, InitEnv,
           InitFiles, InitRules, InitClean, InitAdapter, InitBoard
  <2> QED BY <1>1, <2>1 DEF ProjectTypeOK, Scaffolded
<1>3. \A n \in Trackers \ ShippedTrackers : adapter'[n] = adapter[n]
  <2>1. \/ adapter' = adapter
        \/ Ships /\ \E failed \in SUBSET Others : adapter' = WithoutOthers(failed)
        \/ Ships /\ adapter' = [adapter EXCEPT ![Active] = VersionOf(run.root)]
    <3>1. AdapterStatus = "updated" => Ships
      BY DEF AdapterStatus
    <3> QED BY <3>1
            DEF UpdateStep, UpdateEnv, UpdateRules, UpdateUserRules, UpdateClean, UpdateBoard,
                UpdateAdapter, Report, project, InitStep, InitShim, InitMigrate, InitUnlink,
                InitEnv, InitFiles, InitRules, InitClean, InitAdapter, InitBoard
  <2> QED BY <1>1, <2>1 DEF ProjectTypeOK, WithoutOthers, Others, Ships
<1>4. \A f \in OwnFiles : owned[f] = "foreign" => owned'[f] = "foreign"
  <2>1. \/ owned' = owned
        \/ owned["statusline.sh"] \in {"stale", "lets"}
             /\ owned' = [owned EXCEPT !["statusline.sh"] = "absent"]
        \/ owned' = [f \in OwnFiles |->
                      IF f # "statusline.sh" /\ Manages(f) THEN "lets" ELSE owned[f]]
    BY DEF UpdateStep, UpdateEnv, UpdateRules, UpdateUserRules, UpdateClean, UpdateBoard,
           UpdateAdapter, Report, project, InitStep, InitShim, InitMigrate, InitUnlink, InitEnv,
           InitFiles, InitRules, InitClean, InitAdapter, InitBoard
  <2> QED BY <1>1, <2>1 DEF ProjectTypeOK, Manages
<1> QED BY <1>2, <1>3, <1>4

(* No run takes a person's work; nobody touches the foreign lines.         *)
THEOREM WorkIsKept == UpkeepSpec => PersonsWorkKept
<1>1. [Next]_upkeepVars => [KeepsForeignLines]_home
  <2> SUFFICES ASSUME Next, home' # home PROVE KeepsForeignLines
    BY DEF upkeepVars, machine
  <2>1. DoInitUser
    BY DEF Next, SetsValue, RulesChange, BoardEdited, OwnAdapter, CopyEdited, Released,
           OtherSession, RunsInit, StartUpdate, UpdateStep, UpdateEnv, UpdateRules,
           UpdateUserRules, UpdateClean, UpdateBoard, UpdateAdapter, Report, InitStep, InitShim,
           InitMigrate, InitUnlink, InitEnv, InitFiles, InitRules, InitClean, InitAdapter,
           InitBoard, Follow, DoInit, DoBinary, DoReload, DoPlugin, FreshSession,
           DoMainCheckout, Dies, machine
  <2>2. PICK flags \in FlagSets : home' = UserRegenerated(flags)
    BY <2>1 DEF DoInitUser
  <2> QED BY <2>2 DEF KeepsForeignLines, UserRegenerated, ForeignKeys
<1>2. IInv /\ [Next]_upkeepVars => [~Resting => KeepsWork]_upkeepVars
  <2> SUFFICES ASSUME IInv, Next, ~Resting PROVE KeepsWork
    OBVIOUS
  <2>1. UpdateStep \/ InitStep \/ OtherSession \/ Dies
    BY DEF Next, SetsValue, RulesChange, BoardEdited, OwnAdapter, CopyEdited, ByPerson, Released,
           RunsInit, StartInit, StartUpdate, Follow, DoInit, DoInitUser, DoBinary, DoReload,
           DoPlugin, DoMainCheckout, Told
  <2>2. CASE UpdateStep \/ InitStep
    BY <2>2, EnvKeeps, FilesKeep DEF KeepsWork, Effective
  <2>3. CASE OtherSession \/ Dies
    <3>1. env' = env /\ home' = home /\ board' = board /\ adapter' = adapter /\ owned' = owned
      BY <2>3 DEF OtherSession, Dies, project, machine
    <3> QED BY <3>1 DEF KeepsWork, Effective
  <2> QED BY <2>1, <2>2, <2>3
<1> QED BY <1>1, <1>2, UpkeepInvariance, PTL DEF UpkeepSpec, PersonsWorkKept
=============================================================================
