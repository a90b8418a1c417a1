----------------------------- MODULE RulesCache -----------------------------
(***************************************************************************)
(* rulescache.Sync as every SessionStart hook and `lets init --user` runs  *)
(* it: concurrent sessions of different plugin versions bring one file to  *)
(* their own plugin's text under a per-home lock, while a person edits the *)
(* file and plugins come and go.  A process may die between any two steps, *)
(* and each write may fail.                                                *)
(***************************************************************************)
EXTENDS RulesFile, FiniteSets

CONSTANTS
  Sessions,    \* processes that run Sync
  NoSession,   \* the lock is free
  NoRoot,      \* no plugin root: the session is not in a Sync
  MaxSyncs,    \* bound: syncs started
  MaxRulesEdits, \* bound: changes a person makes to the file
  MaxInstalls, \* bound: plugins installed or removed
  MaxFaults    \* bound: deaths and failed writes

ASSUME BoundsAssumption ==
  /\ NoSession \notin Sessions
  /\ NoRoot \notin Roots
  /\ {MaxSyncs, MaxRulesEdits, MaxInstalls, MaxFaults} \subseteq Nat

VARIABLES
  rulesCopy,  \* ~/.claude/rules/lets-rules.md
  rulesKey,   \* ~/.lets/cache/rules-cache.json
  backups,    \* the texts saved in lets-rules.md.bak[-N]
  plugins,    \* the plugins installed under ~/.claude/plugins/cache
  known,      \* every plugin that was ever installed
  lock,       \* rules-cache.lock
  stage,      \* where each session's Sync stands
  root,       \* the plugin root the session loaded
  create,     \* InProject and ScopeUser: may create the file
  saw,        \* the key and the text Sync read under the lock
  taken       \* how often each bounded kind of step was taken

rulesVars == <<rulesCopy, rulesKey, backups, plugins, known, lock, stage, root,
               create, saw, taken>>

Stages == {"idle", "start", "locked", "backup", "write", "record", "unlock"}
Budgets == {"syncs", "edits", "installs", "faults"}
Limit == [k \in Budgets |-> CASE k = "syncs" -> MaxSyncs [] k = "edits" -> MaxRulesEdits
                            [] k = "installs" -> MaxInstalls [] OTHER -> MaxFaults]
Views == [key : Keys \cup {NoKey}, copy : Texts \cup {NoText},
          installed : SUBSET (Roots \ Checkouts)]

RulesTypeOK ==
  /\ rulesCopy \in Texts \cup {NoText}
  /\ rulesKey \in Keys \cup {NoKey}
  /\ backups \subseteq Texts
  /\ plugins \subseteq Roots \ Checkouts
  /\ known \subseteq Roots \ Checkouts
  /\ lock \in Sessions \cup {NoSession}
  /\ stage \in [Sessions -> Stages]
  /\ root \in [Sessions -> Roots \cup {NoRoot}]
  /\ create \in [Sessions -> BOOLEAN]
  /\ saw \in [Sessions -> Views]
  /\ taken \in [Budgets -> Nat]

NoView == [key |-> NoKey, copy |-> NoText, installed |-> {}]

Spend(k) == taken[k] < Limit[k] /\ taken' = [taken EXCEPT ![k] = @ + 1]
Goto(s, to) == stage' = [stage EXCEPT ![s] = to]

(* A Sync returns, or its process dies, and its locals are gone.           *)
End(s) ==
  /\ Goto(s, "idle")
  /\ root' = [root EXCEPT ![s] = NoRoot]
  /\ create' = [create EXCEPT ![s] = FALSE]
  /\ saw' = [saw EXCEPT ![s] = NoView]

SyncInit ==
  /\ rulesCopy \in {NoText} \cup Texts
  /\ rulesKey = NoKey
  /\ backups = {}
  /\ plugins \in SUBSET (Roots \ Checkouts)
  /\ known = plugins
  /\ lock = NoSession
  /\ stage = [s \in Sessions |-> "idle"]
  /\ root = [s \in Sessions |-> NoRoot]
  /\ create = [s \in Sessions |-> FALSE]
  /\ saw = [s \in Sessions |-> NoView]
  /\ taken = [k \in Budgets |-> 0]

(* A session start (or /clear, /compact) of a plugin that is there to run. *)
Start(s) ==
  /\ stage[s] = "idle"
  /\ Spend("syncs")
  /\ \E r \in plugins \cup Checkouts, c \in BOOLEAN :
       /\ root' = [root EXCEPT ![s] = r]
       /\ create' = [create EXCEPT ![s] = c]
  /\ Goto(s, "start")
  /\ UNCHANGED <<rulesCopy, rulesKey, backups, plugins, known, lock, saw>>

(* The exit before any lock: user scope is not in use here.                *)
NotInUse(s) ==
  /\ stage[s] = "start" /\ rulesCopy = NoText /\ ~create[s]
  /\ End(s)
  /\ UNCHANGED <<rulesCopy, rulesKey, backups, plugins, known, lock, taken>>

(* Two seconds pass while another session holds the lock.                  *)
Busy(s) ==
  /\ stage[s] = "start" /\ lock # NoSession
  /\ End(s)
  /\ UNCHANGED <<rulesCopy, rulesKey, backups, plugins, known, lock, taken>>

Lock(s) ==
  /\ stage[s] = "start" /\ (rulesCopy # NoText \/ create[s])
  /\ lock = NoSession
  /\ lock' = s
  /\ Goto(s, "locked")
  /\ UNCHANGED <<rulesCopy, rulesKey, backups, plugins, known, root, create, saw,
                 taken>>

(* Everything is read again inside the lock, then decided.                 *)
Decide(s) ==
  LET r == root[s]
      v == Verdict(r, rulesCopy, rulesKey, plugins, create[s]) IN
  /\ stage[s] = "locked"
  /\ saw' = [saw EXCEPT ![s] =
               [key |-> rulesKey, copy |-> rulesCopy, installed |-> plugins]]
  /\ \/ v = "equal" /\ Rekeys(r, rulesKey, plugins) /\ Goto(s, "record")
     \/ v = "equal" /\ ~Rekeys(r, rulesKey, plugins) /\ Goto(s, "unlock")
     \/ v = "create" /\ Goto(s, "write")
     \/ v = "replace" /\ Provable(rulesCopy, rulesKey, plugins) /\ Goto(s, "write")
     \/ v = "replace" /\ ~Provable(rulesCopy, rulesKey, plugins) /\ Goto(s, "backup")
     \/ v \notin {"equal", "create", "replace"} /\ Goto(s, "unlock")
  /\ UNCHANGED <<rulesCopy, rulesKey, backups, plugins, known, lock, root, create,
                 taken>>

(* backup(): the text that was read goes to the first free .bak name.      *)
Backup(s) ==
  /\ stage[s] = "backup"
  /\ backups' = backups \cup {saw[s].copy}
  /\ Goto(s, "write")
  /\ UNCHANGED <<rulesCopy, rulesKey, plugins, known, lock, root, create, saw, taken>>

(* The atomic replace, with the plugin text read under the lock.           *)
Write(s) ==
  /\ stage[s] = "write"
  /\ rulesCopy' = RulesAt[root[s]]
  /\ Goto(s, "record")
  /\ UNCHANGED <<rulesKey, backups, plugins, known, lock, root, create, saw,
                 taken>>

(* writeKey: best effort, so a failed write goes on to the unlock too.     *)
Record(s) ==
  /\ stage[s] = "record"
  /\ rulesKey' = KeyFor(root[s])
  /\ Goto(s, "unlock")
  /\ UNCHANGED <<rulesCopy, backups, plugins, known, lock, root, create, saw,
                 taken>>

Fails(s) ==
  /\ stage[s] \in {"backup", "write", "record"}
  /\ Spend("faults")
  /\ Goto(s, "unlock")
  /\ UNCHANGED <<rulesCopy, rulesKey, backups, plugins, known, lock, root, create,
                 saw>>

Unlock(s) ==
  /\ stage[s] = "unlock"
  /\ lock' = NoSession
  /\ End(s)
  /\ UNCHANGED <<rulesCopy, rulesKey, backups, plugins, known, taken>>

(* The process is killed; the kernel drops its lock.                       *)
SyncDies(s) ==
  /\ stage[s] # "idle"
  /\ Spend("faults")
  /\ End(s)
  /\ lock' = IF lock = s THEN NoSession ELSE lock
  /\ UNCHANGED <<rulesCopy, rulesKey, backups, plugins, known>>

(* A person writes or deletes the file, without the lock.                  *)
Edited ==
  /\ Spend("edits")
  /\ rulesCopy' \in (Texts \cup {NoText}) \ {rulesCopy}
  /\ UNCHANGED <<rulesKey, backups, plugins, known, lock, stage, root, create,
                 saw>>

(* Claude Code installs a plugin, or removes one.                          *)
PluginAdded(r) ==
  /\ r \notin plugins \cup Checkouts
  /\ Spend("installs")
  /\ plugins' = plugins \cup {r}
  /\ known' = known \cup {r}
  /\ UNCHANGED <<rulesCopy, rulesKey, backups, lock, stage, root, create, saw>>

PluginPruned(r) ==
  /\ r \in plugins
  /\ Spend("installs")
  /\ plugins' = plugins \ {r}
  /\ UNCHANGED <<rulesCopy, rulesKey, backups, known, lock, stage, root, create, saw>>

Sync(s) ==
  \/ Start(s) \/ NotInUse(s) \/ Busy(s) \/ Lock(s) \/ Decide(s) \/ Backup(s)
  \/ Write(s) \/ Record(s) \/ Fails(s) \/ Unlock(s) \/ SyncDies(s)

SyncNext ==
  \/ \E s \in Sessions : Sync(s)
  \/ Edited
  \/ \E r \in Roots : PluginAdded(r) \/ PluginPruned(r)

RulesSpec == SyncInit /\ [][SyncNext]_rulesVars

(***************************************************************************)
(* Properties                                                              *)
(***************************************************************************)
Replaces(s) == stage[s] = "write" /\ rulesCopy' # rulesCopy /\ stage'[s] = "record"

(* Two syncs never work on the file, its backups or its key at once.       *)
OneWriter ==
  \A s \in Sessions : stage[s] \notin {"idle", "start"} => lock = s

(* "Forward only: an older plugin never replaces a newer cache", at the    *)
(* moment of the replace and whatever other sessions did meanwhile: a text *)
(* of an installed release gives way to no older one, and a text that is   *)
(* the key's own, or nobody's release, only to a plugin the key does not   *)
(* rank below its own version.                                             *)
ForwardOnly ==
  [][\A s \in Sessions : Replaces(s) /\ rulesCopy = saw[s].copy /\ rulesCopy # NoText =>
       IF rulesCopy # rulesKey.text /\ \E r \in saw[s].installed : RulesAt[r] = rulesCopy
       THEN VersionIn[rulesCopy'] >= VersionIn[rulesCopy]
       ELSE VersionIn[rulesCopy'] >= rulesKey.version]_rulesVars

(* A text no installed plugin ever shipped (a person's own rules) is in a  *)
(* backup by the time a sync replaces it, whichever of the steps before    *)
(* failed; only a text put there after the sync read the file can be lost, *)
(* and then it is one nobody had when the lock was taken.                  *)
Shipped == {RulesAt[r] : r \in known}
EditsBackedUp ==
  [][\A s \in Sessions : Replaces(s) =>
       \/ rulesCopy = NoText
       \/ rulesCopy \in Shipped \cup backups
       \/ rulesCopy # saw[s].copy]_rulesVars

(* The key certifies only what an installed plugin shipped: neither a      *)
(* --plugin-dir checkout nor a person's edit ever becomes "LETS content"   *)
(* that later syncs replace without a backup or refuse to go below.        *)
KeyGrounded == rulesKey = NoKey \/ (rulesKey.from \in known /\ rulesKey = KeyFor(rulesKey.from))
=============================================================================
