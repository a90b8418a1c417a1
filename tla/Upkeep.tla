------------------------------- MODULE Upkeep -------------------------------
(***************************************************************************)
(* What `lets init`, `lets update` and the SessionStart hook keep in step  *)
(* on one machine: a project's .lets/.env, rules and tracker adapter       *)
(* files, the binary, the installed plugins and the global rules copy.     *)
(* init and update run one at a time and may die after any write; the      *)
(* person edits files between runs, releases come out, and sessions of     *)
(* every installed plugin start at any moment.  "The loop is idempotent:   *)
(* do the one step, rerun `lets update`, repeat until done."               *)
(***************************************************************************)
EXTENDS RulesFile, FiniteSets

CONSTANTS
  Trackers,     \* names LETS_TRACKER can have
  ShippedTrackers, \* those the plugin ships an adapter for
  RootOf,       \* RootOf[v]: the installed root of plugin version v
  Settings,     \* the texts a setting can have
  PlainLanguages, \* those of [A-Za-z0-9._/-] alone: a language migration takes
  Home,         \* the person's ~/.lets/.env values at first
  FlagSets,     \* flag combinations `lets init` is run with
  Choices,      \* <<key, value>> settings a person may put into .lets/.env
  Beginnings,   \* initial states of the project's files
  MaxEdits,     \* bound: changes a person or a teammate makes
  MaxDeaths     \* bound: runs that die

EnvKeys == {"language", "tracker", "scope", "launcher", "gates", "other"}
UserKeys == {"language", "launcher"}
ForeignKeys == EnvKeys \ UserKeys
Defaults == [language |-> "English", tracker |-> "beads", scope |-> "project",
             launcher |-> "terminal", gates |-> "", other |-> ""]
Versions == DOMAIN RootOf
OwnFiles == {"statusLine", "orca.yaml", "statusline.sh"}
RowNames == {".env", "binary", "plugin", "rules", "user-rules", "tracker-rules"}
Blank == [k \in EnvKeys |-> ""]

ASSUME UpkeepAssumption ==
  /\ ShippedTrackers \subseteq Trackers
  /\ Versions \subseteq Nat \ {0}
  /\ RootOf \in [Versions -> Roots \ Checkouts]
  /\ \A v \in Versions : VersionIn[RulesAt[RootOf[v]]] = v
  /\ {MaxEdits, MaxDeaths} \subseteq Nat
(* Every root ships rules that carry a version, a checkout's too: the      *)
(* release scripts keep them equal to the plugin's.                        *)
ASSUME CheckoutsVersioned == \A r \in Checkouts : VersionIn[RulesAt[r]] > 0

Values == [EnvKeys -> Settings]
ASSUME SettingsAssumption ==
  /\ Blank \in Values /\ Defaults \in Values /\ Home \in Values
  /\ PlainLanguages \subseteq Settings \ {"none"}
  /\ FlagSets \subseteq Values
  /\ \A c \in Choices : c[1] \in EnvKeys /\ c[2] \in Settings
(* A project begins with a .env or without values, and a config.yaml that  *)
(* is there names a language; of the installed versions one is the newest. *)
ASSUME BeginningsAssumption ==
  \A b \in Beginnings :
    /\ b.env \in [version : Versions \cup {0}, values : Values]
    /\ b.env.version = 0 => b.env.values = Blank
    /\ b.legacy \in (Settings \cup {"none"}) \ {""}
    /\ {b.rules, b.copy} \subseteq Texts \cup {NoText}
    /\ b.adapter \in [Trackers -> Nat]
    /\ b.owned \in [OwnFiles -> {"absent", "stale", "lets", "foreign"}]
    /\ b.binary \in Versions /\ b.installed \subseteq Versions
    /\ \E v \in b.installed : \A w \in b.installed : w <= v

VARIABLES
  env,        \* .lets/.env: the version that wrote it (0: no file), its values
  legacy,     \* the language in .lets/config.yaml, "none" without the file
  rules,      \* .claude/rules/lets-rules.md of the project
  adapter,    \* adapter[n]: version of tracker-<n>.md, 0 if absent
  board,      \* board[n]: tracker-<n>.board.md: "none", "template" or "edited"
  owned,      \* the files init manages only while they are LETS's own
  home,       \* ~/.lets/.env: its values
  copy, key,  \* the global rules copy and its cache key (RulesFile)
  binary,     \* version of the lets binary
  released,   \* the newest release of binary and plugin
  fetched,    \* the release in update-check.json, 0 if none
  installed,  \* installed plugin versions
  indexed,    \* installed_plugins.json can be read
  loaded,     \* the plugin root the person's session runs
  inWorktree, \* the person's session sits in a linked worktree
  run,        \* the init or update run in progress
  next,       \* next_action of the last update, "rerun" once acted on
  owed,       \* the language of a config.yaml, until somebody sets another
  left,       \* the adapters this or the last update could not remove
  spent       \* edits and deaths so far

project == <<env, legacy, rules, adapter, board, owned>>
machine == <<home, copy, key, binary, released, fetched, installed, indexed, loaded>>
upkeepVars == <<project, machine, inWorktree, run, next, owed, left, spent>>

VersionOf(r) == VersionIn[RulesAt[r]]
RootsOf(vs) == {RootOf[v] : v \in vs}
NewestOf(vs) == CHOOSE v \in vs : \A w \in vs : w <= v
Installed == RootsOf(installed)
Newest == NewestOf(installed)

NoRows == [n \in RowNames |-> "none"]
NoRun == [doing |-> "none", at |-> "end", flags |-> Blank, root |-> NoText,
          verified |-> FALSE, seen |-> 0, rows |-> NoRows]
Resting == run.doing = "none"

At(step) == run' = [run EXCEPT !.at = step]
Row(name, status, step) == run' = [run EXCEPT !.at = step, !.rows[name] = status]

(***************************************************************************)
(* Pure parts                                                              *)
(***************************************************************************)
(* mergePrefs: flag, else the file's value, else the default; the tracker  *)
(* in the file wins over its flag, and an unset gates level stays unset so *)
(* that the person's ~/.lets/.env still applies.                           *)
First(a, b, c) == IF a # "" THEN a ELSE IF b # "" THEN b ELSE c
MergedGatesDefault(flags, values) ==
  [k \in EnvKeys |->
     CASE k = "tracker" -> First(values[k], flags[k], Defaults[k])
       [] k = "other"   -> values[k]
       [] k = "gates"   -> First(flags[k], values[k], "standard")
       [] OTHER         -> First(flags[k], values[k], Defaults[k])]
Merged(flags, values) ==
  [k \in EnvKeys |->
     CASE k = "tracker" -> First(values[k], flags[k], Defaults[k])
       [] k = "other"   -> values[k]
       [] OTHER         -> First(flags[k], values[k], Defaults[k])]

(* RegenerateEnv: nothing to do, or one atomic replace.                    *)
Regenerated(flags) ==
  IF env.version = binary /\ Merged(flags, env.values) = env.values THEN env
  ELSE [version |-> binary, values |-> Merged(flags, env.values)]

(* RegenerateUserEnv: of ~/.lets/.env LETS manages two keys only, any other *)
(* line is kept as it is (extractForeignKeysSet).                          *)
UserRegenerated(flags) ==
  [k \in EnvKeys |-> IF k \in ForeignKeys THEN home[k]
                   ELSE First(flags[k], home[k], Defaults[k])]

(* MergedEnv: the project's value, else the person's.                      *)
Effective(k) == IF env.values[k] # "" THEN env.values[k] ELSE home[k]

(* drift.Check of a plugin's file version against the installed one's.     *)
Drift(plugin, present, version) ==
  IF plugin = 0 THEN "unreadable"
  ELSE IF ~present THEN "missing"
  ELSE IF version = 0 THEN "unknown"
  ELSE IF version < plugin THEN "outdated"
  ELSE IF version > plugin THEN "ahead" ELSE "equal"
Detected(d) == d \notin {"equal", "unreadable"}
RulesDrift(r) == Drift(VersionOf(r), rules # NoText,
                       IF rules = NoText THEN 0 ELSE VersionIn[rules])
AdapterDrift(r, n) == Drift(VersionOf(r), adapter[n] > 0, adapter[n])

(* ResolveInstalledRoot: the newest verified install, or the handed root.  *)
Verified(r) == r \notin Checkouts /\ indexed
Resolved(r) == IF Verified(r) THEN RootOf[Newest] ELSE r

(* FetchLatest: a live answer, the cached one (still fresh, or stale after *)
(* a failed request), or none.                                             *)
Latest == {released, fetched, 0}
VersionRow(v, seen) == IF seen = 0 THEN "unknown"
                       ELSE IF v < seen THEN "outdated" ELSE "ok"

(* What a Sync of root r leaves (RulesCache has its steps).                *)
Synced(r, vs, create) ==
  LET v == Verdict(r, copy, key, RootsOf(vs), create) IN
  /\ copy' = IF v \in {"create", "replace"} THEN RulesAt[r] ELSE copy
  /\ key' = IF \/ v \in {"create", "replace"}
               \/ v = "equal" /\ Rekeys(r, key, RootsOf(vs))
            THEN KeyFor(r) ELSE key
HookCreates == env.version > 0 /\ Effective("scope") = "user"

(* userRulesInfo: verified, to be fixed by the next session start (Plan    *)
(* says so), or neither.                                                   *)
UserRulesAlwaysPending(r, verified) ==
  IF copy = NoText THEN "none"
  ELSE IF verified /\ key.text = copy /\ copy = RulesAt[r]
            /\ key.version = VersionOf(r) THEN "ok"
  ELSE "pending"
UserRulesByKey(r, verified) ==
  IF copy = NoText THEN "none"
  ELSE IF ~verified THEN "unknown"
  ELSE IF key.version = VersionOf(r) THEN "ok" ELSE "pending"
UserRules(r, verified) ==
  LET fixes == Verdict(r, copy, key, Installed, FALSE) \in {"equal", "create", "replace"} IN
  IF copy = NoText THEN "none"
  ELSE IF ~verified THEN "unknown"
  ELSE IF key.text = copy /\ copy = RulesAt[r] /\ key.version = VersionOf(r) THEN "ok"
  ELSE IF fixes THEN "pending" ELSE "unknown"

(* computeNextAction: the first step that applies.                         *)
Kind(rows, r) ==
  LET written == {rows["rules"], rows["tracker-rules"]} IN
  IF rows[".env"] = "uninit" THEN "init"
  ELSE IF rows["rules"] = "uninit" THEN "init-user"
  ELSE IF rows["binary"] = "outdated" THEN "binary"
  ELSE IF r # loaded THEN "reload"
  ELSE IF rows["plugin"] = "outdated" \/ "deferred" \in written THEN "plugin"
  ELSE IF "updated" \in written THEN "reload"
  ELSE IF rows["rules"] = "skipped" THEN "main-checkout"
  ELSE IF rows["user-rules"] = "pending" THEN "new-session"
  ELSE IF rows["user-rules"] = "unknown" THEN "user-rules" ELSE "done"

(***************************************************************************)
(* Initial states and the world around the runs                            *)
(***************************************************************************)
Init ==
  /\ \E b \in Beginnings :
       /\ env = b.env /\ legacy = b.legacy /\ rules = b.rules
       /\ adapter = b.adapter /\ owned = b.owned
       /\ copy = b.copy /\ installed = b.installed /\ indexed = b.indexed
       /\ loaded \in {RootOf[v] : v \in b.installed} \cup Checkouts
       /\ binary = b.binary
       /\ owed = IF b.env.version = 0 THEN b.legacy ELSE "none"
  /\ board = [n \in Trackers |-> "none"] /\ home = Home
  /\ key = NoKey /\ released = Newest /\ fetched = 0
  /\ inWorktree \in BOOLEAN
  /\ run = NoRun /\ next = "rerun" /\ left = {}
  /\ spent = [edits |-> 0, deaths |-> 0]

ByPerson ==
  /\ Resting /\ spent.edits < MaxEdits
  /\ spent' = [spent EXCEPT !.edits = @ + 1]
  /\ next' = "rerun"
  /\ UNCHANGED run

(* An edit of .lets/.env; switching trackers is such an edit.              *)
SetsValue ==
  /\ ByPerson /\ env.version > 0
  /\ \E c \in Choices :
       /\ env.values[c[1]] # c[2]
       /\ env' = [env EXCEPT !.values[c[1]] = c[2]]
       /\ owed' = IF c[1] = "language" THEN "none" ELSE owed
  /\ UNCHANGED <<legacy, rules, adapter, board, owned, machine, inWorktree, left>>

(* The project rules change under the person: an edit, or a pull.          *)
RulesChange ==
  /\ ByPerson
  /\ rules' \in (Texts \cup {NoText}) \ {rules}
  /\ UNCHANGED <<env, legacy, adapter, board, owned, machine, inWorktree, owed, left>>

(* A board profile is filled in; an adapter of one's own is written.       *)
BoardEdited ==
  /\ ByPerson
  /\ \E n \in Trackers : board[n] = "template" /\ board' = [board EXCEPT ![n] = "edited"]
  /\ UNCHANGED <<env, legacy, rules, adapter, owned, machine, inWorktree, owed, left>>

OwnAdapter ==
  /\ ByPerson
  /\ \E n \in Trackers \ ShippedTrackers :
       adapter[n] = 0 /\ adapter' = [adapter EXCEPT ![n] = 1]
  /\ UNCHANGED <<env, legacy, rules, board, owned, machine, inWorktree, owed, left>>

CopyEdited ==
  /\ ByPerson
  /\ copy' \in (Texts \cup {NoText}) \ {copy}
  /\ UNCHANGED <<project, home, key, binary, released, fetched, installed, indexed,
                 loaded, inWorktree, owed, left>>

(* A new version is released.                                              *)
Released ==
  /\ Resting /\ next' = "rerun"
  /\ \E v \in Versions : v > released /\ released' = v
  /\ UNCHANGED <<project, home, copy, key, binary, fetched, installed, indexed,
                 loaded, inWorktree, run, owed, left, spent>>

(* Some session of an installed plugin starts: its hook syncs the copy.    *)
OtherSession ==
  /\ \E r \in Installed \cup Checkouts : Synced(r, installed, HookCreates)
  /\ UNCHANGED <<project, home, binary, released, fetched, installed, indexed,
                 loaded, inWorktree, run, next, owed, left, spent>>

(***************************************************************************)
(* lets update                                                             *)
(***************************************************************************)
(* The roots and the latest release are resolved once; the binary and      *)
(* plugin rows follow from them.                                           *)
StartUpdate ==
  /\ Resting /\ next = "rerun" /\ left' = {}
  /\ \E seen \in Latest :
       LET r == Resolved(loaded) IN
       /\ fetched' = IF seen = released THEN seen ELSE fetched
       /\ run' = [doing |-> "update", at |-> ".env", flags |-> Blank, root |-> r,
                  verified |-> Verified(loaded), seen |-> seen,
                  rows |-> [NoRows EXCEPT
                              !["binary"] = VersionRow(binary, seen),
                              !["plugin"] = VersionRow(VersionOf(r), seen)]]
  /\ UNCHANGED <<project, home, copy, key, binary, released, installed, indexed,
                 loaded, inWorktree, next, owed, spent>>

Updating(step) == run.doing = "update" /\ run.at = step

UpdateEnv ==
  /\ Updating(".env")
  /\ IF inWorktree \/ env.version = 0
     THEN /\ Row(".env", IF inWorktree THEN "skipped" ELSE "uninit", "rules")
          /\ UNCHANGED env
     ELSE env' = Regenerated(Blank) /\ Row(".env", "ok", "rules")
  /\ UNCHANGED <<legacy, rules, adapter, board, owned, machine, inWorktree, next,
                 owed, left, spent>>

PluginBehind ==
  run.rows["plugin"] = "outdated" \/ VersionOf(run.root) < binary

(* The project rules row, in the order of the switch.                      *)
RulesStatus ==
  LET d == RulesDrift(run.root) IN
  IF inWorktree THEN "skipped"
  ELSE IF d = "missing" /\ Effective("scope") = "user"
       THEN IF copy # NoText THEN "delegated" ELSE "uninit"
  ELSE IF d = "outdated" /\ PluginBehind THEN "deferred"
  ELSE IF Detected(d) THEN "updated" ELSE "ok"

UpdateRules ==
  /\ Updating("rules")
  /\ rules' = IF RulesStatus = "updated" THEN RulesAt[run.root] ELSE rules
  /\ Row("rules", RulesStatus, "user-rules")
  /\ UNCHANGED <<env, legacy, adapter, board, owned, machine, inWorktree, next,
                 owed, left, spent>>

UpdateUserRules ==
  /\ Updating("user-rules")
  /\ Row("user-rules", UserRules(run.root, run.verified), "clean")
  /\ UNCHANGED <<project, machine, inWorktree, next, owed, left, spent>>

(* The tracker named in .lets/.env, when the plugin ships its adapter.     *)
Active == env.values["tracker"]
Ships == env.version > 0 /\ Active \in ShippedTrackers

(* CleanupShippedTrackerFiles, before the new adapter is there: the others *)
(* go, but for the files that cannot be removed.                           *)
Others == {n \in ShippedTrackers \ {Active} : adapter[n] > 0}
KeepingOthers(failed) == adapter
WithoutOthers(failed) ==
  [n \in Trackers |-> IF n \in Others \ failed THEN 0 ELSE adapter[n]]

UpdateClean ==
  /\ Updating("clean")
  /\ IF Ships /\ ~inWorktree
     THEN \E failed \in SUBSET Others : adapter' = WithoutOthers(failed) /\ left' = failed
     ELSE UNCHANGED <<adapter, left>>
  /\ At("board")
  /\ UNCHANGED <<env, legacy, rules, board, owned, machine, inWorktree, next, owed,
                 spent>>

(* ScaffoldBoardOnce: never over a board that is there.                    *)
Scaffolded ==
  IF board[Active] = "none" THEN [board EXCEPT ![Active] = "template"] ELSE board

UpdateBoard ==
  /\ Updating("board")
  /\ board' = IF Ships /\ ~inWorktree THEN Scaffolded ELSE board
  /\ At("adapter")
  /\ UNCHANGED <<env, legacy, rules, adapter, owned, machine, inWorktree, next,
                 owed, left, spent>>

AdapterStatus ==
  LET d == AdapterDrift(run.root, Active) IN
  IF inWorktree THEN "skipped"
  ELSE IF ~Ships THEN IF env.version > 0 /\ adapter[Active] > 0 THEN "delegated" ELSE "none"
  ELSE IF d = "outdated" /\ PluginBehind THEN "deferred"
  ELSE IF Detected(d) THEN "updated" ELSE "ok"

UpdateAdapter ==
  /\ Updating("adapter")
  /\ adapter' = IF AdapterStatus = "updated"
                THEN [adapter EXCEPT ![Active] = VersionOf(run.root)] ELSE adapter
  /\ Row("tracker-rules", AdapterStatus, "report")
  /\ UNCHANGED <<env, legacy, rules, board, owned, machine, inWorktree, next, owed, left,
                 spent>>

Report ==
  /\ Updating("report")
  /\ next' = Kind(run.rows, run.root)
  /\ run' = NoRun
  /\ UNCHANGED <<project, machine, inWorktree, owed, left, spent>>

UpdateStep ==
  UpdateEnv \/ UpdateRules \/ UpdateUserRules \/ UpdateClean \/ UpdateBoard
    \/ UpdateAdapter \/ Report

(***************************************************************************)
(* lets init, in the main checkout                                         *)
(***************************************************************************)
StartInit(flags) ==
  /\ Resting /\ ~inWorktree
  /\ run' = [NoRun EXCEPT !.doing = "init", !.at = "shim", !.flags = flags,
                         !.root = loaded]

Initing(step) == run.doing = "init" /\ run.at = step

(* MigrateStatuslineSh: our own shim goes, a person's script stays.        *)
InitShim ==
  /\ Initing("shim")
  /\ owned' = IF owned["statusline.sh"] \in {"stale", "lets"}
              THEN [owned EXCEPT !["statusline.sh"] = "absent"] ELSE owned
  /\ At("migrate")
  /\ UNCHANGED <<env, legacy, rules, adapter, board, machine, inWorktree, next,
                 owed, left, spent>>

(* MigrateYamlToEnv: .env is written from config.yaml unless it is there   *)
(* already, and only then is config.yaml removed.  A language of other     *)
(* characters is replaced by the default, and keys that config.yaml did    *)
(* not have are written empty.                                             *)
FromLegacy ==
  [version |-> binary,
   values |-> [Blank EXCEPT !["tracker"] = Defaults["tracker"],
     !["language"] = IF legacy \in PlainLanguages THEN legacy ELSE Defaults["language"]]]

Migrates == legacy # "none" /\ env.version = 0

InitMigrateUnlinkFirst ==
  /\ Initing("migrate")
  /\ legacy' = "none"
  /\ env' = env
  /\ run' = [run EXCEPT !.at = "unlink"]
  /\ UNCHANGED <<rules, adapter, board, owned, machine, inWorktree, next, owed,
                 left, spent>>

InitMigrate ==
  /\ Initing("migrate")
  /\ \/ env' = (IF Migrates THEN FromLegacy ELSE env) /\ At("unlink")
     \/ Migrates /\ UNCHANGED env /\ At(".env")     \* it cannot be read: it stays
  /\ UNCHANGED <<legacy, rules, adapter, board, owned, machine, inWorktree, next,
                 owed, left, spent>>

InitUnlink ==
  /\ Initing("unlink")
  /\ legacy' = "none"
  /\ At(".env")
  /\ UNCHANGED <<env, rules, adapter, board, owned, machine, inWorktree, next, owed, left,
                 spent>>

(* A new .env needs its flags; init fails without them.                    *)
InitEnv ==
  /\ Initing(".env")
  /\ IF env.version = 0 /\ run.flags["language"] = ""
     THEN run' = NoRun /\ next' = "rerun" /\ UNCHANGED <<env, owed>>
     ELSE /\ env' = Regenerated(run.flags)
          /\ owed' = IF run.flags["language"] # "" THEN "none" ELSE owed
          /\ At("files")
          /\ UNCHANGED next
  /\ UNCHANGED <<legacy, rules, adapter, board, owned, machine, inWorktree, left, spent>>

(* EnsureOrcaYAML (only for the orca launcher) and SetStatusLine: a file   *)
(* is written when absent or LETS's own, never when it is a person's.      *)
OrcaWanted == env.values["launcher"] = "orca"
Manages(f) == owned[f] # "foreign" /\ (f = "orca.yaml" => OrcaWanted)
InitFiles ==
  /\ Initing("files")
  /\ owned' = [f \in OwnFiles |->
                 IF f # "statusline.sh" /\ Manages(f) THEN "lets" ELSE owned[f]]
  /\ At("rules")
  /\ UNCHANGED <<env, legacy, rules, adapter, board, machine, inWorktree, next, owed, left,
                 spent>>

(* effectiveRulesScope reads the project's .env alone.                     *)
ProjectScope == env.values["scope"]
InitRules ==
  LET d == RulesDrift(run.root) IN
  /\ Initing("rules")
  /\ rules' = IF Detected(d) /\ ~(d = "missing" /\ ProjectScope = "user")
              THEN RulesAt[run.root] ELSE rules
  /\ At("clean")
  /\ UNCHANGED <<env, legacy, adapter, board, owned, machine, inWorktree, next, owed, left,
                 spent>>

InitClean ==
  /\ Initing("clean")
  /\ \/ ~Ships /\ UNCHANGED adapter
     \/ Ships /\ \E failed \in SUBSET Others : adapter' = WithoutOthers(failed)
  /\ At("adapter")
  /\ UNCHANGED <<env, legacy, rules, board, owned, machine, inWorktree, next, owed, left,
                 spent>>

InitAdapter ==
  /\ Initing("adapter")
  /\ adapter' = IF Ships /\ Detected(AdapterDrift(run.root, Active))
                THEN [adapter EXCEPT ![Active] = VersionOf(run.root)] ELSE adapter
  /\ At("board")
  /\ UNCHANGED <<env, legacy, rules, board, owned, machine, inWorktree, next, owed, left,
                 spent>>

InitBoard ==
  /\ Initing("board")
  /\ board' = IF Ships THEN Scaffolded ELSE board
  /\ run' = NoRun /\ next' = "rerun"
  /\ UNCHANGED <<env, legacy, rules, adapter, owned, machine, inWorktree, owed, left,
                 spent>>

InitStep ==
  InitShim \/ InitMigrate \/ InitUnlink \/ InitEnv \/ InitFiles \/ InitRules
    \/ InitClean \/ InitAdapter \/ InitBoard

(* The process of an init or update dies.                                  *)
Dies ==
  /\ ~Resting /\ spent.deaths < MaxDeaths
  /\ spent' = [spent EXCEPT !.deaths = @ + 1]
  /\ run' = NoRun /\ next' = "rerun"
  /\ UNCHANGED <<project, machine, inWorktree, owed, left>>

(***************************************************************************)
(* The person does what next_action says                                   *)
(***************************************************************************)
Told(kind) == Resting /\ next = kind

DoInit ==
  /\ Told("init")
  /\ \E flags \in FlagSets : flags["language"] # "" /\ StartInit(flags)
  /\ UNCHANGED <<project, machine, inWorktree, next, owed, left, spent>>

(* lets init --user, with the root the session runs; it may die before it  *)
(* comes to ~/.lets/.env.                                                  *)
DoInitUser ==
  /\ Told("init-user")
  /\ Synced(loaded, installed, TRUE) /\ next' = "rerun"
  /\ \/ \E flags \in FlagSets : home' = UserRegenerated(flags) /\ UNCHANGED spent
     \/ /\ spent.deaths < MaxDeaths /\ spent' = [spent EXCEPT !.deaths = @ + 1]
        /\ UNCHANGED home
  /\ UNCHANGED <<project, binary, released, fetched, installed, indexed,
                 loaded, inWorktree, run, owed, left>>

DoBinary ==
  /\ Told("binary")
  /\ binary' = released /\ next' = "rerun"
  /\ UNCHANGED <<project, home, copy, key, released, fetched, installed, indexed,
                 loaded, inWorktree, run, owed, left, spent>>

(* A new session of the newest of the installed plugins vs; its hook runs. *)
FreshSession(vs) ==
  /\ installed' = vs
  /\ loaded' = IF loaded \in Checkouts THEN loaded ELSE RootOf[NewestOf(vs)]
  /\ Synced(loaded', vs, HookCreates)
  /\ next' = "rerun"
  /\ UNCHANGED <<project, home, binary, released, fetched, indexed, inWorktree, run,
                 owed, left, spent>>

DoReload == (Told("reload") \/ Told("new-session")) /\ FreshSession(installed)

(* "/plugin marketplace update lets-workflow, then /reload-plugins (or     *)
(* start a new session)".                                                  *)
DoPlugin == Told("plugin") /\ FreshSession(installed \cup {released})

DoMainCheckout ==
  /\ Told("main-checkout")
  /\ inWorktree' = FALSE /\ next' = "rerun"
  /\ UNCHANGED <<project, machine, run, owed, left, spent>>

Follow ==
  DoInit \/ DoInitUser \/ DoBinary \/ DoReload \/ DoPlugin \/ DoMainCheckout

(* init is also run for its own sake, with any flags.                      *)
RunsInit ==
  /\ spent.edits < MaxEdits /\ spent' = [spent EXCEPT !.edits = @ + 1]
  /\ \E flags \in FlagSets : StartInit(flags)
  /\ UNCHANGED <<project, machine, inWorktree, next, owed, left>>

Next ==
  \/ SetsValue \/ RulesChange \/ BoardEdited \/ OwnAdapter \/ CopyEdited
  \/ Released \/ OtherSession \/ RunsInit
  \/ StartUpdate \/ UpdateStep \/ InitStep \/ Follow \/ Dies

(* A run goes on, the person reruns the update and does what it says; no   *)
(* edit, release, death or other session has to happen.                    *)
Fairness == WF_upkeepVars(StartUpdate \/ UpdateStep \/ InitStep \/ Follow)

UpkeepSpec == Init /\ [][Next]_upkeepVars /\ Fairness

(***************************************************************************)
(* Properties                                                              *)
(***************************************************************************)
(* A step of a run keeps the values of .lets/.env, the gates level in      *)
(* effect, edited boards, adapters of one's own and files LETS does not    *)
(* own, except for what a flag of the run replaces.                        *)
KeepsWork ==
  /\ \A k \in EnvKeys : env.values[k] # "" =>
       \/ env'.values[k] = env.values[k]
       \/ k \notin {"tracker", "other"} /\ run.flags[k] # ""
            /\ env'.values[k] = run.flags[k]
  /\ run.flags["gates"] = "" => Effective("gates")' = Effective("gates")
  /\ \A n \in Trackers : board[n] = "edited" => board'[n] = "edited"
  /\ \A n \in Trackers \ ShippedTrackers : adapter'[n] = adapter[n]
  /\ \A f \in OwnFiles : owned[f] = "foreign" => owned'[f] = "foreign"
KeepsForeignLines == \A k \in ForeignKeys : home'[k] = home[k]

(* No run of init or update, finished, killed or repeated, takes a         *)
(* person's work: a value in .lets/.env stays unless a flag of this very   *)
(* run replaces it, the gates level in effect never changes behind the     *)
(* person's back, a foreign line, an edited board profile, a file LETS     *)
(* does not own and an adapter of one's own stay as they are; init --user  *)
(* keeps the lines of ~/.lets/.env that are not its own.                   *)
PersonsWorkKept ==
  /\ [][KeepsForeignLines]_home
  /\ [][~Resting => KeepsWork]_upkeepVars

(* A language that a legacy config.yaml named is never only in the memory  *)
(* of a process that may die: it is in that file or in .env until somebody *)
(* sets another.  One of other characters than migration takes is replaced *)
(* by the default on purpose (parseLegacyYaml) and not meant here.         *)
LegacyKept ==
  owed \in PlainLanguages => legacy = owed \/ env.values["language"] = owed

Reported == Resting /\ next # "rerun" /\ ~inWorktree

(* After an update that finished, and although earlier runs died between   *)
(* dropping the old adapter and writing the new one, the project loads the *)
(* shipped adapter that .lets/.env names, and beside it no other than those *)
(* the report names as stale and not removable.                            *)
AdapterFollows ==
  Reported /\ Ships => {n \in ShippedTrackers : adapter[n] > 0} \ left = {Active}

(* "done" is true and stays true while sessions of older plugins start:    *)
(* the .env is of this binary, the session runs the newest plugin there is *)
(* (where installed_plugins.json can say so), and the rules in force are   *)
(* those of that plugin.                                                   *)
DoneTruthful ==
  Resting /\ next = "done" =>
    /\ inWorktree \/ env.version = binary
    /\ loaded \in Checkouts \/ ~indexed \/ loaded = RootOf[Newest]
    /\ \/ rules # NoText /\ VersionIn[rules] = VersionOf(loaded)
       \/ copy # NoText /\ copy = RulesAt[loaded]

(* Doing the one step and rerunning comes to an end, whatever was edited   *)
(* or died on the way: "done", or a diagnosis of the global rules.  A      *)
(* session that runs a --plugin-dir checkout is excepted.                  *)
LoopEnds == <>[](next \in {"done", "user-rules"} \/ loaded \in Checkouts)
=============================================================================
