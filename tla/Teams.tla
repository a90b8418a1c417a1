------------------------------- MODULE Teams --------------------------------
(***************************************************************************)
(* How a standing team comes to be and goes: the flow of                   *)
(* `/lets:worktree create --team` (callsign check, a worktree through Orca *)
(* or Go, adopt, the team file, its allow rules, the lead), the adopt that *)
(* a session start, Orca's setup hook or a person runs in any worktree,    *)
(* and the removal through Orca.  Calls of several sessions run side by    *)
(* side and may die at any step; Orca answers late, wrongly or not at all; *)
(* Claude Code, sessions and persons write the same files meanwhile.       *)
(***************************************************************************)
EXTENDS Naturals, FiniteSets

CONSTANTS
  Procs,      \* processes that run LETS commands
  Name,       \* the callsign the sessions agree on
  Other,      \* names of team files a person writes by hand
  Sites,      \* directories that are or may become a linked worktree
  OrcaSite,   \* where Orca makes the team's worktree
  GoSite,     \* where `lets worktree create` makes it
  Beginnings, \* .lets and store link of the worktrees that are there already
  Negated,    \* worktrees whose .gitignore un-ignores settings.local.json
  Tracked,    \* worktrees where git tracks it
  MaxCalls,   \* bound: calls
  MaxOrca,    \* bound: wrong, late or missing answers of Orca
  MaxWrites   \* bound: writes of others, failures and deaths

ASSUME TeamsAssumption ==
  /\ {OrcaSite, GoSite} \subseteq Sites /\ OrcaSite # GoSite
  /\ Name \notin Other
  /\ {MaxCalls, MaxOrca, MaxWrites} \subseteq Nat

LetsKinds == {"absent", "cache", "data", "main", "elsewhere", "file"}
StoreKinds == {"absent", "own", "main"}
ASSUME BeginningsAssumption == Beginnings \subseteq [lets : LetsKinds, store : StoreKinds]

VARIABLES
  git,      \* worktrees git registers
  orca,     \* worktrees Orca lists
  asked,    \* Orca goes on with a create although the command ended
  odd,      \* what is wrong with Orca's worktree: "no", "cut" from something else,
            \* an "agent" in it, or an agent the create "warned" it could not look for
  lets,     \* lets[w]: what <w>/.lets is
  aside,    \* aside[w]: what the .lets.pre-adopt directories hold
  store,    \* store[w]: the tracker's store link
  settings, \* settings[w]: entries of settings.local.json
  exclude,  \* lines of the shared info/exclude
  files,    \* team files: [name, site, good]
  task,     \* task[w]: "none", or "guess" when derived from a name
  leads,    \* live leads, by the worktree each was launched in
  unread,   \* worktrees first claimed between adopt's look and its task write
  call,     \* call[p]: the command of process p
  late,     \* settings files written between a call's last look and its rename
  spent     \* calls, answers and writes so far, and whether Orca removed a worktree

places == <<git, orca, asked, odd>>
tree == <<lets, aside, store>>
config == <<settings, exclude>>
team == <<files, task, leads, unread>>
teamsVars == <<places, tree, config, team, call, late, spent>>

Entries == {"dir", "rules", "own"}
Lines == {".lets", "settings"}
AdoptSteps ==
  {"look", "unlink", "aside", "link", "store", "exread", "exwrite", "task", "record"}
SettingsSteps == {"sread", "sexread", "sexwrite", "scheck", "reread", "swrite"}
Steps == {"check", "ps", "create", "git", "row", "verify", "terminals", "add", "lock",
          "purge", "slock", "init", "publish", "launch", "list", "rm", "end"}
           \cup AdoptSteps \cup SettingsSteps
Idle == [doing |-> "none", step |-> "end", site |-> OrcaSite, locks |-> TRUE,
         tries |-> 0, want |-> "dir", saw |-> {}, ex |-> {}, there |-> FALSE,
         guess |-> FALSE, alive |-> TRUE]

Calls ==
  [doing : {"none", "team", "adopt", "heal", "init", "remove"}, step : Steps, site : Sites,
   locks : BOOLEAN, tries : 0..3, want : {"dir", "rules"}, saw : SUBSET Entries,
   ex : SUBSET Lines, there : BOOLEAN, guess : BOOLEAN, alive : BOOLEAN]

TeamsTypeOK ==
  /\ {git, orca, late, unread} \subseteq SUBSET Sites
  /\ asked \in BOOLEAN /\ odd \in {"no", "cut", "agent", "warned"}
  /\ lets \in [Sites -> LetsKinds] /\ aside \in [Sites -> SUBSET (LetsKinds \ {"absent"})]
  /\ store \in [Sites -> StoreKinds]
  /\ settings \in [Sites -> SUBSET Entries] /\ exclude \subseteq Lines
  /\ files \subseteq [name : {Name} \cup Other, site : Sites, good : BOOLEAN]
  /\ task \in [Sites -> {"none", "guess"}] /\ leads \in [Sites -> Nat]
  /\ call \in [Procs -> Calls]
  /\ spent \in [calls : Nat, orca : Nat, writes : Nat, removed : BOOLEAN]

At(p, step) == call[p].step = step /\ call[p].alive /\ call[p].doing # "none"
Go(p, step) == call' = [call EXCEPT ![p].step = step]
Ends(p) == call' = [call EXCEPT ![p] = Idle]
GoOr(p, ok, step) == IF ok THEN Go(p, step) ELSE Ends(p)
Writes == spent.writes < MaxWrites /\ spent' = [spent EXCEPT !.writes = @ + 1]
OrcaFails == spent.orca < MaxOrca /\ spent' = [spent EXCEPT !.orca = @ + 1]

(* A team file for the name is there (Lstat); its lead runs (liveLeads).   *)
HasFile == \E f \in files : f.name = Name
LeadLive == \E w \in Sites : leads[w] > 0
TeamNamed(w) == w \in {OrcaSite, GoSite}

(* FindByWorktree: no team, the team, or an error, which counts as a team. *)
Claims(w) == {f \in files : f.site = w}
FindByWorktreeSkipsBad(w) ==
  IF \E f \in Claims(w) : f.good THEN "team" ELSE "none"
FindByWorktree(w) ==
  CASE Claims(w) = {} -> "none"
    [] Cardinality(Claims(w)) = 1 /\ (\A f \in Claims(w) : f.good) -> "team"
    [] OTHER -> "error"

(* The two locks: adopt.lock of the main checkout, and the settings lock   *)
(* in the worktree's own git dir.  A process that dies lets both go.       *)
HoldsAdopt(p) ==
  /\ call[p].alive /\ call[p].locks /\ call[p].want = "dir"
  /\ call[p].doing \in {"team", "adopt", "heal"}
  /\ call[p].step \in AdoptSteps \cup SettingsSteps \cup {"slock"}
HoldsSettings(p, w) ==
  call[p].alive /\ call[p].step \in SettingsSteps /\ call[p].site = w

(* git check-ignore: info/exclude, unless a .gitignore negation beats it.  *)
Ignored(w) == "settings" \in exclude /\ w \notin Negated \cup Tracked

Init ==
  /\ git = Sites \ {OrcaSite, GoSite} /\ orca = {} /\ asked = FALSE /\ odd = "no"
  /\ \E b \in Beginnings :
       /\ lets = [w \in Sites |-> IF w \in git THEN b.lets ELSE "absent"]
       /\ store = [w \in Sites |-> IF w \in git THEN b.store ELSE "absent"]
  /\ aside = [w \in Sites |-> {}]
  /\ settings = [w \in Sites |-> {}] /\ exclude = {}
  /\ files = {} /\ task = [w \in Sites |-> "none"] /\ leads = [w \in Sites |-> 0]
  /\ call = [p \in Procs |-> Idle] /\ late = {} /\ unread = {}
  /\ spent = [calls |-> 0, orca |-> 0, writes |-> 0, removed |-> FALSE]

(***************************************************************************)
(* Calls begin                                                             *)
(***************************************************************************)
Begins(p, doing, step, w, locks) ==
  /\ call[p].doing = "none" /\ call[p].alive /\ spent.calls < MaxCalls
  /\ call' = [call EXCEPT ![p] = [Idle EXCEPT !.doing = doing, !.step = step, !.site = w,
                                              !.locks = locks]]
  /\ spent' = [spent EXCEPT !.calls = @ + 1]
  /\ UNCHANGED <<places, tree, config, team, late>>

BeginTeam(p) == Begins(p, "team", "check", OrcaSite, TRUE)

BeginAdopt(p) == \E w \in git : Begins(p, "adopt", "lock", w, TRUE)

(* selfHeal: adopt a worktree whose .lets is no symlink, then check the    *)
(* additional directory; a linked one only gets the second.                *)
BeginHeal(p) ==
  \E w \in git :
    IF lets[w] \in {"main", "elsewhere"} THEN Begins(p, "heal", "slock", w, FALSE)
                                         ELSE Begins(p, "heal", "lock", w, TRUE)

(* team-init for a worktree of the person's choice.                        *)
BeginInit(p) == \E w \in git : Begins(p, "init", "init", w, TRUE)

BeginRemove(p) == Begins(p, "remove", "list", OrcaSite, TRUE)

(***************************************************************************)
(* The callsign, and a worktree through Orca or Go                         *)
(***************************************************************************)
(* team-init --check, then the launcher: Orca, or Go.                      *)
Check(p) ==
  /\ At(p, "check")
  /\ IF HasFile \/ LeadLive THEN Ends(p) ELSE \E step \in {"ps", "add"} : Go(p, step)
  /\ UNCHANGED <<places, tree, config, team, late, spent>>

(* Orca absent, not running, its ps failed or no base: not_attempted, the  *)
(* one state Go may answer; already listed: the team is reopened instead.  *)
PsRow == OrcaSite \in orca
NotAttempted(p) == OrcaFails /\ Go(p, "add")
Ps(p) ==
  /\ At(p, "ps")
  /\ \/ GoOr(p, ~PsRow, "create") /\ UNCHANGED spent
     \/ NotAttempted(p)
  /\ UNCHANGED <<places, tree, config, team, late>>

(* git refuses a second worktree on the branch team_<callsign>.            *)
BranchFree == git \cap {OrcaSite, GoSite} = {}
Bare(w) ==
  /\ lets' = [lets EXCEPT ![w] = "absent"] /\ store' = [store EXCEPT ![w] = "absent"]
  /\ aside' = [aside EXCEPT ![w] = {}] /\ settings' = [settings EXCEPT ![w] = {}]
  /\ UNCHANGED exclude
Made(listed, wrong) ==
  /\ git' = git \cup {OrcaSite} /\ Bare(OrcaSite)
  /\ orca' = IF listed THEN orca \cup {OrcaSite} ELSE orca
  /\ odd' = wrong

(* orca worktree create: done, with or without an agent that a default of  *)
(* the repository starts, done wrongly, unlisted, still running when the   *)
(* command ends, or refused.                                               *)
Done == \E wrong \in {"no", "agent"} : Made(TRUE, wrong)
OrcaCreate(p) ==
  /\ At(p, "create")
  /\ call' = [call EXCEPT ![p] = [@ EXCEPT !.step = "git", !.site = OrcaSite]]
  /\ \/ BranchFree /\ Done /\ UNCHANGED <<asked, spent>>
     \/ /\ BranchFree /\ OrcaFails /\ UNCHANGED asked
        /\ Made(FALSE, "no") \/ Made(TRUE, "cut")
     \/ OrcaFails /\ asked' = TRUE /\ UNCHANGED <<git, orca, odd, tree, config>>
     \/ ~BranchFree /\ UNCHANGED <<places, tree, config, spent>>
  /\ UNCHANGED <<team, late>>

OrcaFinishes ==
  /\ asked /\ asked' = FALSE
  /\ BranchFree /\ Done
  /\ UNCHANGED <<team, call, late, spent>>

(* The outcome is classified from both sides, whatever the create said.    *)
ReadGit(p) ==
  /\ At(p, "git")
  /\ call' = [call EXCEPT ![p] = [@ EXCEPT !.step = "row", !.there = OrcaSite \in git]]
  /\ UNCHANGED <<places, tree, config, team, late, spent>>

ReadRow(p) ==
  /\ At(p, "row")
  /\ \/ GoOr(p, call[p].there /\ PsRow, "verify") /\ UNCHANGED spent
     \/ OrcaFails /\ Ends(p)
  /\ UNCHANGED <<places, tree, config, team, late>>

(* Name, branch and HEAD are those asked for.                              *)
Verify(p) ==
  /\ At(p, "verify")
  /\ GoOr(p, OrcaSite \in git /\ odd # "cut", "terminals")
  /\ UNCHANGED <<places, tree, config, team, late, spent>>

(* No agent in its terminals; a list that fails is only warned of.         *)
Terminals(p) ==
  /\ At(p, "terminals")
  /\ \/ GoOr(p, odd \notin {"agent", "warned"}, "lock") /\ UNCHANGED <<odd, spent>>
     \/ /\ OrcaFails /\ Go(p, "lock")
        /\ odd' = IF odd = "agent" THEN "warned" ELSE odd
  /\ UNCHANGED <<git, orca, asked, tree, config, team, late>>

(* lets worktree create: git worktree add, then the links without a lock.  *)
GoAdd(p) ==
  /\ At(p, "add")
  /\ IF BranchFree
     THEN /\ git' = git \cup {GoSite} /\ Bare(GoSite)
          /\ call' = [call EXCEPT ![p] =
                         [@ EXCEPT !.step = "look", !.site = GoSite, !.locks = FALSE]]
     ELSE Ends(p) /\ UNCHANGED <<git, tree, config>>
  /\ UNCHANGED <<orca, asked, odd, team, late, spent>>

(***************************************************************************)
(* adopt and create link the worktree (linkShared)                         *)
(***************************************************************************)
Site(p) == call[p].site
Here(p, step) == At(p, step) /\ Site(p) \in git
Kind(p) == lets[Site(p)]

(* A worktree removed under a call: its next git or file command fails.    *)
SiteSteps == AdoptSteps \cup SettingsSteps \cup {"lock", "purge", "slock", "launch"}
Gone(p) ==
  /\ \E step \in SiteSteps : At(p, step)
  /\ Site(p) \notin git
  /\ Ends(p)
  /\ UNCHANGED <<places, tree, config, team, late, spent>>

(* adopt.lock: wait for it; a session start gives up after three seconds.  *)
Lock(p) ==
  /\ Here(p, "lock")
  /\ LET busy == \E q \in Procs : HoldsAdopt(q) IN
     \/ ~busy /\ Go(p, "look")
     \/ busy /\ call[p].doing = "heal" /\ Ends(p)
  /\ UNCHANGED <<places, tree, config, team, late, spent>>

(* A link step that cannot go on: create rolls its worktree back, adopt    *)
(* leaves everything as it is.                                             *)
GivesUp(p) ==
  /\ Ends(p)
  /\ IF call[p].doing = "team" /\ ~call[p].locks
     THEN git' = git \ {Site(p)} /\ Bare(Site(p))
     ELSE UNCHANGED <<git, tree, config>>

(* linkLets looks at <worktree>/.lets, three times at most.                *)
Look(p) ==
  /\ Here(p, "look")
  /\ IF call[p].tries = 3 \/ Kind(p) = "file" \/ (Kind(p) = "data" /\ call[p].locks)
     THEN GivesUp(p)
     ELSE /\ UNCHANGED <<git, tree, config>>
          /\ CASE Kind(p) = "main" -> Go(p, "store")
               [] Kind(p) = "elsewhere" -> Go(p, "unlink")
               [] Kind(p) = "absent" -> Go(p, "link")
               [] OTHER -> Go(p, IF call[p].locks THEN "aside" ELSE "purge")
  /\ UNCHANGED <<orca, asked, odd, team, late, spent>>

LookAgain(p) == call' = [call EXCEPT ![p] = [@ EXCEPT !.step = "look", !.tries = call[p].tries + 1]]

(* os.Remove takes a symlink or a file, not a directory with content.      *)
Unlink(p) ==
  /\ Here(p, "unlink") /\ Go(p, "link")
  /\ lets' = [lets EXCEPT ![Site(p)] =
                 IF @ \in {"main", "elsewhere", "file"} THEN "absent" ELSE @]
  /\ UNCHANGED <<places, aside, store, config, team, late, spent>>

(* create removes a real .lets of the worktree it just made.               *)
Purge(p) ==
  /\ Here(p, "purge") /\ Go(p, "link")
  /\ lets' = [lets EXCEPT ![Site(p)] = "absent"]
  /\ UNCHANGED <<places, aside, store, config, team, late, spent>>

(* adopt renames a cache-only .lets, whatever it is by now: a session's    *)
(* data, or the link that create has made meanwhile.                       *)
Aside(p) ==
  /\ Here(p, "aside")
  /\ IF Kind(p) = "absent" THEN LookAgain(p) ELSE Go(p, "link")
  /\ lets' = [lets EXCEPT ![Site(p)] = "absent"]
  /\ aside' = [aside EXCEPT ![Site(p)] = @ \cup ({Kind(p)} \ {"absent"})]
  /\ UNCHANGED <<places, store, config, team, late, spent>>

(* os.Symlink refuses an existing name.                                    *)
LinkTakesAnyLink(p) ==
  /\ Here(p, "link") /\ Go(p, "store")
  /\ lets' = [lets EXCEPT ![Site(p)] = IF @ = "absent" THEN "main" ELSE @]
  /\ UNCHANGED <<places, aside, store, config, team, late, spent>>
Link(p) ==
  /\ Here(p, "link")
  /\ IF Kind(p) = "absent"
     THEN Go(p, "store") /\ lets' = [lets EXCEPT ![Site(p)] = "main"]
     ELSE LookAgain(p) /\ UNCHANGED lets
  /\ UNCHANGED <<places, aside, store, config, team, late, spent>>

LinkFails(p) ==
  /\ Here(p, "link") /\ Writes /\ GivesUp(p)
  /\ UNCHANGED <<orca, asked, odd, team, late>>

(* linkStore: a store of the worktree's own is a conflict, never replaced. *)
Store(p) ==
  /\ Here(p, "store")
  /\ IF store[Site(p)] = "own" THEN GivesUp(p)
     ELSE /\ Go(p, "exread") /\ store' = [store EXCEPT ![Site(p)] = "main"]
          /\ UNCHANGED <<git, lets, aside, config>>
  /\ UNCHANGED <<orca, asked, odd, team, late, spent>>

(* ensureWorktreeExcludes: read the shared file, write it back with the    *)
(* line, under no lock.                                                    *)
ReadsExclude(p, line, writing, after) ==
  call' = [call EXCEPT ![p] = [@ EXCEPT !.ex = IF line \in exclude THEN {} ELSE exclude,
                                        !.step = IF line \in exclude THEN after ELSE writing]]
WritesExclude(p, line, after) ==
  /\ exclude' = call[p].ex \cup {line}
  /\ call' = [call EXCEPT ![p] = [@ EXCEPT !.ex = {}, !.step = after]]
ExRead(p) ==
  /\ \/ Here(p, "exread") /\ ReadsExclude(p, ".lets", "exwrite", "slock")
     \/ Here(p, "sexread") /\ ReadsExclude(p, "settings", "sexwrite", "scheck")
  /\ UNCHANGED <<places, tree, config, team, late, spent>>
ExWrite(p) ==
  /\ \/ Here(p, "exwrite") /\ WritesExclude(p, ".lets", "slock")
     \/ Here(p, "sexwrite") /\ WritesExclude(p, "settings", "scheck")
  /\ UNCHANGED <<places, tree, settings, team, late, spent>>

(***************************************************************************)
(* One entry into .claude/settings.local.json (mergeSettingsLocal)         *)
(***************************************************************************)
Present(p) == call[p].want \in call[p].saw

(* Where a call goes on after its settings merge, which never fails it.    *)
AfterMerge(p) ==
  LET c == [call[p] EXCEPT !.saw = {}, !.tries = 0] IN
  call' = [call EXCEPT ![p] =
    CASE c.want = "rules" /\ c.doing = "team" -> [c EXCEPT !.step = "launch"]
      [] c.want = "dir" /\ c.locks -> [c EXCEPT !.step = "task"]
      [] c.want = "dir" /\ ~c.locks /\ c.doing = "team" -> [c EXCEPT !.step = "init"]
      [] OTHER -> Idle]

(* The lock of the worktree: taken, or given up after a deadline.          *)
SLock(p) ==
  /\ Here(p, "slock")
  /\ IF \E q \in Procs : HoldsSettings(q, Site(p)) THEN AfterMerge(p) ELSE Go(p, "sread")
  /\ UNCHANGED <<places, tree, config, team, late, spent>>

(* Read; nothing to do when the entry is there and git ignores the file,   *)
(* or git tracks it; else look after info/exclude first.                   *)
SRead(p) ==
  /\ Here(p, "sread")
  /\ LET w == Site(p)
         present == call[p].want \in settings[w]
     IN IF w \in Tracked \/ (present /\ Ignored(w)) THEN AfterMerge(p)
        ELSE call' = [call EXCEPT ![p] = [@ EXCEPT !.saw = settings[w],
                        !.step = IF Ignored(w) THEN "reread" ELSE "sexread"]]
  /\ UNCHANGED <<places, tree, config, team, late, spent>>

(* The allow rules are written only while git ignores the file.            *)
SCheck(p) ==
  /\ Here(p, "scheck")
  /\ IF Present(p) \/ (call[p].want = "rules" /\ ~Ignored(Site(p)))
     THEN AfterMerge(p) ELSE Go(p, "reread")
  /\ UNCHANGED <<places, tree, config, team, late, spent>>

(* Never over a file that changed since it was read.                       *)
RereadNever(p) ==
  /\ Here(p, "reread") /\ Go(p, "swrite")
  /\ UNCHANGED <<places, tree, config, team, late, spent>>
Reread(p) ==
  /\ Here(p, "reread")
  /\ IF settings[Site(p)] # call[p].saw THEN AfterMerge(p) ELSE Go(p, "swrite")
  /\ UNCHANGED <<places, tree, config, team, late, spent>>

SWrite(p) ==
  /\ Here(p, "swrite") /\ AfterMerge(p)
  /\ settings' = [settings EXCEPT ![Site(p)] = call[p].saw \cup {call[p].want}]
  /\ late' = late \ {Site(p)}
  /\ UNCHANGED <<places, tree, exclude, team, spent>>

(***************************************************************************)
(* The task, the team file, the lead                                       *)
(***************************************************************************)
(* adoptTask under the task-state lock: a recorded task stays, a team's    *)
(* worktree gets none, any other a guess from its names.  The lock is the  *)
(* branch's and holds nobody who links a team file: the answer may be old  *)
(* when the task is written.                                               *)
TaskLook(p) ==
  /\ Here(p, "task")
  /\ LET w == Site(p)
         guess == task[w] = "none" /\ ~TeamNamed(w) /\ FindByWorktree(w) = "none"
     IN /\ call' = [call EXCEPT ![p] = [@ EXCEPT !.step = "record", !.guess = guess]]
        /\ unread' = unread \ {w}
  /\ UNCHANGED <<places, tree, config, files, task, leads, late, spent>>

Task(p) ==
  /\ Here(p, "record")
  /\ task' = [task EXCEPT ![Site(p)] = IF call[p].guess THEN "guess" ELSE @]
  /\ LET c == [call[p] EXCEPT !.guess = FALSE] IN
     call' = [call EXCEPT ![p] =
       CASE c.doing = "team" -> [c EXCEPT !.step = "init"]
         [] c.doing = "heal" -> [c EXCEPT !.locks = FALSE, !.step = "slock"]
         [] OTHER -> Idle]
  /\ UNCHANGED <<places, tree, config, files, leads, unread, late, spent>>

(* A first claim on w comes after the look of an adopt that is to write.   *)
Claiming(w) ==
  unread' = IF Claims(w) = {} /\ (\E q \in Procs : At(q, "record") /\ Site(q) = w)
            THEN unread \cup {w} ELSE unread

(* team-init looks for the file and the lead, and asks git for the         *)
(* worktree.                                                               *)
InitTeam(p) ==
  /\ At(p, "init")
  /\ GoOr(p, ~HasFile /\ ~LeadLive /\ Site(p) \in git, "publish")
  /\ UNCHANGED <<places, tree, config, team, late, spent>>

TheFile(w) == [name |-> Name, site |-> w, good |-> TRUE]
PublishByRename(p) ==
  /\ At(p, "publish")
  /\ call' = [call EXCEPT ![p] = [@ EXCEPT !.step = "slock", !.want = "rules"]]
  /\ files' = {f \in files : f.name # Name} \cup {TheFile(Site(p))} /\ Claiming(Site(p))
  /\ UNCHANGED <<places, tree, config, task, leads, late, spent>>

(* publishNoOverwrite: os.Link of a complete file, refused when the name   *)
(* exists.                                                                 *)
Publish(p) ==
  /\ At(p, "publish")
  /\ IF HasFile THEN Ends(p) /\ UNCHANGED <<files, unread>>
     ELSE /\ call' = [call EXCEPT ![p] = [@ EXCEPT !.step = "slock", !.want = "rules"]]
          /\ files' = files \cup {TheFile(Site(p))} /\ Claiming(Site(p))
  /\ UNCHANGED <<places, tree, config, task, leads, late, spent>>

(* The flow launches the lead in the worktree its team file names.         *)
Launch(p) ==
  /\ Here(p, "launch") /\ Ends(p)
  /\ leads' = [leads EXCEPT ![Site(p)] = @ + 1]
  /\ UNCHANGED <<places, tree, config, files, task, unread, late, spent>>

(***************************************************************************)
(* Removal through Orca                                                    *)
(***************************************************************************)
(* team-remove: Orca lists the worktree, and the two nets pass: no change, *)
(* and HEAD on a remote (left open); else nothing is removed.              *)
List(p) ==
  /\ At(p, "list")
  /\ IF OrcaSite \in git /\ PsRow THEN Go(p, "rm") \/ Ends(p) ELSE Ends(p)
  /\ UNCHANGED <<places, tree, config, team, late, spent>>

(* orca worktree rm takes the lead's terminal along; it may do either half *)
(* alone, or nothing (an archive hook that fails), and nothing is retried. *)
Removed ==
  /\ git' = git \ {OrcaSite} /\ odd' = "no"
  /\ Bare(OrcaSite) /\ leads' = [leads EXCEPT ![OrcaSite] = 0]
Remove(p) ==
  /\ At(p, "rm") /\ Ends(p)
  /\ \/ /\ Removed /\ orca' = orca \ {OrcaSite}
        /\ spent' = [spent EXCEPT !.removed = TRUE]
     \/ /\ Removed /\ UNCHANGED orca /\ spent.orca < MaxOrca
        /\ spent' = [spent EXCEPT !.orca = @ + 1, !.removed = TRUE]
     \/ /\ OrcaFails /\ UNCHANGED <<git, odd, leads, tree, config>>
        /\ \E half \in BOOLEAN : orca' = IF half THEN orca \ {OrcaSite} ELSE orca
  /\ UNCHANGED <<asked, files, task, unread, late>>

(***************************************************************************)
(* Everyone else                                                           *)
(***************************************************************************)
(* Claude Code saves a permission of its own into the settings file.       *)
ClaudeWrites(w) ==
  /\ Writes /\ w \in git
  /\ settings' = [settings EXCEPT ![w] = @ \cup {"own"}]
  /\ late' = IF \E p \in Procs : Here(p, "swrite") /\ Site(p) = w
             THEN late \cup {w} ELSE late
  /\ UNCHANGED <<places, tree, exclude, team, call>>

(* A session in an unlinked worktree writes a real .lets.                  *)
SessionWrites(w) ==
  /\ Writes /\ w \in git /\ lets[w] \in {"absent", "cache"}
  /\ \E k \in {"cache", "data"} \ {lets[w]} : lets' = [lets EXCEPT ![w] = k]
  /\ UNCHANGED <<places, aside, store, config, team, call, late>>

(* A person writes a team file by hand, well formed or not.                *)
PersonWrites(w) ==
  /\ Writes
  /\ \E n \in Other, good \in BOOLEAN :
       files' = files \cup {[name |-> n, site |-> w, good |-> good]}
  /\ Claiming(w)
  /\ UNCHANGED <<places, tree, config, task, leads, call, late>>

LeadEnds(w) ==
  /\ Writes /\ leads[w] > 0 /\ leads' = [leads EXCEPT ![w] = @ - 1]
  /\ UNCHANGED <<places, tree, config, files, task, unread, call, late>>

Dies(p) ==
  /\ Writes /\ call[p].doing # "none" /\ call[p].alive
  /\ call' = [call EXCEPT ![p].alive = FALSE]
  /\ UNCHANGED <<places, tree, config, team, late>>

Begin(p) == BeginTeam(p) \/ BeginAdopt(p) \/ BeginHeal(p) \/ BeginInit(p) \/ BeginRemove(p)
CreateStep(p) ==
  \/ Check(p) \/ Ps(p) \/ OrcaCreate(p) \/ ReadGit(p) \/ ReadRow(p) \/ Verify(p)
  \/ Terminals(p) \/ GoAdd(p)
LinkStep(p) ==
  \/ Lock(p) \/ Look(p) \/ Unlink(p) \/ Purge(p) \/ Aside(p) \/ Link(p) \/ LinkFails(p)
  \/ Store(p) \/ ExRead(p) \/ ExWrite(p) \/ Gone(p)
MergeStep(p) == SLock(p) \/ SRead(p) \/ SCheck(p) \/ Reread(p) \/ SWrite(p)
TeamStep(p) ==
  TaskLook(p) \/ Task(p) \/ InitTeam(p) \/ Publish(p) \/ Launch(p) \/ List(p) \/ Remove(p)

Next ==
  \/ OrcaFinishes
  \/ \E p \in Procs : Begin(p) \/ CreateStep(p) \/ LinkStep(p) \/ MergeStep(p) \/ TeamStep(p)
                       \/ Dies(p)
  \/ \E w \in Sites : ClaudeWrites(w) \/ SessionWrites(w) \/ PersonWrites(w) \/ LeadEnds(w)

TeamsSpec == Init /\ [][Next]_teamsVars

(***************************************************************************)
(* Properties                                                              *)
(***************************************************************************)
(* However many flows race for one callsign, over Orca and over Go, one    *)
(* lead of it runs at most (os.Link picks one team file, and only its      *)
(* writer launches).  It works in a worktree that the team file names.  If *)
(* Orca made that one, it made it as asked, an agent is beside the lead    *)
(* only where the create warned that the terminals are unverified, and its *)
(* .lets stays the main one, whichever adopt comes along, unless Orca      *)
(* removed the worktree under the flow.  If create made it, its .lets      *)
(* stays the main one unless an adopt that had seen a cache there moved    *)
(* the link aside: create links without the lock (publishNoOverwrite,      *)
(* TeamCreate, linkLets).                                                  *)
OneLead == \A v, w \in Sites : leads[v] > 0 /\ leads[w] > 0 => v = w /\ leads[w] = 1
LeadSetUp ==
  /\ OneLead
  /\ \A w \in git : leads[w] > 0 =>
       /\ \E f \in files : f.name = Name /\ f.site = w
       /\ w = OrcaSite /\ ~spent.removed => odd \in {"no", "warned"} /\ lets[w] = "main"
       /\ w = GoSite => lets[w] = "main" \/ "main" \in aside[w]

(* While a worktree stays, what a session stored in a real .lets stays, in *)
(* place or aside, unless create replaces the .lets of the worktree it     *)
(* makes; entries of the settings file stay too, but for what Claude Code  *)
(* writes between the last look and the rename (linkLets, Reread).         *)
NothingTaken ==
  [][\A w \in git \cap git' :
       /\ lets[w] = "data" /\ w # GoSite => lets'[w] = "data" \/ "data" \in aside'[w]
       /\ aside[w] \subseteq aside'[w]
       /\ settings[w] \subseteq settings'[w] \cup (IF w \in late THEN {"own"} ELSE {})]_teamsVars

(* No task is guessed from the names of a worktree that a team file        *)
(* claims, well formed or not, unless the first such file came after the   *)
(* look of the very adopt that writes (teamWorktree, FindByWorktree).      *)
TeamNotGuessed ==
  [][\A w \in Sites : task[w] # task'[w] =>
       ~TeamNamed(w) /\ (Claims(w) = {} \/ w \in unread)]_teamsVars

(* "and only while git ignores the file" (settings.go:114): the lead's     *)
(* allow rules never stand in a settings file git would publish.           *)
RulesIgnored == \A w \in git : "rules" \in settings[w] => Ignored(w)
=============================================================================
