----------------------------- MODULE TeamSwitch -----------------------------
(***************************************************************************)
(* lets worktree switch: a standing team moves its one worktree from one   *)
(* task's branch to another's.  What is not committed is parked first (a   *)
(* "wip: park" commit, recorded in the branch's task-state file) and the   *)
(* park on the branch it comes to is undone.  Several teams switch at the  *)
(* same time, every git call and every write may fail, the process may die *)
(* anywhere, and people edit, commit, push and land branches.              *)
(*                                                                         *)
(* The log holds every commit ever made; a commit is known by its place in *)
(* it, 0 is the commit the repository starts with.  The task-state files   *)
(* are the store TaskState implements: a write happens at one instant, on  *)
(* the contents of that instant, or fails.  The names of sessions and of   *)
(* orchestrators are left out; a held session: line is a write that fails. *)
(***************************************************************************)
EXTENDS Naturals, Sequences, FiniteSets, FiniteSetsExt

CONSTANTS
  None, NoFile,
  Merge,       \* the merge-branch
  Branches,    \* names of branches, Merge among them
  Teams,       \* standing teams; each has one worktree
  OwnBranch,   \* team -> its team_<callsign> branch
  Tasks,
  NameOf,      \* task -> the branch name rendered for it
  Work,        \* pieces of work, one file each
  New,         \* those that are files HEAD does not have
  Requests,    \* team -> what its switches may be asked for
  Begun,       \* team -> the branch its worktree is on at first
  FirstFiles,  \* branch -> its task-state file at first
  MaxCommits,  \* bound: how many commits are ever made
  MaxCalls,    \* bound: team -> how often it switches
  Considerate  \* nobody works in a worktree, or pushes its branch, while switch runs in it

ASSUME MergeIsBranch   == Merge \in Branches
ASSUME OwnAreBranches  == OwnBranch \in [Teams -> Branches] /\ Begun \in [Teams -> Branches]
ASSUME NamesAreBranches == NameOf \in [Tasks -> Branches]
ASSUME NewIsWork       == New \subseteq Work
ASSUME RequestsAsk     ==
  \A t \in Teams :
    Requests[t] \subseteq [task: Tasks, branch: Branches \cup {None},
                          park: BOOLEAN, include: SUBSET Work]

VARIABLES
  log,         \* the commits made, in the order they were made
  tip,         \* branch -> its commit here, None when there is no such branch
  origin,      \* branch -> its commit at the remote, or None
  seen,        \* the local copy of the remote's merge-branch
  on,          \* team -> the branch its worktree is on
  dirty,       \* team -> the work in its worktree no commit has
  file,        \* branch -> its task-state file
  pc, call,    \* team -> the next step of its switch, and what that knows
  made,        \* work -> the branch it was done on, None until it is
  unrecorded,  \* parks whose record was never written
  unwritten,   \* branches cut by a switch that never wrote their file
  calls        \* team -> how many switches it has begun

vars == <<log, tip, origin, seen, on, dirty, file, pc, call, made,
          unrecorded, unwritten, calls>>

git   == <<log, tip, origin, seen, on, dirty>>
ghost == <<made, unrecorded, unwritten, calls>>

Commits == 0..MaxCommits

T == INSTANCE TaskFile WITH
       Slugs <- Branches, Shas <- Commits, Orcs <- {}, Sids <- {}, Pids <- {1},
       Jobs <- {}, MaxAt <- 1

ASSUME NoneIsNothing == None \notin Branches \cup Teams \cup Nat /\ NoFile \notin T!State
ASSUME BoundIsNumber == MaxCommits \in Nat

(* git has a branch in one worktree at a time, and the merge-branch in     *)
(* none of a team's; the repository starts with one commit.                *)
ASSUME TreesAreApart ==
  /\ \A t \in Teams : Begun[t] # Merge
  /\ \A t, u \in Teams : Begun[t] = Begun[u] => t = u
ASSUME FilesOfStart ==
  /\ FirstFiles \in [Branches -> T!State \cup {NoFile}]
  /\ \A b \in Branches : FirstFiles[b] # NoFile =>
       /\ FirstFiles[b].start \in {None, 0}
       /\ FirstFiles[b].park = None <=> FirstFiles[b].park_team = None

Steps == {"idle", "resolve", "status", "base", "inventory", "park", "record", "switch",
          "arrive", "unpark", "ask", "reset", "clear"}

-----------------------------------------------------------------------------
(* Commits.                                                                *)

Past(n) == IF n = 0 THEN {0} ELSE log[n].past

Parent(n) == Max(Past(n) \ {n})

MergeBase(m, n) == Max(Past(m) \cap Past(n))

IsPark(n) == n # 0 /\ log[n].park # None

(* Some branch of the remote has the commit.                               *)
Pushed(n) == \E b \in Branches : origin[b] # None /\ n \in Past(origin[b])

(* A commit of work on a branch, on top of another; a team's park, or not. *)
Commit(branch, parent, work, team) ==
  /\ Len(log) < MaxCommits
  /\ log' = Append(log, [past |-> Past(parent) \cup {Len(log) + 1},
                         branch |-> branch, work |-> work, park |-> team])

-----------------------------------------------------------------------------

Init ==
  /\ log = << >>
  /\ tip = [b \in Branches |-> IF b = Merge \/ \E t \in Teams : Begun[t] = b THEN 0 ELSE None]
  /\ origin = [b \in Branches |-> IF b = Merge THEN 0 ELSE None]
  /\ seen = 0
  /\ on = Begun
  /\ dirty = [t \in Teams |-> {}]
  /\ file = FirstFiles
  /\ pc = [t \in Teams |-> "idle"]
  /\ call = [t \in Teams |-> None]
  /\ made = [w \in Work |-> None]
  /\ unrecorded = {} /\ unwritten = {}
  /\ calls = [t \in Teams |-> 0]

Goto(t, step) == pc' = [pc EXCEPT ![t] = step]

(* The call returns.                                                       *)
End(t) ==
  /\ Goto(t, "idle")
  /\ call' = [call EXCEPT ![t] = None]

Request(t) == call[t].req

Begin(t, r) ==
  /\ pc[t] = "idle" /\ calls[t] < MaxCalls[t]
  /\ calls' = [calls EXCEPT ![t] = @ + 1]
  /\ call' = [call EXCEPT ![t] = [req |-> r, to |-> None, created |-> FALSE, dirty |-> FALSE,
                                  base |-> 0, head |-> 0]]
  /\ Goto(t, "resolve")
  /\ UNCHANGED <<git, file, made, unrecorded, unwritten>>

(* ownBranches, for a project whose branch names carry no task id: the     *)
(* local branches whose task-state names the task; never the merge-branch, *)
(* never the team's own.                                                   *)
OwnBranches(t, task) ==
  {b \in Branches \ {Merge, OwnBranch[t]} :
     tip[b] # None /\ file[b] # NoFile /\ file[b].task = task}

(* switchTarget: --branch, else the task's one branch, else a new name.    *)
Targets(t) ==
  LET r == Request(t)
  IN CASE r.branch # None                                    -> {r.branch}
       [] r.branch = None /\ OwnBranches(t, r.task) # {} -> OwnBranches(t, r.task)
       [] OTHER                                              -> {NameOf[r.task]}

(* Several branches are ambiguous; the merge-branch and the branch the     *)
(* worktree is on are no targets.                                          *)
Resolve(t) ==
  /\ pc[t] = "resolve"
  /\ IF Cardinality(Targets(t)) > 1 \/ Targets(t) \subseteq {Merge, on[t]}
     THEN End(t)
     ELSE \E b \in Targets(t) :
            /\ call' = [call EXCEPT ![t].to = b, ![t].created = tip[b] = None]
            /\ Goto(t, "status")
  /\ UNCHANGED <<git, file, ghost>>

Status(t) ==
  /\ pc[t] = "status"
  /\ IF dirty[t] # {} /\ ~Request(t).park
     THEN End(t)
     ELSE /\ call' = [call EXCEPT ![t].dirty = dirty[t] # {}]
          /\ Goto(t, CASE call[t].created                       -> "base"
                       [] ~call[t].created /\ dirty[t] # {} -> "inventory"
                       [] OTHER                                 -> "switch")
  /\ UNCHANGED <<git, file, ghost>>

(* ResolveBase: the remote's merge-branch; its last copy when the fetch    *)
(* fails.                                                                  *)
Base(t) ==
  /\ pc[t] = "base"
  /\ \E b \in {seen, origin[Merge]} :
       /\ seen' = b
       /\ call' = [call EXCEPT ![t].base = b]
  /\ Goto(t, IF call[t].dirty THEN "inventory" ELSE "switch")
  /\ UNCHANGED <<log, tip, origin, on, dirty, file, ghost>>

(* Deviation: a new file nobody named is no reason to refuse.              *)
InventoryBlind(t) ==
  /\ pc[t] = "inventory"
  /\ IF ~(Request(t).include \subseteq dirty[t] \cap New)
     THEN End(t)
     ELSE Goto(t, "park") /\ UNCHANGED call
  /\ UNCHANGED <<git, file, ghost>>

(* parkChanges first lists the new files: every one must be named by an    *)
(* --include, and every --include must be one.                             *)
Inventory(t) ==
  /\ pc[t] = "inventory"
  /\ IF Request(t).include # dirty[t] \cap New
     THEN End(t)
     ELSE Goto(t, "park") /\ UNCHANGED call
  /\ UNCHANGED <<git, file, ghost>>

ParkCommit(t) ==
  /\ pc[t] = "park" /\ dirty[t] # {}
  /\ LET work == (dirty[t] \ New) \cup (Request(t).include \cap dirty[t])
     IN /\ Commit(on[t], tip[on[t]], work, t)
        /\ dirty' = [dirty EXCEPT ![t] = @ \ work]
  /\ tip' = [tip EXCEPT ![on[t]] = Len(log) + 1]
  /\ unrecorded' = unrecorded \cup {Len(log) + 1}
  /\ Goto(t, "record")
  /\ UNCHANGED <<origin, seen, on, file, call, made, unwritten, calls>>

(* A write on a branch's task-state file.                                  *)
Write(b, req) == file' = [file EXCEPT ![b] = T!Decide(req, @).file]

(* Deviation: the park is recorded for the branch the tree goes to.        *)
RecordOnTarget(t) ==
  /\ pc[t] = "record"
  /\ Write(call[t].to, [kind |-> "park", slug |-> call[t].to, park |-> tip[on[t]], team |-> t])
  /\ unrecorded' = unrecorded \ {tip[on[t]]}
  /\ Goto(t, "switch")
  /\ UNCHANGED <<git, call, made, unwritten, calls>>

RecordPark(t) ==
  /\ pc[t] = "record"
  /\ Write(on[t], [kind |-> "park", slug |-> on[t], park |-> tip[on[t]], team |-> t])
  /\ unrecorded' = unrecorded \ {tip[on[t]]}
  /\ Goto(t, "switch")
  /\ UNCHANGED <<git, call, made, unwritten, calls>>

(* git refuses a branch another worktree is on, and to create one that     *)
(* exists; else it moves the tree, with whatever in it is not committed.   *)
GitSwitch(t) ==
  LET to == call[t].to
      at == IF call[t].created THEN call[t].base ELSE tip[to]
  IN /\ pc[t] = "switch"
     /\ call[t].created <=> tip[to] = None
     /\ ~\E u \in Teams \ {t} : on[u] = to
     /\ tip' = [tip EXCEPT ![to] = at]
     /\ on'  = [on EXCEPT ![t] = to]
     /\ unwritten' = IF call[t].created THEN unwritten \cup {to} ELSE unwritten
     /\ call' = [call EXCEPT ![t].head = at]
     /\ Goto(t, "arrive")
     /\ UNCHANGED <<log, origin, seen, dirty, file, made, unrecorded, calls>>

(* Deviation: a branch cut anew is written like one that was there.        *)
WriteOfKnown(t, start) ==
  [kind |-> "switch", slug |-> call[t].to, task |-> Request(t).task, created |-> FALSE,
   start |-> start, orc |-> None, own |-> None]

WriteOfSwitch(t, start) ==
  [kind |-> "switch", slug |-> call[t].to, task |-> Request(t).task,
   created |-> call[t].created, start |-> start, orc |-> None, own |-> None]

(* The one write on the target's file.  A new branch starts at its base,   *)
(* another one at its merge-base, when that can be told.                   *)
Arrive(t) ==
  LET to == call[t].to
  IN /\ pc[t] = "arrive"
     /\ \E start \in IF call[t].created THEN {call[t].base} ELSE {MergeBase(tip[to], seen), None} :
          Write(to, WriteOfSwitch(t, start))
     /\ unwritten' = IF call[t].created THEN unwritten \ {to} ELSE unwritten
     /\ IF call[t].created THEN End(t) ELSE Goto(t, "unpark") /\ UNCHANGED call
     /\ UNCHANGED <<git, made, unrecorded, calls>>

(* Only a recorded park that is the branch's HEAD is undone.               *)
Unpark(t) ==
  /\ pc[t] = "unpark"
  /\ IF file[call[t].to].park = call[t].head /\ IsPark(tip[call[t].to])
     THEN Goto(t, "ask") /\ UNCHANGED call
     ELSE End(t)
  /\ UNCHANGED <<git, file, ghost>>

(* Deviation: no remote is asked.                                          *)
AskNobody(t) ==
  /\ pc[t] = "ask"
  /\ Goto(t, "reset")
  /\ UNCHANGED <<git, file, call, ghost>>

(* RemotesContainAny: a park some remote has, or might have, stays.        *)
AskRemote(t) ==
  /\ pc[t] = "ask"
  /\ \/ End(t)
     \/ ~Pushed(call[t].head) /\ Goto(t, "reset") /\ UNCHANGED call
  /\ UNCHANGED <<git, file, ghost>>

(* Deviation: reset --hard.                                                *)
ResetHard(t) ==
  /\ pc[t] = "reset"
  /\ tip' = [tip EXCEPT ![on[t]] = Parent(@)]
  /\ dirty' = [dirty EXCEPT ![t] = {}]
  /\ Goto(t, "clear")
  /\ UNCHANGED <<log, origin, seen, on, file, call, ghost>>

(* reset --soft HEAD~1: the work of the park is uncommitted again.         *)
Reset(t) ==
  /\ pc[t] = "reset"
  /\ tip' = [tip EXCEPT ![on[t]] = Parent(@)]
  /\ dirty' = [dirty EXCEPT ![t] = @ \cup log[tip[on[t]]].work]
  /\ Goto(t, "clear")
  /\ UNCHANGED <<log, origin, seen, on, file, call, ghost>>

Clear(t) ==
  /\ pc[t] = "clear"
  /\ Write(call[t].to, [kind |-> "unpark", slug |-> call[t].to])
  /\ End(t)
  /\ UNCHANGED <<git, ghost>>

(* A call ends early at any of its steps.  It refuses for a reason outside *)
(* the model: not a team's worktree, a merge or rebase in progress, a      *)
(* detached HEAD, an unreadable file, no base, a held session: line.  Or   *)
(* git fails: nothing to commit, a local file the target would overwrite,  *)
(* a post-checkout hook that fails after the checkout.  Or the write of a  *)
(* task-state file fails (park_state_failed, task_state_failed,            *)
(* unpark_state_partial).  Or the process dies.                            *)
Stop(t) ==
  /\ pc[t] # "idle"
  /\ End(t)
  /\ UNCHANGED <<git, file, ghost>>

Switch(t) ==
  \/ \E r \in Requests[t] : Begin(t, r)
  \/ Resolve(t) \/ Status(t) \/ Base(t) \/ Inventory(t) \/ ParkCommit(t) \/ RecordPark(t)
  \/ GitSwitch(t) \/ Arrive(t) \/ Unpark(t) \/ AskRemote(t) \/ Reset(t) \/ Clear(t)
  \/ Stop(t)

-----------------------------------------------------------------------------
(* People.                                                                 *)

MayTouch(t) == Considerate => pc[t] = "idle"

Edit(t, w) ==
  /\ MayTouch(t) /\ made[w] = None
  /\ made' = [made EXCEPT ![w] = on[t]]
  /\ dirty' = [dirty EXCEPT ![t] = @ \cup {w}]
  /\ UNCHANGED <<log, tip, origin, seen, on, file, pc, call, unrecorded, unwritten, calls>>

CommitWork(t) ==
  /\ MayTouch(t) /\ dirty[t] # {}
  /\ Commit(on[t], tip[on[t]], dirty[t], None)
  /\ tip' = [tip EXCEPT ![on[t]] = Len(log) + 1]
  /\ dirty' = [dirty EXCEPT ![t] = {}]
  /\ UNCHANGED <<origin, seen, on, file, pc, call, ghost>>

Push(b) ==
  /\ b # Merge /\ tip[b] # None
  /\ \A t \in Teams : on[t] = b => MayTouch(t)
  /\ origin[b] # tip[b] /\ (origin[b] = None \/ origin[b] \in Past(tip[b]))
  /\ origin' = [origin EXCEPT ![b] = tip[b]]
  /\ UNCHANGED <<log, tip, seen, on, dirty, file, pc, call, ghost>>

(* Somebody else's work reaches the remote's merge-branch.                 *)
Advance ==
  /\ Commit(Merge, origin[Merge], {}, None)
  /\ origin' = [origin EXCEPT ![Merge] = Len(log) + 1]
  /\ UNCHANGED <<tip, seen, on, dirty, file, pc, call, ghost>>

(* A branch is squashed into the remote's merge-branch and deleted, by     *)
(* hand: its task-state file stays.                                        *)
Land(b) ==
  /\ b # Merge /\ tip[b] # None
  /\ \A t \in Teams : on[t] # b
  /\ Commit(Merge, origin[Merge],
            UNION {log[n].work : n \in Past(tip[b]) \ Past(origin[Merge])}, None)
  /\ origin' = [origin EXCEPT ![Merge] = Len(log) + 1, ![b] = None]
  /\ tip' = [tip EXCEPT ![b] = None]
  /\ unwritten' = unwritten \ {b}
  /\ UNCHANGED <<seen, on, dirty, file, pc, call, made, unrecorded, calls>>

People ==
  \/ \E t \in Teams : CommitWork(t) \/ \E w \in Work : Edit(t, w)
  \/ \E b \in Branches : Push(b) \/ Land(b)
  \/ Advance

Next == People \/ \E t \in Teams : Switch(t)

Spec == Init /\ [][Next]_vars

-----------------------------------------------------------------------------

Call == [req: UNION {Requests[t] : t \in Teams}, to: Branches \cup {None}, created: BOOLEAN, dirty: BOOLEAN,
         base: Commits, head: Commits]

(* The types; and park: and park_team: are written and cleared together.   *)
SwitchTypeOK ==
  /\ \A n \in 1..Len(log) :
       log[n] \in [past: SUBSET Commits, branch: Branches, work: SUBSET Work,
                   park: Teams \cup {None}]
  /\ Len(log) <= MaxCommits
  /\ tip \in [Branches -> Commits \cup {None}]
  /\ origin \in [Branches -> Commits \cup {None}]
  /\ seen \in Commits
  /\ on \in [Teams -> Branches] /\ \A t \in Teams : tip[on[t]] # None
  /\ dirty \in [Teams -> SUBSET Work]
  /\ \A b \in Branches : file[b] # NoFile =>
       /\ file[b] \in T!State
       /\ file[b].park = None <=> file[b].park_team = None
  /\ pc \in [Teams -> Steps]
  /\ \A t \in Teams : call[t] # None => call[t] \in Call
  /\ made \in [Work -> Branches \cup {None}]

(* Nothing anybody did is ever gone: it is in a worktree, or in a commit   *)
(* some branch has, here or at the remote.                                 *)
NothingLost ==
  \A w \in Work : made[w] # None =>
    \/ \E t \in Teams : w \in dirty[t]
    \/ \E b \in Branches :
         \E n \in (UNION {Past(m) : m \in {tip[b], origin[b]} \ {None}}) \ {0} : w \in log[n].work

(* Work never travels: what was done on a task's branch is uncommitted     *)
(* only in a worktree on that branch, and in no commit of another task.    *)
WorkStaysHome ==
  /\ \A t \in Teams : \A w \in dirty[t] : made[w] = on[t]
  /\ \A n \in 1..Len(log) : log[n].branch # Merge =>
       \A w \in log[n].work : made[w] = log[n].branch

(* No branch ever loses a commit, but for a park no remote has, which goes *)
(* back into the worktree.                                                 *)
HistoryKept ==
  [][\A b \in Branches : tip[b] # None /\ tip'[b] # None =>
       \/ \E n \in Commits : n = tip[b] /\ (n \in Past(tip[b]))'
       \/ IsPark(tip[b]) /\ ~Pushed(tip[b]) /\ tip'[b] = Parent(tip[b])]_vars

(* A park another park was made on top of.                                 *)
Buried(n) == \E m \in 1..Len(log) : IsPark(m) /\ m # n /\ Parent(m) = n

(* Parked: the inventory disband reads, the branches a team parked.        *)
ParkedBy(t) ==
  {b \in Branches : tip[b] # None /\ file[b] # NoFile
                     /\ file[b].park # None /\ file[b].park_team = t}

(* A team finds what it parked: a park that is the tip of its branch is    *)
(* recorded there and in the team's inventory, unless the writing of the   *)
(* record failed or the park is buried.                                    *)
ParksFindable ==
  \A b \in Branches : tip[b] # None /\ IsPark(tip[b]) =>
    \/ tip[b] \in unrecorded \/ Buried(tip[b])
    \/ b \in ParkedBy(log[tip[b]].park) /\ file[b].park = tip[b]

(* The start of a task bounds its own work: no commit between the start:   *)
(* and the tip of its branch was made on another branch, unless the write  *)
(* for a branch cut anew failed.                                           *)
RangeIsOwn ==
  \A b \in Branches \ unwritten :
    tip[b] # None /\ file[b] # NoFile /\ file[b].start # None =>
      \A n \in Past(tip[b]) \ Past(file[b].start) : log[n].branch = b

=============================================================================
