# A formal model of lets

`lets` is a Go command-line program (`src/cli`) beside a Claude Code plugin
(`src/plugins/lets`, markdown and workflow scripts that call it). It runs a
developer's task from start to merge on a machine where several Claude Code
sessions, several worktrees and a person work on one repository at the same time.
There is no server. All that the processes share is files - the task-state files
under `.lets/sessions`, the session registry of Claude Code, a few caches - and
the git repository with its worktrees. Each call is a short process that reads a
lot of this, decides, and changes some of it, while the others do the same. That
is where the program can go wrong in ways its unit tests hardly reach, and it is
what the modules here model.

This directory holds the TLA+ modules, the TLC configurations that check them,
the proofs that TLAPS checks, and `PROJECT.json`, which ties every definition to
the lines it stands for, every property to a mutation of the model that breaks
it, and every known hazard of the code to the properties that watch it.

Paths below are relative to `src/cli/internal` unless they start with `src/`.

## 1. Inventory

### State on disk, and who changes it

| State | Where | Written by |
|---|---|---|
| task-state file, one per branch slug: `task`, `start`, `session`, `session_proof`, `origin`, `orc`, `park`, `park_team` | `.lets/sessions/.task-<slug>` | `task-state set/clear`, the SessionStart hook, `switch`, `adopt`, `release`, `remove`, `sweep` |
| a lock per slug | `.lets/locks` (flock) | every writer of the above |
| the session registry: pid, session id, start time, background job | `~/.claude/sessions/*.json` | Claude Code only; lets reads it |
| branches, worktrees, HEADs, index | git | `create`, `remove`, `sweep`, `switch`, `integrate`, and people |
| integrate's lock, owner marker, temporary worktree, patch | `.lets/runs`, `.lets/worktrees` | `integrate` |
| team files | `.lets/teams/<callsign>.md` | `team-init`, people, the lead |
| settings, rules copy, .gitignore block | `.claude`, `.lets`, `.gitignore` | `init`, `update`, hooks, `create` |
| caches of usage and task status, last-seen times, standing authorizations | `.lets/cache`, `.lets/peers` | statusline, peers commands |

### Components

**Task-state files** (`taskstate/taskstate.go`). A parser and three writers:
`MergeWrite` (lock, read again, derive, write a temporary file, rename), `Remove`
and `RemoveIfTask` (lock, compare, unlink, sweep of temporary files). Hard:
writers of one slug overlap; the lock may stay busy past the deadline; a process
may die anywhere; the decision must rest on what is overwritten. Correct when the
whole protocol behaves as if each call took effect at one instant or not at all.

**Session registry and guard** (`ccregistry`, `cli/hook_selfheal_unix.go`,
`taskstate.MaySetSession`). From one read of the registry the guard says whether
a session may overwrite the `session:` line: the holder is live, dead, rotated to
another id of the same process, continued in a background job, or unknown. Hard:
registry files trail their processes and outlive them; pids are reused; a file is
caught half-written; ids change on `/clear`.

**SessionStart hook** (`cli/hook_session_start.go`, `hook/sessionstart`). On
`startup` the line becomes the new session at HEAD; on `clear` it moves to the
new id and keeps its commit; on `resume` only the proof is renewed. The registry
is read once, before the lock. Also syncs the rules copy and prints banners.

**Commands that write task-state**: `task-state set` and `clear`
(`worktreecmd/taskstatecmd.go`), `switch`, `adopt`, `release`, `remove`.

**Worktree lifecycle** (`worktreecmd/create.go`, `rollback.go`, `remove.go`,
`mergecheck.go`, `sweep.go`, `branch.go`). `create` may switch the main checkout
away, adds a worktree, links `.lets` into it, and rolls all of it back on failure.
`remove` checks for changes and unpushed commits, removes the tree, clears the
task-state, and deletes the branch if it is merged. `sweep` does so for every
merged branch. No lock covers the sequence. Correct when nobody's work is lost
without being asked, a create that gives up puts back what it can, and task-state goes
with the tree it belongs to.

**Adopt, release, list, info, verify, bootstrap, record** (`worktreecmd`): adopt
takes a worktree made elsewhere, links it and names its task; release lets go of
the task and leaves a marker; record finds the traces of a task in every
worktree; list, info and verify only read.

**Team worktrees** (`worktreecmd/switch.go`, `parked.go`, `team.go`,
`gitutil/remote.go`, `gitutil/base.go`, `teamfile`). `switch` moves a standing
team's only worktree between branches: refusals first, then the park commit and
its record, `git switch`, one write on the target's file, and the undoing of the
park found there. Hard: it is a transaction over git and a file without one; the
order of its steps decides what a failure leaves.

**Integrate** (`integratecmd/integrate.go`). Applies one chunk of an
implementer's commits to the caller's tree as a staged patch, through a temporary
worktree it must prove is its own before deleting it; `--revert` undoes it. Hard:
calls die at every step, a person edits the tree meanwhile, something foreign may
be at the temporary path.

**Git queries** (`gitutil`): roots of repositories and worktrees, the base of a
new branch, whether any remote has a commit.

**Team files and Orca teams** (`teamfile`, `worktreecmd/teaminit.go`,
`orcacmd`). `team-init` publishes a team file without overwriting one (temporary
file and hard link). `orca team-create` and `team-remove` classify what exists in
git, in files and in the Orca terminal manager, and create or remove the rest.
Hard: each of the three sides may have any part of a team that an earlier call
left.

**Peers and handoff** (`peerscmd`, `handoffcmd`, `peername`, `peertail`). `who`
joins the registry with bindings; `tell` and `ask` deliver a message to a session
once; `standing` authorizes a sender for later; `handoff send` types into a
terminal, under a lock per pane, and never twice. Hard: the answer to "was it
sent" may be unknown, and a retry may deliver twice.

**Rules cache** (`rulescache`). Copies the plugin's rules where sessions read
them: lock for two seconds, compare key and hash, keep a person's edits, never go
back to an older version, back up, replace, write the key. Hard: a crash between
the replacement and the key; sessions of different versions at once.

**Init, settings, update** (`initcmd`, `worktreecmd/settings.go`, `letsconfig`,
`updatecmd`): migration of files, ownership of settings keys under a lock that
Claude Code does not take, the choice of the next update step.

**Statusline** (`statusline`): renders one line from caches that background
fetches refresh, with a time to live and a debounce.

**The rest**: branch names and tracker conventions (`worktreecmd/branchname.go`,
`trackeradapter`), redaction, agent runs, terminal multiplexers, notifications,
transcript tails and command wiring convert text, start one process or read one
file. They keep no state of their own.

### How they interact

Every writer goes through the task-state protocol, so `TaskStore`, what the
protocol promises, is what the other modules use. The hook and `task-state set`
put a registry read before it. `switch`, `remove` and `sweep` put git before it.
`integrate` and `switch` share a worktree with the person and never lock them
out. Two checkouts of one repository share `.lets` through links, which `create`
and `adopt` make.

## 2. Modules

| Module | What it is | Source |
|---|---|---|
| `SessionGuard` | a registry snapshot and every verdict drawn from it | `ccregistry`, `hook_selfheal_unix.go`, `MaySetSession` |
| `TaskFile` | the contents of a task-state file and `Decide`, what each writer leaves | `taskstate.go` and the `Derive` callback of each command |
| `TaskStore` | abstract: a call takes effect at one instant, or not at all | - |
| `TaskState` | the protocol: probe, lock or give up, read, stage, rename or unlink and sweep, crash | `taskstate.go`, `fsutil/flock_unix.go` |
| `SessionBoundary` | Claude Code processes, their registry files, hooks, against `TaskStore`'s file | `hook_session_start.go`, `refresh.go` |
| `SessionContinuity` | the same with history: what became of the chat that owned the boundary | - |
| `Worktrees` | create, rollback, remove, sweep, command by command, and people | `worktreecmd` |
| `Integrate` | a call of integrate step by step, its lock and temporary worktree, and people | `integratecmd` |
| `TeamSwitch` | switch, park and unpark, step by step, two teams and people | `switch.go`, `parked.go`, `remote.go`, `base.go` |
| `Handoff` | handoff send, one action per call to Orca, two senders, agents and a person | `handoffcmd`, `orcacmd/terminals.go` |
| `Peers` | who may talk to whom, read by read, while sessions come and go; the hub's wake | `peerscmd`, `cli/peers.go`, `orcacmd/wake.go`, `ccregistry` |
| `RulesFile` | which plugin may write the global rules copy, and over what | `rulescache.go` |
| `RulesCache` | Sync of concurrent sessions, write by write, with edits, deaths and moving plugins | `rulescache.go` |
| `Upkeep` | init, update and the loop around them, every write, with a person and a moving machine | `initcmd`, `updatecmd`, `trackeradapter` |
| `Teams` | the making, adopting and removing of a team's worktree, step by step | `teamfile`, `teaminit.go`, `orcacmd`, `adopt.go`, `settings.go` |
| `TaskStateProofs`, `SessionBoundaryProofs`, `IntegrateProofs`, `WorktreesProofs`, `RulesProofs` (rules cache, init and update), `PeersProofs`, `TeamSwitchProofs`, `TeamsProofs` (teams and handoff) | the theorems | - |
| `MC...` | small instances | - |

`SessionGuard`, `TaskFile` and `RulesFile` are functions without state; the others
use them. `TaskState` implements `TaskStore`, so `SessionBoundary`, `Worktrees` and
`TeamSwitch` treat a write of a task-state file as one instant. `RulesCache` and
`Upkeep` share the decisions of `RulesFile`: `RulesCache` has one sync in all its
steps, `Upkeep` many commands with a sync as one of them.

**TaskFile.** A request is a call with everything it decided before the lock (the
registry snapshot and HEAD included), so a decision is a function of the file
alone, just as the code's `Derive` callbacks are. The session-line rules are
`MayRefresh` and `MayCarry` of `SessionGuard`. Absent keys are `None`; a file
without any key is `Blank`, which is not `NoFile`. Keys only other tools read,
and the repeatable `orchestrator:` lines, are not in the contents.

**TaskState.** One action per step of the code between which another process may
run: `Probe` (the look before the lock of a writer that creates nothing),
`Acquire`, `GiveUp` (the deadline), `Read` (read again, decide), `Stage`,
`Rename`, `Unlink`, `Sweep`, `Unlock`, with `IOFails`, `RenameFails`,
`UnlinkFails` and `Crash`. The kernel frees a dead process's lock; its temporary
file stays, as `Stray`.

**SessionBoundary.** A Claude Code process is a pid, a start time and a session
id. It launches, resumes, clears, is parked into a job, exits; its registry file
follows at once or, with `Lags`, later, and may survive it; with `Garbles` it may
be unreadable at a read; with `Shares` one id may run twice. A hook reads the
registry (`RunHook` puts the snapshot in the request) and is served later, or
refused.

**Worktrees.** A commit is the piece of work it carries and ancestry is
inclusion. Every git command of the code is an action, and so are the steps of
the rollback in the order the code runs them. `git worktree add -b` is two, for git
makes the branch before it looks at the directory (`CutBranch`, `AddTree`); each may
fail, the second also with the worktree in place, when a hook fails. `git worktree
remove` and the prune after it are one (`DropTree`). git's own refusals are operators
marked external. Links, excludes and settings inside a new tree are one step that
succeeds or fails. The sweep compares what branches hold where the code compares
tips. Left out: the text of `.gitignore`, checking out a remote-tracking branch by its
short name, bases given as commits, the refusal of an external worktree, and the
branch name of the tracker's convention among those that a removed worktree may have
left (`remove.go:375`).

**Integrate.** A file has regions, far enough apart to be hunks of their own. A
commit gives regions a new content; picking it succeeds on the old content, is
dropped on the new and conflicts on any other. `Fits` and `Reverses` are git's own
conditions of `git apply [-R] --index`: index and worktree agree on the patch's files
and its hunks match, whatever else those files hold. A verification is two git
commands (`integrate.go:205`, `:206`; `:285`, `:286`) and two steps; the person edits,
stages or commits between any two steps of a call. One tree and one run-chunk pair,
whose name is what calls collide on. Two checkouts whose `.lets` are separate
directories do not share the lock and are outside the model.

**TeamSwitch.** The log of all commits, branches here and at the remote, two
worktrees. Task-state writes are `TaskFile`'s decisions taken at one instant.
`Stop` ends a call at any step: the refusals for reasons outside the model (not a
team's worktree, a merge in progress, a detached HEAD, a held session line), a
failing git command, a failing write, the death of the process. Projects whose
branch names carry task ids look tasks up by name; the model has the other case,
where the task-state files decide.

**Handoff.** A pane has a handle, which Orca may replace at any moment, and runs
an agent or a shell; an agent is in a turn or not, and its input line empty or
not. A sender keeps the record of its target as it read it (`rec`), and the lock
of the pane. What a screen shows is reduced to what the gate asks of it: `busy`,
`not_clear`, `ready` or `unknown`, the last of which is possible at every read.
A send types the line whole or fails, and a failing send may have typed it. Why a
terminal is no target (`targets.go:53-68`) is reduced to `Barred` and to whether an agent
runs there. The list of terminals and Orca's ps after it (`terminals.go:51`, `:76`) are
one read, and so are the wait for a new tab and the listing that finds its handle again
by title (`terminals.go:171-224`). The check of the brief, before anything else, has no state.

**Peers.** A call (`orchestrator`, `who`, `sender`, the standing grant of
`task-state set`, the hub's list, wake and ask) is a program counter and what its
reads have returned so far: the branch, the registry file by file, the records,
row after row the branch of a checkout and then its binding, the last-seen file,
in the order of the code. Between any two reads sessions
start, exit, take another name or are parked, a checkout changes its branch, a
record or a binding is rewritten. A file of the registry may be unreadable. A
message is what the harness says of it: a claimed name and a pid. What was true
while the call ran is kept in the call's history (`held`, `still`, `steady`), so
that an answer can be held against it. A live process's file is taken to be of the
process that runs; `SessionBoundary` has files that lag and pids that are used
again. `orchestrator` and `sender` read the branches and bindings of the rows too
and use neither, so the model leaves those reads out.

**RulesFile, RulesCache.** A text of the rules is a model value with a version.
`Verdict` is `syncLocked` up to its first write. `RulesCache` runs it under the
lock: `backup`, `write` and `record` are steps of their own, each may fail, and a
session may die between any two. `known` is the history of installed plugins.

**Upkeep.** `env`, `adapter`, `rules`, `copy` and `legacy` are files of a project
and of the person; a run of init or update is a list of writes. Every write is a
step and a run may die after each. Removing an old adapter may fail; `left` is what the
last update could not remove, which its report names. Migration replaces a language
outside `PlainLanguages` by the default, as `parseLegacyYaml` does. The several reads
of the global copy and its key in `userRulesInfo` (`updatecmd.go:372-398`) are one. `next` is the next action an update printed,
and `Follow` is the person doing it. Releases come out, other sessions of any
installed version sync the global copy, and a person edits files between runs.

**Teams.** Three worktrees: Orca's, the one of `lets worktree create`, and one
that is there already. A call is one of the flow of `/lets:worktree create
--team`, an adopt, a self-heal, or a removal; `Site(p)` is where it works and its
step is the next thing it writes or asks. Orca's answers are late, wrong or
missing. `odd` is what is wrong with its worktree: cut from something else, an agent in
it, or an agent that the create only `warned` it could not look for, because the list of
terminals failed (`Terminals`). A link of `.lets`, the store, the shared excludes and the
settings file are written by adopt, by Claude Code and by a person. `aside` holds
whatever an adopt moved out of the way of its link. Naming a task is two steps of adopt,
the look at recorded task, names and team files (`TaskLook`) and the write (`Task`):
the lock of the task-state file excludes nobody who links a team file, and `unread`
has the worktrees first claimed in between. Left out: a removal that Orca ends after the
120 s of `teamremove.go:130`, a tracker's store that is committed, which a
fresh worktree has from the start, and the statusline's switch in
`statuslinecmd/config.go:162-205`, which writes the same settings file without a lock,
as Claude Code does.

## 3. Runs

TLC explores every reachable state of each instance.

| Run | Shows | Instance |
|---|---|---|
| `task_state` | `NoLostUpdate`; the protocol implements `TaskStore`; `EveryCallReturns` | 2 processes, 2 slugs, calls of set (with and without start), startup hook, release, remove, any failure; 80 000 states |
| `session_lagging` | `ProofTruthful`, `CarryIsProven` | 3 session ids, 2 pids used again (`MaxAt` = 2 launches), late registry files, one id in two processes; 580 000 states |
| `session_prompt` | `ListedBoundaryHeld`, `BoundaryFollowsClear` | prompt registry read half-written at any time, other protocol versions, one background job, resumes, 2 commits; 760 000 states |
| `integrate` | `LeftoverProvable`, `ForeignKept`, `UserWorkKept`, `CommittedChunkStays`, `OkIsExact`, `EveryCallEnds` | 2 calls with different chunks under one name, a file of 2 regions of 3 contents, crashes, 2 changes by a person at any moment, something foreign at the temporary path; 630 000 states |
| `worktree_calls` | `WorkKept`, `FailedCreateUndone`, `TaskGoesWithTree` | 2 callers, one call each, 8 kinds of request, 3 branches, 2 names, a person; 2.0 million states |
| `team_switch` | `NothingLost`, `WorkStaysHome`, `HistoryKept`, `ParksFindable`, `RangeIsOwn` | 2 teams, 3 switches, 2 commits, a tracked and a new file, 5 branches; 1.9 million states |
| `handoff` | `TypedOnce`, `ReportHonest`, `LockedThere`, `Undisturbed` | 2 senders, 3 panes (one opened by a sender, one whose agent Orca does not track and whose screen cannot be read), 4 handles, 2 reads of a new tab; 1.9 million states |
| `peers` | `StandingGrounded`, `StandingAnswered`, `BoundIsKept`, `RunningMainKeptAlone` | 9 beginnings, 3 pids, 3 session ids, 2 names, 2 checkouts and another repository, one call of 6 requests, 2 outside moves, one missed entry; 2.0 million states |
| `rules_cache` | `KeyGrounded`, `EditsBackedUp`, `ForwardOnly` | 3 releases and a checkout, 5 texts, 2 sessions, 3 syncs, an edit, a plugin that comes or goes, a death or failed write; 2.1 million states |
| `upkeep` | `LegacyKept`, `AdapterFollows`, `DoneTruthful`, `PersonsWorkKept`, `LoopEnds` | 2 releases and a checkout, 3 trackers of which one has no shipped adapter, 5 beginnings (a project on an old installation with two plugin versions and no readable index, and a config.yaml with a language migration does not take, among them), 2 edits, a death; 1.4 million states |
| `teams` | `LeadSetUp`, `NothingTaken`, `TeamNotGuessed` | 2 processes, Orca's, Go's and one present worktree, 3 calls, one odd answer of Orca and an agent of its own, one write of others, failure or death; 2.3 million states |
| `teams_ignored` | finds `RulesIgnored` violated | the same with 2 calls and no fault; see findings |

**The properties in words.**

- Task-state files: what a writer is about to leave is its decision on the contents
  that are there at that moment (`NoLostUpdate`), and a call behaves as one
  instant or as nothing (`ImplementsStore`).
- Boundary: a recorded proof names a process that ran the session
  (`ProofTruthful`); `/clear` moves the boundary only within one process
  (`CarryIsProven`) and does move it (`BoundaryFollowsClear`); a new session never
  takes it from one that its hook could see (`ListedBoundaryHeld`).
- Worktrees: no commit or edit is lost that nobody asked to lose (`WorkKept`); a
  create that gives up, or whose rollback reports success, leaves nothing behind but
  what a failing `git worktree add` had made (`FailedCreateUndone`); a remove clears the task of its own branch only (`TaskGoesWithTree`).
- Integrate: a leftover temporary worktree can always be proved to be integrate's
  own (`LeftoverProvable`), nothing foreign is removed (`ForeignKept`), no edit
  overwritten (`UserWorkKept`), ok means the asked range (`OkIsExact`), a revert
  undoes what was committed beside another staged change at most, and never says
  ok of it (`CommittedChunkStays`).
- Switch: no commit or change is lost (`NothingLost`) or travels to another task
  (`WorkStaysHome`), nothing pushed is undone (`HistoryKept`), a park is found
  again (`ParksFindable`), a task's range is its own commits (`RangeIsOwn`).
- Handoff: a pointer is typed once (`TypedOnce`), into the pane that is locked
  (`LockedThere`), never into a turn or after a draft that the screen showed
  (`Undisturbed`), and the report says what happened (`ReportHonest`).
- Peers: a message is let through only on facts each of which was true at some
  moment of the call (`StandingGrounded`), and is when nothing moved and all hold
  (`StandingAnswered`); a bound branch leads to its name or to nobody
  (`BoundIsKept`); the hub resumes no session beside a process that has run it
  since before the list (`RunningMainKeptAlone`).
- Rules: no older text replaces a newer (`ForwardOnly`), a person's text is backed
  up before it is replaced (`EditsBackedUp`), the key certifies a release's own
  text (`KeyGrounded`).
- Init and update: a person's values and files stay (`PersonsWorkKept`), a legacy
  language that migration takes is in `config.yaml` or `.env` (`LegacyKept`), the
  adapter in force after a report is the one `.env` names, and only the ones the report
  calls not removable are beside it (`AdapterFollows`),
  "done" is true (`DoneTruthful`), and doing the one step and rerunning ends
  (`LoopEnds`).
- Teams: at most one lead, in the worktree its team file names; if Orca made that
  worktree, it is the one asked for, an agent is beside the lead only where the create
  warned that it could not look, and its `.lets` stays the main one, if create
  did, it stays so or was moved aside (`LeadSetUp`); what a session stored or is in
  the settings file is not taken by a link or a merge (`NothingTaken`); no task is
  guessed for a worktree that a team file claimed when adopt looked (`TeamNotGuessed`).

Each module also states its type invariant. They are proved for `TaskState`,
`SessionBoundary`, `Integrate`, `Worktrees`, `Handoff`, `RulesCache`, `TeamSwitch`,
`Upkeep` and `Teams`, and hold in the instance of `Peers`; no run is spent on them.

**Why these bounds.** A lost update, a broken exclusion or a deleted temporary
file needs two processes; a third only waits. A carried boundary needs an old
session, its successor and a stranger: three ids; a reused pid needs two
launches on it. A stolen temporary worktree needs the call that left it and the
call that finds it. The rollback and the branch deletion go wrong against one
other call or one act of a person. A park is buried by a failed switch, another
switch, and the way back. Two senders meet on one pane with one stale handle
each, which takes the two first handles and two more. A wrong answer in `Peers`
needs one fact that changes between two reads, and a second that hides it; a
third session is the one a name or an id is mistaken for. A rules copy goes
backwards through a sync that read before a newer one wrote, with the key from a
third: three releases and three syncs, of which at most two overlap. An adapter
is lost by a run that dies between two writes and a tracker that changes before
the next. A second lead needs two flows, and a removal or an adopt between them.

`MaxAt`, `MaxEdits`, `MaxRulesEdits`, `MaxNonce`, `MaxCalls`, `MaxTasks`, `MaxCommits`,
`MaxHandle`, `MaxMoves`, `MaxMissed`, `MaxSyncs`, `MaxInstalls`, `MaxFaults`,
`MaxDeaths`, `MaxOrca` and `MaxWrites` bound what the code does not; each is a
guard of the action that counts. `Tries` is the code's `identifyTries`, 2 for 5.
In `Worktrees` and `Peers` the world stops when the last call has ended: nothing
after that concerns a call. `session_prompt` is explored under the view `MCView`,
which drops which process ran which old id: of that history no action and no
property of the run reads more than which ids were used. `teams` is explored under one
that drops what no later step and no property reads: the record of a call that died,
hand-written team files for worktrees whose own names are a team's, counts and answers
a call has used. In `Integrate` the
repository starts at one tree and the person does not delete the temporary
worktree under a running call.

**Considerate.** `Worktrees` and `TeamSwitch` take a constant that says nobody
works in a tree, or pushes its branch, while a call works on it. With `FALSE` TLC
finds what the code does not exclude: an edit saved between remove's look for
changes and `git worktree remove --force` is gone; an edit made between switch's
status and `git switch` travels to the other branch. No lock could exclude a
person, and the code claims none, so the runs assume the courtesy and the hazards
in `PROJECT.json` say so. `NothingLost` and `RangeIsOwn` do without it: their proofs
do not assume it.

**Where properties stop.** `TaskGoesWithTree` exempts the path for a worktree
that is already gone: there the code removes the file of the branch it guesses,
even when another checkout has it. `OkIsExact` promises that index and
worktree agree; that they are the picked tree it promises unless a person staged
something between the two looks of the verification, for which the code says ok.
`CommittedChunkStays` exempts a chunk with another staged change in one of its files
(an observation of section 4), and speaks of what was committed before the call looked
at HEAD; a commit made after that look is reverted in index and tree. `FailedCreateUndone` speaks of rollbacks that report
success, and lets a failing `git worktree add` leave its branch and a clean worktree:
the code takes neither back (an observation of section 4). `RangeIsOwn` exempts a branch whose own switch could not write its file,
and speaks of branches cut by switch: a branch stacked by hand on another has that
one's commits in its range. `ParksFindable` exempts parks whose record was never
written and buried ones. In the instance of `worktree_calls` no request deletes
the merge-branch without force; the proof of `WorkKept` assumes that, and that worktrees
are cut from the merge-branch (section 5). `ListedBoundaryHeld` needs ids that run in one
process at a time. `DoneTruthful` does not say that the session runs the newest plugin
where `installed_plugins.json` cannot be read: update then takes the root it was
handed, and says "done" of that one. `RunningMainKeptAlone` exempts a process whose entry could not
be read and that is not the one last-seen recorded. `ForwardOnly` and
`EditsBackedUp` speak of the text that was there when the lock was taken: one that
a person puts in between the read and the atomic replace is lost, and no lock
holds a person. `LegacyKept` is silent about a language migration does not take, and,
as people edit between runs only, about a `.env` that appears between migration's look
(`migrate.go:58`) and its write. `AdapterFollows` exempts the adapters that the report
names as not removable. `LoopEnds` excepts a session that runs a `--plugin-dir` checkout.
`NothingTaken` excepts what Claude Code writes between adopt's last look at the
settings file and the rename, and the `.lets` that create replaces in the tree it
makes. `TeamNotGuessed` exempts a worktree whose first team file was linked after the
look of the very adopt that writes. `LeadSetUp` speaks of Orca's worktree until a removal
took it under the flow, and lets an agent be there where the create warned.
In the worktree create made, it allows that the main link was moved aside: create
links without adopt's lock, so an adopt that looked before may move the fresh link.

**Deadlock.** `task_state` is checked for deadlock. The other systems may stop:
their bounded people and callers run out.

**Fairness.** Liveness is claimed for `TaskState`, `Integrate` and `Upkeep`. In
the first two, weak fairness on the steps of a call says that the operating system
runs a live process and that time passes: while the lock is held by another,
`GiveUp` is enabled, because every caller passes a deadline (hooks 1 s, `remove`
3 s, `set`, `switch` and `release` 5 s). Nothing is assumed of callers, of
failures, or of the lock being granted. Each wait either ends or times out, which
is what `EveryCallReturns` and `EveryCallEnds` need. In `Upkeep` it is weak
fairness on one disjunction: a run goes on, and the person reruns the update and
does the step it printed, which is what the loop is documented to need; no edit,
release, death or other session has to happen. `adopt`'s own lock, which the
command line waits for without a deadline, is in `Teams`, where no liveness is
claimed.

**Mutants.** Each property of a passing run has a mutation of a modelled
operation, a plausible mistake in that code - a lock taken blindly, a proof not
bound to its session, `reset --hard` for `--soft`, a park recorded on the wrong
branch, a gate that forgets pristine releases - under which TLC finds the property
violated. The deviating definitions are beside the faithful ones, marked
"Deviation" or named for what they omit.

## 4. Findings

`teams_ignored`. The allow rules of a team's lead go into `settings.local.json`
"only while git ignores the file" (`worktreecmd/settings.go:114`, and line 152:
"nothing is written while git still does not ignore it"). What makes git ignore it is a
line in the repository's shared `info/exclude`, which `ensureWorktreeExcludes` reads
(`worktreecmd/create.go:492`), appends to and replaces (`create.go:521`) under no lock
its callers share: adopt adds `.lets` under the `adopt.lock` of the main checkout
(`adopt.go:120-128`), team-init's merge adds its line under the settings lock of the
worktree. In the shortest trace both work in one and the same worktree, which is there
already. Both read the file before either has written it; team-init adds its line and
asks git, which ignores the settings file now (`settings.go:268`); adopt replaces the
exclude file by what it read and `.lets`, and the line is gone; team-init writes the rules
(`settings.go:319`). The run ends with the rules in a file that git would publish. The
exclude file is one for all worktrees, so the adopt may as well be of another one.

**Observations.** The modules also show the following. None has a run of its own;
those that a property of section 3 would otherwise run into are its exemptions.

- `integrate --revert` takes a committed chunk out of index and worktree when
  something else is staged in one of its files: the guard asks for any staged change
  in the files (`integrate.go:273`), `git apply -R` for matching hunks alone. The
  comment at `integrate.go:230` says a committed chunk is never undone. The answer is
  then `revert_verify_mismatch`, never ok, which is proved.
- `integrate` says "index and worktree equal the picked tree" from two git commands
  (`integrate.go:205`, `:206`). What a person stages in between is part of the index
  it says that of.
- The hook reads the registry before it waits for the file's lock
  (`hook_session_start.go:98`). A session that starts after the read and runs on
  can lose the boundary, although `refresh.go:41` says a second live session must
  never take it.
- The rollback of `create --switch-main-if-needed` switches the main checkout back
  first (`rollback.go:18`, `:42`). The new worktree still has that branch then, git
  refuses, and main stays on the merge-branch.
- `git worktree add -b` makes the branch before it looks whether the directory is
  free, and a failing post-checkout hook makes it fail with the worktree in place.
  `create` then restores the main checkout alone (`create.go:230-233`): branch and
  worktree stay, `.lets` is not linked, and the next create of that name is refused.
  The comment above (`create.go:217`) trusts git's registration to be atomic.
- `remove --branch-only` of the merge-branch measures it against itself, finds it
  merged (`remove.go:275`) and deletes it with `-D`, unpushed commits included.
- The branch of a running `create --base` is the copy of another branch's commits. If
  the main checkout is on it, `remove` measures that other branch against it with
  `git branch -d` and deletes it, and the rollback of the create then deletes the
  new branch with `-D` (`rollback.go:72`): commits that nobody pushed are on no branch.
  TLC finds it along a given sequence of seven calls, in which people keep off what a
  running call works on.
- The park is committed before `git switch` may fail. After a failure the next
  switch parks on top and overwrites the only `park:` key; on return the upper park
  is undone and the lower stays a commit (`switch.go:587`;
  `src/docs/parallel-work.md:35` says a park that was never pushed is undone). No
  work is lost, and `/lets:done` warns about the park.
- When the merge-base cannot be computed after a switch, the file pairs the new
  task with the start of the old one (`switch.go:303`), while `task-state set`
  refuses such a pair (`taskstatecmd.go:165`). A switch that moved the tree and
  could not write the file leaves a branch no file names, so a later lookup by task
  cuts a second one.
- The gate of handoff tests the state of the agent in a record that was read before
  the wait, up to 15 s, for the lock of the pane (`handoffcmd/send.go:172`, `:62`).
  Where the screen cannot be read, the pointer is typed into a turn that began
  during the wait, or into the shell an agent left.
- `who` answers a message from reads made one after another, and from a row's branch
  and that branch's binding as two reads (`who.go:236-238`). Each fact it rests on was
  true at some moment of the call; they need not have held together. When a worker's
  checkout is switched between the two reads and its old branch is bound after that,
  the answer is that the worker is bound, which it was at no moment.
- Liveness of a last-seen session skips entries that cannot be read or are of
  another protocol under another pid (`ccregistry/registry.go:283-314`); between
  that read and the creation of the terminal the session may be resumed by hand;
  an older view may overwrite a newer last-seen file (`lastseen.go:70`). When
  `git worktree list` fails the rows of this repository are fewer, without the
  snapshot saying so.
- A text of an installed release that is put back by hand escapes the gate of the
  key; the comment at `rulescache.go:201-204` says the key owns the copy.
- A switch to a tracker without a shipped adapter leaves the old adapter loaded
  (`updatecmd.go:266`; `src/docs/installation.md:137` says the old one goes). One that
  cannot be removed stays loaded beside the new one, and the report says so
  (`tracker.go:60-64`, `updatecmd.go:275-277`).
- A language of other characters than `[A-Za-z0-9._/-]` in config.yaml is replaced by
  English and the file is deleted (`migrate.go:119-128`, `migrate.go:86`), which
  `migrate_test.go:21` asserts.
- Once init or update has written the project's defaults, the user-level value of
  such a key has no effect any more. `init --user` in a session that runs a
  `--plugin-dir` checkout, with user scope and no global copy, never ends the
  update loop. `done` says everything is the latest although the plugin's version
  may be unknown. The regeneration of `.env` takes no lock, and its `.bak` is
  overwritten by the next.
- `orca team-create` stops at an agent that Orca started in the new worktree, but when
  the list of terminals fails it only warns and reports `created`
  (`teamcreate.go:268-271`): the lead is then launched beside such an agent.
- adopt looks for a team file that claims the worktree, asks git for HEAD and writes the
  task it derived (`adopt.go:231-296`), with no lock over the team files. A team file
  linked in between leaves a guessed task in a claimed worktree.
- Two sessions can both be told `created` for one creation in Orca; the one that
  then loses the team file is told to clean up the worktree of the winner. A
  directory called safe to delete may hold data that was written between the look
  and the rename. An adopt that overlaps create in one worktree may move the fresh
  link aside after the lead was launched. A worktree that another team file claims
  is not refused by team-init. A settings write can recreate the directory of a
  worktree that was just removed. A stale team is not recognized where path and
  base name are used again.

## 5. Proofs

Each proof holds for any values of the constants: any number of processes,
sessions, panes, files, plugins, calls and edits. The assumptions are named where
the constants are declared. Most say that the value for absence is none of the
values it stands beside; `StartsUnproven` says that the first task-state file has
no proof of a process outside the model.

**Task-state files** (`TaskStateProofs`).

- `DecideDecides`: every decision of every writer leaves a file of the right type,
  an outcome among the known ones, and the same file unless it says "written" or
  "removed". One lemma per writer.
- `Invariance`: `Spec => []IInv`, with `IInv` the conjunction of `TypeOK`,
  `LockDiscipline`, `Bookkeeping`, `NoLostUpdate`, `PlanIsChange` and `TempSafe`.
  The properties are not inductive alone. `NoLostUpdate` needs that nobody else
  changes the file in the critical section, which is `LockDiscipline`; that a
  process in its critical section serves a request, and has not answered yet, is
  `Bookkeeping`; that what it is about to do is the kind of change its step makes
  is `PlanIsChange`, without which the rename could not be matched with an
  abstract step that answers "written". `TempSafe` needs that the sweeper and the
  renamer are not on one slug: `LockDiscipline` again. One lemma per action.
- `TypeCorrect`, `LocksSafe`, `UpdatesSafe`, `SweepSafe`: the four invariants.
- `Refinement`: `Spec => ImplementsStore`. The mapping is the identity on `file`,
  `call` and `res`; lock, temporary files and program counters are hidden. Rename
  and unlink are the abstract instant, a decision that changes nothing takes
  effect at the read, giving up and failing are the abstract refusal, and every
  other step stutters.

**The boundary** (`SessionBoundaryProofs`). The argument is one of history. `held`
has every process, stamp and id that ever ran together. The invariant says that
each registry file, however old, and so each row of each snapshot a command still
holds, and so each proof, written or about to be, is in that history, and that a
snapshot has one row per pid. From it follow `ProofIsTrue` and, because a rotation
is accepted only for a listed row with the proof's pid and stamp, `CarryProven`.
`ListedHeld` adds that a session that has not answered its startup hook is the only
one its process ran and runs nowhere else: a row with its id is its own process, so
no other session's proof can name it. This needs `~Shares`, late and unreadable
registry files do not matter. `BoundaryIsKept` is the positive side: with a prompt
registry and no shared ids (`~Lags`, `~Shares`) the proof of a boundary is that of the
process that holds it or has just left it for a new id (`Proven`), and a hook that
could read the whole registry saw its own process there and nobody under the id that
was left (`WellRead`), so the rule for `/clear` applies. It assumes that no file of
the beginning names a session (`Afresh`), for such a one might name a process outside
the model; that entries may be unreadable (`Garbles`) does not matter.

**Integrate** (`IntegrateProofs`). The invariant says, per step of the call that
holds the lock, what it may rely on (`Own`): which tree it found, what the patch
holds, whether the temporary worktree is registered and signed, and, as long as
nobody acted since it looked, what index and HEAD have. Beside it, nothing
foreign is ever signed, and a registration of integrate's own that nobody works on
has its marker. `AlwaysProvable`, `OthersKept`, `EditsKept`, `OkExact`,
`CommittedStays` and the types follow; `EveryCallEnds` stays with TLC.

**Worktrees** (`WorktreesProofs`). git's rule is the first part of `IInv`: no branch in
two checkouts, none of them without its branch (`OneCheckout`). With the shape of a
call at each step and the types that is inductive, whoever works where, and is
`WorktreesInvariance`. The properties need `Considerate`, and each its own second
invariant.

- `Remembers` says what a call that has been alone all along still knows. A remove has
  the tree on the branch it found, and past the removal no checkout has that branch, so
  its task may go (`TaskGoes`). A create finds main, the branches and its name as they
  were when it began, up to its own tree and branch, as long as its rollback succeeds;
  each step of the rollback takes one of these away, and a failed `git worktree add` at
  most leaves its own branch and worktree (`FailedCreateIsUndone`).
- `WorkIsSafe` is about work, with any number of calls side by side. The tree a call is
  about to remove has no changes, unless forced. A branch it may delete with `-D` has
  only what is on the merge-branch, here or at the remote (`Settled`): the merged check
  saw it there, or the call cut the branch from there. That what is settled stays so is
  `MergeStays`: no call has the merge-branch as its target, no worktree is on it. For
  `git branch -d`, which measures against a remote branch or the main checkout,
  `OneCheckout` tells that the branch measured against is another one and stays.
  `NoWorkIsLost` follows under `CutFromMerge`: worktree branches are named otherwise
  than the merge-branch, no request names it as its branch, and bases are implicit or
  the merge-branch. Without the condition on bases the property is false, see the
  observation on `create --base` above; its counterexample takes seven calls, and the
  run, which makes two and has such a request, cannot reach it.

**Handoff** (`TeamsProofs`, last part). From the gate on, a call holds the lock of its pane,
so no other handoff types there; what the gate read off a readable screen is still
so, unless a person acted in between, which excuses. `NeverTwice`, `Honest`,
`IntoTheLocked` and `NotOverOthers` follow.

**Rules cache** (`RulesProofs`). The writes of a sync rest on what it read
some steps before. The invariant says what is still true of that reading: the key
is the one it saw, the gate it passed is the gate of the key that is there, what it
is about to replace is a release or has its backup, and its plugin was installed.
`OneAtATime`, `KeyIsGrounded`, `BackedUp` and `NeverBack` follow.

**Peers** (`PeersProofs`). A call decides on reads that the world has moved past.
The invariant carries each read's meaning to the answer: what a full read of the
registry listed file by file, the record that was on, the row's branch, the binding
of that branch when it was read, each was true at its moment and so is among `held`.
While the call still reads, what is true now is
among it too, which covers what is asked for last. For wake and ask: each process that has run the session all along has the id
the call looks for, so a read that saw it would have said "alive".
`StandingIsGrounded`, `BindingIsKept` and `NotResumedBeside` follow. The first of
a set of pids is found by well-founded induction on the naturals.
`StandingIsAnswered` is the other direction: where nothing moves while the call runs
and every read answers, what it has read is what there is, and the answer is not
"ask the user".

**Team switch** (`TeamSwitchProofs`). Two facts about commits carry the arguments.
The past of a commit is a line, of which every commit on it has the lower part
(`Lines`), so a merge-base is the greatest common commit and a reset goes to the
next lower. And a branch has, beside commits of the remote's merge-branch that
this repository has seen, its own commits alone (`BranchesOwn`). With them `IInv`
says what a switch knows at each step (`Informed`: the base it was given is one
that was seen, after the checkout the worktree is on the target) and that all work
is in a worktree, on a local branch or on the remote's merge-branch, the last of
which no step takes back (`WorkIsSomewhere`; `NothingLost` alone is not inductive,
for what is only on another branch of the remote goes when that branch lands).
`NothingIsLost`, `RangesAreOwn` and `SwitchTypes` follow from it, whoever works where
a switch runs. `WorkStays`, `ParksAreFound` and `HistoryIsKept` need `Considerate`
and a second invariant, `CInv`: from the record of a park to the reset the worktree
of the switch has nothing uncommitted, the head it read is still the tip, at the
reset no branch of the remote has it, and after the reset the tip is the commit that
was under a park (`Settled`).
That a park is found at the tip of its own branch only is `ParkOfBranch`.
The constants' assumptions say that a worktree begins on a branch of its own, never
the merge-branch, as git has it, and that the files of the beginning name the
first commit or none as their start.

**Init and update** (`RulesProofs`, second half). An update prints what it found some steps ago,
and the person acts on the print later still. The invariant says of each row that what
it reports still holds (`RowsTrue`): no step of the run that follows the row undoes it,
and the sessions that sync the global copy meanwhile cannot, for a copy of the newest
plugin whose key says so makes every older plugin find a newer gate (`SyncedInForce`).
That carries over the report, which is `DoneHolds`: `DoneTruthful` alone is not
inductive, a copy that is right but whose key is not may be replaced. `OwedInPlace`
says where a language that config.yaml named, one that migration takes, is at each
step of the migration, `AdaptersSwap` that the other adapters, but for the ones that
could not be removed, are gone before the active one is checked. The
assumptions say that every plugin root ships rules with a version (the release scripts
verify it), that a project without `.env` has no values, and that one of the installed
versions is the newest. `LegacyStays`, `AdapterIsTheTrackers`, `DoneIsTrue` and the
types follow; `WorkIsKept` goes through the three ways a run writes `.env` (`EnvKeeps`)
and the files it manages (`FilesKeep`).

**Teams** (`TeamsProofs`). The file decides: `Publish` is a link that fails when the
name exists, so at most one process is ever past it (`Published`: it is the only one
that writes the allow rules or launches, and the file names its worktree), and once a
lead runs nobody is (`Launched`). What the worktree of a lead is like was settled by
its flow long before. `OrcaSound` says so for Orca's worktree in three
stages: past the verification of Orca's answer it is not cut from something else, past
the look at its terminals it has no agent the create did not warn of, past the link its
`.lets` is the main one.
That no adopt undoes the link needs `AdoptAlone`, one holder of `adopt.lock`, and
`MainStays`, that a holder about to move or unlink something saw something else than
the main link. `GoSound` says it for the worktree create makes, where the link is made
without the lock: one command works there until the launch, and what an adopt moves is
kept aside. `NothingTaken` needs for the settings file that two merges never overlap
(`SettingsAlone`) and that what a merge is about to write has all that is there, but
for what Claude Code wrote since the last look (`SawIt`). `Shaped` says which step
belongs to which kind of call. `TeamNotGuessed` needs a second invariant,
`GuessHolds`: whoever is about to write a guess is in a worktree that no team file claims,
or that was first claimed after its look; it is alone there, for it holds `adopt.lock`.
`LeadSetUp` and `TeamNotGuessed` follow for any number of processes, calls, answers of
Orca and writes. Assumed is that Orca and create make
different worktrees, that other callsigns are other names, and that the beginnings are
what a worktree may hold.

**Only model-checked.** All liveness (`EveryCallReturns`, `EveryCallEnds`,
`LoopEnds`), which is outside what TLAPS proves under fairness; `WorkKept` for
worktrees cut from another branch, which holds of two calls and not of seven; and
the full type invariant of `Peers`, of which the proofs need only a part.

## 6. Not modelled

`PROJECT.json` lists every part with its status. What is left out, and why:

- *No state of their own*: branch names and tracker conventions, redaction,
  transcript tails, agent runs, terminal multiplexers and notifications, the
  rendering of commands. They convert text, read one file or start one process;
  what matters of them to the state (two branches with one slug, a screen that
  cannot be read, an answer that does not come) is in the modules that meet it.
- *Readers*: the task record across worktrees, list, info and verify print what
  they find and change nothing.
- *Statusline*: its caches hold numbers for one line and are replaced whole; a lost
  or doubled fetch costs another fetch.
- *Parts of modelled components*: release's marker and WIP commit, team open and
  the setup and teardown hooks of Orca, the renames of settings keys,
  `.gitignore` blocks and `.env.example`, the setup of beads, the framing of a
  message and the text of a question, the parsing of a registry entry and the walk
  up the process table. The notes of the components say which.
- *Two slugs that collide*: the modules key files by slug, as the code does, so that
  two branches of one slug share a file. Which branch the file speaks of the code
  does not record either.
- *Windows and macOS locks*: the lock is the advisory lock of `flock_unix.go`.
