------------------------------ MODULE Worktrees ------------------------------
(***************************************************************************)
(* lets worktree create, remove and sweep: git commands run one after      *)
(* another against a repository that other lets calls and the person       *)
(* change in between.  Nothing locks the sequence; git makes each command  *)
(* atomic and refuses to check one branch out twice.                       *)
(*                                                                         *)
(* Commits are the pieces of work they carry, so "is an ancestor of" is    *)
(* set inclusion.  Linking, excludes and settings inside a new tree are    *)
(* one step that succeeds or fails.  A name stands for a directory under   *)
(* .worktrees/.                                                            *)
(***************************************************************************)
EXTENDS Naturals, FiniteSets

CONSTANTS
  None,         \* no branch, no tree
  Merge,        \* the merge-branch
  Branches,     \* local branch names, Merge among them
  Names,        \* worktree names
  OwnRef,       \* the branch called like the worktree
  NewRef,       \* the branch called worktree-<name>
  Work,         \* pieces of work a person may do
  Callers,      \* processes that run lets
  Requests,     \* the calls they make
  MaxCalls,     \* bound on the number of calls
  MaxTasks,     \* bound on the task-state files there are at once
  Considerate   \* TRUE: nobody works on what a running call removes

ASSUME RefsAssumption == /\ Merge \in Branches /\ None \notin Branches
                         /\ OwnRef \in [Names -> Branches]
                         /\ NewRef \in [Names -> Branches]

Creates == [op : {"create"}, name : Names, branch : Branches \cup {None},
            mode : {"auto", "attach", "new"}, base : Branches \cup {None},
            switchMain : BOOLEAN]
Removes == [op : {"remove"}, name : Names, branch : Branches \cup {None},
            force : BOOLEAN, delete : BOOLEAN, forceBranch : BOOLEAN,
            only : BOOLEAN]
Sweeps  == [op : {"sweep"}]

ASSUME RequestsAssumption ==
  /\ Requests \subseteq Creates \cup Removes \cup Sweeps
  /\ \A r \in Requests : r.op = "remove" /\ r.only => r.branch # None /\ r.delete
ASSUME BoundsAssumption == {MaxCalls, MaxTasks} \subseteq Nat

VARIABLES
  hasRemote,   \* the repository has a remote
  exists,      \* the local branches there are
  work,        \* what each local branch holds
  remote,      \* what each remote-tracking branch holds
  upstream,    \* "none", "live" or "gone" for each local branch
  landed,      \* work that was squash-merged: on no branch by its own commit
  mainOn,      \* the branch of the main checkout
  mainDirty,   \* the main checkout has uncommitted changes, all along
  tree,        \* the registered worktree of each name, or None
  task,        \* the branches that have a task-state file
  discarded,   \* work a person asked to throw away
  call,        \* what each caller is doing
  calls        \* how many calls were made

refs  == <<hasRemote, exists, work, remote, upstream, landed>>
sites == <<mainOn, mainDirty, tree, task>>
vars  == <<refs, sites, discarded, call, calls>>

Trees == [branch : Branches, dir : BOOLEAN, dirty : SUBSET Work]
ASSUME NoTreeAssumption == None \notin Trees

CreatePCs == {"resolve", "precheck", "switch", "held", "ignore", "cut", "add", "fail",
              "link", "undo_main", "undo_tree", "undo_dir", "undo_branch", "undo_prune"}
RemovePCs == {"find", "dirty", "unpushed", "drop", "clean", "merged", "delete"}
PCs == CreatePCs \cup RemovePCs \cup {"idle", "list"}

NoRequest == [op |-> "none"]
Snapshots == [main : Branches, had : SUBSET Branches, tree : Trees \cup {None}]

CallRecords ==
  [pc : PCs, request : Requests \cup {NoRequest}, branch : Branches \cup {None},
   created : BOOLEAN, prev : Branches \cup {None}, clean : BOOLEAN, removed : BOOLEAN,
   gone : BOOLEAN, sure : BOOLEAN, todo : SUBSET Branches,
   alone : BOOLEAN, before : Snapshots \cup {None}, cut : SUBSET Work]

Idle == [pc |-> "idle", request |-> NoRequest,
         branch |-> None, created |-> FALSE, prev |-> None, clean |-> TRUE,
         removed |-> FALSE, gone |-> FALSE, sure |-> FALSE, todo |-> {},
         alone |-> TRUE, before |-> None, cut |-> {}]

(* Type correctness.                                                       *)
WorktreesTypeOK ==
  /\ hasRemote \in BOOLEAN
  /\ exists \subseteq Branches
  /\ work \in [Branches -> SUBSET Work]
  /\ remote \in [Branches -> SUBSET Work]
  /\ upstream \in [Branches -> {"none", "live", "gone"}]
  /\ landed \subseteq Work /\ discarded \subseteq Work
  /\ mainOn \in exists /\ mainDirty \in BOOLEAN
  /\ tree \in [Names -> Trees \cup {None}]
  /\ \A n \in Names : tree[n] # None => tree[n].branch \in exists
  /\ task \subseteq Branches
  /\ calls \in 0..MaxCalls
  /\ call \in [Callers -> CallRecords]
  /\ \A p \in Callers :
       /\ call[p].pc \in CreatePCs => call[p].request.op = "create"
       /\ call[p].pc \in {"merged", "delete"} => call[p].branch # None

-----------------------------------------------------------------------------
(* What git answers.                                                       *)

HeldBySomeTree(b) == \E n \in Names : tree[n] # None /\ tree[n].branch = b
Held(b) == mainOn = b \/ HeldBySomeTree(b)

WithoutDir(t) == [t EXCEPT !.dir = FALSE, !.dirty = {}]
HasDir(n) == IF tree[n] = None THEN FALSE ELSE tree[n].dir
Uncommitted == UNION {IF tree[n] = None THEN {} ELSE tree[n].dirty : n \in Names}
OnRemotes   == UNION {remote[b] : b \in Branches}

MergeHolds(b) ==          \* mergedUpstream: the remote's merge-branch, else the local one
  \/ hasRemote /\ work[b] \subseteq remote[Merge]
  \/ Merge \in exists /\ work[b] \subseteq work[Merge]

BranchDMerged(b) ==       \* what git branch -d measures against
  work[b] \subseteq (IF upstream[b] = "live" THEN remote[b] ELSE work[mainOn])

Unpushed(b) ==            \* commits the unpushed check counts
  CASE upstream[b] = "live" -> ~(work[b] \subseteq remote[b])
    [] upstream[b] = "gone" -> FALSE
    [] OTHER                -> hasRemote /\ ~(work[b] \subseteq OnRemotes)

ForgetBranch(b) ==        \* git branch -d/-D: the ref and its configuration
  /\ exists' = exists \ {b}
  /\ work' = [work EXCEPT ![b] = {}]
  /\ upstream' = [upstream EXCEPT ![b] = "none"]
  /\ UNCHANGED <<hasRemote, remote, landed>>

-----------------------------------------------------------------------------
(* One call: its program counter, its answer.                              *)

At(p, pc)    == call[p].pc = pc
Asked(p)     == call[p].request
To(p, c)     == call' = [call EXCEPT ![p] = c]
Goto(p, pc)  == To(p, [call[p] EXCEPT !.pc = pc])
Answer(p)    == To(p, Idle)

(* A call starts with its request; what is there then is remembered for    *)
(* the properties as long as the call is alone.                            *)
Others(p) == \E q \in Callers \ {p} : ~At(q, "idle")
First(r) ==
  CASE r.op = "create" -> "resolve"
    [] r.op = "remove" -> IF r.only THEN "merged" ELSE "find"
    [] OTHER           -> "list"
Fresh(p, r) ==
  [Idle EXCEPT
     !.pc = First(r), !.request = r, !.alone = ~Others(p),
     !.branch = IF First(r) = "merged" THEN r.branch ELSE None,
     !.before = IF r.op = "create" /\ ~Others(p)
                THEN [main |-> mainOn, had |-> exists, tree |-> tree[r.name]] ELSE None]
NotAlone(c) == [c EXCEPT !.alone = FALSE, !.before = None]

Begin(p) ==
  /\ At(p, "idle") /\ calls < MaxCalls /\ calls' = calls + 1
  /\ \E r \in Requests :
       call' = [q \in Callers |-> IF q = p THEN Fresh(p, r)
                                 ELSE IF At(q, "idle") THEN call[q] ELSE NotAlone(call[q])]
  /\ UNCHANGED <<refs, sites, discarded>>

Die(p) ==                 \* the process is killed; nothing holds on to anything
  /\ ~At(p, "idle")
  /\ Answer(p)
  /\ UNCHANGED <<refs, sites, discarded, calls>>

-----------------------------------------------------------------------------
(* lets worktree create.                                                   *)

Want(r) ==                \* the ref looked up, and the branch made when it is not there
  IF r.branch # None THEN [ref |-> r.branch, new |-> r.branch]
                     ELSE [ref |-> OwnRef[r.name], new |-> NewRef[r.name]]

(* The commit an implicit cut starts from: the remote's merge-branch when  *)
(* there is a remote, else the local one.  It is fixed before the cut.     *)
ImplicitBase == IF hasRemote THEN remote[Merge] ELSE work[Merge]

(* ResolveBranch: attach to the branch that is there, or make the new one. *)
Plan(r) ==
  LET w == Want(r)
      attach == w.ref \in exists
  IN  CASE attach /\ r.mode # "new" -> [mode |-> "attached", branch |-> w.ref]
        [] ~attach /\ r.mode # "attach" /\ r.base \in exists \cup {None} ->
             [mode |-> "created", branch |-> w.new]
        [] OTHER -> [mode |-> "refused", branch |-> None]

Resolve(p) ==             \* an implicit base needs a remote that answers, or Merge
  /\ At(p, "resolve")
  /\ LET plan == Plan(Asked(p))
         implicit == Asked(p).base = None
     IN  \/ /\ \/ plan.mode = "refused"
               \/ plan.mode = "created" /\ implicit      \* the fetch failed
            /\ Answer(p)
         \/ /\ plan.mode = "attached"
            /\ To(p, [call[p] EXCEPT !.pc = "precheck", !.branch = plan.branch])
         \/ /\ plan.mode = "created"
            /\ implicit => hasRemote \/ Merge \in exists
            /\ To(p, [call[p] EXCEPT !.pc = "ignore", !.branch = plan.branch,
                                       !.created = TRUE, !.cut = ImplicitBase])
  /\ UNCHANGED <<refs, sites, discarded, calls>>

CleanMain == ~mainDirty   \* ensureCleanTree: no change, and no operation half done

Precheck(p) ==            \* the branch is checked out in the main checkout
  /\ At(p, "precheck")
  /\ \/ /\ mainOn # call[p].branch
        /\ Goto(p, "held")
     \/ /\ mainOn = call[p].branch
        /\ Asked(p).switchMain /\ CleanMain
        /\ To(p, [call[p] EXCEPT !.pc = "switch", !.prev = mainOn])
     \/ /\ mainOn = call[p].branch
        /\ (~Asked(p).switchMain \/ ~CleanMain)
        /\ Answer(p)
  /\ UNCHANGED <<refs, sites, discarded, calls>>

CanSwitch(b) == b \in exists /\ ~HeldBySomeTree(b)

SwitchMain(p) ==          \* git switch <merge>
  /\ At(p, "switch")
  /\ \/ CanSwitch(Merge) /\ mainOn' = Merge /\ Goto(p, "held")
     \/ (~CanSwitch(Merge) \/ mainDirty) /\ mainOn' = mainOn /\ Answer(p)
  /\ UNCHANGED <<refs, mainDirty, tree, task, discarded, calls>>

(* restoreMainBranch: git switch <prev>.  ok and not ok go on differently. *)
RestoreMain(p, restored, stuck) ==
  \/ /\ call[p].prev = None
     /\ restored /\ mainOn' = mainOn
  \/ /\ call[p].prev # None /\ CanSwitch(call[p].prev)
     /\ restored /\ mainOn' = call[p].prev
  \/ /\ call[p].prev # None /\ (~CanSwitch(call[p].prev) \/ mainDirty)
     /\ stuck /\ mainOn' = mainOn

FailLeavesMain(p) ==
  Answer(p) /\ UNCHANGED <<refs, sites, discarded, calls>>

FailBeforeTree(p) ==      \* restoreMainIfSwitched, then the error
  /\ RestoreMain(p, Answer(p), Answer(p))    \* a stuck main is a residual
  /\ UNCHANGED <<refs, mainDirty, tree, task, discarded, calls>>

CheckHeld(p) ==           \* the branch is checked out in another worktree
  /\ At(p, "held")
  /\ \/ Held(call[p].branch) /\ FailBeforeTree(p)
     \/ ~Held(call[p].branch) /\ Goto(p, "ignore")
        /\ UNCHANGED <<refs, sites, discarded, calls>>

EnsureIgnore(p) ==        \* .gitignore entries; the write may fail
  /\ At(p, "ignore")
  /\ \/ FailBeforeTree(p)
     \/ /\ Goto(p, IF call[p].created THEN "cut" ELSE "add")
        /\ UNCHANGED <<refs, sites, discarded, calls>>

(* git worktree add [-b] makes the branch first, as git branch does; then  *)
(* it looks whether the directory and the branch are free.  Either part    *)
(* may fail for reasons of its own, and a post-checkout hook that fails    *)
(* makes git fail with the worktree in place.                              *)
CutBranch(p) ==
  /\ At(p, "cut")
  /\ LET b == call[p].branch
         base == Asked(p).base
     IN  \/ /\ b \notin exists /\ (base = None \/ base \in exists)
            /\ exists' = exists \cup {b}
            /\ work' = [work EXCEPT ![b] = IF base = None THEN call[p].cut ELSE work[base]]
            /\ Goto(p, "add")
            /\ UNCHANGED <<hasRemote, remote, upstream, landed, sites, discarded, calls>>
         \/ FailBeforeTree(p)

NewTree(b) == [branch |-> b, dir |-> TRUE, dirty |-> {}]
CanAdd(p) ==
  /\ tree[Asked(p).name] = None
  /\ call[p].branch \in exists /\ ~Held(call[p].branch)

AddTree(p) ==
  /\ At(p, "add")
  /\ \/ /\ CanAdd(p)
        /\ tree' = [tree EXCEPT ![Asked(p).name] = NewTree(call[p].branch)]
        /\ Goto(p, "link") \/ Goto(p, "fail")
     \/ tree' = tree /\ Goto(p, "fail")
  /\ UNCHANGED <<refs, mainOn, mainDirty, task, discarded, calls>>

FailAdd(p) ==             \* only the main checkout is put back
  At(p, "fail") /\ FailBeforeTree(p)

LinkAndVerify(p) ==       \* .lets, the store links, the excludes, the checks
  /\ At(p, "link")
  /\ \/ /\ tree[Asked(p).name] # None
        /\ tree[Asked(p).name].branch = call[p].branch
        /\ Answer(p)
     \/ Goto(p, "undo_main")
  /\ UNCHANGED <<refs, sites, discarded, calls>>

(* rollback: main first, then the tree, the directory, the branch.         *)
UndoMain(p) ==
  /\ At(p, "undo_main")
  /\ RestoreMain(p, Goto(p, "undo_tree"),
                 To(p, [call[p] EXCEPT !.pc = "undo_tree", !.clean = FALSE]))
  /\ UNCHANGED <<refs, mainDirty, tree, task, discarded, calls>>

UndoTree(p) ==            \* git worktree remove --force; it may fail
  /\ At(p, "undo_tree")
  /\ \/ /\ tree[Asked(p).name] # None
        /\ tree' = [tree EXCEPT ![Asked(p).name] = None]
        /\ To(p, [call[p] EXCEPT !.pc = "undo_dir", !.removed = TRUE])
     \/ /\ tree' = tree
        /\ To(p, [call[p] EXCEPT !.pc = "undo_dir", !.clean = FALSE])
  /\ UNCHANGED <<refs, mainOn, mainDirty, task, discarded, calls>>

UndoDir(p) ==             \* RemoveAll of what is left of the directory
  /\ At(p, "undo_dir")
  /\ LET n == Asked(p).name
     IN  \/ /\ ~HasDir(n)
            /\ tree' = tree
            /\ To(p, [call[p] EXCEPT !.pc = "undo_branch", !.gone = TRUE])
         \/ /\ HasDir(n)
            /\ tree' = [tree EXCEPT ![n] = WithoutDir(@)]
            /\ To(p, [call[p] EXCEPT !.pc = "undo_branch", !.gone = TRUE])
         \/ /\ HasDir(n)
            /\ tree' = tree
            /\ To(p, [call[p] EXCEPT !.pc = "undo_branch", !.clean = FALSE])
  /\ UNCHANGED <<refs, mainOn, mainDirty, task, discarded, calls>>

UndoBranch(p) ==          \* git branch -D, only of a branch this call made
  /\ At(p, "undo_branch")
  /\ LET b == call[p].branch
         asks == call[p].created /\ call[p].removed /\ call[p].gone
     IN  \/ /\ asks /\ b \in exists /\ ~Held(b)
            /\ ForgetBranch(b) /\ Goto(p, "undo_prune")
         \/ /\ asks /\ (b \notin exists \/ Held(b))
            /\ To(p, [call[p] EXCEPT !.pc = "undo_prune", !.clean = FALSE])
            /\ UNCHANGED refs
         \/ ~asks /\ Goto(p, "undo_prune") /\ UNCHANGED refs
  /\ UNCHANGED <<sites, discarded, calls>>

Prune ==
  tree' = [n \in Names |-> IF tree[n] # None /\ ~tree[n].dir THEN None ELSE tree[n]]

UndoPrune(p) ==           \* git worktree prune, and the answer
  /\ At(p, "undo_prune")
  /\ Prune
  /\ Answer(p)             \* residuals are reported when clean is FALSE
  /\ UNCHANGED <<refs, mainOn, mainDirty, task, discarded, calls>>

-----------------------------------------------------------------------------
(* lets worktree remove.                                                   *)

MyTree(p) == tree[Asked(p).name]

(* The branch an already removed worktree may have left: the one named on  *)
(* the command line, then worktree-<name>, then <name>.                    *)
Leftover(r) ==
  LET present == <<r.branch, NewRef[r.name], OwnRef[r.name]>>
      found   == {i \in 1..3 : present[i] \in exists}
  IN  IF found = {} THEN None
      ELSE present[CHOOSE i \in found : \A j \in found : i <= j]

Find(p) ==                \* the tree, its branch re-derived; or what it left behind
  /\ At(p, "find")
  /\ LET r == Asked(p)
     IN  IF MyTree(p) # None
         THEN To(p, [call[p] EXCEPT !.pc = "dirty",
                                     !.branch = IF MyTree(p).dir THEN MyTree(p).branch ELSE None])
         ELSE IF Leftover(r) = None THEN Answer(p)
              ELSE To(p, [call[p] EXCEPT !.pc = "clean", !.branch = Leftover(r),
                                         !.gone = TRUE])
  /\ UNCHANGED <<refs, sites, discarded, calls>>

CheckDirtyNever(p) ==
  /\ At(p, "dirty")
  /\ Goto(p, IF Asked(p).force THEN "drop" ELSE "unpushed")
  /\ UNCHANGED <<refs, sites, discarded, calls>>

CheckDirty(p) ==          \* uncommitted changes refuse without --force
  /\ At(p, "dirty")
  /\ IF /\ MyTree(p) # None /\ MyTree(p).dirty # {}
        /\ ~Asked(p).force
     THEN Answer(p)
     ELSE Goto(p, IF Asked(p).force THEN "drop" ELSE "unpushed")
  /\ UNCHANGED <<refs, sites, discarded, calls>>

CheckUnpushed(p) ==       \* unpushed commits refuse; what cannot be counted does not
  /\ At(p, "unpushed")
  /\ IF call[p].branch # None /\ Unpushed(call[p].branch)
     THEN Answer(p)
     ELSE Goto(p, "drop")
  /\ UNCHANGED <<refs, sites, discarded, calls>>

DropTree(p) ==            \* git worktree remove --force, then prune
  /\ At(p, "drop")
  /\ \/ /\ MyTree(p) = None
        /\ Answer(p)
        /\ UNCHANGED <<tree, discarded>>
     \/ /\ MyTree(p) # None
        /\ tree' = [n \in Names |->
             IF n = Asked(p).name \/ (tree[n] # None /\ ~tree[n].dir)
             THEN None ELSE tree[n]]
        /\ discarded' = IF Asked(p).force THEN discarded \cup MyTree(p).dirty
                                          ELSE discarded
        /\ Goto(p, "clean")
  /\ UNCHANGED <<refs, mainOn, mainDirty, task, calls>>

CleanTaskByName(p) ==
  /\ At(p, "clean")
  /\ task' = task \ {NewRef[Asked(p).name]}
  /\ IF Asked(p).delete /\ call[p].branch # None
     THEN Goto(p, "merged")
     ELSE Answer(p)
  /\ UNCHANGED <<refs, mainOn, mainDirty, tree, discarded, calls>>

CleanTask(p) ==           \* cleanTaskState, by the branch that was found
  /\ At(p, "clean")
  /\ task' = task \ {call[p].branch}
  /\ IF Asked(p).delete /\ call[p].branch # None
     THEN Goto(p, "merged")
     ELSE Answer(p)
  /\ UNCHANGED <<refs, mainOn, mainDirty, tree, discarded, calls>>

(* deleteBranch: -D when forced or merged, else -d.                        *)
MeasureMerged(p) ==
  /\ At(p, "merged")
  /\ To(p, [call[p] EXCEPT !.pc = "delete", !.sure =
                \/ Asked(p).op = "remove" /\ Asked(p).forceBranch
                \/ call[p].branch \in exists /\ MergeHolds(call[p].branch)])
  /\ UNCHANGED <<refs, sites, discarded, calls>>

CanDelete(b, sure) == b \in exists /\ ~Held(b) /\ (sure \/ BranchDMerged(b))

Forced(p) == Asked(p).op = "remove" /\ Asked(p).forceBranch

(* The next branch of a sweep, or the answer.                              *)
AfterDelete(p) ==
  IF call[p].todo = {} THEN Answer(p)
  ELSE \E b \in call[p].todo :
         To(p, [call[p] EXCEPT !.pc = "merged", !.branch = b,
                                    !.todo = @ \ {b}])

DeleteBranch(p) ==
  /\ At(p, "delete")
  /\ LET b == call[p].branch
     IN  \/ /\ CanDelete(b, call[p].sure)
            /\ ForgetBranch(b)
            /\ discarded' = IF Forced(p) THEN discarded \cup work[b] ELSE discarded
         \/ /\ ~CanDelete(b, call[p].sure)
            /\ UNCHANGED <<refs, discarded>>
  /\ AfterDelete(p)
  /\ UNCHANGED <<sites, calls>>

-----------------------------------------------------------------------------
(* lets worktree sweep --apply: every merged branch that is not checked    *)
(* out and did diverge.  (SweepCandidates does not look at upstreams.)     *)

Candidates ==
  {b \in exists \ {Merge} :
     /\ ~Held(b)
     /\ MergeHolds(b)
     /\ hasRemote => work[b] # remote[Merge]
     /\ Merge \in exists => work[b] # work[Merge]}

Sweep(p) ==
  /\ At(p, "list")
  /\ \/ Candidates = {} /\ Answer(p)
     \/ \E b \in Candidates :
          To(p, [call[p] EXCEPT !.pc = "merged", !.branch = b,
                                     !.todo = Candidates \ {b}])
  /\ UNCHANGED <<refs, sites, discarded, calls>>

-----------------------------------------------------------------------------
(* People: they edit, commit, push, merge, delete remote branches, record  *)
(* tasks, switch the main checkout and remove directories by hand.         *)

Made == Uncommitted \cup (UNION {work[b] : b \in Branches}) \cup OnRemotes
          \cup landed \cup discarded

(* Nobody works on what a running call works on.                           *)
Busy == {p \in Callers : ~At(p, "idle")}
TreeFree(n) == Considerate =>
  ~\E p \in Busy : Asked(p).op # "sweep" /\ Asked(p).name = n
BranchFree(b) == Considerate => ~\E p \in Busy : call[p].branch = b
MainFree == Considerate => ~\E p \in Busy : Asked(p).op = "create"

Edit(n, w) ==
  /\ HasDir(n) /\ TreeFree(n)
  /\ w \notin Made
  /\ tree' = [tree EXCEPT ![n].dirty = @ \cup {w}]
  /\ UNCHANGED <<refs, mainOn, mainDirty, task, discarded, call, calls>>

Commit(n) ==
  /\ HasDir(n) /\ TreeFree(n) /\ tree[n].dirty # {}
  /\ BranchFree(tree[n].branch)
  /\ work' = [work EXCEPT ![tree[n].branch] = @ \cup tree[n].dirty]
  /\ tree' = [tree EXCEPT ![n].dirty = {}]
  /\ UNCHANGED <<hasRemote, exists, remote, upstream, landed, mainOn, mainDirty,
                 task, discarded, call, calls>>

CommitInMain(w) ==
  /\ ~mainDirty /\ MainFree /\ BranchFree(mainOn) /\ w \notin Made
  /\ work' = [work EXCEPT ![mainOn] = @ \cup {w}]
  /\ UNCHANGED <<hasRemote, exists, remote, upstream, landed, sites, discarded,
                 call, calls>>

Push(b) ==
  /\ hasRemote /\ b \in exists /\ remote[b] \subseteq work[b]
  /\ remote' = [remote EXCEPT ![b] = work[b]]
  /\ upstream' = [upstream EXCEPT ![b] = "live"]
  /\ UNCHANGED <<hasRemote, exists, work, landed, sites, discarded, call, calls>>

MergeRemote(b) ==         \* a pull request is merged, the merge fetched
  /\ hasRemote /\ b # Merge /\ ~(remote[b] \subseteq remote[Merge])
  /\ remote' = [remote EXCEPT ![Merge] = @ \cup remote[b]]
  /\ UNCHANGED <<hasRemote, exists, work, upstream, landed, sites, discarded,
                 call, calls>>

SquashRemote(b) ==        \* squash-merged, its remote branch deleted and pruned
  /\ hasRemote /\ b # Merge /\ upstream[b] = "live"
  /\ landed' = landed \cup remote[b]
  /\ remote' = [remote EXCEPT ![b] = {}]
  /\ upstream' = [upstream EXCEPT ![b] = "gone"]
  /\ UNCHANGED <<hasRemote, exists, work, sites, discarded, call, calls>>

RecordTask(b) ==
  /\ b \in exists \ task /\ Held(b) /\ BranchFree(b)
  /\ Cardinality(task) < MaxTasks
  /\ task' = task \cup {b}
  /\ UNCHANGED <<refs, mainOn, mainDirty, tree, discarded, call, calls>>

PersonSwitchesMain(b) ==
  /\ MainFree /\ ~mainDirty /\ mainOn # b /\ CanSwitch(b)
  /\ BranchFree(mainOn) /\ BranchFree(b)
  /\ mainOn' = b
  /\ UNCHANGED <<refs, mainDirty, tree, task, discarded, call, calls>>

RemoveByHand(n) ==        \* rm -rf of the directory; git still has it registered
  /\ HasDir(n) /\ TreeFree(n)
  /\ tree' = [tree EXCEPT ![n] = WithoutDir(@)]
  /\ discarded' = discarded \cup tree[n].dirty
  /\ UNCHANGED <<refs, mainOn, mainDirty, task, call, calls>>

-----------------------------------------------------------------------------
Init ==
  /\ hasRemote \in BOOLEAN
  /\ exists = {Merge} \/ \E b \in Branches : exists = {Merge, b}
  /\ work = [b \in Branches |-> {}]
  /\ remote = [b \in Branches |-> {}]
  /\ upstream = [b \in Branches |-> "none"]
  /\ landed = {} /\ discarded = {}
  /\ mainOn = Merge /\ mainDirty \in BOOLEAN
  /\ tree = [n \in Names |-> None]
  /\ task = {}
  /\ call = [p \in Callers |-> Idle]
  /\ calls = 0

Create(p) ==
  \/ Resolve(p) \/ Precheck(p) \/ SwitchMain(p) \/ CheckHeld(p) \/ EnsureIgnore(p)
  \/ CutBranch(p) \/ AddTree(p) \/ FailAdd(p) \/ LinkAndVerify(p)
  \/ UndoMain(p) \/ UndoTree(p) \/ UndoDir(p) \/ UndoBranch(p) \/ UndoPrune(p)

Remove(p) ==
  \/ Find(p) \/ CheckDirty(p) \/ CheckUnpushed(p) \/ DropTree(p) \/ CleanTask(p)
  \/ MeasureMerged(p) \/ DeleteBranch(p)

(* Bound: people stop when the last call has ended.                        *)
People ==
  /\ ~(calls = MaxCalls /\ Busy = {})
  /\ \/ \E n \in Names : Commit(n) \/ RemoveByHand(n) \/ \E w \in Work : Edit(n, w)
     \/ \E w \in Work : CommitInMain(w)
     \/ \E b \in Branches : \/ Push(b) \/ MergeRemote(b) \/ SquashRemote(b)
                            \/ RecordTask(b) \/ PersonSwitchesMain(b)

Next ==
  \/ \E p \in Callers : Begin(p) \/ Create(p) \/ Remove(p) \/ Sweep(p) \/ Die(p)
  \/ People

Spec == Init /\ [][Next]_vars

-----------------------------------------------------------------------------
(* Every piece of work a person made is in a tree, on a branch, on the     *)
(* remote or merged there, unless a person asked to throw it away: neither *)
(* remove nor sweep nor the rollback of create is the end of anything.     *)
Kept == Uncommitted \cup (UNION {work[b] : b \in Branches}) \cup OnRemotes
          \cup landed \cup discarded
WorkKept == [][Kept \subseteq Kept']_vars

(* The step in which a create gives up: before there is a tree, or at the  *)
(* end of a rollback that reports nothing left over.                       *)
GivesUp(p) ==
  \/ UndoPrune(p) /\ call[p].clean
  \/ (CheckHeld(p) \/ EnsureIgnore(p) \/ CutBranch(p) \/ FailAdd(p)) /\ call'[p].pc = "idle"

(* A create that gives up leaves the branches, its worktree name and the   *)
(* main checkout as it found them.  When git worktree add failed after it  *)
(* had begun, create takes nothing of that back: what stays is at most the *)
(* branch it was to make, and a clean worktree of its branch, and only     *)
(* that worktree keeps the main checkout from going back.                  *)
FailedCreateUndone ==
  [][\A p \in Callers :
       call[p].alone /\ ~mainDirty /\ GivesUp(p) =>
         LET was  == call[p].before
             b    == call[p].branch
             mine == tree'[Asked(p).name]
             half == At(p, "fail")
             put  == half /\ was.tree = None /\ mine = NewTree(b)
         IN  /\ \/ exists' = was.had
                \/ half /\ call[p].created /\ exists' = was.had \cup {b}
             /\ mine = was.tree \/ put
             /\ mainOn' = was.main \/ (put /\ b = was.main)]_vars

(* A task-state file is removed only when no checkout has its branch any   *)
(* more: remove keys it by the branch the worktree had, not by its name.   *)
TaskGoesWithTree ==
  [][\A b \in task \ task' :
       \/ ~Held(b)
       \/ \E p \in Callers : At(p, "clean") /\ (call[p].gone \/ ~call[p].alone)]_vars

=============================================================================
