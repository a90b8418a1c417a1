------------------------------ MODULE Integrate ------------------------------
(***************************************************************************)
(* lets integrate: one chunk of an implementer's branch lands in the       *)
(* caller's tree as a staged patch, and is taken out again with --revert.  *)
(* The commits are picked in a temporary worktree whose path is named by   *)
(* run and chunk.  Before an old one is deleted it is proved ours: a       *)
(* marker beside it and a nonce in its own admin directory must match.     *)
(*                                                                         *)
(* One tree, one run and chunk, any number of calls, one at a time by the  *)
(* tree's lock; calls die anywhere; a person edits the tree and may have   *)
(* something of his own at the temporary path.  Each git command is one    *)
(* step, except worktree add, which can die half way.                      *)
(*                                                                         *)
(* A file has regions, each far enough from the next to be a hunk of its   *)
(* own.  A commit of the chunk gives one region another content; picking   *)
(* it succeeds on the old content, is dropped as empty on the new one, and *)
(* conflicts on any other.                                                 *)
(***************************************************************************)
EXTENDS Naturals

CONSTANTS
  None,
  Revert,      \* the request of a call with --revert
  Callers,     \* processes that run lets integrate
  Regions,     \* the regions of the repository's files
  FileOf,      \* the file a region is in
  Contents,    \* what a region may hold
  Typed,       \* what a person puts there
  Chunks,      \* the ranges since..from that are asked for
  Starts,      \* the trees that are checked out at first
  MaxEdits,    \* bound on the person's changes
  MaxNonce     \* bound on the temporary worktrees ever made

Tree  == [Regions -> Contents]
Delta == UNION {[S -> [old: Contents, new: Contents]] : S \in SUBSET Regions}

ASSUME NoneIsNoCaller     == None \notin Callers
ASSUME RequestsDiffer     == None \notin Delta /\ Revert \notin Delta /\ None # Revert
ASSUME ChunksAreDeltas    == Chunks \subseteq Delta \ {<<>>}
ASSUME StartsAreTrees     == Starts \subseteq Tree
ASSUME TypedAreContents   == Typed \subseteq Contents
ASSUME BoundsAreNumbers   == MaxEdits \in Nat /\ MaxNonce \in Nat
ASSUME NoneIsNoNonce      == None \notin Nat

VARIABLES
  head, index, work,  \* the caller's tree: committed, staged, on disk
  lock,               \* who holds integrate.lock, or None
  marker,             \* nonce of the owner marker, or None
  admin,              \* the registration of the temporary worktree, or None
  dir,                \* what is at its path: None, "worktree" or "plain"
  tree,               \* the tree of its HEAD, None without a worktree
  patch,              \* the patch file, or None
  pc, call, loc, res, \* per call: step, arguments, locals, answer
  minted, edits       \* how many nonces and edits there were

treeVars == <<head, index, work>>
tempVars == <<marker, admin, dir, tree>>
vars == <<head, index, work, lock, marker, admin, dir, tree, patch,
          pc, call, loc, res, minted, edits>>

Registration == [nonce: (1..MaxNonce) \cup {None}, by: {"lets", "user"}]
ASSUME NoneIsNoTree == None \notin Tree /\ None \notin Registration
                       /\ None \notin {"worktree", "plain"}

Locals == [base: Tree \cup {None}, goal: Tree \cup {None},
           nonce: 0..MaxNonce, next: {"mark", "unlock"},
           same: BOOLEAN,   \* what the first of the two looks of a verify found
         quiet: BOOLEAN]  \* history: no person's change since the call last looked at
                          \* the index, for a verify or before a revert
Fresh  == [base |-> None, goal |-> None, nonce |-> 0, next |-> "unlock", same |-> FALSE,
           quiet |-> FALSE]
Calls  == Chunks \cup {None, Revert}  \* None: a range that is refused, or empty

(* The range, picked onto a tree.                                          *)
Conflicts(t, d) == \E p \in DOMAIN d : t[p] \notin {d[p].old, d[p].new}
Replayed(t, d)  == [p \in Regions |-> IF p \in DOMAIN d THEN d[p].new ELSE t[p]]
Diff(t, u)      == [p \in {q \in Regions : t[q] # u[q]} |-> [old |-> t[p], new |-> u[p]]]

(* git apply [-R] --index, all or nothing: index and worktree agree on     *)
(* each file of the patch, and its hunks find their context.               *)
FilesOf(d)   == {p \in Regions : \E q \in DOMAIN d : FileOf[p] = FileOf[q]}
Unedited(d)  == \A p \in FilesOf(d) : work[p] = index[p]
Fits(d)      == Unedited(d) /\ \A p \in DOMAIN d : index[p] = d[p].old
Reverses(d)  == Unedited(d) /\ \A p \in DOMAIN d : index[p] = d[p].new
Put(d, side) ==
  /\ index' = [p \in Regions |-> IF p \in DOMAIN d THEN d[p][side] ELSE index[p]]
  /\ work'  = [p \in Regions |-> IF p \in DOMAIN d THEN d[p][side] ELSE work[p]]
  /\ UNCHANGED head

-----------------------------------------------------------------------------

Init ==
  /\ head \in Starts
  /\ index = head /\ work = head /\ tree = None
  /\ lock = None /\ marker = None /\ admin = None /\ dir = None /\ patch = None
  /\ pc   = [c \in Callers |-> "idle"]
  /\ call = [c \in Callers |-> None]
  /\ loc  = [c \in Callers |-> Fresh]
  /\ res  = [c \in Callers |-> None]
  /\ minted = 0 /\ edits = 0

At(c, step)    == pc[c] = step
Goto(c, step)  == pc' = [pc EXCEPT ![c] = step]
Answer(c, why) == res' = [res EXCEPT ![c] = why]
Quit(c, why)   == Answer(c, why) /\ Goto(c, "unlock") /\ loc' = [loc EXCEPT ![c] = Fresh]
(* The deferred removal of the call's own temporary worktree.              *)
Leave(c, why)  == Answer(c, why) /\ Goto(c, "prove") /\ loc' = [loc EXCEPT ![c] = Fresh]
On(c, step)    == Goto(c, step) /\ UNCHANGED <<loc, res>>
Noted(c, step, l) == Goto(c, step) /\ loc' = [loc EXCEPT ![c] = l] /\ UNCHANGED res

Begin(c, r) ==
  /\ At(c, "idle")
  /\ r = Revert => patch # None
  /\ call' = [call EXCEPT ![c] = r]
  /\ On(c, "lock")
  /\ UNCHANGED <<treeVars, lock, tempVars, patch, minted, edits>>

(* Deviation: the call goes on without the lock.                           *)
Barge(c) ==
  /\ At(c, "lock")
  /\ lock' = c
  /\ On(c, IF call[c] = Revert THEN "rtree" ELSE "check")
  /\ UNCHANGED <<treeVars, tempVars, patch, call, minted, edits>>

Acquire(c) ==
  /\ At(c, "lock") /\ lock = None
  /\ lock' = c
  /\ On(c, IF call[c] = Revert THEN "rtree" ELSE "check")
  /\ UNCHANGED <<treeVars, tempVars, patch, call, minted, edits>>

Forget(c) ==
  /\ Goto(c, "idle")
  /\ call' = [call EXCEPT ![c] = None]
  /\ loc'  = [loc EXCEPT ![c] = Fresh]
  /\ res'  = [res EXCEPT ![c] = None]

(* Deviation: the wait has no deadline.                                    *)
Wait(c) == FALSE /\ UNCHANGED vars

GiveUp(c) ==
  /\ At(c, "lock") /\ lock # None
  /\ Forget(c)
  /\ UNCHANGED <<treeVars, lock, tempVars, patch, minted, edits>>

Unlock(c) ==
  /\ At(c, "unlock")
  /\ lock' = None
  /\ Forget(c)
  /\ UNCHANGED <<treeVars, tempVars, patch, minted, edits>>

-----------------------------------------------------------------------------
(* Run: the preconditions and the temporary worktree.                      *)

Check(c) ==
  /\ At(c, "check")
  /\ IF index = head /\ work = head THEN On(c, "range") ELSE Quit(c, "dirty_tree")
  /\ UNCHANGED <<treeVars, lock, tempVars, patch, call, minted, edits>>

Range(c) ==
  /\ At(c, "range")
  /\ \/ call[c] = None /\ \E why \in {"range_refused", "nothing"} : Quit(c, why)
     \/ call[c] # None /\ Noted(c, "stale", [loc[c] EXCEPT !.base = head])
  /\ UNCHANGED <<treeVars, lock, tempVars, patch, call, minted, edits>>

(* Deviation: a marker is stale as soon as the directory is gone.          *)
StaleByDirectory(c) ==
  /\ At(c, "stale") /\ dir = None
  /\ marker' = None
  /\ IF admin = None THEN On(c, "mark") ELSE Quit(c, "temp_foreign")
  /\ UNCHANGED <<treeVars, lock, admin, dir, tree, patch, call, minted, edits>>

(* clearStale: nothing is left but perhaps a marker.                       *)
StaleMarker(c) ==
  /\ At(c, "stale") /\ dir = None /\ admin = None
  /\ marker' = None
  /\ On(c, "mark")
  /\ UNCHANGED <<treeVars, lock, admin, dir, tree, patch, call, minted, edits>>

(* A registration without its directory goes only when it holds the nonce. *)
StaleRegistration(c) ==
  /\ At(c, "stale") /\ dir = None /\ admin # None
  /\ IF marker # None /\ admin.nonce = marker
     THEN admin' = None /\ Noted(c, "unmark", [loc[c] EXCEPT !.next = "mark"])
     ELSE Quit(c, "temp_foreign") /\ UNCHANGED admin
  /\ UNCHANGED <<treeVars, lock, marker, dir, tree, patch, call, minted, edits>>

StaleOccupant(c) ==
  /\ At(c, "stale") /\ dir # None
  /\ Noted(c, "prove", [loc[c] EXCEPT !.next = "mark"])
  /\ UNCHANGED <<treeVars, lock, tempVars, patch, call, minted, edits>>

Refused(c, why) ==
  Goto(c, "unlock") /\ UNCHANGED loc
    /\ IF loc[c].next = "mark" THEN Answer(c, why) ELSE UNCHANGED res

(* Deviation: the marker alone proves the worktree ours.                   *)
ProveByMarker(c) ==
  /\ At(c, "prove")
  /\ IF marker # None /\ admin # None THEN On(c, "remove") ELSE Refused(c, "temp_foreign")
  /\ UNCHANGED <<treeVars, lock, tempVars, patch, call, minted, edits>>

(* removeOwned: marker, registration and nonce agree, or nothing is        *)
(* touched; after a finished run that is a warning, before one a refusal.  *)
Prove(c) ==
  /\ At(c, "prove")
  /\ IF marker # None /\ admin # None /\ dir = "worktree" /\ admin.nonce = marker
     THEN On(c, "remove")
     ELSE Refused(c, "temp_foreign")
  /\ UNCHANGED <<treeVars, lock, tempVars, patch, call, minted, edits>>

Remove(c) ==
  /\ At(c, "remove")
  /\ dir' = None /\ admin' = None /\ tree' = None
  /\ On(c, "unmark")
  /\ UNCHANGED <<treeVars, lock, marker, patch, call, minted, edits>>

RemoveFails(c) ==
  /\ At(c, "remove")
  /\ Refused(c, "git_error")
  /\ UNCHANGED <<treeVars, lock, tempVars, patch, call, minted, edits>>

Unmark(c) ==
  /\ At(c, "unmark")
  /\ marker' = None
  /\ On(c, loc[c].next)
  /\ UNCHANGED <<treeVars, lock, admin, dir, tree, patch, call, minted, edits>>

Mark(c) ==
  /\ At(c, "mark")
  /\ IF minted < MaxNonce
     THEN /\ minted' = minted + 1
          /\ marker' = minted + 1
          /\ Noted(c, "add", [loc[c] EXCEPT !.nonce = minted + 1])
     ELSE Quit(c, "bound") /\ UNCHANGED <<minted, marker>>
  /\ UNCHANGED <<treeVars, lock, admin, dir, tree, patch, call, edits>>

Add(c) ==
  /\ At(c, "add") /\ dir = None /\ admin = None
  /\ dir' = "worktree"
  /\ admin' = [nonce |-> None, by |-> "lets"]
  /\ tree' = loc[c].base
  /\ On(c, "sign")
  /\ UNCHANGED <<treeVars, lock, marker, patch, call, minted, edits>>

(* worktree add fails, on an occupied path or of itself: the marker goes.  *)
AddFails(c) ==
  /\ At(c, "add")
  /\ marker' = None
  /\ Quit(c, "git_error")
  /\ UNCHANGED <<treeVars, lock, admin, dir, tree, patch, call, minted, edits>>

Sign(c) ==
  /\ At(c, "sign")
  /\ admin' = [admin EXCEPT !.nonce = loc[c].nonce]
  /\ On(c, "pick")
  /\ UNCHANGED <<treeVars, lock, marker, dir, tree, patch, call, minted, edits>>

(* Not yet provable, but just added by this call: removed directly, and if *)
(* that fails too, nobody is told.                                         *)
SignFails(c) ==
  /\ At(c, "sign")
  /\ \/ dir' = None /\ admin' = None /\ tree' = None
     \/ UNCHANGED <<dir, admin, tree>>
  /\ marker' = None
  /\ Quit(c, "io_error")
  /\ UNCHANGED <<treeVars, lock, patch, call, minted, edits>>

-----------------------------------------------------------------------------
(* Run: pick, apply, verify.                                               *)

Pick(c) ==
  /\ At(c, "pick") /\ dir = "worktree"
  /\ \/ Conflicts(tree, call[c]) /\ Leave(c, "conflict") /\ UNCHANGED tree
     \/ Replayed(tree, call[c]) = tree /\ Leave(c, "nothing") /\ UNCHANGED tree
     \/ /\ ~Conflicts(tree, call[c]) /\ Replayed(tree, call[c]) # tree
        /\ tree' = Replayed(tree, call[c])
        /\ Noted(c, "diff", [loc[c] EXCEPT !.goal = tree'])
  /\ UNCHANGED <<treeVars, lock, marker, admin, dir, patch, call, minted, edits>>

WritePatch(c) ==
  /\ At(c, "diff")
  /\ patch' = Diff(loc[c].base, loc[c].goal)
  /\ On(c, "apply")
  /\ UNCHANGED <<treeVars, lock, tempVars, call, minted, edits>>

(* A git command or a write fails before the tree is touched.              *)
StepFails(c) ==
  /\ pc[c] \in {"pick", "diff"}
  /\ Leave(c, "error")
  /\ UNCHANGED <<treeVars, lock, tempVars, patch, call, minted, edits>>

Apply(c) ==
  /\ At(c, "apply")
  /\ \/ Fits(patch) /\ Put(patch, "new") /\ On(c, "verify")
     \/ Leave(c, "git_error") /\ UNCHANGED treeVars
  /\ UNCHANGED <<lock, tempVars, patch, call, minted, edits>>

(* One of the two looks of a verify, which do not exclude the person in    *)
(* between.  A git diff that fails counts as a difference.                 *)
Look(c, step, equal) ==
  \E same \in {equal, FALSE} :
    Noted(c, step, [loc[c] EXCEPT !.same = same, !.quiet = TRUE])

(* Deviation: whatever is staged was applied.                              *)
VerifyNothing(c) ==
  /\ At(c, "verify")
  /\ Look(c, "verify_work", TRUE)
  /\ UNCHANGED <<treeVars, lock, tempVars, patch, call, minted, edits>>

Verify(c) ==
  /\ At(c, "verify")
  /\ Look(c, "verify_work", index = loc[c].goal)
  /\ UNCHANGED <<treeVars, lock, tempVars, patch, call, minted, edits>>

VerifyWork(c) ==
  /\ At(c, "verify_work")
  /\ \/ loc[c].same /\ work = index /\ Leave(c, "ok")
     \/ On(c, "undo")
  /\ UNCHANGED <<treeVars, lock, tempVars, patch, call, minted, edits>>

(* Deviation: the patch is taken out with reset --hard.                    *)
UndoHard(c) ==
  /\ At(c, "undo")
  /\ index' = head /\ work' = head /\ UNCHANGED head
  /\ Leave(c, "verify_mismatch")
  /\ UNCHANGED <<lock, tempVars, patch, call, minted, edits>>

Undo(c) ==
  /\ At(c, "undo")
  /\ \/ Reverses(patch) /\ Put(patch, "old") /\ Leave(c, "verify_mismatch")
     \/ Leave(c, "reverse_failed") /\ UNCHANGED treeVars
  /\ UNCHANGED <<lock, tempVars, patch, call, minted, edits>>

-----------------------------------------------------------------------------
(* Revert.                                                                 *)

RevertTree(c) ==
  /\ At(c, "rtree")
  /\ \/ DOMAIN patch = {} /\ Quit(c, "nothing")
     \/ DOMAIN patch # {} /\ ~Unedited(patch) /\ Quit(c, "revert_index_differs")
     \/ DOMAIN patch # {} /\ Unedited(patch) /\ On(c, "rstaged")
  /\ UNCHANGED <<treeVars, lock, tempVars, patch, call, minted, edits>>

Staged(d) == \E p \in FilesOf(d) : index[p] # head[p]
ToCheck(c) == Noted(c, "rcheck", [loc[c] EXCEPT !.quiet = TRUE])

(* Deviation: a committed chunk passes too.                                *)
RevertAnyway(c) ==
  /\ At(c, "rstaged")
  /\ ToCheck(c)
  /\ UNCHANGED <<treeVars, lock, tempVars, patch, call, minted, edits>>

RevertStaged(c) ==
  /\ At(c, "rstaged")
  /\ IF Staged(patch) THEN ToCheck(c) ELSE Quit(c, "revert_nothing_staged")
  /\ UNCHANGED <<treeVars, lock, tempVars, patch, call, minted, edits>>

RevertCheck(c) ==
  /\ At(c, "rcheck")
  /\ IF Reverses(patch) THEN On(c, "rapply") ELSE Quit(c, "revert_conflicting_edit")
  /\ UNCHANGED <<treeVars, lock, tempVars, patch, call, minted, edits>>

RevertApply(c) ==
  /\ At(c, "rapply")
  /\ \/ Reverses(patch) /\ Put(patch, "old") /\ On(c, "rverify")
     \/ Quit(c, "git_error") /\ UNCHANGED treeVars
  /\ UNCHANGED <<lock, tempVars, patch, call, minted, edits>>

RevertVerify(c) ==
  /\ At(c, "rverify")
  /\ \E same \in {~Staged(patch), FALSE} :
       Noted(c, "rverify_work", [loc[c] EXCEPT !.same = same])
  /\ UNCHANGED <<treeVars, lock, tempVars, patch, call, minted, edits>>

RevertVerifyWork(c) ==
  /\ At(c, "rverify_work")
  /\ \/ /\ loc[c].same /\ \A p \in FilesOf(patch) : work[p] = head[p]
        /\ Quit(c, "ok")
     \/ Quit(c, "revert_verify_mismatch")
  /\ UNCHANGED <<treeVars, lock, tempVars, patch, call, minted, edits>>

(* git fails before the tree is touched.                                   *)
RevertFails(c) ==
  /\ pc[c] \in {"rtree", "rstaged", "rcheck"}
  /\ Quit(c, "git_error")
  /\ UNCHANGED <<treeVars, lock, tempVars, patch, call, minted, edits>>

-----------------------------------------------------------------------------
(* Crashes, and the person.                                                *)

(* The kernel frees the lock; worktree add may have registered already.    *)
Crash(c) ==
  /\ ~At(c, "idle")
  /\ lock' = IF lock = c THEN None ELSE lock
  /\ Forget(c)
  /\ \/ UNCHANGED admin
     \/ /\ At(c, "add") /\ dir = None /\ admin = None
        /\ admin' = [nonce |-> None, by |-> "lets"]
  /\ UNCHANGED <<treeVars, marker, dir, tree, patch, minted, edits>>

Alone == \A c \in Callers : At(c, "idle")

Person ==
  /\ edits < MaxEdits /\ edits' = edits + 1
  /\ loc' = [c \in Callers |-> [loc[c] EXCEPT !.quiet = FALSE]]

(* A region gets another content, staged at once or not.                   *)
Edit ==
  /\ Person
  /\ \E p \in Regions, v \in Typed :
       /\ work[p] # v /\ work' = [work EXCEPT ![p] = v]
       /\ index' \in {index, [index EXCEPT ![p] = v]}
  /\ UNCHANGED <<head, lock, tempVars, patch, pc, call, res, minted>>

Commit ==
  /\ Person
  /\ head # index /\ head' = index
  /\ UNCHANGED <<index, work, lock, tempVars, patch, pc, call, res, minted>>

(* Something of the person's own at the path, whenever it is free.         *)
Occupy ==
  /\ dir = None
  /\ \/ dir' = "plain" /\ UNCHANGED <<admin, tree>>
     \/ /\ admin = None
        /\ dir' = "worktree" /\ admin' = [nonce |-> None, by |-> "user"] /\ tree' = head
  /\ UNCHANGED <<treeVars, lock, marker, patch, pc, call, loc, res, minted, edits>>

(* The person cleans up between calls, with rm -r or git worktree remove;  *)
(* during one, the worktree stays where it was added.                      *)
CleanUp ==
  /\ dir # None /\ Alone
  /\ dir' = None /\ tree' = None
  /\ admin' \in {admin} \cup (IF dir = "worktree" THEN {None} ELSE {})
  /\ UNCHANGED <<treeVars, lock, marker, patch, pc, call, loc, res, minted, edits>>

-----------------------------------------------------------------------------

Progress(c) ==
  \/ Acquire(c) \/ GiveUp(c) \/ Unlock(c)
  \/ Check(c) \/ Range(c) \/ StaleMarker(c) \/ StaleRegistration(c) \/ StaleOccupant(c)
  \/ Prove(c) \/ Remove(c) \/ Unmark(c) \/ Mark(c) \/ Add(c) \/ AddFails(c) \/ Sign(c)
  \/ Pick(c) \/ WritePatch(c) \/ Apply(c) \/ Verify(c) \/ VerifyWork(c) \/ Undo(c)
  \/ RevertTree(c) \/ RevertStaged(c) \/ RevertCheck(c) \/ RevertApply(c)
  \/ RevertVerify(c) \/ RevertVerifyWork(c)

Failure(c) == RemoveFails(c) \/ SignFails(c) \/ StepFails(c) \/ RevertFails(c) \/ Crash(c)

Next ==
  \/ \E c \in Callers : (\E r \in Calls : Begin(c, r)) \/ Progress(c) \/ Failure(c)
  \/ Edit \/ Commit \/ Occupy \/ CleanUp

(* A started process keeps running until it returns or dies.               *)
Fairness == \A c \in Callers : WF_vars(Progress(c))

Spec == Init /\ [][Next]_vars /\ Fairness

-----------------------------------------------------------------------------

Steps == {"idle", "lock", "check", "range", "stale", "prove", "remove", "unmark", "mark", "add",
          "sign", "pick", "diff", "apply", "verify", "verify_work", "undo", "unlock",
          "rtree", "rstaged", "rcheck", "rapply", "rverify", "rverify_work"}

Answers == {"ok", "nothing", "dirty_tree", "range_refused", "temp_foreign", "git_error",
            "io_error", "error", "conflict", "verify_mismatch", "reverse_failed", "bound",
            "revert_index_differs", "revert_nothing_staged", "revert_conflicting_edit",
            "revert_verify_mismatch"}

IntegrateTypeOK ==
  /\ head \in Tree /\ index \in Tree /\ work \in Tree
  /\ tree \in Tree \cup {None} /\ (dir = "worktree" <=> tree # None)
  /\ lock \in Callers \cup {None}
  /\ marker \in (1..MaxNonce) \cup {None}
  /\ admin \in Registration \cup {None}
  /\ dir \in {None, "worktree", "plain"}
  /\ patch \in Delta \cup {None}
  /\ pc \in [Callers -> Steps]
  /\ call \in [Callers -> Calls]
  /\ loc \in [Callers -> Locals]
  /\ res \in [Callers -> Answers \cup {None}]
  /\ minted \in 0..MaxNonce /\ edits \in 0..MaxEdits

(* "ok" means: at the looks that grant it, index and worktree are the tree *)
(* the call found plus exactly the range it was asked for - not another    *)
(* call's, not a person's edit made meanwhile, unless one is staged        *)
(* between the two looks.                                                  *)
OkIsExact ==
  [][\A c \in Callers : At(c, "verify_work") /\ pc'[c] = "prove" =>
       /\ work = index
       /\ loc[c].quiet => index = Replayed(loc[c].base, call[c])]_vars

(* No call ever overwrites the only copy of an edit: what it replaces in   *)
(* the person's tree is what the patch says was there ("never through      *)
(* reset --hard").                                                         *)
UserWorkKept ==
  [][pc' # pc => \A p \in Regions :
       <<index[p], work[p]>> # <<index'[p], work'[p]>> =>
         /\ p \in DOMAIN patch
         /\ index[p] = work[p] /\ work[p] \in {patch[p].old, patch[p].new}]_vars

(* What the person put at the temporary path is never removed or changed,  *)
(* whatever an earlier call that died there has left behind.               *)
ForeignKept ==
  [][pc' # pc =>
       /\ dir = "plain" => dir' = dir
       /\ admin # None /\ admin.by = "user" => admin' = admin /\ dir' = dir]_vars

(* What a call signed and left behind, dying anywhere, stays provable: no  *)
(* later call can lose the marker that lets it be cleaned up.              *)
LeftoverProvable ==
  admin # None /\ admin.by = "lets" /\ admin.nonce # None => admin.nonce = marker

(* A chunk that was committed when the call looked at HEAD is taken out    *)
(* beside another staged change in its files at most, and then the answer  *)
(* is not "ok".                                                            *)
CommittedChunkStays ==
  [][\A c \in Callers : loc[c].quiet =>
       /\ At(c, "rapply") /\ index' # index =>
            \/ \E p \in DOMAIN patch : head[p] # patch[p].new
            \/ \E p \in FilesOf(patch) \ DOMAIN patch : index[p] # head[p]
       /\ At(c, "rverify_work") /\ pc'[c] = "unlock" /\ res'[c] = "ok" =>
            \A p \in DOMAIN patch : head[p] # patch[p].new]_vars

(* Every call comes back, or its process dies.                             *)
EveryCallEnds == \A c \in Callers : ~At(c, "idle") ~> At(c, "idle")

=============================================================================
