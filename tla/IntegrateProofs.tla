--------------------------- MODULE IntegrateProofs ---------------------------
(***************************************************************************)
(* What lets integrate keeps for any trees, chunks and number of calls: ok *)
(* is exact, the only copy of an edit is never overwritten, and of what is *)
(* at the temporary path a call removes its own and nothing else, and can  *)
(* always tell.                                                            *)
(*                                                                         *)
(* The invariant says what the call that has the lock may rely on at each  *)
(* step; the others are outside and rely on nothing.                       *)
(***************************************************************************)
EXTENDS Integrate, TLAPS

Outside  == {"idle", "lock"}
Clearing == {"prove", "remove", "unmark"}
Replaced == {"diff", "apply", "verify", "verify_work", "undo"}
Building == {"stale", "mark", "add", "sign", "pick"} \cup Replaced
Undoing  == {"rtree", "rstaged", "rcheck", "rapply", "rverify", "rverify_work"}

Unsigned == admin # None => admin.nonce = None

(* On its way to land a chunk, clearing what an earlier call left included.*)
Landing(c) == pc[c] \in Building \/ (pc[c] \in Clearing /\ loc[c].next = "mark")

(* The index has what the patch found.                                     *)
TakenOut == \A p \in DOMAIN patch : index[p] = patch[p].old

Own(c) ==
  /\ pc[c] \notin Outside => lock = c
  /\ pc[c] \in {"check", "range"} => call[c] # Revert
  /\ Landing(c) => call[c] \in Chunks /\ loc[c].base \in Tree
  /\ pc[c] \in {"unmark", "mark", "add"} => Unsigned
  /\ pc[c] \in {"add", "sign"} => loc[c].nonce # 0 /\ marker = loc[c].nonce
  /\ pc[c] = "remove" => dir = "worktree" /\ admin # None /\ admin.by = "lets"
  /\ pc[c] = "sign" => admin # None /\ admin.nonce = None /\ admin.by = "lets"
  /\ pc[c] \in {"sign", "pick"} => dir = "worktree" /\ tree = loc[c].base
  /\ pc[c] \in Replaced => loc[c].goal = Replayed(loc[c].base, call[c])
  /\ pc[c] \in {"apply", "verify", "verify_work", "undo"} \cup Undoing => patch # None
  /\ call[c] = Revert => patch # None
  /\ loc[c].quiet =>
       /\ pc[c] = "verify_work" /\ loc[c].same => index = loc[c].goal
       /\ pc[c] \in {"rcheck", "rapply"} => Staged(patch)
       /\ pc[c] = "rapply" => Reverses(patch)
       /\ pc[c] \in {"rverify", "rverify_work"} => TakenOut
       /\ pc[c] = "rverify_work" /\ loc[c].same => ~Staged(patch)

(* Nobody else signs a worktree.                                           *)
ForeignUnsigned == admin # None /\ admin.by = "user" => admin.nonce = None

(* A patch changes what it names.                                          *)
PatchChanges == patch # None => \A p \in DOMAIN patch : patch[p].old # patch[p].new

IInv ==
  /\ IntegrateTypeOK /\ ForeignUnsigned /\ PatchChanges
  /\ \A c \in Callers : Own(c)
  /\ LeftoverProvable

PersonStep == Edit \/ Commit \/ Occupy \/ CleanUp
CallStep(c) == (\E r \in Calls : Begin(c, r)) \/ Progress(c) \/ Failure(c)

LEMMA InitIInv == Init => IInv
<1> SUFFICES ASSUME Init
             PROVE  IInv
  OBVIOUS
<1>1. head \in Tree
  BY StartsAreTrees DEF Init
<1>2. Fresh \in Locals
  BY BoundsAreNumbers DEF Fresh, Locals
<1>3. IntegrateTypeOK
  <2>1. head \in Tree /\ index \in Tree /\ work \in Tree
    BY <1>1 DEF Init
  <2>2. pc \in [Callers -> Steps] /\ call \in [Callers -> Calls]
        /\ res \in [Callers -> Answers \cup {None}]
    BY DEF Init, Steps, Calls
  <2>3. loc \in [Callers -> Locals]
    BY <1>2 DEF Init
  <2> HIDE DEF Fresh, Locals
  <2>4. minted \in 0..MaxNonce /\ edits \in 0..MaxEdits
    BY BoundsAreNumbers DEF Init
  <2> QED
    BY <2>1, <2>2, <2>3, <2>4, NoneIsNoTree DEF Init, IntegrateTypeOK
<1>4. \A c \in Callers : Own(c)
  BY RequestsDiffer DEF Init, Own, Outside, Clearing, Replaced, Building, Undoing, Landing
<1>5. LeftoverProvable /\ ForeignUnsigned /\ PatchChanges
  BY DEF Init, LeftoverProvable, ForeignUnsigned, PatchChanges
<1> QED
  BY <1>3, <1>4, <1>5 DEF IInv

-----------------------------------------------------------------------------
(* Chunks, trees and patches.                                              *)

LEMMA DeltaFits ==
  ASSUME NEW d \in Delta
  PROVE  /\ DOMAIN d \subseteq Regions
         /\ \A p \in DOMAIN d : d[p].old \in Contents /\ d[p].new \in Contents
<1>1. PICK S \in SUBSET Regions : d \in [S -> [old: Contents, new: Contents]]
  BY DEF Delta
<1> QED
  BY <1>1

LEMMA ReplayedType ==
  ASSUME NEW t \in Tree, NEW d \in Delta
  PROVE  Replayed(t, d) \in Tree
  BY DeltaFits DEF Replayed, Tree

LEMMA DiffType ==
  ASSUME NEW t \in Tree, NEW u \in Tree
  PROVE  Diff(t, u) \in Delta
<1> DEFINE S == {q \in Regions : t[q] # u[q]}
<1>1. S \in SUBSET Regions
  OBVIOUS
<1>2. Diff(t, u) \in [S -> [old: Contents, new: Contents]]
  BY DEF Diff, Tree
<1> QED
  BY <1>1, <1>2 DEF Delta

LEMMA PutType ==
  ASSUME NEW d \in Delta, head \in Tree, index \in Tree, work \in Tree,
         Put(d, "new") \/ Put(d, "old")
  PROVE  head' \in Tree /\ index' \in Tree /\ work' \in Tree
<1>1. \A p \in DOMAIN d : d[p]["new"] \in Contents /\ d[p]["old"] \in Contents
  BY DeltaFits
<1> QED
  BY <1>1 DEF Put, Tree

LEMMA LocalsType ==
  ASSUME NEW l \in Locals
  PROVE  /\ \A t \in Tree : /\ [l EXCEPT !.base = t] \in Locals
                            /\ [l EXCEPT !.base = t].base = t
                            /\ [l EXCEPT !.goal = t] \in Locals
                            /\ [l EXCEPT !.goal = t].goal = t
                            /\ [l EXCEPT !.goal = t].base = l.base
         /\ \A n \in 0..MaxNonce : /\ [l EXCEPT !.nonce = n] \in Locals
                                   /\ [l EXCEPT !.nonce = n].nonce = n
                                   /\ [l EXCEPT !.nonce = n].base = l.base
         /\ [l EXCEPT !.next = "mark"] \in Locals
         /\ [l EXCEPT !.next = "mark"].base = l.base
         /\ [l EXCEPT !.next = "mark"].next = "mark"
         /\ [l EXCEPT !.quiet = TRUE] \in Locals
         /\ [l EXCEPT !.quiet = FALSE] \in Locals
         /\ \A b \in BOOLEAN : /\ [l EXCEPT !.same = b] \in Locals
                              /\ [l EXCEPT !.same = b, !.quiet = TRUE] \in Locals
  BY DEF Locals

-----------------------------------------------------------------------------
(* The types.                                                              *)

LocalTypes ==
  /\ pc \in [Callers -> Steps] /\ call \in [Callers -> Calls]
  /\ loc \in [Callers -> Locals] /\ res \in [Callers -> Answers \cup {None}]

SharedTypes ==
  /\ head \in Tree /\ index \in Tree /\ work \in Tree
  /\ tree \in Tree \cup {None} /\ (dir = "worktree" <=> tree # None)
  /\ lock \in Callers \cup {None}
  /\ marker \in (1..MaxNonce) \cup {None}
  /\ admin \in Registration \cup {None}
  /\ dir \in {None, "worktree", "plain"}
  /\ patch \in Delta \cup {None}
  /\ minted \in 0..MaxNonce /\ edits \in 0..MaxEdits

LEMMA TypesSplit ==
  /\ IntegrateTypeOK <=> LocalTypes /\ SharedTypes
  /\ IntegrateTypeOK' <=> LocalTypes' /\ SharedTypes'
  BY DEF IntegrateTypeOK, LocalTypes, SharedTypes

LEMMA FreshType == Fresh \in Locals
  BY BoundsAreNumbers DEF Fresh, Locals

LEMMA LocalStep ==
  ASSUME LocalTypes, NEW c \in Callers, call' = call
  PROVE  /\ \A why \in Answers : Quit(c, why) \/ Leave(c, why) \/ Refused(c, why) => LocalTypes'
         /\ \A step \in Steps : On(c, step) => LocalTypes'
         /\ \A step \in Steps, l \in Locals : Noted(c, step, l) => LocalTypes'
<1> USE DEF LocalTypes
<1> HIDE DEF Answers
<1>0. {"unlock", "prove"} \subseteq Steps
  BY DEF Steps
<1>1. ASSUME NEW why \in Answers, Quit(c, why) \/ Leave(c, why)
      PROVE  LocalTypes'
  BY <1>0, <1>1, FreshType DEF Quit, Leave, Answer, Goto
<1>2. ASSUME NEW step \in Steps, On(c, step)
      PROVE  LocalTypes'
  BY <1>2 DEF On, Goto
<1>3. ASSUME NEW step \in Steps, NEW l \in Locals, Noted(c, step, l)
      PROVE  LocalTypes'
  BY <1>3 DEF Noted, Goto
<1>4. ASSUME NEW why \in Answers, Refused(c, why)
      PROVE  LocalTypes'
  BY <1>0, <1>4 DEF Refused, Answer, Goto
<1> QED
  BY <1>1, <1>2, <1>3, <1>4

LEMMA CallTyped ==
  ASSUME IntegrateTypeOK, NEW c \in Callers, Own(c), CallStep(c)
  PROVE  LocalTypes'
<1>0. LocalTypes /\ SharedTypes
  BY TypesSplit
<1> DEFINE Answered == \E why \in Answers : Quit(c, why) \/ Leave(c, why) \/ Refused(c, why)
           Moved == \E step \in Steps : On(c, step)
           Recorded == \E step \in Steps, l \in Locals : Noted(c, step, l)
<1>1. ASSUME call' = call, Answered \/ Moved \/ Recorded
      PROVE  LocalTypes'
  BY <1>0, <1>1, LocalStep
<1>2. loc[c] \in Locals
  BY <1>0 DEF LocalTypes
<1>3. /\ \A t \in Tree : /\ [loc[c] EXCEPT !.base = t] \in Locals
                        /\ [loc[c] EXCEPT !.goal = t] \in Locals
      /\ \A n \in 0..MaxNonce : [loc[c] EXCEPT !.nonce = n] \in Locals
      /\ [loc[c] EXCEPT !.next = "mark"] \in Locals
      /\ [loc[c] EXCEPT !.quiet = TRUE] \in Locals
      /\ \A b \in BOOLEAN : /\ [loc[c] EXCEPT !.same = b] \in Locals
                           /\ [loc[c] EXCEPT !.same = b, !.quiet = TRUE] \in Locals
  BY <1>2, LocalsType
<1>4. ASSUME Forget(c)
      PROVE  LocalTypes'
  <2>1. None \in Calls /\ "idle" \in Steps
    BY DEF Calls, Steps
  <2> QED
    BY <1>0, <1>4, <2>1, FreshType DEF Forget, Goto, LocalTypes
<1> HIDE DEF Moved, Recorded, Answered
<1>5. ASSUME NEW r \in Calls, Begin(c, r)
      PROVE  LocalTypes'
  BY <1>0, <1>5 DEF Begin, On, Goto, LocalTypes, Steps
<1>6. CASE Acquire(c)
  BY <1>1, <1>6 DEF Acquire, Moved, Steps
<1>7. CASE GiveUp(c) \/ Unlock(c) \/ Crash(c)
  BY <1>4, <1>7 DEF GiveUp, Unlock, Crash
<1>8. CASE Check(c)
  <2>1. Answered \/ Moved
    BY <1>8 DEF Check, Answered, Moved, Answers, Steps
  <2> QED
    BY <1>1, <1>8, <2>1 DEF Check
<1>r. CASE Range(c)
  <2>1. Answered \/ Recorded
    BY <1>0, <1>3, <1>r DEF Range, Answered, Recorded, Answers, Steps, SharedTypes
  <2> QED
    BY <1>1, <1>r, <2>1 DEF Range
<1>9. CASE StaleMarker(c) \/ Remove(c) \/ Add(c) \/ Sign(c) \/ WritePatch(c)
  <2>1. Moved
    BY <1>9 DEF StaleMarker, Remove, Add, Sign, WritePatch, Moved, Steps
  <2> QED
    BY <1>1, <1>9, <2>1 DEF StaleMarker, Remove, Add, Sign, WritePatch
<1>10. CASE Unmark(c)
  <2>1. loc[c].next \in Steps
    BY <1>2 DEF Locals, Steps
  <2> QED
    BY <1>1, <1>10, <2>1 DEF Unmark, Moved
<1>11. CASE StaleRegistration(c) \/ StaleOccupant(c)
  <2>1. Answered \/ Recorded
    BY <1>3, <1>11 DEF StaleRegistration, StaleOccupant, Answered, Recorded, Answers, Steps
  <2> QED
    BY <1>1, <1>11, <2>1 DEF StaleRegistration, StaleOccupant
<1>12. CASE Prove(c) \/ RemoveFails(c) \/ AddFails(c) \/ SignFails(c) \/ StepFails(c)
  <2>1. Answered \/ Moved
    BY <1>12 DEF Prove, RemoveFails, AddFails, SignFails, StepFails, Answered, Moved, Answers,
                 Steps
  <2> QED
    BY <1>1, <1>12, <2>1 DEF Prove, RemoveFails, AddFails, SignFails, StepFails
<1>13. CASE Mark(c)
  <2>1. Answered \/ Recorded
    <3>1. minted < MaxNonce => minted + 1 \in 0..MaxNonce
      BY <1>0, BoundsAreNumbers DEF SharedTypes
    <3> QED
      BY <1>3, <1>13, <3>1 DEF Mark, Answered, Recorded, Answers, Steps
  <2> QED
    BY <1>1, <1>13, <2>1 DEF Mark
<1>14. CASE Pick(c)
  <2>1. At(c, "pick") => tree \in Tree /\ call[c] \in Delta
    BY ChunksAreDeltas DEF Own, At, Landing, Building
  <2>2. Answered \/ Recorded
    <3>1. CASE Noted(c, "diff", [loc[c] EXCEPT !.goal = tree']) /\ tree' = Replayed(tree, call[c])
      <4>1. tree' \in Tree
        BY <1>14, <2>1, <3>1, ReplayedType DEF Pick
      <4> QED
        BY <1>3, <3>1, <4>1 DEF Recorded, Steps
    <3>2. CASE Leave(c, "conflict") \/ Leave(c, "nothing")
      BY <3>2 DEF Answered, Answers
    <3> QED
      BY <1>14, <3>1, <3>2 DEF Pick
  <2> QED
    BY <1>1, <1>14, <2>2 DEF Pick
<1>15. CASE Apply(c) \/ VerifyWork(c) \/ Undo(c)
  <2>1. Answered \/ Moved
    BY <1>15 DEF Apply, VerifyWork, Undo, Answered, Moved, Answers, Steps
  <2> QED
    BY <1>1, <1>15, <2>1 DEF Apply, VerifyWork, Undo
<1>v. CASE Verify(c) \/ RevertVerify(c)
  <2>1. Recorded
    <3>1. PICK b \in BOOLEAN, step \in Steps :
            \/ Noted(c, step, [loc[c] EXCEPT !.same = b, !.quiet = TRUE])
            \/ Noted(c, step, [loc[c] EXCEPT !.same = b])
      BY <1>v DEF Verify, Look, RevertVerify, Staged, Steps
    <3> QED
      BY <1>3, <3>1 DEF Recorded
  <2> QED
    BY <1>1, <1>v, <2>1 DEF Verify, RevertVerify
<1>16. CASE RevertTree(c) \/ RevertStaged(c) \/ RevertCheck(c) \/ RevertApply(c)
            \/ RevertVerifyWork(c) \/ RevertFails(c)
  <2>1. Answered \/ Moved \/ Recorded
    BY <1>3, <1>16 DEF RevertTree, RevertStaged, ToCheck, RevertCheck, RevertApply,
                       RevertVerifyWork, RevertFails, Answered, Moved, Recorded, Answers, Steps
  <2> QED
    BY <1>1, <1>16, <2>1
       DEF RevertTree, RevertStaged, RevertCheck, RevertApply, RevertVerifyWork, RevertFails
<1> QED
  BY <1>5, <1>6, <1>7, <1>8, <1>r, <1>9, <1>10, <1>11, <1>12, <1>13, <1>14, <1>15, <1>v, <1>16
     DEF CallStep, Progress, Failure

LEMMA PatchWritten ==
  ASSUME NEW c \in Callers, Own(c), WritePatch(c)
  PROVE  patch' \in Delta /\ \A p \in DOMAIN patch' : patch'[p].old # patch'[p].new
<1>1. /\ pc[c] = "diff" /\ loc[c].base \in Tree /\ call[c] \in Delta
      /\ loc[c].goal = Replayed(loc[c].base, call[c])
  BY ChunksAreDeltas DEF WritePatch, At, Own, Landing, Building, Replaced
<1>2. Diff(loc[c].base, loc[c].goal) \in Delta
  BY <1>1, ReplayedType, DiffType
<1>3. \A p \in DOMAIN Diff(loc[c].base, loc[c].goal) :
        Diff(loc[c].base, loc[c].goal)[p].old # Diff(loc[c].base, loc[c].goal)[p].new
  BY DEF Diff
<1> QED
  BY <1>2, <1>3 DEF WritePatch

LEMMA SharedTyped ==
  ASSUME IntegrateTypeOK, NEW c \in Callers, Own(c), CallStep(c)
  PROVE  SharedTypes'
<1>0. LocalTypes /\ SharedTypes
  BY TypesSplit
<1>1. ASSUME UNCHANGED <<treeVars, tempVars, lock, patch, minted, edits>>
      PROVE  SharedTypes'
  BY <1>0, <1>1 DEF SharedTypes, treeVars, tempVars
<1>2. CASE \E r \in Calls : Begin(c, r)
  BY <1>1, <1>2 DEF Begin
<1>3. CASE GiveUp(c) \/ Check(c) \/ Range(c) \/ StaleOccupant(c) \/ Prove(c) \/ RemoveFails(c)
            \/ StepFails(c) \/ Verify(c) \/ VerifyWork(c)
  BY <1>1, <1>3 DEF GiveUp, Check, Range, StaleOccupant, Prove, RemoveFails, StepFails, Verify,
                    VerifyWork
<1>4. CASE RevertTree(c) \/ RevertStaged(c) \/ RevertCheck(c) \/ RevertVerify(c)
            \/ RevertVerifyWork(c) \/ RevertFails(c)
  BY <1>1, <1>4 DEF RevertTree, RevertStaged, RevertCheck, RevertVerify, RevertVerifyWork,
                    RevertFails
<1>5. CASE Acquire(c) \/ Unlock(c)
  BY <1>0, <1>5 DEF Acquire, Unlock, SharedTypes, treeVars, tempVars
<1>6. CASE StaleMarker(c) \/ StaleRegistration(c) \/ Unmark(c) \/ AddFails(c)
  BY <1>0, <1>6 DEF StaleMarker, StaleRegistration, Unmark, AddFails, SharedTypes, treeVars,
                    tempVars
<1>7. CASE Remove(c) \/ SignFails(c)
  BY <1>0, <1>7, NoneIsNoTree DEF Remove, SignFails, SharedTypes, treeVars
<1>8. CASE Mark(c)
  <2>1. minted < MaxNonce => minted + 1 \in 1..MaxNonce /\ minted + 1 \in 0..MaxNonce
    BY <1>0, BoundsAreNumbers DEF SharedTypes
  <2> QED
    BY <1>0, <1>8, <2>1 DEF Mark, SharedTypes, treeVars
<1>r. [nonce |-> None, by |-> "lets"] \in Registration
  BY DEF Registration
<1>9. CASE Add(c)
  <2>1. loc[c].base \in Tree
    BY <1>9 DEF Add, At, Own, Landing, Building
  <2> QED
    BY <1>0, <1>9, <1>r, <2>1, NoneIsNoTree DEF Add, SharedTypes, treeVars
<1>10. CASE Sign(c)
  <2>1. loc[c].nonce \in 1..MaxNonce /\ admin \in Registration
    BY <1>0, <1>10, BoundsAreNumbers DEF Sign, At, Own, LocalTypes, Locals, SharedTypes
  <2>2. [admin EXCEPT !.nonce = loc[c].nonce] \in Registration
    BY <2>1 DEF Registration
  <2> QED
    BY <1>0, <1>10, <2>2 DEF Sign, SharedTypes, treeVars
<1>11. CASE Pick(c)
  <2>1. tree \in Tree /\ call[c] \in Delta /\ dir = "worktree"
    BY <1>11, ChunksAreDeltas DEF Pick, Own, At, Landing, Building
  <2>2. tree' \in Tree
    BY <1>11, <2>1, ReplayedType DEF Pick
  <2> QED
    BY <1>0, <1>11, <2>1, <2>2, NoneIsNoTree DEF Pick, SharedTypes, treeVars
<1>12. CASE WritePatch(c)
  BY <1>0, <1>12, PatchWritten DEF WritePatch, SharedTypes, treeVars, tempVars
<1>13. ASSUME patch \in Delta, Put(patch, "new") \/ Put(patch, "old") \/ UNCHANGED treeVars,
              UNCHANGED <<tempVars, lock, patch, minted, edits>>
       PROVE  SharedTypes'
  <2>1. head' \in Tree /\ index' \in Tree /\ work' \in Tree
    BY <1>0, <1>13, PutType DEF SharedTypes, treeVars
  <2> QED
    BY <1>0, <1>13, <2>1 DEF SharedTypes, tempVars
<1>14. CASE Apply(c) \/ Undo(c) \/ RevertApply(c)
  <2>1. patch \in Delta
    BY <1>0, <1>14 DEF Apply, Undo, RevertApply, At, Own, Undoing, SharedTypes
  <2> QED
    BY <1>13, <1>14, <2>1 DEF Apply, Undo, RevertApply
<1>15. CASE Crash(c)
  BY <1>0, <1>15, <1>r DEF Crash, SharedTypes, treeVars
<1> QED
  BY <1>2, <1>3, <1>4, <1>5, <1>6, <1>7, <1>8, <1>9, <1>10, <1>11, <1>12, <1>14, <1>15
     DEF CallStep, Progress, Failure

LEMMA PersonTyped ==
  ASSUME IntegrateTypeOK, PersonStep
  PROVE  IntegrateTypeOK'
<1>0. LocalTypes /\ SharedTypes
  BY TypesSplit
<1>1. loc' = loc \/ loc' = [c \in Callers |-> [loc[c] EXCEPT !.quiet = FALSE]]
  BY DEF PersonStep, Edit, Commit, Occupy, CleanUp, Person
<1>2. \A c \in Callers : [loc[c] EXCEPT !.quiet = FALSE] \in Locals
  BY <1>0, LocalsType DEF LocalTypes
<1>3. LocalTypes'
  BY <1>0, <1>1, <1>2 DEF LocalTypes, PersonStep, Edit, Commit, Occupy, CleanUp
<1>4. edits' \in 0..MaxEdits
  BY <1>0, BoundsAreNumbers
     DEF SharedTypes, PersonStep, Edit, Commit, Occupy, CleanUp, Person
<1>5. ASSUME Edit \/ Commit
      PROVE  SharedTypes'
  <2>1. \A t \in Tree, q \in Regions, v \in Typed : [t EXCEPT ![q] = v] \in Tree
    BY TypedAreContents DEF Tree
  <2>2. head' \in Tree /\ index' \in Tree /\ work' \in Tree
    BY <1>0, <1>5, <2>1 DEF Edit, Commit, SharedTypes
  <2> QED
    BY <1>0, <1>4, <1>5, <2>2 DEF Edit, Commit, SharedTypes, tempVars
<1>6. ASSUME Occupy
      PROVE  SharedTypes'
  <2>1. [nonce |-> None, by |-> "user"] \in Registration
    BY DEF Registration
  <2> QED
    BY <1>0, <1>4, <1>6, <2>1, NoneIsNoTree DEF Occupy, SharedTypes, treeVars
<1>7. ASSUME CleanUp
      PROVE  SharedTypes'
  BY <1>0, <1>4, <1>7, NoneIsNoTree DEF CleanUp, SharedTypes, treeVars
<1>8. SharedTypes'
  BY <1>5, <1>6, <1>7 DEF PersonStep
<1> QED
  BY <1>3, <1>8, TypesSplit

-----------------------------------------------------------------------------
(* The call that moves.                                                    *)

(* A patch that was written once is there for good.                        *)
LEMMA PatchStays ==
  ASSUME NEW c \in Callers, Own(c), CallStep(c), patch # None
  PROVE  patch' # None
<1>1. CASE WritePatch(c)
  BY <1>1, PatchWritten, RequestsDiffer
<1>2. CASE (\E r \in Calls : Begin(c, r)) \/ Acquire(c) \/ GiveUp(c) \/ Unlock(c) \/ Check(c)
           \/ Range(c) \/ StaleMarker(c) \/ StaleRegistration(c) \/ StaleOccupant(c)
  BY <1>2 DEF Begin, Acquire, GiveUp, Unlock, Check, Range, StaleMarker, StaleRegistration,
              StaleOccupant
<1>3. CASE Prove(c) \/ Remove(c) \/ Unmark(c) \/ Mark(c) \/ Add(c) \/ AddFails(c) \/ Sign(c)
           \/ Pick(c) \/ Apply(c) \/ Verify(c) \/ VerifyWork(c) \/ Undo(c)
  BY <1>3 DEF Prove, Remove, Unmark, Mark, Add, AddFails, Sign, Pick, Apply, Verify,
              VerifyWork, Undo
<1>4. CASE RevertTree(c) \/ RevertStaged(c) \/ RevertCheck(c) \/ RevertApply(c)
           \/ RevertVerify(c) \/ RevertVerifyWork(c) \/ Failure(c)
  BY <1>4 DEF RevertTree, RevertStaged, RevertCheck, RevertApply, RevertVerify,
              RevertVerifyWork, RevertFails, Failure, RemoveFails, SignFails, StepFails, Crash
<1> QED
  BY <1>1, <1>2, <1>3, <1>4 DEF CallStep, Progress

LEMMA PatchStep ==
  ASSUME PatchChanges, NEW c \in Callers, Own(c), CallStep(c)
  PROVE  PatchChanges'
<1>1. CASE WritePatch(c)
  BY <1>1, PatchWritten DEF PatchChanges
<1>2. CASE UNCHANGED patch
  BY <1>2 DEF PatchChanges
<1>3. CASE (\E r \in Calls : Begin(c, r)) \/ Acquire(c) \/ GiveUp(c) \/ Unlock(c) \/ Check(c)
           \/ Range(c) \/ StaleMarker(c) \/ StaleRegistration(c) \/ StaleOccupant(c)
  BY <1>2, <1>3 DEF Begin, Acquire, GiveUp, Unlock, Check, Range, StaleMarker,
                    StaleRegistration, StaleOccupant
<1>4. CASE Prove(c) \/ Remove(c) \/ Unmark(c) \/ Mark(c) \/ Add(c) \/ AddFails(c) \/ Sign(c)
           \/ Pick(c) \/ Apply(c) \/ Verify(c) \/ VerifyWork(c) \/ Undo(c)
  BY <1>2, <1>4 DEF Prove, Remove, Unmark, Mark, Add, AddFails, Sign, Pick, Apply, Verify,
                    VerifyWork, Undo
<1>5. CASE RevertTree(c) \/ RevertStaged(c) \/ RevertCheck(c) \/ RevertApply(c)
           \/ RevertVerify(c) \/ RevertVerifyWork(c) \/ Failure(c)
  BY <1>2, <1>5 DEF RevertTree, RevertStaged, RevertCheck, RevertApply, RevertVerify,
                    RevertVerifyWork, Failure, RemoveFails, SignFails, StepFails, RevertFails,
                    Crash
<1> QED
  BY <1>1, <1>3, <1>4, <1>5 DEF CallStep, Progress

LEMMA OwnStep ==
  ASSUME IntegrateTypeOK, ForeignUnsigned, NEW c \in Callers, Own(c), CallStep(c)
  PROVE  Own(c)'
<1>0. /\ pc \in [Callers -> Steps] /\ call \in [Callers -> Calls]
      /\ loc \in [Callers -> Locals] /\ loc[c] \in Locals
  BY DEF IntegrateTypeOK
<1>b. /\ \A t \in Tree : /\ [loc[c] EXCEPT !.base = t].base = t
                       /\ [loc[c] EXCEPT !.goal = t].goal = t
                       /\ [loc[c] EXCEPT !.goal = t].base = loc[c].base
      /\ \A n \in 0..MaxNonce : /\ [loc[c] EXCEPT !.nonce = n].nonce = n
                                /\ [loc[c] EXCEPT !.nonce = n].base = loc[c].base
      /\ [loc[c] EXCEPT !.next = "mark"].base = loc[c].base
  BY <1>0, LocalsType
<1>p. patch # None => patch' # None
  BY PatchStays
<1>f. Fresh.next = "unlock"
  BY DEF Fresh
<1>a. \A why : /\ Quit(c, why) \/ Refused(c, why) => pc'[c] = "unlock"
               /\ Leave(c, why) => pc'[c] = "prove" /\ loc'[c].next = "unlock"
  BY <1>0, <1>f DEF Quit, Refused, Leave, Goto
<1>m. \A step : On(c, step) => pc'[c] = step /\ loc'[c] = loc[c]
  BY <1>0 DEF On, Goto
<1>n. \A step, l : Noted(c, step, l) => pc'[c] = step /\ loc'[c] = l
  BY <1>0 DEF Noted, Goto
<1>q. ASSUME call' = call, lock' = lock, lock = c,
             pc'[c] = "unlock" \/ (pc'[c] = "prove" /\ loc'[c].next = "unlock")
      PROVE  Own(c)'
  BY <1>p, <1>q DEF Own, Outside, Clearing, Replaced, Building, Undoing, Landing
<1>l. pc[c] \notin Outside => lock = c
  BY DEF Own
<1>1. ASSUME NEW r \in Calls, Begin(c, r)
      PROVE  Own(c)'
  <2>1. pc'[c] = "lock" /\ call'[c] = r /\ (r = Revert => patch # None) /\ patch' = patch
    BY <1>0, <1>1, <1>m DEF Begin
  <2> QED
    BY <2>1 DEF Own, Outside, Clearing, Replaced, Building, Undoing, Landing
<1>2. CASE Acquire(c)
  BY <1>0, <1>2, <1>m DEF Acquire, Own, Outside, Clearing, Replaced, Building, Undoing, Landing
<1>3. CASE GiveUp(c) \/ Unlock(c) \/ Crash(c)
  <2>1. pc'[c] = "idle" /\ call'[c] = None
    BY <1>0, <1>3 DEF GiveUp, Unlock, Crash, Forget, Goto
  <2> QED
    BY <2>1, RequestsDiffer DEF Own, Outside, Clearing, Replaced, Building, Undoing, Landing
<1>4. CASE Check(c)
  <2>1. CASE \E why : Quit(c, why)
    BY <1>4, <1>a, <1>l, <1>q, <2>1 DEF Check, At, Outside
  <2>2. CASE On(c, "range")
    BY <1>4, <1>l, <1>m, <2>2
       DEF Check, At, Own, Outside, Clearing, Replaced, Building, Undoing, Landing
  <2> QED
    BY <1>4, <2>1, <2>2 DEF Check
<1>r. CASE Range(c)
  <2>1. CASE \E why : Quit(c, why)
    BY <1>r, <1>a, <1>l, <1>q, <2>1 DEF Range, At, Outside
  <2>2. CASE call[c] # None /\ Noted(c, "stale", [loc[c] EXCEPT !.base = head])
    <3>1. pc'[c] = "stale" /\ loc'[c].base = head /\ call[c] \in Chunks /\ head \in Tree
      <4>1. pc'[c] = "stale" /\ loc'[c] = [loc[c] EXCEPT !.base = head]
        BY <1>0, <2>2 DEF Noted, Goto
      <4>2. head \in Tree
        BY DEF IntegrateTypeOK
      <4>3. call[c] \in Chunks
        BY <1>0, <1>r, <2>2 DEF Range, At, Own, Calls
      <4> QED
        BY <1>b, <4>1, <4>2, <4>3
    <3> QED
      BY <1>r, <1>l, <3>1, RequestsDiffer, ChunksAreDeltas
         DEF Range, At, Own, Outside, Clearing, Replaced, Building, Undoing, Landing
  <2> QED
    BY <1>r, <2>1, <2>2 DEF Range
<1>5. CASE StaleMarker(c)
  BY <1>5, <1>l, <1>m DEF StaleMarker, At, Own, Outside, Clearing, Replaced, Building, Undoing,
                          Landing, Unsigned
<1>6. CASE StaleRegistration(c)
  <2>1. CASE Quit(c, "temp_foreign")
    BY <1>6, <1>a, <1>l, <1>q, <2>1 DEF StaleRegistration, At, Outside
  <2>2. CASE admin' = None /\ Noted(c, "unmark", [loc[c] EXCEPT !.next = "mark"])
    <3>1. pc'[c] = "unmark" /\ loc'[c].base = loc[c].base
      <4>1. pc'[c] = "unmark" /\ loc'[c] = [loc[c] EXCEPT !.next = "mark"]
        BY <1>0, <2>2 DEF Noted, Goto
      <4> QED
        BY <1>b, <4>1
    <3> QED
      BY <1>6, <1>l, <2>2, <3>1
         DEF StaleRegistration, At, Own, Outside, Clearing, Replaced, Building, Undoing, Landing,
             Unsigned
  <2> QED
    BY <1>6, <2>1, <2>2 DEF StaleRegistration
<1>7. CASE StaleOccupant(c)
  <2>1. pc'[c] = "prove" /\ loc'[c].base = loc[c].base
    <3>1. pc'[c] = "prove" /\ loc'[c] = [loc[c] EXCEPT !.next = "mark"]
      BY <1>0, <1>7 DEF StaleOccupant, Noted, Goto
    <3> QED
      BY <1>b, <3>1
  <2> QED
    BY <1>7, <1>l, <2>1 DEF StaleOccupant, At, Own, Outside, Clearing, Replaced, Building,
                            Undoing, Landing, Unsigned
<1>8. CASE Prove(c)
  <2>1. CASE Refused(c, "temp_foreign")
    BY <1>8, <1>a, <1>l, <1>q, <2>1 DEF Prove, At, Outside
  <2>2. CASE On(c, "remove") /\ marker # None /\ admin # None /\ dir = "worktree"
             /\ admin.nonce = marker
    <3>1. admin.by = "lets"
      BY <2>2 DEF IntegrateTypeOK, Registration, ForeignUnsigned
    <3>2. UNCHANGED <<marker, admin, dir, tree, patch, call, lock>>
      BY <1>8 DEF Prove, tempVars
    <3>3. pc[c] = "prove" /\ pc'[c] = "remove" /\ loc'[c] = loc[c]
      BY <1>8, <1>m, <2>2 DEF Prove, At
    <3> QED
      BY <1>l, <2>2, <3>1, <3>2, <3>3
         DEF Own, Outside, Clearing, Replaced, Building, Undoing, Landing
  <2> QED
    BY <1>8, <2>1, <2>2 DEF Prove
<1>9. CASE Remove(c)
  BY <1>9, <1>l, <1>m DEF Remove, At, Own, Outside, Clearing, Replaced, Building, Undoing,
                          Landing, Unsigned
<1>10. CASE RemoveFails(c) \/ AddFails(c) \/ SignFails(c) \/ StepFails(c) \/ RevertFails(c)
  <2>1. pc[c] \notin Outside /\ call' = call /\ lock' = lock
    BY <1>10 DEF RemoveFails, AddFails, SignFails, StepFails, RevertFails, At, Outside
  <2>2. \E why : Quit(c, why) \/ Leave(c, why) \/ Refused(c, why)
    BY <1>10 DEF RemoveFails, AddFails, SignFails, StepFails, RevertFails
  <2> QED
    BY <1>a, <1>l, <1>q, <2>1, <2>2
<1>11. CASE Unmark(c)
  <2>1. loc[c].next \in {"mark", "unlock"}
    BY <1>0 DEF Locals
  <2> QED
    BY <1>11, <1>l, <1>m, <2>1
       DEF Unmark, At, Own, Outside, Clearing, Replaced, Building, Undoing, Landing, Unsigned
<1>12. CASE Mark(c)
  <2>1. CASE Quit(c, "bound")
    BY <1>12, <1>a, <1>l, <1>q, <2>1 DEF Mark, At, Outside
  <2>2. CASE /\ minted < MaxNonce /\ marker' = minted + 1
             /\ Noted(c, "add", [loc[c] EXCEPT !.nonce = minted + 1])
    <3>1. minted + 1 \in 0..MaxNonce /\ minted + 1 # 0
      BY <2>2, BoundsAreNumbers DEF IntegrateTypeOK
    <3>2. pc'[c] = "add" /\ loc'[c].nonce = minted + 1 /\ loc'[c].base = loc[c].base
      <4>1. pc'[c] = "add" /\ loc'[c] = [loc[c] EXCEPT !.nonce = minted + 1]
        BY <1>0, <2>2 DEF Noted, Goto
      <4> QED
        BY <1>b, <3>1, <4>1
    <3> QED
      BY <1>12, <1>l, <2>2, <3>1, <3>2
         DEF Mark, At, Own, Outside, Clearing, Replaced, Building, Undoing, Landing, Unsigned
  <2> QED
    BY <1>12, <2>1, <2>2 DEF Mark
<1>13. CASE Add(c)
  <2>1. admin' # None /\ admin'.nonce = None /\ admin'.by = "lets"
    <3>1. admin' = [nonce |-> None, by |-> "lets"] /\ admin' \in Registration
      BY <1>13 DEF Add, Registration
    <3> QED
      BY <3>1, NoneIsNoTree
  <2>2. pc'[c] = "sign" /\ loc'[c] = loc[c]
    BY <1>13, <1>m DEF Add
  <2> QED
    BY <1>13, <1>l, <2>1, <2>2
       DEF Add, At, Own, Outside, Clearing, Replaced, Building, Undoing, Landing
<1>14. CASE Sign(c)
  BY <1>14, <1>l, <1>m DEF Sign, At, Own, Outside, Clearing, Replaced, Building, Undoing, Landing
<1>15. CASE Pick(c)
  <2>1. CASE Leave(c, "conflict") \/ Leave(c, "nothing")
    BY <1>15, <1>a, <1>l, <1>q, <2>1 DEF Pick, At, Outside
  <2>2. CASE tree' = Replayed(tree, call[c]) /\ Noted(c, "diff", [loc[c] EXCEPT !.goal = tree'])
    <3>1. tree \in Tree /\ call[c] \in Delta /\ tree = loc[c].base
      BY <1>15, ChunksAreDeltas DEF Pick, At, Own, Building, Landing
    <3>2. tree' \in Tree
      BY <2>2, <3>1, ReplayedType
    <3>3. pc'[c] = "diff" /\ loc'[c].goal = tree' /\ loc'[c].base = loc[c].base
      <4>1. pc'[c] = "diff" /\ loc'[c] = [loc[c] EXCEPT !.goal = tree']
        BY <1>0, <2>2 DEF Noted, Goto
      <4> QED
        BY <1>b, <3>2, <4>1
    <3> QED
      BY <1>15, <1>l, <2>2, <3>1, <3>3
         DEF Pick, At, Own, Outside, Clearing, Replaced, Building, Undoing, Landing
  <2> QED
    BY <1>15, <2>1, <2>2 DEF Pick
<1>16. CASE WritePatch(c)
  <2>1. patch' # None
    BY <1>16, PatchWritten, RequestsDiffer
  <2> QED
    BY <1>16, <1>l, <1>m, <2>1
       DEF WritePatch, At, Own, Outside, Clearing, Replaced, Building, Undoing, Landing
<1>17. CASE Apply(c) \/ VerifyWork(c) \/ Undo(c)
  <2>1. CASE \E why : Leave(c, why)
    BY <1>17, <1>a, <1>l, <1>q, <2>1 DEF Apply, VerifyWork, Undo, At, Outside
  <2>2. CASE On(c, "verify") \/ On(c, "undo")
    BY <1>17, <1>l, <1>m, <2>2
       DEF Apply, VerifyWork, Undo, At, Own, Outside, Clearing, Replaced, Building, Undoing,
           Landing
  <2> QED
    BY <1>17, <2>1, <2>2 DEF Apply, VerifyWork, Undo
<1>v. CASE Verify(c)
  <2>1. PICK same \in {index = loc[c].goal, FALSE} :
          Noted(c, "verify_work", [loc[c] EXCEPT !.same = same, !.quiet = TRUE])
    BY <1>v DEF Verify, Look
  <2>2. loc'[c] = [loc[c] EXCEPT !.same = same, !.quiet = TRUE] /\ pc'[c] = "verify_work"
    BY <1>n, <2>1
  <2>3. loc'[c].same = same /\ loc'[c].goal = loc[c].goal /\ loc'[c].base = loc[c].base
    BY <1>0, <2>2 DEF Locals
  <2> QED
    BY <1>v, <1>l, <2>2, <2>3
       DEF Verify, At, Own, Outside, Clearing, Replaced, Building, Undoing, Landing, treeVars
<1>18. CASE RevertTree(c) \/ RevertStaged(c) \/ RevertCheck(c)
  <2>1. CASE \E why : Quit(c, why)
    BY <1>18, <1>a, <1>l, <1>q, <2>1 DEF RevertTree, RevertStaged, RevertCheck, At, Outside
  <2>2. CASE RevertTree(c) /\ On(c, "rstaged")
    BY <1>l, <1>m, <2>2
       DEF RevertTree, At, Own, Outside, Clearing, Replaced, Building, Undoing, Landing
  <2>3. CASE RevertStaged(c) /\ Staged(patch) /\ ToCheck(c)
    <3>1. pc[c] = "rstaged" /\ pc'[c] = "rcheck"
      BY <1>n, <2>3 DEF RevertStaged, ToCheck, At
    <3>2. UNCHANGED <<head, index, work, patch, call, lock>> /\ Staged(patch)'
      BY <2>3 DEF RevertStaged, Staged, FilesOf, treeVars
    <3> QED
      BY <1>l, <3>1, <3>2 DEF Own, Outside, Clearing, Replaced, Building, Undoing, Landing
  <2>4. CASE RevertCheck(c) /\ On(c, "rapply")
    <3>1. /\ pc[c] = "rcheck" /\ pc'[c] = "rapply" /\ loc'[c] = loc[c] /\ Reverses(patch)
          /\ UNCHANGED <<head, index, work, patch, call, lock>>
      BY <1>m, <2>4, <1>a DEF RevertCheck, At, treeVars
    <3>2. Reverses(patch)' /\ (Staged(patch) => Staged(patch)')
      BY <3>1 DEF Reverses, Unedited, Staged, FilesOf
    <3> QED
      BY <1>l, <3>1, <3>2 DEF Own, Outside, Clearing, Replaced, Building, Undoing, Landing
  <2> QED
    BY <1>18, <2>1, <2>2, <2>3, <2>4 DEF RevertTree, RevertStaged, RevertCheck
<1>19. CASE RevertApply(c) \/ RevertVerifyWork(c)
  <2>1. CASE \E why : Quit(c, why)
    BY <1>19, <1>a, <1>l, <1>q, <2>1 DEF RevertApply, RevertVerifyWork, At, Outside
  <2>2. CASE On(c, "rverify") /\ RevertApply(c) /\ Put(patch, "old")
    <3>1. pc[c] = "rapply" /\ pc'[c] = "rverify" /\ loc'[c] = loc[c] /\ patch' = patch
      BY <1>m, <2>2 DEF RevertApply, At
    <3>2. patch \in Delta
      BY <3>1 DEF Own, Undoing, IntegrateTypeOK
    <3>3. TakenOut'
      BY <2>2, <3>1, <3>2, DeltaFits DEF Put, TakenOut
    <3> QED
      BY <1>l, <2>2, <3>1, <3>3
         DEF RevertApply, Own, Outside, Clearing, Replaced, Building, Undoing, Landing
  <2> QED
    BY <1>19, <1>a, <2>1, <2>2 DEF RevertApply, RevertVerifyWork
<1>w. CASE RevertVerify(c)
  <2>1. PICK same \in {~Staged(patch), FALSE} :
          Noted(c, "rverify_work", [loc[c] EXCEPT !.same = same])
    BY <1>w DEF RevertVerify
  <2>2. loc'[c] = [loc[c] EXCEPT !.same = same] /\ pc'[c] = "rverify_work"
    BY <1>n, <2>1
  <2>3. loc'[c].same = same /\ loc'[c].quiet = loc[c].quiet
    BY <1>0, <2>2 DEF Locals
  <2>4. UNCHANGED <<head, index, work, patch, call, lock>> /\ pc[c] = "rverify"
    BY <1>w DEF RevertVerify, At, treeVars
  <2>5. Staged(patch)' = Staged(patch) /\ (TakenOut => TakenOut')
    BY <2>4 DEF Staged, FilesOf, TakenOut
  <2> QED
    BY <1>l, <2>1, <2>2, <2>3, <2>4, <2>5
       DEF Own, Outside, Clearing, Replaced, Building, Undoing, Landing
<1> QED
  BY <1>1, <1>2, <1>3, <1>4, <1>5, <1>6, <1>7, <1>8, <1>9, <1>10, <1>11, <1>12, <1>13, <1>14,
     <1>15, <1>16, <1>17, <1>18, <1>19, <1>r, <1>v, <1>w DEF CallStep, Progress, Failure

-----------------------------------------------------------------------------
(* The calls that do not, and what is at the temporary path.               *)

LEMMA OthersStay ==
  ASSUME IntegrateTypeOK, NEW c \in Callers, CallStep(c), NEW t \in Callers \ {c}
  PROVE  pc'[t] = pc[t] /\ call'[t] = call[t] /\ loc'[t] = loc[t]
<1>0. /\ pc \in [Callers -> Steps] /\ call \in [Callers -> Calls]
      /\ loc \in [Callers -> Locals]
  BY DEF IntegrateTypeOK
<1> DEFINE Alike == pc'[t] = pc[t] /\ loc'[t] = loc[t]
<1>1. \A why : Quit(c, why) \/ Leave(c, why) \/ Refused(c, why) => Alike
  BY <1>0 DEF Quit, Leave, Refused, Goto
<1>2. \A step : On(c, step) => Alike
  BY <1>0 DEF On, Goto
<1>3. \A step, l : Noted(c, step, l) => Alike
  BY <1>0 DEF Noted, Goto
<1>4. Forget(c) => Alike /\ call'[t] = call[t]
  BY <1>0 DEF Forget, Goto
<1> HIDE DEF Alike
<1>5. CASE \E r \in Calls : Begin(c, r)
  BY <1>0, <1>2, <1>5 DEF Begin, Alike
<1>6. CASE GiveUp(c) \/ Unlock(c) \/ Crash(c)
  BY <1>4, <1>6 DEF GiveUp, Unlock, Crash, Alike
<1>7. CASE Acquire(c) \/ Check(c) \/ Range(c) \/ StaleMarker(c) \/ StaleRegistration(c)
           \/ StaleOccupant(c) \/ Prove(c) \/ Remove(c) \/ Unmark(c)
  BY <1>1, <1>2, <1>3, <1>7
     DEF Acquire, Check, Range, StaleMarker, StaleRegistration, StaleOccupant, Prove, Remove,
         Unmark, Alike
<1>8. CASE Mark(c) \/ Add(c) \/ AddFails(c) \/ Sign(c) \/ Pick(c) \/ WritePatch(c) \/ Apply(c)
           \/ Verify(c) \/ VerifyWork(c) \/ Undo(c)
  BY <1>1, <1>2, <1>3, <1>8
     DEF Mark, Add, AddFails, Sign, Pick, WritePatch, Apply, Verify, Look, VerifyWork, Undo,
         Alike
<1>9. CASE RevertTree(c) \/ RevertStaged(c) \/ RevertCheck(c) \/ RevertApply(c)
           \/ RevertVerify(c) \/ RevertVerifyWork(c) \/ RevertFails(c) \/ RemoveFails(c)
           \/ SignFails(c) \/ StepFails(c)
  BY <1>1, <1>2, <1>3, <1>9
     DEF RevertTree, RevertStaged, ToCheck, RevertCheck, RevertApply, RevertVerify,
         RevertVerifyWork, RevertFails, RemoveFails, SignFails, StepFails, Alike
<1> QED
  BY <1>5, <1>6, <1>7, <1>8, <1>9 DEF CallStep, Progress, Failure

(* A call that is not inside changes only who has the lock, and not when   *)
(* another has it.                                                         *)
LEMMA OutsideStep ==
  ASSUME NEW c \in Callers, CallStep(c), pc[c] \in Outside
  PROVE  /\ UNCHANGED <<treeVars, tempVars, patch>>
         /\ lock' = lock \/ lock \in {None, c}
  BY DEF CallStep, Progress, Failure, Outside, At, Begin, Acquire, GiveUp, Unlock, Check, Range,
         StaleMarker, StaleRegistration, StaleOccupant, Prove, Remove, Unmark, Mark, Add,
         AddFails, Sign, Pick, WritePatch, Apply, Verify, VerifyWork, Undo, RevertTree,
         RevertStaged, RevertCheck, RevertApply, RevertVerify, RevertVerifyWork, RevertFails,
         RemoveFails, SignFails, StepFails, Crash, tempVars

LEMMA OtherOwn ==
  ASSUME IntegrateTypeOK, NEW c \in Callers, CallStep(c), Own(c), NEW t \in Callers \ {c},
         Own(t)
  PROVE  Own(t)'
<1>1. pc'[t] = pc[t] /\ call'[t] = call[t] /\ loc'[t] = loc[t]
  BY OthersStay
<1>2. CASE pc[t] \in Outside
  <2>1. patch # None => patch' # None
    BY PatchStays
  <2> QED
    BY <1>1, <1>2, <2>1 DEF Own, Outside, Clearing, Replaced, Building, Undoing, Landing
<1>3. CASE pc[t] \notin Outside
  <2>1. lock = t /\ pc[c] \in Outside
    BY <1>3 DEF Own
  <2>2. UNCHANGED <<treeVars, tempVars, patch, lock>>
    BY <2>1, OutsideStep, NoneIsNoCaller
  <2>3. UNCHANGED <<head, index, work, marker, admin, dir, tree>>
    BY <2>2 DEF treeVars, tempVars
  <2> QED
    BY <1>1, <2>2, <2>3 DEF Own, Landing, Unsigned, Reverses, Unedited, Staged, FilesOf, TakenOut
<1> QED
  BY <1>2, <1>3

LEMMA LeftoverStep ==
  ASSUME IntegrateTypeOK, LeftoverProvable, NEW c \in Callers, CallStep(c), Own(c)
  PROVE  LeftoverProvable'
<1> USE DEF LeftoverProvable
<1>1. ASSUME UNCHANGED <<marker, admin>> \/ admin' = None
      PROVE  LeftoverProvable'
  BY <1>1
<1>2. ASSUME admin' = [nonce |-> None, by |-> "lets"]
      PROVE  LeftoverProvable'
  BY <1>2
<1>3. ASSUME Unsigned, admin' = admin
      PROVE  LeftoverProvable'
  BY <1>3 DEF Unsigned
<1> HIDE DEF LeftoverProvable
<1>4. CASE (\E r \in Calls : Begin(c, r)) \/ Acquire(c) \/ GiveUp(c) \/ Unlock(c) \/ Check(c)
           \/ Range(c) \/ StaleOccupant(c) \/ Prove(c) \/ RemoveFails(c)
  BY <1>1, <1>4 DEF Begin, Acquire, GiveUp, Unlock, Check, Range, StaleOccupant, Prove,
                    RemoveFails, tempVars
<1>5. CASE StaleMarker(c) \/ StaleRegistration(c) \/ Remove(c)
  BY <1>1, <1>5 DEF StaleMarker, StaleRegistration, Remove
<1>s. CASE SignFails(c)
  <2>1. Unsigned
    BY <1>s DEF SignFails, At, Own, Unsigned
  <2> QED
    BY <1>1, <1>3, <1>s, <2>1 DEF SignFails
<1>6. CASE Unmark(c) \/ Mark(c) \/ AddFails(c)
  BY <1>3, <1>6 DEF Unmark, Mark, AddFails, At, Own
<1>7. CASE Add(c)
  BY <1>2, <1>7 DEF Add
<1>8. CASE Sign(c)
  <2>1. marker' = marker /\ marker = loc[c].nonce
    BY <1>8 DEF Sign, At, Own
  <2>2. admin # None /\ admin \in Registration /\ admin' = [admin EXCEPT !.nonce = loc[c].nonce]
    BY <1>8 DEF Sign, At, Own, IntegrateTypeOK
  <2>3. admin'.nonce = loc[c].nonce
    BY <2>2 DEF Registration
  <2> QED
    BY <2>1, <2>3 DEF LeftoverProvable
<1>9. CASE Pick(c) \/ WritePatch(c) \/ StepFails(c) \/ Apply(c) \/ Verify(c)
           \/ VerifyWork(c) \/ Undo(c)
  BY <1>1, <1>9 DEF Pick, WritePatch, StepFails, Apply, Verify, VerifyWork, Undo, tempVars
<1>10. CASE RevertTree(c) \/ RevertStaged(c) \/ RevertCheck(c) \/ RevertApply(c)
            \/ RevertVerify(c) \/ RevertVerifyWork(c) \/ RevertFails(c)
  BY <1>1, <1>10 DEF RevertTree, RevertStaged, RevertCheck, RevertApply, RevertVerify,
                     RevertVerifyWork, RevertFails, tempVars
<1>11. CASE Crash(c)
  BY <1>1, <1>2, <1>11 DEF Crash
<1> QED
  BY <1>4, <1>5, <1>s, <1>6, <1>7, <1>8, <1>9, <1>10, <1>11 DEF CallStep, Progress, Failure

LEMMA ForeignStep ==
  ASSUME IntegrateTypeOK, ForeignUnsigned, NEW c \in Callers, CallStep(c), Own(c)
  PROVE  ForeignUnsigned'
<1> USE DEF ForeignUnsigned
<1>1. ASSUME admin' = admin \/ admin' = None \/ admin' = [nonce |-> None, by |-> "lets"]
      PROVE  ForeignUnsigned'
  BY <1>1
<1> HIDE DEF ForeignUnsigned
<1>2. CASE Sign(c)
  <2>1. admin # None /\ admin \in Registration /\ admin' = [admin EXCEPT !.nonce = loc[c].nonce]
        /\ admin.by = "lets"
    BY <1>2 DEF Sign, At, Own, IntegrateTypeOK
  <2>2. admin'.by = "lets"
    BY <2>1 DEF Registration
  <2> QED
    BY <2>2 DEF ForeignUnsigned
<1>3. CASE (\E r \in Calls : Begin(c, r)) \/ Acquire(c) \/ GiveUp(c) \/ Unlock(c) \/ Check(c)
           \/ Range(c) \/ StaleMarker(c) \/ StaleRegistration(c) \/ StaleOccupant(c)
  BY <1>1, <1>3 DEF Begin, Acquire, GiveUp, Unlock, Check, Range, StaleMarker, StaleRegistration,
                    StaleOccupant, tempVars
<1>4. CASE Prove(c) \/ Remove(c) \/ Unmark(c) \/ Mark(c) \/ Add(c) \/ AddFails(c) \/ Pick(c)
           \/ WritePatch(c) \/ Apply(c) \/ Verify(c) \/ VerifyWork(c) \/ Undo(c)
  BY <1>1, <1>4 DEF Prove, Remove, Unmark, Mark, Add, AddFails, Pick, WritePatch, Apply, Verify,
                    VerifyWork, Undo, tempVars
<1>5. CASE RevertTree(c) \/ RevertStaged(c) \/ RevertCheck(c) \/ RevertApply(c)
           \/ RevertVerify(c) \/ RevertVerifyWork(c) \/ Failure(c)
  BY <1>1, <1>5 DEF RevertTree, RevertStaged, RevertCheck, RevertApply, RevertVerify,
                    RevertVerifyWork, RevertFails, Failure, RemoveFails, SignFails, StepFails,
                    Crash, tempVars
<1> QED
  BY <1>2, <1>3, <1>4, <1>5 DEF CallStep, Progress

LEMMA CallKeeps ==
  ASSUME IInv, NEW c \in Callers, CallStep(c)
  PROVE  IInv'
<1>1. IntegrateTypeOK'
  BY CallTyped, SharedTyped, TypesSplit DEF IInv
<1>2. Own(c)' /\ LeftoverProvable' /\ ForeignUnsigned' /\ PatchChanges'
  BY OwnStep, LeftoverStep, ForeignStep, PatchStep DEF IInv
<1>3. \A t \in Callers \ {c} : Own(t)'
  BY OtherOwn DEF IInv
<1> QED
  BY <1>1, <1>2, <1>3 DEF IInv

(* A person's change ends what a call may rely on of HEAD; the temporary   *)
(* worktree of a call is not theirs.                                       *)
LEMMA PersonOwn ==
  ASSUME IntegrateTypeOK, PersonStep, NEW c \in Callers, Own(c)
  PROVE  Own(c)'
<1>1. CASE Edit \/ Commit
  <2>1. UNCHANGED <<lock, marker, admin, dir, tree, patch, pc, call>>
    BY <1>1 DEF Edit, Commit, tempVars
  <2>2. loc'[c] = [loc[c] EXCEPT !.quiet = FALSE] /\ loc[c] \in Locals
    BY <1>1 DEF Edit, Commit, Person, IntegrateTypeOK
  <2>3. /\ loc'[c].quiet = FALSE /\ loc'[c].base = loc[c].base /\ loc'[c].goal = loc[c].goal
        /\ loc'[c].nonce = loc[c].nonce /\ loc'[c].next = loc[c].next
    BY <2>2 DEF Locals
  <2> QED
    BY <2>1, <2>3 DEF Own, Landing, Unsigned
<1>2. CASE Occupy
  <2>1. UNCHANGED <<head, index, work, lock, marker, patch, pc, call, loc>> /\ dir = None
    BY <1>2 DEF Occupy, treeVars
  <2>2. pc[c] \notin {"remove", "sign", "pick"}
    BY <2>1, NoneIsNoTree DEF Own
  <2>3. Unsigned => Unsigned'
    BY <1>2 DEF Occupy, Unsigned
  <2> QED
    BY <2>1, <2>2, <2>3 DEF Own, Landing, Reverses, Unedited, Staged, FilesOf, TakenOut
<1>3. CASE CleanUp
  BY <1>3 DEF CleanUp, Alone, At, Own, Outside, Clearing, Replaced, Building, Undoing, Landing
<1> QED
  BY <1>1, <1>2, <1>3 DEF PersonStep

LEMMA PersonKeeps ==
  ASSUME IInv, PersonStep
  PROVE  IInv'
<1>1. IntegrateTypeOK' /\ \A c \in Callers : Own(c)'
  BY PersonTyped, PersonOwn DEF IInv
<1>2. LeftoverProvable' /\ ForeignUnsigned' /\ PatchChanges'
  BY DEF IInv, LeftoverProvable, ForeignUnsigned, PatchChanges, PersonStep, Edit, Commit, Occupy,
         CleanUp, tempVars
<1> QED
  BY <1>1, <1>2 DEF IInv

LEMMA NextIsStep == Next => (\E c \in Callers : CallStep(c)) \/ PersonStep
  BY DEF Next, CallStep, PersonStep

LEMMA Inductive == IInv /\ [Next]_vars => IInv'
<1>1. CASE UNCHANGED vars
  BY <1>1 DEF vars, IInv, IntegrateTypeOK, Own, Landing, Unsigned, LeftoverProvable,
              ForeignUnsigned, Reverses, Unedited, Staged, FilesOf, TakenOut, PatchChanges
<1>2. ASSUME IInv, Next
      PROVE  IInv'
  BY <1>2, NextIsStep, CallKeeps, PersonKeeps
<1> QED
  BY <1>1, <1>2

(* At every step of every behavior the call that has the lock finds what   *)
(* Own says of its step.                                                   *)
THEOREM Invariance == Spec => []IInv
<1>1. Init => IInv
  BY InitIInv
<1>2. IInv /\ [Next]_vars => IInv'
  BY Inductive
<1> QED
  BY <1>1, <1>2, PTL DEF Spec

(* The trees, the patch and what is at the temporary path keep their types.*)
THEOREM IntegrateTyped == Spec => []IntegrateTypeOK
<1>1. IInv => IntegrateTypeOK
  BY DEF IInv
<1> QED
  BY <1>1, Invariance, PTL

(* The marker of a worktree that a call signed is there as long as the     *)
(* worktree is registered, wherever the call died.                         *)
THEOREM AlwaysProvable == Spec => []LeftoverProvable
<1>1. IInv => LeftoverProvable
  BY DEF IInv
<1> QED
  BY <1>1, Invariance, PTL

-----------------------------------------------------------------------------
(* The action properties.                                                  *)

(* What a step of a call that changes pc is.                               *)
LEMMA MoveIsCall ==
  ASSUME [Next]_vars, pc' # pc
  PROVE  \E c \in Callers : CallStep(c)
<1>1. ~PersonStep /\ ~UNCHANGED vars
  BY DEF PersonStep, Edit, Commit, Occupy, CleanUp, vars
<1> QED
  BY <1>1, NextIsStep

(* ok: index and worktree agree, and are the tree the call found plus its  *)
(* range unless a person acted between the two looks.                      *)
THEOREM OkExact == Spec => OkIsExact
<1>1. ASSUME IInv, [Next]_vars, NEW c \in Callers, At(c, "verify_work"), pc'[c] = "prove"
      PROVE  work = index /\ (loc[c].quiet => index = Replayed(loc[c].base, call[c]))
  <2>1. PICK t \in Callers : CallStep(t)
    BY <1>1, MoveIsCall DEF At
  <2>2. t = c
    BY <1>1, <2>1, OthersStay DEF IInv, At
  <2>3. VerifyWork(c) \/ Crash(c)
    BY <1>1, <2>1, <2>2
       DEF CallStep, Progress, Failure, At, Begin, Acquire, GiveUp, Unlock, Check, Range,
           StaleMarker, StaleRegistration, StaleOccupant, Prove, Remove, Unmark, Mark, Add,
           AddFails, Sign, Pick, WritePatch, Apply, Verify, Undo, RevertTree, RevertStaged,
           RevertCheck, RevertApply, RevertVerify, RevertVerifyWork, RevertFails, RemoveFails,
           SignFails, StepFails
  <2>4. /\ pc \in [Callers -> Steps]
        /\ loc[c].goal = Replayed(loc[c].base, call[c])
        /\ loc[c].quiet /\ loc[c].same => index = loc[c].goal
    BY <1>1 DEF IInv, IntegrateTypeOK, Own, At, Replaced
  <2>5. ~Crash(c)
    BY <1>1, <2>4 DEF Crash, Forget, Goto
  <2>6. loc[c].same /\ work = index
    BY <1>1, <2>3, <2>4, <2>5 DEF VerifyWork, On, Goto
  <2> QED
    BY <2>4, <2>6
<1>2. IInv /\ [Next]_vars =>
        [\A c \in Callers : At(c, "verify_work") /\ pc'[c] = "prove" =>
           /\ work = index
           /\ loc[c].quiet => index = Replayed(loc[c].base, call[c])]_vars
  BY <1>1
<1> QED
  BY <1>2, Invariance, PTL DEF Spec, OkIsExact

(* What the caller's tree loses is what the patch says was there.          *)
LEMMA TreeStep ==
  ASSUME NEW c \in Callers, CallStep(c)
  PROVE  \/ UNCHANGED treeVars
         \/ Fits(patch) /\ Put(patch, "new")
         \/ Reverses(patch) /\ Put(patch, "old")
<1>1. CASE Apply(c) \/ Undo(c) \/ RevertApply(c)
  BY <1>1 DEF Apply, Undo, RevertApply
<1>2. CASE (\E r \in Calls : Begin(c, r)) \/ Acquire(c) \/ GiveUp(c) \/ Unlock(c) \/ Check(c)
           \/ Range(c) \/ StaleMarker(c) \/ StaleRegistration(c) \/ StaleOccupant(c)
  BY <1>2 DEF Begin, Acquire, GiveUp, Unlock, Check, Range, StaleMarker, StaleRegistration,
              StaleOccupant
<1>3. CASE Prove(c) \/ Remove(c) \/ Unmark(c) \/ Mark(c) \/ Add(c) \/ AddFails(c) \/ Sign(c)
           \/ Pick(c) \/ WritePatch(c) \/ Verify(c) \/ VerifyWork(c)
  BY <1>3 DEF Prove, Remove, Unmark, Mark, Add, AddFails, Sign, Pick, WritePatch, Verify,
              VerifyWork
<1>4. CASE RevertTree(c) \/ RevertStaged(c) \/ RevertCheck(c) \/ RevertVerify(c)
           \/ RevertVerifyWork(c) \/ Failure(c)
  BY <1>4 DEF RevertTree, RevertStaged, RevertCheck, RevertVerify, RevertVerifyWork,
              RevertFails, Failure, RemoveFails, SignFails, StepFails, Crash
<1> QED
  BY <1>1, <1>2, <1>3, <1>4 DEF CallStep, Progress

(* The only copy of an edit is never overwritten.                          *)
THEOREM EditsKept == Spec => UserWorkKept
<1>1. ASSUME IInv, [Next]_vars, pc' # pc, NEW p \in Regions,
             <<index[p], work[p]>> # <<index'[p], work'[p]>>
      PROVE  /\ p \in DOMAIN patch
             /\ index[p] = work[p] /\ work[p] \in {patch[p].old, patch[p].new}
  <2>1. PICK c \in Callers : CallStep(c)
    BY <1>1, MoveIsCall
  <2>2. ~UNCHANGED treeVars
    BY <1>1 DEF treeVars
  <2>e. index \in Tree /\ work \in Tree
    BY <1>1 DEF IInv, IntegrateTypeOK
  <2>d. Put(patch, "new") \/ Put(patch, "old") => p \in DOMAIN patch
    BY <1>1, <2>e DEF Put
  <2>f. p \in DOMAIN patch => p \in FilesOf(patch)
    BY DEF FilesOf
  <2>3. CASE Fits(patch) /\ Put(patch, "new")
    BY <2>3, <2>d, <2>f DEF Fits, Unedited
  <2>4. CASE Reverses(patch) /\ Put(patch, "old")
    BY <2>4, <2>d, <2>f DEF Reverses, Unedited
  <2> QED
    BY <2>1, <2>2, <2>3, <2>4, TreeStep
<1>2. IInv /\ [Next]_vars =>
        [pc' # pc => \A p \in Regions :
           <<index[p], work[p]>> # <<index'[p], work'[p]>> =>
             /\ p \in DOMAIN patch
             /\ index[p] = work[p] /\ work[p] \in {patch[p].old, patch[p].new}]_vars
  BY <1>1
<1> QED
  BY <1>2, Invariance, PTL DEF Spec, UserWorkKept

(* What is removed at the temporary path is a worktree that lets added.    *)
LEMMA PlaceStep ==
  ASSUME IInv, NEW c \in Callers, CallStep(c)
  PROVE  /\ dir = "plain" => dir' = dir
         /\ admin # None /\ admin.by = "user" => admin' = admin /\ dir' = dir
<1> USE DEF IInv
<1>1. CASE Remove(c) \/ SignFails(c)
  BY <1>1 DEF Remove, SignFails, Own, At
<1>2. CASE Add(c) \/ Sign(c) \/ Crash(c)
  BY <1>2, NoneIsNoTree DEF Add, Sign, Crash, Own, At
<1>3. CASE StaleRegistration(c)
  BY <1>3 DEF StaleRegistration, ForeignUnsigned
<1>4. CASE (\E r \in Calls : Begin(c, r)) \/ Acquire(c) \/ GiveUp(c) \/ Unlock(c) \/ Check(c)
           \/ Range(c) \/ StaleMarker(c) \/ StaleOccupant(c) \/ Prove(c) \/ Unmark(c) \/ Mark(c)
           \/ AddFails(c)
  BY <1>4 DEF Begin, Acquire, GiveUp, Unlock, Check, Range, StaleMarker, StaleOccupant, Prove,
              Unmark, Mark, AddFails, tempVars
<1>5. CASE Pick(c) \/ WritePatch(c) \/ Apply(c) \/ Verify(c) \/ VerifyWork(c) \/ Undo(c)
           \/ RemoveFails(c) \/ StepFails(c)
  BY <1>5 DEF Pick, WritePatch, Apply, Verify, VerifyWork, Undo, RemoveFails, StepFails, tempVars
<1>6. CASE RevertTree(c) \/ RevertStaged(c) \/ RevertCheck(c) \/ RevertApply(c)
           \/ RevertVerify(c) \/ RevertVerifyWork(c) \/ RevertFails(c)
  BY <1>6 DEF RevertTree, RevertStaged, RevertCheck, RevertApply, RevertVerify,
              RevertVerifyWork, RevertFails, tempVars
<1> QED
  BY <1>1, <1>2, <1>3, <1>4, <1>5, <1>6 DEF CallStep, Progress, Failure

(* What a person has at the temporary path is never removed or changed.    *)
THEOREM OthersKept == Spec => ForeignKept
<1>1. ASSUME IInv, [Next]_vars, pc' # pc
      PROVE  /\ dir = "plain" => dir' = dir
             /\ admin # None /\ admin.by = "user" => admin' = admin /\ dir' = dir
  BY <1>1, MoveIsCall, PlaceStep
<1>2. IInv /\ [Next]_vars =>
        [pc' # pc =>
           /\ dir = "plain" => dir' = dir
           /\ admin # None /\ admin.by = "user" => admin' = admin /\ dir' = dir]_vars
  BY <1>1
<1> QED
  BY <1>2, Invariance, PTL DEF Spec, ForeignKept

(* A revert takes out a chunk that is all committed beside another staged  *)
(* change in its files at most, and then does not say ok, unless a person  *)
(* commits it under the call.                                              *)
THEOREM CommittedStays == Spec => CommittedChunkStays
<1>1. ASSUME IInv, NEW c \in Callers, At(c, "rapply"), loc[c].quiet
      PROVE  \/ \E p \in DOMAIN patch : head[p] # patch[p].new
             \/ \E p \in FilesOf(patch) \ DOMAIN patch : index[p] # head[p]
  BY <1>1 DEF IInv, Own, At, Reverses, Staged
<1>2. ASSUME IInv, [Next]_vars, NEW c \in Callers, At(c, "rverify_work"), loc[c].quiet,
             pc'[c] = "unlock", res'[c] = "ok"
      PROVE  \A p \in DOMAIN patch : head[p] # patch[p].new
  <2>1. PICK t \in Callers : CallStep(t)
    BY <1>2, MoveIsCall DEF At
  <2>2. t = c
    BY <1>2, <2>1, OthersStay DEF IInv, At
  <2>3. RevertVerifyWork(c) \/ Crash(c)
    BY <1>2, <2>1, <2>2
       DEF CallStep, Progress, Failure, At, Begin, Acquire, GiveUp, Unlock, Check, Range,
           StaleMarker, StaleRegistration, StaleOccupant, Prove, Remove, Unmark, Mark, Add,
           AddFails, Sign, Pick, WritePatch, Apply, Verify, VerifyWork, Undo, RevertTree,
           RevertStaged, RevertCheck, RevertApply, RevertVerify, RevertFails, RemoveFails,
           SignFails, StepFails
  <2>4. /\ pc \in [Callers -> Steps] /\ res \in [Callers -> Answers \cup {None}]
        /\ patch \in Delta /\ PatchChanges /\ patch # None
        /\ TakenOut /\ (loc[c].same => ~Staged(patch))
    BY <1>2, RequestsDiffer DEF IInv, IntegrateTypeOK, Own, At, Undoing
  <2>5. ~Crash(c)
    BY <1>2, <2>4 DEF Crash, Forget, Goto
  <2>6. loc[c].same
    BY <1>2, <2>3, <2>4, <2>5 DEF RevertVerifyWork, Quit, Answer
  <2>7. DOMAIN patch \subseteq FilesOf(patch)
    BY <2>4, DeltaFits DEF FilesOf
  <2> QED
    BY <2>4, <2>6, <2>7 DEF Staged, TakenOut, PatchChanges
<1>3. IInv /\ [Next]_vars =>
        [\A c \in Callers : loc[c].quiet =>
           /\ At(c, "rapply") /\ index' # index =>
                \/ \E p \in DOMAIN patch : head[p] # patch[p].new
                \/ \E p \in FilesOf(patch) \ DOMAIN patch : index[p] # head[p]
           /\ At(c, "rverify_work") /\ pc'[c] = "unlock" /\ res'[c] = "ok" =>
                \A p \in DOMAIN patch : head[p] # patch[p].new]_vars
  BY <1>1, <1>2
<1> QED
  BY <1>3, Invariance, PTL DEF Spec, CommittedChunkStays
=============================================================================
