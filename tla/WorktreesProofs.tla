--------------------------- MODULE WorktreesProofs ---------------------------
(***************************************************************************)
(* What create, rollback, remove and sweep keep for any number of callers, *)
(* calls, names and branches.  Git's own rule, one checkout per branch, is *)
(* the first part of the invariant; the rest says what a call still knows  *)
(* of its tree, its branch and the main checkout at each of its steps.     *)
(***************************************************************************)
EXTENDS Worktrees, TLAPS

DropPCs == {"find", "dirty", "unpushed", "drop", "clean"}

(* Which request belongs to which step, and what has been found by then.   *)
Shape(c) ==
  /\ c.pc # "idle" => c.request \in Requests
  /\ c.pc \in CreatePCs => c.request.op = "create"
  /\ c.pc \in DropPCs => c.request.op = "remove"
  /\ c.pc \in (CreatePCs \ {"resolve"}) \cup {"merged", "delete"} => c.branch # None
Shaped == \A p \in Callers : Shape(call[p])

(* Git has a branch in one checkout at most, and every checkout on a       *)
(* branch that exists.                                                     *)
OneCheckout ==
  /\ mainOn \in exists
  /\ \A n \in Names : tree[n] # None =>
       /\ tree[n].branch \in exists /\ tree[n].branch # mainOn
       /\ \A m \in Names : m # n /\ tree[m] # None => tree[m].branch # tree[n].branch

(* A call that is alone is.                                                *)
AloneIsSo ==
  \A p, q \in Callers : p # q /\ call[p].alone /\ ~At(p, "idle") => At(q, "idle")

IInv == WorktreesTypeOK /\ Shaped /\ OneCheckout /\ AloneIsSo

-----------------------------------------------------------------------------
(* With people who keep off what a call works on.                          *)

(* A remove that is alone has its tree on the branch it found, until there *)
(* is no checkout of the branch.                                           *)
KnowsTree(p) ==
  LET c == call[p]
  IN  c.alone /\ c.branch # None =>
        /\ c.pc \in {"dirty", "unpushed", "drop"} =>
             MyTree(p) # None /\ MyTree(p).branch = c.branch
        /\ c.pc = "clean" /\ ~c.gone => ~Held(c.branch)

(* A create that is alone finds what it will put back.                     *)
Early == {"resolve", "precheck", "switch", "held", "ignore", "cut"}
Undoing == {"undo_tree", "undo_dir", "undo_branch", "undo_prune"}
MainAway(c, was) ==
  IF c.prev = None \/ c.pc = "switch" THEN mainOn = was.main ELSE c.prev = was.main
KnowsBefore(p) ==
  LET c == call[p]
      was == c.before
      mine == tree[c.request.name]
  IN  c.alone /\ c.pc \in CreatePCs =>
        /\ was \in Snapshots
        /\ c.pc \in {"resolve", "precheck"} => c.prev = None
        /\ c.pc = "switch" => c.prev = was.main
        /\ c.pc \in Early => exists = was.had
        /\ c.pc = "cut" => c.created
        /\ c.pc \in Early \cup {"add"} =>
             mine = was.tree /\ ~HeldBySomeTree(was.main)
        /\ c.pc \in Early \cup {"add", "fail"} => was.main \in exists /\ MainAway(c, was)
        /\ c.pc = "fail" =>
             \/ mine = was.tree /\ ~HeldBySomeTree(was.main)
             \/ /\ was.tree = None /\ mine = NewTree(c.branch)
                /\ HeldBySomeTree(was.main) => c.branch = was.main
        /\ c.pc \notin Early \cup {"add", "fail"} => was.tree = None
        /\ c.pc \notin Early => (c.created => c.branch \notin was.had)
        /\ c.pc \in {"link", "undo_main"} => MainAway(c, was)
        /\ c.pc \in Undoing /\ c.clean => mainOn = was.main
        /\ c.pc \in Undoing \ {"undo_tree"} /\ c.clean => mine = None /\ c.removed
        /\ c.pc \in {"undo_branch", "undo_prune"} /\ c.clean => c.gone
        /\ c.pc \notin Early /\ (c.pc = "undo_prune" => c.clean) =>
             exists = IF c.created /\ c.pc # "undo_prune"
                      THEN was.had \cup {c.branch} ELSE was.had

Remembers == \A p \in Callers : KnowsTree(p) /\ KnowsBefore(p)

-----------------------------------------------------------------------------
(* With people who keep off, and worktrees that are cut from the           *)
(* merge-branch and have branches of their own.                            *)
CutFromMerge ==
  /\ \A n \in Names : OwnRef[n] # Merge /\ NewRef[n] # Merge
  /\ \A r \in Requests :
       /\ r.op \in {"create", "remove"} => r.branch # Merge
       /\ r.op = "create" => r.base \in {None, Merge}

(* What is on the merge-branch, here or at the remote, stays there.        *)
Settled == remote[Merge] \cup work[Merge]

MergeStays ==
  /\ Merge \in exists
  /\ \A n \in Names : tree[n] # None => tree[n].branch # Merge
  /\ \A p \in Callers : call[p].branch # Merge /\ Merge \notin call[p].todo

NoWorkNowhere ==
  /\ \A b \in Branches \ exists : work[b] = {}
  /\ \A n \in Names : tree[n] # None /\ ~tree[n].dir => tree[n].dirty = {}

(* The tree a call is about to remove has no changes, the branch it is     *)
(* about to delete is settled, unless the person forces it.                *)
KnowsWork(p) ==
  LET c == call[p]
  IN  /\ (\/ c.pc \in {"unpushed", "drop"} /\ ~c.request.force
          \/ c.pc \in {"link", "undo_main", "undo_tree", "undo_dir"}) =>
           (tree[c.request.name] # None => tree[c.request.name].dirty = {})
      /\ c.pc = "cut" => c.created
      /\ c.pc \in CreatePCs /\ c.created =>
           /\ c.cut \subseteq Settled
           /\ c.pc \notin Early => work[c.branch] \subseteq Settled
      /\ c.pc = "delete" /\ c.sure /\ ~Forced(p) => work[c.branch] \subseteq Settled

WorkIsSafe == MergeStays /\ NoWorkNowhere /\ \A p \in Callers : KnowsWork(p)

-----------------------------------------------------------------------------
(* A step of one call leaves the others alone.                             *)
Apart(p) == \A q \in Callers : q # p => call'[q] = call[q]
Moved(p) == call' \in [Callers -> CallRecords] /\ Apart(p)

LEMMA RequestKinds ==
  ASSUME NEW r \in Requests
  PROVE  /\ r.op = "create" => r \in Creates
         /\ r.op = "remove" => r \in Removes
         /\ r.op \in {"create", "remove", "sweep"}
BY RequestsAssumption, SMT DEF Creates, Removes, Sweeps

LEMMA IdleIsCall == Idle \in CallRecords /\ Shape(Idle)
BY SMT DEF Idle, CallRecords, Shape, PCs, CreatePCs, RemovePCs, DropPCs

(* A call record with another value of one field.                          *)
LEMMA SetPc ==
  ASSUME NEW c \in CallRecords, NEW x \in PCs PROVE [c EXCEPT !.pc = x] \in CallRecords
BY SMT DEF CallRecords
LEMMA SetBranch ==
  ASSUME NEW c \in CallRecords, NEW x \in Branches \cup {None}
  PROVE  [c EXCEPT !.branch = x] \in CallRecords
BY SMT DEF CallRecords
LEMMA SetPrev ==
  ASSUME NEW c \in CallRecords, NEW x \in Branches \cup {None}
  PROVE  [c EXCEPT !.prev = x] \in CallRecords
BY SMT DEF CallRecords
LEMMA SetCut ==
  ASSUME NEW c \in CallRecords, NEW x \in SUBSET Work
  PROVE  [c EXCEPT !.cut = x] \in CallRecords
BY SMT DEF CallRecords
LEMMA SetTodo ==
  ASSUME NEW c \in CallRecords, NEW x \in SUBSET Branches
  PROVE  [c EXCEPT !.todo = x] \in CallRecords
BY SMT DEF CallRecords
LEMMA SetCreated ==
  ASSUME NEW c \in CallRecords, NEW x \in BOOLEAN
  PROVE  [c EXCEPT !.created = x] \in CallRecords
BY SMT DEF CallRecords
LEMMA SetClean ==
  ASSUME NEW c \in CallRecords, NEW x \in BOOLEAN
  PROVE  [c EXCEPT !.clean = x] \in CallRecords
BY SMT DEF CallRecords
LEMMA SetRemoved ==
  ASSUME NEW c \in CallRecords, NEW x \in BOOLEAN
  PROVE  [c EXCEPT !.removed = x] \in CallRecords
BY SMT DEF CallRecords
LEMMA SetGone ==
  ASSUME NEW c \in CallRecords, NEW x \in BOOLEAN
  PROVE  [c EXCEPT !.gone = x] \in CallRecords
BY SMT DEF CallRecords
LEMMA SetSure ==
  ASSUME NEW c \in CallRecords, NEW x \in BOOLEAN
  PROVE  [c EXCEPT !.sure = x] \in CallRecords
BY SMT DEF CallRecords

LEMMA SetRequest ==
  ASSUME NEW c \in CallRecords, NEW x \in Requests PROVE [c EXCEPT !.request = x] \in CallRecords
BY SMT DEF CallRecords
LEMMA SetAlone ==
  ASSUME NEW c \in CallRecords, NEW x \in BOOLEAN PROVE [c EXCEPT !.alone = x] \in CallRecords
BY SMT DEF CallRecords
LEMMA SetBefore ==
  ASSUME NEW c \in CallRecords, NEW x \in Snapshots \cup {None}
  PROVE  [c EXCEPT !.before = x] \in CallRecords
BY SMT DEF CallRecords

(* What a step that moves on and sets fields makes of a call record.       *)
Same(c, d) == d.request = c.request /\ d.alone = c.alone /\ d.before = c.before
LEMMA SetsBranch ==
  ASSUME NEW c \in CallRecords, NEW s \in PCs, NEW b \in Branches \cup {None}
  PROVE  /\ [c EXCEPT !.pc = s, !.branch = b] \in CallRecords
         /\ Same(c, [c EXCEPT !.pc = s, !.branch = b])
<1> DEFINE d == [c EXCEPT !.pc = s, !.branch = b]
           a1 == [c EXCEPT !.pc = s]
<1>1. d = [a1 EXCEPT !.branch = b]
  OBVIOUS
<1>2. Same(c, d)
  BY SMT DEF CallRecords, Same
<1>3. a1 \in CallRecords
  BY SetPc
<1> HIDE DEF d, a1
<1>4. d \in CallRecords
  BY <1>1, <1>3, SetBranch
<1> QED BY <1>2, <1>4 DEF d

LEMMA SetsCut ==
  ASSUME NEW c \in CallRecords, NEW s \in PCs, NEW b \in Branches \cup {None},
         NEW x \in BOOLEAN, NEW w \in SUBSET Work
  PROVE  /\ [c EXCEPT !.pc = s, !.branch = b, !.created = x, !.cut = w] \in CallRecords
         /\ Same(c, [c EXCEPT !.pc = s, !.branch = b, !.created = x, !.cut = w])
<1> DEFINE d == [c EXCEPT !.pc = s, !.branch = b, !.created = x, !.cut = w]
           a1 == [c EXCEPT !.pc = s]
           a2 == [a1 EXCEPT !.branch = b]
           a3 == [a2 EXCEPT !.created = x]
<1>1. d = [a3 EXCEPT !.cut = w]
  OBVIOUS
<1>2. Same(c, d)
  BY SMT DEF CallRecords, Same
<1>3. a1 \in CallRecords
  BY SetPc
<1>4. a2 \in CallRecords
  <2> HIDE DEF a1
  <2> QED BY <1>3, SetBranch
<1>5. a3 \in CallRecords
  <2> HIDE DEF a2
  <2> QED BY <1>4, SetCreated
<1> HIDE DEF d, a1, a2, a3
<1>6. d \in CallRecords
  BY <1>1, <1>5, SetCut
<1> QED BY <1>2, <1>6 DEF d

LEMMA SetsPrev ==
  ASSUME NEW c \in CallRecords, NEW s \in PCs, NEW b \in Branches \cup {None}
  PROVE  /\ [c EXCEPT !.pc = s, !.prev = b] \in CallRecords
         /\ Same(c, [c EXCEPT !.pc = s, !.prev = b])
<1> DEFINE d == [c EXCEPT !.pc = s, !.prev = b]
           a1 == [c EXCEPT !.pc = s]
<1>1. d = [a1 EXCEPT !.prev = b]
  OBVIOUS
<1>2. Same(c, d)
  BY SMT DEF CallRecords, Same
<1>3. a1 \in CallRecords
  BY SetPc
<1> HIDE DEF d, a1
<1>4. d \in CallRecords
  BY <1>1, <1>3, SetPrev
<1> QED BY <1>2, <1>4 DEF d

LEMMA SetsClean ==
  ASSUME NEW c \in CallRecords, NEW s \in PCs, NEW x \in BOOLEAN
  PROVE  /\ [c EXCEPT !.pc = s, !.clean = x] \in CallRecords
         /\ Same(c, [c EXCEPT !.pc = s, !.clean = x])
<1> DEFINE d == [c EXCEPT !.pc = s, !.clean = x]
           a1 == [c EXCEPT !.pc = s]
<1>1. d = [a1 EXCEPT !.clean = x]
  OBVIOUS
<1>2. Same(c, d)
  BY SMT DEF CallRecords, Same
<1>3. a1 \in CallRecords
  BY SetPc
<1> HIDE DEF d, a1
<1>4. d \in CallRecords
  BY <1>1, <1>3, SetClean
<1> QED BY <1>2, <1>4 DEF d

LEMMA SetsRemoved ==
  ASSUME NEW c \in CallRecords, NEW s \in PCs, NEW x \in BOOLEAN
  PROVE  /\ [c EXCEPT !.pc = s, !.removed = x] \in CallRecords
         /\ Same(c, [c EXCEPT !.pc = s, !.removed = x])
<1> DEFINE d == [c EXCEPT !.pc = s, !.removed = x]
           a1 == [c EXCEPT !.pc = s]
<1>1. d = [a1 EXCEPT !.removed = x]
  OBVIOUS
<1>2. Same(c, d)
  BY SMT DEF CallRecords, Same
<1>3. a1 \in CallRecords
  BY SetPc
<1> HIDE DEF d, a1
<1>4. d \in CallRecords
  BY <1>1, <1>3, SetRemoved
<1> QED BY <1>2, <1>4 DEF d

LEMMA SetsGone ==
  ASSUME NEW c \in CallRecords, NEW s \in PCs, NEW x \in BOOLEAN
  PROVE  /\ [c EXCEPT !.pc = s, !.gone = x] \in CallRecords
         /\ Same(c, [c EXCEPT !.pc = s, !.gone = x])
<1> DEFINE d == [c EXCEPT !.pc = s, !.gone = x]
           a1 == [c EXCEPT !.pc = s]
<1>1. d = [a1 EXCEPT !.gone = x]
  OBVIOUS
<1>2. Same(c, d)
  BY SMT DEF CallRecords, Same
<1>3. a1 \in CallRecords
  BY SetPc
<1> HIDE DEF d, a1
<1>4. d \in CallRecords
  BY <1>1, <1>3, SetGone
<1> QED BY <1>2, <1>4 DEF d

LEMMA SetsSure ==
  ASSUME NEW c \in CallRecords, NEW s \in PCs, NEW x \in BOOLEAN
  PROVE  /\ [c EXCEPT !.pc = s, !.sure = x] \in CallRecords
         /\ Same(c, [c EXCEPT !.pc = s, !.sure = x])
<1> DEFINE d == [c EXCEPT !.pc = s, !.sure = x]
           a1 == [c EXCEPT !.pc = s]
<1>1. d = [a1 EXCEPT !.sure = x]
  OBVIOUS
<1>2. Same(c, d)
  BY SMT DEF CallRecords, Same
<1>3. a1 \in CallRecords
  BY SetPc
<1> HIDE DEF d, a1
<1>4. d \in CallRecords
  BY <1>1, <1>3, SetSure
<1> QED BY <1>2, <1>4 DEF d

LEMMA SetsLeft ==
  ASSUME NEW c \in CallRecords, NEW s \in PCs, NEW b \in Branches \cup {None}, NEW x \in BOOLEAN
  PROVE  /\ [c EXCEPT !.pc = s, !.branch = b, !.gone = x] \in CallRecords
         /\ Same(c, [c EXCEPT !.pc = s, !.branch = b, !.gone = x])
<1> DEFINE d == [c EXCEPT !.pc = s, !.branch = b, !.gone = x]
           a1 == [c EXCEPT !.pc = s]
           a2 == [a1 EXCEPT !.branch = b]
<1>1. d = [a2 EXCEPT !.gone = x]
  OBVIOUS
<1>2. Same(c, d)
  BY SMT DEF CallRecords, Same
<1>3. a1 \in CallRecords
  BY SetPc
<1>4. a2 \in CallRecords
  <2> HIDE DEF a1
  <2> QED BY <1>3, SetBranch
<1> HIDE DEF d, a1, a2
<1>5. d \in CallRecords
  BY <1>1, <1>4, SetGone
<1> QED BY <1>2, <1>5 DEF d

LEMMA SetsTodo ==
  ASSUME NEW c \in CallRecords, NEW s \in PCs, NEW b \in Branches \cup {None},
         NEW u \in SUBSET Branches
  PROVE  /\ [c EXCEPT !.pc = s, !.branch = b, !.todo = u] \in CallRecords
         /\ Same(c, [c EXCEPT !.pc = s, !.branch = b, !.todo = u])
<1> DEFINE d == [c EXCEPT !.pc = s, !.branch = b, !.todo = u]
           a1 == [c EXCEPT !.pc = s]
           a2 == [a1 EXCEPT !.branch = b]
<1>1. d = [a2 EXCEPT !.todo = u]
  OBVIOUS
<1>2. Same(c, d)
  BY SMT DEF CallRecords, Same
<1>3. a1 \in CallRecords
  BY SetPc
<1>4. a2 \in CallRecords
  <2> HIDE DEF a1
  <2> QED BY <1>3, SetBranch
<1> HIDE DEF d, a1, a2
<1>5. d \in CallRecords
  BY <1>1, <1>4, SetTodo
<1> QED BY <1>2, <1>5 DEF d

LEMMA MovesTo ==
  ASSUME call \in [Callers -> CallRecords], NEW p \in Callers, NEW c \in CallRecords, To(p, c)
  PROVE  Moved(p) /\ call'[p] = c
BY SMT DEF To, Moved, Apart

LEMMA Answering ==
  ASSUME call \in [Callers -> CallRecords], NEW p \in Callers, Answer(p)
  PROVE  Moved(p) /\ call'[p] = Idle
BY IdleIsCall, MovesTo DEF Answer

LEMMA Going ==
  ASSUME call \in [Callers -> CallRecords], NEW p \in Callers, NEW s \in PCs, Goto(p, s)
  PROVE  Moved(p) /\ call'[p] = [call[p] EXCEPT !.pc = s]
<1>1. [call[p] EXCEPT !.pc = s] \in CallRecords
  BY SMT DEF CallRecords
<1> QED BY <1>1, MovesTo DEF Goto

(* A step of a call that goes on with its request, or answers.             *)
GoesOn(p) ==
  \/ call'[p] = Idle
  \/ /\ call'[p].request = call[p].request /\ call'[p].alone = call[p].alone
     /\ call'[p].before = call[p].before
Steps(p) == Moved(p) /\ Shape(call'[p]) /\ GoesOn(p)

LEMMA CallKnown ==
  ASSUME IInv, NEW p \in Callers, ~At(p, "idle")
  PROVE  /\ call \in [Callers -> CallRecords] /\ call[p] \in CallRecords /\ Shape(call[p])
         /\ Asked(p) = call[p].request /\ Asked(p) \in Requests
         /\ call[p].pc \in CreatePCs => Asked(p) \in Creates
         /\ call[p].pc \in DropPCs => Asked(p) \in Removes
<1>1. call \in [Callers -> CallRecords] /\ call[p] \in CallRecords /\ Shape(call[p])
  BY DEF IInv, WorktreesTypeOK, Shaped
<1>2. Asked(p) = call[p].request /\ Asked(p) \in Requests
  BY <1>1 DEF Asked, At, Shape
<1> QED BY <1>1, <1>2, RequestKinds DEF Shape

LEMMA StepsTo ==
  ASSUME IInv, NEW p \in Callers, NEW c \in CallRecords, Shape(c), To(p, c),
         Same(call[p], c)
  PROVE  Steps(p) /\ call'[p] = c
<1>1. call \in [Callers -> CallRecords]
  BY DEF IInv, WorktreesTypeOK
<1>2. Moved(p) /\ call'[p] = c
  BY <1>1, MovesTo
<1> QED BY <1>2, Zenon DEF Steps, GoesOn, Same

LEMMA StepsGo ==
  ASSUME IInv, NEW p \in Callers, NEW s \in PCs, Goto(p, s), Shape([call[p] EXCEPT !.pc = s])
  PROVE  Steps(p) /\ call'[p] = [call[p] EXCEPT !.pc = s]
<1>1. call \in [Callers -> CallRecords] /\ call[p] \in CallRecords
  BY DEF IInv, WorktreesTypeOK
<1> DEFINE c == [call[p] EXCEPT !.pc = s]
<1>2. c \in CallRecords
  BY <1>1, SMT DEF CallRecords
<1>3. Same(call[p], c)
  BY <1>1, SMT DEF CallRecords, Same
<1>4. To(p, c)
  BY DEF Goto
<1> HIDE DEF c
<1>5. Steps(p) /\ call'[p] = c
  BY <1>2, <1>3, <1>4, StepsTo DEF c
<1> QED BY <1>5 DEF c

LEMMA StepsAnswer ==
  ASSUME IInv, NEW p \in Callers, Answer(p)
  PROVE  Steps(p) /\ call'[p] = Idle
<1>1. Moved(p) /\ call'[p] = Idle
  BY Answering DEF IInv, WorktreesTypeOK
<1> QED BY <1>1, IdleIsCall, Zenon DEF Steps, GoesOn

(* What the steps of one call keep of what is said of calls.               *)
LEMMA StepsKeep ==
  ASSUME IInv, NEW p \in Callers, ~At(p, "idle"), Steps(p)
  PROVE  Shaped' /\ AloneIsSo' /\ call' \in [Callers -> CallRecords]
<1>1. call' \in [Callers -> CallRecords] /\ \A q \in Callers : q # p => call'[q] = call[q]
  BY DEF Steps, Moved, Apart
<1>2. Shaped'
  BY <1>1, Zenon DEF IInv, Shaped, Steps, Shape
<1>3. call'[p].alone => call[p].alone \/ call'[p].pc = "idle"
  <2>1. Idle.pc = "idle"
    BY DEF Idle
  <2> QED BY <2>1, Zenon DEF Steps, GoesOn
<1>4. AloneIsSo'
  BY <1>1, <1>3, SMT DEF IInv, AloneIsSo, At
<1> QED BY <1>1, <1>2, <1>4

-----------------------------------------------------------------------------
(* The calls' own part, step by step.                                      *)
LEMMA PlanBranch ==
  ASSUME NEW r \in Creates, Plan(r).mode \in {"attached", "created"}
  PROVE  Plan(r).branch \in Branches
<1>1. Want(r).ref \in Branches /\ Want(r).new \in Branches
  BY RefsAssumption, SMT DEF Creates, Want
<1> QED BY <1>1, SMT DEF Plan

LEMMA ResolveSteps ==
  ASSUME IInv, NEW p \in Callers, Resolve(p)
  PROVE  Steps(p)
<1> DEFINE c == call[p]
           b == Plan(Asked(p)).branch
<1>1. c \in CallRecords /\ Shape(c) /\ c.pc = "resolve" /\ Asked(p) \in Creates
  BY CallKnown, SMT DEF Resolve, At, CreatePCs
<1>2. CASE Answer(p)
  BY <1>2, StepsAnswer
<1>3. ASSUME To(p, [c EXCEPT !.pc = "precheck", !.branch = b]), Plan(Asked(p)).mode = "attached"
      PROVE  Steps(p)
  <2> DEFINE d == [c EXCEPT !.pc = "precheck", !.branch = b]
  <2>1. b \in Branches /\ b # None
    BY <1>1, <1>3, PlanBranch, RefsAssumption
  <2>2. d \in CallRecords /\ Same(c, d)
    BY <1>1, <2>1, SetsBranch, Zenon DEF PCs, CreatePCs
  <2>3. Shape(d)
    BY <1>1, <2>1, SMT DEF CallRecords, Shape, CreatePCs, DropPCs
  <2> QED BY <1>3, <2>2, <2>3, StepsTo
<1>4. ASSUME To(p, [c EXCEPT !.pc = "ignore", !.branch = b, !.created = TRUE,
                             !.cut = ImplicitBase]),
             Plan(Asked(p)).mode = "created"
      PROVE  Steps(p)
  <2> DEFINE d == [c EXCEPT !.pc = "ignore", !.branch = b, !.created = TRUE,
                            !.cut = ImplicitBase]
  <2>1. b \in Branches /\ b # None
    BY <1>1, <1>4, PlanBranch, RefsAssumption
  <2>2. ImplicitBase \in SUBSET Work
    BY RefsAssumption, SMT DEF IInv, WorktreesTypeOK, ImplicitBase
  <2>3. d \in CallRecords /\ Same(c, d)
    BY <1>1, <2>1, <2>2, SetsCut, Zenon DEF PCs, CreatePCs
  <2>4. Shape(d)
    BY <1>1, <2>1, SMT DEF CallRecords, Shape, CreatePCs, DropPCs
  <2> QED BY <1>4, <2>3, <2>4, StepsTo
<1> QED BY <1>2, <1>3, <1>4 DEF Resolve

(* A create that goes on with its branch.                                  *)
LEMMA CreateSets ==
  ASSUME IInv, NEW p \in Callers, call[p].pc \in CreatePCs \ {"resolve"}, NEW d \in CallRecords,
         Same(call[p], d), d.branch = call[p].branch, d.pc \in CreatePCs \ {"resolve"}, To(p, d)
  PROVE  Steps(p) /\ call'[p] = d
<1>1. Shape(call[p])
  BY DEF IInv, Shaped
<1>2. Shape(d)
  BY <1>1, SMT DEF Shape, Same, CreatePCs, DropPCs
<1> QED BY <1>2, StepsTo

LEMMA CreateGoes ==
  ASSUME IInv, NEW p \in Callers, call[p].pc \in CreatePCs \ {"resolve"},
         NEW s \in CreatePCs \ {"resolve"}, Goto(p, s)
  PROVE  Steps(p) /\ call'[p] = [call[p] EXCEPT !.pc = s]
<1> DEFINE d == [call[p] EXCEPT !.pc = s]
<1>1. call[p] \in CallRecords
  BY DEF IInv, WorktreesTypeOK
<1>2. d \in CallRecords
  BY <1>1, SetPc DEF PCs
<1>3. Same(call[p], d) /\ d.branch = call[p].branch /\ d.pc = s
  BY <1>1, SMT DEF Same, CallRecords
<1>4. To(p, d)
  BY DEF Goto
<1> HIDE DEF d
<1>5. Steps(p) /\ call'[p] = d
  BY <1>2, <1>3, <1>4, CreateSets
<1> QED BY <1>5 DEF d

LEMMA FailAnswers == ASSUME NEW p \in Callers, FailBeforeTree(p) PROVE Answer(p)
BY DEF FailBeforeTree, RestoreMain

LEMMA BeforeTreeSteps ==
  ASSUME IInv, NEW p \in Callers,
         Precheck(p) \/ SwitchMain(p) \/ CheckHeld(p) \/ EnsureIgnore(p) \/ CutBranch(p)
           \/ AddTree(p) \/ FailAdd(p) \/ LinkAndVerify(p) \/ UndoPrune(p)
  PROVE  Steps(p)
<1> DEFINE c == call[p]
<1>1. c \in CallRecords
  BY DEF IInv, WorktreesTypeOK
<1>2. CASE Answer(p)
  BY <1>2, StepsAnswer
<1>3. ASSUME NEW s \in CreatePCs \ {"resolve"}, Goto(p, s), c.pc \in CreatePCs \ {"resolve"}
      PROVE  Steps(p)
  BY <1>3, CreateGoes
<1>4. CASE Precheck(p)
  <2>1. ASSUME To(p, [c EXCEPT !.pc = "switch", !.prev = mainOn])  PROVE Steps(p)
    <3> DEFINE d == [c EXCEPT !.pc = "switch", !.prev = mainOn]
    <3>1. mainOn \in Branches \cup {None}
      BY DEF IInv, WorktreesTypeOK
    <3>2. d \in CallRecords /\ Same(c, d)
      BY <1>1, <3>1, SetsPrev, Zenon DEF PCs, CreatePCs
    <3>3. d.branch = c.branch /\ d.pc = "switch"
      BY <1>1, SMT DEF CallRecords
    <3>4. c.pc \in CreatePCs \ {"resolve"} /\ "switch" \in CreatePCs \ {"resolve"}
      BY <1>4 DEF Precheck, At, CreatePCs
    <3> QED BY <2>1, <3>2, <3>3, <3>4, CreateSets
  <2> QED BY <1>2, <1>3, <1>4, <2>1 DEF Precheck, At, CreatePCs
<1>5. CASE SwitchMain(p) \/ CheckHeld(p) \/ EnsureIgnore(p) \/ LinkAndVerify(p) \/ UndoPrune(p)
  BY <1>2, <1>3, <1>5, FailAnswers
     DEF SwitchMain, CheckHeld, EnsureIgnore, LinkAndVerify, UndoPrune, At, CreatePCs
<1>6. CASE CutBranch(p) \/ AddTree(p) \/ FailAdd(p)
  BY <1>2, <1>3, <1>6, FailAnswers DEF CutBranch, AddTree, FailAdd, At, CreatePCs
<1> QED BY <1>4, <1>5, <1>6

LEMMA UndoSteps ==
  ASSUME IInv, NEW p \in Callers, UndoMain(p) \/ UndoTree(p) \/ UndoDir(p) \/ UndoBranch(p)
  PROVE  Steps(p)
<1> DEFINE c == call[p]
           Undos == {"undo_main", "undo_tree", "undo_dir", "undo_branch", "undo_prune"}
<1>1. c \in CallRecords /\ c.pc \in CreatePCs \ {"resolve"}
  BY DEF IInv, WorktreesTypeOK, UndoMain, UndoTree, UndoDir, UndoBranch, At, CreatePCs
<1>2. Undos \subseteq CreatePCs \ {"resolve"} /\ Undos \subseteq PCs
  BY DEF CreatePCs, PCs
<1>3. ASSUME NEW s \in Undos, Goto(p, s)  PROVE Steps(p)
  BY <1>1, <1>2, <1>3, CreateGoes
<1>4. ASSUME NEW s \in Undos, To(p, [c EXCEPT !.pc = s, !.clean = FALSE])  PROVE Steps(p)
  <2> DEFINE d == [c EXCEPT !.pc = s, !.clean = FALSE]
  <2>1. d \in CallRecords /\ Same(c, d)
    BY <1>1, <1>2, SetsClean, Zenon
  <2>2. d.branch = c.branch /\ d.pc = s
    BY <1>1, SMT DEF CallRecords
  <2> HIDE DEF d
  <2> QED BY <1>1, <1>2, <1>4, <2>1, <2>2, CreateSets DEF d
<1>5. ASSUME NEW s \in Undos, To(p, [c EXCEPT !.pc = s, !.removed = TRUE])  PROVE Steps(p)
  <2> DEFINE d == [c EXCEPT !.pc = s, !.removed = TRUE]
  <2>1. d \in CallRecords /\ Same(c, d)
    BY <1>1, <1>2, SetsRemoved, Zenon
  <2>2. d.branch = c.branch /\ d.pc = s
    BY <1>1, SMT DEF CallRecords
  <2> HIDE DEF d
  <2> QED BY <1>1, <1>2, <1>5, <2>1, <2>2, CreateSets DEF d
<1>6. ASSUME NEW s \in Undos, To(p, [c EXCEPT !.pc = s, !.gone = TRUE])  PROVE Steps(p)
  <2> DEFINE d == [c EXCEPT !.pc = s, !.gone = TRUE]
  <2>1. d \in CallRecords /\ Same(c, d)
    BY <1>1, <1>2, SetsGone, Zenon
  <2>2. d.branch = c.branch /\ d.pc = s
    BY <1>1, SMT DEF CallRecords
  <2> HIDE DEF d
  <2> QED BY <1>1, <1>2, <1>6, <2>1, <2>2, CreateSets DEF d
<1>7. /\ "undo_tree" \in Undos /\ "undo_dir" \in Undos
      /\ "undo_branch" \in Undos /\ "undo_prune" \in Undos
  OBVIOUS
<1> HIDE DEF Undos
<1> QED
  BY <1>3, <1>4, <1>5, <1>6, <1>7, Zenon
     DEF UndoMain, RestoreMain, UndoTree, UndoDir, UndoBranch

(* A remove or a sweep that goes on.                                       *)
LEMMA RemoveSets ==
  ASSUME IInv, NEW p \in Callers, ~At(p, "idle"), NEW d \in CallRecords,
         Same(call[p], d), d.pc \in RemovePCs, To(p, d),
         d.pc \in DropPCs => call[p].pc \in DropPCs,
         d.pc \in {"merged", "delete"} => d.branch # None
  PROVE  Steps(p) /\ call'[p] = d
<1>1. Shape(call[p])
  BY DEF IInv, Shaped
<1>2. Shape(d)
  BY <1>1, SMT DEF Shape, Same, CreatePCs, DropPCs, RemovePCs, At
<1> QED BY <1>2, StepsTo

LEMMA RemoveGoes ==
  ASSUME IInv, NEW p \in Callers, ~At(p, "idle"), NEW s \in RemovePCs, Goto(p, s),
         s \in DropPCs => call[p].pc \in DropPCs,
         s \in {"merged", "delete"} => call[p].branch # None
  PROVE  Steps(p) /\ call'[p] = [call[p] EXCEPT !.pc = s]
<1> DEFINE d == [call[p] EXCEPT !.pc = s]
<1>1. call[p] \in CallRecords
  BY DEF IInv, WorktreesTypeOK
<1>2. d \in CallRecords
  BY <1>1, SetPc DEF PCs
<1>3. Same(call[p], d) /\ d.branch = call[p].branch /\ d.pc = s
  BY <1>1, SMT DEF Same, CallRecords
<1>4. To(p, d)
  BY DEF Goto
<1> HIDE DEF d
<1>5. Steps(p) /\ call'[p] = d
  BY <1>2, <1>3, <1>4, RemoveSets
<1> QED BY <1>5 DEF d

(* What a worktree that is gone may have left is a branch that exists.     *)
LEMMA LeftoverExists ==
  ASSUME NEW r \in Removes, Leftover(r) # None
  PROVE  Leftover(r) \in exists /\ Leftover(r) \in {r.branch, NewRef[r.name], OwnRef[r.name]}
<1> DEFINE present == <<r.branch, NewRef[r.name], OwnRef[r.name]>>
           found == {i \in 1..3 : present[i] \in exists}
<1>1. found # {}
  BY DEF Leftover
<1>2. \E i \in found : \A j \in found : i <= j
  <2>1. found \subseteq {1, 2, 3}
    OBVIOUS
  <2> HIDE DEF found
  <2>2. CASE 1 \in found
    BY <2>1, <2>2, SMT
  <2>3. CASE 1 \notin found /\ 2 \in found
    BY <2>1, <2>3, SMT
  <2>4. CASE 1 \notin found /\ 2 \notin found
    <3>1. found = {3}
      BY <1>1, <2>1, <2>4
    <3> QED BY <3>1, SMT
  <2> QED BY <2>2, <2>3, <2>4
<1>3. PICK i \in found : Leftover(r) = present[i]
  BY <1>1, <1>2, Zenon DEF Leftover
<1> QED BY <1>3, SMT

LEMMA FindSteps ==
  ASSUME IInv, NEW p \in Callers, Find(p)
  PROVE  Steps(p)
<1> DEFINE c == call[p]
           r == Asked(p)
           found == IF MyTree(p).dir THEN MyTree(p).branch ELSE None
<1>1. ~At(p, "idle") /\ c.pc = "find"
  BY DEF Find, At
<1>2. c \in CallRecords /\ r \in Removes
  BY <1>1, CallKnown DEF DropPCs
<1>3. CASE Answer(p)
  BY <1>3, StepsAnswer
<1>4. ASSUME MyTree(p) # None, To(p, [c EXCEPT !.pc = "dirty", !.branch = found])
      PROVE  Steps(p)
  <2> DEFINE d == [c EXCEPT !.pc = "dirty", !.branch = found]
  <2>1. r.name \in Names
    BY <1>2, SMT DEF Removes
  <2>2. found \in Branches \cup {None}
    <3>1. MyTree(p) \in Trees
      BY <1>4, <2>1 DEF MyTree, IInv, WorktreesTypeOK
    <3> QED BY <3>1, SMT DEF Trees
  <2>3. d \in CallRecords /\ Same(c, d)
    BY <1>2, <2>2, SetsBranch, Zenon DEF PCs, RemovePCs
  <2>4. d.pc = "dirty"
    BY <1>2, SMT DEF CallRecords
  <2> HIDE DEF d
  <2> QED BY <1>1, <1>4, <2>3, <2>4, RemoveSets DEF d, RemovePCs, DropPCs
<1>5. ASSUME Leftover(r) # None,
             To(p, [c EXCEPT !.pc = "clean", !.branch = Leftover(r), !.gone = TRUE])
      PROVE  Steps(p)
  <2> DEFINE d == [c EXCEPT !.pc = "clean", !.branch = Leftover(r), !.gone = TRUE]
  <2>1. Leftover(r) \in Branches \cup {None}
    BY <1>2, <1>5, LeftoverExists DEF IInv, WorktreesTypeOK
  <2>2. d \in CallRecords /\ Same(c, d)
    BY <1>2, <2>1, SetsLeft, Zenon DEF PCs, RemovePCs
  <2>3. d.pc = "clean"
    BY <1>2, SMT DEF CallRecords
  <2> HIDE DEF d
  <2> QED BY <1>1, <1>5, <2>2, <2>3, RemoveSets DEF d, RemovePCs, DropPCs
<1> QED BY <1>3, <1>4, <1>5, Zenon DEF Find

LEMMA DropSteps ==
  ASSUME IInv, NEW p \in Callers,
         CheckDirty(p) \/ CheckUnpushed(p) \/ DropTree(p) \/ CleanTask(p) \/ Die(p)
  PROVE  Steps(p)
<1>1. ~At(p, "idle")
  BY DEF CheckDirty, CheckUnpushed, DropTree, CleanTask, Die, At
<1>2. CASE Answer(p)
  BY <1>2, StepsAnswer
<1>3. ASSUME NEW s \in DropPCs, Goto(p, s), call[p].pc \in DropPCs
      PROVE  Steps(p)
  <2>1. s \in RemovePCs /\ s \notin {"merged", "delete"}
    BY <1>3 DEF DropPCs, RemovePCs
  <2> QED BY <1>1, <1>3, <2>1, RemoveGoes
<1>4. CASE CheckDirty(p) \/ CheckUnpushed(p) \/ DropTree(p) \/ Die(p)
  BY <1>2, <1>3, <1>4 DEF CheckDirty, CheckUnpushed, DropTree, Die, At, DropPCs
<1>5. CASE CleanTask(p)
  <2>1. "merged" \in RemovePCs /\ "merged" \notin DropPCs
    BY DEF RemovePCs, DropPCs
  <2>2. ASSUME Goto(p, "merged"), call[p].branch # None  PROVE Steps(p)
    BY <1>1, <2>1, <2>2, RemoveGoes
  <2> QED BY <1>2, <1>5, <2>2 DEF CleanTask
<1> QED BY <1>4, <1>5

LEMMA DeleteSteps ==
  ASSUME IInv, NEW p \in Callers, MeasureMerged(p) \/ DeleteBranch(p) \/ Sweep(p)
  PROVE  Steps(p)
<1> DEFINE c == call[p]
<1>1. ~At(p, "idle") /\ c \in CallRecords
  BY DEF MeasureMerged, DeleteBranch, Sweep, At, IInv, WorktreesTypeOK
<1>2. CASE Answer(p)
  BY <1>2, StepsAnswer
<1>3. CASE MeasureMerged(p)
  <2> DEFINE sure == \/ Asked(p).op = "remove" /\ Asked(p).forceBranch
                     \/ call[p].branch \in exists /\ MergeHolds(call[p].branch)
             d == [c EXCEPT !.pc = "delete", !.sure = sure]
  <2>1. sure \in BOOLEAN
    <3>1. Asked(p) \in Requests
      BY <1>1, CallKnown
    <3> QED BY <3>1, RequestKinds, SMT DEF Removes
  <2>2. To(p, d) /\ c.pc = "merged"
    BY <1>3 DEF MeasureMerged, At
  <2> HIDE DEF sure
  <2>3. d \in CallRecords /\ Same(c, d)
    BY <1>1, <2>1, SetsSure, Zenon DEF PCs, RemovePCs
  <2>4. d.pc = "delete" /\ d.branch = c.branch /\ c.branch # None
    <3>1. Shape(c)
      BY DEF IInv, Shaped
    <3> QED BY <1>1, <2>2, <3>1, SMT DEF CallRecords, Shape
  <2> HIDE DEF d
  <2> QED BY <1>1, <2>2, <2>3, <2>4, RemoveSets DEF RemovePCs, DropPCs
<1>4. ASSUME NEW b \in Branches, NEW u \in SUBSET Branches,
             To(p, [c EXCEPT !.pc = "merged", !.branch = b, !.todo = u])
      PROVE  Steps(p)
  <2> DEFINE d == [c EXCEPT !.pc = "merged", !.branch = b, !.todo = u]
  <2>1. d \in CallRecords /\ Same(c, d)
    BY <1>1, SetsTodo, Zenon DEF PCs, RemovePCs
  <2>2. d.pc = "merged" /\ d.branch = b /\ b # None
    BY <1>1, RefsAssumption, SMT DEF CallRecords
  <2> HIDE DEF d
  <2> QED BY <1>1, <1>4, <2>1, <2>2, RemoveSets DEF d, RemovePCs, DropPCs
<1>5. CASE DeleteBranch(p)
  <2>1. c.todo \subseteq Branches
    BY <1>1, SMT DEF CallRecords
  <2>2. ASSUME NEW b \in c.todo, To(p, [c EXCEPT !.pc = "merged", !.branch = b, !.todo = @ \ {b}])
        PROVE  Steps(p)
    <3>1. c.todo \ {b} \in SUBSET Branches /\ b \in Branches
      BY <2>1
    <3>2. To(p, [c EXCEPT !.pc = "merged", !.branch = b, !.todo = c.todo \ {b}])
      BY <2>2
    <3> QED BY <1>4, <3>1, <3>2
  <2> QED BY <1>2, <1>5, <2>2 DEF DeleteBranch, AfterDelete
<1>6. CASE Sweep(p)
  <2>1. Candidates \subseteq Branches
    BY DEF Candidates, IInv, WorktreesTypeOK
  <2>2. ASSUME NEW b \in Candidates,
               To(p, [c EXCEPT !.pc = "merged", !.branch = b, !.todo = Candidates \ {b}])
        PROVE  Steps(p)
    BY <1>4, <2>1, <2>2
  <2> QED BY <1>2, <1>6, <2>2 DEF Sweep
<1> QED BY <1>3, <1>5, <1>6

LEMMA FreshIsCall ==
  ASSUME IInv, NEW p \in Callers, NEW r \in Requests
  PROVE  Fresh(p, r) \in CallRecords /\ Shape(Fresh(p, r))
<1> DEFINE alone == ~Others(p)
           branch == IF First(r) = "merged" THEN r.branch ELSE None
           before == IF r.op = "create" /\ ~Others(p)
                     THEN [main |-> mainOn, had |-> exists, tree |-> tree[r.name]] ELSE None
           a == [Idle EXCEPT !.pc = First(r)]
           b == [a EXCEPT !.request = r]
           c == [b EXCEPT !.alone = alone]
           d == [c EXCEPT !.branch = branch]
<1>1. Fresh(p, r) = [d EXCEPT !.before = before]
  BY DEF Fresh
<1>2. First(r) \in {"resolve", "merged", "find", "list"} /\ First(r) \in PCs
  BY DEF First, PCs, CreatePCs, RemovePCs
<1>3. alone \in BOOLEAN
  BY DEF Others
<1>4. branch \in Branches \cup {None} /\ (First(r) = "merged" => branch # None)
  <2>1. First(r) = "merged" => r \in Removes /\ r.only
    BY RequestKinds DEF First
  <2>2. First(r) = "merged" => r.branch # None /\ r.branch \in Branches \cup {None}
    BY <2>1, RequestsAssumption, SMT DEF Removes
  <2> QED BY <2>2
<1>5. before \in Snapshots \cup {None}
  <2>1. r.op = "create" => r.name \in Names
    BY RequestKinds, SMT DEF Creates
  <2>2. mainOn \in Branches /\ exists \in SUBSET Branches
    BY DEF IInv, WorktreesTypeOK
  <2>3. r.op = "create" => tree[r.name] \in Trees \cup {None}
    BY <2>1 DEF IInv, WorktreesTypeOK
  <2> QED BY <2>2, <2>3, SMT DEF Snapshots
<1>6. Fresh(p, r) \in CallRecords
  <2>1. a \in CallRecords
    BY <1>2, IdleIsCall, SetPc
  <2> HIDE DEF alone, branch, before, a
  <2>2. b \in CallRecords
    BY <2>1, SetRequest
  <2> HIDE DEF b
  <2>3. c \in CallRecords
    BY <1>3, <2>2, SetAlone
  <2> HIDE DEF c
  <2>4. d \in CallRecords
    BY <1>4, <2>3, SetBranch
  <2> HIDE DEF d
  <2> QED BY <1>1, <1>5, <2>4, SetBefore
<1>7. /\ Fresh(p, r).pc = First(r) /\ Fresh(p, r).request = r /\ Fresh(p, r).branch = branch
  BY DEF Fresh, Idle
<1>8. /\ First(r) = "resolve" => r.op = "create"
      /\ First(r) = "find" => r.op = "remove"
  BY DEF First
<1> HIDE DEF branch
<1> QED BY <1>2, <1>4, <1>6, <1>7, <1>8, SMT DEF Shape, CreatePCs, DropPCs

LEMMA NotAloneIsCall ==
  ASSUME NEW c \in CallRecords, Shape(c)
  PROVE  /\ NotAlone(c) \in CallRecords /\ Shape(NotAlone(c))
         /\ ~NotAlone(c).alone /\ NotAlone(c).pc = c.pc
<1> DEFINE a == [c EXCEPT !.alone = FALSE]
<1>1. NotAlone(c) = [a EXCEPT !.before = None]
  BY DEF NotAlone
<1>2. NotAlone(c) \in CallRecords
  <2>1. a \in CallRecords
    BY SetAlone
  <2> HIDE DEF a
  <2> QED BY <1>1, <2>1, SetBefore
<1>3. /\ NotAlone(c).pc = c.pc /\ NotAlone(c).request = c.request
      /\ NotAlone(c).branch = c.branch /\ ~NotAlone(c).alone
  BY SMT DEF NotAlone, CallRecords
<1> QED BY <1>2, <1>3, SMT DEF Shape

(* A call begins: those under way are not alone any more.                  *)
LEMMA BeginSteps ==
  ASSUME IInv, NEW p \in Callers, Begin(p)
  PROVE  Shaped' /\ AloneIsSo' /\ call' \in [Callers -> CallRecords]
<1>1. PICK r \in Requests :
        call' = [q \in Callers |-> IF q = p THEN Fresh(p, r)
                                  ELSE IF At(q, "idle") THEN call[q] ELSE NotAlone(call[q])]
  BY DEF Begin
<1>2. \A q \in Callers : call[q] \in CallRecords /\ Shape(call[q])
  BY DEF IInv, WorktreesTypeOK, Shaped
<1>3. \A q \in Callers : call'[q] \in CallRecords /\ Shape(call'[q])
  BY <1>1, <1>2, FreshIsCall, NotAloneIsCall, Zenon
<1>4. call' \in [Callers -> CallRecords]
  BY <1>1, <1>3, Zenon
<1>5. Shaped'
  BY <1>3, Zenon DEF Shaped, Shape
<1>6. AloneIsSo'
  <2>1. Fresh(p, r).alone = ~Others(p)
    BY DEF Fresh, Idle
  <2> SUFFICES ASSUME NEW q \in Callers, NEW o \in Callers, q # o,
                      call'[q].alone, call'[q].pc # "idle"
               PROVE  call'[o].pc = "idle"
    BY DEF AloneIsSo, At
  <2>2. q = p
    BY <1>1, <1>2, NotAloneIsCall DEF At
  <2>3. At(o, "idle")
    BY <1>1, <2>1, <2>2 DEF Others
  <2> QED BY <1>1, <2>2, <2>3 DEF At
<1> QED BY <1>4, <1>5, <1>6

-----------------------------------------------------------------------------
(* The repository's own part.                                              *)
Repository ==
  /\ hasRemote \in BOOLEAN
  /\ exists \subseteq Branches
  /\ work \in [Branches -> SUBSET Work]
  /\ remote \in [Branches -> SUBSET Work]
  /\ upstream \in [Branches -> {"none", "live", "gone"}]
  /\ landed \subseteq Work /\ discarded \subseteq Work
  /\ mainDirty \in BOOLEAN
  /\ tree \in [Names -> Trees \cup {None}]
  /\ task \subseteq Branches
Sound == Repository /\ OneCheckout

LEMMA TypesMeet ==
  ASSUME Sound, Shaped, call \in [Callers -> CallRecords], calls \in 0..MaxCalls
  PROVE  WorktreesTypeOK
<1>1. \A p \in Callers : Shape(call[p])
  BY DEF Shaped
<1>2. \A p \in Callers :
        /\ call[p].pc \in CreatePCs => call[p].request.op = "create"
        /\ call[p].pc \in {"merged", "delete"} => call[p].branch # None
  BY <1>1, Zenon DEF Shape
<1> QED BY <1>2 DEF Sound, Repository, OneCheckout, WorktreesTypeOK

LEMMA TypesPrimed ==
  ASSUME Sound', Shaped', call' \in [Callers -> CallRecords], calls' \in 0..MaxCalls
  PROVE  WorktreesTypeOK'
<1>1. \A p \in Callers :
        /\ call'[p].pc \in CreatePCs => call'[p].request.op = "create"
        /\ call'[p].pc \in {"merged", "delete"} => call'[p].branch # None
  BY Zenon DEF Shaped, Shape
<1> QED BY <1>1 DEF Sound, Repository, OneCheckout, WorktreesTypeOK

LEMMA IsSound == ASSUME IInv PROVE Sound /\ calls \in 0..MaxCalls
BY DEF IInv, WorktreesTypeOK, Sound, Repository

LEMMA OneChanged ==
  ASSUME NEW S, NEW T, NEW f \in [S -> T], NEW x, NEW y \in T
  PROVE  /\ [f EXCEPT ![x] = y] \in [S -> T]
         /\ x \in S => [f EXCEPT ![x] = y][x] = y
         /\ \A m \in S : m # x => [f EXCEPT ![x] = y][m] = f[m]
<1>1. [f EXCEPT ![x] = y] = [m \in S |-> IF m = x THEN y ELSE f[m]]
  OBVIOUS
<1>2. \A m \in S : (IF m = x THEN y ELSE f[m]) \in T
  OBVIOUS
<1>3. [m \in S |-> IF m = x THEN y ELSE f[m]] \in [S -> T]
  BY <1>2, Zenon
<1> QED BY <1>1, <1>3, Zenon

LEMMA DirSet ==
  ASSUME NEW t \in Trees, NEW x \in BOOLEAN
  PROVE  [t EXCEPT !.dir = x] \in Trees /\ [t EXCEPT !.dir = x].branch = t.branch
BY SMT DEF Trees

LEMMA TreeContents ==
  ASSUME NEW t \in Trees, NEW x \in SUBSET Work
  PROVE  /\ WithoutDir(t) \in Trees /\ WithoutDir(t).branch = t.branch
         /\ [t EXCEPT !.dirty = x] \in Trees /\ [t EXCEPT !.dirty = x].branch = t.branch
<1>1. [t EXCEPT !.dirty = x] \in Trees /\ [t EXCEPT !.dirty = x].branch = t.branch
  BY SMT DEF Trees
<1>2. WithoutDir(t) \in Trees /\ WithoutDir(t).branch = t.branch
  <2> DEFINE s == [t EXCEPT !.dir = FALSE]
  <2>1. s \in Trees /\ s.branch = t.branch
    BY DirSet
  <2>2. WithoutDir(t) = [s EXCEPT !.dirty = {}]
    BY DEF WithoutDir
  <2> HIDE DEF s
  <2>3. {} \in SUBSET Work
    OBVIOUS
  <2> QED BY <2>1, <2>2, <2>3, SMT DEF Trees
<1> QED BY <1>1, <1>2

(* A checkout goes, or its contents change; no other comes.                *)
TreesFewer ==
  /\ tree' \in [Names -> Trees \cup {None}]
  /\ \A n \in Names : tree'[n] # None => tree[n] # None /\ tree'[n].branch = tree[n].branch

LEMMA FewerKeeps ==
  ASSUME Sound, TreesFewer, exists' = exists, mainOn' = mainOn
  PROVE  OneCheckout'
BY DEF Sound, OneCheckout, TreesFewer

(* The main checkout goes to a branch that no worktree has.                *)
LEMMA MainKeeps ==
  ASSUME Sound, NEW b, CanSwitch(b), mainOn' = b, exists' = exists, tree' = tree
  PROVE  OneCheckout'
BY DEF Sound, OneCheckout, CanSwitch, HeldBySomeTree

LEMMA RestoreKeeps ==
  ASSUME Sound, NEW p \in Callers, exists' = exists, tree' = tree,
         \/ mainOn' = mainOn
         \/ CanSwitch(call[p].prev) /\ mainOn' = call[p].prev
  PROVE  OneCheckout'
<1>1. CASE mainOn' = mainOn
  BY <1>1 DEF Sound, OneCheckout
<1> QED BY <1>1, MainKeeps

(* A branch that no checkout has is forgotten.                             *)
LEMMA ForgetKeeps ==
  ASSUME Sound, NEW b, ~Held(b), ForgetBranch(b), mainOn' = mainOn, tree' = tree
  PROVE  /\ OneCheckout' /\ exists' \subseteq Branches
         /\ work' \in [Branches -> SUBSET Work]
         /\ upstream' \in [Branches -> {"none", "live", "gone"}]
<1>1. OneCheckout'
  BY SMT DEF Sound, OneCheckout, ForgetBranch, Held, HeldBySomeTree
<1>2. exists' \subseteq Branches
  BY DEF Sound, Repository, ForgetBranch
<1>3. work' \in [Branches -> SUBSET Work]
  <2>1. work \in [Branches -> SUBSET Work] /\ {} \in SUBSET Work
    BY DEF Sound, Repository
  <2> QED BY <2>1, OneChanged, Zenon DEF ForgetBranch
<1>4. upstream' \in [Branches -> {"none", "live", "gone"}]
  <2>1. upstream \in [Branches -> {"none", "live", "gone"}] /\ "none" \in {"none", "live", "gone"}
    BY DEF Sound, Repository
  <2> QED BY <2>1, OneChanged, Zenon DEF ForgetBranch
<1> QED BY <1>1, <1>2, <1>3, <1>4

(* What a create that cuts or adds has asked for.                          *)
LEMMA Adding ==
  ASSUME IInv, NEW p \in Callers, call[p].pc \in {"cut", "add"}
  PROVE  /\ call[p].branch \in Branches /\ Asked(p).name \in Names
         /\ Asked(p).base \in Branches \cup {None}
<1>1. Asked(p) \in Creates /\ Shape(call[p]) /\ call[p] \in CallRecords
  BY CallKnown DEF CreatePCs, At
<1>2. call[p].branch # None
  BY <1>1 DEF Shape, CreatePCs
<1> QED BY <1>1, <1>2, SMT DEF CallRecords, Creates

LEMMA FailKeeps ==
  ASSUME IInv, NEW p \in Callers, FailBeforeTree(p)
  PROVE  Sound'
<1>1. Sound
  BY IsSound
<1>2. OneCheckout'
  BY <1>1, RestoreKeeps DEF FailBeforeTree, RestoreMain, refs
<1> QED BY <1>1, <1>2 DEF FailBeforeTree, refs, Sound, Repository

(* A branch is cut that is new.                                            *)
LEMMA CutKeeps ==
  ASSUME IInv, NEW p \in Callers, CutBranch(p)
  PROVE  Sound'
<1> DEFINE b == call[p].branch
           base == Asked(p).base
           s == IF base = None THEN call[p].cut ELSE work[base]
<1>1. Sound
  BY IsSound
<1>2. CASE FailBeforeTree(p)
  BY <1>2, FailKeeps
<1>3. CASE ~FailBeforeTree(p)
  <2>1. b \in Branches /\ base \in Branches \cup {None}
    BY Adding DEF CutBranch, At
  <2>2. /\ exists' = exists \cup {b} /\ work' = [work EXCEPT ![b] = s]
        /\ UNCHANGED <<hasRemote, remote, upstream, landed, sites, discarded, calls>>
    BY <1>3 DEF CutBranch
  <2>3. s \in SUBSET Work
    BY <1>1, <2>1, SMT DEF IInv, WorktreesTypeOK, CallRecords
  <2> HIDE DEF s, b, base
  <2>4. work' \in [Branches -> SUBSET Work]
    BY <1>1, <2>2, <2>3, OneChanged, Zenon DEF Sound, Repository
  <2>5. exists' \subseteq Branches /\ exists \subseteq exists'
    BY <1>1, <2>1, <2>2 DEF Sound, Repository
  <2>6. OneCheckout'
    BY <1>1, <2>2, <2>5 DEF Sound, OneCheckout, sites
  <2> QED BY <1>1, <2>2, <2>4, <2>5, <2>6 DEF Sound, Repository, sites
<1> QED BY <1>2, <1>3

(* A worktree is added on a branch that no checkout has.                   *)
LEMMA AddKeeps ==
  ASSUME IInv, NEW p \in Callers, AddTree(p)
  PROVE  Sound'
<1> DEFINE b == call[p].branch
           n == Asked(p).name
           t == NewTree(b)
<1>1. Sound
  BY IsSound
<1>2. b \in Branches /\ n \in Names
  BY Adding DEF AddTree, At
<1>3. UNCHANGED <<refs, mainOn, mainDirty, task, discarded>>
  BY DEF AddTree
<1>4. CASE tree' = tree
  BY <1>1, <1>3, <1>4 DEF refs, Sound, Repository, OneCheckout
<1>5. CASE CanAdd(p) /\ tree' = [tree EXCEPT ![n] = t]
  <2>1. t \in Trees /\ t.branch = b
    BY <1>2, SMT DEF Trees, NewTree
  <2>2. b \in exists /\ mainOn # b /\ \A m \in Names : tree[m] # None => tree[m].branch # b
    BY <1>1, <1>5, SMT DEF CanAdd, Held, HeldBySomeTree, Sound, OneCheckout
  <2> HIDE DEF t, b, n
  <2>3. tree' \in [Names -> Trees \cup {None}] /\ tree'[n] = t
        /\ \A m \in Names : m # n => tree'[m] = tree[m]
    BY <1>1, <1>2, <1>5, <2>1, SMT DEF Sound, Repository
  <2>4. OneCheckout'
    BY <1>1, <1>2, <1>3, <2>1, <2>2, <2>3 DEF Sound, OneCheckout, refs
  <2> QED BY <1>1, <1>3, <2>3, <2>4 DEF Sound, Repository, refs
<1> QED BY <1>4, <1>5 DEF AddTree

(* The steps of create and of its rollback.                                *)
LEMMA CreateSound ==
  ASSUME IInv, NEW p \in Callers, Create(p)
  PROVE  Sound'
<1>1. Sound
  BY IsSound
<1>2. CASE UNCHANGED <<refs, sites, discarded>>
  BY <1>1, <1>2 DEF refs, sites, Sound, Repository, OneCheckout
<1>3. CASE Resolve(p) \/ Precheck(p) \/ LinkAndVerify(p)
  BY <1>2, <1>3 DEF Resolve, Precheck, LinkAndVerify
<1>4. CASE SwitchMain(p)
  <2>1. OneCheckout'
    <3>1. CASE CanSwitch(Merge) /\ mainOn' = Merge
      BY <1>1, <1>4, <3>1, MainKeeps DEF SwitchMain, refs
    <3>2. CASE mainOn' = mainOn
      BY <1>1, <1>4, <3>2 DEF SwitchMain, refs, Sound, OneCheckout
    <3> QED BY <1>4, <3>1, <3>2 DEF SwitchMain
  <2> QED BY <1>1, <1>4, <2>1 DEF SwitchMain, refs, Sound, Repository
<1>5. CASE FailBeforeTree(p)
  BY <1>5, FailKeeps
<1>6. CASE CheckHeld(p) \/ EnsureIgnore(p) \/ FailAdd(p)
  BY <1>2, <1>5, <1>6 DEF CheckHeld, EnsureIgnore, FailAdd
<1>7. CASE CutBranch(p) \/ AddTree(p)
  BY <1>7, CutKeeps, AddKeeps
<1>8. CASE UndoMain(p)
  <2>1. OneCheckout'
    BY <1>1, <1>8, RestoreKeeps DEF UndoMain, RestoreMain, refs
  <2> QED BY <1>1, <1>8, <2>1 DEF UndoMain, refs, Sound, Repository
<1>9. CASE UndoTree(p) \/ UndoDir(p) \/ UndoPrune(p)
  <2>1. tree \in [Names -> Trees \cup {None}]
    BY <1>1 DEF Sound, Repository
  <2>2. TreesFewer
    <3> DEFINE n == Asked(p).name
    <3>1. CASE tree' = tree
      BY <2>1, <3>1 DEF TreesFewer
    <3>2. CASE tree' = [tree EXCEPT ![n] = None]
      <4>1. None \in Trees \cup {None}
        OBVIOUS
      <4> QED BY <2>1, <3>2, <4>1, OneChanged, Zenon DEF TreesFewer
    <3>3. CASE HasDir(n) /\ tree' = [tree EXCEPT ![n] = WithoutDir(tree[n])]
      <4>1. CASE n \in Names
        <5>1. tree[n] \in Trees /\ tree[n] # None
          BY <2>1, <3>3, <4>1 DEF HasDir
        <5>2. /\ WithoutDir(tree[n]) \in Trees \cup {None}
              /\ WithoutDir(tree[n]).branch = tree[n].branch
          BY <5>1, TreeContents
        <5> HIDE DEF n
        <5> QED BY <2>1, <3>3, <4>1, <5>1, <5>2, OneChanged, Zenon DEF TreesFewer
      <4>2. CASE n \notin Names
        <5>1. tree' = tree
          <6> HIDE DEF n
          <6> QED BY <2>1, <3>3, <4>2, SMT
        <5> QED BY <2>1, <5>1 DEF TreesFewer
      <4> QED BY <4>1, <4>2
    <3>4. CASE Prune
      BY <2>1, <3>4, SMT DEF TreesFewer, Prune
    <3> QED BY <1>9, <3>1, <3>2, <3>3, <3>4 DEF UndoTree, UndoDir, UndoPrune
  <2>3. OneCheckout'
    BY <1>1, <1>9, <2>2, FewerKeeps DEF UndoTree, UndoDir, UndoPrune, refs
  <2> QED BY <1>1, <1>9, <2>2, <2>3
          DEF UndoTree, UndoDir, UndoPrune, refs, Sound, Repository, TreesFewer
<1>10. CASE UndoBranch(p)
  <2>1. CASE UNCHANGED refs
    BY <1>2, <1>10, <2>1 DEF UndoBranch
  <2>2. CASE ~Held(call[p].branch) /\ ForgetBranch(call[p].branch)
    <3>1. OneCheckout' /\ exists' \subseteq Branches /\ work' \in [Branches -> SUBSET Work]
          /\ upstream' \in [Branches -> {"none", "live", "gone"}]
      BY <1>1, <1>10, <2>2, ForgetKeeps DEF UndoBranch, sites
    <3> QED BY <1>1, <1>10, <2>2, <3>1 DEF UndoBranch, sites, ForgetBranch, Sound, Repository
  <2> QED BY <1>10, <2>1, <2>2 DEF UndoBranch
<1> QED BY <1>3, <1>4, <1>6, <1>7, <1>8, <1>9, <1>10 DEF Create
(* The steps of remove and sweep, and the end of a process.                *)
LEMMA RemoveSound ==
  ASSUME IInv, NEW p \in Callers, Remove(p) \/ Sweep(p) \/ Die(p)
  PROVE  Sound'
<1>1. Sound
  BY IsSound
<1>2. CASE UNCHANGED <<refs, sites, discarded>>
  BY <1>1, <1>2 DEF refs, sites, Sound, Repository, OneCheckout
<1>3. CASE Find(p) \/ CheckDirty(p) \/ CheckUnpushed(p) \/ MeasureMerged(p) \/ Sweep(p) \/ Die(p)
  BY <1>2, <1>3 DEF Find, CheckDirty, CheckUnpushed, MeasureMerged, Sweep, Die
<1>4. CASE DropTree(p)
  <2>1. TreesFewer
    <3>1. CASE tree' = tree
      BY <1>1, <3>1 DEF TreesFewer, Sound, Repository
    <3>2. CASE tree' = [n \in Names |->
             IF n = Asked(p).name \/ (tree[n] # None /\ ~tree[n].dir) THEN None ELSE tree[n]]
      BY <1>1, <3>2, Zenon DEF TreesFewer, Sound, Repository
    <3> QED BY <1>4, <3>1, <3>2 DEF DropTree
  <2>2. discarded' \subseteq Work
    <3>1. CASE discarded' = discarded
      BY <1>1, <3>1 DEF Sound, Repository
    <3>2. CASE MyTree(p) # None /\ discarded' = discarded \cup MyTree(p).dirty
      <4>1. call[p].pc \in DropPCs /\ ~At(p, "idle")
        BY <1>4 DEF DropTree, At, DropPCs
      <4>2. Asked(p).name \in Names
        BY <4>1, CallKnown, SMT DEF Removes
      <4>3. MyTree(p) \in Trees
        BY <1>1, <3>2, <4>2 DEF MyTree, Sound, Repository
      <4>4. MyTree(p).dirty \subseteq Work
        BY <4>3, SMT DEF Trees
      <4> QED BY <1>1, <3>2, <4>4 DEF Sound, Repository
    <3> QED BY <1>4, <3>1, <3>2 DEF DropTree
  <2>3. OneCheckout'
    BY <1>1, <1>4, <2>1, FewerKeeps DEF DropTree, refs
  <2> QED BY <1>1, <1>4, <2>1, <2>2, <2>3 DEF DropTree, refs, Sound, Repository, TreesFewer
<1>5. CASE CleanTask(p)
  BY <1>1, <1>5 DEF CleanTask, refs, Sound, Repository, OneCheckout
<1>6. CASE DeleteBranch(p)
  <2> DEFINE b == call[p].branch
  <2>1. CASE UNCHANGED <<refs, discarded>>
    BY <1>2, <1>6, <2>1 DEF DeleteBranch
  <2>2. CASE /\ CanDelete(b, call[p].sure) /\ ForgetBranch(b)
             /\ discarded' = IF Forced(p) THEN discarded \cup work[b] ELSE discarded
    <3>1. OneCheckout' /\ exists' \subseteq Branches /\ work' \in [Branches -> SUBSET Work]
          /\ upstream' \in [Branches -> {"none", "live", "gone"}]
      BY <1>1, <1>6, <2>2, ForgetKeeps DEF DeleteBranch, CanDelete, sites
    <3>2. work[b] \subseteq Work
      BY <1>1, <2>2 DEF CanDelete, Sound, Repository
    <3>3. discarded' \subseteq Work
      BY <1>1, <2>2, <3>2 DEF Sound, Repository
    <3> QED BY <1>1, <1>6, <2>2, <3>1, <3>3 DEF DeleteBranch, sites, ForgetBranch, Sound,
                                                Repository
  <2> QED BY <1>6, <2>1, <2>2 DEF DeleteBranch
<1> QED BY <1>3, <1>4, <1>5, <1>6 DEF Remove

-----------------------------------------------------------------------------
(* What people do.                                                         *)
LEMMA DirOfTree ==
  ASSUME Sound, NEW n \in Names, HasDir(n)
  PROVE  tree[n] \in Trees /\ tree[n] # None /\ tree[n].branch \in Branches
         /\ tree[n].dirty \subseteq Work
<1>1. tree[n] \in Trees /\ tree[n] # None
  BY DEF HasDir, Sound, Repository
<1> QED BY <1>1, SMT DEF Trees

LEMMA ContentsChange ==
  ASSUME Sound, NEW n \in Names, tree[n] # None, NEW t \in Trees, t.branch = tree[n].branch,
         tree' = [tree EXCEPT ![n] = t]
  PROVE  TreesFewer
<1>1. tree \in [Names -> Trees \cup {None}] /\ t \in Trees \cup {None}
  BY DEF Sound, Repository
<1> QED BY <1>1, OneChanged, Zenon DEF TreesFewer

LEMMA PeopleSound ==
  ASSUME IInv, People
  PROVE  Sound'
<1>1. Sound
  BY IsSound
<1>2. ASSUME NEW n \in Names, NEW w \in Work, Edit(n, w)
      PROVE  Sound'
  <2>1. tree[n] \in Trees /\ tree[n] # None /\ tree[n].dirty \cup {w} \in SUBSET Work
    BY <1>1, <1>2, DirOfTree DEF Edit
  <2>2. TreesFewer
    <3> DEFINE t == [tree[n] EXCEPT !.dirty = tree[n].dirty \cup {w}]
    <3>1. t \in Trees /\ t.branch = tree[n].branch
      BY <2>1, TreeContents
    <3>2. tree' = [tree EXCEPT ![n] = t]
      BY <1>2 DEF Edit
    <3> HIDE DEF t
    <3> QED BY <1>1, <2>1, <3>1, <3>2, ContentsChange
  <2>3. OneCheckout'
    BY <1>1, <1>2, <2>2, FewerKeeps DEF Edit, refs
  <2> QED BY <1>1, <1>2, <2>2, <2>3 DEF Edit, refs, Sound, Repository, TreesFewer
<1>3. ASSUME NEW n \in Names, RemoveByHand(n)
      PROVE  Sound'
  <2>1. tree[n] \in Trees /\ tree[n] # None /\ tree[n].dirty \in SUBSET Work
    BY <1>1, <1>3, DirOfTree DEF RemoveByHand
  <2>2. TreesFewer
    <3> DEFINE t == WithoutDir(tree[n])
    <3>1. t \in Trees /\ t.branch = tree[n].branch
      BY <2>1, TreeContents
    <3>2. tree' = [tree EXCEPT ![n] = t]
      BY <1>3 DEF RemoveByHand
    <3> HIDE DEF t
    <3> QED BY <1>1, <2>1, <3>1, <3>2, ContentsChange
  <2>3. OneCheckout'
    BY <1>1, <1>3, <2>2, FewerKeeps DEF RemoveByHand, refs
  <2> QED BY <1>1, <1>3, <2>1, <2>2, <2>3
          DEF RemoveByHand, refs, Sound, Repository, TreesFewer
<1>4. ASSUME NEW n \in Names, Commit(n)
      PROVE  Sound'
  <2>1. tree[n] \in Trees /\ tree[n] # None /\ tree[n].branch \in Branches
        /\ tree[n].dirty \in SUBSET Work
    BY <1>1, <1>4, DirOfTree DEF Commit
  <2>2. TreesFewer
    <3> DEFINE t == [tree[n] EXCEPT !.dirty = {}]
    <3>1. t \in Trees /\ t.branch = tree[n].branch
      BY <2>1, TreeContents
    <3>2. tree' = [tree EXCEPT ![n] = t]
      BY <1>4 DEF Commit
    <3> HIDE DEF t
    <3> QED BY <1>1, <2>1, <3>1, <3>2, ContentsChange
  <2>3. OneCheckout'
    BY <1>1, <1>4, <2>2, FewerKeeps DEF Commit
  <2>4. work' \in [Branches -> SUBSET Work]
    <3>1. work \in [Branches -> SUBSET Work]
      BY <1>1 DEF Sound, Repository
    <3>2. work[tree[n].branch] \cup tree[n].dirty \in SUBSET Work
      BY <2>1, <3>1
    <3> QED BY <1>4, <3>1, <3>2, OneChanged, Zenon DEF Commit
  <2> QED BY <1>1, <1>4, <2>2, <2>3, <2>4 DEF Commit, Sound, Repository, TreesFewer
<1>5. ASSUME NEW w \in Work, CommitInMain(w)
      PROVE  Sound'
  <2>1. work \in [Branches -> SUBSET Work] /\ mainOn \in Branches
    BY <1>1 DEF Sound, Repository, OneCheckout
  <2>2. work[mainOn] \cup {w} \in SUBSET Work
    BY <2>1
  <2>3. work' \in [Branches -> SUBSET Work]
    BY <1>5, <2>1, <2>2, OneChanged, Zenon DEF CommitInMain
  <2> QED BY <1>1, <1>5, <2>3 DEF CommitInMain, sites, Sound, Repository, OneCheckout
<1>6. ASSUME NEW b \in Branches, Push(b) \/ MergeRemote(b) \/ SquashRemote(b)
      PROVE  Sound'
  <2>1. /\ work \in [Branches -> SUBSET Work] /\ remote \in [Branches -> SUBSET Work]
        /\ upstream \in [Branches -> {"none", "live", "gone"}] /\ Merge \in Branches
    BY <1>1, RefsAssumption DEF Sound, Repository
  <2>2. work[b] \in SUBSET Work /\ remote[b] \in SUBSET Work
        /\ remote[Merge] \cup remote[b] \in SUBSET Work /\ {} \in SUBSET Work
    BY <2>1
  <2>3. /\ remote' \in [Branches -> SUBSET Work]
        /\ upstream' \in [Branches -> {"none", "live", "gone"}]
    <3>1. CASE Push(b)
      BY <2>1, <2>2, <3>1, OneChanged, Zenon DEF Push
    <3>2. CASE MergeRemote(b)
      BY <2>1, <2>2, <3>2, OneChanged, Zenon DEF MergeRemote
    <3>3. CASE SquashRemote(b)
      BY <2>1, <2>2, <3>3, OneChanged, Zenon DEF SquashRemote
    <3> QED BY <1>6, <3>1, <3>2, <3>3
  <2>4. landed' \subseteq Work
    BY <1>1, <1>6, <2>2 DEF Push, MergeRemote, SquashRemote, Sound, Repository
  <2> QED BY <1>1, <1>6, <2>3, <2>4
          DEF Push, MergeRemote, SquashRemote, sites, Sound, Repository, OneCheckout
<1>7. ASSUME NEW b \in Branches, RecordTask(b)
      PROVE  Sound'
  BY <1>1, <1>7 DEF RecordTask, refs, Sound, Repository, OneCheckout
<1>8. ASSUME NEW b \in Branches, PersonSwitchesMain(b)
      PROVE  Sound'
  <2>1. OneCheckout'
    BY <1>1, <1>8, MainKeeps DEF PersonSwitchesMain, refs
  <2> QED BY <1>1, <1>8, <2>1 DEF PersonSwitchesMain, refs, Sound, Repository
<1> QED BY <1>2, <1>3, <1>4, <1>5, <1>6, <1>7, <1>8 DEF People

LEMMA PeopleCall == ASSUME People PROVE call' = call /\ calls' = calls
BY DEF People, Edit, Commit, CommitInMain, Push, MergeRemote, SquashRemote, RecordTask,
       PersonSwitchesMain, RemoveByHand

-----------------------------------------------------------------------------
(* The invariant.                                                          *)
LEMMA Started == Init => IInv
<1> SUFFICES ASSUME Init PROVE IInv
  OBVIOUS
<1>1. Repository
  <2>1. /\ work \in [Branches -> SUBSET Work] /\ remote \in [Branches -> SUBSET Work]
        /\ upstream \in [Branches -> {"none", "live", "gone"}]
    BY SMT DEF Init
  <2>2. exists \subseteq Branches
    BY RefsAssumption DEF Init
  <2> QED BY <2>1, <2>2 DEF Init, Repository
<1>2. OneCheckout
  BY DEF Init, OneCheckout
<1>3. call \in [Callers -> CallRecords] /\ \A p \in Callers : call[p] = Idle
  BY IdleIsCall, Zenon DEF Init
<1>4. Shaped
  BY <1>3, IdleIsCall, Zenon DEF Shaped
<1>5. AloneIsSo
  BY <1>3 DEF AloneIsSo, At, Idle
<1>6. calls \in 0..MaxCalls
  BY BoundsAssumption, SMT DEF Init
<1> QED BY <1>1, <1>2, <1>3, <1>4, <1>5, <1>6, TypesMeet DEF IInv, Sound

LEMMA CallersKeep ==
  ASSUME IInv, NEW p \in Callers, Create(p) \/ Remove(p) \/ Sweep(p) \/ Die(p)
  PROVE  Steps(p) /\ ~At(p, "idle") /\ calls' = calls
<1>1. Steps(p)
  BY ResolveSteps, BeforeTreeSteps, UndoSteps, FindSteps, DropSteps, DeleteSteps, Zenon
     DEF Create, Remove
<1>2. ~At(p, "idle")
  BY DEF Create, Remove, Sweep, Die, At, Resolve, Precheck, SwitchMain, CheckHeld, EnsureIgnore,
         CutBranch, AddTree, FailAdd, LinkAndVerify, UndoMain, UndoTree, UndoDir, UndoBranch,
         UndoPrune, Find, CheckDirty, CheckUnpushed, DropTree, CleanTask, MeasureMerged,
         DeleteBranch
<1>3. calls' = calls
  BY DEF Create, Remove, Sweep, Die, FailBeforeTree, Resolve, Precheck, SwitchMain, CheckHeld,
         EnsureIgnore, CutBranch, AddTree, FailAdd, LinkAndVerify, UndoMain, UndoTree, UndoDir,
         UndoBranch, UndoPrune, Find, CheckDirty, CheckUnpushed, DropTree, CleanTask,
         MeasureMerged, DeleteBranch
<1> QED BY <1>1, <1>2, <1>3

LEMMA Kept1 ==
  ASSUME IInv, Next
  PROVE  IInv'
<1>1. ASSUME NEW p \in Callers, Create(p) \/ Remove(p) \/ Sweep(p) \/ Die(p)
      PROVE  IInv'
  <2>1. Steps(p) /\ ~At(p, "idle") /\ calls' = calls
    BY <1>1, CallersKeep
  <2>2. Shaped' /\ AloneIsSo' /\ call' \in [Callers -> CallRecords]
    BY <2>1, StepsKeep
  <2>3. Sound'
    BY <1>1, CreateSound, RemoveSound
  <2>4. calls' \in 0..MaxCalls
    BY <2>1, IsSound
  <2>5. WorktreesTypeOK'
    BY <2>2, <2>3, <2>4, TypesPrimed
  <2> QED BY <2>2, <2>3, <2>5 DEF IInv, Sound
<1>2. ASSUME NEW p \in Callers, Begin(p)
      PROVE  IInv'
  <2>1. Shaped' /\ AloneIsSo' /\ call' \in [Callers -> CallRecords]
    BY <1>2, BeginSteps
  <2>2. Sound'
    BY <1>2, IsSound DEF Begin, refs, sites, Sound, Repository, OneCheckout
  <2>3. calls' \in 0..MaxCalls
    BY <1>2, IsSound, BoundsAssumption, SMT DEF Begin
  <2> QED BY <2>1, <2>2, <2>3, TypesPrimed DEF IInv, Sound
<1>3. CASE People
  <2>1. Sound' /\ call' = call /\ calls' = calls
    BY <1>3, PeopleSound, PeopleCall
  <2>2. Shaped' /\ AloneIsSo' /\ call' \in [Callers -> CallRecords] /\ calls' \in 0..MaxCalls
    BY <2>1, Zenon DEF IInv, Shaped, AloneIsSo, At, WorktreesTypeOK
  <2> QED BY <2>1, <2>2, TypesPrimed DEF IInv, Sound
<1> QED BY <1>1, <1>2, <1>3 DEF Next

(* No branch is checked out twice and no checkout is without its branch,   *)
(* whatever create, its rollback, remove, sweep and people do in between.  *)
THEOREM WorktreesInvariance == Spec => []IInv
<1>1. IInv /\ [Next]_vars => IInv'
  <2> SUFFICES ASSUME IInv, UNCHANGED vars PROVE IInv'
    BY Kept1
  <2> QED
    BY SMT DEF vars, refs, sites, IInv, WorktreesTypeOK, Shaped, Shape, OneCheckout, AloneIsSo,
               At
<1> QED BY <1>1, Started, PTL DEF Spec

(* Type correctness: every call record, every tree and every branch.       *)
THEOREM WorktreesTyped == Spec => []WorktreesTypeOK
<1>1. IInv => WorktreesTypeOK
  BY DEF IInv
<1> QED BY <1>1, WorktreesInvariance, PTL
-----------------------------------------------------------------------------
(* What a call that is alone still knows, when people keep off.            *)
Rest(c, d) ==
  /\ Same(c, d) /\ d.branch = c.branch /\ d.created = c.created /\ d.prev = c.prev
  /\ d.removed = c.removed /\ d.gone = c.gone /\ d.cut = c.cut /\ d.todo = c.todo

LEMMA GoneOn ==
  ASSUME IInv, NEW p \in Callers, NEW s \in PCs, Goto(p, s)
  PROVE  call'[p].pc = s /\ Rest(call[p], call'[p]) /\ call'[p].clean = call[p].clean
<1>1. call \in [Callers -> CallRecords] /\ call[p] \in CallRecords
  BY DEF IInv, WorktreesTypeOK
<1>2. call'[p] = [call[p] EXCEPT !.pc = s]
  BY <1>1, Going
<1> QED BY <1>1, <1>2, SMT DEF CallRecords, Rest, Same

LEMMA GoneUnclean ==
  ASSUME IInv, NEW p \in Callers, NEW s \in PCs, To(p, [call[p] EXCEPT !.pc = s, !.clean = FALSE])
  PROVE  call'[p].pc = s /\ Rest(call[p], call'[p]) /\ ~call'[p].clean
<1>1. call \in [Callers -> CallRecords] /\ call[p] \in CallRecords
  BY DEF IInv, WorktreesTypeOK
<1>2. call'[p] = [call[p] EXCEPT !.pc = s, !.clean = FALSE]
  BY <1>1, SetsClean, MovesTo
<1> QED BY <1>1, <1>2, SMT DEF CallRecords, Rest, Same

(* A call that is alone takes every step but those of people.              *)
LEMMA OthersRemember ==
  ASSUME IInv, NEW q \in Callers, ~At(q, "idle"), Steps(q), NEW p \in Callers, p # q
  PROVE  KnowsTree(p)' /\ KnowsBefore(p)'
<1>1. call'[p] = call[p] /\ (call[p].alone => call[p].pc = "idle")
  BY DEF Steps, Moved, Apart, IInv, AloneIsSo, At
<1>2. KnowsTree(p)'
  BY <1>1, Zenon DEF KnowsTree
<1>3. KnowsBefore(p)'
  <2>1. "idle" \notin CreatePCs
    BY DEF CreatePCs
  <2> QED BY <1>1, <2>1, Zenon DEF KnowsBefore
<1> QED BY <1>2, <1>3

LEMMA BeginRemembers ==
  ASSUME IInv, Remembers, NEW p \in Callers, Begin(p), NEW q \in Callers
  PROVE  KnowsTree(q)' /\ KnowsBefore(q)'
<1>1. PICK r \in Requests :
        call' = [o \in Callers |-> IF o = p THEN Fresh(p, r)
                                  ELSE IF At(o, "idle") THEN call[o] ELSE NotAlone(call[o])]
  BY DEF Begin
<1>2. call[q] \in CallRecords /\ Shape(call[q])
  BY DEF IInv, WorktreesTypeOK, Shaped
<1>3. "idle" \notin CreatePCs
  BY DEF CreatePCs
<1>4. CASE q # p
  <2>1. call'[q].alone => call'[q].pc = "idle"
    <3>1. CASE At(q, "idle")
      BY <1>1, <1>4, <3>1 DEF At
    <3>2. CASE ~At(q, "idle")
      BY <1>1, <1>2, <1>4, <3>2, NotAloneIsCall
    <3> QED BY <3>1, <3>2
  <2> QED BY <1>3, <2>1, Zenon DEF KnowsTree, KnowsBefore
<1>5. CASE q = p
  <2> DEFINE d == Fresh(p, r)
  <2>1. call'[p] = d
    BY <1>1
  <2>2. /\ d.pc = First(r) /\ d.request = r /\ d.alone = ~Others(p) /\ d.prev = None
        /\ d.before = IF r.op = "create" /\ ~Others(p)
                      THEN [main |-> mainOn, had |-> exists, tree |-> tree[r.name]] ELSE None
    BY DEF Fresh, Idle
  <2>3. First(r) \in {"resolve", "merged", "find", "list"}
        /\ (First(r) = "resolve" => r.op = "create")
    BY DEF First
  <2>4. KnowsTree(p)'
    BY <2>1, <2>2, <2>3, Zenon DEF KnowsTree
  <2>5. KnowsBefore(p)'
    <3> SUFFICES ASSUME d.alone, d.pc \in CreatePCs
                 PROVE  KnowsBefore(p)'
      BY <2>1, Zenon DEF KnowsBefore
    <3>1. d.pc = "resolve" /\ r.op = "create"
      BY <2>2, <2>3 DEF CreatePCs
    <3>2. d.before = [main |-> mainOn, had |-> exists, tree |-> tree[r.name]]
      BY <2>2, <3>1
    <3>3. r.name \in Names
      BY <3>1, RequestKinds, SMT DEF Creates
    <3>4. d.before \in Snapshots
      BY <3>2, <3>3, SMT DEF Snapshots, IInv, WorktreesTypeOK
    <3>5. UNCHANGED <<exists, mainOn, tree>>
      BY DEF Begin, refs, sites
    <3>6. d.before.main = mainOn /\ d.before.had = exists /\ d.before.tree = tree[r.name]
      BY <3>2
    <3>7. mainOn \in exists /\ ~HeldBySomeTree(mainOn)
      BY DEF IInv, OneCheckout, HeldBySomeTree
    <3> HIDE DEF d
    <3> QED BY <2>1, <2>2, <3>1, <3>4, <3>5, <3>6, <3>7, SMT
            DEF KnowsBefore, MainAway, Early, Undoing, HeldBySomeTree
  <2> QED BY <1>5, <2>4, <2>5
<1> QED BY <1>4, <1>5

(* What people change of checkouts.                                        *)
LEMMA PeopleTrees ==
  ASSUME IInv, People
  PROVE  /\ exists' = exists /\ call' = call
         /\ TreesFewer
         /\ \A n \in Names : ~TreeFree(n) => tree'[n] = tree[n]
         /\ \/ mainOn' = mainOn
            \/ \E b \in Branches : mainOn' = b /\ CanSwitch(b) /\ MainFree /\ BranchFree(b)
<1>1. Sound
  BY IsSound
<1>2. ASSUME NEW n \in Names, TreeFree(n), HasDir(n), NEW t \in Trees, t.branch = tree[n].branch,
             tree' = [tree EXCEPT ![n] = t]
      PROVE  TreesFewer /\ \A m \in Names : ~TreeFree(m) => tree'[m] = tree[m]
  <2>1. TreesFewer
    BY <1>1, <1>2, DirOfTree, ContentsChange
  <2>2. tree \in [Names -> Trees \cup {None}] /\ t \in Trees \cup {None}
    BY <1>1 DEF Sound, Repository
  <2>3. \A m \in Names : m # n => tree'[m] = tree[m]
    BY <1>2, <2>2, OneChanged, Zenon
  <2> QED BY <1>2, <2>1, <2>3
<1>3. ASSUME NEW n \in Names, Commit(n) \/ RemoveByHand(n) \/ \E w \in Work : Edit(n, w)
      PROVE  TreesFewer /\ \A m \in Names : ~TreeFree(m) => tree'[m] = tree[m]
  <2>1. TreeFree(n) /\ HasDir(n)
    BY <1>3 DEF Commit, RemoveByHand, Edit
  <2>2. tree[n] \in Trees /\ tree[n].dirty \subseteq Work
    BY <1>1, <2>1, DirOfTree
  <2>3. CASE \E w \in Work : Edit(n, w)
    <3>1. PICK w \in Work : Edit(n, w)
      BY <2>3
    <3> DEFINE t == [tree[n] EXCEPT !.dirty = tree[n].dirty \cup {w}]
    <3>2. tree[n].dirty \cup {w} \in SUBSET Work
      BY <2>2
    <3>3. t \in Trees /\ t.branch = tree[n].branch
      BY <2>2, <3>2, TreeContents
    <3>4. tree' = [tree EXCEPT ![n] = t]
      BY <3>1 DEF Edit
    <3> HIDE DEF t
    <3> QED BY <1>2, <2>1, <3>3, <3>4
  <2>4. CASE RemoveByHand(n)
    <3> DEFINE t == WithoutDir(tree[n])
    <3>1. t \in Trees /\ t.branch = tree[n].branch
      BY <2>2, TreeContents
    <3>2. tree' = [tree EXCEPT ![n] = t]
      BY <2>4 DEF RemoveByHand
    <3> HIDE DEF t
    <3> QED BY <1>2, <2>1, <3>1, <3>2
  <2>5. CASE Commit(n)
    <3> DEFINE t == [tree[n] EXCEPT !.dirty = {}]
    <3>1. t \in Trees /\ t.branch = tree[n].branch
      BY <2>2, TreeContents
    <3>2. tree' = [tree EXCEPT ![n] = t]
      BY <2>5 DEF Commit
    <3> HIDE DEF t
    <3> QED BY <1>2, <2>1, <3>1, <3>2
  <2> QED BY <1>3, <2>3, <2>4, <2>5
<1>4. ASSUME tree' = tree
      PROVE  TreesFewer /\ \A n \in Names : ~TreeFree(n) => tree'[n] = tree[n]
  <2>1. tree \in [Names -> Trees \cup {None}]
    BY <1>1 DEF Sound, Repository
  <2> QED BY <1>4, <2>1 DEF TreesFewer
<1>5. TreesFewer /\ \A n \in Names : ~TreeFree(n) => tree'[n] = tree[n]
  BY <1>3, <1>4 DEF People, CommitInMain, Push, MergeRemote, SquashRemote, RecordTask,
                    PersonSwitchesMain, sites
<1>6. exists' = exists
  BY DEF People, Edit, Commit, CommitInMain, Push, MergeRemote, SquashRemote, RecordTask,
         PersonSwitchesMain, RemoveByHand, refs
<1>7. \/ mainOn' = mainOn
      \/ \E b \in Branches : mainOn' = b /\ CanSwitch(b) /\ MainFree /\ BranchFree(b)
  BY DEF People, Edit, Commit, CommitInMain, Push, MergeRemote, SquashRemote, RecordTask,
         PersonSwitchesMain, RemoveByHand, sites
<1> QED BY <1>5, <1>6, <1>7, PeopleCall

LEMMA PeopleRemember ==
  ASSUME IInv, Remembers, Considerate, People, NEW p \in Callers
  PROVE  KnowsTree(p)' /\ KnowsBefore(p)'
<1> DEFINE c == call[p]
<1>1. /\ exists' = exists /\ call' = call /\ TreesFewer
      /\ \A n \in Names : ~TreeFree(n) => tree'[n] = tree[n]
      /\ \/ mainOn' = mainOn
         \/ \E b \in Branches : mainOn' = b /\ CanSwitch(b) /\ MainFree /\ BranchFree(b)
  BY PeopleTrees
<1>2. KnowsTree(p) /\ KnowsBefore(p)
  BY DEF Remembers
<1>3. ASSUME ~At(p, "idle"), c.pc \in DropPCs \cup CreatePCs
      PROVE  /\ Asked(p).name \in Names /\ tree'[Asked(p).name] = tree[Asked(p).name]
             /\ c.pc \in CreatePCs => mainOn' = mainOn
             /\ mainOn' = mainOn \/ mainOn' # c.branch
  <2>1. Asked(p) \in Creates \cup Removes /\ (c.pc \in CreatePCs => Asked(p) \in Creates)
    BY <1>3, CallKnown
  <2>2. Asked(p).name \in Names /\ Asked(p).op # "sweep"
        /\ (c.pc \in CreatePCs => Asked(p).op = "create")
    BY <2>1, SMT DEF Creates, Removes
  <2>3. p \in Busy
    BY <1>3 DEF Busy
  <2> QED BY <1>1, <2>2, <2>3 DEF TreeFree, BranchFree, MainFree
<1>4. \A b : HeldBySomeTree(b)' => HeldBySomeTree(b)
  BY <1>1 DEF HeldBySomeTree, TreesFewer
<1>5. KnowsTree(p)'
  <2>1. CASE c.pc \in DropPCs
    <3>1. ~At(p, "idle")
      BY <2>1 DEF At, DropPCs
    <3>2. /\ tree'[Asked(p).name] = tree[Asked(p).name]
          /\ mainOn' = mainOn \/ mainOn' # c.branch
      BY <1>3, <2>1, <3>1
    <3>3. ~Held(c.branch) => ~Held(c.branch)'
      BY <1>1, <1>4, <3>2 DEF Held
    <3> QED BY <1>1, <1>2, <3>2, <3>3, Zenon DEF KnowsTree, MyTree, Asked
  <2>2. CASE c.pc \notin DropPCs
    BY <1>1, <2>2 DEF KnowsTree, DropPCs
  <2> QED BY <2>1, <2>2
<1>6. KnowsBefore(p)'
  <2>1. CASE c.pc \in CreatePCs
    <3>1. ~At(p, "idle")
      BY <2>1 DEF At, CreatePCs
    <3>2. tree'[Asked(p).name] = tree[Asked(p).name] /\ mainOn' = mainOn
      BY <1>3, <2>1, <3>1
    <3> QED BY <1>1, <1>2, <1>4, <3>2, Zenon DEF KnowsBefore, Asked, MainAway
  <2>2. CASE c.pc \notin CreatePCs
    BY <1>1, <2>2, Zenon DEF KnowsBefore
  <2> QED BY <2>1, <2>2
<1> QED BY <1>5, <1>6

LEMMA Set ==
  ASSUME IInv, NEW p \in Callers, NEW c, To(p, c)
  PROVE  call'[p] = c
BY SMT DEF To, IInv, WorktreesTypeOK

(* The steps of create, for the call that takes them.                      *)
LEMMA BeforeTreeRemembers ==
  ASSUME IInv, NEW p \in Callers, KnowsBefore(p), call[p].alone,
         Resolve(p) \/ Precheck(p) \/ SwitchMain(p) \/ CheckHeld(p) \/ EnsureIgnore(p)
  PROVE  KnowsBefore(p)'
<1> DEFINE c == call[p]
           d == call'[p]
           was == c.before
           n == c.request.name
           Away == IF d.prev = None \/ d.pc = "switch" THEN mainOn' = was.main
                                                       ELSE d.prev = was.main
<1>1. call \in [Callers -> CallRecords] /\ c \in CallRecords
  BY DEF IInv, WorktreesTypeOK
<1>2. c.pc \in {"resolve", "precheck", "switch", "held", "ignore"} /\ c.pc \in CreatePCs
  BY DEF Resolve, Precheck, SwitchMain, CheckHeld, EnsureIgnore, At, CreatePCs
<1>3. /\ was \in Snapshots /\ exists = was.had /\ tree[n] = was.tree /\ MainAway(c, was)
      /\ was.main \in exists /\ ~HeldBySomeTree(was.main)
      /\ c.pc \in {"resolve", "precheck"} => c.prev = None
      /\ c.pc = "switch" => c.prev = was.main
  BY <1>2, SMT DEF KnowsBefore, Early
<1>4. was.main # None
  BY <1>3, RefsAssumption DEF IInv, WorktreesTypeOK
<1>5. CASE Answer(p)
  <2>1. d.pc \notin CreatePCs
    BY <1>1, <1>5, Answering DEF Idle, CreatePCs
  <2> QED BY <2>1, Zenon DEF KnowsBefore
<1>6. ASSUME exists' = exists, tree' = tree, Same(c, d),
             d.pc \in {"precheck", "switch", "held", "ignore", "cut", "add"},
             d.pc = "add" => ~d.created, d.pc = "cut" => d.created,
             d.pc = "precheck" => d.prev = None,
             d.pc = "switch" => d.prev = was.main,
             Away
      PROVE  KnowsBefore(p)'
  <2>1. d.before = was /\ d.request = c.request
    BY <1>6 DEF Same
  <2>2. \A b : HeldBySomeTree(b)' => HeldBySomeTree(b)
    BY <1>6 DEF HeldBySomeTree
  <2> QED BY <1>3, <1>6, <2>1, <2>2, SMT DEF KnowsBefore, MainAway, Early, Undoing
<1>7. CASE Resolve(p)
  <2>1. c.pc = "resolve" /\ UNCHANGED <<exists, tree, mainOn>>
    BY <1>7 DEF Resolve, At, refs, sites
  <2>2. ASSUME To(p, [c EXCEPT !.pc = "precheck", !.branch = Plan(Asked(p)).branch])
        PROVE  d.pc = "precheck" /\ d.prev = c.prev /\ Same(c, d)
    <3>1. d = [c EXCEPT !.pc = "precheck", !.branch = Plan(Asked(p)).branch]
      BY <2>2, Set
    <3> HIDE DEF c, d
    <3> QED BY <1>1, <3>1, SMT DEF CallRecords, Same
  <2>3. ASSUME To(p, [c EXCEPT !.pc = "ignore", !.branch = Plan(Asked(p)).branch,
                               !.created = TRUE, !.cut = ImplicitBase])
        PROVE  d.pc = "ignore" /\ d.prev = c.prev /\ Same(c, d)
    <3>1. d = [c EXCEPT !.pc = "ignore", !.branch = Plan(Asked(p)).branch, !.created = TRUE,
                        !.cut = ImplicitBase]
      BY <2>3, Set
    <3> HIDE DEF c, d
    <3> QED BY <1>1, <3>1, SMT DEF CallRecords, Same
  <2>4. CASE d.pc \in {"precheck", "ignore"} /\ d.prev = c.prev /\ Same(c, d)
    <3>1. Away
      BY <1>3, <2>1, <2>4, SMT DEF MainAway
    <3> QED BY <1>3, <1>6, <2>1, <2>4, <3>1
  <2> QED BY <1>5, <1>7, <2>2, <2>3, <2>4 DEF Resolve
<1>8. ASSUME NEW s \in {"held", "ignore", "cut", "add"}, Goto(p, s), exists' = exists, tree' = tree,
             mainOn' = mainOn, c.pc # "switch",
             s = "add" => ~c.created, s = "cut" => c.created
      PROVE  KnowsBefore(p)'
  <2>1. d.pc = s /\ Rest(c, d)
    BY <1>8, GoneOn DEF PCs, CreatePCs
  <2>2. Away
    BY <1>3, <1>8, <2>1, SMT DEF MainAway, Rest
  <2> QED BY <1>6, <1>8, <2>1, <2>2 DEF Rest
<1>9. CASE Precheck(p)
  <2>1. c.pc = "precheck" /\ UNCHANGED <<exists, tree, mainOn>>
    BY <1>9 DEF Precheck, At, refs, sites
  <2>2. ASSUME To(p, [c EXCEPT !.pc = "switch", !.prev = mainOn])
        PROVE  KnowsBefore(p)'
    <3>1. d.pc = "switch" /\ d.prev = mainOn /\ Same(c, d)
      <4>1. d = [c EXCEPT !.pc = "switch", !.prev = mainOn]
        BY <2>2, Set
      <4> HIDE DEF c, d
      <4> QED BY <1>1, <4>1, SMT DEF CallRecords, Same
    <3>2. mainOn = was.main
      BY <1>3, <2>1, SMT DEF MainAway
    <3>3. Away
      BY <2>1, <3>1, <3>2, SMT DEF MainAway
    <3> QED BY <1>6, <2>1, <3>1, <3>2, <3>3
  <2> QED BY <1>5, <1>8, <1>9, <2>1, <2>2 DEF Precheck
<1>10. CASE SwitchMain(p)
  <2>1. ASSUME Goto(p, "held")
        PROVE  KnowsBefore(p)'
    <3>1. d.pc = "held" /\ Rest(c, d)
      BY <2>1, GoneOn DEF PCs, CreatePCs
    <3>2. d.prev = was.main
      BY <1>3, <1>10, <3>1 DEF SwitchMain, At, Rest
    <3>3. Away
      BY <1>4, <3>1, <3>2, SMT DEF MainAway
    <3>4. UNCHANGED <<exists, tree>>
      BY <1>10 DEF SwitchMain, refs
    <3> QED BY <1>6, <3>1, <3>3, <3>4 DEF Rest
  <2> QED BY <1>5, <1>10, <2>1 DEF SwitchMain
<1>11. CASE CheckHeld(p) \/ EnsureIgnore(p)
  BY <1>5, <1>8, <1>11, FailAnswers DEF CheckHeld, EnsureIgnore, At, refs, sites
<1> QED BY <1>7, <1>9, <1>10, <1>11

LEMMA AddRemembers ==
  ASSUME IInv, NEW p \in Callers, KnowsBefore(p), call[p].alone,
         CutBranch(p) \/ AddTree(p) \/ FailAdd(p) \/ LinkAndVerify(p)
  PROVE  KnowsBefore(p)'
<1> DEFINE c == call[p]
           d == call'[p]
           was == c.before
           n == c.request.name
           Away == IF d.prev = None \/ d.pc = "switch" THEN mainOn' = was.main
                                                       ELSE d.prev = was.main
<1>1. call \in [Callers -> CallRecords] /\ c \in CallRecords
  BY DEF IInv, WorktreesTypeOK
<1>2. CASE Answer(p)
  <2>1. d.pc \notin CreatePCs
    BY <1>1, <1>2, Answering DEF Idle, CreatePCs
  <2> QED BY <2>1, Zenon DEF KnowsBefore
<1>3. CASE LinkAndVerify(p) /\ Goto(p, "undo_main")
  <2>1. d.pc = "undo_main" /\ Rest(c, d) /\ c.pc = "link"
    BY <1>3, GoneOn DEF PCs, CreatePCs, LinkAndVerify, At
  <2>2. UNCHANGED <<exists, mainOn, tree>>
    BY <1>3 DEF LinkAndVerify, refs, sites
  <2>3. /\ was \in Snapshots /\ MainAway(c, was) /\ was.tree = None
        /\ c.created => c.branch \notin was.had
        /\ exists = IF c.created THEN was.had \cup {c.branch} ELSE was.had
    BY <2>1, SMT DEF KnowsBefore, Early, CreatePCs
  <2>4. Away
    BY <2>1, <2>2, <2>3, SMT DEF MainAway, Rest
  <2> QED BY <2>1, <2>2, <2>3, <2>4, SMT DEF KnowsBefore, MainAway, Early, Undoing, Rest, Same
<1>4. CASE CutBranch(p) /\ ~FailBeforeTree(p)
  <2>1. /\ c.branch \notin exists /\ exists' = exists \cup {c.branch}
        /\ Goto(p, "add") /\ c.pc = "cut" /\ UNCHANGED <<mainOn, tree>>
    BY <1>4 DEF CutBranch, At, sites
  <2>2. d.pc = "add" /\ Rest(c, d)
    BY <2>1, GoneOn DEF PCs, CreatePCs
  <2>3. /\ was \in Snapshots /\ MainAway(c, was) /\ exists = was.had /\ tree[n] = was.tree
        /\ was.main \in exists /\ ~HeldBySomeTree(was.main) /\ c.created
    BY <2>1, SMT DEF KnowsBefore, Early, CreatePCs
  <2>4. Away
    BY <2>1, <2>2, <2>3, SMT DEF MainAway, Rest
  <2>5. HeldBySomeTree(was.main)' <=> HeldBySomeTree(was.main)
    BY <2>1, <2>2 DEF HeldBySomeTree, Rest, Same
  <2> QED BY <2>1, <2>2, <2>3, <2>4, <2>5, SMT
          DEF KnowsBefore, MainAway, Early, Undoing, Rest, Same
<1>5. CASE AddTree(p)
  <2>1. /\ c.pc = "add" /\ UNCHANGED <<exists, mainOn>> /\ n = Asked(p).name
        /\ n \in Names /\ c.branch \in Branches
    BY <1>5, Adding DEF AddTree, At, refs, Asked
  <2>2. /\ was \in Snapshots /\ MainAway(c, was) /\ tree[n] = was.tree
        /\ was.main \in exists /\ ~HeldBySomeTree(was.main)
        /\ c.created => c.branch \notin was.had
        /\ exists = IF c.created THEN was.had \cup {c.branch} ELSE was.had
    BY <2>1, SMT DEF KnowsBefore, Early, CreatePCs
  <2>3. ASSUME NEW s \in {"link", "fail"}, Goto(p, s)
        PROVE  /\ d.pc = s /\ Rest(c, d) /\ Away
    <3>1. d.pc = s /\ Rest(c, d)
      BY <2>3, GoneOn DEF PCs, CreatePCs
    <3> QED BY <2>1, <2>2, <2>3, <3>1, SMT DEF MainAway, Rest
  <2>4. CASE tree' = tree /\ Goto(p, "fail")
    <3>1. d.pc = "fail" /\ Rest(c, d) /\ Away
      BY <2>3, <2>4
    <3>2. HeldBySomeTree(was.main)' <=> HeldBySomeTree(was.main)
      BY <2>4, <3>1 DEF HeldBySomeTree, Rest, Same
    <3> QED BY <2>1, <2>2, <2>4, <3>1, <3>2, SMT
            DEF KnowsBefore, MainAway, Early, Undoing, Rest, Same
  <2>5. CASE CanAdd(p) /\ tree' = [tree EXCEPT ![n] = NewTree(c.branch)]
             /\ (Goto(p, "link") \/ Goto(p, "fail"))
    <3>1. d.pc \in {"link", "fail"} /\ Rest(c, d) /\ Away
      BY <2>3, <2>5
    <3>2. tree[n] = None
      BY <2>5 DEF CanAdd, Asked
    <3>3. /\ tree'[n] = NewTree(c.branch) /\ NewTree(c.branch).branch = c.branch
          /\ \A m \in Names \ {n} : tree'[m] = tree[m]
      BY <2>1, <2>5 DEF NewTree, IInv, WorktreesTypeOK
    <3>4. HeldBySomeTree(was.main)' => c.branch = was.main
      <4>1. d.before = was
        BY <3>1 DEF Rest, Same
      <4> QED BY <2>2, <3>3, <4>1 DEF HeldBySomeTree
    <3> QED BY <2>1, <2>2, <3>1, <3>2, <3>3, <3>4, SMT
            DEF KnowsBefore, MainAway, Early, Undoing, Rest, Same
  <2> QED BY <1>5, <2>4, <2>5 DEF AddTree, Asked
<1> QED BY <1>2, <1>3, <1>4, <1>5, FailAnswers DEF LinkAndVerify, CutBranch, FailAdd

LEMMA UndoRemembers ==
  ASSUME IInv, NEW p \in Callers, KnowsBefore(p), call[p].alone,
         UndoMain(p) \/ UndoTree(p) \/ UndoDir(p) \/ UndoBranch(p) \/ UndoPrune(p)
  PROVE  KnowsBefore(p)'
<1> DEFINE c == call[p]
           d == call'[p]
           was == c.before
           n == c.request.name
           Away == IF d.prev = None \/ d.pc = "switch" THEN mainOn' = was.main
                                                       ELSE d.prev = was.main
<1>1. call \in [Callers -> CallRecords] /\ c \in CallRecords
  BY DEF IInv, WorktreesTypeOK
<1>2. c.pc \in Undoing \cup {"undo_main"} /\ c.pc \in CreatePCs
  BY DEF UndoMain, UndoTree, UndoDir, UndoBranch, UndoPrune, At, Undoing, CreatePCs
<1>3. /\ was \in Snapshots /\ was.tree = None
      /\ c.created => c.branch \notin was.had
      /\ c.pc = "undo_main" => MainAway(c, was)
      /\ c.pc \in Undoing /\ c.clean => mainOn = was.main
      /\ c.pc \in Undoing \ {"undo_tree"} /\ c.clean => tree[n] = None /\ c.removed
      /\ c.pc \in {"undo_branch", "undo_prune"} /\ c.clean => c.gone
      /\ (c.pc = "undo_prune" => c.clean) =>
             exists = IF c.created /\ c.pc # "undo_prune"
                      THEN was.had \cup {c.branch} ELSE was.had
  BY <1>2, SMT DEF KnowsBefore, Early, Undoing
<1>4. ASSUME Same(c, d), d.branch = c.branch, d.created = c.created, d.pc \in Undoing,
             d.clean => mainOn' = was.main,
             d.pc # "undo_tree" /\ d.clean => tree'[n] = None /\ d.removed,
             d.pc \in {"undo_branch", "undo_prune"} /\ d.clean => d.gone,
             (d.pc = "undo_prune" => d.clean) =>
               exists' = IF d.created /\ d.pc # "undo_prune"
                         THEN was.had \cup {d.branch} ELSE was.had
      PROVE  KnowsBefore(p)'
  <2>1. d.before = was /\ d.request = c.request
    BY <1>4 DEF Same
  <2> HIDE DEF d, c, was
  <2> QED BY <1>3, <1>4, <2>1, SMT DEF KnowsBefore, Early, Undoing, c, d, n
<1>5. CASE UndoMain(p)
  <2>1. c.pc = "undo_main" /\ exists' = exists
    BY <1>5 DEF UndoMain, At, refs
  <2>2. CASE /\ Goto(p, "undo_tree")
             /\ \/ c.prev = None /\ mainOn' = mainOn
                \/ c.prev # None /\ mainOn' = c.prev
    <3>1. d.pc = "undo_tree" /\ Rest(c, d)
      BY <2>2, GoneOn DEF PCs, CreatePCs
    <3>2. mainOn' = was.main
      BY <1>3, <2>1, <2>2, SMT DEF MainAway
    <3> QED BY <1>3, <1>4, <2>1, <3>1, <3>2 DEF Rest, Undoing
  <2>3. CASE To(p, [c EXCEPT !.pc = "undo_tree", !.clean = FALSE])
    <3>1. d.pc = "undo_tree" /\ Rest(c, d) /\ ~d.clean
      BY <2>3, GoneUnclean DEF PCs, CreatePCs
    <3> QED BY <1>3, <1>4, <2>1, <3>1 DEF Rest, Undoing
  <2>4. RestoreMain(p, Goto(p, "undo_tree"),
                       To(p, [c EXCEPT !.pc = "undo_tree", !.clean = FALSE]))
    BY <1>5 DEF UndoMain
  <2> HIDE DEF c
  <2>5. \/ c.prev = None /\ Goto(p, "undo_tree") /\ mainOn' = mainOn
        \/ c.prev # None /\ Goto(p, "undo_tree") /\ mainOn' = c.prev
        \/ To(p, [c EXCEPT !.pc = "undo_tree", !.clean = FALSE])
    BY <2>4, Zenon DEF RestoreMain, c
  <2> QED BY <2>2, <2>3, <2>5
<1>6. CASE UndoTree(p)
  <2>1. c.pc = "undo_tree" /\ exists' = exists /\ mainOn' = mainOn
    BY <1>6 DEF UndoTree, At, refs
  <2>2. CASE /\ tree' = [tree EXCEPT ![n] = None]
             /\ To(p, [c EXCEPT !.pc = "undo_dir", !.removed = TRUE])
    <3>1. d.pc = "undo_dir" /\ Same(c, d) /\ d.branch = c.branch /\ d.created = c.created
          /\ d.clean = c.clean /\ d.removed
      <4>1. d = [c EXCEPT !.pc = "undo_dir", !.removed = TRUE]
        BY <2>2, Set
      <4> HIDE DEF c, d
      <4> QED BY <1>1, <4>1, SMT DEF CallRecords, Same
    <3>2. tree'[n] = None
      <4>1. n \in Names
        BY <1>2, CallKnown, SMT DEF At, CreatePCs, Creates
      <4>2. tree \in [Names -> Trees \cup {None}] /\ None \in Trees \cup {None}
        BY DEF IInv, WorktreesTypeOK
      <4> QED BY <2>2, <4>1, <4>2, OneChanged, Zenon
    <3> QED BY <1>3, <1>4, <2>1, <3>1, <3>2 DEF Undoing
  <2>3. CASE To(p, [c EXCEPT !.pc = "undo_dir", !.clean = FALSE])
    <3>1. d.pc = "undo_dir" /\ Rest(c, d) /\ ~d.clean
      BY <2>3, GoneUnclean DEF PCs, CreatePCs
    <3> QED BY <1>3, <1>4, <2>1, <3>1 DEF Rest, Undoing
  <2> QED BY <1>6, <2>2, <2>3 DEF UndoTree, Asked
<1>7. CASE UndoDir(p)
  <2>1. c.pc = "undo_dir" /\ exists' = exists /\ mainOn' = mainOn
    BY <1>7 DEF UndoDir, At, refs
  <2>2. CASE c.clean
    <3>1. tree[n] = None
      BY <1>3, <2>1, <2>2 DEF Undoing
    <3>2. ~HasDir(n)
      BY <3>1 DEF HasDir
    <3>3. tree' = tree /\ To(p, [c EXCEPT !.pc = "undo_branch", !.gone = TRUE])
      BY <1>7, <3>2 DEF UndoDir, Asked
    <3>4. d.pc = "undo_branch" /\ Same(c, d) /\ d.branch = c.branch /\ d.created = c.created
          /\ d.clean = c.clean /\ d.removed = c.removed /\ d.gone
      <4>1. d = [c EXCEPT !.pc = "undo_branch", !.gone = TRUE]
        BY <3>3, Set
      <4> HIDE DEF c, d
      <4> QED BY <1>1, <4>1, SMT DEF CallRecords, Same
    <3> QED BY <1>3, <1>4, <2>1, <2>2, <3>1, <3>3, <3>4 DEF Undoing
  <2>3. CASE ~c.clean
    <3>1. /\ d.pc = "undo_branch" /\ Same(c, d) /\ d.branch = c.branch /\ d.created = c.created
          /\ ~d.clean
      <4>1. CASE To(p, [c EXCEPT !.pc = "undo_branch", !.gone = TRUE])
        <5>1. d = [c EXCEPT !.pc = "undo_branch", !.gone = TRUE]
          BY <4>1, Set
        <5> HIDE DEF c, d
        <5> QED BY <1>1, <2>3, <5>1, SMT DEF CallRecords, Same
      <4>2. CASE To(p, [c EXCEPT !.pc = "undo_branch", !.clean = FALSE])
        <5>1. d = [c EXCEPT !.pc = "undo_branch", !.clean = FALSE]
          BY <4>2, Set
        <5> HIDE DEF c, d
        <5> QED BY <1>1, <5>1, SMT DEF CallRecords, Same
      <4> QED BY <1>7, <4>1, <4>2 DEF UndoDir
    <3> QED BY <1>3, <1>4, <2>1, <3>1 DEF Undoing
  <2> QED BY <2>2, <2>3
<1>8. CASE UndoBranch(p)
  <2> DEFINE b == c.branch
             asks == c.created /\ c.removed /\ c.gone
  <2>1. c.pc = "undo_branch" /\ mainOn' = mainOn /\ tree' = tree
    BY <1>8 DEF UndoBranch, At, sites
  <2>2. CASE asks /\ ForgetBranch(b) /\ Goto(p, "undo_prune")
    <3>1. d.pc = "undo_prune" /\ Rest(c, d) /\ d.clean = c.clean
      BY <2>2, GoneOn DEF PCs, CreatePCs
    <3>2. exists' = was.had
      BY <1>3, <2>1, <2>2 DEF ForgetBranch
    <3> QED BY <1>3, <1>4, <2>1, <3>1, <3>2 DEF Rest, Undoing
  <2>3. CASE To(p, [c EXCEPT !.pc = "undo_prune", !.clean = FALSE])
    <3>1. d.pc = "undo_prune" /\ Rest(c, d) /\ ~d.clean
      BY <2>3, GoneUnclean DEF PCs, CreatePCs
    <3> QED BY <1>3, <1>4, <2>1, <3>1 DEF Rest, Undoing
  <2>4. CASE ~asks /\ Goto(p, "undo_prune") /\ UNCHANGED refs
    <3>1. d.pc = "undo_prune" /\ Rest(c, d) /\ d.clean = c.clean
      BY <2>4, GoneOn DEF PCs, CreatePCs
    <3>2. c.clean => ~c.created
      BY <1>3, <2>1, <2>4 DEF Undoing
    <3> QED BY <1>3, <1>4, <2>1, <2>4, <3>1, <3>2 DEF Rest, Undoing, refs
  <2> QED BY <1>8, <2>2, <2>3, <2>4 DEF UndoBranch
<1>9. CASE UndoPrune(p)
  <2>1. d.pc \notin CreatePCs
    BY <1>1, <1>9, Answering DEF UndoPrune, Idle, CreatePCs
  <2> QED BY <2>1, Zenon DEF KnowsBefore
<1> QED BY <1>5, <1>6, <1>7, <1>8, <1>9
LEMMA CreateRemembers ==
  ASSUME IInv, NEW p \in Callers, KnowsBefore(p), Create(p)
  PROVE  KnowsTree(p)' /\ KnowsBefore(p)'
<1>1. Steps(p) /\ ~At(p, "idle")
  BY CallersKeep
<1>2. call[p].pc \in CreatePCs
  BY DEF Create, At, CreatePCs, Resolve, Precheck, SwitchMain, CheckHeld, EnsureIgnore,
         CutBranch, AddTree, FailAdd, LinkAndVerify, UndoMain, UndoTree, UndoDir, UndoBranch,
         UndoPrune
<1>3. call'[p].pc \notin DropPCs
  <2>1. call[p].request.op = "create" /\ Shape(call'[p])
    BY <1>1, <1>2 DEF IInv, Shaped, Shape, Steps
  <2>2. CASE call'[p] = Idle
    BY <2>2 DEF Idle, DropPCs
  <2>3. CASE call'[p].request = call[p].request
    BY <2>1, <2>3 DEF Shape
  <2> QED BY <1>1, <2>2, <2>3 DEF Steps, GoesOn
<1>4. KnowsTree(p)'
  BY <1>3 DEF KnowsTree, DropPCs
<1>5. CASE call[p].alone
  BY <1>4, <1>5, BeforeTreeRemembers, AddRemembers, UndoRemembers DEF Create
<1>6. CASE ~call[p].alone
  <2>1. ~call'[p].alone \/ call'[p] = Idle
    BY <1>1, <1>6 DEF Steps, GoesOn
  <2>2. call'[p] = Idle => call'[p].pc \notin CreatePCs
    BY DEF Idle, CreatePCs
  <2> QED BY <1>4, <2>1, <2>2, Zenon DEF KnowsBefore
<1> QED BY <1>5, <1>6

(* Where remove and sweep go.                                              *)
LEMMA RemoveGoesTo ==
  ASSUME IInv, NEW p \in Callers, Remove(p) \/ Sweep(p) \/ Die(p)
  PROVE  call'[p].pc \in RemovePCs \cup {"idle"}
<1> DEFINE c == call[p]
           d == call'[p]
<1>1. call \in [Callers -> CallRecords] /\ c \in CallRecords
  BY DEF IInv, WorktreesTypeOK
<1>2. CASE Answer(p)
  BY <1>1, <1>2, Answering DEF Idle
<1>3. ASSUME NEW s \in RemovePCs, Goto(p, s)
      PROVE  d.pc \in RemovePCs
  BY <1>3, GoneOn DEF PCs
<1>4. CASE Find(p)
  <2>1. ASSUME NEW x, To(p, [c EXCEPT !.pc = "dirty", !.branch = x])
        PROVE  d.pc = "dirty"
    <3>1. d = [c EXCEPT !.pc = "dirty", !.branch = x]
      BY <2>1, Set
    <3> HIDE DEF c, d
    <3> QED BY <1>1, <3>1, SMT DEF CallRecords
  <2>2. ASSUME NEW x, To(p, [c EXCEPT !.pc = "clean", !.branch = x, !.gone = TRUE])
        PROVE  d.pc = "clean"
    <3>1. d = [c EXCEPT !.pc = "clean", !.branch = x, !.gone = TRUE]
      BY <2>2, Set
    <3> HIDE DEF c, d
    <3> QED BY <1>1, <3>1, SMT DEF CallRecords
  <2>3. "dirty" \in RemovePCs /\ "clean" \in RemovePCs
    BY DEF RemovePCs
  <2> QED BY <1>2, <1>4, <2>1, <2>2, <2>3 DEF Find
<1>5. CASE CheckDirty(p) \/ CheckUnpushed(p) \/ DropTree(p) \/ CleanTask(p)
  BY <1>2, <1>3, <1>5 DEF CheckDirty, CheckUnpushed, DropTree, CleanTask, RemovePCs
<1>6. CASE MeasureMerged(p)
  <2>1. ASSUME NEW x, To(p, [c EXCEPT !.pc = "delete", !.sure = x])
        PROVE  d.pc = "delete"
    <3>1. d = [c EXCEPT !.pc = "delete", !.sure = x]
      BY <2>1, Set
    <3> HIDE DEF c, d
    <3> QED BY <1>1, <3>1, SMT DEF CallRecords
  <2>2. "delete" \in RemovePCs
    BY DEF RemovePCs
  <2> QED BY <1>6, <2>1, <2>2 DEF MeasureMerged
<1>7. ASSUME NEW b, NEW u, To(p, [c EXCEPT !.pc = "merged", !.branch = b, !.todo = u])
      PROVE  d.pc \in RemovePCs
  <2>1. d = [c EXCEPT !.pc = "merged", !.branch = b, !.todo = u]
    BY <1>7, Set
  <2>2. d.pc = "merged"
    <3> HIDE DEF c, d
    <3> QED BY <1>1, <2>1, SMT DEF CallRecords
  <2> QED BY <2>2 DEF RemovePCs
<1>8. CASE DeleteBranch(p)
  BY <1>2, <1>7, <1>8 DEF DeleteBranch, AfterDelete
<1>9. CASE Sweep(p)
  BY <1>2, <1>7, <1>9 DEF Sweep
<1> QED BY <1>2, <1>4, <1>5, <1>6, <1>8, <1>9 DEF Remove, Die

LEMMA RemoveRemembers ==
  ASSUME IInv, NEW p \in Callers, KnowsTree(p), Remove(p) \/ Sweep(p) \/ Die(p)
  PROVE  KnowsTree(p)' /\ KnowsBefore(p)'
<1> DEFINE c == call[p]
           d == call'[p]
           n == c.request.name
<1>1. call \in [Callers -> CallRecords] /\ c \in CallRecords
  BY DEF IInv, WorktreesTypeOK
<1>2. d.pc \in RemovePCs \cup {"idle"} /\ Steps(p)
  BY RemoveGoesTo, CallersKeep
<1>3. KnowsBefore(p)'
  <2>1. d.pc \notin CreatePCs
    BY <1>2 DEF RemovePCs, CreatePCs
  <2> QED BY <2>1, Zenon DEF KnowsBefore
<1>4. SUFFICES KnowsTree(p)'
  BY <1>3
<1>5. ASSUME d.pc \notin {"dirty", "unpushed", "drop", "clean"}
      PROVE  KnowsTree(p)'
  BY <1>5, Zenon DEF KnowsTree
<1>6. CASE Answer(p)
  BY <1>1, <1>5, <1>6, Answering DEF Idle
<1>7. ASSUME To(p, [c EXCEPT !.pc = "dirty",
                             !.branch = IF MyTree(p).dir THEN MyTree(p).branch ELSE None]),
             MyTree(p) # None, tree' = tree
      PROVE  KnowsTree(p)'
  <2> DEFINE x == IF MyTree(p).dir THEN MyTree(p).branch ELSE None
  <2>1. d = [c EXCEPT !.pc = "dirty", !.branch = x]
    BY <1>7, Set
  <2>2. d.pc = "dirty" /\ d.branch = x /\ d.request = c.request
    <3> HIDE DEF c, d, x
    <3> QED BY <1>1, <2>1, SMT DEF CallRecords
  <2>3. MyTree(p)' = MyTree(p)
    BY <1>7, <2>2, Zenon DEF MyTree, Asked
  <2> QED BY <1>7, <2>2, <2>3, Zenon DEF KnowsTree
<1>8. ASSUME To(p, [c EXCEPT !.pc = "clean", !.branch = Leftover(Asked(p)), !.gone = TRUE])
      PROVE  KnowsTree(p)'
  <2>1. d = [c EXCEPT !.pc = "clean", !.branch = Leftover(Asked(p)), !.gone = TRUE]
    BY <1>8, Set
  <2>2. d.pc = "clean" /\ d.gone
    <3> HIDE DEF c, d
    <3> QED BY <1>1, <2>1, SMT DEF CallRecords
  <2> QED BY <2>2, Zenon DEF KnowsTree
<1>9. ASSUME NEW s \in {"unpushed", "drop"}, Goto(p, s), c.pc \in {"dirty", "unpushed"},
             tree' = tree
      PROVE  KnowsTree(p)'
  <2>1. d.pc = s /\ Rest(c, d)
    BY <1>9, GoneOn DEF PCs, RemovePCs
  <2>2. MyTree(p)' = MyTree(p)
    BY <1>9, <2>1, Zenon DEF MyTree, Asked, Rest, Same
  <2> QED BY <1>9, <2>1, <2>2 DEF KnowsTree, Rest, Same
<1>10. CASE DropTree(p) /\ Goto(p, "clean") /\ MyTree(p) # None
  <2>1. d.pc = "clean" /\ Rest(c, d) /\ c.pc = "drop"
    BY <1>10, GoneOn DEF PCs, RemovePCs, DropTree, At
  <2>2. SUFFICES ASSUME c.alone, c.branch # None
                 PROVE  /\ mainOn' # c.branch
                        /\ \A m \in Names : tree'[m] # None => tree'[m].branch # c.branch
    BY <2>1 DEF KnowsTree, Rest, Same, Held, HeldBySomeTree
  <2>3. MyTree(p).branch = c.branch
    BY <2>1, <2>2 DEF KnowsTree
  <2>4. n \in Names /\ MyTree(p) = tree[n]
    <3>1. Asked(p) \in Removes /\ Asked(p) = c.request
      BY <2>1, CallKnown DEF At, DropPCs
    <3> QED BY <3>1, SMT DEF Removes, MyTree
  <2>5. /\ mainOn' = mainOn
        /\ tree' = [m \in Names |-> IF m = n \/ (tree[m] # None /\ ~tree[m].dir)
                                    THEN None ELSE tree[m]]
    <3>1. ~Answer(p)
      BY <1>1, <2>1, Answering DEF Idle
    <3> QED BY <1>10, <3>1 DEF DropTree, Asked
  <2>6. \A m \in Names : tree'[m] # None => m # n /\ tree'[m] = tree[m] /\ tree[m] # None
    BY <2>5, Zenon
  <2>7. mainOn # c.branch /\ \A m \in Names : m # n /\ tree[m] # None => tree[m].branch # c.branch
    BY <1>10, <2>3, <2>4 DEF IInv, OneCheckout
  <2> QED BY <2>5, <2>6, <2>7, Zenon
<1>11. CASE Find(p)
  BY <1>6, <1>7, <1>8, <1>11 DEF Find, sites
<1>12. CASE CheckDirty(p) \/ CheckUnpushed(p)
  BY <1>6, <1>9, <1>12 DEF CheckDirty, CheckUnpushed, At, sites
<1>13. CASE DropTree(p)
  BY <1>6, <1>10, <1>13 DEF DropTree
<1>14. CASE CleanTask(p) \/ MeasureMerged(p) \/ DeleteBranch(p) \/ Sweep(p)
  <2>1. ASSUME NEW s, Goto(p, s), s = "merged"  PROVE KnowsTree(p)'
    BY <1>5, <2>1, GoneOn DEF PCs, RemovePCs
  <2>2. c.pc \in {"clean", "merged", "delete", "list"}
    BY <1>14 DEF CleanTask, MeasureMerged, DeleteBranch, Sweep, At
  <2>3. CASE CleanTask(p)
    BY <1>6, <2>1, <2>3 DEF CleanTask
  <2>4. CASE MeasureMerged(p)
    <3>1. PICK x : To(p, [c EXCEPT !.pc = "delete", !.sure = x])
      BY <2>4 DEF MeasureMerged
    <3>2. d = [c EXCEPT !.pc = "delete", !.sure = x]
      BY <3>1, Set
    <3>3. d.pc = "delete"
      <4> HIDE DEF c, d
      <4> QED BY <1>1, <3>2, SMT DEF CallRecords
    <3> QED BY <1>5, <3>3
  <2>5. ASSUME NEW b, NEW u, To(p, [c EXCEPT !.pc = "merged", !.branch = b, !.todo = u])
        PROVE  KnowsTree(p)'
    <3>1. d = [c EXCEPT !.pc = "merged", !.branch = b, !.todo = u]
      BY <2>5, Set
    <3>2. d.pc = "merged"
      <4> HIDE DEF c, d
      <4> QED BY <1>1, <3>1, SMT DEF CallRecords
    <3> QED BY <1>5, <3>2
  <2>6. CASE DeleteBranch(p)
    BY <1>6, <2>5, <2>6 DEF DeleteBranch, AfterDelete
  <2>7. CASE Sweep(p)
    BY <1>6, <2>5, <2>7 DEF Sweep
  <2> QED BY <1>14, <2>3, <2>4, <2>6, <2>7
<1> QED BY <1>6, <1>11, <1>12, <1>13, <1>14 DEF Remove, Die

LEMMA StepRemembers ==
  ASSUME IInv, Remembers, Considerate, Next
  PROVE  Remembers'
<1>1. ASSUME NEW q \in Callers, Create(q) \/ Remove(q) \/ Sweep(q) \/ Die(q), NEW p \in Callers
      PROVE  KnowsTree(p)' /\ KnowsBefore(p)'
  <2>1. CASE p # q
    BY <1>1, <2>1, CallersKeep, OthersRemember
  <2>2. CASE p = q
    BY <1>1, <2>2, CreateRemembers, RemoveRemembers DEF Remembers
  <2> QED BY <2>1, <2>2
<1> QED BY <1>1, BeginRemembers, PeopleRemember DEF Next, Remembers

(* With people who keep off what a call works on: a remove that is alone   *)
(* has its tree on the branch it found, and a create that is alone finds   *)
(* what it will put back.                                                  *)
THEOREM CallsRemember ==
  ASSUME Considerate
  PROVE  Spec => []Remembers
<1>1. Init => Remembers
  <2>1. Init => \A p \in Callers : call[p].pc = "idle"
    BY DEF Init, Idle
  <2>2. "idle" \notin CreatePCs
    BY DEF CreatePCs
  <2> QED BY <2>1, <2>2, Zenon DEF Remembers, KnowsTree, KnowsBefore
<1>2. IInv /\ Remembers /\ [Next]_vars => Remembers'
  <2> SUFFICES ASSUME Remembers, UNCHANGED vars PROVE Remembers'
    BY StepRemembers
  <2> QED BY SMT DEF vars, refs, sites, Remembers, KnowsTree, KnowsBefore, MyTree, Asked, Held,
                     HeldBySomeTree, MainAway
<1> QED BY <1>1, <1>2, WorktreesInvariance, PTL DEF Spec

(* TaskGoesWithTree: a call that is alone drops the task state of a branch *)
(* only when no checkout has the branch any more.                          *)
THEOREM TaskGoes ==
  ASSUME Considerate
  PROVE  Spec => TaskGoesWithTree
<1>1. ASSUME IInv, Remembers, Next, NEW b \in task \ task'
      PROVE  \/ ~Held(b)
             \/ \E p \in Callers : At(p, "clean") /\ (call[p].gone \/ ~call[p].alone)
  <2>1. PICK p \in Callers : CleanTask(p)
    <3>1. ~People
      BY <1>1 DEF People, Edit, Commit, CommitInMain, Push, MergeRemote, SquashRemote,
                  RecordTask, PersonSwitchesMain, RemoveByHand, sites
    <3>2. \A p \in Callers : ~(Begin(p) \/ Die(p) \/ Sweep(p))
      BY <1>1 DEF Begin, Die, Sweep, sites
    <3>3. \A p \in Callers : ~Create(p)
      BY <1>1 DEF Create, Resolve, Precheck, SwitchMain, CheckHeld, EnsureIgnore, FailBeforeTree,
                  CutBranch, AddTree, FailAdd, LinkAndVerify, UndoMain, UndoTree, UndoDir,
                  UndoBranch, UndoPrune, sites
    <3>4. \A p \in Callers : Remove(p) => CleanTask(p)
      BY <1>1 DEF Remove, Find, CheckDirty, CheckUnpushed, DropTree, MeasureMerged, DeleteBranch,
                  sites
    <3> QED BY <1>1, <3>1, <3>2, <3>3, <3>4 DEF Next
  <2>2. At(p, "clean") /\ b = call[p].branch
    BY <1>1, <2>1 DEF CleanTask
  <2>3. b # None
    BY <1>1, RefsAssumption DEF IInv, WorktreesTypeOK
  <2>4. KnowsTree(p)
    BY <1>1 DEF Remembers
  <2> QED BY <2>2, <2>3, <2>4 DEF KnowsTree, At
<1>2. IInv /\ Remembers /\ [Next]_vars =>
        [\A b \in task \ task' :
           \/ ~Held(b)
           \/ \E p \in Callers : At(p, "clean") /\ (call[p].gone \/ ~call[p].alone)]_vars
  BY <1>1
<1> QED BY <1>2, WorktreesInvariance, CallsRemember, PTL DEF Spec, TaskGoesWithTree

(* FailedCreateUndone: a create that is alone and gives up - before there  *)
(* is a tree, or with a rollback that leaves nothing over - leaves the     *)
(* branches, its worktree name and the main checkout as it found them.     *)
THEOREM FailedCreateIsUndone ==
  ASSUME Considerate
  PROVE  Spec => FailedCreateUndone
<1> DEFINE Undone(p) ==
             call[p].alone /\ ~mainDirty /\ GivesUp(p) =>
               LET was  == call[p].before
                   b    == call[p].branch
                   mine == tree'[Asked(p).name]
                   half == At(p, "fail")
                   put  == half /\ was.tree = None /\ mine = NewTree(b)
               IN  /\ \/ exists' = was.had
                      \/ half /\ call[p].created /\ exists' = was.had \cup {b}
                   /\ mine = was.tree \/ put
                   /\ mainOn' = was.main \/ (put /\ b = was.main)
<1>1. ASSUME IInv, Remembers, NEW p \in Callers, call[p].alone, ~mainDirty, GivesUp(p)
      PROVE  Undone(p)
  <2> DEFINE c == call[p]
             d == call'[p]
             was == c.before
             n == Asked(p).name
  <2>1. KnowsBefore(p)
    BY <1>1 DEF Remembers
  <2>2. CASE UndoPrune(p) /\ c.clean
    <3>1. c.pc = "undo_prune" /\ exists' = exists /\ mainOn' = mainOn /\ Prune
      BY <2>2 DEF UndoPrune, At, refs
    <3>2. exists = was.had /\ mainOn = was.main /\ tree[n] = None /\ was.tree = None
      BY <1>1, <2>1, <2>2, <3>1, SMT DEF KnowsBefore, Early, Undoing, CreatePCs, Asked
    <3>3. n \in Names
      BY <1>1, <3>1, CallKnown, SMT DEF At, CreatePCs, Creates
    <3>4. tree'[n] = None
      <4> HIDE DEF n
      <4> QED BY <3>1, <3>2, <3>3 DEF Prune
    <3> QED BY <3>1, <3>2, <3>4
  <2>3. CASE (CheckHeld(p) \/ EnsureIgnore(p) \/ CutBranch(p) \/ FailAdd(p)) /\ d.pc = "idle"
    <3>1. c.pc \in {"held", "ignore", "cut", "fail"}
      BY <2>3 DEF CheckHeld, EnsureIgnore, CutBranch, FailAdd, At
    <3>2. MainAway(c, was) /\ was.main \in exists
      BY <1>1, <2>1, <3>1, SMT DEF KnowsBefore, Early, CreatePCs, Asked
    <3>3. FailBeforeTree(p)
      <4>1. ASSUME NEW s \in CreatePCs, Goto(p, s)  PROVE call'[p].pc # "idle"
        <5>1. call'[p].pc = s
          BY <1>1, <4>1, GoneOn DEF PCs
        <5> QED BY <5>1 DEF CreatePCs
      <4> QED BY <2>3, <4>1 DEF CheckHeld, EnsureIgnore, CutBranch, FailAdd, CreatePCs
    <3>4. exists' = exists /\ tree' = tree
      BY <3>3 DEF FailBeforeTree, refs
    <3>5. mainOn' = was.main \/ HeldBySomeTree(was.main)
      <4>1. c.prev = None => mainOn = was.main
        BY <3>2 DEF MainAway
      <4>2. c.prev # None => c.prev = was.main
        BY <3>1, <3>2 DEF MainAway
      <4> QED BY <1>1, <3>2, <3>3, <4>1, <4>2 DEF FailBeforeTree, RestoreMain, CanSwitch
    <3>6. CASE c.pc # "fail"
      <4>1. exists = was.had /\ tree[n] = was.tree /\ ~HeldBySomeTree(was.main)
        BY <1>1, <2>1, <3>1, <3>6, SMT DEF KnowsBefore, Early, CreatePCs, Asked
      <4> QED BY <3>4, <3>5, <4>1
    <3>7. CASE c.pc = "fail"
      <4>1. /\ exists = IF c.created THEN was.had \cup {c.branch} ELSE was.had
            /\ \/ tree[n] = was.tree /\ ~HeldBySomeTree(was.main)
               \/ /\ was.tree = None /\ tree[n] = NewTree(c.branch)
                  /\ HeldBySomeTree(was.main) => c.branch = was.main
        BY <1>1, <2>1, <3>7, SMT DEF KnowsBefore, Early, CreatePCs, Asked
      <4> QED BY <3>4, <3>5, <3>7, <4>1 DEF At
    <3> QED BY <3>6, <3>7
  <2> QED BY <1>1, <2>2, <2>3 DEF GivesUp
<1>2. IInv /\ Remembers /\ [Next]_vars => [\A p \in Callers : Undone(p)]_vars
  BY <1>1
<1>3. [][\A p \in Callers : Undone(p)]_vars => FailedCreateUndone
  BY DEF FailedCreateUndone
<1> HIDE DEF Undone
<1> QED BY <1>2, <1>3, WorktreesInvariance, CallsRemember, PTL DEF Spec
-----------------------------------------------------------------------------
(* What one step of a call does to branches and worktrees.                 *)
Quiet == UNCHANGED <<exists, work, tree>>

(* A branch is cut, from the base or from what was resolved.               *)
Cuts(p) ==
  LET b == call[p].branch
      base == call[p].request.base
  IN  /\ At(p, "cut") /\ tree' = tree
      /\ b \notin exists /\ exists' = exists \cup {b}
      /\ work' = [work EXCEPT ![b] = IF base = None THEN call[p].cut ELSE work[base]]

(* A worktree appears on a branch that exists.                             *)
Adds(p) ==
  LET b == call[p].branch
      n == call[p].request.name
  IN  /\ At(p, "add") /\ tree[n] = None /\ b \in exists
      /\ tree' = [tree EXCEPT ![n] = NewTree(b)]
      /\ UNCHANGED <<exists, work>>

(* A branch that no checkout has is deleted.                               *)
Forgets(p) ==
  LET b == call[p].branch
  IN  /\ ForgetBranch(b) /\ ~Held(b) /\ tree' = tree
      /\ \/ At(p, "undo_branch") /\ call[p].created
         \/ /\ At(p, "delete") /\ CanDelete(b, call[p].sure)
            /\ Forced(p) => work[b] \subseteq discarded'

(* A worktree or its directory is removed, registrations without a         *)
(* directory are pruned.                                                   *)
Shrinks(p) ==
  /\ UNCHANGED <<exists, work>>
  /\ tree' \in [Names -> Trees \cup {None}]
  /\ \A n \in Names :
       \/ tree'[n] = tree[n]
       \/ tree[n] # None /\ ~tree[n].dir /\ tree'[n] = None
       \/ /\ n = call[p].request.name /\ tree[n] # None
          /\ tree'[n] = None \/ tree'[n] = WithoutDir(tree[n])
          /\ \/ call[p].pc \in {"undo_tree", "undo_dir"}
             \/ /\ At(p, "drop")
                /\ call[p].request.force => tree[n].dirty \subseteq discarded'

LEMMA CreateEffects ==
  ASSUME IInv, NEW p \in Callers, Create(p)
  PROVE  /\ UNCHANGED <<hasRemote, remote, landed, discarded>>
         /\ Quiet \/ Cuts(p) \/ Adds(p) \/ Forgets(p) \/ Shrinks(p)
<1>1. UNCHANGED <<hasRemote, remote, landed, discarded>>
  BY DEF Create, Resolve, Precheck, SwitchMain, CheckHeld, EnsureIgnore, FailBeforeTree,
         CutBranch, AddTree, FailAdd, LinkAndVerify, UndoMain, UndoTree, UndoDir, UndoBranch,
         UndoPrune, ForgetBranch, refs
<1>2. tree \in [Names -> Trees \cup {None}]
  BY DEF IInv, WorktreesTypeOK
<1>3. CASE Resolve(p) \/ Precheck(p) \/ SwitchMain(p) \/ CheckHeld(p) \/ EnsureIgnore(p)
             \/ FailAdd(p) \/ LinkAndVerify(p) \/ UndoMain(p)
  BY <1>3 DEF Resolve, Precheck, SwitchMain, CheckHeld, EnsureIgnore, FailBeforeTree,
              FailAdd, LinkAndVerify, UndoMain, refs, sites, Quiet
<1>4. CASE CutBranch(p) \/ AddTree(p)
  <2>1. CASE CutBranch(p) /\ FailBeforeTree(p)
    BY <2>1 DEF FailBeforeTree, refs, Quiet
  <2>2. CASE CutBranch(p) /\ ~FailBeforeTree(p)
    BY <2>2 DEF CutBranch, Cuts, Asked, sites
  <2>3. CASE AddTree(p) /\ tree' = tree
    BY <2>3 DEF AddTree, Quiet, refs
  <2>4. CASE AddTree(p) /\ tree' # tree
    BY <2>4 DEF AddTree, CanAdd, Adds, Asked, refs
  <2> QED BY <1>4, <2>1, <2>2, <2>3, <2>4
<1>5. ASSUME UNCHANGED <<exists, work>>, TreesFewer,
             call[p].pc \in {"undo_tree", "undo_dir"},
             \A n \in Names : \/ tree'[n] = tree[n]
                              \/ /\ n = Asked(p).name /\ tree[n] # None
                                 /\ tree'[n] = None \/ tree'[n] = WithoutDir(tree[n])
      PROVE  Shrinks(p)
  BY <1>5 DEF Shrinks, TreesFewer, Asked
<1>6. CASE UndoTree(p)
  <2>1. CASE tree' = tree
    BY <1>6, <2>1 DEF UndoTree, refs, Quiet
  <2>2. CASE tree[Asked(p).name] # None /\ tree' = [tree EXCEPT ![Asked(p).name] = None]
    <3>1. None \in Trees \cup {None}
      OBVIOUS
    <3>2. /\ tree' \in [Names -> Trees \cup {None}]
          /\ \A m \in Names : m # Asked(p).name => tree'[m] = tree[m]
          /\ Asked(p).name \in Names => tree'[Asked(p).name] = None
      BY <1>2, <2>2, <3>1, OneChanged, Zenon
    <3>3. TreesFewer
      BY <3>2 DEF TreesFewer
    <3> QED BY <1>5, <1>6, <2>2, <3>2, <3>3 DEF UndoTree, At, refs
  <2> QED BY <1>6, <2>1, <2>2 DEF UndoTree
<1>7. CASE UndoDir(p)
  <2> DEFINE n == Asked(p).name
  <2>1. CASE tree' = tree
    BY <1>7, <2>1 DEF UndoDir, refs, Quiet
  <2>2. CASE HasDir(n) /\ tree' = [tree EXCEPT ![n] = WithoutDir(tree[n])]
    <3>1. n \in Names
      BY <1>7, CallKnown, SMT DEF UndoDir, At, CreatePCs, Creates
    <3>2. tree[n] # None /\ WithoutDir(tree[n]) \in Trees \cup {None}
          /\ WithoutDir(tree[n]).branch = tree[n].branch
      BY <2>2, <3>1, IsSound, DirOfTree, TreeContents
    <3>3. /\ tree' \in [Names -> Trees \cup {None}] /\ tree'[n] = WithoutDir(tree[n])
          /\ \A m \in Names : m # n => tree'[m] = tree[m]
      BY <1>2, <2>2, <3>1, <3>2, OneChanged, Zenon
    <3>4. TreesFewer
      BY <3>2, <3>3, Zenon DEF TreesFewer
    <3> QED BY <1>5, <1>7, <3>2, <3>3, <3>4 DEF UndoDir, At, refs
  <2> QED BY <1>7, <2>1, <2>2 DEF UndoDir
<1>8. CASE UndoBranch(p)
  <2>1. At(p, "undo_branch") /\ tree' = tree
    BY <1>8 DEF UndoBranch, sites
  <2>2. CASE UNCHANGED refs
    BY <1>1, <2>1, <2>2 DEF Quiet, refs
  <2>3. CASE call[p].created /\ ~Held(call[p].branch) /\ ForgetBranch(call[p].branch)
    <3>1. Forgets(p)
      BY <2>1, <2>3, Zenon DEF Forgets
    <3> QED BY <1>1, <3>1
  <2> QED BY <1>8, <2>2, <2>3 DEF UndoBranch
<1>9. CASE UndoPrune(p)
  <2>1. tree' \in [Names -> Trees \cup {None}]
    BY <1>2, <1>9, Zenon DEF UndoPrune, Prune
  <2> QED BY <1>9, <2>1, Zenon DEF UndoPrune, Prune, Shrinks, refs
<1> QED BY <1>1, <1>3, <1>4, <1>6, <1>7, <1>8, <1>9 DEF Create

LEMMA RemoveEffects ==
  ASSUME IInv, NEW p \in Callers, Remove(p) \/ Sweep(p) \/ Die(p)
  PROVE  /\ UNCHANGED <<hasRemote, remote, landed>> /\ discarded \subseteq discarded'
         /\ Quiet \/ Forgets(p) \/ Shrinks(p)
<1>1. UNCHANGED <<hasRemote, remote, landed>> /\ discarded \subseteq discarded'
  BY DEF Remove, Sweep, Die, Find, CheckDirty, CheckUnpushed, DropTree, CleanTask, MeasureMerged,
         DeleteBranch, ForgetBranch, refs
<1>2. CASE Find(p) \/ CheckDirty(p) \/ CheckUnpushed(p) \/ CleanTask(p) \/ MeasureMerged(p)
             \/ Sweep(p) \/ Die(p)
  BY <1>2 DEF Find, CheckDirty, CheckUnpushed, CleanTask, MeasureMerged, Sweep, Die, refs, sites,
              Quiet
<1>3. CASE DropTree(p)
  <2>1. tree \in [Names -> Trees \cup {None}]
    BY DEF IInv, WorktreesTypeOK
  <2>2. CASE tree' = tree
    BY <1>3, <2>2 DEF DropTree, Quiet, refs
  <2>3. CASE /\ MyTree(p) # None
             /\ tree' = [n \in Names |->
                  IF n = Asked(p).name \/ (tree[n] # None /\ ~tree[n].dir)
                  THEN None ELSE tree[n]]
             /\ Asked(p).force => MyTree(p).dirty \subseteq discarded'
    <3>1. tree' \in [Names -> Trees \cup {None}]
      BY <2>1, <2>3, Zenon
    <3>2. At(p, "drop") /\ UNCHANGED <<exists, work>>
      BY <1>3 DEF DropTree, refs
    <3>3. Shrinks(p)
      BY <2>3, <3>1, <3>2, Zenon DEF Shrinks, MyTree, Asked
    <3> QED BY <1>1, <3>3
  <2> QED BY <1>3, <2>2, <2>3 DEF DropTree
<1>4. CASE DeleteBranch(p)
  <2>1. CASE UNCHANGED refs
    BY <1>4, <2>1 DEF DeleteBranch, Quiet, refs, sites
  <2>2. CASE /\ CanDelete(call[p].branch, call[p].sure) /\ ForgetBranch(call[p].branch)
             /\ Forced(p) => work[call[p].branch] \subseteq discarded'
    <3>1. At(p, "delete") /\ tree' = tree
      BY <1>4 DEF DeleteBranch, sites
    <3>2. ~Held(call[p].branch)
      BY <2>2 DEF CanDelete
    <3>3. Forgets(p)
      BY <2>2, <3>1, <3>2, Zenon DEF Forgets
    <3> QED BY <1>1, <3>3
  <2> QED BY <1>4, <2>1, <2>2 DEF DeleteBranch
<1> QED BY <1>1, <1>2, <1>3, <1>4 DEF Remove
-----------------------------------------------------------------------------
(* No work is lost.                                                        *)
InTree(x) == \E n \in Names : tree[n] # None /\ x \in tree[n].dirty
Somewhere(x) ==
  \/ InTree(x)
  \/ \E b \in Branches : x \in work[b] \/ x \in remote[b]
  \/ x \in landed \/ x \in discarded

LEMMA KeptIs == ASSUME NEW x PROVE x \in Kept <=> Somewhere(x)
<1>1. x \in Uncommitted <=> InTree(x)
  BY Zenon DEF Uncommitted, InTree
<1>2. x \in OnRemotes <=> \E b \in Branches : x \in remote[b]
  BY Zenon DEF OnRemotes
<1>3. x \in UNION {work[b] : b \in Branches} <=> \E b \in Branches : x \in work[b]
  BY Zenon
<1> QED BY <1>1, <1>2, <1>3, Zenon DEF Kept, Somewhere

LEMMA KeptIsNext == ASSUME NEW x PROVE x \in Kept' <=> Somewhere(x)'
<1>1. x \in Uncommitted' <=> InTree(x)'
  BY Zenon DEF Uncommitted, InTree
<1>2. x \in OnRemotes' <=> \E b \in Branches : x \in remote'[b]
  BY Zenon DEF OnRemotes
<1>3. x \in UNION {work'[b] : b \in Branches} <=> \E b \in Branches : x \in work'[b]
  BY Zenon
<1> QED BY <1>1, <1>2, <1>3, Zenon DEF Kept, Somewhere

(* What is settled is not lost by a step that leaves the merge-branch.     *)
LEMMA SettledIsSomewhere ==
  ASSUME NEW x \in Settled, Settled \subseteq Settled'
  PROVE  Somewhere(x)'
BY RefsAssumption DEF Settled, Somewhere

LEMMA AddsKeep ==
  ASSUME IInv, WorkIsSafe, NEW p \in Callers, Cuts(p) \/ Adds(p), NEW x \in Kept,
         UNCHANGED <<remote, landed>>, discarded \subseteq discarded'
  PROVE  x \in Kept'
<1> DEFINE b == call[p].branch
           n == call[p].request.name
<1>1. tree \in [Names -> Trees \cup {None}] /\ work \in [Branches -> SUBSET Work]
  BY DEF IInv, WorktreesTypeOK
<1>2. InTree(x) => InTree(x)'
  <2>1. \A m \in Names : tree'[m] = tree[m] \/ (m = n /\ tree[n] = None)
    BY <1>1 DEF Cuts, Adds
  <2> QED BY <2>1 DEF InTree
<1>3. \A a \in Branches : x \in work[a] => x \in work'[a]
  <2>1. b \notin exists => work[b] = {} \/ b \notin Branches
    BY DEF WorkIsSafe, NoWorkNowhere
  <2>2. \A a \in Branches : a # b => work'[a] = work[a]
    BY <1>1 DEF Cuts, Adds
  <2> QED BY <2>1, <2>2 DEF Cuts, Adds
<1>4. Somewhere(x)
  BY KeptIs
<1>5. Somewhere(x)'
  BY <1>2, <1>3, <1>4 DEF Somewhere
<1> QED BY <1>5, KeptIsNext

LEMMA ForgetsKeep ==
  ASSUME IInv, WorkIsSafe, NEW p \in Callers, Forgets(p), NEW x \in Kept,
         UNCHANGED <<hasRemote, remote, landed>>, discarded \subseteq discarded'
  PROVE  x \in Kept'
<1> SUFFICES Somewhere(x)'
  BY KeptIsNext
<1> DEFINE b == call[p].branch
<1>1. /\ work \in [Branches -> SUBSET Work] /\ mainOn \in exists /\ exists \subseteq Branches
      /\ b # Merge /\ Merge \in Branches
  BY RefsAssumption DEF IInv, WorktreesTypeOK, WorkIsSafe, MergeStays
<1>2. \A a \in Branches : a # b => work'[a] = work[a]
  BY <1>1 DEF Forgets, ForgetBranch
<1>3. Settled' = Settled
  BY <1>1, <1>2 DEF Settled
<1>4. Somewhere(x)
  BY KeptIs
<1>5. CASE b \in Branches /\ x \in work[b]
  <2>1. CASE x \in Settled
    BY <1>3, <2>1, SettledIsSomewhere
  <2>2. CASE x \in discarded'
    BY <2>2 DEF Somewhere
  <2>3. CASE x \in remote[b]
    BY <1>5, <2>3 DEF Somewhere
  <2>4. CASE x \in work[mainOn]
    <3>1. mainOn # b
      BY DEF Forgets, Held
    <3> QED BY <1>1, <1>2, <2>4, <3>1 DEF Somewhere
  <2>5. CASE At(p, "undo_branch") /\ call[p].created
    <3>1. work[b] \subseteq Settled
      BY <2>5 DEF WorkIsSafe, KnowsWork, At, CreatePCs, Early
    <3> QED BY <1>5, <2>1, <3>1
  <2>6. CASE At(p, "delete") /\ Forced(p)
    <3>1. work[b] \subseteq discarded'
      <4>1. call[p].pc # "undo_branch"
        BY <2>6 DEF At
      <4> QED BY <2>6, <4>1 DEF Forgets, At
    <3> QED BY <1>5, <2>2, <3>1
  <2>7. CASE At(p, "delete") /\ ~Forced(p) /\ call[p].sure
    <3>1. work[b] \subseteq Settled
      BY <2>7 DEF WorkIsSafe, KnowsWork, At
    <3> QED BY <1>5, <2>1, <3>1
  <2>8. CASE BranchDMerged(b)
    BY <1>5, <2>3, <2>4, <2>8 DEF BranchDMerged
  <2> QED BY <2>5, <2>6, <2>7, <2>8 DEF Forgets, CanDelete
<1>6. CASE ~(b \in Branches /\ x \in work[b])
  <2>1. InTree(x) => InTree(x)'
    BY DEF InTree, Forgets
  <2>2. \A a \in Branches : x \in work[a] => x \in work'[a]
    BY <1>2, <1>6
  <2> QED BY <1>4, <2>1, <2>2 DEF Somewhere
<1> QED BY <1>5, <1>6

LEMMA ShrinksKeep ==
  ASSUME IInv, WorkIsSafe, NEW p \in Callers, Shrinks(p), NEW x \in Kept,
         UNCHANGED <<remote, landed>>, discarded \subseteq discarded'
  PROVE  x \in Kept'
<1>1. Somewhere(x)
  BY KeptIs
<1>2. ASSUME NEW n \in Names, tree[n] # None, x \in tree[n].dirty
      PROVE  Somewhere(x)'
  <2>1. tree[n].dir
    BY <1>2 DEF WorkIsSafe, NoWorkNowhere
  <2>2. CASE tree'[n] = tree[n]
    BY <1>2, <2>2 DEF Somewhere, InTree
  <2>3. CASE n = call[p].request.name /\ call[p].pc \in {"undo_tree", "undo_dir"}
    BY <1>2, <2>3 DEF WorkIsSafe, KnowsWork
  <2>4. CASE n = call[p].request.name /\ At(p, "drop")
    <3>1. call[p].request.force
      BY <1>2, <2>4 DEF WorkIsSafe, KnowsWork, At
    <3>2. tree'[n] = tree[n] \/ x \in discarded'
      BY <1>2, <2>1, <2>4, <3>1 DEF Shrinks, At
    <3> QED BY <2>2, <3>2 DEF Somewhere
  <2> QED BY <2>1, <2>2, <2>3, <2>4 DEF Shrinks
<1>3. Somewhere(x)'
  BY <1>1, <1>2 DEF Somewhere, InTree, Shrinks
<1> QED BY <1>3, KeptIsNext

LEMMA PeopleKeep ==
  ASSUME IInv, People, NEW x \in Kept
  PROVE  x \in Kept'
<1> SUFFICES Somewhere(x)'
  BY KeptIsNext
<1>1. Somewhere(x)
  BY KeptIs
<1>2. /\ tree \in [Names -> Trees \cup {None}] /\ work \in [Branches -> SUBSET Work]
      /\ remote \in [Branches -> SUBSET Work] /\ mainOn \in Branches
  BY DEF IInv, WorktreesTypeOK
<1>3. ASSUME UNCHANGED tree
      PROVE  InTree(x) => InTree(x)'
  BY <1>3 DEF InTree
<1>4. ASSUME NEW n \in Names, NEW w \in Work, Edit(n, w)
      PROVE  Somewhere(x)'
  <2> DEFINE t == [tree[n] EXCEPT !.dirty = tree[n].dirty \cup {w}]
  <2>1. tree[n] # None /\ tree[n] \in Trees /\ tree[n].dirty \cup {w} \in SUBSET Work
    BY <1>4, IsSound, DirOfTree DEF Edit
  <2>2. tree'[n] = t /\ \A m \in Names : m # n => tree'[m] = tree[m]
    BY <1>2, <1>4 DEF Edit
  <2>3. t.dirty = tree[n].dirty \cup {w}
    BY <2>1, SMT DEF Trees
  <2>4. t # None
    BY <2>1, TreeContents, NoTreeAssumption
  <2> HIDE DEF t
  <2>5. InTree(x) => InTree(x)'
    BY <2>1, <2>2, <2>3, <2>4 DEF InTree
  <2> QED BY <1>1, <1>4, <2>5 DEF Somewhere, Edit, refs
<1>5. ASSUME NEW n \in Names, Commit(n)
      PROVE  Somewhere(x)'
  <2> DEFINE t == [tree[n] EXCEPT !.dirty = {}]
             b == tree[n].branch
  <2>1. tree[n] # None /\ tree[n] \in Trees /\ b \in Branches
    BY <1>5, IsSound, DirOfTree DEF Commit
  <2>2. \A m \in Names : m # n => tree'[m] = tree[m]
    BY <1>2, <1>5 DEF Commit
  <2>3. /\ work'[b] = work[b] \cup tree[n].dirty
        /\ \A a \in Branches : a # b => work'[a] = work[a]
    BY <1>2, <1>5, <2>1 DEF Commit
  <2>4. InTree(x) => InTree(x)' \/ x \in work'[b]
    BY <2>2, <2>3 DEF InTree
  <2>5. \A a \in Branches : x \in work[a] => x \in work'[a]
    BY <2>3
  <2>6. UNCHANGED <<remote, landed, discarded>>
    BY <1>5 DEF Commit
  <2> QED BY <1>1, <2>1, <2>4, <2>5, <2>6 DEF Somewhere
<1>6. ASSUME NEW n \in Names, RemoveByHand(n)
      PROVE  Somewhere(x)'
  <2>1. \A m \in Names : m # n => tree'[m] = tree[m]
    BY <1>2, <1>6 DEF RemoveByHand
  <2>2. InTree(x) => InTree(x)' \/ x \in discarded'
    BY <1>6, <2>1 DEF InTree, RemoveByHand
  <2>3. UNCHANGED <<work, remote, landed>> /\ discarded \subseteq discarded'
    BY <1>6 DEF RemoveByHand, refs
  <2> QED BY <1>1, <2>2, <2>3 DEF Somewhere
<1>7. ASSUME NEW w \in Work, CommitInMain(w)
      PROVE  Somewhere(x)'
  <2>1. \A a \in Branches : x \in work[a] => x \in work'[a]
    BY <1>2, <1>7 DEF CommitInMain
  <2>2. UNCHANGED <<tree, remote, landed, discarded>>
    BY <1>7 DEF CommitInMain, sites
  <2> QED BY <1>1, <1>3, <2>1, <2>2 DEF Somewhere
<1>8. ASSUME NEW b \in Branches, Push(b)
      PROVE  Somewhere(x)'
  <2>1. \A a \in Branches : a # b => remote'[a] = remote[a]
    BY <1>2, <1>8 DEF Push
  <2>2. UNCHANGED <<tree, work, landed, discarded>> /\ remote[b] \subseteq work[b]
    BY <1>8 DEF Push, sites
  <2> QED BY <1>1, <1>3, <2>1, <2>2 DEF Somewhere
<1>9. ASSUME NEW b \in Branches, MergeRemote(b)
      PROVE  Somewhere(x)'
  <2>1. \A a \in Branches : remote[a] \subseteq remote'[a]
    BY <1>2, <1>9 DEF MergeRemote
  <2>2. UNCHANGED <<tree, work, landed, discarded>>
    BY <1>9 DEF MergeRemote, sites
  <2> QED BY <1>1, <1>3, <2>1, <2>2 DEF Somewhere
<1>10. ASSUME NEW b \in Branches, SquashRemote(b)
      PROVE  Somewhere(x)'
  <2>1. \A a \in Branches : a # b => remote'[a] = remote[a]
    BY <1>2, <1>10 DEF SquashRemote
  <2>2. UNCHANGED <<tree, work, discarded>> /\ landed' = landed \cup remote[b]
    BY <1>10 DEF SquashRemote, sites
  <2> QED BY <1>1, <1>3, <2>1, <2>2 DEF Somewhere
<1>11. ASSUME NEW b \in Branches, RecordTask(b) \/ PersonSwitchesMain(b)
      PROVE  Somewhere(x)'
  <2>1. UNCHANGED <<tree, work, remote, landed, discarded>>
    BY <1>11 DEF RecordTask, PersonSwitchesMain, refs
  <2> QED BY <1>1, <1>3, <2>1 DEF Somewhere
<1> QED BY <1>4, <1>5, <1>6, <1>7, <1>8, <1>9, <1>10, <1>11 DEF People

LEMMA StepKeepsWork ==
  ASSUME IInv, WorkIsSafe, Next
  PROVE  Kept \subseteq Kept'
<1> SUFFICES ASSUME NEW x \in Kept PROVE x \in Kept'
  OBVIOUS
<1>1. ASSUME UNCHANGED <<work, remote, landed, tree>>, discarded \subseteq discarded'
      PROVE  x \in Kept'
  <2>1. Somewhere(x)
    BY KeptIs
  <2>2. Somewhere(x)'
    BY <1>1, <2>1 DEF Somewhere, InTree
  <2> QED BY <2>2, KeptIsNext
<1>2. ASSUME NEW p \in Callers, Begin(p)
      PROVE  x \in Kept'
  BY <1>1, <1>2 DEF Begin, refs, sites
<1>3. ASSUME NEW p \in Callers, Create(p) \/ Remove(p) \/ Sweep(p) \/ Die(p)
      PROVE  x \in Kept'
  <2>1. /\ UNCHANGED <<hasRemote, remote, landed>> /\ discarded \subseteq discarded'
        /\ Quiet \/ Cuts(p) \/ Adds(p) \/ Forgets(p) \/ Shrinks(p)
    BY <1>3, CreateEffects, RemoveEffects, Zenon
  <2> QED BY <1>1, <2>1, AddsKeep, ForgetsKeep, ShrinksKeep DEF Quiet
<1> QED BY <1>2, <1>3, PeopleKeep DEF Next
-----------------------------------------------------------------------------
(* What a call knows of its work stays true.                               *)
NoNewDirt(n) ==
  tree'[n] # None =>
    \/ tree'[n].dirty = {}
    \/ tree[n] # None /\ tree'[n].dirty = tree[n].dirty

Settles(b) == work'[b] \subseteq work[b] \cup Settled'

Carries(c, d) ==
  /\ d.request = c.request /\ d.branch = c.branch /\ d.created = c.created
  /\ d.cut = c.cut /\ d.todo = c.todo

LEMMA WhatIsKnown ==
  ASSUME IInv, NEW p \in Callers
  PROVE  LET c == call[p]
         IN  /\ c.pc \in CreatePCs \cup DropPCs => c.request.name \in Names
             /\ c.pc \in (CreatePCs \ {"resolve"}) \cup {"delete"} => c.branch \in Branches
<1> DEFINE c == call[p]
<1>1. c \in CallRecords /\ Shape(c)
  BY DEF IInv, WorktreesTypeOK, Shaped
<1>2. c.pc \in CreatePCs \cup DropPCs => c.request.name \in Names
  <2>1. c.pc \in CreatePCs \cup DropPCs => ~At(p, "idle")
    BY DEF At, CreatePCs, DropPCs
  <2>2. c.pc \in CreatePCs \cup DropPCs => c.request \in Creates \cup Removes
    BY <2>1, CallKnown
  <2> QED BY <2>2, SMT DEF Creates, Removes
<1>3. c.pc \in (CreatePCs \ {"resolve"}) \cup {"delete"} => c.branch \in Branches
  BY <1>1, SMT DEF Shape, CallRecords
<1> QED BY <1>2, <1>3

(* A step of someone else.                                                 *)
LEMMA KnowsOn ==
  ASSUME IInv, NEW p \in Callers, KnowsWork(p),
         LET c == call[p]
             d == call'[p]
         IN  /\ Carries(c, d) /\ d.pc = c.pc /\ d.sure = c.sure
             /\ c.pc \in CreatePCs \cup DropPCs => NoNewDirt(c.request.name)
             /\ c.pc \in CreatePCs \cup {"delete"} /\ c.branch \in Branches => Settles(c.branch),
         Settled \subseteq Settled'
  PROVE  KnowsWork(p)'
<1> DEFINE c == call[p]
           d == call'[p]
<1>1. Forced(p)' = Forced(p)
  BY DEF Forced, Asked, Carries
<1>2. (\/ c.pc \in {"unpushed", "drop"} /\ ~c.request.force
       \/ c.pc \in {"link", "undo_main", "undo_tree", "undo_dir"}) =>
        (tree'[c.request.name] # None => tree'[c.request.name].dirty = {})
  BY DEF KnowsWork, NoNewDirt, CreatePCs, DropPCs
<1>3. c.pc \in CreatePCs /\ c.created =>
        /\ c.cut \subseteq Settled'
        /\ c.pc \notin Early => work'[c.branch] \subseteq Settled'
  <2>1. c.pc \in CreatePCs /\ c.pc \notin Early => c.branch \in Branches
    BY WhatIsKnown DEF Early
  <2> QED BY <2>1 DEF KnowsWork, Settles
<1>4. c.pc = "delete" /\ c.sure /\ ~Forced(p) => work'[c.branch] \subseteq Settled'
  <2>1. c.pc = "delete" => c.branch \in Branches
    BY WhatIsKnown
  <2> QED BY <2>1 DEF KnowsWork, Settles
<1> QED BY <1>1, <1>2, <1>3, <1>4, Zenon DEF KnowsWork, Carries

(* What the step of a call leaves of branches and trees.                   *)
LEMMA EffectsKnow ==
  ASSUME IInv, WorkIsSafe, CutFromMerge, NEW p \in Callers,
         UNCHANGED remote, Quiet \/ Cuts(p) \/ Adds(p) \/ Forgets(p) \/ Shrinks(p)
  PROVE  /\ NoWorkNowhere' /\ Merge \in exists'
         /\ \A n \in Names : tree'[n] # None => tree'[n].branch # Merge
         /\ \A n \in Names : NoNewDirt(n)
         /\ \A b \in Branches : Settles(b)
         /\ Settled' = Settled
         /\ Adds(p) => tree'[call[p].request.name].dirty = {}
         /\ Cuts(p) /\ call[p].created => work'[call[p].branch] \subseteq Settled
<1> DEFINE c == call[p]
           b == c.branch
           n == c.request.name
<1>1. /\ tree \in [Names -> Trees \cup {None}] /\ work \in [Branches -> SUBSET Work]
      /\ b # Merge /\ Merge \in Branches /\ exists \subseteq Branches
  BY RefsAssumption DEF IInv, WorktreesTypeOK, WorkIsSafe, MergeStays
<1>2. /\ Merge \in exists
      /\ \A m \in Names : tree[m] # None => tree[m].branch # Merge
      /\ \A a \in Branches \ exists : work[a] = {}
      /\ \A m \in Names : tree[m] # None /\ ~tree[m].dir => tree[m].dirty = {}
      /\ KnowsWork(p)
  BY DEF WorkIsSafe, MergeStays, NoWorkNowhere
<1>3. ASSUME c.pc \in {"cut", "add"}
      PROVE  n \in Names /\ b \in Branches /\ c.request.base \in {None, Merge}
  <2>1. ~At(p, "idle") /\ c.pc \in CreatePCs \ {"resolve"}
    BY <1>3 DEF At, CreatePCs
  <2>2. c.request \in Requests /\ c.request \in Creates
    BY <2>1, CallKnown
  <2>3. c.request.op = "create"
    BY <2>2, SMT DEF Creates
  <2> QED BY <2>1, <2>2, <2>3, WhatIsKnown DEF CutFromMerge
<1>4. ASSUME Adds(p)
      PROVE  /\ tree'[n].dirty = {} /\ tree'[n].branch = b /\ tree'[n].dir
             /\ \A m \in Names : m # n => tree'[m] = tree[m]
  <2>1. n \in Names
    BY <1>3, <1>4 DEF Adds, At
  <2> QED BY <1>1, <1>4, <2>1 DEF Adds, NewTree
<1>7. ASSUME Cuts(p)
      PROVE  /\ \A a \in Branches : a # b => work'[a] = work[a]
             /\ Settled' = Settled
             /\ c.created => work'[b] \subseteq Settled
             /\ Settles(b)
  <2>1. b \in Branches /\ c.request.base \in {None, Merge}
    BY <1>3, <1>7 DEF Cuts, At
  <2>2. /\ work'[b] = IF c.request.base = None THEN c.cut ELSE work[c.request.base]
        /\ \A a \in Branches : a # b => work'[a] = work[a]
    BY <1>1, <1>7, <2>1 DEF Cuts
  <2>3. Settled' = Settled
    BY <1>1, <2>2 DEF Settled
  <2>4. c.created /\ c.cut \subseteq Settled
    BY <1>2, <1>7 DEF KnowsWork, Cuts, At, CreatePCs
  <2> QED BY <2>1, <2>2, <2>3, <2>4 DEF Settled, Settles
<1>8. CASE Quiet
  BY <1>2, <1>4, <1>7, <1>8 DEF Quiet, NoWorkNowhere, NoNewDirt, Settles, Settled
<1>9. CASE Adds(p)
  <2>1. NoWorkNowhere'
    BY <1>2, <1>4, <1>9 DEF NoWorkNowhere, Adds
  <2>2. \A m \in Names : tree'[m] # None => tree'[m].branch # Merge
    BY <1>1, <1>2, <1>4, <1>9
  <2>3. \A m \in Names : NoNewDirt(m)
    BY <1>4, <1>9 DEF NoNewDirt
  <2> QED BY <1>2, <1>4, <1>7, <1>9, <2>1, <2>2, <2>3 DEF Settles, Settled, Adds
<1>10. CASE Cuts(p)
  <2>1. NoWorkNowhere'
    BY <1>2, <1>7, <1>10 DEF NoWorkNowhere, Cuts
  <2>2. \A a \in Branches : Settles(a)
    BY <1>7, <1>10 DEF Settles
  <2> QED BY <1>2, <1>4, <1>7, <1>10, <2>1, <2>2 DEF NoNewDirt, Cuts
<1>5. CASE Forgets(p)
  <2>1. exists' = exists \ {b} /\ tree' = tree /\ work' = [work EXCEPT ![b] = {}]
    BY <1>5 DEF Forgets, ForgetBranch
  <2>2. /\ \A a \in Branches : a # b => work'[a] = work[a]
        /\ b \in Branches => work'[b] = {}
    BY <1>1, <2>1
  <2>3. Settled' = Settled
    BY <1>1, <2>2 DEF Settled
  <2>4. NoWorkNowhere'
    BY <1>2, <2>1, <2>2 DEF NoWorkNowhere
  <2> QED BY <1>1, <1>2, <1>4, <1>7, <2>1, <2>2, <2>3, <2>4 DEF NoNewDirt, Settles
<1>6. CASE Shrinks(p)
  <2>1. \A m \in Names : tree[m] # None => tree[m] \in Trees
    BY <1>1
  <2>2. \A m \in Names : tree[m] # None =>
          WithoutDir(tree[m]).branch = tree[m].branch /\ WithoutDir(tree[m]).dirty = {}
    <3>1. ASSUME NEW t \in Trees  PROVE WithoutDir(t).dirty = {}
      BY SMT DEF Trees, WithoutDir
    <3> QED BY <2>1, <3>1, TreeContents
  <2>3. \A m \in Names : tree'[m] # None =>
          /\ tree[m] # None /\ tree'[m].branch = tree[m].branch
          /\ tree'[m] = tree[m] \/ tree'[m].dirty = {}
    <3> SUFFICES ASSUME NEW m \in Names, tree'[m] # None
                 PROVE  /\ tree[m] # None /\ tree'[m].branch = tree[m].branch
                        /\ tree'[m] = tree[m] \/ tree'[m].dirty = {}
      OBVIOUS
    <3>1. tree'[m] = tree[m] \/ (tree[m] # None /\ tree'[m] = WithoutDir(tree[m]))
      BY <1>6, Zenon DEF Shrinks
    <3> QED BY <2>2, <3>1
  <2>4. \A m \in Names : NoNewDirt(m)
    BY <2>3 DEF NoNewDirt
  <2>5. NoWorkNowhere'
    BY <1>2, <1>6, <2>3 DEF Shrinks, NoWorkNowhere
  <2> QED BY <1>2, <1>4, <1>6, <1>7, <2>3, <2>4, <2>5 DEF Shrinks, Settles, Settled
<1> QED BY <1>5, <1>6, <1>8, <1>9, <1>10
(* Where a create goes, and what it takes along.                           *)
Placed == {"link", "undo_main", "undo_tree"}

LEMMA CreateCarries ==
  ASSUME IInv, NEW p \in Callers, Create(p), ~At(p, "resolve")
  PROVE  \/ call'[p] = Idle
         \/ /\ Carries(call[p], call'[p])
            /\ call'[p].pc \in CreatePCs /\ call[p].pc \in CreatePCs
            /\ call'[p].pc \notin Early =>
                 call[p].pc \notin Early \/ Cuts(p) \/ ~call[p].created
            /\ call'[p].pc = "cut" => call[p].created
            /\ call'[p].pc \in Placed \cup {"undo_dir"} => call[p].pc \in Placed \/ Adds(p)
<1> DEFINE c == call[p]
           d == call'[p]
<1>1. call \in [Callers -> CallRecords] /\ c \in CallRecords
  BY DEF IInv, WorktreesTypeOK
<1>2. CASE Answer(p)
  BY <1>1, <1>2, Answering
<1>3. ASSUME NEW s \in CreatePCs, Goto(p, s)
      PROVE  Carries(c, d) /\ d.pc = s
  BY <1>3, GoneOn DEF PCs, Rest, Same, Carries
<1>4. ASSUME NEW s \in CreatePCs, To(p, [c EXCEPT !.pc = s, !.clean = FALSE])
      PROVE  Carries(c, d) /\ d.pc = s
  BY <1>4, GoneUnclean DEF PCs, Rest, Same, Carries
<1>5. CASE Precheck(p)
  <2>1. ASSUME To(p, [c EXCEPT !.pc = "switch", !.prev = mainOn])
        PROVE  Carries(c, d) /\ d.pc = "switch"
    <3>1. d = [c EXCEPT !.pc = "switch", !.prev = mainOn]
      BY <2>1, Set
    <3> HIDE DEF c, d
    <3> QED BY <1>1, <3>1, SMT DEF CallRecords, Carries
  <2>2. c.pc = "precheck" /\ "switch" \in CreatePCs /\ "held" \in CreatePCs
        /\ "switch" \in Early /\ "held" \in Early
        /\ "switch" \notin Placed \cup {"undo_dir"} /\ "held" \notin Placed \cup {"undo_dir"}
        /\ c.pc \in CreatePCs
    BY <1>5 DEF Precheck, At, CreatePCs, Early, Placed
  <2> QED BY <1>2, <1>3, <1>5, <2>1, <2>2 DEF Precheck
<1>6. CASE SwitchMain(p) \/ CheckHeld(p) \/ EnsureIgnore(p)
  BY <1>2, <1>3, <1>6, FailAnswers
     DEF SwitchMain, CheckHeld, EnsureIgnore, At, CreatePCs, Early, Placed
<1>7. CASE CutBranch(p) \/ AddTree(p) \/ FailAdd(p)
  <2>1. CASE CutBranch(p) /\ ~FailBeforeTree(p)
    <3>1. Cuts(p) /\ c.pc = "cut" /\ Goto(p, "add")
      BY <2>1 DEF CutBranch, Cuts, Asked, sites, At
    <3> QED BY <1>3, <3>1 DEF CreatePCs, Early, Placed
  <2>2. CASE AddTree(p) /\ Goto(p, "link") /\ ~Goto(p, "fail")
    <3>1. Adds(p) /\ c.pc = "add"
      BY <2>2 DEF AddTree, CanAdd, Adds, Asked, At, refs
    <3> QED BY <1>3, <2>2, <3>1 DEF CreatePCs, Early, Placed
  <2>3. CASE AddTree(p) /\ Goto(p, "fail")
    <3>1. c.pc = "add"
      BY <2>3 DEF AddTree, At
    <3> QED BY <1>3, <2>3, <3>1 DEF CreatePCs, Early, Placed
  <2> QED BY <1>2, <1>7, <2>1, <2>2, <2>3, FailAnswers DEF CutBranch, AddTree, FailAdd
<1>8. CASE LinkAndVerify(p)
  BY <1>2, <1>3, <1>8 DEF LinkAndVerify, At, CreatePCs, Early, Placed
<1>9. CASE UndoMain(p)
  <2>1. Goto(p, "undo_tree") \/ To(p, [c EXCEPT !.pc = "undo_tree", !.clean = FALSE])
    BY <1>9 DEF UndoMain, RestoreMain
  <2> QED BY <1>3, <1>4, <1>9, <2>1 DEF UndoMain, At, CreatePCs, Early, Placed
<1>10. CASE UndoTree(p)
  <2>1. ASSUME To(p, [c EXCEPT !.pc = "undo_dir", !.removed = TRUE])
        PROVE  Carries(c, d) /\ d.pc = "undo_dir"
    <3>1. d = [c EXCEPT !.pc = "undo_dir", !.removed = TRUE]
      BY <2>1, Set
    <3> HIDE DEF c, d
    <3> QED BY <1>1, <3>1, SMT DEF CallRecords, Carries
  <2> QED BY <1>4, <1>10, <2>1 DEF UndoTree, At, CreatePCs, Early, Placed
<1>11. CASE UndoDir(p)
  <2>1. ASSUME To(p, [c EXCEPT !.pc = "undo_branch", !.gone = TRUE])
        PROVE  Carries(c, d) /\ d.pc = "undo_branch"
    <3>1. d = [c EXCEPT !.pc = "undo_branch", !.gone = TRUE]
      BY <2>1, Set
    <3> HIDE DEF c, d
    <3> QED BY <1>1, <3>1, SMT DEF CallRecords, Carries
  <2> QED BY <1>4, <1>11, <2>1 DEF UndoDir, At, CreatePCs, Early, Placed
<1>12. CASE UndoBranch(p)
  BY <1>3, <1>4, <1>12 DEF UndoBranch, At, CreatePCs, Early, Placed
<1>13. CASE UndoPrune(p)
  BY <1>2, <1>13 DEF UndoPrune
<1>14. ~Resolve(p)
  BY DEF Resolve
<1> QED BY <1>5, <1>6, <1>7, <1>8, <1>9, <1>10, <1>11, <1>12, <1>13, <1>14, Zenon DEF Create

LEMMA BranchesAreNotMerge ==
  ASSUME CutFromMerge, NEW r \in Requests
  PROVE  /\ r.op \in {"create", "remove"} => r.branch # Merge /\ r.name \in Names
         /\ r.op = "create" => Plan(r).branch # Merge
         /\ r.op = "remove" => Leftover(r) # Merge
<1>1. r.op \in {"create", "remove"} => r.branch # Merge /\ r.name \in Names
  BY RequestKinds, SMT DEF CutFromMerge, Creates, Removes
<1>2. None # Merge
  BY RefsAssumption
<1>3. r.op \in {"create", "remove"} => OwnRef[r.name] # Merge /\ NewRef[r.name] # Merge
  BY <1>1 DEF CutFromMerge
<1>4. r.op = "create" => Plan(r).branch # Merge
  <2>1. r.op = "create" => Want(r).ref # Merge /\ Want(r).new # Merge
    BY <1>1, <1>3 DEF Want
  <2> QED BY <1>2, <2>1 DEF Plan
<1>5. r.op = "remove" => Leftover(r) # Merge
  <2>1. r.op = "remove" /\ Leftover(r) # None =>
          Leftover(r) \in {r.branch, NewRef[r.name], OwnRef[r.name]}
    BY RequestKinds, LeftoverExists
  <2> QED BY <1>1, <1>2, <1>3, <2>1
<1> QED BY <1>1, <1>4, <1>5

LEMMA ResolveKnows ==
  ASSUME IInv, WorkIsSafe, CutFromMerge, NEW p \in Callers, Resolve(p)
  PROVE  KnowsWork(p)' /\ call'[p].branch # Merge /\ Merge \notin call'[p].todo
<1> DEFINE c == call[p]
           d == call'[p]
           b == Plan(Asked(p)).branch
<1>1. call \in [Callers -> CallRecords] /\ c \in CallRecords /\ c.pc = "resolve"
      /\ KnowsWork(p) /\ Merge \notin c.todo
  BY DEF IInv, WorktreesTypeOK, Resolve, At, WorkIsSafe, MergeStays
<1>2. b # Merge
  <2>1. Asked(p) \in Requests /\ Asked(p).op = "create"
    <3>1. ~At(p, "idle") /\ c.pc \in CreatePCs
      BY <1>1 DEF At, CreatePCs
    <3> QED BY <3>1, CallKnown DEF Shape
  <2> QED BY <2>1, BranchesAreNotMerge
<1>3. UNCHANGED <<exists, work, remote, tree>>
  BY DEF Resolve, refs, sites
<1>4. ImplicitBase \subseteq Settled
  BY DEF ImplicitBase, Settled
<1>5. CASE Answer(p)
  <2>1. d = Idle
    BY <1>1, <1>5, Answering
  <2>2. KnowsWork(p)'
    BY <2>1 DEF KnowsWork, Idle, CreatePCs
  <2> QED BY <2>1, <2>2, RefsAssumption DEF Idle
<1>6. ASSUME d.pc \in {"precheck", "ignore"}, d.branch = b, d.todo = c.todo,
             d.created => (c.created /\ d.cut = c.cut) \/ d.cut = ImplicitBase
      PROVE  KnowsWork(p)' /\ d.branch # Merge /\ Merge \notin d.todo
  <2>1. c.created => c.cut \subseteq Settled
    BY <1>1 DEF KnowsWork, CreatePCs
  <2>2. Settled' = Settled
    BY <1>3 DEF Settled
  <2>3. d.created => d.cut \subseteq Settled'
    BY <1>4, <1>6, <2>1, <2>2
  <2>4. KnowsWork(p)'
    BY <1>6, <2>3 DEF KnowsWork, Early
  <2> QED BY <1>1, <1>2, <1>6, <2>4
<1>7. ASSUME To(p, [c EXCEPT !.pc = "precheck", !.branch = b])
      PROVE  KnowsWork(p)' /\ d.branch # Merge /\ Merge \notin d.todo
  <2>1. d = [c EXCEPT !.pc = "precheck", !.branch = b]
    BY <1>7, Set
  <2>2. d.pc = "precheck" /\ d.branch = b /\ d.todo = c.todo /\ d.created = c.created
        /\ d.cut = c.cut
    <3> HIDE DEF b, c, d
    <3> QED BY <1>1, <2>1, SMT DEF CallRecords
  <2> QED BY <1>6, <2>2
<1>8. ASSUME To(p, [c EXCEPT !.pc = "ignore", !.branch = b, !.created = TRUE,
                             !.cut = ImplicitBase])
      PROVE  KnowsWork(p)' /\ d.branch # Merge /\ Merge \notin d.todo
  <2>1. d = [c EXCEPT !.pc = "ignore", !.branch = b, !.created = TRUE, !.cut = ImplicitBase]
    BY <1>8, Set
  <2>2. d.pc = "ignore" /\ d.branch = b /\ d.todo = c.todo /\ d.cut = ImplicitBase
    <3> HIDE DEF b, c, d
    <3> QED BY <1>1, <2>1, SMT DEF CallRecords
  <2> QED BY <1>6, <2>2
<1> QED BY <1>5, <1>7, <1>8 DEF Resolve
LEMMA CreateKnows ==
  ASSUME IInv, WorkIsSafe, CutFromMerge, NEW p \in Callers, Create(p)
  PROVE  KnowsWork(p)' /\ call'[p].branch # Merge /\ Merge \notin call'[p].todo
<1> DEFINE c == call[p]
           d == call'[p]
<1>1. CASE At(p, "resolve")
  <2>1. Resolve(p)
    BY <1>1 DEF At, Create, Precheck, SwitchMain, CheckHeld, EnsureIgnore, CutBranch,
                AddTree, FailAdd, LinkAndVerify, UndoMain, UndoTree, UndoDir, UndoBranch,
                UndoPrune
  <2> QED BY <2>1, ResolveKnows
<1>2. CASE ~At(p, "resolve") /\ d = Idle
  <2>1. KnowsWork(p)'
    BY <1>2 DEF KnowsWork, Idle, CreatePCs
  <2> QED BY <1>2, <2>1, RefsAssumption DEF Idle
<1>3. CASE ~At(p, "resolve") /\ d # Idle
  <2>1. /\ Carries(c, d) /\ d.pc \in CreatePCs /\ c.pc \in CreatePCs
        /\ d.pc \notin Early => c.pc \notin Early \/ Cuts(p) \/ ~c.created
        /\ d.pc = "cut" => c.created
        /\ d.pc \in Placed \cup {"undo_dir"} => c.pc \in Placed \/ Adds(p)
    BY <1>3, CreateCarries
  <2>2. /\ KnowsWork(p) /\ c.branch # Merge /\ Merge \notin c.todo
    BY DEF WorkIsSafe, MergeStays
  <2>3. /\ \A n \in Names : NoNewDirt(n)
        /\ \A b \in Branches : Settles(b)
        /\ Settled' = Settled
        /\ Adds(p) => tree'[c.request.name].dirty = {}
        /\ Cuts(p) /\ c.created => work'[c.branch] \subseteq Settled
    BY CreateEffects, EffectsKnow
  <2>4. c.request.name \in Names /\ c.branch \in Branches
    BY <1>3, <2>1, WhatIsKnown DEF At
  <2>5. d.pc \in Placed \cup {"undo_dir"} =>
          (tree'[c.request.name] # None => tree'[c.request.name].dirty = {})
    BY <2>1, <2>2, <2>3, <2>4 DEF KnowsWork, NoNewDirt, Placed
  <2>6. c.created => /\ c.cut \subseteq Settled
                     /\ d.pc \notin Early => work'[c.branch] \subseteq Settled
    <3>1. c.created => /\ c.cut \subseteq Settled
                       /\ c.pc \notin Early => work[c.branch] \subseteq Settled
      BY <2>1, <2>2 DEF KnowsWork
    <3> QED BY <2>1, <2>3, <2>4, <3>1 DEF Settles
  <2>7. d.pc \notin {"unpushed", "drop", "delete"}
    BY <2>1 DEF CreatePCs
  <2>8. KnowsWork(p)'
    BY <2>1, <2>3, <2>5, <2>6, <2>7, Zenon DEF KnowsWork, Carries, Placed
  <2> QED BY <2>1, <2>2, <2>8 DEF Carries
<1> QED BY <1>1, <1>2, <1>3

LEMMA RemoveKnows ==
  ASSUME IInv, WorkIsSafe, CutFromMerge, NEW p \in Callers, Remove(p) \/ Sweep(p) \/ Die(p)
  PROVE  KnowsWork(p)' /\ call'[p].branch # Merge /\ Merge \notin call'[p].todo
<1> DEFINE c == call[p]
           d == call'[p]
<1>1. call \in [Callers -> CallRecords] /\ c \in CallRecords
      /\ KnowsWork(p) /\ c.branch # Merge /\ Merge \notin c.todo
  BY DEF IInv, WorktreesTypeOK, WorkIsSafe, MergeStays
<1>2. d.pc \in RemovePCs \cup {"idle"}
  BY RemoveGoesTo
<1>3. d.pc \notin CreatePCs
  BY <1>2 DEF RemovePCs, CreatePCs
<1>4. ASSUME d.pc \notin {"unpushed", "drop", "delete"}
      PROVE  KnowsWork(p)'
  BY <1>3, <1>4, Zenon DEF KnowsWork, CreatePCs
<1>5. CASE Answer(p)
  <2>1. d = Idle
    BY <1>1, <1>5, Answering
  <2> QED BY <1>4, <2>1, RefsAssumption DEF Idle
<1>6. ASSUME NEW s \in {"clean", "merged"}, Goto(p, s)
      PROVE  KnowsWork(p)' /\ d.branch # Merge /\ Merge \notin d.todo
  <2>1. d.pc = s /\ Rest(c, d)
    BY <1>6, GoneOn DEF PCs, RemovePCs
  <2> QED BY <1>1, <1>4, <2>1 DEF Rest
<1>7. CASE Find(p)
  <2>1. c.pc = "find" /\ Asked(p) \in Requests /\ Asked(p).op = "remove"
        /\ c.request.name \in Names
    <3>1. c.pc = "find"
      BY <1>7 DEF Find, At
    <3>2. ~At(p, "idle") /\ c.pc \in DropPCs
      BY <3>1 DEF At, DropPCs
    <3> QED BY <3>1, <3>2, CallKnown, WhatIsKnown DEF Shape
  <2>2. ASSUME NEW x, x # Merge, To(p, [c EXCEPT !.pc = "dirty", !.branch = x])
        PROVE  KnowsWork(p)' /\ d.branch # Merge /\ Merge \notin d.todo
    <3>1. d = [c EXCEPT !.pc = "dirty", !.branch = x]
      BY <2>2, Set
    <3>2. d.pc = "dirty" /\ d.branch = x /\ d.todo = c.todo
      <4> HIDE DEF c, d
      <4> QED BY <1>1, <3>1, SMT DEF CallRecords
    <3> QED BY <1>1, <1>4, <2>2, <3>2
  <2>3. ASSUME NEW x, x # Merge, To(p, [c EXCEPT !.pc = "clean", !.branch = x, !.gone = TRUE])
        PROVE  KnowsWork(p)' /\ d.branch # Merge /\ Merge \notin d.todo
    <3>1. d = [c EXCEPT !.pc = "clean", !.branch = x, !.gone = TRUE]
      BY <2>3, Set
    <3>2. d.pc = "clean" /\ d.branch = x /\ d.todo = c.todo
      <4> HIDE DEF c, d
      <4> QED BY <1>1, <3>1, SMT DEF CallRecords
    <3> QED BY <1>1, <1>4, <2>3, <3>2
  <2>4. Leftover(Asked(p)) # Merge
    BY <2>1, BranchesAreNotMerge
  <2>5. MyTree(p) # None =>
          (IF MyTree(p).dir THEN MyTree(p).branch ELSE None) # Merge
    BY <2>1, RefsAssumption DEF MyTree, Asked, WorkIsSafe, MergeStays
  <2> QED BY <1>5, <1>7, <2>2, <2>3, <2>4, <2>5 DEF Find
<1>8. ASSUME NEW s \in {"unpushed", "drop"}, Goto(p, s), tree' = tree,
             c.request.force \/ (MyTree(p) # None => MyTree(p).dirty = {})
      PROVE  KnowsWork(p)' /\ d.branch # Merge /\ Merge \notin d.todo
  <2>1. d.pc = s /\ Rest(c, d)
    BY <1>8, GoneOn DEF PCs, RemovePCs
  <2>2. KnowsWork(p)'
    BY <1>3, <1>8, <2>1, Zenon DEF KnowsWork, MyTree, Asked, Rest, Same
  <2> QED BY <1>1, <2>1, <2>2 DEF Rest
<1>9. CASE CheckDirty(p)
  BY <1>5, <1>8, <1>9 DEF CheckDirty, sites, MyTree, Asked
<1>10. CASE CheckUnpushed(p)
  <2>1. c.request.force \/ (MyTree(p) # None => MyTree(p).dirty = {})
    BY <1>1, <1>10 DEF CheckUnpushed, At, KnowsWork, MyTree, Asked
  <2> QED BY <1>5, <1>8, <1>10, <2>1 DEF CheckUnpushed, sites
<1>11. CASE DropTree(p) \/ CleanTask(p)
  BY <1>5, <1>6, <1>11 DEF DropTree, CleanTask
<1>12. CASE MeasureMerged(p)
  <2> DEFINE sure == \/ Asked(p).op = "remove" /\ Asked(p).forceBranch
                     \/ call[p].branch \in exists /\ MergeHolds(call[p].branch)
  <2>1. d = [c EXCEPT !.pc = "delete", !.sure = sure]
    BY <1>12, Set DEF MeasureMerged
  <2>2. /\ d.pc = "delete" /\ d.sure = sure /\ d.branch = c.branch /\ d.todo = c.todo
        /\ d.request = c.request
    <3> HIDE DEF sure, c, d
    <3> QED BY <1>1, <2>1, SMT DEF CallRecords
  <2>3. Forced(p)' = Forced(p)
    BY <2>2 DEF Forced, Asked
  <2>4. d.sure /\ ~Forced(p) => work[c.branch] \subseteq Settled
    BY <2>2 DEF Forced, MergeHolds, Settled
  <2>5. UNCHANGED <<work, remote>>
    BY <1>12 DEF MeasureMerged, refs
  <2>6. work'[d.branch] = work[c.branch] /\ Settled' = Settled
    BY <2>2, <2>5 DEF Settled
  <2>7. KnowsWork(p)'
    BY <1>3, <2>2, <2>3, <2>4, <2>6 DEF KnowsWork, CreatePCs
  <2> QED BY <1>1, <2>2, <2>7
<1>13. ASSUME NEW b, b # Merge, NEW u, Merge \notin u,
              To(p, [c EXCEPT !.pc = "merged", !.branch = b, !.todo = u])
       PROVE  KnowsWork(p)' /\ d.branch # Merge /\ Merge \notin d.todo
  <2>1. d = [c EXCEPT !.pc = "merged", !.branch = b, !.todo = u]
    BY <1>13, Set
  <2>2. d.pc = "merged" /\ d.branch = b /\ d.todo = u
    <3> HIDE DEF c, d
    <3> QED BY <1>1, <2>1, SMT DEF CallRecords
  <2> QED BY <1>4, <1>13, <2>2
<1>14. CASE DeleteBranch(p)
  <2>1. ASSUME NEW b \in c.todo, To(p, [c EXCEPT !.pc = "merged", !.branch = b, !.todo = @ \ {b}])
        PROVE  KnowsWork(p)' /\ d.branch # Merge /\ Merge \notin d.todo
    <3>1. b # Merge /\ Merge \notin c.todo \ {b}
      BY <1>1
    <3>2. To(p, [c EXCEPT !.pc = "merged", !.branch = b, !.todo = c.todo \ {b}])
      BY <2>1
    <3> QED BY <1>13, <3>1, <3>2
  <2> QED BY <1>5, <1>14, <2>1 DEF DeleteBranch, AfterDelete
<1>15. CASE Sweep(p)
  <2>1. Merge \notin Candidates
    BY DEF Candidates
  <2>2. ASSUME NEW b \in Candidates,
               To(p, [c EXCEPT !.pc = "merged", !.branch = b, !.todo = Candidates \ {b}])
        PROVE  KnowsWork(p)' /\ d.branch # Merge /\ Merge \notin d.todo
    BY <1>13, <2>1, <2>2
  <2> QED BY <1>5, <1>15, <2>2 DEF Sweep
<1> QED BY <1>5, <1>7, <1>9, <1>10, <1>11, <1>12, <1>14, <1>15 DEF Remove, Die

LEMMA BeginKnows ==
  ASSUME IInv, WorkIsSafe, CutFromMerge, NEW p \in Callers, Begin(p), NEW q \in Callers
  PROVE  KnowsWork(q)' /\ call'[q].branch # Merge /\ Merge \notin call'[q].todo
<1>1. PICK r \in Requests :
        call' = [o \in Callers |-> IF o = p THEN Fresh(p, r)
                                  ELSE IF At(o, "idle") THEN call[o] ELSE NotAlone(call[o])]
  BY DEF Begin
<1>2. /\ call[q] \in CallRecords
      /\ KnowsWork(q) /\ call[q].branch # Merge /\ Merge \notin call[q].todo
  BY DEF IInv, WorktreesTypeOK, WorkIsSafe, MergeStays
<1>3. UNCHANGED <<work, remote, tree>>
  BY DEF Begin, refs, sites
<1>4. CASE q # p
  <2> DEFINE c == call[q]
             d == call'[q]
  <2>1. Carries(c, d) /\ d.pc = c.pc /\ d.sure = c.sure
    <3>1. d = c \/ d = NotAlone(c)
      BY <1>1, <1>4
    <3> HIDE DEF c, d
    <3>2. NotAlone(c).request = c.request /\ NotAlone(c).branch = c.branch
          /\ NotAlone(c).created = c.created /\ NotAlone(c).cut = c.cut
          /\ NotAlone(c).todo = c.todo /\ NotAlone(c).pc = c.pc /\ NotAlone(c).sure = c.sure
      BY <1>2, SMT DEF NotAlone, CallRecords, c
    <3> QED BY <3>1, <3>2 DEF Carries
  <2>2. Settled \subseteq Settled'
    BY <1>3 DEF Settled
  <2>3. /\ NoNewDirt(c.request.name)
        /\ Settles(c.branch)
    BY <1>3 DEF NoNewDirt, Settles
  <2>4. KnowsWork(q)'
    BY <1>2, <2>1, <2>2, <2>3, KnowsOn
  <2> QED BY <1>2, <2>1, <2>4 DEF Carries
<1>5. CASE q = p
  <2> DEFINE d == Fresh(p, r)
  <2>1. call'[p] = d
    BY <1>1
  <2>2. /\ d.pc = First(r) /\ d.todo = {} /\ ~d.created
        /\ d.branch = IF First(r) = "merged" THEN r.branch ELSE None
    BY DEF Fresh, Idle
  <2>3. /\ First(r) \in {"resolve", "merged", "find", "list"}
        /\ First(r) = "merged" => r.op = "remove"
    BY RequestKinds DEF First
  <2>4. d.branch # Merge
    BY <2>2, <2>3, BranchesAreNotMerge, RefsAssumption
  <2>5. KnowsWork(p)'
    BY <2>1, <2>2, <2>3 DEF KnowsWork
  <2> QED BY <1>5, <2>1, <2>2, <2>4, <2>5
<1> QED BY <1>4, <1>5

LEMMA PeopleKnow ==
  ASSUME IInv, WorkIsSafe, Considerate, People
  PROVE  WorkIsSafe'
<1>1. /\ exists' = exists /\ call' = call /\ TreesFewer
      /\ \A n \in Names : ~TreeFree(n) => tree'[n] = tree[n]
  BY PeopleTrees
<1>2. /\ tree \in [Names -> Trees \cup {None}] /\ work \in [Branches -> SUBSET Work]
      /\ remote \in [Branches -> SUBSET Work] /\ mainOn \in exists /\ Merge \in Branches
      /\ exists \subseteq Branches
      /\ \A n \in Names : tree[n] # None => tree[n].branch \in exists
  BY RefsAssumption DEF IInv, WorktreesTypeOK
<1>3. /\ \A b \in Branches : work[b] \subseteq work'[b]
      /\ \A b \in Branches : ~BranchFree(b) => work'[b] = work[b]
      /\ \A b \in Branches \ exists : work'[b] = work[b]
  <2>1. ASSUME NEW n \in Names, Commit(n)
        PROVE  /\ \A b \in Branches : work[b] \subseteq work'[b]
               /\ \A b \in Branches : ~BranchFree(b) => work'[b] = work[b]
               /\ \A b \in Branches \ exists : work'[b] = work[b]
    <3>1. tree[n].branch \in exists /\ tree[n].branch \in Branches
      BY <1>2, <2>1 DEF Commit, HasDir
    <3>2. /\ work'[tree[n].branch] = work[tree[n].branch] \cup tree[n].dirty
          /\ \A b \in Branches : b # tree[n].branch => work'[b] = work[b]
      BY <1>2, <2>1, <3>1 DEF Commit
    <3> QED BY <2>1, <3>1, <3>2 DEF Commit
  <2>2. ASSUME NEW w \in Work, CommitInMain(w)
        PROVE  /\ \A b \in Branches : work[b] \subseteq work'[b]
               /\ \A b \in Branches : ~BranchFree(b) => work'[b] = work[b]
               /\ \A b \in Branches \ exists : work'[b] = work[b]
    <3>1. /\ work'[mainOn] = work[mainOn] \cup {w}
          /\ \A b \in Branches : b # mainOn => work'[b] = work[b]
      BY <1>2, <2>2 DEF CommitInMain
    <3> QED BY <1>2, <2>2, <3>1 DEF CommitInMain
  <2>3. ASSUME NEW n \in Names, RemoveByHand(n) \/ \E w \in Work : Edit(n, w)
        PROVE  work' = work
    BY <2>3 DEF RemoveByHand, Edit, refs
  <2>4. ASSUME NEW b \in Branches, Push(b) \/ MergeRemote(b) \/ SquashRemote(b) \/ RecordTask(b)
                                     \/ PersonSwitchesMain(b)
        PROVE  work' = work
    BY <2>4 DEF Push, MergeRemote, SquashRemote, RecordTask, PersonSwitchesMain, refs
  <2> QED BY <2>1, <2>2, <2>3, <2>4 DEF People
<1>4. remote[Merge] \subseteq remote'[Merge] \cup work'[Merge]
  <2>1. ASSUME NEW b \in Branches, Push(b)  PROVE remote[Merge] \subseteq remote'[Merge]
    BY <1>2, <2>1 DEF Push
  <2>2. ASSUME NEW b \in Branches, MergeRemote(b)  PROVE remote[Merge] \subseteq remote'[Merge]
    BY <1>2, <2>2 DEF MergeRemote
  <2>3. ASSUME NEW b \in Branches, SquashRemote(b)  PROVE remote[Merge] \subseteq remote'[Merge]
    BY <1>2, <2>3 DEF SquashRemote
  <2>4. ASSUME NEW b \in Branches, RecordTask(b) \/ PersonSwitchesMain(b)
        PROVE  remote' = remote
    BY <2>4 DEF RecordTask, PersonSwitchesMain, refs
  <2>5. ASSUME NEW n \in Names, Commit(n) \/ RemoveByHand(n) \/ \E w \in Work : Edit(n, w)
        PROVE  remote' = remote
    BY <2>5 DEF Commit, RemoveByHand, Edit, refs
  <2>6. ASSUME NEW w \in Work, CommitInMain(w)
        PROVE  remote' = remote
    BY <2>6 DEF CommitInMain
  <2> QED BY <2>1, <2>2, <2>3, <2>4, <2>5, <2>6 DEF People
<1>5. Settled \subseteq Settled'
  BY <1>2, <1>3, <1>4 DEF Settled
<1>6. MergeStays'
  BY <1>1, Zenon DEF WorkIsSafe, MergeStays, TreesFewer
<1>7. \A n \in Names : tree'[n] # None /\ ~tree'[n].dir => tree'[n].dirty = {}
  <2>1. \A n \in Names : tree[n] # None /\ ~tree[n].dir => tree[n].dirty = {}
    BY DEF WorkIsSafe, NoWorkNowhere
  <2>2. ASSUME NEW n \in Names, NEW w \in Work, Edit(n, w)
        PROVE  \A m \in Names : tree'[m] # None /\ ~tree'[m].dir => tree'[m].dirty = {}
    <3> DEFINE t == [tree[n] EXCEPT !.dirty = tree[n].dirty \cup {w}]
    <3>1. tree[n] \in Trees /\ tree[n].dir
      BY <2>2, IsSound, DirOfTree DEF Edit, HasDir
    <3>2. t.dir
      BY <3>1, SMT DEF Trees
    <3>3. tree'[n] = t /\ \A m \in Names : m # n => tree'[m] = tree[m]
      BY <1>2, <2>2 DEF Edit
    <3> HIDE DEF t
    <3> QED BY <2>1, <3>2, <3>3
  <2>3. ASSUME NEW n \in Names, NEW t, t.dirty = {}, tree' = [tree EXCEPT ![n] = t]
        PROVE  \A m \in Names : tree'[m] # None /\ ~tree'[m].dir => tree'[m].dirty = {}
    <3>1. tree'[n] = t /\ \A m \in Names : m # n => tree'[m] = tree[m]
      BY <1>2, <2>3
    <3> QED BY <2>1, <2>3, <3>1
  <2>4. ASSUME NEW n \in Names, Commit(n)
        PROVE  \A m \in Names : tree'[m] # None /\ ~tree'[m].dir => tree'[m].dirty = {}
    <3> DEFINE t == [tree[n] EXCEPT !.dirty = {}]
    <3>1. tree[n] \in Trees
      BY <2>4, IsSound, DirOfTree DEF Commit
    <3>2. t.dirty = {}
      BY <3>1, SMT DEF Trees
    <3>3. tree' = [tree EXCEPT ![n] = t]
      BY <2>4 DEF Commit
    <3> HIDE DEF t
    <3> QED BY <2>3, <3>2, <3>3
  <2>5. ASSUME NEW n \in Names, RemoveByHand(n)
        PROVE  \A m \in Names : tree'[m] # None /\ ~tree'[m].dir => tree'[m].dirty = {}
    <3> DEFINE t == WithoutDir(tree[n])
    <3>1. tree[n] \in Trees
      BY <2>5, IsSound, DirOfTree DEF RemoveByHand
    <3>2. t.dirty = {}
      BY <3>1, SMT DEF Trees, WithoutDir
    <3>3. tree' = [tree EXCEPT ![n] = t]
      BY <2>5 DEF RemoveByHand
    <3> HIDE DEF t
    <3> QED BY <2>3, <3>2, <3>3
  <2>6. ASSUME tree' = tree
        PROVE  \A m \in Names : tree'[m] # None /\ ~tree'[m].dir => tree'[m].dirty = {}
    BY <2>1, <2>6
  <2> QED BY <2>2, <2>4, <2>5, <2>6 DEF People, CommitInMain, Push, MergeRemote, SquashRemote,
                                        RecordTask, PersonSwitchesMain, sites
<1>8. NoWorkNowhere'
  <2>1. \A b \in Branches \ exists : work[b] = {}
    BY DEF WorkIsSafe, NoWorkNowhere
  <2> QED BY <1>1, <1>3, <1>7, <2>1 DEF NoWorkNowhere
<1>9. ASSUME NEW p \in Callers  PROVE KnowsWork(p)'
  <2> DEFINE c == call[p]
  <2>1. KnowsWork(p)
    BY DEF WorkIsSafe
  <2>2. Carries(c, call'[p]) /\ call'[p].pc = c.pc /\ call'[p].sure = c.sure
    BY <1>1 DEF Carries
  <2>3. c.pc \in CreatePCs \cup DropPCs => NoNewDirt(c.request.name)
    <3> SUFFICES ASSUME c.pc \in CreatePCs \cup DropPCs PROVE NoNewDirt(c.request.name)
      OBVIOUS
    <3>1. ~At(p, "idle")
      BY DEF At, CreatePCs, DropPCs
    <3>2. c.request.name \in Names /\ c.request.op # "sweep"
      <4>1. c.request.name \in Names
        BY WhatIsKnown
      <4>2. Shape(c)
        BY DEF IInv, Shaped
      <4> QED BY <4>1, <4>2 DEF Shape
    <3>3. ~TreeFree(c.request.name)
      BY <3>1, <3>2 DEF TreeFree, Busy, Asked
    <3> QED BY <1>1, <3>2, <3>3 DEF NoNewDirt
  <2>4. c.pc \in CreatePCs \cup {"delete"} /\ c.branch \in Branches => Settles(c.branch)
    <3> SUFFICES ASSUME c.pc \in CreatePCs \cup {"delete"}, c.branch \in Branches
                 PROVE  Settles(c.branch)
      OBVIOUS
    <3>1. ~At(p, "idle")
      BY DEF At, CreatePCs
    <3>2. ~BranchFree(c.branch)
      BY <3>1 DEF BranchFree, Busy
    <3> QED BY <1>3, <3>2 DEF Settles
  <2> QED BY <1>5, <2>1, <2>2, <2>3, <2>4, KnowsOn
<1> QED BY <1>6, <1>8, <1>9 DEF WorkIsSafe

LEMMA StepIsSafe ==
  ASSUME IInv, WorkIsSafe, CutFromMerge, Considerate, Next
  PROVE  WorkIsSafe'
<1>1. ASSUME NEW p \in Callers, Create(p) \/ Remove(p) \/ Sweep(p) \/ Die(p)
      PROVE  WorkIsSafe'
  <2>1. /\ UNCHANGED remote
        /\ Quiet \/ Cuts(p) \/ Adds(p) \/ Forgets(p) \/ Shrinks(p)
    BY <1>1, CreateEffects, RemoveEffects, Zenon
  <2>2. /\ NoWorkNowhere' /\ Merge \in exists'
        /\ \A n \in Names : tree'[n] # None => tree'[n].branch # Merge
        /\ \A n \in Names : NoNewDirt(n)
        /\ \A b \in Branches : Settles(b)
        /\ Settled' = Settled
    BY <2>1, EffectsKnow
  <2>3. ASSUME NEW q \in Callers
        PROVE  KnowsWork(q)' /\ call'[q].branch # Merge /\ Merge \notin call'[q].todo
    <3>1. CASE q = p
      BY <1>1, <3>1, CreateKnows, RemoveKnows, Zenon
    <3>2. CASE q # p
      <4>1. call'[q] = call[q]
        BY <1>1, <3>2, CallersKeep DEF Steps, Moved, Apart
      <4>2. Carries(call[q], call'[q]) /\ call'[q].pc = call[q].pc /\ call'[q].sure = call[q].sure
        BY <4>1 DEF Carries
      <4>3. call[q].pc \in CreatePCs \cup DropPCs => NoNewDirt(call[q].request.name)
        BY <2>2, WhatIsKnown
      <4>4. KnowsWork(q) /\ call[q].branch # Merge /\ Merge \notin call[q].todo
        BY DEF WorkIsSafe, MergeStays
      <4>5. KnowsWork(q)'
        BY <2>2, <4>2, <4>3, <4>4, KnowsOn
      <4> QED BY <4>1, <4>4, <4>5
    <3> QED BY <3>1, <3>2
  <2> QED BY <2>2, <2>3, Zenon DEF WorkIsSafe, MergeStays
<1>2. ASSUME NEW p \in Callers, Begin(p)
      PROVE  WorkIsSafe'
  <2>1. \A q \in Callers : KnowsWork(q)' /\ call'[q].branch # Merge /\ Merge \notin call'[q].todo
    BY <1>2, BeginKnows
  <2>2. UNCHANGED <<exists, work, tree>>
    BY <1>2 DEF Begin, refs, sites
  <2> QED BY <2>1, <2>2, Zenon DEF WorkIsSafe, MergeStays, NoWorkNowhere
<1> QED BY <1>1, <1>2, PeopleKnow DEF Next

(* WorkKept: with people who keep off what a call works on, and worktrees  *)
(* cut from the merge-branch that have branches of their own, no piece of  *)
(* work is lost by any number of creates, rollbacks, removes and sweeps.   *)
THEOREM NoWorkIsLost ==
  ASSUME Considerate, CutFromMerge
  PROVE  Spec => WorkKept
<1>1. Init => WorkIsSafe
  <2> SUFFICES ASSUME Init PROVE WorkIsSafe
    OBVIOUS
  <2>1. \A p \in Callers : call[p] = Idle
    BY DEF Init
  <2>2. MergeStays
    BY <2>1, RefsAssumption DEF Init, MergeStays, Idle
  <2>3. NoWorkNowhere
    BY DEF Init, NoWorkNowhere
  <2>4. \A p \in Callers : KnowsWork(p)
    BY <2>1 DEF KnowsWork, Idle
  <2> QED BY <2>2, <2>3, <2>4 DEF WorkIsSafe
<1>2. IInv /\ WorkIsSafe /\ [Next]_vars => WorkIsSafe'
  <2> SUFFICES ASSUME WorkIsSafe, UNCHANGED vars PROVE WorkIsSafe'
    BY StepIsSafe
  <2> QED BY SMT DEF vars, refs, sites, WorkIsSafe, MergeStays, NoWorkNowhere, KnowsWork,
                     Settled, Forced, Asked
<1>3. IInv /\ WorkIsSafe /\ [Next]_vars => [Kept \subseteq Kept']_vars
  BY StepKeepsWork
<1> QED BY <1>1, <1>2, <1>3, WorktreesInvariance, PTL DEF Spec, WorkKept
=============================================================================
