-------------------------- MODULE TaskStateProofs ---------------------------
(***************************************************************************)
(* Proofs about the task-state files.  First the decisions of the writers, *)
(* then the protocol, for any number of processes, slugs and calls: types, *)
(* the lock discipline, the absence of lost updates, the safety of the     *)
(* sweep, and the refinement of the protocol to atomic calls.              *)
(***************************************************************************)
EXTENDS TaskState, TLAPS

(***************************************************************************)
(* The decisions of the writers.  On every file and for every call a       *)
(* decision is an outcome with well-formed contents, and contents that are *)
(* the file itself when the outcome is not a change.                       *)
(***************************************************************************)

(* Every request names a slug.                                             *)
LEMMA RequestSlug == ASSUME NEW r \in Request PROVE r.slug \in Slugs
BY DEF Request, HookReq, SetReq, SwitchReq, ParkReq, UnparkReq, AdoptReq,
       ReleaseReq, RemoveReq

(* The proof a caller finds of itself is a proof, or there is none.        *)
LEMMA OwnProofType ==
  ASSUME NEW snap \in Snapshot, NEW pid \in Pids, NEW own \in Sids
  PROVE  OwnProof(snap, pid, own) \in Opt(Proof)
<1> DEFINE Mine(r) == r \in Entries(snap) /\ r.pid = pid /\ r.sid = own
<1>1. CASE \E r \in Entries(snap) : r.pid = pid /\ r.sid = own
  <2> DEFINE e == CHOOSE r \in Entries(snap) : r.pid = pid /\ r.sid = own
  <2>1. e \in Entries(snap)
    BY <1>1
  <2>2. e.at \in 1..MaxAt
    BY <2>1 DEF Entries, Snapshot, Row
  <2>3. OwnProof(snap, pid, own) = [sid |-> own, pid |-> pid, at |-> e.at]
    BY <1>1 DEF OwnProof
  <2> QED BY <2>2, <2>3 DEF Proof, Opt
<1>2. CASE ~ \E r \in Entries(snap) : r.pid = pid /\ r.sid = own
  BY <1>2 DEF OwnProof, Opt
<1> QED BY <1>1, <1>2

(* The guard answers with one of its verdicts.                             *)
LEMMA RefreshVerdict ==
  ASSUME NEW stored, NEW proof, NEW own, NEW snap
  PROVE  MayRefresh(stored, proof, own, snap)
           \in {"ok", "unchanged", "live", "unknown", "rotated_foreign"}
BY DEF MayRefresh

LEMMA CarryVerdict ==
  ASSUME NEW stored, NEW proof, NEW own, NEW snap
  PROVE  MayCarry(stored, proof, own, snap)
           \in {"ok", "unchanged", "live", "no_proof"}
BY DEF MayCarry

(***************************************************************************)
(* A decision on the contents f: one of the outcomes, and contents that    *)
(* are f itself unless the outcome is a change.                            *)
(***************************************************************************)
DecisionOn(f) ==
  {d \in [why: Outcomes, file: File] : ~Changes(d.why) => d.file = f}

LEMMA KeepDecides ==
  ASSUME NEW f \in File, NEW why \in Outcomes \ {"written", "removed"}
  PROVE  Keep(f, why) \in DecisionOn(f)
BY DEF Keep, DecisionOn, Changes

LEMMA WroteDecides ==
  ASSUME NEW f \in File, NEW st \in State
  PROVE  Wrote(st) \in DecisionOn(f)
BY DEF Wrote, DecisionOn, Changes, File, Outcomes

LEMMA ParsedState == ASSUME NEW f \in File PROVE Parsed(f) \in State
BY DEF Parsed, File, Blank, State, Opt

(* The SessionStart hook's three writes.                                   *)
LEMMA StartupDecides ==
  ASSUME NEW r \in HookReq, NEW f \in State
  PROVE  Startup(r, f) \in DecisionOn(f)
<1> DEFINE v == MayRefresh(StoredSession(f), StoredProof(f), r.own, r.snap)
<1>1. f \in File
  BY DEF File
<1>2. CASE v # "ok"
  <2>1. v \in Outcomes \ {"written", "removed"}
    BY RefreshVerdict DEF Outcomes, Verdict
  <2>2. Startup(r, f) = Keep(f, v)
    BY <1>2 DEF Startup
  <2> HIDE DEF v
  <2> QED BY <1>1, <2>1, <2>2, KeepDecides
<1>3. CASE v = "ok"
  <2> DEFINE st == [f EXCEPT !.session = [sha |-> r.head, sid |-> r.own],
                             !.session_proof = OwnProof(r.snap, r.pid, r.own)]
  <2>1. OwnProof(r.snap, r.pid, r.own) \in Opt(Proof)
    BY OwnProofType DEF HookReq
  <2>2. [sha |-> r.head, sid |-> r.own] \in Boundary
    BY DEF HookReq, Boundary
  <2>3. st \in State
    BY <2>1, <2>2 DEF State, Opt
  <2>4. Startup(r, f) = Wrote(st)
    BY <1>3 DEF Startup
  <2> HIDE DEF st
  <2> QED BY <1>1, <2>3, <2>4, WroteDecides
<1> QED BY <1>2, <1>3

LEMMA ClearDecides ==
  ASSUME NEW r \in HookReq, NEW f \in State
  PROVE  Clear(r, f) \in DecisionOn(f)
<1> DEFINE v == MayCarry(StoredSession(f), StoredProof(f), r.own, r.snap)
<1>1. f \in File
  BY DEF File
<1>2. CASE v # "ok"
  <2>1. v \in Outcomes \ {"written", "removed"}
    BY CarryVerdict DEF Outcomes, Verdict
  <2>2. Clear(r, f) = Keep(f, v)
    BY <1>2 DEF Clear
  <2> HIDE DEF v
  <2> QED BY <1>1, <2>1, <2>2, KeepDecides
<1>3. CASE v = "ok"
  <2> DEFINE st == [f EXCEPT !.session = [sha |-> f.session.sha, sid |-> r.own],
                             !.session_proof = OwnProof(r.snap, r.pid, r.own)]
  <2>1. OwnProof(r.snap, r.pid, r.own) \in Opt(Proof)
    BY OwnProofType DEF HookReq
  <2>2. f.session \in Boundary
    BY <1>3 DEF MayCarry, StoredSession, State, Opt
  <2>3. [sha |-> f.session.sha, sid |-> r.own] \in Boundary
    BY <2>2 DEF HookReq, Boundary
  <2>4. st \in State
    BY <2>1, <2>3 DEF State, Opt
  <2>5. Clear(r, f) = Wrote(st)
    BY <1>3 DEF Clear
  <2> HIDE DEF st
  <2> QED BY <1>1, <2>4, <2>5, WroteDecides
<1> QED BY <1>2, <1>3

LEMMA ResumeDecides ==
  ASSUME NEW r \in HookReq, NEW f \in State
  PROVE  Resume(r, f) \in DecisionOn(f)
<1> DEFINE own == OwnProof(r.snap, r.pid, r.own)
<1>1. f \in File
  BY DEF File
<1>2. own \in Opt(Proof)
  BY OwnProofType DEF HookReq
<1>3. [f EXCEPT !.session_proof = own] \in State
  BY <1>2 DEF State
<1>4. \/ Resume(r, f) = Keep(f, "skipped")
      \/ Resume(r, f) = Keep(f, "unchanged")
      \/ Resume(r, f) = Wrote([f EXCEPT !.session_proof = own])
  BY DEF Resume
<1> HIDE DEF own
<1>5. {"skipped", "unchanged"} \subseteq Outcomes \ {"written", "removed"}
  BY DEF Outcomes, Verdict
<1> QED BY <1>1, <1>3, <1>4, <1>5, KeepDecides, WroteDecides

(* The writers of the worktree commands.                                   *)
LEMMA SetDecides ==
  ASSUME NEW r \in SetReq, NEW f \in File
  PROVE  SetKeys(r, f) \in DecisionOn(f)
<1> DEFINE cur == Parsed(f)
           task == IF "task" \in r.clear THEN None ELSE IF r.task # None THEN r.task ELSE cur.task
           start == IF "task" \in r.clear THEN None ELSE IF r.start # None THEN r.start ELSE cur.start
           origin == IF r.clear \cap {"task", "origin"} # {} THEN None ELSE cur.origin
           orc == IF "orc" \in r.clear THEN None ELSE IF r.orc # None THEN r.orc ELSE cur.orc
           session == IF r.session # None THEN r.session ELSE cur.session
           proof == IF r.session # None THEN r.proof ELSE cur.session_proof
           st == [cur EXCEPT !.task = task, !.start = start, !.origin = origin, !.orc = orc,
                             !.session = session, !.session_proof = proof]
<1>1. cur \in State
  BY ParsedState
<1>2. st \in State
  <2> HIDE DEF cur
  <2>1. task \in Opt(Tasks) /\ start \in Opt(Shas)
    BY <1>1 DEF State, Opt, SetReq
  <2>2. origin \in Opt({"branch", "dir"}) /\ orc \in Opt(Orcs)
    BY <1>1 DEF State, Opt, SetReq
  <2>3. session \in Opt(Boundary) /\ proof \in Opt(Proof)
    BY <1>1 DEF State, Opt, SetReq
  <2> HIDE DEF task, start, origin, orc, session, proof
  <2> QED BY <1>1, <2>1, <2>2, <2>3 DEF State
<1>3. \/ \E why \in {"task_mismatch", "live", "rotated_foreign"} : SetKeys(r, f) = Keep(f, why)
      \/ SetKeys(r, f) = Wrote(st)
  BY DEF SetKeys
<1>4. {"task_mismatch", "live", "rotated_foreign"} \subseteq Outcomes \ {"written", "removed"}
  BY DEF Outcomes, Verdict
<1> HIDE DEF st, cur
<1> QED BY <1>2, <1>3, <1>4, KeepDecides, WroteDecides

LEMMA ArriveDecides ==
  ASSUME NEW r \in SwitchReq, NEW f \in File
  PROVE  Arrive(r, f) \in DecisionOn(f)
<1> DEFINE cur == Parsed(f)
           v == IF r.own = None THEN "unchanged"
                ELSE MayRefresh(StoredSession(cur), StoredProof(cur), r.own, r.snap)
           cut == r.start # None /\ (r.created \/ cur.start = None \/ cur.task # r.task)
           mine == OwnProof(r.snap, r.pid, r.own)
           here == [sha |-> r.head, sid |-> r.own]
           start == IF cut THEN r.start ELSE cur.start
           orc == IF cur.orc = None THEN r.orc ELSE cur.orc
           session == IF v = "ok" THEN here ELSE cur.session
           proof == IF v = "ok" THEN mine ELSE cur.session_proof
           st == [cur EXCEPT !.task = r.task, !.start = start, !.orc = orc,
                             !.session = session, !.session_proof = proof]
<1>1. v \in Verdict /\ (v = "ok" => r.own \in Sids)
  BY RefreshVerdict DEF Verdict, SwitchReq, Opt
<1>2. CASE v \notin {"ok", "unchanged"}
  <2>1. Arrive(r, f) = Keep(f, v)
    BY <1>2 DEF Arrive
  <2>2. v \in Outcomes \ {"written", "removed"}
    BY <1>1 DEF Outcomes, Verdict
  <2> HIDE DEF v
  <2> QED BY <2>1, <2>2, KeepDecides
<1>3. CASE v \in {"ok", "unchanged"}
  <2>1. Arrive(r, f) = Wrote(st)
    BY <1>3 DEF Arrive
  <2>2. st \in State
    <3>1. cur \in State
      BY ParsedState
    <3>2. v = "ok" => mine \in Opt(Proof)
      BY <1>1, OwnProofType DEF SwitchReq
    <3>3. v = "ok" => here \in Boundary
      BY <1>1 DEF SwitchReq, Boundary
    <3> HIDE DEF cur, v, mine, here
    <3>4. start \in Opt(Shas) /\ orc \in Opt(Orcs)
      BY <3>1 DEF State, Opt, SwitchReq
    <3>5. session \in Opt(Boundary) /\ proof \in Opt(Proof)
      BY <3>1, <3>2, <3>3 DEF State, Opt
    <3>6. r.task \in Opt(Tasks)
      BY DEF Opt, SwitchReq
    <3> HIDE DEF start, orc, session, proof
    <3> QED BY <3>1, <3>4, <3>5, <3>6 DEF State
  <2> HIDE DEF st
  <2> QED BY <2>1, <2>2, WroteDecides
<1> QED BY <1>2, <1>3

LEMMA AdoptDecides ==
  ASSUME NEW r \in AdoptReq, NEW f \in File
  PROVE  Adopt(r, f) \in DecisionOn(f)
<1> DEFINE cur == Parsed(f)
           explicit == r.arg # None
           id == CASE explicit -> r.arg
                   [] ~explicit /\ cur.task # None -> cur.task
                   [] ~explicit /\ cur.task = None /\ r.named # None -> r.named.id
                   [] OTHER -> None
           kept == cur.task = id /\ cur.start \in r.ancestors
           start == IF kept THEN cur.start ELSE r.head
           origin == CASE explicit -> None
                       [] ~explicit /\ cur.task # None -> cur.origin
                       [] OTHER -> r.named.origin
           st == [cur EXCEPT !.task = id, !.start = start, !.origin = origin]
<1>1. cur \in State
  BY ParsedState
<1>2. id # None => st \in State
  <2>1. id \in Opt(Tasks)
    BY <1>1 DEF State, Opt, AdoptReq
  <2>2. start \in Opt(Shas)
    BY <1>1 DEF State, Opt, AdoptReq
  <2>3. id # None => origin \in Opt({"branch", "dir"})
    BY <1>1 DEF State, Opt, AdoptReq
  <2> HIDE DEF cur, id, start, origin
  <2> QED BY <1>1, <2>1, <2>2, <2>3 DEF State
<1>3. \/ \E why \in {"skipped", "task_file_conflict"} : Adopt(r, f) = Keep(f, why)
      \/ id # None /\ Adopt(r, f) = Wrote(st)
  BY DEF Adopt
<1>4. {"skipped", "task_file_conflict"} \subseteq Outcomes \ {"written", "removed"}
  BY DEF Outcomes
<1> HIDE DEF st, cur, id
<1> QED BY <1>2, <1>3, <1>4, KeepDecides, WroteDecides

LEMMA ParkDecides ==
  ASSUME NEW r \in ParkReq, NEW f \in File
  PROVE  Wrote([Parsed(f) EXCEPT !.park = r.park, !.park_team = r.team]) \in DecisionOn(f)
<1>1. Parsed(f) \in State
  BY ParsedState
<1>2. [Parsed(f) EXCEPT !.park = r.park, !.park_team = r.team] \in State
  BY <1>1 DEF State, Opt, ParkReq
<1> QED BY <1>2, WroteDecides

LEMMA UnparkDecides ==
  ASSUME NEW f \in State
  PROVE  Wrote([f EXCEPT !.park = None, !.park_team = None]) \in DecisionOn(f)
<1>1. [f EXCEPT !.park = None, !.park_team = None] \in State
  BY DEF State, Opt
<1> QED BY <1>1, WroteDecides DEF File

(* Every call decides: whatever file it finds under the lock, it ends with *)
(* an outcome and a well-formed file, unchanged if the outcome says so.    *)
LEMMA DecideDecides ==
  ASSUME NEW r \in Request, NEW f \in File
  PROVE  Decide(r, f) \in DecisionOn(f)
<1>1. CASE Removes(r)
  <2>1. \/ \E why \in {"gone", "changed"} : Decide(r, f) = Keep(f, why)
        \/ Decide(r, f) = [why |-> "removed", file |-> NoFile]
    BY <1>1 DEF Decide, Removal
  <2>2. {"gone", "changed"} \subseteq Outcomes \ {"written", "removed"}
    BY DEF Outcomes, Verdict
  <2>3. [why |-> "removed", file |-> NoFile] \in DecisionOn(f)
    BY DEF DecisionOn, Outcomes, File, Changes
  <2> QED BY <2>1, <2>2, <2>3, KeepDecides
<1>2. CASE ~Removes(r) /\ f = NoFile /\ ~Creates(r)
  <2>1. "absent" \in Outcomes \ {"written", "removed"}
    BY DEF Outcomes, Verdict
  <2> QED BY <1>2, <2>1, KeepDecides DEF Decide
<1>3. CASE ~Removes(r) /\ ~(f = NoFile /\ ~Creates(r))
  <2>1. Decide(r, f) = Merged(r, f)
    BY <1>3 DEF Decide
  <2>2. CASE r.kind \in {"startup", "clear", "resume"}
    <3>1. r \in HookReq /\ f \in State
      BY <1>3, <2>2 DEF Request, HookReq, SetReq, SwitchReq, ParkReq, UnparkReq,
                        AdoptReq, ReleaseReq, RemoveReq, Creates, File
    <3>2. Merged(r, f) \in {Startup(r, f), Clear(r, f), Resume(r, f)}
      BY <2>2 DEF Merged
    <3> QED BY <2>1, <3>1, <3>2, StartupDecides, ClearDecides, ResumeDecides
  <2>3. CASE r.kind = "set"
    <3>1. r \in SetReq
      BY <2>3 DEF Request, HookReq, SetReq, SwitchReq, ParkReq, UnparkReq,
                  AdoptReq, ReleaseReq, RemoveReq
    <3>2. Merged(r, f) = SetKeys(r, f)
      BY <2>3 DEF Merged
    <3> QED BY <2>1, <3>1, <3>2, SetDecides
  <2>4. CASE r.kind = "switch"
    <3>1. r \in SwitchReq
      BY <2>4 DEF Request, HookReq, SetReq, SwitchReq, ParkReq, UnparkReq,
                  AdoptReq, ReleaseReq, RemoveReq
    <3>2. Merged(r, f) = Arrive(r, f)
      BY <2>4 DEF Merged
    <3> QED BY <2>1, <3>1, <3>2, ArriveDecides
  <2>5. CASE r.kind = "park"
    <3>1. r \in ParkReq
      BY <2>5 DEF Request, HookReq, SetReq, SwitchReq, ParkReq, UnparkReq,
                  AdoptReq, ReleaseReq, RemoveReq
    <3>2. Merged(r, f) = Wrote([Parsed(f) EXCEPT !.park = r.park, !.park_team = r.team])
      BY <2>5 DEF Merged
    <3> QED BY <2>1, <3>1, <3>2, ParkDecides
  <2>6. CASE r.kind = "unpark"
    <3>1. f \in State
      BY <1>3, <2>6 DEF Creates, File
    <3>2. Merged(r, f) = Wrote([f EXCEPT !.park = None, !.park_team = None])
      BY <2>6 DEF Merged
    <3> QED BY <2>1, <3>1, <3>2, UnparkDecides
  <2>7. CASE r.kind = "adopt"
    <3>1. r \in AdoptReq
      BY <2>7 DEF Request, HookReq, SetReq, SwitchReq, ParkReq, UnparkReq,
                  AdoptReq, ReleaseReq, RemoveReq
    <3>2. Merged(r, f) = Adopt(r, f)
      BY <2>7 DEF Merged
    <3> QED BY <2>1, <3>1, <3>2, AdoptDecides
  <2>8. \/ r.kind \in {"startup", "clear", "resume", "set", "switch", "park", "unpark", "adopt"}
        \/ Removes(r)
    BY DEF Request, HookReq, SetReq, SwitchReq, ParkReq, UnparkReq,
           AdoptReq, ReleaseReq, RemoveReq, Removes
  <2> QED BY <1>3, <2>2, <2>3, <2>4, <2>5, <2>6, <2>7, <2>8
<1> QED BY <1>1, <1>2, <1>3

(***************************************************************************)
(* The inductive invariant.  LockDiscipline gives a process in its         *)
(* critical section the file to itself, so what it decided there stays     *)
(* true (NoLostUpdate); the parts below tie the call, the plan and the     *)
(* answer of a process to its step.                                        *)
(***************************************************************************)
Undecided == {"idle", "probe", "wait", "locked", "stage", "rename", "unlink"}

Bookkeeping ==
  \A p \in Procs :
    /\ pc[p] = "idle" <=> call[p] = None
    /\ pc[p] = "probe" => ~Removes(call[p])
    /\ pc[p] \in Undecided => res[p] = None

PlanIsChange ==
  \A p \in Procs :
    /\ pc[p] \in {"stage", "rename"} => Decide(call[p], file[Slug(p)]).why = "written"
    /\ pc[p] = "unlink" => Decide(call[p], file[Slug(p)]).why = "removed"

IInv == TypeOK /\ LockDiscipline /\ Bookkeeping /\ NoLostUpdate /\ PlanIsChange /\ TempSafe

(***************************************************************************)
(* Preservation, action by action.                                         *)
(***************************************************************************)
USE RequestsAreCalls, InitiallyFiles, NoneIsNoProc, StrayIsNoProc, NoneIsNoRequest

(* A process in a call serves a request, on one slug.                      *)
LEMMA ServedCall ==
  ASSUME IInv, NEW p \in Procs, pc[p] # "idle"
  PROVE  call[p] \in Requests /\ call[p] \in Request /\ Slug(p) \in Slugs
BY RequestSlug DEF IInv, TypeOK, Bookkeeping, Slug

(* Two processes inside their critical sections are on different slugs.    *)
LEMMA Exclusion ==
  ASSUME IInv, NEW p \in Procs, NEW q \in Procs, p # q,
         pc[p] \in Critical, pc[q] \in Critical
  PROVE  Slug(p) # Slug(q)
BY DEF IInv, LockDiscipline

LEMMA ProbePreserves ==
  ASSUME IInv, NEW p \in Procs, Probe(p)
  PROVE  IInv'
<1> USE DEF Probe, Goto, Answer
<1>1. pc[p] # "idle" /\ Slug(p) \in Slugs /\ call[p] \in Request
  BY ServedCall DEF IInv
<1>2. TypeOK'
  BY <1>1 DEF IInv, TypeOK, Steps, Outcomes, Verdict
<1>3. LockDiscipline'
  BY <1>1 DEF IInv, TypeOK, LockDiscipline, Critical, Slug
<1>4. Bookkeeping'
  BY <1>1 DEF IInv, TypeOK, Bookkeeping, Undecided
<1>5. NoLostUpdate' /\ PlanIsChange'
  BY <1>1 DEF IInv, TypeOK, NoLostUpdate, PlanIsChange, Slug
<1>6. TempSafe'
  BY <1>1 DEF IInv, TypeOK, TempSafe, Slug
<1> QED BY <1>2, <1>3, <1>4, <1>5, <1>6 DEF IInv

LEMMA AcquirePreserves ==
  ASSUME IInv, NEW p \in Procs, Acquire(p)
  PROVE  IInv'
<1> USE DEF Acquire, Goto, Answer
<1>1. pc[p] # "idle" /\ Slug(p) \in Slugs /\ call[p] \in Request
  BY ServedCall DEF IInv
<1>2. TypeOK'
  BY <1>1 DEF IInv, TypeOK, Steps, Outcomes, Verdict
<1>3. LockDiscipline'
  BY <1>1 DEF IInv, TypeOK, LockDiscipline, Critical, Slug
<1>4. Bookkeeping'
  BY <1>1 DEF IInv, TypeOK, Bookkeeping, Undecided
<1>5. NoLostUpdate' /\ PlanIsChange'
  BY <1>1 DEF IInv, TypeOK, NoLostUpdate, PlanIsChange, Slug
<1>6. TempSafe'
  BY <1>1 DEF IInv, TypeOK, TempSafe, Slug
<1> QED BY <1>2, <1>3, <1>4, <1>5, <1>6 DEF IInv

LEMMA GiveUpPreserves ==
  ASSUME IInv, NEW p \in Procs, GiveUp(p)
  PROVE  IInv'
<1> USE DEF GiveUp, Goto, Answer
<1>1. pc[p] # "idle" /\ Slug(p) \in Slugs /\ call[p] \in Request
  BY ServedCall DEF IInv
<1>2. TypeOK'
  BY <1>1 DEF IInv, TypeOK, Steps, Outcomes, Verdict
<1>3. LockDiscipline'
  BY <1>1 DEF IInv, TypeOK, LockDiscipline, Critical, Slug
<1>4. Bookkeeping'
  BY <1>1 DEF IInv, TypeOK, Bookkeeping, Undecided
<1>5. NoLostUpdate' /\ PlanIsChange'
  BY <1>1 DEF IInv, TypeOK, NoLostUpdate, PlanIsChange, Slug
<1>6. TempSafe'
  BY <1>1 DEF IInv, TypeOK, TempSafe, Slug
<1> QED BY <1>2, <1>3, <1>4, <1>5, <1>6 DEF IInv

LEMMA StagePreserves ==
  ASSUME IInv, NEW p \in Procs, Stage(p)
  PROVE  IInv'
<1> USE DEF Stage, Goto, Answer
<1>1. pc[p] # "idle" /\ Slug(p) \in Slugs /\ call[p] \in Request
  BY ServedCall DEF IInv
<1>2. TypeOK'
  BY <1>1 DEF IInv, TypeOK, Steps, Outcomes, Verdict
<1>3. LockDiscipline'
  BY <1>1 DEF IInv, TypeOK, LockDiscipline, Critical, Slug
<1>4. Bookkeeping'
  BY <1>1 DEF IInv, TypeOK, Bookkeeping, Undecided
<1>5. NoLostUpdate' /\ PlanIsChange'
  BY <1>1 DEF IInv, TypeOK, NoLostUpdate, PlanIsChange, Slug
<1>6. TempSafe'
  BY <1>1 DEF IInv, TypeOK, TempSafe, Slug
<1> QED BY <1>2, <1>3, <1>4, <1>5, <1>6 DEF IInv

LEMMA IOFailsPreserves ==
  ASSUME IInv, NEW p \in Procs, IOFails(p)
  PROVE  IInv'
<1> USE DEF IOFails, Goto, Answer
<1>1. pc[p] # "idle" /\ Slug(p) \in Slugs /\ call[p] \in Request
  BY ServedCall DEF IInv
<1>2. TypeOK'
  BY <1>1 DEF IInv, TypeOK, Steps, Outcomes, Verdict
<1>3. LockDiscipline'
  BY <1>1 DEF IInv, TypeOK, LockDiscipline, Critical, Slug
<1>4. Bookkeeping'
  BY <1>1 DEF IInv, TypeOK, Bookkeeping, Undecided
<1>5. NoLostUpdate' /\ PlanIsChange'
  BY <1>1 DEF IInv, TypeOK, NoLostUpdate, PlanIsChange, Slug
<1>6. TempSafe'
  BY <1>1 DEF IInv, TypeOK, TempSafe, Slug
<1> QED BY <1>2, <1>3, <1>4, <1>5, <1>6 DEF IInv

LEMMA RenameFailsPreserves ==
  ASSUME IInv, NEW p \in Procs, RenameFails(p)
  PROVE  IInv'
<1> USE DEF RenameFails, Goto, Answer
<1>1. pc[p] # "idle" /\ Slug(p) \in Slugs /\ call[p] \in Request
  BY ServedCall DEF IInv
<1>2. TypeOK'
  BY <1>1 DEF IInv, TypeOK, Steps, Outcomes, Verdict
<1>3. LockDiscipline'
  BY <1>1 DEF IInv, TypeOK, LockDiscipline, Critical, Slug
<1>4. Bookkeeping'
  BY <1>1 DEF IInv, TypeOK, Bookkeeping, Undecided
<1>5. NoLostUpdate' /\ PlanIsChange'
  BY <1>1 DEF IInv, TypeOK, NoLostUpdate, PlanIsChange, Slug
<1>6. TempSafe'
  BY <1>1 DEF IInv, TypeOK, TempSafe, Slug
<1> QED BY <1>2, <1>3, <1>4, <1>5, <1>6 DEF IInv

LEMMA UnlinkFailsPreserves ==
  ASSUME IInv, NEW p \in Procs, UnlinkFails(p)
  PROVE  IInv'
<1> USE DEF UnlinkFails, Goto, Answer
<1>1. pc[p] # "idle" /\ Slug(p) \in Slugs /\ call[p] \in Request
  BY ServedCall DEF IInv
<1>2. TypeOK'
  BY <1>1 DEF IInv, TypeOK, Steps, Outcomes, Verdict
<1>3. LockDiscipline'
  BY <1>1 DEF IInv, TypeOK, LockDiscipline, Critical, Slug
<1>4. Bookkeeping'
  BY <1>1 DEF IInv, TypeOK, Bookkeeping, Undecided
<1>5. NoLostUpdate' /\ PlanIsChange'
  BY <1>1 DEF IInv, TypeOK, NoLostUpdate, PlanIsChange, Slug
<1>6. TempSafe'
  BY <1>1 DEF IInv, TypeOK, TempSafe, Slug
<1> QED BY <1>2, <1>3, <1>4, <1>5, <1>6 DEF IInv

LEMMA SweepPreserves ==
  ASSUME IInv, NEW p \in Procs, Sweep(p)
  PROVE  IInv'
<1> USE DEF Sweep, Goto, Answer
<1>1. pc[p] # "idle" /\ Slug(p) \in Slugs /\ call[p] \in Request
  BY ServedCall DEF IInv
<1>2. TypeOK'
  BY <1>1 DEF IInv, TypeOK, Steps, Outcomes, Verdict
<1>3. LockDiscipline'
  BY <1>1 DEF IInv, TypeOK, LockDiscipline, Critical, Slug
<1>4. Bookkeeping'
  BY <1>1 DEF IInv, TypeOK, Bookkeeping, Undecided
<1>5. NoLostUpdate' /\ PlanIsChange'
  BY <1>1 DEF IInv, TypeOK, NoLostUpdate, PlanIsChange, Slug
<1>6. TempSafe'
  <2> SUFFICES ASSUME NEW q \in Procs, pc'[q] = "rename"
               PROVE  q \in temps'[Slug(q)']
    BY DEF TempSafe, Slug
  <2>1. q # p /\ pc[q] = "rename" /\ call'[q] = call[q]
    BY DEF IInv, TypeOK
  <2>2. Slug(q) # Slug(p) /\ Slug(q)' = Slug(q)
    BY <2>1, Exclusion DEF Critical, Slug
  <2> QED BY <1>1, <2>1, <2>2 DEF IInv, TypeOK, TempSafe
<1> QED BY <1>2, <1>3, <1>4, <1>5, <1>6 DEF IInv

LEMMA UnlockPreserves ==
  ASSUME IInv, NEW p \in Procs, Unlock(p)
  PROVE  IInv'
<1> USE DEF Unlock, Goto, Answer
<1>1. pc[p] # "idle" /\ Slug(p) \in Slugs /\ call[p] \in Request
  BY ServedCall DEF IInv
<1>2. TypeOK'
  BY <1>1 DEF IInv, TypeOK, Steps, Outcomes, Verdict
<1>3. LockDiscipline'
  BY <1>1 DEF IInv, TypeOK, LockDiscipline, Critical, Slug
<1>4. Bookkeeping'
  BY <1>1 DEF IInv, TypeOK, Bookkeeping, Undecided
<1>5. NoLostUpdate' /\ PlanIsChange'
  BY <1>1 DEF IInv, TypeOK, NoLostUpdate, PlanIsChange, Slug
<1>6. TempSafe'
  BY <1>1 DEF IInv, TypeOK, TempSafe, Slug
<1> QED BY <1>2, <1>3, <1>4, <1>5, <1>6 DEF IInv

LEMMA RenamePreserves ==
  ASSUME IInv, NEW p \in Procs, Rename(p)
  PROVE  IInv'
<1> USE DEF Rename, Goto, Answer
<1>1. pc[p] # "idle" /\ Slug(p) \in Slugs /\ call[p] \in Request
  BY ServedCall DEF IInv
<1>2. TypeOK'
  BY <1>1 DEF IInv, TypeOK, Steps, Outcomes, Verdict
<1>3. LockDiscipline'
  BY <1>1 DEF IInv, TypeOK, LockDiscipline, Critical, Slug
<1>4. Bookkeeping'
  BY <1>1 DEF IInv, TypeOK, Bookkeeping, Undecided
<1>5. NoLostUpdate' /\ PlanIsChange'
  <2> SUFFICES ASSUME NEW q \in Procs, pc'[q] \in {"stage", "rename", "unlink"}
               PROVE  /\ plan'[q] = plan[q] /\ call'[q] = call[q] /\ pc'[q] = pc[q]
                      /\ file'[Slug(q)] = file[Slug(q)]
    BY DEF IInv, NoLostUpdate, PlanIsChange, Slug
  <2>1. q # p /\ pc[q] = pc'[q] /\ call'[q] = call[q]
    BY DEF IInv, TypeOK
  <2>2. Slug(q) # Slug(p) /\ Slug(q) \in Slugs
    BY <2>1, Exclusion, ServedCall DEF Critical
  <2> QED BY <1>1, <2>1, <2>2 DEF IInv, TypeOK
<1>6. TempSafe'
  BY <1>1 DEF IInv, TypeOK, TempSafe, Slug
<1> QED BY <1>2, <1>3, <1>4, <1>5, <1>6 DEF IInv

LEMMA UnlinkPreserves ==
  ASSUME IInv, NEW p \in Procs, Unlink(p)
  PROVE  IInv'
<1> USE DEF Unlink, Goto, Answer
<1>1. pc[p] # "idle" /\ Slug(p) \in Slugs /\ call[p] \in Request
  BY ServedCall DEF IInv
<1>2. TypeOK'
  BY <1>1 DEF IInv, TypeOK, Steps, Outcomes, Verdict
<1>3. LockDiscipline'
  BY <1>1 DEF IInv, TypeOK, LockDiscipline, Critical, Slug
<1>4. Bookkeeping'
  BY <1>1 DEF IInv, TypeOK, Bookkeeping, Undecided
<1>5. NoLostUpdate' /\ PlanIsChange'
  <2> SUFFICES ASSUME NEW q \in Procs, pc'[q] \in {"stage", "rename", "unlink"}
               PROVE  /\ plan'[q] = plan[q] /\ call'[q] = call[q] /\ pc'[q] = pc[q]
                      /\ file'[Slug(q)] = file[Slug(q)]
    BY DEF IInv, NoLostUpdate, PlanIsChange, Slug
  <2>1. q # p /\ pc[q] = pc'[q] /\ call'[q] = call[q]
    BY DEF IInv, TypeOK
  <2>2. Slug(q) # Slug(p) /\ Slug(q) \in Slugs
    BY <2>1, Exclusion, ServedCall DEF Critical
  <2> QED BY <1>1, <2>1, <2>2 DEF IInv, TypeOK
<1>6. TempSafe'
  BY <1>1 DEF IInv, TypeOK, TempSafe, Slug
<1> QED BY <1>2, <1>3, <1>4, <1>5, <1>6 DEF IInv

LEMMA BeginPreserves ==
  ASSUME IInv, NEW p \in Procs, NEW r \in Requests, Begin(p, r)
  PROVE  IInv'
<1> USE DEF Begin, Goto
<1>1. r \in Request /\ r # None
  OBVIOUS
<1>2. TypeOK'
  BY <1>1 DEF IInv, TypeOK, Steps
<1>3. LockDiscipline'
  BY <1>1 DEF IInv, TypeOK, LockDiscipline, Critical, Slug
<1>4. Bookkeeping'
  BY <1>1 DEF IInv, TypeOK, Bookkeeping, Undecided
<1>5. NoLostUpdate' /\ PlanIsChange'
  BY <1>1 DEF IInv, TypeOK, NoLostUpdate, PlanIsChange, Slug
<1>6. TempSafe'
  BY <1>1 DEF IInv, TypeOK, TempSafe, Slug
<1> QED BY <1>2, <1>3, <1>4, <1>5, <1>6 DEF IInv

(* The decision a process takes under the lock.                            *)
LEMMA DecisionHere ==
  ASSUME IInv, NEW p \in Procs, pc[p] # "idle"
  PROVE  Decide(call[p], file[Slug(p)]) \in DecisionOn(file[Slug(p)])
<1>1. call[p] \in Request /\ file[Slug(p)] \in File
  BY ServedCall DEF IInv, TypeOK
<1> QED BY <1>1, DecideDecides

LEMMA ReadPreserves ==
  ASSUME IInv, NEW p \in Procs, Read(p)
  PROVE  IInv'
<1> DEFINE d == Decide(call[p], file[Slug(p)])
<1>1. pc[p] = "locked" /\ Slug(p) \in Slugs /\ call[p] \in Request
  BY ServedCall DEF IInv, Read
<1>2. d.why \in Outcomes /\ d.file \in File
  BY <1>1, DecisionHere DEF DecisionOn
<1>3. \/ /\ Changes(d.why)
         /\ plan' = [plan EXCEPT ![p] = d.file]
         /\ pc' = [pc EXCEPT ![p] = IF d.why = "removed" THEN "unlink" ELSE "stage"]
         /\ res' = res
      \/ /\ ~Changes(d.why)
         /\ res' = [res EXCEPT ![p] = d.why]
         /\ pc' = [pc EXCEPT ![p] = "unlock"]
         /\ plan' = plan
  BY DEF Read, Goto, Answer
<1>4. UNCHANGED <<file, lock, temps, call>>
  BY DEF Read
<1>5. Changes(d.why) => d.why \in {"written", "removed"}
  BY DEF Changes
<1>6. d = Decide(call[p], file[Slug(p)])
  OBVIOUS
<1> HIDE DEF d
<1>7. TypeOK'
  BY <1>1, <1>2, <1>3, <1>4 DEF IInv, TypeOK, Steps
<1>8. LockDiscipline'
  BY <1>1, <1>3, <1>4 DEF IInv, TypeOK, LockDiscipline, Critical, Slug
<1>9. Bookkeeping'
  BY <1>1, <1>3, <1>4 DEF IInv, TypeOK, Bookkeeping, Undecided
<1>10. NoLostUpdate' /\ PlanIsChange'
  BY <1>1, <1>3, <1>4, <1>5, <1>6 DEF IInv, TypeOK, NoLostUpdate, PlanIsChange, Slug
<1>11. TempSafe'
  BY <1>1, <1>3, <1>4 DEF IInv, TypeOK, TempSafe, Slug
<1> QED BY <1>7, <1>8, <1>9, <1>10, <1>11 DEF IInv

(* A call that returns, or a process that dies: it held nothing, or the    *)
(* kernel takes its lock away.                                             *)
LEMMA RetirePreserves ==
  ASSUME IInv, NEW p \in Procs, Return(p) \/ Crash(p)
  PROVE  IInv'
<1>1. /\ file' = file
      /\ call' = [call EXCEPT ![p] = None]
      /\ plan' = [plan EXCEPT ![p] = NoFile]
      /\ res'  = [res EXCEPT ![p] = None]
      /\ pc'   = [pc EXCEPT ![p] = "idle"]
  BY DEF Return, Crash, Retire, Goto
<1>2. \A s \in Slugs : lock'[s] = IF lock[s] = p THEN None ELSE lock[s]
  BY DEF IInv, TypeOK, LockDiscipline, Critical, Return, Crash
<1>3. \A s \in Slugs : \A q \in Procs : q # p /\ q \in temps[s] => q \in temps'[s]
  BY DEF Return, Crash
<1>4. lock' \in [Slugs -> Procs \cup {None}] /\ temps' \in [Slugs -> SUBSET (Procs \cup {Stray})]
  BY DEF IInv, TypeOK, Return, Crash
<1>5. TypeOK'
  BY <1>1, <1>4 DEF IInv, TypeOK, Steps, File
<1>6. \A q \in Procs : q # p /\ pc[q] # "idle" => Slug(q) \in Slugs
  BY ServedCall
<1>7. LockDiscipline'
  BY <1>1, <1>2, <1>6 DEF IInv, TypeOK, LockDiscipline, Critical, Slug
<1>8. Bookkeeping'
  BY <1>1 DEF IInv, TypeOK, Bookkeeping, Undecided
<1>9. NoLostUpdate' /\ PlanIsChange'
  BY <1>1 DEF IInv, TypeOK, NoLostUpdate, PlanIsChange, Slug
<1>10. TempSafe'
  BY <1>1, <1>3, <1>6 DEF IInv, TypeOK, TempSafe, Slug
<1> QED BY <1>5, <1>7, <1>8, <1>9, <1>10 DEF IInv

(***************************************************************************)
(* The invariants of the protocol.                                         *)
(***************************************************************************)
LEMMA InitEstablishes == Init => IInv
BY DEF Init, IInv, TypeOK, LockDiscipline, Bookkeeping, NoLostUpdate, PlanIsChange,
       TempSafe, Steps, File, Critical, Undecided

LEMMA StepPreserves == IInv /\ [Next]_vars => IInv'
<1> SUFFICES ASSUME IInv, [Next]_vars PROVE IInv'
  OBVIOUS
<1>1. CASE UNCHANGED vars
  BY <1>1 DEF vars, IInv, TypeOK, LockDiscipline, Bookkeeping, NoLostUpdate,
              PlanIsChange, TempSafe, Slug
<1>2. CASE Next
  <2>1. PICK p \in Procs : (\E r \in Requests : Begin(p, r)) \/ Progress(p) \/ Failure(p)
    BY <1>2 DEF Next
  <2>2. CASE \E r \in Requests : Begin(p, r)
    BY <2>2, BeginPreserves
  <2>3. CASE Progress(p)
    BY <2>3, ProbePreserves, AcquirePreserves, GiveUpPreserves, ReadPreserves,
       StagePreserves, RenamePreserves, UnlinkPreserves, SweepPreserves,
       UnlockPreserves, RetirePreserves DEF Progress
  <2>4. CASE Failure(p)
    BY <2>4, IOFailsPreserves, RenameFailsPreserves, UnlinkFailsPreserves,
       RetirePreserves DEF Failure
  <2> QED BY <2>1, <2>2, <2>3, <2>4
<1> QED BY <1>1, <1>2

THEOREM Invariance == Spec => []IInv
BY InitEstablishes, StepPreserves, PTL DEF Spec

(* Every variable keeps its type, whatever the calls and the crashes.      *)
THEOREM TypeCorrect == Spec => []TypeOK
<1>1. IInv => TypeOK
  BY DEF IInv
<1> QED BY <1>1, Invariance, PTL

(* A lock is held exactly by the process in its critical section: a crash  *)
(* never leaves a slug locked, and two writers never share one.            *)
THEOREM LocksSafe == Spec => []LockDiscipline
<1>1. IInv => LockDiscipline
  BY DEF IInv
<1> QED BY <1>1, Invariance, PTL

(* What a writer is about to leave in a file is its decision on what the   *)
(* file holds at that moment.                                              *)
THEOREM UpdatesSafe == Spec => []NoLostUpdate
<1>1. IInv => NoLostUpdate
  BY DEF IInv
<1> QED BY <1>1, Invariance, PTL

(* The sweep of a removal never deletes a temporary file another writer is *)
(* about to rename.                                                        *)
THEOREM SweepSafe == Spec => []TempSafe
<1>1. IInv => TempSafe
  BY DEF IInv
<1> QED BY <1>1, Invariance, PTL

(***************************************************************************)
(* Refinement: a call of the protocol takes effect at its rename or unlink *)
(* (or, changing nothing, at its read), and every other step stutters.     *)
(***************************************************************************)

(* The decisions of the abstract specification are those of the protocol.  *)
LEMMA SameDecide ==
  ASSUME NEW r, NEW f PROVE Store!Decide(r, f) = Decide(r, f)
BY DEF Decide, Store!Decide, Removes, Store!Removes, Creates, Store!Creates,
       Keep, Store!Keep, Removal, Store!Removal, Merged, Store!Merged,
       Startup, Store!Startup, Clear, Store!Clear, Resume, Store!Resume,
       SetKeys, Store!SetKeys, Arrive, Store!Arrive, Adopt, Store!Adopt,
       Wrote, Store!Wrote, Parsed, Store!Parsed, Blank, Store!Blank,
       StoredSession, Store!StoredSession, StoredProof, Store!StoredProof,
       MayRefresh, Store!MayRefresh, MayCarry, Store!MayCarry,
       OwnProof, Store!OwnProof, RotatedTo, Store!RotatedTo,
       ContinuedIn, Store!ContinuedIn, SameProcess, Store!SameProcess,
       SessionLiveness, Store!SessionLiveness, Entries, Store!Entries,
       RowsOf, Store!RowsOf, FirstRow, Store!FirstRow

(* The step of a call that takes effect: its answer and the contents it    *)
(* leaves are those of its decision.                                       *)
LEMMA ServesOnce ==
  ASSUME IInv, NEW p \in Procs, pc[p] # "idle", res[p] = None, UNCHANGED call,
         file' = [file EXCEPT ![Slug(p)] = Decide(call[p], file[Slug(p)]).file],
         res'  = [res EXCEPT ![p] = Decide(call[p], file[Slug(p)]).why]
  PROVE  Store!Serve(p)
<1>1. call[p] # None
  BY DEF IInv, Bookkeeping
<1> QED BY <1>1, SameDecide DEF Store!Serve, Slug

(* An answer that changes nothing is a decision to keep the file.          *)
LEMMA ServesKeeping ==
  ASSUME IInv, NEW p \in Procs, pc[p] # "idle", res[p] = None,
         UNCHANGED <<file, call>>, ~Changes(Decide(call[p], file[Slug(p)]).why),
         res' = [res EXCEPT ![p] = Decide(call[p], file[Slug(p)]).why]
  PROVE  Store!Serve(p)
<1> DEFINE d == Decide(call[p], file[Slug(p)])
<1>1. d.file = file[Slug(p)]
  BY DecisionHere DEF DecisionOn
<1>2. file' = [file EXCEPT ![Slug(p)] = d.file]
  BY <1>1, ServedCall DEF IInv, TypeOK
<1> QED BY <1>2, ServesOnce

LEMMA RefusesCall ==
  ASSUME IInv, NEW p \in Procs, pc[p] # "idle", res[p] = None,
         UNCHANGED <<file, call>>, NEW why \in {"busy", "io_error"},
         res' = [res EXCEPT ![p] = why]
  PROVE  Store!Refuse(p)
BY DEF Store!Refuse, IInv, Bookkeeping

LEMMA StepRefines == IInv /\ [Next]_vars => [Store!StoreNext]_Store!storeVars
<1> SUFFICES ASSUME IInv, [Next]_vars
             PROVE  Store!StoreNext \/ UNCHANGED <<file, call, res>>
  BY DEF Store!storeVars
<1>1. CASE UNCHANGED vars
  BY <1>1 DEF vars
<1>2. CASE Next
  <2>1. PICK p \in Procs : (\E r \in Requests : Begin(p, r)) \/ Progress(p) \/ Failure(p)
    BY <1>2 DEF Next
  <2>2. SUFFICES \/ Store!Begin(p) \/ Store!Serve(p) \/ Store!Refuse(p) \/ Store!End(p)
                 \/ UNCHANGED <<file, call, res>>
    BY DEF Store!StoreNext
  <2> DEFINE d == Decide(call[p], file[Slug(p)])
  <2>3. CASE \E r \in Requests : Begin(p, r)
    BY <2>3 DEF Begin, Store!Begin, Store!Call, IInv, Bookkeeping
  <2>4. CASE Probe(p)
    <3>1. CASE file[Slug(p)] = NoFile /\ ~Creates(call[p])
      <4>1. ~Removes(call[p]) /\ res[p] = None /\ pc[p] # "idle"
        BY <2>4 DEF Probe, IInv, Bookkeeping, Undecided
      <4>2. d.why = "absent" /\ ~Changes(d.why)
        BY <3>1, <4>1 DEF Decide, Keep, Changes
      <4>3. UNCHANGED <<file, call>> /\ res' = [res EXCEPT ![p] = d.why]
        BY <2>4, <3>1, <4>2 DEF Probe, Answer
      <4> QED BY <4>1, <4>2, <4>3, ServesKeeping
    <3>2. CASE ~(file[Slug(p)] = NoFile /\ ~Creates(call[p]))
      BY <2>4, <3>2 DEF Probe
    <3> QED BY <3>1, <3>2
  <2>5. CASE Acquire(p) \/ Stage(p) \/ Sweep(p) \/ Unlock(p)
    BY <2>5 DEF Acquire, Stage, Sweep, Unlock
  <2>6. CASE GiveUp(p) \/ IOFails(p) \/ RenameFails(p) \/ UnlinkFails(p)
    <3>1. pc[p] # "idle" /\ res[p] = None
      BY <2>6 DEF GiveUp, IOFails, RenameFails, UnlinkFails, IInv, Bookkeeping, Undecided
    <3>2. /\ UNCHANGED <<file, call>>
          /\ \E why \in {"busy", "io_error"} : res' = [res EXCEPT ![p] = why]
      BY <2>6 DEF GiveUp, IOFails, RenameFails, UnlinkFails, Answer
    <3> QED BY <3>1, <3>2, RefusesCall
  <2>7. CASE Read(p)
    <3>1. CASE Changes(d.why)
      BY <2>7, <3>1 DEF Read
    <3>2. CASE ~Changes(d.why)
      <4>1. pc[p] # "idle" /\ res[p] = None
        BY <2>7 DEF Read, IInv, Bookkeeping, Undecided
      <4>2. UNCHANGED <<file, call>> /\ res' = [res EXCEPT ![p] = d.why]
        BY <2>7, <3>2 DEF Read, Answer
      <4> QED BY <3>2, <4>1, <4>2, ServesKeeping
    <3> QED BY <3>1, <3>2
  <2>8. CASE Rename(p) \/ Unlink(p)
    <3>1. pc[p] # "idle" /\ res[p] = None
      BY <2>8 DEF Rename, Unlink, IInv, Bookkeeping, Undecided
    <3>2. plan[p] = d.file
      BY <2>8 DEF Rename, Unlink, IInv, NoLostUpdate
    <3>3. res' = [res EXCEPT ![p] = d.why]
      BY <2>8 DEF Rename, Unlink, Answer, IInv, PlanIsChange
    <3>4. file' = [file EXCEPT ![Slug(p)] = d.file] /\ UNCHANGED call
      BY <2>8, <3>2 DEF Rename, Unlink
    <3> QED BY <3>1, <3>3, <3>4, ServesOnce
  <2>9. CASE Return(p) \/ Crash(p)
    <3>1. call[p] # None
      BY <2>9 DEF Return, Crash, IInv, Bookkeeping
    <3> QED BY <2>9, <3>1 DEF Return, Crash, Retire, Store!End
  <2> QED BY <2>1, <2>3, <2>4, <2>5, <2>6, <2>7, <2>8, <2>9 DEF Progress, Failure
<1> QED BY <1>1, <1>2

(* The lock, the temporary files and the crashes implement atomic calls:   *)
(* every behaviour of the protocol is one of the abstract store.           *)
THEOREM Refinement == Spec => ImplementsStore
<1>1. Init => Store!StoreInit
  BY DEF Init, Store!StoreInit
<1> QED BY <1>1, Invariance, StepRefines, PTL DEF Spec, ImplementsStore, Store!StoreSpec

=============================================================================
