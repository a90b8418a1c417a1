------------------------------ MODULE TaskFile ------------------------------
(***************************************************************************)
(* The contents of one task-state file .lets/sessions/.task-<slug> and     *)
(* what each writer of the CLI makes of the contents it reads under the    *)
(* file's lock.  A request is one call of a writer with everything it      *)
(* decided before the lock (the registry snapshot and HEAD included); the  *)
(* decision on a request is a function of the file alone, exactly as the   *)
(* code's Derive callbacks are.                                            *)
(*                                                                         *)
(* An absent key is None.  A file of no keys at all is Blank, which is not *)
(* NoFile: clearing every key leaves an empty file behind.                 *)
(***************************************************************************)
EXTENDS SessionGuard

CONSTANTS
  NoFile,    \* the file does not exist
  Slugs,     \* branch slugs
  Tasks,     \* task ids
  Shas,      \* commits
  Orcs,      \* orchestrator names
  Teams      \* standing teams

Opt(S) == S \cup {None}

Boundary == [sha: Shas, sid: Sids]     \* the value of a session: line

State ==
  [task: Opt(Tasks), start: Opt(Shas), session: Opt(Boundary),
   origin: Opt({"branch", "dir"}), orc: Opt(Orcs),
   park: Opt(Shas), park_team: Opt(Teams), session_proof: Opt(Proof)]

File == State \cup {NoFile}

Blank == [task |-> None, start |-> None, session |-> None, origin |-> None,
          orc |-> None, park |-> None, park_team |-> None, session_proof |-> None]

(* What a writer finds under the lock: parsing nothing yields no keys.     *)
Parsed(f) == IF f = NoFile THEN Blank ELSE f

StoredSession(st) == IF st.session = None THEN None ELSE st.session.sid

(* A proof binds only to the session the line names.                       *)
StoredProof(st) ==
  IF /\ st.session_proof # None
     /\ st.session # None
     /\ st.session_proof.sid = st.session.sid
  THEN st.session_proof ELSE None

(***************************************************************************)
(* Requests, by writer.                                                    *)
(***************************************************************************)
HookReq == [kind: {"startup", "clear", "resume"}, slug: Slugs,
            own: Sids, pid: Pids, head: Shas, snap: Snapshot]

SetReq == [kind: {"set"}, slug: Slugs, create: BOOLEAN,
           task: Opt(Tasks), start: Opt(Shas), orc: Opt(Orcs),
           clear: SUBSET {"task", "origin", "orc"},
           session: Opt(Boundary), snap: Snapshot, proof: Opt(Proof)]

SwitchReq == [kind: {"switch"}, slug: Slugs, task: Tasks,
              created: BOOLEAN, start: Opt(Shas),   \* the base, or the merge-base
              orc: Opt(Orcs), own: Opt(Sids), pid: Pids, head: Shas, snap: Snapshot]

ParkReq == [kind: {"park"}, slug: Slugs, park: Shas, team: Teams]

UnparkReq == [kind: {"unpark"}, slug: Slugs]

AdoptReq == [kind: {"adopt"}, slug: Slugs, arg: Opt(Tasks), replace: BOOLEAN,
             named: Opt([id: Tasks, origin: Opt({"branch", "dir"})]),
             head: Shas, ancestors: SUBSET Shas]

ReleaseReq == [kind: {"release"}, slug: Slugs, task: Opt(Tasks)]

RemoveReq == [kind: {"remove"}, slug: Slugs]

Request == HookReq \cup SetReq \cup SwitchReq \cup ParkReq \cup UnparkReq
             \cup AdoptReq \cup ReleaseReq \cup RemoveReq

(* Remove and RemoveIfTask never look before they lock.                    *)
Removes(r) == r.kind \in {"release", "remove"}

(* Writers that create a missing file; the others leave it missing.        *)
Creates(r) == r.kind \in {"switch", "park", "adopt"} \/ (r.kind = "set" /\ r.create)

(***************************************************************************)
(* Decisions: the file a request leaves and why.  "written" and "removed"  *)
(* are the only outcomes that change it.                                   *)
(***************************************************************************)
Outcomes == Verdict \cup {"written", "removed", "absent", "skipped", "changed", "gone",
                          "task_mismatch", "task_file_conflict", "busy", "io_error"}

Keep(f, why) == [why |-> why, file |-> f]
Wrote(st) == [why |-> "written", file |-> st]

(* RefreshSessionBoundary: on a new session the line becomes this session  *)
(* at HEAD; the proof line is replaced, or dropped with no proof.          *)
Startup(r, f) ==
  LET v == MayRefresh(StoredSession(f), StoredProof(f), r.own, r.snap)
  IN IF v # "ok" THEN Keep(f, v)
     ELSE Wrote([f EXCEPT !.session = [sha |-> r.head, sid |-> r.own],
                          !.session_proof = OwnProof(r.snap, r.pid, r.own)])

(* CarrySession: after /clear the line moves to the new id, its sha stays. *)
Clear(r, f) ==
  LET v == MayCarry(StoredSession(f), StoredProof(f), r.own, r.snap)
  IN IF v # "ok" THEN Keep(f, v)
     ELSE Wrote([f EXCEPT !.session = [sha |-> f.session.sha, sid |-> r.own],
                          !.session_proof = OwnProof(r.snap, r.pid, r.own)])

(* Deviation: a resumed session leaves the proof of its former process.    *)
ResumeSilently(r, f) == Keep(f, "skipped")

(* RefreshProof: a resumed session re-records only its process.            *)
Resume(r, f) ==
  LET own == OwnProof(r.snap, r.pid, r.own)
  IN IF StoredSession(f) # r.own \/ own = None THEN Keep(f, "skipped")
     ELSE IF StoredProof(f) = own THEN Keep(f, "unchanged")
     ELSE Wrote([f EXCEPT !.session_proof = own])

(* TaskStateSet: a task named without a start never lands on another task; *)
(* a session written over a live foreign one refuses the whole call.       *)
SetKeys(r, f) ==
  LET cur  == Parsed(f)
      v    == IF r.session = None \/ r.snap.absent THEN "ok"
              ELSE MayRefresh(StoredSession(cur), StoredProof(cur), r.session.sid, r.snap)
  IN CASE /\ r.task # None /\ r.start = None
          /\ cur.task \notin {None, r.task} -> Keep(f, "task_mismatch")
       [] /\ ~(r.task # None /\ r.start = None /\ cur.task \notin {None, r.task})
          /\ v \in {"live", "rotated_foreign"} -> Keep(f, v)
       [] OTHER ->
          Wrote([cur EXCEPT
            !.task    = IF "task" \in r.clear THEN None ELSE IF r.task # None THEN r.task ELSE @,
            !.start   = IF "task" \in r.clear THEN None ELSE IF r.start # None THEN r.start ELSE @,
            !.origin  = IF r.clear \cap {"task", "origin"} # {} THEN None ELSE @,
            !.orc     = IF "orc" \in r.clear THEN None ELSE IF r.orc # None THEN r.orc ELSE @,
            !.session = IF r.session # None THEN r.session ELSE @,
            !.session_proof = IF r.session # None THEN r.proof ELSE @])

(* Switch's one write on the target's file, after git switch has moved the *)
(* tree: a new branch starts at its cut, an existing one keeps its start   *)
(* for the same task, and an unknown merge-base leaves the key alone.      *)
Arrive(r, f) ==
  LET cur  == Parsed(f)
      v    == IF r.own = None THEN "unchanged"
              ELSE MayRefresh(StoredSession(cur), StoredProof(cur), r.own, r.snap)
      cut  == r.start # None /\ (r.created \/ cur.start = None \/ cur.task # r.task)
  IN IF v \notin {"ok", "unchanged"} THEN Keep(f, v)
     ELSE Wrote([cur EXCEPT
            !.task    = r.task,
            !.start   = IF cut THEN r.start ELSE @,
            !.orc     = IF @ = None THEN r.orc ELSE @,
            !.session = IF v = "ok" THEN [sha |-> r.head, sid |-> r.own] ELSE @,
            !.session_proof = IF v = "ok" THEN OwnProof(r.snap, r.pid, r.own) ELSE @])

(* adoptTask: an explicit id, else the file's own, else the id the names   *)
(* carry; a conflicting recorded task is kept unless it was itself a guess *)
(* and the new id is explicit.                                             *)
Adopt(r, f) ==
  LET cur      == Parsed(f)
      explicit == r.arg # None
      id       == CASE explicit -> r.arg
                    [] ~explicit /\ cur.task # None -> cur.task
                    [] ~explicit /\ cur.task = None /\ r.named # None -> r.named.id
                    [] OTHER -> None
      conflict == /\ cur.task \notin {None, id}
                  /\ ~r.replace
                  /\ cur.origin = None \/ ~explicit
      kept     == cur.task = id /\ cur.start \in r.ancestors
  IN CASE id = None -> Keep(f, "skipped")
       [] id # None /\ conflict -> Keep(f, "task_file_conflict")
       [] OTHER ->
          Wrote([cur EXCEPT
            !.task   = id,
            !.start  = IF kept THEN @ ELSE r.head,
            !.origin = CASE explicit -> None
                         [] ~explicit /\ cur.task # None -> @
                         [] OTHER -> r.named.origin])

(* The merge of a request into the file found under the lock.              *)
Merged(r, f) ==
  CASE r.kind = "startup" -> Startup(r, f)
    [] r.kind = "clear"   -> Clear(r, f)
    [] r.kind = "resume"  -> Resume(r, f)
    [] r.kind = "set"     -> SetKeys(r, f)
    [] r.kind = "switch"  -> Arrive(r, f)
    [] r.kind = "park"    -> Wrote([Parsed(f) EXCEPT !.park = r.park, !.park_team = r.team])
    [] r.kind = "unpark"  -> Wrote([f EXCEPT !.park = None, !.park_team = None])
    [] OTHER              -> Adopt(r, f)

(* RemoveIfTask compares the task alone: a session refresh for the same    *)
(* task does not change what the released marker covers.  It leaves the    *)
(* temporary files of a file already gone; Remove sweeps them regardless.  *)
Removal(r, f) ==
  CASE r.kind = "release" /\ f = NoFile -> Keep(f, "gone")
    [] r.kind = "release" /\ f # NoFile /\ f.task # r.task -> Keep(f, "changed")
    [] OTHER -> [why |-> "removed", file |-> NoFile]

Decide(r, f) ==
  CASE Removes(r) -> Removal(r, f)
    [] ~Removes(r) /\ f = NoFile /\ ~Creates(r) -> Keep(f, "absent")
    [] OTHER -> Merged(r, f)

Changes(why) == why \in {"written", "removed"}

=============================================================================
