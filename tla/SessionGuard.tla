---------------------------- MODULE SessionGuard ----------------------------
(***************************************************************************)
(* The session guard of a task-state file: what one read of the Claude     *)
(* Code session registry (ccregistry.Snapshot) proves about the session    *)
(* the file names, and whether a caller may rewrite the session: line      *)
(* (taskstate.MaySetSession).  Everything here is a pure function of one   *)
(* snapshot; when the snapshot is taken is the business of the modules     *)
(* that use this one.                                                      *)
(***************************************************************************)
EXTENDS Naturals

CONSTANTS
  None,      \* an absent key, row field or verdict
  Sids,      \* Claude Code session ids
  Pids,      \* process ids
  Jobs,      \* background-job ids
  MaxAt      \* bound on startedAt stamps (registry milliseconds, abstracted)

ASSUME PidsAreNumbers == Pids \subseteq Nat
ASSUME MaxAtPositive  == MaxAt \in Nat \ {0}

(* A registry row of a live pid.  A loose row is one under another         *)
(* peerProtocol: it says the session runs, and nothing else.               *)
Row == [pid: Pids, sid: Sids, at: 1..MaxAt, loose: BOOLEAN,
        job: Jobs \cup {None}, parked: Jobs \cup {None}]

(* absent: there is no registry directory.  garbled: some live entry could *)
(* not be parsed (it is not among the rows).                               *)
Snapshot == {s \in [absent: BOOLEAN, garbled: BOOLEAN, rows: SUBSET Row] :
               s.absent => ~s.garbled /\ s.rows = {}}

(* The exact process that held a session.                                  *)
Proof == [sid: Sids, pid: Pids, at: 1..MaxAt]

Verdict == {"ok", "unchanged", "live", "unknown", "rotated_foreign", "no_proof"}

Entries(snap) == {r \in snap.rows : ~r.loose}

RowsOf(snap, sid) == {r \in Entries(snap) : r.sid = sid}

(* Find returns the first listed entry of a session; entries are listed in *)
(* file-name order.                                                        *)
FirstRow(snap, sid) ==
  CHOOSE r \in RowsOf(snap, sid) : \A q \in RowsOf(snap, sid) : r.pid <= q.pid

(* Deviation: an unreadable live entry does not make the verdict unsure.   *)
SessionLivenessBold(snap, sid) ==
  IF \E r \in snap.rows : r.sid = sid THEN "alive" ELSE "dead"

SessionLiveness(snap, sid) ==
  CASE \E r \in snap.rows : r.sid = sid -> "alive"
    [] (\A r \in snap.rows : r.sid # sid) /\ ~snap.garbled -> "dead"
    [] OTHER -> "unknown"

(* The session was parked into the background job that runs as own.        *)
ContinuedIn(snap, sid, own) ==
  /\ sid # own
  /\ RowsOf(snap, sid) # {} /\ RowsOf(snap, own) # {}
  /\ FirstRow(snap, sid).parked # None
  /\ FirstRow(snap, sid).parked = FirstRow(snap, own).job

(* Deviation: a pid alone identifies the process.                          *)
SamePid(snap, proof) == \E r \in Entries(snap) : r.pid = proof.pid

(* The proof's process is listed with exactly its startedAt.               *)
SameProcess(snap, proof) ==
  \E r \in Entries(snap) : r.pid = proof.pid /\ r.at = proof.at

(* The session the recorded id became, None when nothing proves one: the   *)
(* id runs nowhere and the proof's own process now carries another id.     *)
RotatedTo(snap, sid, own, proof) ==
  IF ContinuedIn(snap, sid, own) THEN own
  ELSE IF /\ proof # None
          /\ SameProcess(snap, proof)
          /\ RowsOf(snap, sid) = {}
       THEN (CHOOSE r \in Entries(snap) : r.pid = proof.pid).sid
       ELSE None

(* Deviation: the caller's registry row is taken for its session unseen.   *)
OwnProofUnchecked(snap, pid, own) ==
  IF \E r \in Entries(snap) : r.pid = pid
  THEN [sid |-> own, pid |-> pid, at |-> (CHOOSE r \in Entries(snap) : r.pid = pid).at]
  ELSE None

(* The caller's proof of itself: the nearest Claude Code process above it  *)
(* (pid) is listed as session own.                                         *)
OwnProof(snap, pid, own) ==
  IF \E r \in Entries(snap) : r.pid = pid /\ r.sid = own
  THEN [sid |-> own, pid |-> pid,
        at  |-> (CHOOSE r \in Entries(snap) : r.pid = pid /\ r.sid = own).at]
  ELSE None

(* May own record its start over the stored session?                       *)
MayRefresh(stored, proof, own, snap) ==
  IF stored = own THEN "unchanged"
  ELSE IF stored = None \/ snap.absent THEN "ok"
  ELSE LET to   == RotatedTo(snap, stored, own, proof)
           live == SessionLiveness(snap, stored)
       IN CASE to = own -> "ok"
            [] to \notin {own, None} -> "rotated_foreign"
            [] to = None /\ live = "dead" -> "ok"
            [] to = None /\ live = "alive" -> "live"
            [] OTHER -> "unknown"

(* May own carry the stored boundary to its re-minted id?  Only on proof.  *)
MayCarry(stored, proof, own, snap) ==
  IF stored \in {own, None} THEN "unchanged"
  ELSE IF ~snap.absent /\ RotatedTo(snap, stored, own, proof) = own THEN "ok"
  ELSE IF ~snap.absent /\ SessionLiveness(snap, stored) = "alive" THEN "live"
  ELSE "no_proof"

=============================================================================
