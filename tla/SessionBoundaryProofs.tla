------------------------ MODULE SessionBoundaryProofs ------------------------
(***************************************************************************)
(* Who owns the session: line, for any number of processes, ids, jobs,     *)
(* commits and registry files that trail, outlive or garble what they      *)
(* describe.  The argument is one of history: every row of the registry,   *)
(* however stale, and so every proof in the file or under way, names a     *)
(* process that did run that session.  With a prompt registry the proof of *)
(* a boundary is moreover that of the process that holds it now, which is  *)
(* what the carry after /clear needs.                                      *)
(***************************************************************************)
EXTENDS SessionContinuity, TLAPS

Ran(pid, at, sid) == <<pid, at, sid>> \in held

(* The history holds what runs now, and every registry file, however old.  *)
Recorded ==
  /\ \A p \in Pids : claude[p] # None => Ran(p, claude[p].at, claude[p].sid)
  /\ \A p \in Pids : reg[p] # None => reg[p].pid = p /\ Ran(p, reg[p].at, reg[p].sid)
  /\ \A h \in held : h[2] <= clock

(* A snapshot shows sessions that were run, one row per process.           *)
SoundRows(rows) ==
  /\ \A r \in rows : Ran(r.pid, r.at, r.sid)
  /\ \A r, q \in rows : r.pid = q.pid => r = q

SoundProof(proof) == proof # None => Ran(proof.pid, proof.at, proof.sid)

(* What a command knows when it waits for the lock.                        *)
SoundCall(r) ==
  /\ r.slug = wt
  /\ SoundRows(r.snap.rows)
  /\ ~r.snap.absent
  /\ r.kind = "set" => SoundProof(r.proof)

CallsSound == \A p \in Pids : call[p] # None => SoundCall(call[p])

(* The recorded proof, bound to the recorded session or not.               *)
FileSound == file[wt] # NoFile => SoundProof(file[wt].session_proof)

(* A session that has not yet answered its startup hook is the only one    *)
(* its process ever ran, and runs nowhere else.                            *)
StartingUp(p) == hook[p] = "startup" \/ (call[p] # None /\ call[p].kind = "startup")

NewlyStarted ==
  \A p \in Pids : StartingUp(p) =>
    /\ claude[p] # None
    /\ \A h \in held : (h[1] = p /\ h[2] = claude[p].at) \/ h[3] = claude[p].sid
                         => h = <<p, claude[p].at, claude[p].sid>>

(* What the startup hook should have seen is in its snapshot.              *)
SeenShown ==
  \A p \in Pids : call[p] # None /\ call[p].kind = "startup" =>
    /\ call[p].own = claude[p].sid /\ call[p].pid = p
    /\ \A sid \in seen[p] : call[p].snap.garbled \/ \E r \in call[p].snap.rows : r.sid = sid

IInv == BoundaryTypeOK /\ Recorded /\ CallsSound /\ FileSound

-----------------------------------------------------------------------------

(* The proof a caller finds of itself is a proof, or there is none.        *)
LEMMA OwnProofType ==
  ASSUME NEW snap \in Snapshot, NEW pid \in Pids, NEW own \in Sids
  PROVE  OwnProof(snap, pid, own) \in Opt(Proof)
<1> DEFINE Mine(r) == r \in Entries(snap) /\ r.pid = pid /\ r.sid = own
<1>1. CASE \E r \in Entries(snap) : r.pid = pid /\ r.sid = own
  <2> DEFINE e == CHOOSE r \in Entries(snap) : r.pid = pid /\ r.sid = own
  <2>1. e \in Entries(snap)
    BY <1>1
  <2>2. e.at \in 1..MaxAt
    BY <2>1 DEF Entries, Snapshot, Row
  <2>3. OwnProof(snap, pid, own) = [sid |-> own, pid |-> pid, at |-> e.at]
    BY <1>1 DEF OwnProof
  <2> QED BY <2>2, <2>3 DEF Proof, Opt
<1>2. CASE ~ \E r \in Entries(snap) : r.pid = pid /\ r.sid = own
  BY <1>2 DEF OwnProof, Opt
<1> QED BY <1>1, <1>2

LEMMA ParsedState == ASSUME NEW f \in File PROVE Parsed(f) \in State
  BY DEF Parsed, File, Blank, State, Opt

(* The hook's writes touch the boundary and its proof alone.               *)
LEMMA HookTyped ==
  ASSUME NEW r \in HookReq, NEW f \in State
  PROVE  /\ Startup(r, f).file \in State
         /\ Clear(r, f).file \in State
         /\ Resume(r, f).file \in State
<1> DEFINE mine == OwnProof(r.snap, r.pid, r.own)
           here(sha) == [sha |-> sha, sid |-> r.own]
           moved(b) == [f EXCEPT !.session = b, !.session_proof = mine]
           again == [f EXCEPT !.session_proof = mine]
<1>1. mine \in Opt(Proof)
  BY OwnProofType DEF HookReq
<1>2. \A sha \in Shas : here(sha) \in Boundary
  BY DEF HookReq, Boundary
<1>3. again \in State /\ \A b \in Boundary : moved(b) \in State
  BY <1>1 DEF State, Opt
<1>4. Startup(r, f).file \in {f, moved(here(r.head))} /\ r.head \in Shas
  BY DEF Startup, Keep, Wrote, HookReq
<1>5. \/ Clear(r, f).file = f
      \/ Clear(r, f).file = moved(here(f.session.sha)) /\ StoredSession(f) # None
  BY DEF Clear, Keep, Wrote, MayCarry
<1>6. StoredSession(f) # None => f.session.sha \in Shas
  BY DEF StoredSession, State, Opt, Boundary
<1>7. Resume(r, f).file \in {f, again}
  BY DEF Resume, Keep, Wrote
<1> HIDE DEF moved, again, here
<1> QED BY <1>2, <1>3, <1>4, <1>5, <1>6, <1>7

LEMMA SetTyped ==
  ASSUME NEW r \in SetReq, NEW f \in File
  PROVE  SetKeys(r, f).file \in File
<1> DEFINE cur == Parsed(f)
           task == IF "task" \in r.clear THEN None ELSE IF r.task # None THEN r.task ELSE cur.task
           start == IF "task" \in r.clear THEN None ELSE IF r.start # None THEN r.start ELSE cur.start
           origin == IF r.clear \cap {"task", "origin"} # {} THEN None ELSE cur.origin
           orc == IF "orc" \in r.clear THEN None ELSE IF r.orc # None THEN r.orc ELSE cur.orc
           session == IF r.session # None THEN r.session ELSE cur.session
           proof == IF r.session # None THEN r.proof ELSE cur.session_proof
           st == [cur EXCEPT !.task = task, !.start = start, !.origin = origin, !.orc = orc,
                             !.session = session, !.session_proof = proof]
<1>1. cur \in State
  BY ParsedState
<1>2. SetKeys(r, f).file = f \/ SetKeys(r, f).file = st
  BY DEF SetKeys, Keep, Wrote
<1> HIDE DEF cur
<1>3. task \in Opt(Tasks) /\ start \in Opt(Shas)
  BY <1>1 DEF State, Opt, SetReq
<1>4. origin \in Opt({"branch", "dir"}) /\ orc \in Opt(Orcs)
  BY <1>1 DEF State, Opt, SetReq
<1>5. session \in Opt(Boundary) /\ proof \in Opt(Proof)
  BY <1>1 DEF State, Opt, SetReq
<1> HIDE DEF task, start, origin, orc, session, proof
<1>6. st \in State
  BY <1>1, <1>3, <1>4, <1>5 DEF State
<1> QED BY <1>2, <1>6 DEF File

(* A command of this module leaves a well-formed file.                     *)
LEMMA DecideTyped ==
  ASSUME NEW r \in HookReq \cup SetReq, NEW f \in File
  PROVE  Decide(r, f).file \in File
<1>1. CASE f = NoFile /\ ~Creates(r)
  BY <1>1 DEF Decide, Removes, Removal, Keep, HookReq, SetReq
<1>2. CASE r \in SetReq /\ ~(f = NoFile /\ ~Creates(r))
  BY <1>2, SetTyped DEF Decide, Removes, Merged, SetReq
<1>3. CASE r \in HookReq /\ ~(f = NoFile /\ ~Creates(r))
  <2>1. f \in State /\ r.kind \in {"startup", "clear", "resume"}
    BY <1>3 DEF HookReq, Creates, File
  <2>2. Decide(r, f) \in {Startup(r, f), Clear(r, f), Resume(r, f)}
    BY <1>3, <2>1 DEF Decide, Removes, Merged
  <2> QED BY <1>3, <2>1, <2>2, HookTyped DEF File
<1> QED BY <1>1, <1>2, <1>3

LEMMA WtIsSlug == wt \in Slugs
  BY SomeSlug DEF wt

LEMMA ProcessType ==
  ASSUME NEW c \in Process, NEW p \in Pids
  PROVE  /\ RowOf(p, c) \in Row
         /\ RowOf(p, c).pid = p /\ RowOf(p, c).at = c.at /\ RowOf(p, c).sid = c.sid
  BY DEF Process, RowOf, Row, Opt

(* The initial states.                                                     *)
LEMMA InitInvariant == ASSUME Init PROVE IInv
<1>1. BoundaryTypeOK
  BY StartsUnproven, MaxAtPositive DEF Init, BoundaryTypeOK, Opt
<1>2. FileSound
  BY StartsUnproven, WtIsSlug DEF Init, FileSound, SoundProof
<1> QED BY <1>1, <1>2 DEF Init, IInv, Recorded, CallsSound

(* History only grows, and what is sound of it stays sound.                *)
LEMMA SoundGrows ==
  ASSUME held \subseteq held'
  PROVE  /\ \A rows : SoundRows(rows) => SoundRows(rows)'
         /\ \A proof : SoundProof(proof) => SoundProof(proof)'
  BY DEF SoundRows, SoundProof, Ran

(* What one read of the registry returns is a snapshot, and sound.         *)
LEMMA ReadingSound ==
  ASSUME BoundaryTypeOK, Recorded, NEW snap \in Readings
  PROVE  /\ snap \in Snapshot
         /\ SoundRows(snap.rows)
         /\ ~snap.absent
<1>1. PICK torn : snap = Registry(torn)
  BY DEF Readings
<1>2. snap.rows = {reg[p] : p \in Listed \ torn} /\ snap.absent = FALSE /\ snap.garbled \in BOOLEAN
  BY <1>1 DEF Registry
<1>3. \A p \in Listed : p \in Pids /\ reg[p] \in Row /\ reg[p] # None
  BY DEF Listed, Up, BoundaryTypeOK, Opt
<1>4. snap.rows \subseteq Row
  BY <1>2, <1>3
<1>5. SoundRows(snap.rows)
  BY <1>2, <1>3 DEF SoundRows, Recorded
<1>6. snap \in Snapshot
  BY <1>1, <1>2, <1>4 DEF Snapshot, Registry
<1> QED BY <1>2, <1>5, <1>6

(* The proof of oneself drawn from a sound snapshot is sound.              *)
LEMMA OwnProofSound ==
  ASSUME NEW snap, SoundRows(snap.rows), NEW pid, NEW own
  PROVE  SoundProof(OwnProof(snap, pid, own))
<1> DEFINE Mine(r) == r \in Entries(snap) /\ r.pid = pid /\ r.sid = own
<1>1. CASE \E r : Mine(r)
  <2> DEFINE e == CHOOSE r \in Entries(snap) : r.pid = pid /\ r.sid = own
  <2>1. e \in snap.rows /\ e.pid = pid /\ e.sid = own
    BY <1>1 DEF Entries
  <2>2. OwnProof(snap, pid, own) = [sid |-> own, pid |-> pid, at |-> e.at]
    BY <1>1 DEF OwnProof
  <2> QED BY <2>1, <2>2 DEF SoundRows, SoundProof
<1>2. CASE ~ \E r : Mine(r)
  BY <1>2 DEF OwnProof, SoundProof
<1> QED BY <1>1, <1>2

-----------------------------------------------------------------------------
(* The decisions.                                                          *)

(* A sound call leaves a sound file.                                       *)
LEMMA DecideSound ==
  ASSUME NEW r \in HookReq \cup SetReq, SoundCall(r), NEW f \in File,
         f # NoFile => SoundProof(f.session_proof)
  PROVE  /\ Decide(r, f).file \in File
         /\ Decide(r, f).file # NoFile => SoundProof(Decide(r, f).file.session_proof)
<1>1. Decide(r, f).file \in File
  BY DecideTyped
<1>2. SoundProof(OwnProof(r.snap, r.pid, r.own))
  BY OwnProofSound DEF SoundCall
<1>3. f # NoFile => f \in State
  BY DEF File
<1>4. SoundProof(Parsed(f).session_proof)
  BY DEF Parsed, Blank, SoundProof
<1>5. Parsed(f) \in State
  BY ParsedState
<1>6. CASE r.kind = "set"
  <2>1. SoundProof(r.proof) BY <1>6 DEF SoundCall
  <2>2. CASE ~(f = NoFile /\ ~Creates(r))
    <3>1. Decide(r, f) = SetKeys(r, f)
      BY <1>6, <2>2 DEF Decide, Removes, Merged
    <3>2. \/ SetKeys(r, f).file = f
          \/ SetKeys(r, f).file.session_proof \in {r.proof, Parsed(f).session_proof}
      BY <1>5 DEF SetKeys, Keep, Wrote, State
    <3> QED BY <1>1, <1>4, <2>1, <3>1, <3>2
  <2>3. CASE f = NoFile /\ ~Creates(r)
    BY <1>1, <1>6, <2>3 DEF Decide, Removes, Keep
  <2> QED BY <2>2, <2>3
<1>7. CASE r.kind # "set"
  <2>1. r \in HookReq /\ r.kind \in {"startup", "clear", "resume"}
    BY <1>7 DEF HookReq, SetReq
  <2>2. CASE f = NoFile
    BY <1>1, <2>1, <2>2 DEF Decide, Removes, Creates, Keep
  <2>3. CASE f # NoFile
    <3>1. Decide(r, f) \in {Startup(r, f), Clear(r, f), Resume(r, f)}
      BY <2>1, <2>3 DEF Decide, Removes, Merged
    <3>2. \/ Decide(r, f).file = f
          \/ Decide(r, f).file.session_proof = OwnProof(r.snap, r.pid, r.own)
      <4> DEFINE mine == OwnProof(r.snap, r.pid, r.own)
                 to(d) == d.file = f \/ d.file.session_proof = mine
      <4>1. to(Startup(r, f))
        BY <1>3, <2>3 DEF Startup, Keep, Wrote, State
      <4>2. to(Clear(r, f))
        BY <1>3, <2>3 DEF Clear, Keep, Wrote, State
      <4>3. to(Resume(r, f))
        BY <1>3, <2>3 DEF Resume, Keep, Wrote, State
      <4> QED BY <3>1, <4>1, <4>2, <4>3
    <3>3. SoundProof(f.session_proof)
      BY <2>3
    <3> DEFINE d == Decide(r, f).file
    <3>4. CASE d = f
      BY <1>1, <3>3, <3>4
    <3>5. CASE d.session_proof = OwnProof(r.snap, r.pid, r.own)
      BY <1>1, <1>2, <3>5
    <3> HIDE DEF d
    <3> QED BY <3>2, <3>4, <3>5 DEF d
  <2> QED BY <2>2, <2>3
<1> QED BY <1>6, <1>7

-----------------------------------------------------------------------------
(* The steps of the world: a process becomes something, a file catches up. *)

LEMMA BecomesKeeps ==
  ASSUME IInv, NEW p \in Pids, NEW c \in Process, Becomes(p, c),
         c.at <= clock', clock' \in 0..MaxAt, clock <= clock',
         UNCHANGED <<file, call>>
  PROVE  /\ claude' \in [Pids -> Opt(Process)]
         /\ reg' \in [Pids -> Opt(Row)]
         /\ held' \subseteq Pids \X (1..MaxAt) \X Sids
         /\ Recorded'
         /\ CallsSound'
         /\ FileSound'
<1> USE DEF IInv, BoundaryTypeOK
<1>1. claude' = [claude EXCEPT ![p] = c] /\ held' = held \cup {<<p, c.at, c.sid>>}
  BY DEF Becomes
<1>2. reg' = [reg EXCEPT ![p] = RowOf(p, c)] \/ reg' = reg
  BY DEF Becomes
<1>3. c.at \in 1..MaxAt /\ c.sid \in Sids
  BY DEF Process
<1>4. claude' \in [Pids -> Opt(Process)]
  BY <1>1 DEF Opt
<1>5. reg' \in [Pids -> Opt(Row)]
  BY <1>2, ProcessType DEF Opt
<1>6. held' \subseteq Pids \X (1..MaxAt) \X Sids
  BY <1>1, <1>3
<1>7. Recorded'
  <2>1. \A q \in Pids : claude'[q] # None => <<q, claude'[q].at, claude'[q].sid>> \in held'
    BY <1>1 DEF Recorded, Ran
  <2>2. \A q \in Pids : reg'[q] # None => reg'[q].pid = q /\ <<q, reg'[q].at, reg'[q].sid>> \in held'
    BY <1>1, <1>2, ProcessType DEF Recorded, Ran
  <2>3. \A h \in held' : h[2] <= clock'
    <3>1. \A h \in held : h[2] \in 1..MaxAt /\ h[2] <= clock
      BY DEF Recorded
    <3>2. <<p, c.at, c.sid>>[2] <= clock'
      OBVIOUS
    <3> QED BY <1>1, <3>1, <3>2, MaxAtPositive
  <2> QED BY <2>1, <2>2, <2>3 DEF Recorded, Ran
<1>8. CallsSound'
  <2>1. \A r : SoundCall(r) => SoundCall(r)'
    BY <1>1, SoundGrows DEF SoundCall
  <2> QED BY <2>1 DEF CallsSound
<1>9. FileSound'
  BY <1>1, SoundGrows DEF FileSound
<1> QED BY <1>4, <1>5, <1>6, <1>7, <1>8, <1>9

(* A new process.                                                          *)
LEMMA SpawnKeeps ==
  ASSUME IInv, NEW p \in Pids, NEW sid \in Sids, NEW job \in Opt(Jobs),
         NEW source \in {"startup", "resume"}, Spawn(p, sid, job, source)
  PROVE  IInv'
<1>1. PICK loose \in {FALSE, Garbles} :
        Becomes(p, [sid |-> sid, at |-> clock + 1, loose |-> loose, job |-> job, parked |-> None])
  BY DEF Spawn
<1> DEFINE c == [sid |-> sid, at |-> clock + 1, loose |-> loose, job |-> job, parked |-> None]
<1>2. clock' = clock + 1 /\ clock' \in 1..MaxAt
  BY MaxAtPositive DEF Spawn, IInv, BoundaryTypeOK
<1>3. c \in Process
  BY <1>2, GarblesIsBoolean DEF Process, Opt
<1>4. hook' \in [Pids -> Opt({"startup", "clear", "resume"})] /\ UNCHANGED <<file, call, seen>>
  BY DEF Spawn, IInv, BoundaryTypeOK, Opt
<1>5. c.at <= clock' /\ clock <= clock' /\ clock' \in 0..MaxAt
  BY <1>2 DEF IInv, BoundaryTypeOK
<1> HIDE DEF c
<1>6. Becomes(p, c)
  BY <1>1 DEF c
<1> QED BY <1>3, <1>4, <1>5, <1>6, BecomesKeeps DEF IInv, BoundaryTypeOK

(* The same process under another id, or parked.                           *)
LEMMA ChangeKeeps ==
  ASSUME IInv, NEW p \in Up, NEW c \in Process, c.at = claude[p].at, Becomes(p, c),
         hook' \in [Pids -> Opt({"startup", "clear", "resume"})],
         UNCHANGED <<file, call, clock, seen>>
  PROVE  IInv'
<1>1. p \in Pids /\ c.at <= clock
  BY DEF IInv, Recorded, Ran, Up
<1>2. clock' \in 0..MaxAt /\ clock <= clock'
  BY MaxAtPositive DEF IInv, BoundaryTypeOK
<1> QED BY <1>1, <1>2, BecomesKeeps DEF IInv, BoundaryTypeOK

LEMMA RemintKeeps ==
  ASSUME IInv, NEW p \in Pids, NEW sid \in Sids, NEW source \in {"clear", "resume"},
         Remint(p, sid, source)
  PROVE  IInv'
<1>1. p \in Up /\ claude[p] \in Process
  BY DEF Remint, Up, IInv, BoundaryTypeOK, Opt
<1> DEFINE c == [claude[p] EXCEPT !.sid = sid]
<1>2. c \in Process /\ c.at = claude[p].at
  BY <1>1 DEF Process
<1>3. hook' \in [Pids -> Opt({"startup", "clear", "resume"})] /\ Becomes(p, c)
      /\ UNCHANGED <<file, call, clock, seen>>
  BY DEF Remint, IInv, BoundaryTypeOK, Opt
<1> HIDE DEF c
<1> QED BY <1>1, <1>2, <1>3, ChangeKeeps

LEMMA ParkedKeeps ==
  ASSUME IInv, NEW p \in Pids, NEW job \in Jobs, Parked(p, job)
  PROVE  IInv'
<1>1. p \in Up /\ claude[p] \in Process
  BY DEF Parked, Up, IInv, BoundaryTypeOK, Opt
<1> DEFINE c == [claude[p] EXCEPT !.parked = job]
<1>2. c \in Process /\ c.at = claude[p].at
  BY <1>1 DEF Process, Opt
<1>3. hook' \in [Pids -> Opt({"startup", "clear", "resume"})] /\ Becomes(p, c)
      /\ UNCHANGED <<file, call, clock, seen>>
  BY DEF Parked, IInv, BoundaryTypeOK
<1> HIDE DEF c
<1> QED BY <1>1, <1>2, <1>3, ChangeKeeps

LEMMA PublishKeeps ==
  ASSUME IInv, NEW p \in Pids, Publish(p)
  PROVE  IInv'
<1>1. p \in Up /\ claude[p] \in Process /\ claude[p] # None
  BY DEF Publish, Up, IInv, BoundaryTypeOK, Opt
<1>2. /\ reg' = [reg EXCEPT ![p] = RowOf(p, claude[p])]
      /\ UNCHANGED <<file, call, claude, hook, clock, held, seen>>
  BY DEF Publish
<1>3. BoundaryTypeOK'
  BY <1>1, <1>2, ProcessType DEF IInv, BoundaryTypeOK, Opt
<1>4. Recorded'
  BY <1>1, <1>2, ProcessType DEF IInv, BoundaryTypeOK, Recorded, Ran
<1>5. CallsSound' /\ FileSound'
  <2>1. \A r : SoundCall(r) => SoundCall(r)'
    BY <1>2, SoundGrows DEF SoundCall
  <2> QED BY <2>1, <1>2, SoundGrows DEF IInv, CallsSound, FileSound
<1> QED BY <1>3, <1>4, <1>5 DEF IInv

LEMMA ExitKeeps ==
  ASSUME IInv, NEW p \in Pids, Exit(p)
  PROVE  IInv'
<1>1. /\ claude' = [claude EXCEPT ![p] = None]
      /\ reg' = [reg EXCEPT ![p] = None] \/ reg' = reg
      /\ hook' = [hook EXCEPT ![p] = None]
      /\ call' = [call EXCEPT ![p] = None]
      /\ seen' = [seen EXCEPT ![p] = {}]
      /\ UNCHANGED <<file, clock, held>>
  BY DEF Exit
<1>2. BoundaryTypeOK'
  BY <1>1 DEF IInv, BoundaryTypeOK, Opt
<1>3. Recorded'
  BY <1>1 DEF IInv, BoundaryTypeOK, Recorded, Ran
<1>4. CallsSound' /\ FileSound'
  <2>1. \A r : SoundCall(r) => SoundCall(r)'
    BY <1>1, SoundGrows DEF SoundCall
  <2> QED BY <2>1, <1>1, SoundGrows DEF IInv, BoundaryTypeOK, CallsSound, FileSound
<1> QED BY <1>2, <1>3, <1>4 DEF IInv

-----------------------------------------------------------------------------
(* The commands.                                                           *)

(* A command that has read the registry.                                   *)
LEMMA CallKeeps ==
  ASSUME IInv, NEW p \in Pids, NEW r \in HookReq \cup SetReq, SoundCall(r), Call(p, r),
         hook' \in [Pids -> Opt({"startup", "clear", "resume"})],
         UNCHANGED <<file, claude, reg, clock, held>>
  PROVE  IInv'
<1>1. call' = [call EXCEPT ![p] = r]
  BY DEF Call
<1>2. Visible \subseteq Sids
  BY DEF Visible, Up, IInv, BoundaryTypeOK, Opt, Process
<1>3. seen' \in [Pids -> SUBSET Sids]
  BY <1>2 DEF Call, IInv, BoundaryTypeOK
<1>4. BoundaryTypeOK'
  BY <1>1, <1>3 DEF IInv, BoundaryTypeOK, Opt
<1>5. \A q : SoundCall(q) => SoundCall(q)'
  BY SoundGrows DEF SoundCall
<1>6. CallsSound' /\ FileSound'
  BY <1>1, <1>5, SoundGrows DEF IInv, BoundaryTypeOK, CallsSound, FileSound
<1>7. Recorded'
  BY DEF IInv, Recorded, Ran
<1> QED BY <1>4, <1>6, <1>7 DEF IInv

LEMMA RunHookKeeps ==
  ASSUME IInv, NEW p \in Pids, NEW head \in Shas, RunHook(p, head)
  PROVE  IInv'
<1>1. PICK snap \in Readings :
        Call(p, [kind |-> hook[p], slug |-> wt, own |-> claude[p].sid, pid |-> p,
                 head |-> head, snap |-> snap])
  BY DEF RunHook
<1> DEFINE r == [kind |-> hook[p], slug |-> wt, own |-> claude[p].sid, pid |-> p,
                 head |-> head, snap |-> snap]
<1>2. hook[p] \in {"startup", "clear", "resume"} /\ claude[p].sid \in Sids
  BY DEF RunHook, Up, IInv, BoundaryTypeOK, Opt, Process
<1>3. snap \in Snapshot /\ SoundRows(snap.rows) /\ ~snap.absent
  BY ReadingSound DEF IInv
<1>4. r \in HookReq
  BY <1>2, <1>3, WtIsSlug DEF HookReq
<1>5. SoundCall(r)
  BY <1>2, <1>3 DEF SoundCall
<1>6. hook' \in [Pids -> Opt({"startup", "clear", "resume"})]
  BY DEF RunHook, IInv, BoundaryTypeOK, Opt
<1>7. UNCHANGED <<file, claude, reg, clock, held>>
  BY DEF RunHook
<1> HIDE DEF r
<1>8. Call(p, r)
  BY <1>1 DEF r
<1> QED BY <1>4, <1>5, <1>6, <1>7, <1>8, CallKeeps

LEMMA StartTaskKeeps ==
  ASSUME IInv, NEW p \in Pids, NEW head \in Shas, StartTask(p, head)
  PROVE  IInv'
<1> DEFINE request(snap) ==
      [kind |-> "set", slug |-> wt, create |-> TRUE, task |-> None, start |-> None,
       orc |-> None, clear |-> {}, snap |-> snap,
       session |-> [sha |-> head, sid |-> claude[p].sid],
       proof |-> OwnProof(snap, p, claude[p].sid)]
<1>1. PICK snap \in Readings : Call(p, request(snap))
  BY DEF StartTask
<1>2. claude[p].sid \in Sids
  BY DEF StartTask, Up, IInv, BoundaryTypeOK, Opt, Process
<1>3. snap \in Snapshot /\ SoundRows(snap.rows) /\ ~snap.absent
  BY ReadingSound DEF IInv
<1>4. OwnProof(snap, p, claude[p].sid) \in Opt(Proof)
  BY <1>2, <1>3, OwnProofType
<1>5. request(snap) \in SetReq
  BY <1>2, <1>3, <1>4, WtIsSlug DEF SetReq, Opt, Boundary
<1>6. SoundCall(request(snap))
  BY <1>3, OwnProofSound DEF SoundCall
<1>7. hook' \in [Pids -> Opt({"startup", "clear", "resume"})] /\ UNCHANGED <<file, claude, reg, clock, held>>
  BY DEF StartTask, worldVars, IInv, BoundaryTypeOK
<1> HIDE DEF request
<1> QED BY <1>1, <1>5, <1>6, <1>7, CallKeeps

(* A command takes effect, or is refused.                                  *)
LEMMA ReturnKeeps ==
  ASSUME IInv, NEW p \in Pids, Return(p), UNCHANGED worldVars,
         file' \in [Slugs -> File], FileSound'
  PROVE  IInv'
<1>1. call' = [call EXCEPT ![p] = None] /\ seen' = [seen EXCEPT ![p] = {}]
      /\ UNCHANGED <<claude, reg, hook, clock, held>>
  BY DEF Return, worldVars
<1>2. BoundaryTypeOK'
  BY <1>1 DEF IInv, BoundaryTypeOK, Opt
<1>3. \A q : SoundCall(q) => SoundCall(q)'
  BY <1>1, SoundGrows DEF SoundCall
<1>4. CallsSound'
  BY <1>1, <1>3 DEF IInv, BoundaryTypeOK, CallsSound
<1>5. Recorded'
  BY <1>1 DEF IInv, Recorded, Ran
<1> QED BY <1>2, <1>4, <1>5 DEF IInv

LEMMA ServedKeeps ==
  ASSUME IInv, NEW p \in Pids, Served(p)
  PROVE  IInv'
<1>1. call[p] \in HookReq \cup SetReq /\ SoundCall(call[p])
  BY DEF Served, IInv, BoundaryTypeOK, Opt, CallsSound
<1>2. file[wt] \in File /\ (file[wt] # NoFile => SoundProof(file[wt].session_proof))
  BY WtIsSlug DEF IInv, BoundaryTypeOK, FileSound
<1> DEFINE new == Decide(call[p], file[wt]).file
<1>3. new \in File /\ (new # NoFile => SoundProof(new.session_proof))
  BY <1>1, <1>2, DecideSound
<1>4. file' = [file EXCEPT ![wt] = new] /\ Return(p) /\ UNCHANGED worldVars
  BY DEF Served
<1> HIDE DEF new
<1>5. file' \in [Slugs -> File] /\ file'[wt] = new
  BY <1>3, <1>4, WtIsSlug DEF IInv, BoundaryTypeOK
<1>6. FileSound'
  <2>1. \A proof : SoundProof(proof) => SoundProof(proof)'
    BY <1>4, SoundGrows DEF worldVars
  <2> QED BY <1>3, <1>5, <2>1 DEF FileSound
<1> QED BY <1>4, <1>5, <1>6, ReturnKeeps

LEMMA RefusedKeeps ==
  ASSUME IInv, NEW p \in Pids, Refused(p)
  PROVE  IInv'
<1>1. Return(p) /\ UNCHANGED <<file, worldVars>>
  BY DEF Refused
<1>2. FileSound'
  BY <1>1, SoundGrows DEF IInv, FileSound, worldVars
<1> QED BY <1>1, <1>2, ReturnKeeps DEF IInv, BoundaryTypeOK

-----------------------------------------------------------------------------

LEMMA StepKeeps == ASSUME IInv, [Next]_vars PROVE IInv'
<1>1. CASE UNCHANGED vars
  <2>1. \A q : SoundCall(q) => SoundCall(q)'
    BY <1>1, SoundGrows DEF SoundCall, vars
  <2> QED BY <1>1, <2>1, SoundGrows
      DEF vars, IInv, BoundaryTypeOK, Recorded, Ran, CallsSound, FileSound
<1>2. ASSUME NEW p \in Pids, NEW sid \in Sids,
             Launch(p, sid) \/ Resumed(p, sid) \/ \E job \in Jobs : Continued(p, sid, job)
      PROVE  IInv'
  BY <1>2, SpawnKeeps DEF Launch, Resumed, Continued, Opt
<1>3. ASSUME NEW p \in Pids, NEW sid \in Sids, Cleared(p, sid) \/ Reopened(p, sid)
      PROVE  IInv'
  BY <1>3, RemintKeeps DEF Cleared, Reopened
<1>4. ASSUME NEW p \in Pids, \E head \in Shas : RunHook(p, head) \/ StartTask(p, head)
      PROVE  IInv'
  BY <1>4, RunHookKeeps, StartTaskKeeps
<1> QED BY <1>1, <1>2, <1>3, <1>4, ParkedKeeps, PublishKeeps, ExitKeeps, ServedKeeps,
           RefusedKeeps DEF Next, Proceeds

(* Whatever the registry shows, wherever files lag, pids are reused and    *)
(* ids shared, the history behind every row, proof and command is true.    *)
THEOREM Invariance == Spec => []IInv
<1>1. Init => IInv
  BY InitInvariant
<1>2. IInv /\ [Next]_vars => IInv'
  BY StepKeeps
<1> QED BY <1>1, <1>2, PTL DEF Spec

(* Files, commands, processes, registry and history keep their types.      *)
THEOREM BoundaryTyped == Spec => []BoundaryTypeOK
<1>1. IInv => BoundaryTypeOK
  BY DEF IInv
<1> QED BY <1>1, Invariance, PTL

LEMMA BoundProof ==
  ASSUME IInv, file[wt] # NoFile, StoredProof(file[wt]) # None
  PROVE  /\ SoundProof(StoredProof(file[wt]))
         /\ StoredProof(file[wt]).sid = StoredSession(file[wt])
  BY DEF StoredProof, StoredSession, IInv, FileSound

(* A proof that binds names a process that ran the recorded session.       *)
THEOREM ProofIsTrue == Spec => []ProofTruthful
<1>1. IInv => ProofTruthful
  BY BoundProof DEF ProofTruthful, SoundProof, Ran
<1> QED BY <1>1, Invariance, PTL

-----------------------------------------------------------------------------
(* Only a command's instant changes the file, and it answers the command.  *)
LEMMA WritesServed ==
  ASSUME IInv, [Next]_vars, NEW p \in Pids, NEW kinds, Writes(p, kinds)
  PROVE  /\ Served(p)
         /\ call[p].kind \in kinds
         /\ file'[wt] # file[wt]
<1>1. \E q \in Pids : Served(q)
  BY DEF Writes, Next, Proceeds, vars, worldVars, Launch, Resumed, Cleared, Reopened, Continued,
         Parked, Publish, Exit, RunHook, StartTask, Refused, Spawn, Remint
<1>2. PICK q \in Pids : Served(q)
  BY <1>1
<1>3. call' = [call EXCEPT ![q] = None] /\ file' = [file EXCEPT ![wt] = Decide(call[q], file[wt]).file]
  BY <1>2 DEF Served, Return
<1>4. p = q
  BY <1>3 DEF Writes, IInv, BoundaryTypeOK
<1>5. file'[wt] # file[wt]
  BY <1>3, WtIsSlug DEF Writes, IInv, BoundaryTypeOK
<1> QED BY <1>2, <1>4, <1>5 DEF Writes

(* The carry's write: the guard said ok, the new owner is the caller.      *)
LEMMA ClearWrites ==
  ASSUME IInv, NEW p \in Pids, Served(p), call[p].kind = "clear", file'[wt] # file[wt]
  PROVE  LET r == call[p] f == file[wt]
         IN /\ f # NoFile /\ StoredSession(f) \notin {r.own, None}
            /\ RotatedTo(r.snap, StoredSession(f), r.own, StoredProof(f)) = r.own
            /\ Owner(f) = StoredSession(f) /\ Owner(file'[wt]) = r.own
<1> DEFINE r == call[p]
           f == file[wt]
<1>1. r \in HookReq
  BY DEF Served, IInv, BoundaryTypeOK, Opt, HookReq, SetReq
<1>2. file'[wt] = Decide(r, f).file
  BY WtIsSlug DEF Served, IInv, BoundaryTypeOK
<1>3. f # NoFile /\ file'[wt] = Clear(r, f).file
  BY <1>1, <1>2 DEF Decide, Removes, Creates, Merged, Keep
<1>4. f \in State
  BY <1>3, WtIsSlug DEF IInv, BoundaryTypeOK, File
<1>5. MayCarry(StoredSession(f), StoredProof(f), r.own, r.snap) = "ok"
  BY <1>3 DEF Clear, Keep
<1>6. StoredSession(f) \notin {r.own, None}
      /\ RotatedTo(r.snap, StoredSession(f), r.own, StoredProof(f)) = r.own
  BY <1>5 DEF MayCarry
<1>7. file'[wt].session.sid = r.own /\ file'[wt].session # None /\ file'[wt] # NoFile
  <2> DEFINE st == [f EXCEPT !.session = [sha |-> f.session.sha, sid |-> r.own],
                             !.session_proof = OwnProof(r.snap, r.pid, r.own)]
  <2>1. file'[wt] = st
    BY <1>3, <1>5 DEF Clear, Wrote
  <2>2. st.session = [sha |-> f.session.sha, sid |-> r.own]
    BY <1>4 DEF State
  <2>3. f.session \in Boundary
    BY <1>4, <1>6 DEF StoredSession, State, Opt
  <2>4. st.session \in Boundary
    BY <1>1, <2>2, <2>3 DEF Boundary, HookReq
  <2>5. st \in State
    <3>1. OwnProof(r.snap, r.pid, r.own) \in Opt(Proof)
      BY <1>1, OwnProofType DEF HookReq
    <3> QED BY <1>4, <2>2, <2>4, <3>1 DEF State, Opt
  <2> QED BY <2>1, <2>2, <2>4, <2>5, AbsenceIsNoValue
<1> QED BY <1>3, <1>6, <1>7 DEF Owner, StoredSession

(* A rotation is an identity: the proof's process ran both ids.            *)
LEMMA RotationSound ==
  ASSUME NEW snap, SoundRows(snap.rows), NEW sid, NEW own \in Sids, NEW proof,
         proof # None => SoundProof(proof) /\ proof.sid = sid,
         RotatedTo(snap, sid, own, proof) = own, ~ContinuedIn(snap, sid, own)
  PROVE  proof # None /\ Ran(proof.pid, proof.at, sid) /\ Ran(proof.pid, proof.at, own)
<1> DEFINE e == CHOOSE r \in Entries(snap) : r.pid = proof.pid
<1>1. proof # None /\ SameProcess(snap, proof) /\ e.sid = own
  BY AbsenceIsNoValue DEF RotatedTo
<1>2. PICK q \in Entries(snap) : q.pid = proof.pid /\ q.at = proof.at
  BY <1>1 DEF SameProcess
<1>3. e \in Entries(snap) /\ e.pid = proof.pid
  BY <1>2
<1>4. e = q
  BY <1>2, <1>3 DEF Entries, SoundRows
<1>5. Ran(proof.pid, proof.at, own)
  BY <1>1, <1>2, <1>4 DEF Entries, SoundRows
<1> QED BY <1>1, <1>5 DEF SoundProof

(* /clear moves the boundary only within one process, or into a job.       *)
THEOREM CarryProven == Spec => CarryIsProven
<1> DEFINE Identity(p) ==
      Writes(p, {"clear"}) =>
        LET old == Owner(file[wt])
            new == Owner(file'[wt])
        IN \/ \E q \in Pids, at \in 1..MaxAt : {<<q, at, old>>, <<q, at, new>>} \subseteq held
           \/ ContinuedIn(call[p].snap, old, new)
<1>1. ASSUME IInv, [Next]_vars, NEW p \in Pids, Writes(p, {"clear"})
      PROVE  Identity(p)
  <2>1. Served(p) /\ call[p].kind = "clear" /\ file'[wt] # file[wt]
    BY <1>1, WritesServed
  <2> DEFINE old == StoredSession(file[wt])
             own == call[p].own
             proof == StoredProof(file[wt])
             snap == call[p].snap
  <2>2. /\ file[wt] # NoFile /\ RotatedTo(snap, old, own, proof) = own
        /\ Owner(file[wt]) = old /\ Owner(file'[wt]) = own
    BY <1>1, <2>1, ClearWrites
  <2>3. SoundRows(snap.rows) /\ own \in Sids
    BY <1>1, <2>1 DEF Served, IInv, CallsSound, SoundCall, BoundaryTypeOK, Opt, HookReq, SetReq
  <2>4. proof # None => SoundProof(proof) /\ proof.sid = old
    BY <1>1, <2>2, BoundProof
  <2> HIDE DEF old, own, proof, snap
  <2>5. CASE ContinuedIn(snap, old, own)
    BY <2>2, <2>5 DEF snap
  <2>6. CASE ~ContinuedIn(snap, old, own)
    <3>1. Ran(proof.pid, proof.at, old) /\ Ran(proof.pid, proof.at, own)
      BY <2>2, <2>3, <2>4, <2>6, RotationSound
    <3>2. proof.pid \in Pids /\ proof.at \in 1..MaxAt
      BY <1>1, <3>1 DEF IInv, BoundaryTypeOK, Ran
    <3> QED BY <2>2, <3>1, <3>2 DEF Ran
  <2> QED BY <2>5, <2>6
<1>2. ASSUME IInv, [Next]_vars PROVE \A p \in Pids : Identity(p)
  BY <1>1, <1>2
<1>3. IInv /\ [Next]_vars => [\A p \in Pids : Identity(p)]_vars
  BY <1>2
<1> QED BY <1>3, Invariance, PTL DEF Spec, CarryIsProven

-----------------------------------------------------------------------------
(* Sessions that were listed keep their boundary.                          *)

(* The invariant for ListedBoundaryHeld, where ids are not shared.         *)
NewInv == IInv /\ NewlyStarted /\ SeenShown

(* Who starts up is up, under an id that is in use.                        *)
LEMMA StartingIsUp ==
  ASSUME NewInv, NEW q \in Pids, StartingUp(q)
  PROVE  /\ claude[q] # None
         /\ claude[q].sid \in Used
         /\ q \in Running(claude[q].sid)
<1>1. claude[q] # None
  BY DEF NewInv, NewlyStarted
<1>2. <<q, claude[q].at, claude[q].sid>> \in held
  BY <1>1 DEF NewInv, IInv, Recorded, Ran
<1>3. claude[q].sid \in Used
  BY <1>2 DEF Used
<1> QED BY <1>1, <1>3 DEF Running, Up

LEMMA LaunchNew ==
  ASSUME NewInv, NEW p \in Pids, NEW sid \in Sids, NEW job \in Opt(Jobs),
         NEW source \in {"startup", "resume"}, Spawn(p, sid, job, source),
         source = "startup" \/ Running(sid) = {},
         source = "startup" => sid \notin Used
  PROVE  NewlyStarted' /\ SeenShown'
<1>1. PICK c \in Process : Becomes(p, c) /\ c.at = clock + 1 /\ c.sid = sid
  <2>1. PICK loose \in {FALSE, Garbles} :
          Becomes(p, [sid |-> sid, at |-> clock + 1, loose |-> loose, job |-> job, parked |-> None])
    BY DEF Spawn
  <2>2. clock + 1 \in 1..MaxAt
    BY MaxAtPositive DEF Spawn, NewInv, IInv, BoundaryTypeOK
  <2>3. [sid |-> sid, at |-> clock + 1, loose |-> loose, job |-> job, parked |-> None] \in Process
    BY <2>2, GarblesIsBoolean DEF Process, Opt
  <2> QED BY <2>1, <2>3
<1>2. /\ claude' = [claude EXCEPT ![p] = c] /\ held' = held \cup {<<p, clock + 1, sid>>}
      /\ hook' = [hook EXCEPT ![p] = source] /\ call' = call /\ seen' = seen
      /\ call[p] = None /\ hook[p] = None /\ claude[p] = None
  BY <1>1 DEF Becomes, Spawn, Idle
<1>3. \A h \in held : h[2] # clock + 1 /\ (source = "startup" => h[3] # sid)
  <2>1. \A h \in held : h[2] \in Nat /\ h[2] <= clock /\ clock \in Nat
    BY MaxAtPositive DEF NewInv, IInv, BoundaryTypeOK, Recorded
  <2> QED BY <2>1 DEF Used
<1>4. NewlyStarted'
  <2>1. ASSUME NEW q \in Pids, StartingUp(q)'
        PROVE  /\ claude'[q] # None
               /\ \A h \in held' : (h[1] = q /\ h[2] = claude'[q].at) \/ h[3] = claude'[q].sid
                                    => h = <<q, claude'[q].at, claude'[q].sid>>
    <3>1. CASE q = p
      <4>1. claude'[p] = c /\ source = "startup"
        BY <1>2, <2>1, <3>1 DEF StartingUp, NewInv, IInv, BoundaryTypeOK
      <4> QED BY <1>1, <1>2, <1>3, <3>1, <4>1, AbsenceIsNoValue
    <3>2. CASE q # p
      <4>1. StartingUp(q) /\ claude'[q] = claude[q]
        BY <1>2, <2>1, <3>2 DEF StartingUp, NewInv, IInv, BoundaryTypeOK
      <4>2. claude[q] # None /\ claude[q].sid \in Used /\ q \in Running(claude[q].sid)
        BY <4>1, StartingIsUp
      <4>3. claude[q].sid # sid
        BY <4>2
      <4> QED BY <1>2, <3>2, <4>1, <4>2, <4>3 DEF NewInv, NewlyStarted
    <3> QED BY <3>1, <3>2
  <2> QED BY <2>1 DEF NewlyStarted
<1>5. SeenShown'
  BY <1>2 DEF SeenShown, NewInv, IInv, BoundaryTypeOK
<1> QED BY <1>4, <1>5

(* Another id, or the mark of a job, in a process that waits for nothing.  *)
LEMMA ChangeNew ==
  ASSUME NewInv, NEW p \in Up, NEW c \in Process, Becomes(p, c), Idle(p),
         NEW source \in {None, "clear", "resume"}, hook' = [hook EXCEPT ![p] = source],
         c.at = claude[p].at,
         c.sid \notin Used \/ Running(c.sid) = {} \/ c.sid = claude[p].sid,
         UNCHANGED <<call, seen>>
  PROVE  NewlyStarted' /\ SeenShown'
<1>1. /\ claude' = [claude EXCEPT ![p] = c] /\ held' = held \cup {<<p, c.at, c.sid>>}
      /\ call' = call /\ seen' = seen /\ call[p] = None /\ p \in Pids
  BY DEF Becomes, Idle, Up
<1>2. ~StartingUp(p)'
  BY <1>1, AbsenceIsNoValue DEF StartingUp, NewInv, IInv, BoundaryTypeOK
<1>3. ASSUME NEW q \in Pids, q # p, StartingUp(q)'
      PROVE  /\ claude'[q] # None
             /\ \A h \in held' : (h[1] = q /\ h[2] = claude'[q].at) \/ h[3] = claude'[q].sid
                                  => h = <<q, claude'[q].at, claude'[q].sid>>
  <2>1. StartingUp(q) /\ claude'[q] = claude[q]
    BY <1>1, <1>3 DEF StartingUp, NewInv, IInv, BoundaryTypeOK
  <2>2. claude[q] # None /\ claude[q].sid \in Used /\ q \in Running(claude[q].sid)
    BY <2>1, StartingIsUp
  <2>3. c.sid # claude[q].sid \/ <<p, c.at, c.sid>> \in held
    BY <2>2 DEF NewInv, IInv, Recorded, Ran, Up
  <2> QED BY <1>1, <1>3, <2>1, <2>2, <2>3 DEF NewInv, NewlyStarted
<1>4. NewlyStarted'
  BY <1>2, <1>3 DEF NewlyStarted
<1>5. SeenShown'
  BY <1>1 DEF SeenShown, NewInv, IInv, BoundaryTypeOK
<1> QED BY <1>4, <1>5

(* What a reading of this moment shows of the sessions that are visible.   *)
LEMMA VisibleShown ==
  ASSUME BoundaryTypeOK, NEW snap \in Readings, NEW sid \in Visible
  PROVE  snap.garbled \/ \E r \in snap.rows : r.sid = sid
<1>1. PICK torn : snap = Registry(torn)
  BY DEF Readings
<1>2. PICK p \in Listed : reg[p].sid = sid
  BY DEF Visible, Listed
<1> QED BY <1>1, <1>2 DEF Registry

LEMMA HookNew ==
  ASSUME NewInv, NEW p \in Pids, NEW head \in Shas, RunHook(p, head)
  PROVE  NewlyStarted' /\ SeenShown'
<1>1. PICK snap \in Readings :
        Call(p, [kind |-> hook[p], slug |-> wt, own |-> claude[p].sid, pid |-> p,
                 head |-> head, snap |-> snap])
  BY DEF RunHook
<1> DEFINE r == [kind |-> hook[p], slug |-> wt, own |-> claude[p].sid, pid |-> p,
                 head |-> head, snap |-> snap]
<1>2. /\ call' = [call EXCEPT ![p] = r] /\ UNCHANGED <<claude, held>>
      /\ seen' = [seen EXCEPT ![p] = IF r.kind = "startup" THEN Visible ELSE {}]
      /\ hook' = [hook EXCEPT ![p] = None]
  BY <1>1 DEF Call, RunHook
<1>3. /\ r.kind = hook[p] /\ r.own = claude[p].sid /\ r.pid = p /\ r.snap = snap
  OBVIOUS
<1> HIDE DEF r
<1>4. \A q \in Pids : StartingUp(q)' => StartingUp(q)
  BY <1>2, <1>3, AbsenceIsNoValue DEF StartingUp, NewInv, IInv, BoundaryTypeOK
<1>5. NewlyStarted'
  BY <1>2, <1>4 DEF NewInv, NewlyStarted
<1>6. \A sid \in Visible : snap.garbled \/ \E row \in snap.rows : row.sid = sid
  BY VisibleShown DEF NewInv, IInv
<1>7. SeenShown'
  BY <1>2, <1>3, <1>6 DEF SeenShown, NewInv, IInv, BoundaryTypeOK
<1> QED BY <1>5, <1>7

LEMMA StartTaskNew ==
  ASSUME NewInv, NEW p \in Pids, NEW head \in Shas, StartTask(p, head)
  PROVE  NewlyStarted' /\ SeenShown'
<1>1. PICK r : Call(p, r) /\ r.kind = "set"
  BY DEF StartTask
<1>2. call' = [call EXCEPT ![p] = r] /\ seen' = [seen EXCEPT ![p] = {}]
      /\ UNCHANGED <<claude, hook, held>>
  BY <1>1 DEF Call, StartTask, worldVars
<1>3. \A q \in Pids : StartingUp(q)' => StartingUp(q)
  BY <1>1, <1>2 DEF StartingUp, NewInv, IInv, BoundaryTypeOK
<1>4. NewlyStarted'
  BY <1>2, <1>3 DEF NewInv, NewlyStarted
<1>5. SeenShown'
  BY <1>1, <1>2 DEF SeenShown, NewInv, IInv, BoundaryTypeOK
<1> QED BY <1>4, <1>5

(* A command ends, or its process does.                                    *)
LEMMA EndNew ==
  ASSUME NewInv, NEW p \in Pids,
         call' = [call EXCEPT ![p] = None], seen' = [seen EXCEPT ![p] = {}],
         \/ UNCHANGED <<claude, hook>>
         \/ claude' = [claude EXCEPT ![p] = None] /\ hook' = [hook EXCEPT ![p] = None],
         UNCHANGED held
  PROVE  NewlyStarted' /\ SeenShown'
<1>1. \A q \in Pids : StartingUp(q)' => StartingUp(q) /\ claude'[q] = claude[q]
  BY AbsenceIsNoValue DEF StartingUp, NewInv, IInv, BoundaryTypeOK
<1>2. NewlyStarted'
  BY <1>1 DEF NewInv, NewlyStarted
<1>3. SeenShown'
  BY DEF SeenShown, NewInv, IInv, BoundaryTypeOK
<1> QED BY <1>2, <1>3

LEMMA StepNew ==
  ASSUME ~Shares, NewInv, [Next]_vars
  PROVE  NewInv'
<1> USE DEF NewInv
<1>1. IInv'
  BY StepKeeps
<1>2. CASE UNCHANGED vars
  BY <1>1, <1>2 DEF vars, NewlyStarted, SeenShown, StartingUp
<1>3. ASSUME NEW p \in Pids, NEW sid \in Sids,
             Launch(p, sid) \/ Resumed(p, sid) \/ \E job \in Jobs : Continued(p, sid, job)
      PROVE  NewlyStarted' /\ SeenShown'
  BY <1>3, LaunchNew DEF Launch, Resumed, Continued, Opt
<1>4. ASSUME NEW p \in Pids, NEW sid \in Sids, Cleared(p, sid) \/ Reopened(p, sid)
      PROVE  NewlyStarted' /\ SeenShown'
  <2>1. PICK source \in {"clear", "resume"} : Remint(p, sid, source)
    BY <1>4 DEF Cleared, Reopened
  <2>2. p \in Up /\ claude[p] \in Process
    BY <2>1 DEF Remint, Up, IInv, BoundaryTypeOK, Opt
  <2> DEFINE c == [claude[p] EXCEPT !.sid = sid]
  <2>3. c \in Process /\ c.at = claude[p].at /\ c.sid = sid
    BY <2>2 DEF Process
  <2>4. Becomes(p, c) /\ Idle(p) /\ hook' = [hook EXCEPT ![p] = source] /\ UNCHANGED <<call, seen>>
    BY <2>1 DEF Remint
  <2> HIDE DEF c
  <2> QED BY <1>4, <2>2, <2>3, <2>4, ChangeNew DEF Cleared, Reopened
<1>5. ASSUME NEW p \in Pids, NEW job \in Jobs, Parked(p, job)
      PROVE  NewlyStarted' /\ SeenShown'
  <2>1. p \in Up /\ claude[p] \in Process
    BY <1>5 DEF Parked, Up, IInv, BoundaryTypeOK, Opt
  <2> DEFINE c == [claude[p] EXCEPT !.parked = job]
  <2>2. c \in Process /\ c.at = claude[p].at /\ c.sid = claude[p].sid
    BY <2>1 DEF Process, Opt
  <2>3. hook' = [hook EXCEPT ![p] = None]
    BY <1>5 DEF Parked, Idle, IInv, BoundaryTypeOK
  <2>4. Becomes(p, c) /\ Idle(p) /\ UNCHANGED <<call, seen>>
    BY <1>5 DEF Parked
  <2> HIDE DEF c
  <2> QED BY <2>1, <2>2, <2>3, <2>4, ChangeNew
<1>6. ASSUME NEW p \in Pids, Publish(p)
      PROVE  NewlyStarted' /\ SeenShown'
  BY <1>6 DEF Publish, NewlyStarted, SeenShown, StartingUp
<1>7. ASSUME NEW p \in Pids, Exit(p) \/ Served(p) \/ Refused(p)
      PROVE  NewlyStarted' /\ SeenShown'
  BY <1>7, EndNew DEF Exit, Served, Refused, Return, worldVars
<1>8. ASSUME NEW p \in Pids, \E head \in Shas : RunHook(p, head) \/ StartTask(p, head)
      PROVE  NewlyStarted' /\ SeenShown'
  BY <1>8, HookNew, StartTaskNew
<1> QED BY <1>1, <1>2, <1>3, <1>4, <1>5, <1>6, <1>7, <1>8 DEF Next, Proceeds

(* The first write of a new session, over a session that its snapshot      *)
(* shows: only a background job's own parent is written over.              *)
LEMMA StartupWrites ==
  ASSUME NewInv, NEW p \in Pids, Served(p), call[p].kind = "startup", file'[wt] # file[wt],
         Owner(file[wt]) \in seen[p]
  PROVE  ContinuedIn(call[p].snap, Owner(file[wt]), call[p].own)
<1> DEFINE r == call[p]
           f == file[wt]
           old == StoredSession(f)
           proof == StoredProof(f)
<1>1. r \in HookReq /\ seen[p] \subseteq Sids /\ SoundCall(r)
  BY DEF Served, NewInv, IInv, BoundaryTypeOK, CallsSound, Opt, HookReq, SetReq
<1>2. Decide(r, f).file # f
  BY WtIsSlug DEF Served, NewInv, IInv, BoundaryTypeOK
<1>3. f # NoFile /\ Startup(r, f).file # f
  BY <1>1, <1>2 DEF Decide, Removes, Creates, Merged, Keep
<1>4. old = Owner(f) /\ old \in Sids
  BY <1>1, <1>3 DEF Owner
<1>5. MayRefresh(old, proof, r.own, r.snap) = "ok"
  BY <1>3 DEF Startup, Keep
<1>6. r.snap.garbled \/ \E row \in r.snap.rows : row.sid = old
  BY <1>4 DEF Served, NewInv, SeenShown
<1>7. SessionLiveness(r.snap, old) # "dead"
  BY <1>6 DEF SessionLiveness
<1>8. old # r.own /\ RotatedTo(r.snap, old, r.own, proof) = r.own
  BY <1>1, <1>4, <1>5, <1>7, AbsenceIsNoValue DEF MayRefresh, SoundCall
<1>9. SUFFICES ASSUME ~ContinuedIn(r.snap, old, r.own) PROVE FALSE
  BY <1>4
<1>10. proof # None => SoundProof(proof) /\ proof.sid = old
  BY <1>3, BoundProof DEF NewInv
<1>11. SoundRows(r.snap.rows) /\ r.own \in Sids
  BY <1>1 DEF SoundCall, HookReq
<1> HIDE DEF old, proof, f
<1>12. Ran(proof.pid, proof.at, old) /\ Ran(proof.pid, proof.at, r.own)
  BY <1>8, <1>9, <1>10, <1>11, RotationSound
<1>13. /\ r.own = claude[p].sid
       /\ \A h \in held : (h[1] = p /\ h[2] = claude[p].at) \/ h[3] = claude[p].sid
                           => h = <<p, claude[p].at, claude[p].sid>>
  BY DEF Served, NewInv, SeenShown, NewlyStarted, StartingUp
<1>14. proof.pid = p /\ proof.at = claude[p].at
  BY <1>12, <1>13 DEF Ran
<1>15. old = claude[p].sid
  BY <1>12, <1>13, <1>14 DEF Ran
<1> QED BY <1>8, <1>13, <1>15

(* With no session id in two processes at once, a new session never takes  *)
(* the boundary of a session it could see when its hook looked: not with   *)
(* late, stale or unreadable registry files, nor with reused pids.         *)
THEOREM ListedHeld == ASSUME ~Shares PROVE Spec => ListedBoundaryHeld
<1> DEFINE Held(p) ==
      Writes(p, {"startup"}) =>
        LET old == Owner(file[wt])
        IN old \in seen[p] => ContinuedIn(call[p].snap, old, call[p].own)
<1>1. Init => NewInv
  <2> SUFFICES ASSUME Init PROVE NewInv
    OBVIOUS
  <2>1. \A p \in Pids : hook[p] # "startup" /\ call[p] = None
    BY AbsenceIsNoValue DEF Init
  <2>2. NewlyStarted
    BY <2>1 DEF NewlyStarted, StartingUp
  <2>3. SeenShown
    BY <2>1 DEF SeenShown
  <2> QED BY <2>2, <2>3, InitInvariant DEF NewInv
<1>2. NewInv /\ [Next]_vars => NewInv'
  BY StepNew
<1>3. ASSUME NewInv, [Next]_vars PROVE \A p \in Pids : Held(p)
  BY <1>3, WritesServed, StartupWrites DEF NewInv
<1>4. NewInv /\ [Next]_vars => [\A p \in Pids : Held(p)]_vars
  BY <1>3
<1> QED BY <1>1, <1>2, <1>4, PTL DEF Spec, ListedBoundaryHeld

-----------------------------------------------------------------------------
(* A chat keeps its boundary across /clear.                                *)

(* The session a command acts for.                                         *)
Caller(r) == IF r.kind = "set" THEN r.session.sid ELSE r.own

(* The proof that p itself ran sid.                                        *)
ProofOf(p, sid) == [sid |-> sid, pid |-> p, at |-> claude[p].at]

Resuming(p) == hook[p] = "resume" \/ (call[p] # None /\ call[p].kind = "resume")

(* The registry is prompt: it says what runs.                              *)
Mirrored ==
  \A p \in Pids : reg[p] = IF claude[p] = None THEN None ELSE RowOf(p, claude[p])

(* One id runs in one process.                                             *)
Alone == \A p, q \in Up : claude[p].sid = claude[q].sid => p = q

(* The id a process left is one that ran, and runs nowhere.                *)
Departed ==
  \A p \in Pids : prev[p] # None => p \in Up /\ prev[p] \in Used /\ Running(prev[p]) = {}

(* A process waits with its own command, for its own session.              *)
Waiting ==
  \A p \in Pids :
    /\ hook[p] # None => p \in Up /\ call[p] = None
    /\ call[p] # None =>
         LET r == call[p]
         IN /\ p \in Up /\ Caller(r) = claude[p].sid
            /\ r.kind = "set" => r.session # None /\ r.proof = OwnProof(r.snap, p, claude[p].sid)
            /\ r.kind # "set" => r.pid = p

(* A command that could read the whole registry saw its own process, and   *)
(* no process with the id its own has left.                                *)
WellRead ==
  \A p \in Pids : call[p] # None /\ p \notin missed =>
    LET snap == call[p].snap
    IN /\ ~snap.garbled
       /\ \A r \in snap.rows : ~r.loose
       /\ RowOf(p, claude[p]) \in snap.rows
       /\ prev[p] # None => \A r \in snap.rows : r.sid # prev[p]

OwnerRan == Owner(file[wt]) # None => Owner(file[wt]) \in Used

(* Where no command of p failed it, the boundary of its session, and of    *)
(* the session it left, is recorded with the proof that p ran it.          *)
Proven ==
  \A p \in Up \ missed :
    LET f == file[wt]
    IN /\ Owner(f) = claude[p].sid /\ ~Resuming(p) => StoredProof(f) = ProofOf(p, claude[p].sid)
       /\ prev[p] # None /\ Owner(f) = prev[p] => StoredProof(f) = ProofOf(p, prev[p])

HistoryTypeOK == prev \in [Pids -> Opt(Sids)] /\ missed \subseteq Pids

ChatInv == /\ HistoryTypeOK /\ Mirrored /\ Alone /\ Departed /\ Waiting /\ WellRead
           /\ OwnerRan /\ Proven

(* What becomes of the ids that processes left, in every step.             *)
LEMMA LeftIds ==
  ASSUME IInv, HistoryNext, NEW p \in Pids, prev'[p] # None
  PROVE  /\ p \in Up /\ p \in Up'
         /\ claude'[p].sid # claude[p].sid => prev'[p] = claude[p].sid
         /\ claude'[p].sid = claude[p].sid => prev'[p] = prev[p] /\ ~TakenUp(prev[p])
  BY DEF HistoryNext

LEMMA PrevType ==
  ASSUME IInv, HistoryTypeOK, HistoryNext
  PROVE  prev' \in [Pids -> Opt(Sids)]
<1> DEFINE new(p) ==
      CASE p \notin Up \/ p \notin Up' -> None
        [] p \in Up \cap Up' /\ claude'[p].sid # claude[p].sid -> claude[p].sid
        [] p \in Up \cap Up' /\ claude'[p].sid = claude[p].sid ->
             IF TakenUp(prev[p]) THEN None ELSE prev[p]
<1>1. prev' = [p \in Pids |-> new(p)]
  BY DEF HistoryNext
<1>2. ASSUME NEW p \in Pids PROVE new(p) \in Opt(Sids)
  <2>1. p \in Up => claude[p].sid \in Sids
    BY DEF Up, IInv, BoundaryTypeOK, Opt, Process
  <2> QED BY <2>1 DEF HistoryTypeOK, Opt
<1> HIDE DEF new
<1> QED BY <1>1, <1>2

LEMMA MissedType ==
  ASSUME HistoryTypeOK, HistoryNext
  PROVE  missed' \subseteq Pids
  BY DEF HistoryTypeOK, HistoryNext

(* A process that runs has run.                                            *)
LEMMA RunsUsed == ASSUME IInv, NEW p \in Up PROVE claude[p].sid \in Used /\ claude[p].sid \in Sids
<1>1. <<p, claude[p].at, claude[p].sid>> \in held
  BY DEF IInv, Recorded, Ran, Up
<1>2. claude[p].sid \in Used
  BY <1>1 DEF Used
<1> QED BY <1>2 DEF Up, IInv, BoundaryTypeOK, Opt, Process

(* In a step that leaves the processes alone no id is left or taken up.    *)
LEMMA SameClaude ==
  ASSUME IInv, HistoryNext, claude' = claude, NEW p \in Pids, prev'[p] # None
  PROVE  prev'[p] = prev[p]
  BY LeftIds

(* A process starts, changes its id or is parked.                          *)
LEMMA BecomesChat ==
  ASSUME ~Lags, IInv, ChatInv, HistoryNext, NEW p \in Pids, NEW c \in Process, Becomes(p, c),
         Idle(p), NEW source, hook' = [hook EXCEPT ![p] = source],
         UNCHANGED <<file, call>>,
         claude[p] = None \/ (claude[p] # None /\ c.at = claude[p].at),
         Running(c.sid) = {} \/ (claude[p] # None /\ c.sid = claude[p].sid),
         \/ source = "resume"
         \/ c.sid \notin Used
         \/ claude[p] # None /\ c.sid = claude[p].sid
  PROVE  ChatInv'
<1>1. /\ claude' = [claude EXCEPT ![p] = c] /\ held' = held \cup {<<p, c.at, c.sid>>}
      /\ reg' = [reg EXCEPT ![p] = RowOf(p, c)]
      /\ call' = call /\ file' = file /\ call[p] = None /\ hook[p] = None
  BY DEF Becomes, Idle
<1>2. c # None /\ c.sid \in Sids
  BY AbsenceIsNoValue DEF Process
<1>3. Up' = Up \cup {p} /\ claude'[p] = c /\ \A q \in Pids : q # p => claude'[q] = claude[q]
  BY <1>1, <1>2 DEF Up, IInv, BoundaryTypeOK
<1>4. HistoryTypeOK'
  BY PrevType, MissedType DEF ChatInv, HistoryTypeOK
<1>5. Used \subseteq Used' /\ c.sid \in Used'
  <2>1. <<p, c.at, c.sid>> \in held' /\ <<p, c.at, c.sid>>[3] = c.sid
    BY <1>1
  <2> QED BY <1>1, <2>1 DEF Used
<1>6. Mirrored'
  BY <1>1, <1>2 DEF ChatInv, Mirrored, IInv, BoundaryTypeOK
<1>7. Alone'
  BY <1>3 DEF ChatInv, Alone, Running, Up
<1>8. ASSUME NEW q \in Pids, prev'[q] # None
      PROVE  q \in Up' /\ prev'[q] \in Used' /\ \A o \in Up' : claude'[o].sid # prev'[q]
  <2>1. q \in Up /\ q \in Up'
    BY <1>8, LeftIds
  <2>2. CASE claude'[q].sid # claude[q].sid
    <3>1. q = p /\ prev'[q] = claude[p].sid /\ c.sid # claude[p].sid
      BY <1>3, <1>8, <2>1, <2>2, LeftIds
    <3>2. prev'[q] \in Used'
      BY <1>5, <2>1, <3>1, RunsUsed
    <3>3. \A o \in Up' : claude'[o].sid # claude[p].sid
      BY <1>3, <2>1, <3>1 DEF ChatInv, Alone, Up
    <3> QED BY <2>1, <3>1, <3>2, <3>3 DEF Running
  <2>3. CASE claude'[q].sid = claude[q].sid
    <3>1. prev'[q] = prev[q] /\ ~TakenUp(prev[q])
      BY <1>8, <2>3, LeftIds
    <3>2. prev[q] \in Used /\ Running(prev[q]) = {}
      BY <1>8, <3>1 DEF ChatInv, Departed
    <3>3. \A o \in Up' : claude'[o].sid # prev[q]
      BY <3>1, <3>2 DEF TakenUp
    <3> QED BY <1>5, <2>1, <3>1, <3>2, <3>3 DEF Running
  <2> QED BY <2>2, <2>3
<1>9. Departed'
  BY <1>8 DEF Departed, Running
<1>10. Waiting'
  BY <1>1, <1>3 DEF ChatInv, Waiting, Up, IInv, BoundaryTypeOK
<1>11. missed' = missed \cap Up' \/ \E q \in Pids : Refused(q)
  BY <1>1 DEF HistoryNext, Blurred
<1>12. \A q \in Up : q \notin missed' => q \notin missed
  BY <1>3, <1>11 DEF HistoryNext
<1>13. WellRead'
  <2>1. ASSUME NEW q \in Pids, call'[q] # None, q \notin missed'
        PROVE  /\ ~call'[q].snap.garbled
               /\ \A r \in call'[q].snap.rows : ~r.loose
               /\ RowOf(q, claude'[q]) \in call'[q].snap.rows
               /\ prev'[q] # None => \A r \in call'[q].snap.rows : r.sid # prev'[q]
    <3>1. q # p /\ call'[q] = call[q] /\ claude'[q] = claude[q] /\ q \in Up
      BY <1>1, <1>3, <2>1 DEF ChatInv, Waiting
    <3>2. q \notin missed
      BY <1>12, <2>1, <3>1
    <3>3. prev'[q] # None => prev'[q] = prev[q]
      BY <3>1, LeftIds
    <3> QED BY <2>1, <3>1, <3>2, <3>3 DEF ChatInv, WellRead
  <2> QED BY <2>1 DEF WellRead, RowOf
<1>14. OwnerRan'
  BY <1>1, <1>5 DEF ChatInv, OwnerRan
<1>15. Proven'
  <2> DEFINE f == file[wt]
  <2>1. Owner(f) # None => Owner(f) \in Used
    BY DEF ChatInv, OwnerRan
  <2>2. ASSUME NEW q \in Up', q \notin missed'
        PROVE  /\ Owner(f) = claude'[q].sid /\ ~Resuming(q)'
                    => StoredProof(f) = [sid |-> claude'[q].sid, pid |-> q, at |-> claude'[q].at]
               /\ prev'[q] # None /\ Owner(f) = prev'[q]
                    => StoredProof(f) = [sid |-> prev'[q], pid |-> q, at |-> claude'[q].at]
    <3>1. CASE q # p
      <4>1. q \in Up /\ q \in Pids /\ q \notin missed /\ claude'[q] = claude[q]
        BY <1>3, <1>12, <2>2, <3>1 DEF Up
      <4>2. prev'[q] # None => prev'[q] = prev[q]
        BY <4>1, LeftIds
      <4>3. Resuming(q)' = Resuming(q)
        BY <1>1, <3>1, <4>1 DEF Resuming, IInv, BoundaryTypeOK
      <4> QED BY <4>1, <4>2, <4>3 DEF ChatInv, Proven, ProofOf
    <3>2. CASE q = p /\ claude[p] = None
      <4>1. prev'[p] = None
        BY LeftIds, <3>2 DEF Up
      <4>2. Resuming(p)' \/ c.sid \notin Used
        BY <1>1, <3>2 DEF Resuming, IInv, BoundaryTypeOK
      <4>3. c.sid \notin Used => Owner(f) # c.sid
        BY <1>2, <2>1, AbsenceIsNoValue
      <4> QED BY <1>3, <3>2, <4>1, <4>2, <4>3
    <3>3. CASE q = p /\ claude[p] # None
      <4>1. p \in Up /\ p \notin missed /\ c.at = claude[p].at
        BY <1>12, <2>2, <3>3 DEF Up
      <4>2. ~Resuming(p)
        BY <1>1, AbsenceIsNoValue DEF Resuming
      <4>3. Owner(f) = claude[p].sid => StoredProof(f) = ProofOf(p, claude[p].sid)
        BY <4>1, <4>2 DEF ChatInv, Proven
      <4>4. prev[p] # None /\ Owner(f) = prev[p] => StoredProof(f) = ProofOf(p, prev[p])
        BY <4>1 DEF ChatInv, Proven
      <4>5. prev'[p] # None => prev'[p] = IF c.sid = claude[p].sid THEN prev[p] ELSE claude[p].sid
        BY <1>3, LeftIds
      <4>6. Resuming(p)' \/ c.sid \notin Used \/ c.sid = claude[p].sid
        BY <1>1, <3>3 DEF Resuming, IInv, BoundaryTypeOK
      <4>7. c.sid \notin Used => Owner(f) # c.sid
        BY <1>2, <2>1, AbsenceIsNoValue
      <4> QED BY <1>3, <3>3, <4>1, <4>3, <4>4, <4>5, <4>6, <4>7 DEF ProofOf
    <3> QED BY <3>1, <3>2, <3>3
  <2> HIDE DEF f
  <2>3. file'[wt] = f
    BY <1>1 DEF f
  <2> QED BY <2>2, <2>3 DEF Proven, ProofOf
<1> QED BY <1>4, <1>6, <1>7, <1>9, <1>10, <1>13, <1>14, <1>15 DEF ChatInv

(* The registry is never behind, so there is nothing to catch up with.     *)
LEMMA NothingToPublish == ASSUME ChatInv, NEW p \in Pids PROVE ~Publish(p)
  BY DEF ChatInv, Mirrored, Publish, Up

(* A process ends.                                                         *)
LEMMA ExitChat ==
  ASSUME ~Lags, IInv, ChatInv, HistoryNext, NEW p \in Pids, Exit(p)
  PROVE  ChatInv'
<1>1. /\ claude' = [claude EXCEPT ![p] = None] /\ reg' = [reg EXCEPT ![p] = None]
      /\ hook' = [hook EXCEPT ![p] = None] /\ call' = [call EXCEPT ![p] = None]
      /\ file' = file /\ held' = held
  BY DEF Exit
<1>2. Up' = Up \ {p} /\ claude'[p] = None /\ \A q \in Pids : q # p => claude'[q] = claude[q]
  BY <1>1 DEF Up, IInv, BoundaryTypeOK
<1>3. \A q \in Pids : q # p => call'[q] = call[q] /\ hook'[q] = hook[q]
  BY <1>1 DEF IInv, BoundaryTypeOK
<1>4. call'[p] = None /\ hook'[p] = None
  BY <1>1 DEF IInv, BoundaryTypeOK
<1>5. HistoryTypeOK'
  BY PrevType, MissedType DEF ChatInv, HistoryTypeOK
<1>6. Mirrored'
  BY <1>1 DEF ChatInv, Mirrored, IInv, BoundaryTypeOK
<1>7. Alone'
  BY <1>2 DEF ChatInv, Alone, Up
<1>8. \A q \in Pids : prev'[q] # None => prev'[q] = prev[q] /\ q \in Up /\ q # p
  BY <1>2, LeftIds
<1>9. Departed'
  BY <1>1, <1>2, <1>8 DEF ChatInv, Departed, Running, Used, Up
<1>10. Waiting'
  BY <1>2, <1>3, <1>4 DEF ChatInv, Waiting
<1>11. \A q \in Up : q # p /\ q \notin missed' => q \notin missed
  BY <1>2 DEF HistoryNext
<1>12. WellRead'
  <2>1. ASSUME NEW q \in Pids, call'[q] # None, q \notin missed'
        PROVE  q # p /\ q \notin missed /\ call'[q] = call[q] /\ claude'[q] = claude[q]
    BY <1>2, <1>3, <1>4, <1>11, <2>1 DEF ChatInv, Waiting
  <2> QED BY <1>8, <2>1 DEF ChatInv, WellRead, RowOf
<1>13. OwnerRan'
  BY <1>1 DEF ChatInv, OwnerRan, Used
<1>14. Proven'
  <2>1. \A q \in Up' : q \in Up /\ q # p /\ q \in Pids /\ claude'[q] = claude[q]
    BY <1>2 DEF Up
  <2>2. \A q \in Up' : Resuming(q)' = Resuming(q)
    BY <1>3, <2>1 DEF Resuming
  <2> QED BY <1>1, <1>8, <1>11, <2>1, <2>2 DEF ChatInv, Proven, ProofOf
<1> QED BY <1>5, <1>6, <1>7, <1>9, <1>10, <1>12, <1>13, <1>14 DEF ChatInv

(* What a step that changes neither processes nor registry leaves alone.   *)
LEMMA StillChat ==
  ASSUME IInv, ChatInv, HistoryNext, UNCHANGED <<claude, reg, held>>
  PROVE  /\ HistoryTypeOK' /\ Mirrored' /\ Alone' /\ Departed'
         /\ Up' = Up /\ Used' = Used
         /\ \A q \in Pids : prev'[q] # None => prev'[q] = prev[q]
         /\ \A q \in Up : q \notin missed' => q \notin missed
<1>1. HistoryTypeOK'
  BY PrevType, MissedType DEF ChatInv, HistoryTypeOK
<1>2. Mirrored' /\ Alone' /\ Up' = Up /\ Used' = Used
  BY DEF ChatInv, Mirrored, Alone, Up, Used, RowOf
<1>3. \A q \in Pids : prev'[q] # None => prev'[q] = prev[q]
  BY SameClaude
<1>4. Departed'
  BY <1>2, <1>3 DEF ChatInv, Departed, Running
<1>5. \A q \in Up : q \notin missed' => q \notin missed
  BY <1>2 DEF HistoryNext
<1> QED BY <1>1, <1>2, <1>3, <1>4, <1>5

(* What a reading shows, where nothing lags and nothing was unreadable.    *)
LEMMA ReadingComplete ==
  ASSUME IInv, ChatInv, NEW p \in Up, NEW snap \in Readings, ~snap.garbled
  PROVE  /\ RowOf(p, claude[p]) \in snap.rows
         /\ prev[p] # None => \A r \in snap.rows : r.sid # prev[p]
<1>1. PICK torn : snap = Registry(torn)
  BY DEF Readings
<1>2. snap.rows = {reg[q] : q \in Listed}
  BY <1>1 DEF Registry
<1>3. \A q \in Up : q \in Pids /\ reg[q] = RowOf(q, claude[q])
  BY DEF Up, ChatInv, Mirrored
<1>4. p \in Listed
  <2>1. RowOf(p, claude[p]) \in Row
    BY <1>3, ProcessType DEF Up, IInv, BoundaryTypeOK, Opt
  <2> QED BY <1>3, <2>1, AbsenceIsNoValue DEF Listed
<1>5. ASSUME prev[p] # None, NEW r \in snap.rows PROVE r.sid # prev[p]
  <2>1. PICK q \in Listed : r = reg[q]
    BY <1>2
  <2>2. q \in Up
    BY <2>1 DEF Listed
  <2>3. r = RowOf(q, claude[q])
    BY <1>3, <2>1, <2>2
  <2>4. r.sid = claude[q].sid
    BY <2>3 DEF RowOf
  <2> QED BY <1>5, <2>2, <2>4 DEF ChatInv, Departed, Running, Up
<1> QED BY <1>2, <1>3, <1>4, <1>5

(* A command reads the registry.                                           *)
LEMMA CallChat ==
  ASSUME IInv, ChatInv, HistoryNext, NEW p \in Up, NEW r, call' = [call EXCEPT ![p] = r],
         r # None, call[p] = None, hook' = [hook EXCEPT ![p] = None],
         r.snap \in Readings, Caller(r) = claude[p].sid,
         r.kind = "set" => r.session # None /\ r.proof = OwnProof(r.snap, p, claude[p].sid),
         r.kind # "set" => r.pid = p /\ r.kind = hook[p],
         r.kind = "set" => hook[p] = None,
         UNCHANGED <<file, claude, reg, held>>
  PROVE  ChatInv'
<1>1. p \in Pids /\ call'[p] = r /\ \A q \in Pids : q # p => call'[q] = call[q] /\ hook'[q] = hook[q]
  BY DEF Up, IInv, BoundaryTypeOK
<1>2. hook'[p] = None
  BY <1>1 DEF IInv, BoundaryTypeOK
<1>3. Waiting'
  BY <1>1, <1>2, StillChat DEF ChatInv, Waiting, Caller
<1>4. WellRead'
  <2>1. ASSUME NEW q \in Pids, q # p, call'[q] # None, q \notin missed'
        PROVE  q \notin missed /\ call'[q] = call[q]
    BY <1>1, <2>1, StillChat DEF ChatInv, Waiting
  <2>2. p \notin missed' => ~r.snap.garbled /\ \A row \in r.snap.rows : ~row.loose
    <3>1. CASE \E q \in Pids : Refused(q)
      BY <1>1, <3>1 DEF Refused, Return, IInv, BoundaryTypeOK
    <3>2. CASE missed' = (missed \cup {q \in Pids : Blurred(q)}) \cap Up'
      BY <1>1, <3>2, StillChat DEF Blurred
    <3> QED BY <3>1, <3>2 DEF HistoryNext
  <2>3. p \notin missed' => RowOf(p, claude[p]) \in r.snap.rows
          /\ (prev'[p] # None => \A row \in r.snap.rows : row.sid # prev'[p])
    BY <1>1, <2>2, ReadingComplete, StillChat
  <2> QED BY <1>1, <2>1, <2>2, <2>3, StillChat DEF ChatInv, WellRead, RowOf
<1>5. OwnerRan'
  BY StillChat DEF ChatInv, OwnerRan
<1>6. Proven'
  <2>1. \A q \in Up : q \in Pids /\ (Resuming(q) => Resuming(q)')
    BY <1>1, AbsenceIsNoValue DEF Resuming, Up
  <2> QED BY <2>1, StillChat DEF ChatInv, Proven, ProofOf
<1> QED BY <1>3, <1>4, <1>5, <1>6, StillChat DEF ChatInv

LEMMA RunHookChat ==
  ASSUME IInv, ChatInv, HistoryNext, NEW p \in Pids, NEW head \in Shas, RunHook(p, head)
  PROVE  ChatInv'
<1>1. PICK snap \in Readings :
        Call(p, [kind |-> hook[p], slug |-> wt, own |-> claude[p].sid, pid |-> p,
                 head |-> head, snap |-> snap])
  BY DEF RunHook
<1> DEFINE r == [kind |-> hook[p], slug |-> wt, own |-> claude[p].sid, pid |-> p,
                 head |-> head, snap |-> snap]
<1>2. p \in Up /\ hook[p] # None /\ hook' = [hook EXCEPT ![p] = None]
      /\ UNCHANGED <<file, claude, reg, held>>
  BY DEF RunHook
<1>3. call[p] = None /\ hook[p] \in {"startup", "clear", "resume"}
  BY <1>2 DEF ChatInv, Waiting, IInv, BoundaryTypeOK, Opt
<1>4. call' = [call EXCEPT ![p] = r]
  BY <1>1 DEF Call
<1>5. r \in HookReq /\ r # None
  <2>1. snap \in Snapshot
    BY ReadingSound DEF IInv
  <2>2. claude[p].sid \in Sids /\ hook[p] \in {"startup", "clear", "resume"}
    BY <1>2, <1>3, RunsUsed
  <2> QED BY <2>1, <2>2, WtIsSlug, AbsenceIsNoValue DEF HookReq
<1>6. r.snap \in Readings /\ Caller(r) = claude[p].sid /\ r.pid = p /\ r.kind = hook[p] /\ r.kind # "set"
  BY <1>3 DEF Caller
<1> HIDE DEF r
<1> QED BY <1>2, <1>3, <1>4, <1>5, <1>6, CallChat

LEMMA StartTaskChat ==
  ASSUME IInv, ChatInv, HistoryNext, NEW p \in Pids, NEW head \in Shas, StartTask(p, head)
  PROVE  ChatInv'
<1> DEFINE request(snap) ==
      [kind |-> "set", slug |-> wt, create |-> TRUE, task |-> None, start |-> None,
       orc |-> None, clear |-> {}, snap |-> snap,
       session |-> [sha |-> head, sid |-> claude[p].sid],
       proof |-> OwnProof(snap, p, claude[p].sid)]
<1>1. PICK snap \in Readings : Call(p, request(snap))
  BY DEF StartTask
<1> DEFINE r == request(snap)
<1>2. p \in Up /\ hook[p] = None /\ call[p] = None /\ UNCHANGED <<file, claude, reg, hook, held>>
  BY DEF StartTask, Idle, worldVars
<1>3. hook' = [hook EXCEPT ![p] = None] /\ call' = [call EXCEPT ![p] = r]
  BY <1>1, <1>2 DEF Call, IInv, BoundaryTypeOK
<1>4. r \in SetReq /\ r # None /\ r.session # None
  <2>1. snap \in Snapshot
    BY ReadingSound DEF IInv
  <2>2. claude[p].sid \in Sids
    BY <1>2, RunsUsed
  <2>3. OwnProof(snap, p, claude[p].sid) \in Opt(Proof)
    BY <2>1, <2>2, OwnProofType
  <2>4. r.session \in Boundary
    BY <2>2 DEF Boundary
  <2>5. r \in SetReq
    BY <2>1, <2>3, <2>4, WtIsSlug DEF SetReq, Opt
  <2> HIDE DEF r, request
  <2> QED BY <2>4, <2>5, AbsenceIsNoValue
<1>5. /\ r.snap \in Readings /\ Caller(r) = claude[p].sid /\ r.kind = "set"
      /\ r.proof = OwnProof(r.snap, p, claude[p].sid)
  BY DEF Caller
<1> HIDE DEF r, request
<1> QED BY <1>2, <1>3, <1>4, <1>5, CallChat

(* The proof of oneself drawn from a registry that shows one's process.    *)
LEMMA OwnProofRead ==
  ASSUME NEW snap, SoundRows(snap.rows), NEW p, \A r \in snap.rows : ~r.loose,
         RowOf(p, claude[p]) \in snap.rows
  PROVE  /\ OwnProof(snap, p, claude[p].sid) = ProofOf(p, claude[p].sid)
         /\ (CHOOSE r \in Entries(snap) : r.pid = p).sid = claude[p].sid
<1> DEFINE row == RowOf(p, claude[p])
           sid == claude[p].sid
           e == CHOOSE r \in Entries(snap) : r.pid = p /\ r.sid = sid
           d == CHOOSE r \in Entries(snap) : r.pid = p
<1>1. row \in Entries(snap) /\ row.pid = p /\ row.sid = sid /\ row.at = claude[p].at
  BY DEF Entries, RowOf
<1>2. \A r, q \in Entries(snap) : r.pid = q.pid => r = q
  BY DEF Entries, SoundRows
<1>3. e \in Entries(snap) /\ e.pid = p
  <2>1. \E r \in Entries(snap) : r.pid = p /\ r.sid = sid
    BY <1>1
  <2> QED BY <2>1
<1>4. d \in Entries(snap) /\ d.pid = p
  <2>1. \E r \in Entries(snap) : r.pid = p
    BY <1>1
  <2> QED BY <2>1
<1>5. OwnProof(snap, p, sid) = [sid |-> sid, pid |-> p, at |-> e.at]
  BY <1>1 DEF OwnProof
<1> HIDE DEF row, e, d
<1>6. e = row /\ d = row
  BY <1>1, <1>2, <1>3, <1>4
<1> QED BY <1>1, <1>5, <1>6 DEF ProofOf, d

(* Whatever a command decides, either the file stays, and if the command   *)
(* resumes the recorded session its proof is there already, or the         *)
(* boundary is that of the command's session, with its proof.              *)
LEMMA DecideOwner ==
  ASSUME NEW r \in HookReq \cup SetReq, NEW f \in File, NEW mine \in Opt(Proof),
         r.kind = "set" => r.session # None /\ r.proof = mine,
         r.kind # "set" => mine = OwnProof(r.snap, r.pid, r.own),
         mine # None => mine.sid = Caller(r)
  PROVE  LET g == Decide(r, f).file
         IN \/ /\ g = f
               /\ r.kind = "resume" /\ Owner(f) = Caller(r) /\ mine # None => StoredProof(f) = mine
            \/ /\ Owner(g) = Caller(r)
               /\ mine # None => StoredProof(g) = mine
<1> DEFINE g == Decide(r, f).file
           sid == Caller(r)
           Takes(h) == Owner(h) = sid /\ (mine # None => StoredProof(h) = mine)
<1> SUFFICES \/ /\ g = f
                /\ r.kind = "resume" /\ Owner(f) = sid /\ mine # None => StoredProof(f) = mine
             \/ Takes(g)
  OBVIOUS
<1>1. ASSUME NEW st \in State, st.session # None, st.session.sid = sid, st.session_proof = mine
      PROVE  Takes(st)
  <2>1. st # NoFile
    BY AbsenceIsNoValue
  <2> QED BY <1>1, <2>1 DEF Owner, StoredSession, StoredProof
<1>2. g \in File
  BY DecideTyped
<1>3. CASE r.kind = "set"
  <2>1. r \in SetReq /\ r.session # None /\ r.proof = mine /\ sid = r.session.sid
    BY <1>3 DEF HookReq, SetReq, Caller
  <2>2. CASE g = f
    BY <1>3, <2>2
  <2>3. CASE g # f
    <3>1. g = SetKeys(r, f).file
      BY <1>3, <2>3 DEF Decide, Removes, Merged, Keep
    <3>2. Parsed(f) \in State
      BY ParsedState
    <3>3. g.session = r.session /\ g.session_proof = r.proof /\ g # NoFile
      <4> DEFINE cur == Parsed(f)
                 task == IF "task" \in r.clear THEN None ELSE IF r.task # None THEN r.task ELSE cur.task
                 start == IF "task" \in r.clear THEN None ELSE IF r.start # None THEN r.start ELSE cur.start
                 origin == IF r.clear \cap {"task", "origin"} # {} THEN None ELSE cur.origin
                 orc == IF "orc" \in r.clear THEN None ELSE IF r.orc # None THEN r.orc ELSE cur.orc
                 st == [cur EXCEPT !.task = task, !.start = start, !.origin = origin, !.orc = orc,
                                   !.session = r.session, !.session_proof = r.proof]
      <4>1. SetKeys(r, f) = Wrote(st) \/ SetKeys(r, f).file = f
        BY <2>1 DEF SetKeys, Keep
      <4> HIDE DEF task, start, origin, orc
      <4>2. g = st
        BY <2>3, <3>1, <4>1 DEF Wrote
      <4>3. st.session = r.session /\ st.session_proof = r.proof /\ DOMAIN st = DOMAIN cur
        BY <3>2 DEF State
      <4>4. st \in State
        <5>1. task \in Opt(Tasks) /\ start \in Opt(Shas)
          BY <2>1, <3>2 DEF State, Opt, SetReq, task, start
        <5>2. origin \in Opt({"branch", "dir"}) /\ orc \in Opt(Orcs)
          BY <2>1, <3>2 DEF State, Opt, SetReq, origin, orc
        <5>3. r.session \in Opt(Boundary) /\ r.proof \in Opt(Proof)
          BY <2>1 DEF SetReq
        <5> HIDE DEF cur
        <5> QED BY <3>2, <5>1, <5>2, <5>3 DEF State, cur
      <4> QED BY <4>2, <4>3, <4>4, AbsenceIsNoValue
    <3>4. g \in State
      BY <1>2, <3>3 DEF File
    <3> HIDE DEF g
    <3> QED BY <1>1, <2>1, <3>3, <3>4
  <2> HIDE DEF g
  <2> QED BY <2>2, <2>3
<1>4. CASE r.kind # "set"
  <2>1. r \in HookReq /\ r.kind \in {"startup", "clear", "resume"} /\ sid = r.own
    BY <1>4 DEF HookReq, SetReq, Caller
  <2>2. CASE f = NoFile
    <3>1. g = f
      BY <2>1, <2>2 DEF Decide, Removes, Creates, Keep
    <3>2. Owner(f) # sid
      BY <2>1, <2>2, AbsenceIsNoValue DEF Owner, HookReq
    <3> QED BY <3>1, <3>2
  <2>3. CASE f # NoFile
    <3>1. f \in State
      BY <2>3 DEF File
    <3> DEFINE here(sha) == [sha |-> sha, sid |-> r.own]
               st(sha) == [f EXCEPT !.session = here(sha), !.session_proof = mine]
    <3>2. ASSUME NEW sha \in Shas PROVE st(sha) \in State /\ Takes(st(sha))
      <4>1. here(sha) \in Boundary /\ here(sha).sid = r.own
        BY <2>1 DEF HookReq, Boundary
      <4> HIDE DEF here
      <4>2. st(sha) \in State
        BY <3>1, <4>1 DEF State, Opt
      <4>3. st(sha).session = here(sha) /\ st(sha).session_proof = mine
        BY <3>1 DEF State
      <4> HIDE DEF st
      <4> QED BY <1>1, <2>1, <4>1, <4>2, <4>3, AbsenceIsNoValue
    <3>3. CASE r.kind = "startup"
      <4>1. g = Startup(r, f).file
        BY <2>3, <3>3 DEF Decide, Removes, Merged
      <4>2. g = f \/ g = st(r.head)
        BY <1>4, <4>1 DEF Startup, Keep, Wrote
      <4>3. r.head \in Shas
        BY <2>1 DEF HookReq
      <4> HIDE DEF g, st
      <4> QED BY <3>2, <3>3, <4>2, <4>3
    <3>4. CASE r.kind = "clear"
      <4>1. g = Clear(r, f).file
        BY <2>3, <3>4 DEF Decide, Removes, Merged
      <4>2. g = f \/ (StoredSession(f) # None /\ g = st(f.session.sha))
        BY <1>4, <4>1 DEF Clear, Keep, Wrote, MayCarry
      <4>3. StoredSession(f) # None => f.session.sha \in Shas
        BY <3>1 DEF StoredSession, State, Opt, Boundary
      <4> HIDE DEF g, st
      <4> QED BY <3>2, <3>4, <4>2, <4>3
    <3>5. CASE r.kind = "resume"
      <4> DEFINE again == [f EXCEPT !.session_proof = mine]
      <4>1. g = Resume(r, f).file
        BY <2>3, <3>5 DEF Decide, Removes, Merged
      <4>2. \/ g = f /\ (StoredSession(f) # r.own \/ mine = None)
            \/ g = f /\ StoredProof(f) = mine
            \/ g = again /\ StoredSession(f) = r.own
        BY <1>4, <4>1 DEF Resume, Keep, Wrote
      <4>3. Owner(f) = StoredSession(f)
        BY <2>3 DEF Owner
      <4>4. CASE g = again /\ StoredSession(f) = r.own
        <5>1. again \in State /\ again.session = f.session /\ again.session_proof = mine
          BY <3>1 DEF State
        <5>2. f.session # None /\ f.session.sid = r.own
          BY <2>1, <4>4, AbsenceIsNoValue DEF StoredSession, HookReq
        <5> HIDE DEF again
        <5>3. Takes(again)
          BY <1>1, <2>1, <5>1, <5>2
        <5> HIDE DEF g
        <5> QED BY <4>4, <5>3
      <4> HIDE DEF g
      <4> QED BY <2>1, <4>2, <4>3, <4>4
    <3> QED BY <2>1, <3>3, <3>4, <3>5
  <2> QED BY <2>2, <2>3
<1> QED BY <1>3, <1>4

(* A command takes effect.                                                 *)
LEMMA ServedOwner ==
  ASSUME IInv, ChatInv, NEW p \in Pids, Served(p)
  PROVE  LET f == file[wt]
             g == file'[wt]
             sid == claude[p].sid
         IN /\ p \in Up /\ hook[p] = None
            /\ \/ g = f /\ (Resuming(p) /\ p \notin missed /\ Owner(f) = sid
                              => StoredProof(f) = ProofOf(p, sid))
               \/ Owner(g) = sid /\ (p \notin missed => StoredProof(g) = ProofOf(p, sid))
<1> DEFINE r == call[p]
           f == file[wt]
           sid == claude[p].sid
           mine == OwnProof(r.snap, p, sid)
<1>1. /\ r # None /\ p \in Up /\ Caller(r) = sid /\ hook[p] = None
      /\ r.kind = "set" => r.session # None /\ r.proof = mine
      /\ r.kind # "set" => r.pid = p
  BY DEF Served, ChatInv, Waiting
<1>2. r \in HookReq \cup SetReq /\ SoundCall(r)
  BY <1>1 DEF IInv, BoundaryTypeOK, CallsSound, Opt
<1>3. sid \in Sids /\ f \in File
  BY <1>1, RunsUsed, WtIsSlug DEF IInv, BoundaryTypeOK
<1>4. r.snap \in Snapshot
  BY <1>2 DEF HookReq, SetReq
<1>5. mine \in Opt(Proof) /\ (mine # None => mine.sid = sid)
  BY <1>3, <1>4, OwnProofType DEF OwnProof
<1>6. r.kind # "set" => r.own = sid
  BY <1>1 DEF Caller
<1>7. p \notin missed => mine = ProofOf(p, sid) /\ mine # None
  <2>1. ASSUME p \notin missed PROVE mine = ProofOf(p, sid)
    BY <1>1, <1>2, <2>1, OwnProofRead DEF ChatInv, WellRead, SoundCall
  <2>2. claude[p].at \in 1..MaxAt
    BY <1>1 DEF Up, IInv, BoundaryTypeOK, Opt, Process
  <2>3. ProofOf(p, sid) \in Proof
    BY <1>3, <2>2 DEF ProofOf, Proof
  <2> QED BY <2>1, <2>3, AbsenceIsNoValue
<1>8. file'[wt] = Decide(r, f).file
  BY WtIsSlug DEF Served, IInv, BoundaryTypeOK
<1>9. Resuming(p) => r.kind = "resume"
  BY <1>1, AbsenceIsNoValue DEF Resuming
<1> DEFINE g == Decide(r, f).file
<1>10. \/ /\ g = f
          /\ r.kind = "resume" /\ Owner(f) = Caller(r) /\ mine # None => StoredProof(f) = mine
       \/ /\ Owner(g) = Caller(r)
          /\ mine # None => StoredProof(g) = mine
  <2> HIDE DEF r, f, mine
  <2> QED BY <1>1, <1>2, <1>3, <1>5, <1>6, DecideOwner DEF mine
<1> HIDE DEF g, mine, r
<1> QED BY <1>1, <1>7, <1>8, <1>9, <1>10 DEF g

LEMMA ServedChat ==
  ASSUME IInv, ChatInv, HistoryNext, NEW p \in Pids, Served(p)
  PROVE  ChatInv'
<1> DEFINE f == file[wt]
           g == file'[wt]
<1>1. call' = [call EXCEPT ![p] = None] /\ UNCHANGED <<claude, reg, hook, held>>
  BY DEF Served, Return, worldVars
<1>2. \A q \in Pids : q # p => call'[q] = call[q]
  BY <1>1 DEF IInv, BoundaryTypeOK
<1>3. call'[p] = None /\ p \in Up /\ hook[p] = None
  BY <1>1, ServedOwner DEF IInv, BoundaryTypeOK
<1>4. Waiting'
  BY <1>1, <1>2, <1>3, StillChat DEF ChatInv, Waiting
<1>5. WellRead'
  <2>1. ASSUME NEW q \in Pids, call'[q] # None, q \notin missed'
        PROVE  q \notin missed /\ call'[q] = call[q]
    BY <1>1, <1>2, <1>3, <2>1, StillChat DEF ChatInv, Waiting
  <2> QED BY <1>1, <2>1, StillChat DEF ChatInv, WellRead, RowOf
<1>6. claude[p].sid \in Used /\ claude[p].sid # None /\ p \in Running(claude[p].sid)
  BY <1>3, RunsUsed, AbsenceIsNoValue DEF Running
<1>7. g = f \/ Owner(g) = claude[p].sid
  BY ServedOwner
<1>8. OwnerRan'
  BY <1>1, <1>6, <1>7, StillChat DEF ChatInv, OwnerRan
<1>9. Proven'
  <2>1. ASSUME NEW q \in Up, q \notin missed'
        PROVE  /\ Owner(g) = claude[q].sid /\ ~Resuming(q)' => StoredProof(g) = ProofOf(q, claude[q].sid)
               /\ prev'[q] # None /\ Owner(g) = prev'[q] => StoredProof(g) = ProofOf(q, prev'[q])
    <3>1. q \in Pids /\ q \notin missed /\ (prev'[q] # None => prev'[q] = prev[q])
      BY <1>1, <2>1, StillChat DEF Up
    <3>2. prev[q] # None => Running(prev[q]) = {}
      BY <3>1 DEF ChatInv, Departed
    <3>3. q # p => (Resuming(q)' = Resuming(q)) /\ claude[q].sid # claude[p].sid
      BY <1>1, <1>2, <1>3, <3>1 DEF Resuming, ChatInv, Alone
    <3>4. Proven
      BY DEF ChatInv
    <3>5. CASE Owner(g) = claude[p].sid /\ ~(g = f)
      <4>1. prev[q] # None => Owner(g) # prev[q]
        BY <1>6, <3>2, <3>5
      <4>2. q = p => StoredProof(g) = ProofOf(p, claude[p].sid)
        BY <3>1, <3>5, ServedOwner
      <4> QED BY <3>1, <3>3, <3>5, <4>1, <4>2
    <3>6. CASE g = f
      <4>1. prev[q] # None /\ Owner(f) = prev[q] => StoredProof(f) = ProofOf(q, prev[q])
        BY <2>1, <3>1, <3>4 DEF Proven
      <4>2. Owner(f) = claude[q].sid /\ ~Resuming(q) => StoredProof(f) = ProofOf(q, claude[q].sid)
        BY <2>1, <3>1, <3>4 DEF Proven
      <4>3. q = p /\ Resuming(p) /\ Owner(f) = claude[p].sid => StoredProof(f) = ProofOf(p, claude[p].sid)
        BY <3>1, <3>6, <1>6, ServedOwner
      <4> QED BY <3>1, <3>3, <3>6, <4>1, <4>2, <4>3
    <3> QED BY <1>7, <3>5, <3>6
  <2> HIDE DEF g
  <2>2. file'[wt] = g
    BY DEF g
  <2>3. \A q, sid : ProofOf(q, sid) = [sid |-> sid, pid |-> q, at |-> claude'[q].at]
    BY <1>1 DEF ProofOf
  <2> QED BY <1>1, <2>1, <2>2, <2>3, StillChat DEF Proven, ProofOf
<1> QED BY <1>1, <1>4, <1>5, <1>8, <1>9, StillChat DEF ChatInv

(* A command is refused: from then on its process is one that missed.      *)
LEMMA RefusedChat ==
  ASSUME IInv, ChatInv, HistoryNext, NEW p \in Pids, Refused(p),
         missed' = missed \cup {p}
  PROVE  ChatInv'
<1>1. call' = [call EXCEPT ![p] = None] /\ UNCHANGED <<file, claude, reg, hook, held>> /\ call[p] # None
  BY DEF Refused, Return, worldVars
<1>2. \A q \in Pids : q # p => call'[q] = call[q]
  BY <1>1 DEF IInv, BoundaryTypeOK
<1>3. call'[p] = None
  BY <1>1 DEF IInv, BoundaryTypeOK
<1>4. Waiting'
  BY <1>1, <1>2, <1>3, StillChat DEF ChatInv, Waiting
<1>5. WellRead'
  <2>1. ASSUME NEW q \in Pids, call'[q] # None, q \notin missed'
        PROVE  q \notin missed /\ call'[q] = call[q]
    BY <1>1, <1>2, <1>3, <2>1, StillChat DEF ChatInv, Waiting
  <2> QED BY <1>1, <2>1, StillChat DEF ChatInv, WellRead, RowOf
<1>6. OwnerRan'
  BY <1>1, StillChat DEF ChatInv, OwnerRan
<1>7. Proven'
  <2>1. \A q \in Up : q \notin missed' => q \in Pids /\ q \notin missed /\ q # p
    BY DEF Up
  <2>2. \A q \in Up : q # p => Resuming(q)' = Resuming(q)
    BY <1>1, <1>2 DEF Resuming, Up
  <2> QED BY <1>1, <2>1, <2>2, StillChat DEF ChatInv, Proven, ProofOf
<1> QED BY <1>1, <1>4, <1>5, <1>6, <1>7, StillChat DEF ChatInv

-----------------------------------------------------------------------------

LEMMA ChatStep ==
  ASSUME ~Lags, ~Shares, IInv, ChatInv, [HistoryNext]_historyVars
  PROVE  ChatInv'
<1>1. CASE UNCHANGED historyVars
  BY <1>1 DEF historyVars, vars, ChatInv, HistoryTypeOK, Mirrored, Alone, Departed, Waiting,
              WellRead, OwnerRan, Proven, Up, Used, Running, RowOf, ProofOf, Resuming
<1>2. ASSUME HistoryNext, NEW p \in Pids, NEW sid \in Sids,
             Launch(p, sid) \/ Resumed(p, sid) \/ \E job \in Jobs : Continued(p, sid, job)
      PROVE  ChatInv'
  <2>1. PICK job \in Opt(Jobs), source \in {"startup", "resume"} :
          /\ Spawn(p, sid, job, source)
          /\ source = "startup" => sid \notin Used
          /\ source = "resume" => Running(sid) = {}
    BY <1>2 DEF Launch, Resumed, Continued, Opt
  <2>2. PICK loose \in {FALSE, Garbles} :
          Becomes(p, [sid |-> sid, at |-> clock + 1, loose |-> loose, job |-> job, parked |-> None])
    BY <2>1 DEF Spawn
  <2> DEFINE c == [sid |-> sid, at |-> clock + 1, loose |-> loose, job |-> job, parked |-> None]
  <2>3. clock + 1 \in 1..MaxAt
    BY <2>1, MaxAtPositive DEF Spawn, IInv, BoundaryTypeOK
  <2>4. c \in Process /\ c.sid = sid
    BY <2>3, GarblesIsBoolean DEF Process, Opt
  <2>5. Running(sid) = {}
    BY <2>1, RunsUsed DEF Running
  <2>6. Idle(p) /\ claude[p] = None /\ hook' = [hook EXCEPT ![p] = source] /\ UNCHANGED <<file, call>>
    BY <2>1 DEF Spawn
  <2> HIDE DEF c
  <2>7. Becomes(p, c)
    BY <2>2 DEF c
  <2> QED BY <1>2, <2>1, <2>4, <2>5, <2>6, <2>7, BecomesChat
<1>3. ASSUME HistoryNext, NEW p \in Pids, NEW sid \in Sids, Cleared(p, sid) \/ Reopened(p, sid)
      PROVE  ChatInv'
  <2>1. PICK source \in {"clear", "resume"} :
          /\ Remint(p, sid, source)
          /\ source = "clear" => sid \notin Used
          /\ source = "resume" => Running(sid) = {}
    BY <1>3 DEF Cleared, Reopened
  <2>2. p \in Up /\ claude[p] \in Process /\ claude[p] # None
    BY <2>1 DEF Remint, Up, IInv, BoundaryTypeOK, Opt
  <2> DEFINE c == [claude[p] EXCEPT !.sid = sid]
  <2>3. c \in Process /\ c.at = claude[p].at /\ c.sid = sid
    BY <2>2 DEF Process
  <2>4. Running(sid) = {}
    BY <2>1, RunsUsed DEF Running
  <2>5. Becomes(p, c) /\ Idle(p) /\ hook' = [hook EXCEPT ![p] = source] /\ UNCHANGED <<file, call>>
    BY <2>1 DEF Remint
  <2> HIDE DEF c
  <2> QED BY <1>3, <2>1, <2>2, <2>3, <2>4, <2>5, BecomesChat
<1>4. ASSUME HistoryNext, NEW p \in Pids, NEW job \in Jobs, Parked(p, job)
      PROVE  ChatInv'
  <2>1. p \in Up /\ claude[p] \in Process /\ claude[p] # None
    BY <1>4 DEF Parked, Up, IInv, BoundaryTypeOK, Opt
  <2> DEFINE c == [claude[p] EXCEPT !.parked = job]
  <2>2. c \in Process /\ c.at = claude[p].at /\ c.sid = claude[p].sid
    BY <2>1 DEF Process, Opt
  <2>3. hook' = [hook EXCEPT ![p] = None]
    BY <1>4 DEF Parked, Idle, IInv, BoundaryTypeOK
  <2>4. Becomes(p, c) /\ Idle(p) /\ UNCHANGED <<file, call>>
    BY <1>4 DEF Parked
  <2> HIDE DEF c
  <2> QED BY <1>4, <2>1, <2>2, <2>3, <2>4, BecomesChat
<1>5. ASSUME HistoryNext, NEW p \in Pids, \E head \in Shas : RunHook(p, head) \/ StartTask(p, head)
      PROVE  ChatInv'
  BY <1>5, RunHookChat, StartTaskChat
<1>6. ASSUME HistoryNext, NEW p \in Pids, Publish(p) \/ Exit(p) \/ Served(p)
      PROVE  ChatInv'
  BY <1>6, NothingToPublish, ExitChat, ServedChat
<1>7. CASE HistoryNext /\ Proceeds
  BY <1>2, <1>3, <1>4, <1>5, <1>6, <1>7 DEF Proceeds
<1>8. CASE HistoryNext /\ \E p \in Pids : Refused(p) /\ missed' = missed \cup {p}
  BY <1>8, RefusedChat
<1> QED BY <1>1, <1>7, <1>8 DEF HistoryNext

(* At the start the worktree's file names no session: one it named would   *)
(* have run in a process from before, which is not modelled.               *)
Afresh == \A f \in Initially : Owner(f) = None

LEMMA ChatInit == ASSUME HistoryInit, Afresh PROVE ChatInv
<1>1. Up = {}
  BY DEF HistoryInit, Init, Up
<1>2. HistoryTypeOK /\ Mirrored
  BY DEF HistoryInit, Init, HistoryTypeOK, Opt, Mirrored
<1>3. Departed /\ Waiting /\ WellRead
  BY DEF HistoryInit, Init, Departed, Waiting, WellRead
<1>4. Alone /\ Proven
  BY <1>1 DEF Alone, Proven
<1>5. OwnerRan
  BY WtIsSlug DEF HistoryInit, Init, Afresh, OwnerRan
<1> QED BY <1>2, <1>3, <1>4, <1>5 DEF ChatInv

(* The carry of the boundary, when nothing of it was missed.               *)
LEMMA CarrySucceeds ==
  ASSUME IInv, ChatInv, NEW p \in Pids, Served(p), call[p].kind = "clear",
         p \notin missed, prev[p] # None, Owner(file[wt]) = prev[p]
  PROVE  /\ Owner(file'[wt]) = call[p].own
         /\ file'[wt].session.sha = file[wt].session.sha
<1> DEFINE r == call[p]
           f == file[wt]
           snap == r.snap
           old == StoredSession(f)
           proof == StoredProof(f)
<1>1. /\ p \in Up /\ r.own = claude[p].sid /\ r.pid = p
  BY DEF Served, ChatInv, Waiting, Caller
<1>2. r \in HookReq /\ SoundRows(snap.rows) /\ ~snap.absent
  BY DEF Served, IInv, BoundaryTypeOK, CallsSound, SoundCall, Opt, HookReq, SetReq
<1>3. /\ ~snap.garbled /\ \A row \in snap.rows : ~row.loose
      /\ RowOf(p, claude[p]) \in snap.rows
      /\ \A row \in snap.rows : row.sid # prev[p]
  BY DEF Served, ChatInv, WellRead
<1>4. f # NoFile /\ old = prev[p]
  BY DEF Owner
<1>5. f \in State
  BY <1>4, WtIsSlug DEF IInv, BoundaryTypeOK, File
<1>6. old \notin {r.own, None}
  BY <1>1, <1>4 DEF ChatInv, Departed, Running
<1>7. proof = ProofOf(p, old) /\ proof # None
  <2>1. proof = ProofOf(p, old)
    BY <1>1, <1>4 DEF ChatInv, Proven
  <2>2. claude[p].at \in 1..MaxAt /\ old \in Sids
    BY <1>1, <1>4 DEF Up, IInv, BoundaryTypeOK, Opt, Process, ChatInv, HistoryTypeOK
  <2>3. proof \in Proof
    BY <2>1, <2>2 DEF ProofOf, Proof
  <2> QED BY <2>1, <2>3, AbsenceIsNoValue
<1>8. RotatedTo(snap, old, r.own, proof) = r.own
  <2>1. SameProcess(snap, proof)
    BY <1>3, <1>7 DEF SameProcess, Entries, RowOf, ProofOf
  <2>2. RowsOf(snap, old) = {}
    BY <1>3, <1>4 DEF RowsOf, Entries
  <2>3. (CHOOSE row \in Entries(snap) : row.pid = p).sid = r.own
    <3> HIDE DEF r, snap
    <3>1. SoundRows(snap.rows) /\ (\A row \in snap.rows : ~row.loose)
          /\ RowOf(p, claude[p]) \in snap.rows
      BY <1>2, <1>3
    <3>2. (CHOOSE row \in Entries(snap) : row.pid = p).sid = claude[p].sid
      BY <3>1, OwnProofRead
    <3> QED BY <1>1, <3>2
  <2>4. proof.pid = p
    BY <1>7 DEF ProofOf
  <2> HIDE DEF old, proof, snap, r
  <2> QED BY <1>7, <2>1, <2>2, <2>3, <2>4 DEF RotatedTo
<1>9. file'[wt] = Clear(r, f).file
  <2>1. file'[wt] = Decide(r, f).file
    BY WtIsSlug DEF Served, IInv, BoundaryTypeOK
  <2> QED BY <1>4, <2>1 DEF Decide, Removes, Merged
<1>10. MayCarry(old, proof, r.own, snap) = "ok"
  BY <1>2, <1>6, <1>8 DEF MayCarry
<1> DEFINE here == [sha |-> f.session.sha, sid |-> r.own]
           st == [f EXCEPT !.session = here, !.session_proof = OwnProof(snap, r.pid, r.own)]
<1>11. file'[wt] = st
  BY <1>9, <1>10 DEF Clear, Wrote
<1>12. here \in Boundary /\ here.sha = f.session.sha /\ here.sid = r.own
  <2>1. f.session \in Boundary
    BY <1>5, <1>6 DEF StoredSession, State, Opt
  <2> QED BY <1>2, <2>1 DEF Boundary, HookReq
<1>13. st \in State /\ st.session = here
  <2>1. OwnProof(snap, r.pid, r.own) \in Opt(Proof)
    BY <1>2, OwnProofType DEF HookReq
  <2> HIDE DEF here
  <2> QED BY <1>5, <1>12, <2>1 DEF State, Opt
<1> HIDE DEF here, st
<1> QED BY <1>11, <1>12, <1>13, AbsenceIsNoValue DEF Owner, StoredSession

(* Where registry files follow their processes at once and no id runs in   *)
(* two of them, a chat that owned the boundary owns it after /clear, at    *)
(* the commit it was, unless one of its own commands was refused or could  *)
(* not read the whole registry, or someone took its old id up meanwhile.   *)
THEOREM BoundaryIsKept ==
  ASSUME ~Lags, ~Shares, Afresh
  PROVE  HistorySpec => BoundaryFollowsClear
<1> DEFINE Follows(p) ==
      /\ call[p] # None /\ call[p].kind = "clear" /\ call'[p] = None
      /\ p \in Up' /\ p \notin missed'
      /\ prev[p] # None /\ Owner(file[wt]) = prev[p]
      => /\ Owner(file'[wt]) = call[p].own
         /\ file'[wt].session.sha = file[wt].session.sha
<1>1. HistoryInit => IInv /\ ChatInv
  BY InitInvariant, ChatInit DEF HistoryInit
<1>2. [HistoryNext]_historyVars => [Next]_vars
  BY DEF HistoryNext, Next, historyVars
<1>3. IInv /\ ChatInv /\ [HistoryNext]_historyVars => IInv' /\ ChatInv'
  BY <1>2, StepKeeps, ChatStep
<1>4. ASSUME IInv, ChatInv, HistoryNext, NEW p \in Pids PROVE Follows(p)
  <2> SUFFICES ASSUME call[p] # None, call[p].kind = "clear", call'[p] = None,
                      p \in Up', p \notin missed', prev[p] # None, Owner(file[wt]) = prev[p]
               PROVE  /\ Owner(file'[wt]) = call[p].own
                      /\ file'[wt].session.sha = file[wt].session.sha
    OBVIOUS
  <2>1. p \in Up /\ p \notin missed
    BY <1>4 DEF ChatInv, Waiting, HistoryNext
  <2>2. Served(p)
    <3>1. Proceeds
      BY <1>4 DEF HistoryNext, Refused, Return, IInv, BoundaryTypeOK
    <3>2. PICK q \in Pids :
            \/ \E sid \in Sids : \/ Launch(q, sid) \/ Resumed(q, sid)
                                 \/ Cleared(q, sid) \/ Reopened(q, sid)
                                 \/ \E job \in Jobs : Continued(q, sid, job)
            \/ \E job \in Jobs : Parked(q, job)
            \/ Publish(q) \/ Exit(q)
            \/ \E head \in Shas : RunHook(q, head) \/ StartTask(q, head)
            \/ Served(q)
      BY <3>1 DEF Proceeds
    <3>3. call' # call
      BY <1>4
    <3>4. ~Exit(p)
      BY <1>4 DEF Exit, Up, IInv, BoundaryTypeOK
    <3>5. CASE Exit(q) \/ Served(q)
      <4>1. q = p
        BY <1>4, <3>5 DEF Exit, Served, Return, IInv, BoundaryTypeOK
      <4> QED BY <3>4, <3>5, <4>1
    <3>6. CASE \E head \in Shas : RunHook(q, head) \/ StartTask(q, head)
      <4>1. PICK head \in Shas : RunHook(q, head) \/ StartTask(q, head)
        BY <3>6
      <4>2. call[q] = None
        BY <1>4, <4>1 DEF RunHook, StartTask, Idle, ChatInv, Waiting
      <4>3. \E r : call' = [call EXCEPT ![q] = r]
        BY <4>1 DEF RunHook, StartTask, Call
      <4> QED BY <1>4, <4>2, <4>3 DEF IInv, BoundaryTypeOK
    <3> QED BY <3>2, <3>3, <3>5, <3>6
        DEF Launch, Resumed, Cleared, Reopened, Continued, Parked, Publish, Spawn, Remint
  <2> QED BY <1>4, <2>1, <2>2, CarrySucceeds
<1>5. IInv /\ ChatInv /\ [HistoryNext]_historyVars => [\A p \in Pids : Follows(p)]_historyVars
  BY <1>4
<1> QED BY <1>1, <1>3, <1>5, PTL DEF HistorySpec, BoundaryFollowsClear

=============================================================================
