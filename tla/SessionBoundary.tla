--------------------------- MODULE SessionBoundary ---------------------------
(***************************************************************************)
(* Who owns the session: line of one worktree's task-state file.           *)
(*                                                                         *)
(* Claude Code processes start, /clear, resume, are parked into a          *)
(* background job and die; the session registry follows them, sometimes    *)
(* late, sometimes half-written.  Every start fires the SessionStart hook, *)
(* and /lets:start writes the line explicitly.  Each of these reads the    *)
(* registry ONCE, and only then waits for the file's lock (sessionGuardFn, *)
(* then MergeWrite): between the two the world moves on.                   *)
(*                                                                         *)
(* The file itself is used as TaskStore specifies it: TaskState shows that *)
(* the locked protocol implements that store, so a call here takes effect  *)
(* at one instant, or not at all.                                          *)
(***************************************************************************)
EXTENDS TaskFile, FiniteSets

CONSTANTS
  Initially, \* the contents the file may start with
  Lags,      \* a registry file may trail its process, and outlive it
  Garbles,   \* a file may be read half-written, or be of another peerProtocol
  Shares     \* one session id may run in two processes at once

ASSUME LagsIsBoolean    == Lags \in BOOLEAN
ASSUME GarblesIsBoolean == Garbles \in BOOLEAN
ASSUME SharesIsBoolean  == Shares \in BOOLEAN
ASSUME SomeSlug         == Slugs # {}
(* A proof that is there at the start would be of a process not modelled.  *)
ASSUME StartsUnproven   == /\ Initially \subseteq File
                           /\ \A f \in Initially : f = NoFile \/ f.session_proof = None

VARIABLES
  file,      \* slug -> contents
  call,      \* pid -> the command its session waits for, or None
  claude,    \* pid -> the Claude Code process that runs there, or None
  reg,       \* pid -> its registry file, or None; it may outlive the process
  hook,      \* pid -> the source of the hook it is about to run, or None
  clock,     \* startedAt of the latest process
  held,      \* history: <<pid, startedAt, sid>> of every session a process ran
  seen       \* history: pid -> live sessions with a registry file when its
             \* startup hook looked

vars == <<file, call, claude, reg, hook, clock, held, seen>>

worldVars == <<claude, reg, hook, clock, held>>

wt == CHOOSE s \in Slugs : TRUE      \* the worktree's branch slug

Up == {p \in Pids : claude[p] # None}

Used == {h[3] : h \in held}

Running(sid) == {p \in Up : claude[p].sid = sid}

Idle(p) == hook[p] = None /\ call[p] = None

Process == [sid: Sids, at: 1..MaxAt, loose: BOOLEAN,
            job: Opt(Jobs), parked: Opt(Jobs)]

ASSUME AbsenceIsNoValue ==
  /\ None \notin Sids \cup Boundary \cup Process \cup Row \cup Proof
                      \cup HookReq \cup SetReq \cup {"startup", "clear", "resume"}
  /\ NoFile \notin State

RowOf(p, c) == [pid |-> p, sid |-> c.sid, at |-> c.at, loose |-> c.loose,
                job |-> c.job, parked |-> c.parked]

Listed == {p \in Up : reg[p] # None}

(* What one ccregistry.Read returns: files of dead pids are skipped, those *)
(* caught half-written are counted, but cannot be read.                    *)
Registry(torn) ==
  [absent |-> FALSE, garbled |-> torn # {}, rows |-> {reg[p] : p \in Listed \ torn}]

Readings == {Registry(torn) : torn \in IF Garbles THEN SUBSET Listed ELSE {{}}}

-----------------------------------------------------------------------------

Init ==
  /\ file \in [Slugs -> Initially]
  /\ call   = [p \in Pids |-> None]
  /\ claude = [p \in Pids |-> None]
  /\ reg    = [p \in Pids |-> None]
  /\ hook   = [p \in Pids |-> None]
  /\ clock  = 0
  /\ held   = {}
  /\ seen   = [p \in Pids |-> {}]

(* p now runs as c: its registry file follows at once, or later.           *)
Becomes(p, c) ==
  /\ claude' = [claude EXCEPT ![p] = c]
  /\ held'   = held \cup {<<p, c.at, c.sid>>}
  /\ \/ reg' = [reg EXCEPT ![p] = RowOf(p, c)]
     \/ Lags /\ UNCHANGED reg

(* A new process, of this peerProtocol or another, with a fresh stamp.     *)
Spawn(p, sid, job, source) ==
  /\ claude[p] = None /\ Idle(p)
  /\ clock < MaxAt
  /\ clock' = clock + 1
  /\ \E loose \in {FALSE, Garbles} :
       Becomes(p, [sid |-> sid, at |-> clock + 1, loose |-> loose, job |-> job, parked |-> None])
  /\ hook' = [hook EXCEPT ![p] = source]
  /\ UNCHANGED <<file, call, seen>>

Launch(p, sid) == sid \notin Used /\ Spawn(p, sid, None, "startup")

(* claude -r: the same id in a new process.                                *)
Resumed(p, sid) ==
  /\ sid \in Used
  /\ Shares \/ Running(sid) = {}
  /\ Spawn(p, sid, None, "resume")

(* /clear and the in-session /resume: another id in the same process.      *)
Remint(p, sid, source) ==
  /\ p \in Up /\ Idle(p)
  /\ Becomes(p, [claude[p] EXCEPT !.sid = sid])
  /\ hook' = [hook EXCEPT ![p] = source]
  /\ UNCHANGED <<file, call, clock, seen>>

Cleared(p, sid) == sid \notin Used /\ Remint(p, sid, "clear")

Reopened(p, sid) ==
  /\ sid \in Used
  /\ p \in Up /\ claude[p].sid # sid
  /\ Shares \/ Running(sid) = {}
  /\ Remint(p, sid, "resume")

(* A session is parked into a background job; the job is a session of its  *)
(* own, launched by a process of its own (Launch with that job).           *)
Parked(p, job) ==
  /\ p \in Up /\ Idle(p)
  /\ claude[p].parked = None /\ claude[p].job = None
  /\ \A q \in Up : job \notin {claude[q].parked, claude[q].job}
  /\ Becomes(p, [claude[p] EXCEPT !.parked = job])
  /\ UNCHANGED <<file, call, hook, clock, seen>>

Continued(p, sid, job) ==
  /\ sid \notin Used
  /\ \E q \in Up : claude[q].parked = job
  /\ \A q \in Up : claude[q].job # job
  /\ Spawn(p, sid, job, "startup")

(* The registry catches up.                                                *)
Publish(p) ==
  /\ p \in Up
  /\ reg[p] # RowOf(p, claude[p])
  /\ reg' = [reg EXCEPT ![p] = RowOf(p, claude[p])]
  /\ UNCHANGED <<file, call, claude, hook, clock, held, seen>>

(* The process ends, at any moment, with the command it runs; its registry *)
(* file may stay behind, for the next process with that pid.               *)
Exit(p) ==
  /\ p \in Up
  /\ claude' = [claude EXCEPT ![p] = None]
  /\ \/ reg' = [reg EXCEPT ![p] = None]
     \/ Lags /\ UNCHANGED reg
  /\ hook' = [hook EXCEPT ![p] = None]
  /\ call' = [call EXCEPT ![p] = None]
  /\ seen' = [seen EXCEPT ![p] = {}]
  /\ UNCHANGED <<file, clock, held>>

-----------------------------------------------------------------------------
(* The commands.                                                           *)

(* The live sessions that have a registry file, readable or not: what a    *)
(* read of this moment should be able to defend.                           *)
Visible == {claude[p].sid : p \in {q \in Up : reg[q] # None /\ reg[q].sid = claude[q].sid}}

Call(p, r) ==
  /\ call' = [call EXCEPT ![p] = r]
  /\ seen' = [seen EXCEPT ![p] = IF r.kind = "startup" THEN Visible ELSE {}]

Return(p) ==
  /\ call' = [call EXCEPT ![p] = None]
  /\ seen' = [seen EXCEPT ![p] = {}]

(* The SessionStart hook reads the registry and HEAD (whatever commit is   *)
(* checked out by then), then queues for the lock.                         *)
RunHook(p, head) ==
  /\ p \in Up /\ hook[p] # None
  /\ \E snap \in Readings :
       Call(p, [kind |-> hook[p], slug |-> wt, own |-> claude[p].sid, pid |-> p,
                head |-> head, snap |-> snap])
  /\ hook' = [hook EXCEPT ![p] = None]
  /\ UNCHANGED <<file, claude, reg, clock, held>>

(* /lets:start: task-state set --session-sha HEAD --session-id own.        *)
StartTask(p, head) ==
  /\ p \in Up /\ Idle(p)
  /\ \E snap \in Readings :
       Call(p, [kind |-> "set", slug |-> wt, create |-> TRUE, task |-> None, start |-> None,
                orc |-> None, clear |-> {}, snap |-> snap,
                session |-> [sha |-> head, sid |-> claude[p].sid],
                proof |-> OwnProof(snap, p, claude[p].sid)])
  /\ UNCHANGED <<file, worldVars>>

(* The command's one instant on the file.                                  *)
Served(p) ==
  /\ call[p] # None
  /\ file' = [file EXCEPT ![wt] = Decide(call[p], file[wt]).file]
  /\ Return(p)
  /\ UNCHANGED worldVars

(* The lock stayed busy for the whole deadline, or a write failed.         *)
Refused(p) ==
  /\ call[p] # None
  /\ Return(p)
  /\ UNCHANGED <<file, worldVars>>

-----------------------------------------------------------------------------

Proceeds ==
  \E p \in Pids :
    \/ \E sid \in Sids : \/ Launch(p, sid) \/ Resumed(p, sid)
                         \/ Cleared(p, sid) \/ Reopened(p, sid)
                         \/ \E job \in Jobs : Continued(p, sid, job)
    \/ \E job \in Jobs : Parked(p, job)
    \/ Publish(p) \/ Exit(p)
    \/ \E head \in Shas : RunHook(p, head) \/ StartTask(p, head)
    \/ Served(p)

Next == Proceeds \/ \E p \in Pids : Refused(p)

Spec == Init /\ [][Next]_vars

-----------------------------------------------------------------------------
(* Properties.                                                             *)

BoundaryTypeOK ==
  /\ file \in [Slugs -> File]
  /\ call \in [Pids -> Opt(HookReq \cup SetReq)]
  /\ claude \in [Pids -> Opt(Process)]
  /\ reg \in [Pids -> Opt(Row)]
  /\ hook \in [Pids -> Opt({"startup", "clear", "resume"})]
  /\ clock \in 0..MaxAt
  /\ held \subseteq Pids \X (1..MaxAt) \X Sids
  /\ seen \in [Pids -> SUBSET Sids]

Owner(f) == IF f = NoFile THEN None ELSE StoredSession(f)

(* The call of p takes effect in this step and rewrites the file.          *)
Writes(p, kinds) ==
  /\ call[p] # None /\ call[p].kind \in kinds
  /\ call'[p] = None /\ file' # file

(* A proof that binds to the recorded session names a process that really  *)
(* ran it, across stale registry files and reused pids: everything the     *)
(* guard later concludes from the proof rests on this.                     *)
ProofTruthful ==
  file[wt] # NoFile =>
    LET proof == StoredProof(file[wt])
    IN proof # None => <<proof.pid, proof.at, proof.sid>> \in held

(* "It writes ONLY on proof": after /clear the boundary moves only between *)
(* two ids of one and the same process (or into the job the session was    *)
(* parked into), whatever the registry showed.                             *)
CarryIsProven ==
  [][\A p \in Pids : Writes(p, {"clear"}) =>
       LET old == Owner(file[wt])
           new == Owner(file'[wt])
       IN \/ \E q \in Pids, at \in 1..MaxAt : {<<q, at, old>>, <<q, at, new>>} \subseteq held
          \/ ContinuedIn(call[p].snap, old, new)]_vars

(* A new session never takes the boundary of a session that ran, with a    *)
(* registry file readable or not, when its hook looked: it is held, or     *)
(* continued in the taker's own job.                                       *)
ListedBoundaryHeld ==
  [][\A p \in Pids : Writes(p, {"startup"}) =>
       LET old == Owner(file[wt])
       IN old \in seen[p] => ContinuedIn(call[p].snap, old, call[p].own)]_vars

=============================================================================
