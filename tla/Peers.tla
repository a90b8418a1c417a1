-------------------------------- MODULE Peers --------------------------------
(***************************************************************************)
(* lets peers: Claude Code sessions address each other by the name they    *)
(* carry in the machine's session registry.  A branch may be bound to an   *)
(* orchestrator name; an orchestrator may hold a standing grant, kept by   *)
(* name in the merge-branch task-state.  orchestrator, who and sender read *)
(* the caller's branch, the registry, the records and the bindings one     *)
(* after another while sessions start, stop, are renamed and resumed, and  *)
(* decide whom a caller talks to and whether one inbound message stands.   *)
(* The hub lists stopped orchestrators from last-seen files and wakes one. *)
(*                                                                         *)
(* A message is what the harness says of it: a claimed name and the pid of *)
(* the sending process.  The two task-state files in play are one value    *)
(* each (the task-state module has the protocol of the writes).            *)
(***************************************************************************)
EXTENDS Naturals, FiniteSets

CONSTANTS
  None,        \* no process, name, branch, message
  Merge,       \* the merge-branch
  Branches,    \* branches, Merge among them
  Main,        \* the main checkout
  Checkouts,   \* the checkouts of this repository, Main among them
  Elsewhere,   \* a directory of another repository
  Pids, Sids,  \* processes and Claude Code session ids
  Names,       \* session names
  Conventional,\* the names of the <repo>-orc[-scope] form
  Starts,      \* the processes a person may start
  Worlds,      \* how things may stand at the start
  Requests,    \* the calls that are made
  MaxCalls,    \* bound on the number of calls
  MaxMoves,    \* bound on the number of outside steps, none after the last call
  MaxMissed    \* bound on the entries one read of the registry misses

Process == [sid : Sids, name : Names \cup {None}, at : Checkouts \cup {Elsewhere},
            job : {"none", "parked", "runs"}]
Messages == [name : Names, pid : Pids]
Seen     == [sid : Sids, pid : Pids]

(* The `orchestrator:` line of a name: none, or its standing; one patch    *)
(* replaces the standing of its own name and no other line.                *)
Standings == {"none", "off", "on"}
Patched(recs, name, standing) == [recs EXCEPT ![name] = standing]

ASSUME PeersAssumption ==
  /\ Pids \subseteq Nat /\ IsFiniteSet(Pids) /\ None \notin Pids \cup Names \cup Branches
  /\ Merge \in Branches /\ Main \in Checkouts /\ Elsewhere \notin Checkouts
  /\ Conventional \subseteq Names
  /\ Starts \subseteq Process
  /\ \A w \in Worlds :
       /\ w.proc \in [Pids -> Process \cup {None}] /\ w.on \in [Checkouts -> Branches]
       /\ w.orc \in [Branches -> Names \cup {None}] /\ w.orc[Merge] = None
       /\ w.record \in [Names -> Standings]
       /\ w.last \in [Names -> Seen \cup {None}]
  /\ Requests \subseteq [op : {"orchestrator", "who", "sender", "grant", "hub"},
                         message : Messages \cup {None}, pid : Pids,
                         standing : {"on", "off"}]
  /\ \A r \in Requests : /\ (r.op = "sender" => r.message # None)
                        /\ (r.op \in {"grant", "hub"} => r.message = None)

VARIABLES
  proc,     \* the Claude Code process of each pid, or None
  on,       \* the branch of each checkout
  orc,      \* the orchestrator name each branch is bound to, or None
  record,   \* each name's orchestrator record: "none", "off" or "on"
  last,     \* each name's last-seen file, or None
  call,     \* the call in progress
  calls, moves

world == <<proc, on, orc, record>>
vars  == <<world, last, call, calls, moves>>

NoCall == [pc |-> "idle", op |-> "none", pid |-> 0, sid |-> None, dir |-> None,
           own |-> None, message |-> None, standing |-> "off", branch |-> None,
           todo |-> {}, listed |-> [p \in Pids |-> None], missed |-> {}, wide |-> TRUE,
           recs |-> [n \in Names |-> "none"], orcs |-> [p \in Pids |-> None],
           found |-> {}, source |-> "none", target |-> None, stands |-> FALSE, seen |-> None,
           sure |-> TRUE, still |-> TRUE, bound |-> None, held |-> {}, steady |-> {}]

(* Type correctness.                                                       *)
PeersTypeOK ==
  /\ proc \in [Pids -> Process \cup {None}]
  /\ on \in [Checkouts -> Branches]
  /\ orc \in [Branches -> Names \cup {None}] /\ orc[Merge] = None
  /\ record \in [Names -> Standings]
  /\ last \in [Names -> Seen \cup {None}]
  /\ calls \in 0..MaxCalls /\ moves \in 0..MaxMoves
  /\ DOMAIN call = DOMAIN NoCall
  /\ call.pc # "idle" => call.pid \in Pids /\ call.sid \in Sids
  /\ call.target \in Names \cup {None}

-----------------------------------------------------------------------------
(* The registry, as one read of it lists the live processes L.             *)

Live(L) == {p \in Pids : L[p] # None}

(* A parked session stands for nothing once the background job it was      *)
(* parked into runs under the same name as another session.                *)
Continued(L, p) ==
  /\ L[p].job = "parked"
  /\ \E q \in Live(L) : /\ L[q].job = "runs" /\ L[q].name = L[p].name
                        /\ L[q].sid # L[p].sid

Named(L, n) == {p \in Live(L) : L[p].name = n /\ ~Continued(L, p)}

FirstOf(S) == CHOOSE p \in S : \A q \in S : p <= q
LastOf(S)  == CHOOSE p \in S : \A q \in S : q <= p

SessionsNamed(L, n) == {L[p].sid : p \in Named(L, n)}

Find(L, s) ==
  LET here == {p \in Live(L) : L[p].sid = s}
  IN  IF here = {} THEN None ELSE FirstOf(here)

(* This repository's rows: one process for each session id, the first that *)
(* is not collapsed.  Without git's worktree list only the main checkout   *)
(* is known.                                                               *)
Rows(L, wide) ==
  LET kept == {p \in Live(L) : /\ L[p].at \in (IF wide THEN Checkouts ELSE {Main})
                               /\ L[p].name # None => p \in Named(L, L[p].name)}
  IN  {p \in kept : \A q \in kept : L[q].sid = L[p].sid => p <= q}

(* The rows that are orchestrators: the recorded names, or else the        *)
(* conventional ones.                                                      *)
OrchestratorRows(L, rows, recs) ==
  LET recorded == {p \in rows : L[p].name # None /\ recs[L[p].name] # "none"}
  IN  IF recorded # {} THEN recorded
      ELSE {p \in rows : L[p].name \in Conventional}

(* Deviation: a row of the sender's session stands for the sender.         *)
RepoRowOfSession(L, rows, p) == {r \in rows : L[r].sid = L[p].sid}

RepoRowOf(L, rows, p) ==
  {r \in rows : L[r].sid = L[p].sid /\ L[r].name = L[p].name /\ r = p}

(* Is the session running?  The recorded pid counts when no listed process *)
(* has the id.                                                             *)
(* Deviation: the recorded pid is asked first.                             *)
LivenessByPid(L, missed, sid, pid) ==
  IF pid \in missed THEN "unknown"
  ELSE IF pid \in Live(L) /\ L[pid].sid = sid THEN "alive" ELSE "dead"

Liveness(L, missed, sid, pid) ==
  IF Find(L, sid) # None THEN "alive"
  ELSE IF pid \in missed THEN "unknown" ELSE "dead"

-----------------------------------------------------------------------------
(* What is noted of a call while the world moves on: was it still, is the  *)
(* caller's binding what it was, which processes have run the session to   *)
(* wake all along; and what held at some moment:                           *)
(*   <<"at", d>>     the message's process carried the claimed name, in d; *)
(*   <<"free", q>>   another process q did not carry it, or was parked;    *)
(*   <<"on", c>>     then, or later, the worker's checkout was on c;       *)
(*   <<"bound", c>>  then, or later, c was bound to the orchestrator;      *)
(*   <<"grant", n>>  the orchestrator's name had its standing grant;       *)
(*   <<"own", s>>    the caller's session carried the orchestrator's name; *)
(*   <<"not", q>>    q did not carry that name, or was parked.             *)

BindingAt(d, o, b) == IF d \in Checkouts THEN b[o[d]] ELSE None

Carries(P, p, n) == P[p] # None /\ P[p].name = n
Yields(P, p, n)  == Carries(P, p, n) => P[p].job = "parked"

Orchestrator(k) == IF k.op = "who" THEN k.own ELSE k.message.name

CarriedAt(k, P) ==
  LET m == k.message
  IN  IF Carries(P, m.pid, m.name) THEN {<<"at", P[m.pid].at>>} ELSE {}

SeenOn(k, h, o) == {<<"on", o[d]>> : d \in {d \in Checkouts :
                   IF k.op = "who" THEN <<"at", d>> \in h ELSE d = k.dir}}

SeenBound(k, h, b) == {<<"bound", c>> : c \in {c \in Branches :
                      b[c] = Orchestrator(k) /\ <<"on", c>> \in h}}

SeenFree(k, P) ==
  LET m == k.message  n == Orchestrator(k)
  IN  {<<"free", q>> : q \in {q \in Pids \ {m.pid} : Yields(P, q, m.name)}} \cup
      {<<"not", q>> : q \in {q \in Pids : k.op = "who" /\ Yields(P, q, n)}} \cup
      {<<"own", P[q].sid>> : q \in {q \in Pids : k.op = "who" /\ Carries(P, q, n)}}

SeenGrant(k, r) ==
  IF r[Orchestrator(k)] = "on" THEN {<<"grant", Orchestrator(k)>>} ELSE {}

(* What is held of a call once more in a world of these processes,         *)
(* branches, bindings and records.                                         *)
Facts(k, P, o, b, r) ==
  IF k.message = None THEN {} ELSE
  LET at == k.held \cup CarriedAt(k, P)
      was == at \cup SeenOn(k, at, o)
  IN  was \cup SeenBound(k, was, b) \cup SeenFree(k, P) \cup SeenGrant(k, r)

Noted(k) ==
  IF k.pc = "idle" THEN k ELSE
  [k EXCEPT !.still = FALSE,
            !.bound = IF BindingAt(k.dir, on', orc') = @ /\ on'[k.dir] = on[k.dir]
                      THEN @ ELSE None,
            !.held = Facts(k, proc', on', orc', record'),
            !.steady = {p \in @ : proc'[p] = proc[p]}]

Moved == /\ moves < MaxMoves /\ moves' = moves + 1
         /\ call.pc # "told" /\ (calls < MaxCalls \/ call.pc # "idle")
         /\ call' = Noted(call) /\ UNCHANGED <<last, calls>>

-----------------------------------------------------------------------------
(* One call.                                                               *)

(* The orchestrator rows a call found; of what else it read no step after  *)
(* the answer makes use.                                                   *)
Found == LET L == call.listed
         IN  {[name |-> L[p].name, sid |-> L[p].sid, pid |-> p] :
                p \in OrchestratorRows(L, Rows(L, call.wide), call.recs)}

Settled(k) == [k EXCEPT !.listed = NoCall.listed, !.recs = NoCall.recs, !.orcs = NoCall.orcs]

At(pc)    == call.pc = pc
Goto(pc)  == call' = [call EXCEPT !.pc = pc]
Quiet     == UNCHANGED <<world, last, calls, moves>>

FirstStep(op) == IF op = "orchestrator" THEN "branch" ELSE "registry"

(* A session makes a call; it may do so about a message it was sent.       *)
Begin ==
  /\ At("idle") /\ calls < MaxCalls /\ calls' = calls + 1
  /\ \E r \in Requests :
       /\ proc[r.pid] # None /\ proc[r.pid].at \in Checkouts
       /\ r.op = "who" => proc[r.pid].name # None
       /\ LET k == [NoCall EXCEPT !.pc = FirstStep(r.op), !.op = r.op, !.pid = r.pid,
                      !.sid = proc[r.pid].sid, !.dir = proc[r.pid].at,
                      !.own = proc[r.pid].name,
                      !.message = r.message, !.standing = r.standing,
                      !.bound = BindingAt(proc[r.pid].at, on, orc)]
          IN  call' = [k EXCEPT !.held = Facts(k, proc, on, orc, record)]
  /\ UNCHANGED <<world, last, moves>>

(* git is given a second for the caller's branch.                          *)
ReadBranch ==
  /\ At("branch") /\ Quiet
  /\ \E b \in {on[call.dir], None} : call' = [call EXCEPT !.pc = "registry", !.branch = b]

(* A read of the registry lists its files, those that dead processes left  *)
(* among them, and then reads one after another, in that order.            *)
ReadRegistry ==
  /\ At("registry") /\ Quiet
  /\ \E files \in SUBSET Pids :
       /\ Live(proc) \subseteq files
       /\ call' = [call EXCEPT !.pc = "entries", !.todo = files,
                               !.listed = NoCall.listed, !.missed = {}]

(* A live process's file is read, or cannot be.                            *)
ReadEntry ==
  /\ At("entries") /\ call.todo # {} /\ Quiet
  /\ LET p == FirstOf(call.todo)
     IN  \/ call' = [call EXCEPT !.todo = @ \ {p}, !.listed[p] = proc[p]]
         \/ /\ proc[p] # None /\ Cardinality(call.missed) < MaxMissed
            /\ call' = [call EXCEPT !.todo = @ \ {p}, !.missed = @ \cup {p}]

(* The registry is read: git's worktree list is asked, or not, and then    *)
(* the merge-branch's records.                                             *)
ReadRecords ==
  /\ At("entries") /\ call.todo = {} /\ call.op # "grant" /\ call.seen = None /\ Quiet
  /\ \E wide \in BOOLEAN :
       call' = [call EXCEPT
         !.wide = wide, !.recs = record,
         !.todo = IF call.op = "who" THEN Rows(call.listed, wide) ELSE {},
         !.pc = CASE call.op = "hub" -> "stopped" [] call.op = "sender" -> "answer"
                  [] call.op = "who" -> "rows"
                  [] OTHER -> IF call.branch = None THEN "again" ELSE "resolve"]

(* Row after row, the branch of its checkout, or nothing ...               *)
ReadRowBranch ==
  /\ At("rows") /\ call.todo # {} /\ Quiet
  /\ \E b \in {on[call.listed[FirstOf(call.todo)].at], None} :
       call' = [call EXCEPT !.pc = "row", !.branch = b, !.sure = @ /\ b # None]

(* ... and then what that branch is bound to, or nothing.  (A call that    *)
(* asks for an orchestrator or a sender reads the rows too and uses        *)
(* neither.)                                                               *)
ReadRowBinding ==
  /\ At("row") /\ Quiet
  /\ LET p == FirstOf(call.todo)
     IN  \E answers \in BOOLEAN :
           call' = [call EXCEPT
             !.pc = "rows", !.todo = @ \ {p}, !.branch = None, !.sure = @ /\ answers,
             !.orcs[p] = IF answers /\ call.branch # None THEN orc[call.branch] ELSE None]

(* The process a message came from: the one that carries the claimed name, *)
(* when the registry was read in full and its pid is the message's.        *)
StandingSender(m) ==
  IF call.missed = {} /\ Named(call.listed, m.name) = {m.pid} THEN m.pid ELSE None

(* Whom the caller's branch means: bound, self, single, ambiguous or none. *)
(* Deviation: a bound name that does not run is passed over.               *)
ResolutionPassing(bound, late) ==
  LET L == call.listed
      orchs == OrchestratorRows(L, Rows(L, call.wide), call.recs)
      others == {p \in orchs : L[p].sid # call.sid}
  IN  IF bound # None /\ Cardinality(SessionsNamed(L, bound)) = 1 THEN <<"bound", bound>>
      ELSE IF orchs # others THEN <<"self", L[FirstOf(orchs \ others)].name>>
      ELSE IF late THEN <<"late", None>>
      ELSE IF Cardinality(others) = 1 THEN <<"single", L[FirstOf(others)].name>>
      ELSE <<"none", None>>

(* Deviation: a caller that is an orchestrator itself is asked first.      *)
ResolutionSelfFirst(bound, late) ==
  LET L == call.listed
      mine == {p \in OrchestratorRows(L, Rows(L, call.wide), call.recs) : L[p].sid = call.sid}
  IN  IF mine # {} THEN <<"self", L[FirstOf(mine)].name>>
      ELSE IF bound # None /\ Cardinality(SessionsNamed(L, bound)) = 1
      THEN <<"bound", bound>> ELSE <<"none", None>>

Resolution(bound, late) ==
  LET L == call.listed
      orchs == OrchestratorRows(L, Rows(L, call.wide), call.recs)
      mine == {p \in orchs : L[p].sid = call.sid}
      others == orchs \ mine
  IN  CASE bound # None ->
             <<"bound", IF Cardinality(SessionsNamed(L, bound)) = 1 THEN bound ELSE None>>
        [] bound = None /\ mine # {} -> <<"self", L[FirstOf(mine)].name>>
        [] bound = None /\ mine = {} /\ late -> <<"late", None>>
        [] bound = None /\ mine = {} /\ ~late /\ others = {} -> <<"none", None>>
        [] bound = None /\ mine = {} /\ ~late /\ Cardinality(others) = 1 /\ call.missed = {} ->
             <<"single", L[FirstOf(others)].name>>
        [] OTHER -> <<"ambiguous", None>>

(* May a worker act on its orchestrator's message without its user?        *)
FromOrchestrator(m, source, target) ==
  LET p == StandingSender(m)  L == call.listed
  IN  /\ p # None /\ source = "bound" /\ target = m.name
      /\ RepoRowOf(L, Rows(L, call.wide), p) # {}
      /\ call.recs[m.name] = "on"

(* May an orchestrator answer a worker's message without its user?         *)
FromWorker(m) ==
  LET p == StandingSender(m)  L == call.listed  me == Find(L, call.sid)
  IN  /\ p # None /\ me # None
      /\ L[me].name = call.own /\ Cardinality(Named(L, call.own)) = 1
      /\ call.recs[call.own] = "on"
      /\ \E r \in RepoRowOf(L, Rows(L, call.wide), p) : call.orcs[r] = call.own

(* orchestrator: a branch that was not read is asked for again in what is  *)
(* left of 2.5 s.                                                          *)
ReadAgain ==
  /\ At("again") /\ Quiet
  /\ \E b \in {on[call.dir], None} : call' = [call EXCEPT !.pc = "resolve", !.branch = b]

(* Its binding is read; then the answer, before last-seen is refreshed.    *)
Resolve ==
  /\ At("resolve") /\ Quiet
  /\ \E late \in BOOLEAN, answers \in BOOLEAN :
       LET b == call.branch
           bound == IF answers /\ b # None THEN orc[b] ELSE None
           res == Resolution(bound, late)
       IN  call' = [Settled(call) EXCEPT
             !.pc = "refresh", !.found = Found, !.source = res[1], !.target = res[2],
             !.sure = @ /\ answers /\ b # None,
             !.stands = call.message # None
                        /\ FromOrchestrator(call.message, res[1], res[2])]

(* who: the list, and the answer about the message.                        *)
Who ==
  /\ At("rows") /\ call.todo = {} /\ Quiet
  /\ call' = [Settled(call) EXCEPT
       !.pc = "refresh", !.found = Found,
       !.stands = call.message # None /\ FromWorker(call.message)]

(* sender: is a message of any repository from whom it says?               *)
Sender ==
  /\ At("answer") /\ Quiet
  /\ call' = [Settled(call) EXCEPT
       !.pc = "told", !.stands = StandingSender(call.message) # None]

(* The last-seen files of the orchestrator rows are written one by one     *)
(* under peers.lock; a busy lock, a failed write or a kill leaves some or  *)
(* all as they were.                                                       *)
Refresh ==
  /\ At("refresh") /\ UNCHANGED <<world, calls, moves>> /\ Goto("told")
  /\ \E written \in SUBSET call.found :
       last' = [n \in Names |->
         LET rows == {w.pid : w \in {w \in written : w.name = n}}
         IN  IF rows = {} THEN last[n]
             ELSE CHOOSE seen \in Seen :
                    \E w \in written : /\ w.pid = LastOf(rows) /\ w.pid = seen.pid
                                       /\ w.sid = seen.sid]

Return == /\ At("told") /\ Quiet /\ call' = NoCall

(* task-state set --self-orchestrator --standing: the name of the process  *)
(* that runs the command, carried by it alone unless the grant is only     *)
(* taken back; then the record of that name.                               *)
SelfName ==
  /\ At("entries") /\ call.todo = {} /\ call.op = "grant" /\ Quiet
  /\ LET L  == call.listed
         me == L[call.pid]
         ok == /\ me # None /\ me.sid = call.sid /\ me.name # None
               /\ L[Find(L, call.sid)].name # None
               /\ call.standing = "off" \/ Cardinality(Named(L, me.name)) <= 1
     IN  call' = IF ok THEN [Settled(call) EXCEPT !.pc = "patch", !.own = me.name] ELSE NoCall

PatchRecord ==
  /\ At("patch") /\ UNCHANGED <<proc, on, orc, last, calls, moves>>
  /\ \/ record' = Patched(record, call.own, call.standing) /\ call' = NoCall
     \/ UNCHANGED record /\ call' = NoCall     \* a busy lock or a failed write

(* The hub lists the last-seen orchestrators that do not run; a person     *)
(* picks one to wake, or to ask.                                           *)
Stopped ==
  /\ At("stopped") /\ Quiet
  /\ LET L == call.listed
         orchs == OrchestratorRows(L, Rows(L, call.wide), call.recs)
         none == \A n \in Names : call.recs[n] = "none"
     IN  \/ \E n \in Names :
              /\ last[n] # None /\ (none \/ call.recs[n] # "none")
              /\ \A p \in orchs : L[p].name # n
              /\ call' = [Settled(call) EXCEPT !.pc = "registry", !.own = n, !.seen = last[n],
                            !.steady = {p \in Live(proc) : proc[p].sid = last[n].sid}]
         \/ call' = [Settled(call) EXCEPT !.pc = "told"]

(* wake and ask-ro read the registry once more, then look for the tools.   *)
Gate ==
  /\ At("entries") /\ call.todo = {} /\ call.seen # None /\ Quiet
  /\ call' = [Settled(call) EXCEPT
       !.pc = IF Liveness(call.listed, call.missed, call.seen.sid, call.seen.pid) = "dead"
              THEN "create" ELSE "told"]

(* A terminal is created that resumes the session in a new process.        *)
Create ==
  /\ At("create") /\ UNCHANGED <<on, orc, record, last, calls, moves>>
  /\ \E p \in Pids :
       /\ proc[p] = None
       /\ proc' = [proc EXCEPT ![p] = [sid |-> call.seen.sid, name |-> call.own,
                                       at |-> Main, job |-> "none"]]
  /\ call' = [call EXCEPT !.pc = "told", !.source = "woken"]

CreateFails == At("create") /\ Quiet /\ Goto("told")

(* A read-only ask forks the session under an id of its own and leaves     *)
(* nothing behind.                                                         *)
AskedOnly == At("create") /\ Quiet /\ call' = [call EXCEPT !.pc = "told", !.source = "asked"]

Dies == ~At("idle") /\ Quiet /\ call' = NoCall

-----------------------------------------------------------------------------
(* Meanwhile: sessions, people and other calls of lets.                    *)

SessionStarts(p, s) == /\ proc[p] = None /\ proc' = [proc EXCEPT ![p] = s]
                       /\ UNCHANGED <<on, orc, record>> /\ Moved

SessionEnds(p) == /\ proc[p] # None /\ proc' = [proc EXCEPT ![p] = None]
                  /\ UNCHANGED <<on, orc, record>> /\ Moved

Renamed(p, n) == /\ proc[p] # None /\ proc[p].name # n
                 /\ proc' = [proc EXCEPT ![p].name = n]
                 /\ UNCHANGED <<on, orc, record>> /\ Moved

Parked(p, q) ==        \* a session goes on as a background job under its name
  /\ proc[p] # None /\ proc[p].job = "none" /\ proc[q] = None
  /\ \E s \in Sids \ {proc[r].sid : r \in Live(proc)} :
       proc' = [proc EXCEPT ![p].job = "parked",
                            ![q] = [proc[p] EXCEPT !.sid = s, !.job = "runs"]]
  /\ UNCHANGED <<on, orc, record>> /\ Moved

Switched(d, b) == /\ \A e \in Checkouts : on[e] # b
                  /\ on' = [on EXCEPT ![d] = b]
                  /\ UNCHANGED <<proc, orc, record>> /\ Moved

Bound(b, n) == /\ b # Merge /\ orc[b] # n /\ orc' = [orc EXCEPT ![b] = n]
               /\ UNCHANGED <<proc, on, record>> /\ Moved

Recorded(n, s) ==      \* --orchestrator, --standing off and --clear-orchestrator
  /\ record[n] # s /\ s # "on" /\ record' = Patched(record, n, s)
  /\ UNCHANGED <<proc, on, orc>> /\ Moved

Init ==
  /\ \E w \in Worlds : /\ proc = w.proc /\ on = w.on /\ orc = w.orc
                      /\ record = w.record /\ last = w.last
  /\ call = NoCall /\ calls = 0 /\ moves = 0

CallStep == \/ Begin \/ ReadBranch \/ ReadRegistry \/ ReadEntry \/ ReadRecords
            \/ ReadRowBranch \/ ReadRowBinding \/ ReadAgain
            \/ Resolve \/ Who \/ Sender \/ Refresh \/ Return
            \/ SelfName \/ PatchRecord
            \/ Stopped \/ Gate \/ Create \/ CreateFails \/ AskedOnly \/ Dies

WorldStep ==
  \/ \E p \in Pids, s \in Starts : SessionStarts(p, s)
  \/ \E p \in Pids : SessionEnds(p)
  \/ \E p \in Pids, n \in Names : Renamed(p, n)
  \/ \E p, q \in Pids : Parked(p, q)
  \/ \E d \in Checkouts, b \in Branches : Switched(d, b)
  \/ \E b \in Branches, n \in Names \cup {None} : Bound(b, n)
  \/ \E n \in Names, s \in {"none", "off"} : Recorded(n, s)

Next == CallStep \/ WorldStep

Spec == Init /\ [][Next]_vars
-----------------------------------------------------------------------------
(* Correctness.                                                            *)

Told == call.pc \in {"refresh", "told"}

HeldSender(k) ==
  /\ \E fact \in k.held : fact[1] = "at"
  /\ \A q \in Pids \ {k.message.pid} : <<"free", q>> \in k.held

HeldBinding(k) ==
  /\ \E d \in Checkouts : <<"at", d>> \in k.held
  /\ \E c \in Branches : <<"on", c>> \in k.held /\ <<"bound", c>> \in k.held
  /\ <<"grant", Orchestrator(k)>> \in k.held

HeldOwn(k) ==
  /\ <<"own", k.sid>> \in k.held
  /\ \A p, q \in Pids : p # q => <<"not", p>> \in k.held \/ <<"not", q>> \in k.held

(* However the world moves between the reads, a message is let through     *)
(* without its user only on facts each of which was true at some moment of *)
(* the call: its process carried the claimed name, in this repository; no  *)
(* other process carried it all the while; the worker's checkout was on a  *)
(* branch and that branch, then or later, was bound to the orchestrator;   *)
(* the grant was recorded; who answers carried the orchestrator's name,    *)
(* and no two processes did all the while (standingFromOrchestrator,       *)
(* standingFromWorker, Sender).                                            *)
StandingGrounded ==
  Told /\ call.stands =>
    /\ HeldSender(call)
    /\ call.op # "sender" => HeldBinding(call)
    /\ call.op = "who" => HeldOwn(call)

(* As things stand, a message comes from whom it says; and the worker it   *)
(* comes from, or is sent to, is bound to an orchestrator with the grant.  *)
SenderNow(m) == Named(proc, m.name) = {m.pid}

BoundNow(k) ==
  LET m == k.message  n == Orchestrator(k)
  IN  /\ proc[m.pid].at \in Checkouts /\ record[n] = "on"
      /\ BindingAt(IF k.op = "who" THEN proc[m.pid].at ELSE k.dir, on, orc) = n

OwnNow(k) == /\ \E p \in Live(proc) : proc[p].sid = k.sid /\ proc[p].name = k.own
             /\ Cardinality(Named(proc, k.own)) = 1

(* And the answer is not false for nothing: where nothing moves, every     *)
(* read answers and no session runs twice, a message that has all of that  *)
(* is let through.                                                         *)
StandingAnswered ==
  /\ Told /\ call.message # None /\ call.still /\ call.sure
  /\ call.missed = {} /\ call.wide
  /\ \A p, q \in Live(proc) : proc[p].sid = proc[q].sid => p = q
  /\ SenderNow(call.message)
  /\ call.op # "sender" => BoundNow(call)
  /\ call.op = "who" => OwnNow(call)
  => call.stands

(* A branch that stays bound to one name while the call runs, and whose    *)
(* binding can be read, leads to that name or to nobody (Resolution: the   *)
(* bound source comes first and refuses).                                  *)
BoundIsKept ==
  Told /\ call.op = "orchestrator" /\ call.bound # None /\ call.sure
  => call.source = "bound" /\ call.target \in {call.bound, None}

(* A session that one process has run since the hub listed it as stopped   *)
(* is not resumed beside it, unless its entry could not be read and it is  *)
(* not the process last-seen recorded (Wake, AskRO: main_alive,            *)
(* liveness_unknown).                                                      *)
RunningMainKeptAlone ==
  call.source \in {"woken", "asked"} =>
    \A p \in call.steady : p \in call.missed /\ p # call.seen.pid
=============================================================================
