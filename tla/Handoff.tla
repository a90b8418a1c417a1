------------------------------- MODULE Handoff -------------------------------
(***************************************************************************)
(* lets handoff send: a one-line pointer to a brief is typed into the      *)
(* terminal of an agent, once.  The call finds the terminal's record in    *)
(* Orca, locks its pane, looks for evidence that the agent is busy or the  *)
(* input line is not empty, and types.  A handle may go stale between any  *)
(* two of these; the pane key outlives it.                                 *)
(*                                                                         *)
(* Orca, the agents and the person at the keyboard go on all the while.    *)
(* One action per call to Orca.                                            *)
(***************************************************************************)
EXTENDS Naturals, Sequences

CONSTANTS
  None,
  Senders,    \* processes that run lets handoff send
  Panes,      \* panes that are open, or will be opened
  Opened,     \* those open at first, in the order of their handles
  Barred,     \* <<call, pane>>: its own terminal, another checkout, read-only
  Readable,   \* panes that run agents whose input line can be read
  Untracked,  \* panes whose agent Orca does not track
  MaxHandle,  \* bound on the handles Orca gives out
  Tries       \* how often a new tab's record is read (identifyTries)

ASSUME PanesAreKnown  == Opened \in Seq(Panes) /\ Barred \subseteq Senders \X Panes
                        /\ Readable \cup Untracked \subseteq Panes
ASSUME NoneIsNothing  == None \notin Panes /\ None \notin Nat
ASSUME HandlesSuffice == MaxHandle \in Nat /\ Len(Opened) <= MaxHandle
                        /\ Tries \in Nat \ {0}

VARIABLES
  handle,     \* pane -> its handle; 0 before it is opened, None once closed
  agents,     \* panes in which an agent runs; in the others, a shell
  busy,       \* panes whose agent is in a turn or shows a dialog
  draft,      \* panes with text on the input line that was not submitted
  minted,     \* the last handle Orca gave out
  pc, rec,    \* per call: step, the record of its target
  held,       \* per call: the lock it holds, or None
  res,        \* per call: the delivery it reports
  typed,      \* history, per call: the panes its pointer was typed into
  excused     \* history, per call: its reading of the screen proves nothing

world == <<handle, agents, busy, draft, minted>>
vars == <<handle, agents, busy, draft, minted, pc, rec, held, res, typed, excused>>

Handles == 1..MaxHandle
Record ==
  [pane: Panes \cup {None}, handle: 0..MaxHandle, busy: BOOLEAN, tries: 0..Tries, again: BOOLEAN]
NoRecord == [pane |-> None, handle |-> 0, busy |-> FALSE, tries |-> 0, again |-> FALSE]

Live(p) == handle[p] \notin {0, None}

HandoffInit ==
  /\ handle = [p \in Panes |-> IF \E n \in DOMAIN Opened : Opened[n] = p
                             THEN CHOOSE n \in DOMAIN Opened : Opened[n] = p ELSE 0]
  /\ minted = Len(Opened)
  /\ agents \in SUBSET {p \in Panes : handle[p] # 0}
  /\ busy = {} /\ draft = {}
  /\ pc    = [s \in Senders |-> "idle"]
  /\ rec   = [s \in Senders |-> NoRecord]
  /\ held  = [s \in Senders |-> None]
  /\ res   = [s \in Senders |-> "skipped"]
  /\ typed = [s \in Senders |-> <<>>]
  /\ excused = [s \in Senders |-> FALSE]

Reached(s, step) == pc[s] = step
Goto(s, step)    == pc' = [pc EXCEPT ![s] = step]
Report(s, d) ==
  /\ Goto(s, "done")
  /\ res' = [res EXCEPT ![s] = d]
  /\ rec' = [rec EXCEPT ![s] = NoRecord] /\ excused' = [excused EXCEPT ![s] = FALSE]
  /\ UNCHANGED held
Skip(s) == Report(s, "skipped") /\ UNCHANGED typed
Fail(s) == Report(s, "failed") /\ UNCHANGED typed
Keeping(s, r, step) ==
  Goto(s, step) /\ rec' = [rec EXCEPT ![s] = r] /\ UNCHANGED <<held, res, typed, excused>>

(* What Terminals reports of a pane, and ineligible of that.               *)
Seen(p)        == [pane |-> p, handle |-> handle[p], busy |-> p \in busy \ Untracked,
                   tries |-> 0, again |-> FALSE]
Eligible(s, p) == <<s, p>> \notin Barred /\ p \in agents

-----------------------------------------------------------------------------
(* The call.                                                               *)

(* --terminal: a handle that was listed at some time.                      *)
BeginKnown(s, h) ==
  /\ Reached(s, "idle") /\ h <= minted
  /\ Keeping(s, [NoRecord EXCEPT !.handle = h, !.tries = 1], "find")
  /\ UNCHANGED world

(* --new codex: a tab is opened first.                                     *)
BeginNew(s) ==
  /\ Reached(s, "idle")
  /\ \/ Skip(s) /\ UNCHANGED world
     \/ \E p \in Panes :
          /\ handle[p] = 0 /\ minted < MaxHandle
          /\ minted' = minted + 1 /\ handle' = [handle EXCEPT ![p] = minted + 1]
          /\ Keeping(s, [NoRecord EXCEPT !.pane = p, !.handle = minted + 1, !.tries = Tries],
                     "startup")
          /\ UNCHANGED <<agents, busy, draft>>

(* The wait for the new TUI; a stale handle is found again by the tab's    *)
(* own title.                                                              *)
Startup(s) ==
  /\ Reached(s, "startup")
  /\ \/ Skip(s)
     \/ LET p == rec[s].pane
        IN Live(p) /\ Keeping(s, [rec[s] EXCEPT !.handle = handle[p]], "find")
  /\ UNCHANGED world

Find(s) ==
  /\ Reached(s, "find")
  /\ LET there == {p \in Panes : handle[p] = rec[s].handle}
         named == there \cap agents
     IN \/ \E p \in named : Eligible(s, p) /\ Keeping(s, Seen(p), "lock")
        \/ \E p \in named : ~Eligible(s, p) /\ Skip(s)
        \/ /\ named = {} /\ rec[s].tries > 1
           /\ Keeping(s, [rec[s] EXCEPT !.tries = @ - 1], "find")
        \/ named = {} /\ rec[s].tries = 1 /\ Skip(s)
  /\ UNCHANGED world

(* Orca does not answer.                                                   *)
FindFails(s) == Reached(s, "find") /\ Skip(s) /\ UNCHANGED world

(* Deviation: the lock is named by the handle.                             *)
LockNameByHandle(r) == r.handle

LockName(r) == r.pane

LockPane(s) ==
  /\ Reached(s, "lock")
  /\ \A t \in Senders : held[t] # LockName(rec[s])
  /\ held' = [held EXCEPT ![s] = LockName(rec[s])]
  /\ Goto(s, "gate")
  /\ UNCHANGED <<world, rec, res, typed, excused>>

(* another_send_in_progress, or the lock file cannot be made.              *)
GiveUp(s) == Reached(s, "lock") /\ Skip(s) /\ UNCHANGED world

(* The input line as the screen shows it.  A draft or a dialog may be seen *)
(* with any agent, an empty line only with one that can be read; any frame *)
(* may be missing.                                                         *)
Readings(s) ==
  LET p == rec[s].pane
  IN {"unknown"} \cup
     IF handle[p] # rec[s].handle \/ p \notin agents THEN {}
     ELSE IF p \in draft THEN {"not_clear"}
     ELSE IF p \in busy THEN {"busy"}
     ELSE IF p \in Readable THEN {"ready"} ELSE {}

(* Only positive evidence refuses: Orca's state of the agent, as the       *)
(* record has it, and the screen.                                          *)
Gate(s) ==
  /\ Reached(s, "gate")
  /\ \/ rec[s].busy /\ Skip(s)
     \/ \E reading \in Readings(s) :
          /\ ~rec[s].busy
          /\ \/ reading \in {"busy", "not_clear"} /\ Skip(s)
             \/ /\ reading \in {"ready", "unknown"}
                /\ Goto(s, "send")
                /\ excused' = [excused EXCEPT ![s] = reading = "unknown"]
                /\ UNCHANGED <<rec, held, res, typed>>
  /\ UNCHANGED world

(* The line and its Enter: an agent begins a turn, or queues it.           *)
Types(s) ==
  LET p == rec[s].pane
  IN /\ typed' = [typed EXCEPT ![s] = Append(@, p)]
     /\ busy'  = busy \cup ({p} \cap agents)
     /\ draft' = draft \ {p}
     /\ UNCHANGED <<handle, agents, minted>>

Current(s) == handle[rec[s].pane] = rec[s].handle

Send(s) ==
  /\ Reached(s, "send") /\ Current(s)
  /\ Types(s)
  /\ \E d \in {"proven", "unproven"} :
       /\ d = "proven" => rec[s].pane \in agents \ busy
       /\ Report(s, d)

(* Deviations: a send that reports a failure is sent again; or is reported *)
(* as if nothing had been tried.                                           *)
SendAgain(s) ==
  /\ Reached(s, "send") /\ Current(s)
  /\ Types(s) /\ ~rec[s].again
  /\ rec' = [rec EXCEPT ![s].again = TRUE]
  /\ UNCHANGED <<pc, held, res, excused>>

SendQuietly(s) ==
  /\ Reached(s, "send") /\ Current(s)
  /\ Types(s) /\ Report(s, "skipped")

(* Orca fails, having typed the line or not: never resent.                 *)
SendFails(s) ==
  /\ Reached(s, "send")
  /\ \/ Current(s) /\ Types(s)
     \/ UNCHANGED <<world, typed>>
  /\ Report(s, "failed")

(* A stale handle is rejected before anything is typed.                    *)
SendStale(s) ==
  /\ Reached(s, "send") /\ ~Current(s)
  /\ IF rec[s].again THEN Fail(s)
     ELSE Goto(s, "rejoin") /\ UNCHANGED <<rec, held, res, typed, excused>>
  /\ UNCHANGED world

Rejoined(s, p, step) ==
  /\ rec' = [rec EXCEPT ![s] = [Seen(p) EXCEPT !.again = TRUE]]
  /\ excused' = [excused EXCEPT ![s] = FALSE]
  /\ Goto(s, step)
  /\ UNCHANGED <<world, held, res, typed>>

(* Deviations: the target is found again by its looks; or is not looked at *)
(* again.                                                                  *)
RejoinByTitle(s) ==
  /\ Reached(s, "rejoin")
  /\ \E p \in Panes : Live(p) /\ Eligible(s, p) /\ Rejoined(s, p, "gate")

RejoinUngated(s) ==
  /\ Reached(s, "rejoin")
  /\ Live(rec[s].pane) /\ Eligible(s, rec[s].pane) /\ Rejoined(s, rec[s].pane, "send")

(* The terminal that has the same pane now.                                *)
Rejoin(s) ==
  /\ Reached(s, "rejoin")
  /\ Live(rec[s].pane) /\ Eligible(s, rec[s].pane) /\ Rejoined(s, rec[s].pane, "gate")

(* It is gone, or no target any more, or Orca does not answer.             *)
RejoinFails(s) == Reached(s, "rejoin") /\ Fail(s) /\ UNCHANGED world

Forget(s) ==
  /\ Goto(s, "idle")
  /\ rec' = [rec EXCEPT ![s] = NoRecord]
  /\ held' = [held EXCEPT ![s] = None]
  /\ res'  = [res EXCEPT ![s] = "skipped"]
  /\ typed' = [typed EXCEPT ![s] = <<>>]
  /\ excused' = [excused EXCEPT ![s] = FALSE]
  /\ UNCHANGED world

Return(s) == Reached(s, "done") /\ Forget(s)

(* The call is killed; the kernel frees its lock.                          *)
Crash(s) == pc[s] \notin {"idle", "done"} /\ Forget(s)

-----------------------------------------------------------------------------
(* Orca, the agents, the person.                                           *)

calls == <<pc, rec, held, res, typed>>

(* Nobody can help what happens between the gate and the Enter.            *)
Excusing(p) ==
  excused' = [s \in Senders |-> excused[s] \/ (Reached(s, "send") /\ rec[s].pane = p)]

WritesDraft(p) ==
  /\ p \in agents \ draft
  /\ draft' = draft \cup {p} /\ Excusing(p)
  /\ UNCHANGED <<handle, agents, busy, minted, calls>>

ClearsDraft(p) ==
  /\ p \in draft
  /\ draft' = draft \ {p}
  /\ UNCHANGED <<handle, agents, busy, minted, calls, excused>>

Submits(p) ==
  /\ p \in agents \ busy
  /\ busy' = busy \cup {p} /\ draft' = draft \ {p} /\ Excusing(p)
  /\ UNCHANGED <<handle, agents, minted, calls>>

EndsTurn(p) ==
  /\ p \in busy
  /\ busy' = busy \ {p}
  /\ UNCHANGED <<handle, agents, draft, minted, calls, excused>>

AgentStarts(p) ==
  /\ Live(p) /\ p \notin agents
  /\ agents' = agents \cup {p}
  /\ UNCHANGED <<handle, busy, draft, minted, calls, excused>>

AgentExits(p) ==
  /\ p \in agents
  /\ agents' = agents \ {p}
  /\ busy' = busy \ {p} /\ draft' = draft \ {p}
  /\ UNCHANGED <<handle, minted, calls, excused>>

(* Orca gives a pane another handle, or its tab is closed.                 *)
Rehandled(p) ==
  /\ Live(p) /\ minted < MaxHandle
  /\ minted' = minted + 1 /\ handle' = [handle EXCEPT ![p] = minted + 1]
  /\ UNCHANGED <<agents, busy, draft, calls, excused>>

Closed(p) ==
  /\ Live(p)
  /\ handle' = [handle EXCEPT ![p] = None]
  /\ agents' = agents \ {p}
  /\ busy' = busy \ {p} /\ draft' = draft \ {p}
  /\ UNCHANGED <<minted, calls, excused>>

-----------------------------------------------------------------------------

Progress(s) ==
  \/ Startup(s) \/ Find(s) \/ LockPane(s) \/ GiveUp(s) \/ Gate(s)
  \/ Send(s) \/ SendStale(s) \/ Rejoin(s) \/ RejoinFails(s) \/ Return(s)

Failure(s) == FindFails(s) \/ SendFails(s) \/ Crash(s)

HandoffNext ==
  \/ \E s \in Senders : \/ \E h \in Handles : BeginKnown(s, h)
                        \/ BeginNew(s) \/ Progress(s) \/ Failure(s)
  \/ \E p \in Panes : \/ WritesDraft(p) \/ ClearsDraft(p) \/ Submits(p) \/ EndsTurn(p)
                      \/ AgentStarts(p) \/ AgentExits(p) \/ Rehandled(p) \/ Closed(p)

Spec == HandoffInit /\ [][HandoffNext]_vars

-----------------------------------------------------------------------------

HandoffTypeOK ==
  /\ handle \in [Panes -> 0..MaxHandle \cup {None}]
  /\ agents \subseteq {p \in Panes : Live(p)}
  /\ busy \subseteq agents /\ draft \subseteq agents
  /\ minted \in 0..MaxHandle
  /\ pc \in [Senders -> {"idle", "startup", "find", "lock", "gate", "send", "rejoin", "done"}]
  /\ rec \in [Senders -> Record]
  /\ res \in [Senders -> {"skipped", "proven", "unproven", "failed"}]
  /\ excused \in [Senders -> BOOLEAN]

(* A call's pointer is typed once at most, into one pane, through stale    *)
(* handles, failed sends and lost receipts ("never resends after a         *)
(* delivery attempt", "never to both").                                    *)
TypedOnce == \A s \in Senders : Len(typed[s]) <= 1

(* What is typed goes into the pane that the call has locked, whatever its *)
(* handle has become in between.                                           *)
LockedThere == [][\A s \in Senders : typed'[s] # typed[s] /\ typed'[s] # <<>> =>
                    held[s] = typed'[s][Len(typed'[s])]]_vars

(* The pointer is not typed into a turn or after other text when the       *)
(* screen could be read: what changes after the gate is the person's doing *)
(* and never another handoff's.                                            *)
Undisturbed == [][\A s \in Senders : typed'[s] # typed[s] /\ typed'[s] # <<>> =>
                    excused[s] \/ rec[s].pane \notin busy \cup draft]_vars

(* "skipped" means nothing was typed, "proven" and "unproven" that it was. *)
ReportHonest == \A s \in Senders : Reached(s, "done") =>
  /\ res[s] = "skipped" => typed[s] = <<>>
  /\ res[s] \in {"proven", "unproven"} => typed[s] # <<>>

=============================================================================
