----------------------------- MODULE TaskState ------------------------------
(***************************************************************************)
(* The protocol of the task-state files: taskstate.MergeWrite, Remove and  *)
(* RemoveIfTask, run concurrently by any number of processes.  Each slug   *)
(* has one lock file (flock, released by the kernel when its holder dies)  *)
(* and one state file, replaced by writing a temporary sibling and         *)
(* renaming it.  A process may crash between any two steps.                *)
(*                                                                         *)
(* Every caller of the package passes a deadline, so a wait for the lock   *)
(* always ends: with the lock, or with ErrLockBusy.                        *)
(***************************************************************************)
EXTENDS TaskFile

CONSTANTS
  Procs,     \* processes that run the CLI
  Requests,  \* the calls they may make
  Initially, \* the contents a file may start with
  Stray      \* the owner of a temporary file whose writer is gone

ASSUME NoneIsNoProc     == None \notin Procs
ASSUME StrayIsNoProc    == Stray \notin Procs
ASSUME RequestsAreCalls == Requests \subseteq Request
ASSUME InitiallyFiles   == Initially \subseteq File
ASSUME NoneIsNoRequest  == None \notin Request

VARIABLES
  file,      \* slug -> contents
  lock,      \* slug -> the process that holds its lock, or None
  temps,     \* slug -> owners of its temporary files, Stray for stranded ones
  pc,        \* process -> its next step
  call,      \* process -> the request it serves, or None
  plan,      \* process -> the contents it decided to leave
  res        \* process -> how its request ended, or None

vars == <<file, lock, temps, pc, call, plan, res>>

Store == INSTANCE TaskStore

Steps == {"idle", "probe", "wait", "locked", "stage", "rename",
          "unlink", "sweep", "unlock", "done"}

(* The steps a process takes with the lock in its hand.                    *)
Critical == {"locked", "stage", "rename", "unlink", "sweep", "unlock"}

Slug(p) == call[p].slug

Init ==
  /\ file \in [Slugs -> Initially]
  /\ lock  = [s \in Slugs |-> None]
  /\ temps = [s \in Slugs |-> {}]
  /\ pc    = [p \in Procs |-> "idle"]
  /\ call  = [p \in Procs |-> None]
  /\ plan  = [p \in Procs |-> NoFile]
  /\ res   = [p \in Procs |-> None]

Goto(p, step) == pc' = [pc EXCEPT ![p] = step]

Answer(p, why) == res' = [res EXCEPT ![p] = why]

(* A call reaches the package.                                             *)
Begin(p, r) ==
  /\ pc[p] = "idle"
  /\ call' = [call EXCEPT ![p] = r]
  /\ Goto(p, IF Removes(r) THEN "wait" ELSE "probe")
  /\ UNCHANGED <<file, lock, temps, plan, res>>

(* Before the lock: a writer that never creates the file leaves a missing  *)
(* one alone, and no lock file either.                                     *)
Probe(p) ==
  /\ pc[p] = "probe"
  /\ IF file[Slug(p)] = NoFile /\ ~Creates(call[p])
     THEN Answer(p, "absent") /\ Goto(p, "done")
     ELSE Goto(p, "wait") /\ UNCHANGED res
  /\ UNCHANGED <<file, lock, temps, call, plan>>

Acquire(p) ==
  /\ pc[p] = "wait"
  /\ lock[Slug(p)] = None
  /\ lock' = [lock EXCEPT ![Slug(p)] = p]
  /\ Goto(p, "locked")
  /\ UNCHANGED <<file, temps, call, plan, res>>

(* Deviations: after the deadline the call goes on without the lock, or    *)
(* there is no deadline.                                                   *)
GoOnUnlocked(p) ==
  /\ pc[p] = "wait"
  /\ lock[Slug(p)] # None
  /\ Goto(p, "locked")
  /\ UNCHANGED <<file, lock, temps, call, plan, res>>

WaitForever(p) == FALSE /\ UNCHANGED vars

(* The deadline passed while another process held the lock.                *)
GiveUp(p) ==
  /\ pc[p] = "wait"
  /\ lock[Slug(p)] # None
  /\ Answer(p, "busy")
  /\ Goto(p, "done")
  /\ UNCHANGED <<file, lock, temps, call, plan>>

(* Under the lock: read the file again and decide on what is there now.    *)
Read(p) ==
  /\ pc[p] = "locked"
  /\ LET d == Decide(call[p], file[Slug(p)])
     IN IF Changes(d.why)
        THEN /\ plan' = [plan EXCEPT ![p] = d.file]
             /\ Goto(p, IF d.why = "removed" THEN "unlink" ELSE "stage")
             /\ UNCHANGED res
        ELSE /\ Answer(p, d.why)
             /\ Goto(p, "unlock")
             /\ UNCHANGED plan
  /\ UNCHANGED <<file, lock, temps, call>>

Stage(p) ==
  /\ pc[p] = "stage"
  /\ temps' = [temps EXCEPT ![Slug(p)] = @ \cup {p}]
  /\ Goto(p, "rename")
  /\ UNCHANGED <<file, lock, call, plan, res>>

(* The lock file cannot be opened, the state file cannot be read, or the   *)
(* temporary file cannot be written (nothing of it is left then).          *)
IOFails(p) ==
  /\ pc[p] \in {"wait", "locked", "stage"}
  /\ Answer(p, "io_error")
  /\ Goto(p, IF pc[p] = "wait" THEN "done" ELSE "unlock")
  /\ UNCHANGED <<file, lock, temps, call, plan>>

Rename(p) ==
  /\ pc[p] = "rename"
  /\ p \in temps[Slug(p)]
  /\ file'  = [file EXCEPT ![Slug(p)] = plan[p]]
  /\ temps' = [temps EXCEPT ![Slug(p)] = @ \ {p}]
  /\ Answer(p, "written")
  /\ Goto(p, "unlock")
  /\ UNCHANGED <<lock, call, plan>>

(* Deviation: a failed write leaves an emptied file.                       *)
WriteTruncates(p) ==
  /\ pc[p] = "rename"
  /\ file' = [file EXCEPT ![Slug(p)] = Blank]
  /\ Answer(p, "io_error")
  /\ Goto(p, "unlock")
  /\ UNCHANGED <<lock, temps, call, plan>>

(* A failed rename leaves its temporary file behind, if there is one.      *)
RenameFails(p) ==
  /\ pc[p] = "rename"
  /\ temps' = [temps EXCEPT ![Slug(p)] =
                 IF p \in @ THEN (@ \ {p}) \cup {Stray} ELSE @]
  /\ Answer(p, "io_error")
  /\ Goto(p, "unlock")
  /\ UNCHANGED <<file, lock, call, plan>>

Unlink(p) ==
  /\ pc[p] = "unlink"
  /\ file' = [file EXCEPT ![Slug(p)] = plan[p]]
  /\ Answer(p, "removed")
  /\ Goto(p, "sweep")
  /\ UNCHANGED <<lock, temps, call, plan>>

UnlinkFails(p) ==
  /\ pc[p] = "unlink"
  /\ Answer(p, "io_error")
  /\ Goto(p, "unlock")
  /\ UNCHANGED <<file, lock, temps, call, plan>>

(* A removal also deletes every temporary file of its slug.                *)
Sweep(p) ==
  /\ pc[p] = "sweep"
  /\ temps' = [temps EXCEPT ![Slug(p)] = {}]
  /\ Goto(p, "unlock")
  /\ UNCHANGED <<file, lock, call, plan, res>>

Unlock(p) ==
  /\ pc[p] = "unlock"
  /\ lock' = [lock EXCEPT ![Slug(p)] = None]
  /\ Goto(p, "done")
  /\ UNCHANGED <<file, temps, call, plan, res>>

Retire(p) ==
  /\ call' = [call EXCEPT ![p] = None]
  /\ plan' = [plan EXCEPT ![p] = NoFile]
  /\ res'  = [res EXCEPT ![p] = None]
  /\ Goto(p, "idle")

Return(p) ==
  /\ pc[p] = "done"
  /\ Retire(p)
  /\ UNCHANGED <<file, lock, temps>>

(* The process dies: the kernel closes its descriptors, which frees the    *)
(* lock, and a temporary file it had written stays on disk.                *)
Crash(p) ==
  /\ pc[p] # "idle"
  /\ lock'  = [s \in Slugs |-> IF lock[s] = p THEN None ELSE lock[s]]
  /\ temps' = [s \in Slugs |-> IF p \in temps[s] THEN (temps[s] \ {p}) \cup {Stray}
                                                 ELSE temps[s]]
  /\ Retire(p)
  /\ UNCHANGED file

(* What a running process does when nothing fails.                         *)
Progress(p) ==
  \/ Probe(p) \/ Acquire(p) \/ GiveUp(p) \/ Read(p) \/ Stage(p) \/ Rename(p)
  \/ Unlink(p) \/ Sweep(p) \/ Unlock(p) \/ Return(p)

Failure(p) == IOFails(p) \/ RenameFails(p) \/ UnlinkFails(p) \/ Crash(p)

Next ==
  \E p \in Procs : (\E r \in Requests : Begin(p, r)) \/ Progress(p) \/ Failure(p)

(* The operating system runs every live process, and a deadline passes:    *)
(* a call that can take a step takes one.  Callers owe no further calls,   *)
(* and nothing is assumed of failures.                                     *)
Fairness == \A p \in Procs : WF_vars(Progress(p))

Spec == Init /\ [][Next]_vars /\ Fairness

-----------------------------------------------------------------------------

TypeOK ==
  /\ file  \in [Slugs -> File]
  /\ lock  \in [Slugs -> Procs \cup {None}]
  /\ temps \in [Slugs -> SUBSET (Procs \cup {Stray})]
  /\ pc    \in [Procs -> Steps]
  /\ call  \in [Procs -> Requests \cup {None}]
  /\ plan  \in [Procs -> File]
  /\ res   \in [Procs -> Outcomes \cup {None}]

(* A lock is held exactly by the process inside its critical section, so   *)
(* a crash never leaves a slug locked and two writers never share one.     *)
LockDiscipline ==
  /\ \A p \in Procs : pc[p] \in Critical => lock[Slug(p)] = p
  /\ \A s \in Slugs : lock[s] # None =>
       /\ pc[lock[s]] \in Critical
       /\ Slug(lock[s]) = s

(* Between the read under the lock and the rename (or the unlink) nobody   *)
(* else changes the file: what a writer is about to leave is still its     *)
(* decision on the contents that are there now.  This is the promise that  *)
(* a decision is taken "on what it will overwrite, never on an earlier     *)
(* Read".                                                                  *)
NoLostUpdate ==
  \A p \in Procs : pc[p] \in {"stage", "rename", "unlink"} =>
    plan[p] = Decide(call[p], file[Slug(p)]).file

(* The sweep of a removal, which deletes every temporary file of the slug, *)
(* never deletes the one another writer is about to rename.                *)
TempSafe == \A p \in Procs : pc[p] = "rename" => p \in temps[Slug(p)]

(* The protocol implements atomic calls.                                   *)
ImplementsStore == Store!StoreSpec

(* A call always comes back - with an answer, or by the death of its       *)
(* process - however many others compete for the lock: the SessionStart    *)
(* hook must never stall a session start.                                  *)
EveryCallReturns == \A p \in Procs : pc[p] # "idle" ~> pc[p] = "idle"

=============================================================================
