----------------------------- MODULE TaskStore ------------------------------
(***************************************************************************)
(* What the task-state files promise to their writers: every call takes    *)
(* effect at one instant, on the contents of that instant, or not at all.  *)
(* No lock, no temporary file, no separate read: the specification that    *)
(* TaskState, the protocol of the code, is shown to implement.             *)
(***************************************************************************)
EXTENDS TaskFile

CONSTANTS
  Procs,     \* processes that run the CLI
  Requests,  \* the calls they may make
  Initially  \* the contents a file may start with

VARIABLES
  file,      \* slug -> contents
  call,      \* process -> the request it is serving, None when it serves none
  res        \* process -> how that request ended, None while it has not

storeVars == <<file, call, res>>

StoreInit ==
  /\ file \in [Slugs -> Initially]
  /\ call = [p \in Procs |-> None]
  /\ res  = [p \in Procs |-> None]

Call(p, r) ==
  /\ call[p] = None
  /\ call' = [call EXCEPT ![p] = r]
  /\ UNCHANGED <<file, res>>

Begin(p) == \E r \in Requests : Call(p, r)

(* The one instant at which a call reads and changes its file.             *)
Serve(p) ==
  /\ call[p] # None /\ res[p] = None
  /\ LET d == Decide(call[p], file[call[p].slug])
     IN /\ file' = [file EXCEPT ![call[p].slug] = d.file]
        /\ res'  = [res EXCEPT ![p] = d.why]
  /\ UNCHANGED call

(* A busy lock or a failed write changes nothing.                          *)
Refuse(p) ==
  /\ call[p] # None /\ res[p] = None
  /\ \E why \in {"busy", "io_error"} : res' = [res EXCEPT ![p] = why]
  /\ UNCHANGED <<file, call>>

(* The call returns, or its process dies before or after the instant.      *)
End(p) ==
  /\ call[p] # None
  /\ call' = [call EXCEPT ![p] = None]
  /\ res'  = [res EXCEPT ![p] = None]
  /\ UNCHANGED file

StoreNext == \E p \in Procs : Begin(p) \/ Serve(p) \/ Refuse(p) \/ End(p)

StoreSpec == StoreInit /\ [][StoreNext]_storeVars

=============================================================================
