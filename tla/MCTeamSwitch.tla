---------------------------- MODULE MCTeamSwitch ----------------------------
(***************************************************************************)
(* Two teams: otter starts on its own branch, whose file names task A as a *)
(* "stay" of take-task leaves it; frog starts on the branch of task B.     *)
(* Task A has no branch yet.                                               *)
(***************************************************************************)
EXTENDS TeamSwitch, TLC

CONSTANTS otter, frog, main, den, pond, fixa, fixb, A, B, w1, n1

MCOwn   == (otter :> den) @@ (frog :> pond)
MCNames == (A :> fixa) @@ (B :> fixb)
MCBegun == (otter :> den) @@ (frog :> fixb)

MCFiles ==
  [b \in Branches |-> CASE b = den  -> [T!Blank EXCEPT !.task = A]
                        [] b = fixb -> [T!Blank EXCEPT !.task = B, !.start = 0]
                        [] OTHER    -> NoFile]

MCCalls    == (otter :> 2) @@ (frog :> 1)
Ask(task, branch, park, include) ==
  [task |-> task, branch |-> branch, park |-> park, include |-> include]

(* Otter goes to either task or back to its own branch: without parking,   *)
(* parking what is tracked, parking the new file too.  Frog goes to A.     *)
MCRequests ==
  (otter :> {Ask(A, None, TRUE, {}), Ask(A, None, TRUE, {n1}), Ask(B, None, FALSE, {}),
             Ask(B, None, TRUE, {n1}), Ask(A, den, TRUE, {}), Ask(A, den, TRUE, {n1})})
  @@ (frog :> {Ask(A, None, TRUE, {})})
=============================================================================
