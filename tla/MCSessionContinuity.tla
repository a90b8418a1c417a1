------------------------- MODULE MCSessionContinuity -------------------------
(* A small instance of SessionContinuity: a task-state file that names a   *)
(* task, and sessions that come and go in its worktree.                    *)
EXTENDS SessionContinuity, TLC
CONSTANTS s1, s2, s3, h1, h2, wt1

Named == [Blank EXCEPT !.task = "A"]

(* Session ids are interchangeable, and so are commits.                    *)
MCSymmetry == Permutations(Sids) \cup Permutations(Shas)

(* No action and no property of this run reads more of held than the ids.  *)
MCView == <<file, call, claude, reg, hook, clock, Used, seen, prev, missed>>

MCInitially == {Named}
=============================================================================
