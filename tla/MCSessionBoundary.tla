------------------------- MODULE MCSessionBoundary --------------------------
(* A small instance of SessionBoundary: a task-state file that exists, as  *)
(* after a claim, and sessions that come and go in its worktree.           *)
EXTENDS SessionBoundary, TLC
CONSTANTS s1, s2, s3, wt1

Claimed == [Blank EXCEPT !.task = "A", !.start = 1]

(* Session ids are interchangeable.                                        *)
SidSymmetry == Permutations(Sids)

MCInitially == {Claimed}
=============================================================================
