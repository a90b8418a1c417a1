----------------------------- MODULE MCWorktrees -----------------------------
(* The repository has the merge-branch main and branches fix and feat; the *)
(* worktree x has the branches feat (worktree-x) and fix (x); y has fix.   *)
EXTENDS Worktrees, TLC
CONSTANTS c1, c2, main, fix, feat, x, y
Alike == Permutations(Callers)
MCOwn == [n \in Names |-> fix]
MCNew == [n \in Names |-> feat]
Cr(n, br, md, bs, sw) == [op |-> "create", name |-> n, branch |-> br, mode |-> md,
                          base |-> bs, switchMain |-> sw]
Rm(n, br, f, d, fb, o) == [op |-> "remove", name |-> n, branch |-> br, force |-> f,
                           delete |-> d, forceBranch |-> fb, only |-> o]
MCRequests ==
  {Cr(x, None, "auto", None, TRUE), Cr(x, feat, "new", fix, FALSE),
   Cr(y, fix, "attach", None, FALSE),
   Rm(x, None, FALSE, TRUE, FALSE, FALSE), Rm(x, None, TRUE, FALSE, FALSE, FALSE),
   Rm(y, fix, FALSE, TRUE, TRUE, FALSE), Rm(x, fix, FALSE, TRUE, FALSE, TRUE),
   [op |-> "sweep"]}
=============================================================================
