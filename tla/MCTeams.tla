------------------------------- MODULE MCTeams ------------------------------
(* Two processes, the team's two possible worktrees and one that is there  *)
(* already: unlinked, or linked elsewhere and with a store of its own.     *)
EXTENDS Teams, TLC

CONSTANTS p1, p2, orcaSite, goSite, side

MCBeginnings ==
  { [lets |-> "absent", store |-> "absent"], [lets |-> "elsewhere", store |-> "own"] }

(* What the view drops no action and no property reads: all of a process   *)
(* that died, a person's team file for a worktree whose own names are a    *)
(* team's, the tries of a call past its link, what git said once used.     *)
MCView ==
  <<places, tree, config, task, leads, late, spent,
    {f \in files : f.name = Name \/ ~TeamNamed(f.site)}, {w \in unread : ~TeamNamed(w)},
    [p \in Procs |->
      IF ~call[p].alive THEN {}
      ELSE [call[p] EXCEPT !.there = @ /\ call[p].step = "row",
              !.tries = IF call[p].step \in {"look", "unlink", "purge", "aside", "link"}
                        THEN @ ELSE 0]]>>
ProcSymmetry == Permutations(Procs)
=============================================================================
