------------------------------- MODULE MCPeers -------------------------------
(* Two checkouts, the main one on main and a worktree on feat; two names,  *)
(* alpha (of the <repo>-orc form) and bravo; three sessions, one of which  *)
(* may run in two processes, here and in another repository.               *)
EXTENDS Peers
CONSTANTS main, feat, fix, mainTree, workTree, other, s1, s2, s3, alpha, bravo
P(s, n, d) == [sid |-> s, name |-> n, at |-> d, job |-> "none"]
MCStarts == {P(s2, alpha, other), P(s3, bravo, mainTree)}
W(p, o, ra, rb, l) ==
  [proc |-> p, on |-> [d \in Checkouts |-> IF d = mainTree THEN main ELSE feat],
   orc |-> [c \in Branches |-> IF c = feat THEN o ELSE None],
   record |-> [n \in Names |-> IF n = alpha THEN ra ELSE rb],
   last |-> [n \in Names |-> IF n = alpha /\ l THEN [sid |-> s2, pid |-> 2] ELSE None]]
Team   == <<P(s1, bravo, workTree), P(s2, alpha, mainTree), None>>
Twice  == <<P(s1, bravo, workTree), P(s2, alpha, mainTree), P(s2, alpha, other)>>
Rivals == <<P(s1, bravo, workTree), P(s2, alpha, mainTree), P(s3, alpha, other)>>
Alone  == <<P(s1, bravo, workTree), None, P(s3, bravo, mainTree)>>
Pair   == <<P(s2, None, workTree), P(s1, bravo, workTree), P(s2, alpha, mainTree)>>
MCWorlds ==
  {W(Team, alpha, "on", "none", TRUE), W(Team, None, "on", "none", FALSE),
   W(Team, alpha, "on", "on", FALSE), W(Team, alpha, "none", "none", TRUE),
   W(Twice, alpha, "on", "none", TRUE), W(Rivals, alpha, "on", "none", FALSE),
   W(Alone, alpha, "on", "none", TRUE), W(Alone, bravo, "none", "on", TRUE),
   W(Pair, alpha, "on", "none", TRUE)}
Ask(o, m, p, st) == [op |-> o, message |-> m, pid |-> p, standing |-> st]
MCRequests ==
  {Ask("orchestrator", [name |-> alpha, pid |-> 2], 1, "off"),
   Ask("orchestrator", [name |-> alpha, pid |-> 3], 1, "off"),
   Ask("who", [name |-> bravo, pid |-> 1], 2, "off"),
   Ask("sender", [name |-> bravo, pid |-> 3], 1, "off"),
   Ask("grant", None, 2, "on"), Ask("hub", None, 1, "off")}
=============================================================================
