------------------------- MODULE SessionContinuity --------------------------
(***************************************************************************)
(* SessionBoundary with two history variables, for the question whether a  *)
(* chat keeps its boundary across /clear.                                  *)
(***************************************************************************)
EXTENDS SessionBoundary

VARIABLES
  prev,      \* pid -> the id it last left, until anyone takes that id up
  missed     \* pids of which some command never took effect, or read
             \* a registry in which something was unreadable

historyVars == <<vars, prev, missed>>

HistoryInit ==
  /\ Init
  /\ prev   = [p \in Pids |-> None]
  /\ missed = {}

TakenUp(sid) ==
  \E p \in Up' : claude'[p].sid = sid /\ p \notin Running(sid)

(* A command that has just read a registry it could not read in full.      *)
Blurred(p) ==
  /\ call[p] = None /\ call'[p] # None
  /\ call'[p].snap.garbled \/ \E r \in call'[p].snap.rows : r.loose

HistoryNext ==
  /\ \/ Proceeds /\ missed' = (missed \cup {p \in Pids : Blurred(p)}) \cap Up'
     \/ \E p \in Pids : Refused(p) /\ missed' = missed \cup {p}
  /\ prev' = [p \in Pids |->
       CASE p \notin Up \/ p \notin Up' -> None
         [] p \in Up \cap Up' /\ claude'[p].sid # claude[p].sid -> claude[p].sid
         [] p \in Up \cap Up' /\ claude'[p].sid = claude[p].sid ->
              IF TakenUp(prev[p]) THEN None ELSE prev[p]]

HistorySpec == HistoryInit /\ [][HistoryNext]_historyVars

(* With a prompt registry and no shared ids, the chat that owns the        *)
(* boundary still owns it after /clear, at the commit it was: provided     *)
(* none of its commands was refused or met an unreadable registry file,    *)
(* and nobody has resumed the old id meanwhile, the hook's answer is never *)
(* "no proof" or "live".                                                   *)
BoundaryFollowsClear ==
  [][\A p \in Pids :
       /\ call[p] # None /\ call[p].kind = "clear" /\ call'[p] = None
       /\ p \in Up' /\ p \notin missed'
       /\ prev[p] # None /\ Owner(file[wt]) = prev[p]
       => /\ Owner(file'[wt]) = call[p].own
          /\ file'[wt].session.sha = file[wt].session.sha]_historyVars

=============================================================================
