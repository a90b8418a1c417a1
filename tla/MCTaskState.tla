---------------------------- MODULE MCTaskState -----------------------------
(* A small instance of TaskState: two tasks with one start each, a feature *)
(* branch and the merge-branch, a call or two of every writer.             *)
EXTENDS TaskState, TLC

CONSTANTS A, B, a1, b1, s1, s2, feat, other

NoSnap == [absent |-> FALSE, garbled |-> FALSE, rows |-> {}]
Listed(sid, pid) ==
  [absent |-> FALSE, garbled |-> FALSE,
   rows |-> {[pid |-> pid, sid |-> sid, at |-> 1, loose |-> FALSE, job |-> None, parked |-> None]}]

SetCall(s, t, st, create, clear) ==
  [kind |-> "set", slug |-> s, create |-> create, task |-> t, start |-> st,
   orc |-> None, clear |-> clear, session |-> None, snap |-> NoSnap, proof |-> None]

AdoptCall(arg, named) ==
  [kind |-> "adopt", slug |-> feat, arg |-> arg, replace |-> FALSE, named |-> named,
   head |-> IF arg = A \/ (named # None /\ named.id = A) THEN a1 ELSE b1, ancestors |-> {a1, b1}]

HookCall(kind, sid, pid, snap) ==
  [kind |-> kind, slug |-> feat, own |-> sid, pid |-> pid, head |-> a1, snap |-> snap]

MCRequests ==
  { SetCall(feat, A, a1, TRUE, {}), SetCall(feat, B, None, FALSE, {}),
    SetCall(other, B, b1, TRUE, {}),
    HookCall("startup", s1, 1, Listed(s1, 1)),
    [kind |-> "release", slug |-> feat, task |-> A],
    [kind |-> "remove", slug |-> other] }

MCInitially == {NoFile}
=============================================================================
