----------------------------- MODULE MCIntegrate -----------------------------
(* A small instance of Integrate: a file of two regions, a chunk of one    *)
(* and a chunk of both, each in conflict with the other once that is       *)
(* committed.                                                              *)
EXTENDS Integrate, TLC

CONSTANTS c1, c2

MCFileOf == [p \in Regions |-> "f"]
MCStarts == {[p \in Regions |-> 0]}
MCChunks == {("x" :> [old |-> 0, new |-> 1]),
             ("x" :> [old |-> 0, new |-> 2]) @@ ("y" :> [old |-> 0, new |-> 1])}
=============================================================================
