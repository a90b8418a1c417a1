------------------------------ MODULE MCHandoff ------------------------------
(* A small instance of Handoff.                                            *)
EXTENDS Handoff, TLC

CONSTANTS a, b, p1, p2, p3

MCOpened == <<p1, p2>>
MCBarred == {<<a, p2>>}
=============================================================================
