---------------------------- MODULE MCRulesCache ----------------------------
(* Three releases, a checkout of the newest with another text under the    *)
(* same version, and a person's text that claims to be the newest.         *)
EXTENDS RulesCache, TLC

CONSTANTS old, mid, new, dev, oldText, midText, newText, devText, mine

MCRoots == {old, mid, new, dev}
MCTexts == {oldText, midText, newText, devText, mine}
MCRulesAt == [r \in MCRoots |-> CASE r = old -> oldText [] r = mid -> midText
                                  [] r = new -> newText [] OTHER -> devText]
MCVersionIn == [t \in MCTexts |-> CASE t = oldText -> 1 [] t = midText -> 2
                                    [] OTHER -> 3]
MCSymmetry == Permutations(Sessions)
=============================================================================
