------------------------------ MODULE MCUpkeep ------------------------------
(* Two releases and a checkout, two shipped adapters and one of the        *)
(* person's own, a person whose ~/.lets/.env asks for strict gates.        *)
EXTENDS Upkeep

CONSTANTS first, second, dev, firstText, secondText, devText, mine

MCRoots == {first, second, dev}
MCTexts == {firstText, secondText, devText, mine}
MCRulesAt == [r \in MCRoots |-> CASE r = first -> firstText [] r = second -> secondText
                                  [] OTHER -> devText]
MCVersionIn == [t \in MCTexts |-> CASE t = firstText -> 1 [] t \in {secondText, devText} -> 2
                                    [] OTHER -> 0]
MCRootOf == [v \in 1..2 |-> IF v = 1 THEN first ELSE second]
MCSettings == {"", "English", "Ukrainian", "beads", "none", "jira", "project", "user",
               "terminal", "orca", "strict", "x", "two words"}
MCHome == [Blank EXCEPT !["gates"] = "strict"]
MCFlagSets == {Blank, [Blank EXCEPT !["language"] = "English", !["scope"] = "user",
                                    !["tracker"] = "none"]}
MCChoices == {<<"tracker", "none">>, <<"tracker", "jira">>, <<"scope", "user">>}

MCEnv == [version |-> 1, values |-> [Defaults EXCEPT !["launcher"] = "orca",
                                                    !["other"] = "x"]]
MCNoEnv == [version |-> 0, values |-> Blank]
MCFiles(s) == [f \in OwnFiles |-> s]
MCAdapter(n, v) == [t \in Trackers |-> IF t = n THEN v ELSE 0]
MCBeginnings ==
  { [env |-> MCNoEnv, legacy |-> "none", rules |-> NoText, adapter |-> MCAdapter("beads", 0),
     owned |-> MCFiles("absent"), copy |-> NoText, installed |-> {1}, binary |-> 1,
     indexed |-> FALSE],
    [env |-> MCEnv, legacy |-> "none", rules |-> firstText, adapter |-> MCAdapter("beads", 1),
     owned |-> MCFiles("lets"), copy |-> NoText, installed |-> {1, 2}, binary |-> 1,
     indexed |-> FALSE],
    [env |-> MCNoEnv, legacy |-> "Ukrainian", rules |-> mine, adapter |-> MCAdapter("beads", 0),
     owned |-> MCFiles("stale"), copy |-> NoText, installed |-> {2}, binary |-> 2,
     indexed |-> TRUE],
    [env |-> MCEnv, legacy |-> "Ukrainian", rules |-> firstText,
     adapter |-> MCAdapter("beads", 1), owned |-> MCFiles("foreign"), copy |-> firstText,
     installed |-> {1, 2}, binary |-> 1, indexed |-> TRUE],
    [env |-> MCNoEnv, legacy |-> "two words", rules |-> NoText,
     adapter |-> MCAdapter("beads", 0), owned |-> MCFiles("absent"), copy |-> NoText,
     installed |-> {2}, binary |-> 2, indexed |-> TRUE] }
=============================================================================
