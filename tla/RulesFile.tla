----------------------------- MODULE RulesFile -----------------------------
(***************************************************************************)
(* What package rulescache decides about ~/.claude/rules/lets-rules.md,    *)
(* the machine-wide copy of the plugin's rules: which plugin may write it, *)
(* which text counts as LETS content, and which version a replacement may  *)
(* not fall below.  A file's text is a model value; sha256 equality is     *)
(* equality of texts.                                                      *)
(***************************************************************************)
EXTENDS Naturals

CONSTANTS
  Roots,      \* plugin roots a session can be started with
  Checkouts,  \* the roots that are --plugin-dir checkouts, never installed
  Texts,      \* contents the rules file can have
  NoText,     \* the file is absent
  RulesAt,    \* RulesAt[r]: the text of rules/lets-rules.md in root r
  VersionIn   \* VersionIn[t]: the version in t's frontmatter, 0 if none

ASSUME RulesAssumption ==
  /\ Checkouts \subseteq Roots
  /\ NoText \notin Texts
  /\ RulesAt \in [Roots -> Texts]
  /\ VersionIn \in [Texts -> Nat]

(* The cache key of rules-cache.json; NoKey stands for an absent or        *)
(* malformed file.                                                         *)
Keys == [text : Texts, version : Nat, from : Roots]
NoKey == [text |-> NoText, version |-> 0, from |-> NoText]

KeyFor(r) == [text |-> RulesAt[r], version |-> VersionIn[RulesAt[r]], from |-> r]

(* untrusted() = "": an installed plugin of a valid version.  A checkout   *)
(* is not under the installed-plugin cache.                                *)
Trusted(r, installed) == r \in installed /\ VersionIn[RulesAt[r]] > 0

(* isPristine: byte-identical to the rules of an installed release of the  *)
(* version its own frontmatter names.                                      *)
Pristine(t, installed) ==
  VersionIn[t] > 0 /\ \E r \in installed : RulesAt[r] = t

ProvableByVersion(t, k, installed) ==
  \/ t = k.text
  \/ \E r \in installed : VersionIn[RulesAt[r]] = VersionIn[t]

Provable(t, k, installed) == t = k.text \/ Pristine(t, installed)

GateByKey(t, k, installed) == k.version

(* The version a replacement of t may not fall below, 0 for no limit.      *)
Gate(t, k, installed) ==
  IF t # k.text /\ Pristine(t, installed) THEN VersionIn[t] ELSE k.version

(* syncLocked up to its first write, return by return.                     *)
Verdict(r, copy, k, installed, create) ==
  IF copy = NoText /\ ~create THEN "absent"
  ELSE IF r \notin installed \cup Checkouts THEN "failed"
  ELSE IF copy = RulesAt[r] THEN "equal"
  ELSE IF ~Trusted(r, installed) THEN "skipped"
  ELSE IF copy = NoText THEN "create"
  ELSE IF VersionIn[RulesAt[r]] < Gate(copy, k, installed) THEN "kept-newer"
  ELSE "replace"

RekeysAnyRoot(r, k, installed) == k # KeyFor(r)

(* Whether a sync that finds the copy equal records the key: Plan and Sync *)
(* agree on everything else.                                               *)
Rekeys(r, k, installed) == k # KeyFor(r) /\ Trusted(r, installed)
=============================================================================
