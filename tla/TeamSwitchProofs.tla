-------------------------- MODULE TeamSwitchProofs --------------------------
(***************************************************************************)
(* Switching teams, for any number of teams, branches, tasks, pieces of    *)
(* work and commits.  Two facts about commits carry the arguments: the     *)
(* past of a commit is a line, of which every commit on it has the lower   *)
(* part; and a branch has, beside commits of the remote's merge-branch     *)
(* that this repository has seen, its own commits alone.                   *)
(***************************************************************************)
EXTENDS TeamSwitch, TLAPS, WellFoundedInduction

Entry == [past: SUBSET Commits, branch: Branches, work: SUBSET Work, park: Teams \cup {None}]

(* The commits there are.                                                  *)
Known == 0..Len(log)

Typed ==
  /\ SwitchTypeOK
  /\ log \in Seq(Entry)
  /\ file = [b \in Branches |-> file[b]]
  /\ call = [t \in Teams |-> call[t]]

(* The past of a commit is a line.                                         *)
Lines ==
  /\ \A n \in Known :
       /\ n \in Past(n) /\ 0 \in Past(n) /\ Past(n) \subseteq 0..n
       /\ \A m \in Past(n) : Past(m) = {k \in Past(n) : k <= m}
  /\ \A n \in Known \ {0} : \E p \in 0..(n-1) : Past(n) = Past(p) \cup {n}

(* What names commits names commits there are.                             *)
TipsKnown ==
  /\ \A b \in Branches : tip[b] \in Known \cup {None} /\ origin[b] \in Known \cup {None}
  /\ tip[Merge] = 0 /\ origin[Merge] # None
  /\ seen \in Past(origin[Merge])
  /\ \A b \in Branches : file[b] # NoFile => file[b].start \in Known \cup {None}

(* The commits of the remote's merge-branch, and of no other, are its own; *)
(* none is a park.                                                         *)
MergeIsOwn ==
  /\ \A n \in Past(origin[Merge]) \ {0} : log[n].branch = Merge
  /\ \A n \in Known \ {0} : log[n].branch = Merge => log[n].park = None

(* A branch has its own commits on top of what it was cut from.            *)
BranchesOwn ==
  \A b \in Branches : tip[b] # None =>
    \A n \in Past(tip[b]) \ {0} : log[n].branch = b \/ n \in Past(seen)

TreesApart ==
  /\ \A t \in Teams : on[t] # Merge
  /\ \A t, u \in Teams : on[t] = on[u] => t = u

Arrived == {"arrive", "unpark", "ask", "reset", "clear"}

(* What a switch knows at its steps.                                       *)
Informed(t) ==
  pc[t] # "idle" =>
    /\ call[t] \in Call /\ call[t].req \in Requests[t]
    /\ pc[t] # "resolve" => call[t].to \in Branches \ {Merge}
    /\ call[t].base \in Past(seen)
    /\ pc[t] \in Arrived => on[t] = call[t].to
    /\ pc[t] = "arrive" /\ call[t].created =>
         \A n \in Past(tip[on[t]]) \ Past(call[t].base) : log[n].branch = on[t]
    /\ pc[t] \in {"ask", "reset"} => tip[on[t]] # 0

(* Nothing is lost: what was done is in a worktree, on a branch here or on *)
(* the remote's merge-branch.                                              *)
Somewhere(w) ==
  \/ \E t \in Teams : w \in dirty[t]
  \/ \E n \in Past(origin[Merge]) \ {0} : w \in log[n].work
  \/ \E b \in Branches : tip[b] # None /\ \E n \in Past(tip[b]) \ {0} : w \in log[n].work

WorkIsSomewhere == \A w \in Work : made[w] # None => Somewhere(w)

IInv ==
  /\ Typed /\ Lines /\ TipsKnown /\ MergeIsOwn /\ BranchesOwn /\ TreesApart
  /\ \A t \in Teams : Informed(t)
  /\ WorkIsSomewhere /\ RangeIsOwn

(* While nobody works in the worktree of a switch.                         *)
Settled(t) ==
  /\ pc[t] = "base" => (call[t].dirty <=> dirty[t] # {})
  /\ pc[t] = "park" => Request(t).include = dirty[t] \cap New
  /\ pc[t] \in {"record", "switch", "arrive", "unpark", "ask", "reset"} => dirty[t] = {}
  /\ pc[t] = "record" => IsPark(tip[on[t]]) /\ log[tip[on[t]]].park = t
  /\ pc[t] \in {"arrive", "unpark", "ask", "reset"} => call[t].head = tip[on[t]]
  /\ pc[t] \in {"ask", "reset"} => IsPark(tip[on[t]])
  /\ pc[t] = "reset" => ~Pushed(tip[on[t]])
  /\ pc[t] = "clear" => Buried(tip[on[t]])

CInv ==
  /\ \A t \in Teams : Settled(t)
  /\ WorkStaysHome /\ ParksFindable

-----------------------------------------------------------------------------
(* Sets of numbers below a bound have a greatest.                          *)
LEMMA NaturalOrder ==
  \E R : IsWellFoundedOn(R, Nat) /\ \A p, q \in Nat : q < p => <<q, p>> \in R
<1>1. \A p, q \in Nat : q < p => <<q, p>> \in OpToRel(<, Nat)
  BY DEF OpToRel
<1> QED BY <1>1, NatLessThanWellFounded, Zenon

LEMMA GreatestIsIn ==
  ASSUME NEW N \in Nat, NEW S \in SUBSET (0..N), S # {}
  PROVE  /\ Max(S) \in S
         /\ \A k \in S : k <= Max(S)
<1> DEFINE below == {N - k : k \in S}
<1>1. PICK R : IsWellFoundedOn(R, Nat) /\ \A p, q \in Nat : q < p => <<q, p>> \in R
  BY NaturalOrder
<1>2. below \subseteq Nat /\ below # {}
  <2>1. ASSUME NEW k \in S PROVE N - k \in Nat
    <3>1. k \in Nat /\ k <= N
      OBVIOUS
    <3> QED BY <3>1
  <2> QED BY <2>1
<1>3. PICK d \in below : \A e \in below : ~(<<e, d>> \in R)
  BY <1>1, <1>2, WFMin
<1>4. PICK m \in S : d = N - m
  BY <1>3
<1>5. ASSUME NEW k \in S PROVE k <= m
  <2>1. N - k \in below /\ N - k \in Nat /\ d \in Nat /\ k \in 0..N /\ m \in 0..N
    BY <1>2, <1>3
  <2>2. ~(N - k < d)
    BY <1>1, <1>3, <2>1
  <2> QED BY <1>4, <2>1, <2>2
<1>6. \A k \in S : m >= k
  BY <1>5
<1>7. Max(S) \in S /\ \A k \in S : Max(S) >= k
  BY <1>6 DEF Max
<1> QED BY <1>7

LEMMA GreatestIs ==
  ASSUME NEW S \in SUBSET Nat, NEW m \in S, \A k \in S : k <= m
  PROVE  Max(S) = m
<1>1. \A k \in S : m >= k
  OBVIOUS
<1>2. Max(S) \in S /\ \A k \in S : Max(S) >= k
  BY <1>1 DEF Max
<1>3. m \in Nat /\ Max(S) \in Nat /\ Max(S) >= m /\ m >= Max(S)
  BY <1>2
<1> QED BY <1>3

(* A commit's parent is what its past has beside it.                       *)
LEMMA ParentIs ==
  ASSUME Lines, Len(log) \in Nat, NEW n \in Known \ {0}
  PROVE  /\ Parent(n) \in Known /\ Parent(n) < n
         /\ Parent(n) \in Past(n)
         /\ Past(Parent(n)) = Past(n) \ {n}
<1>1. PICK p \in 0..(n-1) : Past(n) = Past(p) \cup {n}
  BY DEF Lines
<1>2. p \in Known /\ p \in Past(p) /\ Past(p) \subseteq 0..p /\ n \notin Past(p)
  BY DEF Lines, Known
<1>3. Past(n) \ {n} = Past(p)
  BY <1>1, <1>2
<1>4. Parent(n) = p
  BY <1>2, <1>3, GreatestIs DEF Parent, Known
<1> QED BY <1>1, <1>2, <1>3, <1>4 DEF Known

(* Two commits meet at the greatest of what both have in their past.       *)
LEMMA MergeBaseIs ==
  ASSUME Lines, Len(log) \in Nat, NEW m \in Known, NEW n \in Known
  PROVE  /\ MergeBase(m, n) \in Known
         /\ Past(m) \cap Past(n) \subseteq Past(MergeBase(m, n))
<1> DEFINE both == Past(m) \cap Past(n)
<1>1. 0 \in both /\ both \subseteq 0..m /\ m \in Nat /\ m <= Len(log)
  BY DEF Lines, Known
<1>2. Max(both) \in both /\ \A k \in both : k <= Max(both)
  BY <1>1, GreatestIsIn
<1>3. Past(Max(both)) = {k \in Past(m) : k <= Max(both)}
  BY <1>2 DEF Lines
<1>4. MergeBase(m, n) = Max(both)
  BY DEF MergeBase
<1>5. Max(both) \in Known
  BY <1>1, <1>2 DEF Known
<1>6. both \subseteq Past(Max(both))
  BY <1>2, <1>3
<1> QED BY <1>4, <1>5, <1>6

(* A commit more leaves the ones there are as they were.                   *)
Grows == log' = log \/ \E e \in Entry, p \in Known :
           log' = Append(log, e) /\ e.past = Past(p) \cup {Len(log) + 1}

LEMMA LogGrows ==
  ASSUME Typed, Lines, Grows
  PROVE  /\ Len(log') \in Nat /\ Len(log) <= Len(log') /\ Known \subseteq Known'
         /\ log' \in Seq(Entry)
         /\ \A n \in Known : Past(n)' = Past(n) /\ (IsPark(n))' = IsPark(n)
         /\ \A n \in Known \ {0} : log'[n] = log[n] /\ Parent(n)' = Parent(n)
         /\ Lines'
<1>1. CASE log' = log
  BY <1>1 DEF Typed, Lines, Known, Past, Parent, IsPark
<1>2. CASE log' # log
  <2>1. PICK e \in Entry, p \in Known :
          log' = Append(log, e) /\ e.past = Past(p) \cup {Len(log) + 1}
    BY <1>2 DEF Grows
  <2>0. PICK new \in Nat : new = Len(log) + 1
    BY DEF Typed
  <2>2. /\ new = Len(log) + 1 /\ log \in Seq(Entry) /\ Len(log) \in Nat
        /\ log' \in Seq(Entry) /\ Len(log') = new /\ Known' = Known \cup {new}
        /\ \A n \in Known \ {0} : log'[n] = log[n]
        /\ log'[new] = e
    BY <2>0, <2>1 DEF Typed, Known
  <2>3. \A n \in Known : Past(n)' = Past(n) /\ (IsPark(n))' = IsPark(n)
    BY <2>2 DEF Past, IsPark
  <2>4. \A n \in Known : Parent(n)' = Parent(n)
    BY <2>3 DEF Parent
  <2>5. Past(new)' = Past(p) \cup {new}
    <3>1. new # 0 /\ log'[new].past = Past(p) \cup {new}
      BY <2>0, <2>1, <2>2
    <3>2. Past(new)' = log'[new].past
      BY <3>1 DEF Past
    <3> QED BY <3>1, <3>2
  <2>6. Lines'
    <3>1. ASSUME NEW n \in Known
          PROVE  /\ (n \in Past(n))' /\ (0 \in Past(n))' /\ (Past(n) \subseteq 0..n)'
                 /\ \A m \in Past(n)' : Past(m)' = {k \in Past(n)' : k <= m}
      <4>1. Past(n)' = Past(n) /\ Past(n) \subseteq Known
        BY <2>2, <2>3 DEF Lines, Known
      <4> QED BY <2>3, <4>1 DEF Lines
    <3>2. /\ new \in Past(new)' /\ 0 \in Past(new)' /\ Past(new)' \subseteq 0..new
          /\ \A m \in Past(new)' : Past(m)' = {k \in Past(new)' : k <= m}
      <4>1. Past(p) \subseteq 0..p /\ 0 \in Past(p) /\ p \in 0..Len(log)
            /\ \A m \in Past(p) : Past(m) = {k \in Past(p) : k <= m}
        BY DEF Lines, Known
      <4>2. ASSUME NEW m \in Past(p) PROVE Past(m)' = {k \in Past(new)' : k <= m}
        <5>1. m \in Known /\ m < new
          BY <2>2, <4>1 DEF Known
        <5>2. Past(m)' = {k \in Past(p) : k <= m}
          BY <2>3, <4>1, <5>1
        <5> QED BY <2>2, <2>5, <4>1, <5>1, <5>2
      <4>3. Past(new)' \subseteq 0..new
        BY <2>2, <2>5, <4>1
      <4>4. Past(new)' = {k \in Past(new)' : k <= new}
        BY <2>2, <4>3
      <4>5. new \in Past(new)' /\ 0 \in Past(new)'
        BY <2>5, <4>1
      <4>6. ASSUME NEW m \in Past(new)' PROVE Past(m)' = {k \in Past(new)' : k <= m}
        <5>1. CASE m \in Past(p)
          BY <4>2, <5>1
        <5>2. CASE m = new
          BY <4>4, <5>2 DEF Past
        <5> QED BY <2>5, <5>1, <5>2
      <4> QED BY <4>3, <4>5, <4>6
    <3>3. \A n \in Known' \ {0} : \E q \in 0..(n-1) : Past(n)' = Past(q)' \cup {n}
      <4>1. ASSUME NEW n \in Known \ {0}
            PROVE  \E q \in 0..(n-1) : Past(n)' = Past(q)' \cup {n}
        <5>1. PICK q \in 0..(n-1) : Past(n) = Past(q) \cup {n}
          BY DEF Lines
        <5>2. q \in Known
          BY <2>2 DEF Known
        <5> QED BY <2>3, <5>1, <5>2
      <4>2. \E q \in 0..(new-1) : Past(new)' = Past(q)' \cup {new}
        BY <2>2, <2>3, <2>5 DEF Known
      <4> QED BY <2>2, <4>1, <4>2
    <3> QED BY <2>2, <3>1, <3>2, <3>3 DEF Lines
  <2> QED BY <2>2, <2>3, <2>4, <2>6
<1> QED BY <1>1, <1>2

-----------------------------------------------------------------------------
(* What the three writes of a switch leave of a task-state file.           *)
Files == T!State \cup {NoFile}

LEMMA BlankIsState == T!Blank \in T!State
BY DEF T!Blank, T!State, T!Opt

LEMMA ParsedIsState == ASSUME NEW f \in Files PROVE T!Parsed(f) \in T!State
BY BlankIsState DEF T!Parsed, Files

LEMMA ParkWrites ==
  ASSUME NEW f \in Files, NEW b, NEW park \in Commits, NEW team \in Teams
  PROVE  LET g == T!Decide([kind |-> "park", slug |-> b, park |-> park, team |-> team], f).file
         IN  /\ g \in T!State /\ g.start = T!Parsed(f).start
             /\ g.park = park /\ g.park_team = team
<1> DEFINE r == [kind |-> "park", slug |-> b, park |-> park, team |-> team]
           g == T!Decide(r, f).file
<1>1. g = [T!Parsed(f) EXCEPT !.park = park, !.park_team = team]
  BY DEF T!Decide, T!Merged, T!Removes, T!Creates, T!Wrote
<1>2. T!Parsed(f) \in T!State
  BY ParsedIsState
<1> HIDE DEF g
<1> QED BY <1>1, <1>2 DEF T!State, T!Opt, g

LEMMA UnparkWrites ==
  ASSUME NEW f \in Files, NEW b
  PROVE  LET g == T!Decide([kind |-> "unpark", slug |-> b], f).file
         IN  /\ f = NoFile => g = NoFile
             /\ f # NoFile => /\ g \in T!State /\ g.start = f.start
                              /\ g.park = None /\ g.park_team = None
<1> DEFINE r == [kind |-> "unpark", slug |-> b]
           g == T!Decide(r, f).file
<1>1. f = NoFile => g = NoFile
  BY DEF T!Decide, T!Removes, T!Creates, T!Keep
<1>2. f # NoFile => g = [f EXCEPT !.park = None, !.park_team = None]
  BY DEF T!Decide, T!Merged, T!Removes, T!Creates, T!Wrote
<1> HIDE DEF g
<1> QED BY <1>1, <1>2 DEF T!State, T!Opt, Files, g

LEMMA SwitchWrites ==
  ASSUME NEW f \in Files, NEW b, NEW task \in Tasks, NEW created \in BOOLEAN,
         NEW start \in Commits \cup {None}
  PROVE  LET g == T!Decide([kind |-> "switch", slug |-> b, task |-> task,
                            created |-> created, start |-> start,
                            orc |-> None, own |-> None], f).file
         IN  /\ g \in T!State
             /\ g.park = T!Parsed(f).park /\ g.park_team = T!Parsed(f).park_team
             /\ g.start \in {start, T!Parsed(f).start}
             /\ start = None => g.start = T!Parsed(f).start
             /\ created /\ start # None => g.start = start
<1> DEFINE r == [kind |-> "switch", slug |-> b, task |-> task, created |-> created,
                 start |-> start, orc |-> None, own |-> None]
           g == T!Decide(r, f).file
           cur == T!Parsed(f)
           cut == start # None /\ (created \/ cur.start = None \/ cur.task # task)
<1>1. cur \in T!State
  BY ParsedIsState
<1>2. g = [cur EXCEPT !.task = task, !.start = IF cut THEN start ELSE @,
             !.orc = IF @ = None THEN None ELSE @, !.session = @, !.session_proof = @]
  <2>1. g = T!Arrive(r, f).file
    BY DEF T!Decide, T!Merged, T!Removes, T!Creates
  <2> QED BY <2>1 DEF T!Arrive, T!Wrote
<1> HIDE DEF g, cur, r
<1>3. /\ g \in T!State
      /\ g.park = cur.park /\ g.park_team = cur.park_team
      /\ g.start = IF cut THEN start ELSE cur.start
  BY <1>1, <1>2 DEF T!State, T!Opt
<1> QED BY <1>3 DEF g, cur, r

-----------------------------------------------------------------------------
(* The commits, and what names them.                                       *)
Git == Typed /\ Lines /\ TipsKnown /\ MergeIsOwn /\ BranchesOwn

LEMMA InPast ==
  ASSUME Typed, Lines, NEW n \in Known
  PROVE  /\ n \in Past(n) /\ 0 \in Past(n) /\ Past(n) \subseteq Known
         /\ \A m \in Past(n) : m \in Known /\ Past(m) \subseteq Past(n)
<1>1. Len(log) \in Nat
  BY DEF Typed
<1> QED BY <1>1 DEF Lines, Known

(* A commit on a branch that is no merge-branch, its own on top of it.     *)
LEMMA OwnCommit ==
  ASSUME Git, RangeIsOwn, NEW b \in Branches \ {Merge}, tip[b] # None,
         NEW work \in SUBSET Work, NEW team \in Teams \cup {None},
         Commit(b, tip[b], work, team), tip' = [tip EXCEPT ![b] = Len(log) + 1],
         UNCHANGED <<origin, seen, file, unwritten>>
  PROVE  /\ (Lines /\ TipsKnown /\ MergeIsOwn /\ BranchesOwn /\ RangeIsOwn)'
         /\ Grows /\ Len(log') = Len(log) + 1
         /\ log'[Len(log) + 1] = [past |-> Past(tip[b]) \cup {Len(log) + 1},
                                  branch |-> b, work |-> work, park |-> team]
<1>0. PICK new \in Nat : new = Len(log) + 1
  BY DEF Git, Typed
<1> DEFINE e == [past |-> Past(tip[b]) \cup {new}, branch |-> b, work |-> work, park |-> team]
<1>1. tip[b] \in Known /\ origin[Merge] \in Known /\ seen \in Known
  <2>1. tip[b] \in Known /\ origin[Merge] \in Known
    BY MergeIsBranch DEF Git, TipsKnown
  <2> QED BY <2>1, InPast DEF Git, TipsKnown
<1>2. e \in Entry /\ log' = Append(log, e) /\ Len(log) \in Nat
  <2>1. Past(tip[b]) \subseteq Known /\ Len(log) \in Nat
    BY <1>1, InPast DEF Git, Typed
  <2>2. Len(log) < MaxCommits /\ log' = Append(log, e)
    BY <1>0 DEF Commit
  <2> QED BY <1>0, <2>1, <2>2, BoundIsNumber DEF Entry, Commits, Known
<1>3. Grows
  BY <1>0, <1>1, <1>2 DEF Grows
<1>4. /\ Len(log') = new /\ Known \subseteq Known' /\ Lines' /\ Known' = Known \cup {new}
      /\ \A n \in Known : Past(n)' = Past(n)
      /\ \A n \in Known \ {0} : log'[n] = log[n]
      /\ log'[new] = e
  <2>1. Len(log') = new /\ log'[new] = e
    BY <1>0, <1>2 DEF Git, Typed
  <2>2. Known' = Known \cup {new}
    BY <1>0, <1>2, <2>1 DEF Known
  <2> QED BY <1>3, <2>1, <2>2, LogGrows DEF Git
<1>5. Past(new)' = Past(tip[b]) \cup {new} /\ new # 0
  <2>1. new # 0 /\ log'[new].past = Past(tip[b]) \cup {new}
    BY <1>0, <1>2, <1>4
  <2> QED BY <2>1 DEF Past
<1>6. \A x \in Branches : tip'[x] = IF x = b THEN new ELSE tip[x]
  BY <1>0 DEF Git, Typed, SwitchTypeOK
<1> HIDE DEF e
<1>7. TipsKnown'
  BY <1>0, <1>1, <1>4, <1>6, MergeIsBranch DEF Git, TipsKnown
<1>8. MergeIsOwn'
  <2>1. Past(origin[Merge])' = Past(origin[Merge]) /\ Past(origin[Merge]) \subseteq Known
    BY <1>1, <1>4, InPast DEF Git
  <2>2. log'[new].branch = b
    BY <1>4 DEF e
  <2> QED BY <1>1, <1>4, <2>1, <2>2 DEF Git, MergeIsOwn
<1>9. BranchesOwn'
  <2>1. Past(seen)' = Past(seen)
    BY <1>1, <1>4
  <2>2. ASSUME NEW x \in Branches, tip'[x] # None, NEW n \in Past(tip[x])' \ {0}
        PROVE  log'[n].branch = x \/ n \in Past(seen)'
    <3>1. CASE x = b
      <4>1. n \in Past(tip[b]) \cup {new}
        BY <1>5, <1>6, <2>2, <3>1
      <4>2. CASE n = new
        BY <1>4, <3>1, <4>2 DEF e
      <4>3. CASE n \in Past(tip[b])
        <5>1. n \in Known \ {0}
          BY <1>1, <2>2, <4>3, InPast DEF Git
        <5> QED BY <1>4, <2>1, <3>1, <4>3, <5>1 DEF Git, BranchesOwn
      <4> QED BY <4>1, <4>2, <4>3
    <3>2. CASE x # b
      <4>1. tip'[x] = tip[x] /\ tip[x] \in Known
        BY <1>6, <2>2, <3>2 DEF Git, TipsKnown
      <4>2. n \in Past(tip[x]) \ {0} /\ n \in Known
        BY <1>4, <4>1, InPast DEF Git
      <4> QED BY <1>4, <2>1, <2>2, <4>1, <4>2 DEF Git, BranchesOwn
    <3> QED BY <3>1, <3>2
  <2> QED BY <2>2 DEF BranchesOwn
<1>10. RangeIsOwn'
  <2> SUFFICES ASSUME NEW x \in Branches \ unwritten, tip'[x] # None, file[x] # NoFile,
                      file[x].start # None, NEW n \in Past(tip[x])' \ Past(file[x].start)'
               PROVE  log'[n].branch = x
    BY DEF RangeIsOwn
  <2>1. file[x].start \in Known /\ Past(file[x].start)' = Past(file[x].start)
    BY <1>4 DEF Git, TipsKnown
  <2>2. CASE x = b
    <3>1. n \in Past(tip[b]) \cup {new}
      BY <1>5, <1>6, <2>2
    <3>2. CASE n = new
      BY <1>4, <2>2, <3>2 DEF e
    <3>3. CASE n \in Past(tip[b])
      <4>1. n \in Known \ {0}
        BY <1>1, <2>1, <3>3, InPast DEF Git
      <4> QED BY <1>4, <2>1, <2>2, <3>3, <4>1 DEF RangeIsOwn
    <3> QED BY <3>1, <3>2, <3>3
  <2>3. CASE x # b
    <3>1. tip'[x] = tip[x] /\ tip[x] \in Known
      BY <1>6, <2>3 DEF Git, TipsKnown
    <3>2. n \in Past(tip[x]) /\ n \in Known \ {0}
      BY <1>4, <2>1, <3>1, InPast DEF Git
    <3> QED BY <1>4, <2>1, <3>1, <3>2 DEF RangeIsOwn
  <2> QED BY <2>2, <2>3
<1>11. log'[Len(log) + 1] = [past |-> Past(tip[b]) \cup {Len(log) + 1},
                            branch |-> b, work |-> work, park |-> team]
  BY <1>0, <1>4 DEF e
<1> QED BY <1>0, <1>3, <1>4, <1>7, <1>8, <1>9, <1>10, <1>11

(* A commit on the remote's merge-branch; a branch may go with it.         *)
LEMMA MergeCommit ==
  ASSUME Git, RangeIsOwn, NEW work \in SUBSET Work,
         Commit(Merge, origin[Merge], work, None),
         origin'[Merge] = Len(log) + 1, tip'[Merge] = tip[Merge],
         \A x \in Branches \ {Merge} : origin'[x] \in {origin[x], None},
         \A x \in Branches : tip'[x] \in {tip[x], None},
         \A x \in Branches : x \notin unwritten' => x \notin unwritten \/ tip'[x] = None,
         UNCHANGED <<seen, file>>
  PROVE  /\ (Lines /\ TipsKnown /\ MergeIsOwn /\ BranchesOwn /\ RangeIsOwn)'
         /\ Grows /\ Len(log') = Len(log) + 1
         /\ log'[Len(log) + 1] = [past |-> Past(origin[Merge]) \cup {Len(log) + 1},
                                  branch |-> Merge, work |-> work, park |-> None]
<1>0. PICK new \in Nat : new = Len(log) + 1
  BY DEF Git, Typed
<1> DEFINE e == [past |-> Past(origin[Merge]) \cup {new}, branch |-> Merge,
                 work |-> work, park |-> None]
<1>1. origin[Merge] \in Known /\ seen \in Past(origin[Merge])
      /\ seen \in Known /\ Past(seen) \subseteq Past(origin[Merge])
  <2>1. origin[Merge] \in Known
    BY MergeIsBranch DEF Git, TipsKnown
  <2> QED BY <2>1, InPast DEF Git, TipsKnown
<1>2. e \in Entry /\ log' = Append(log, e) /\ Len(log) \in Nat
  <2>1. Past(origin[Merge]) \subseteq Known /\ Len(log) \in Nat
    BY <1>1, InPast DEF Git, Typed
  <2>2. Len(log) < MaxCommits /\ log' = Append(log, e)
    BY <1>0 DEF Commit
  <2> QED BY <1>0, <2>1, <2>2, BoundIsNumber, MergeIsBranch DEF Entry, Commits, Known
<1>3. Grows
  BY <1>0, <1>1, <1>2 DEF Grows
<1>4. /\ Len(log') = new /\ Known \subseteq Known' /\ Lines' /\ Known' = Known \cup {new}
      /\ \A n \in Known : Past(n)' = Past(n)
      /\ \A n \in Known \ {0} : log'[n] = log[n]
      /\ log'[new] = e
  <2>1. Len(log') = new /\ log'[new] = e
    BY <1>0, <1>2 DEF Git, Typed
  <2>2. Known' = Known \cup {new}
    BY <1>0, <1>2, <2>1 DEF Known
  <2> QED BY <1>3, <2>1, <2>2, LogGrows DEF Git
<1>5. Past(new)' = Past(origin[Merge]) \cup {new} /\ new # 0
  <2>1. new # 0 /\ log'[new].past = Past(origin[Merge]) \cup {new}
    BY <1>0, <1>2, <1>4
  <2> QED BY <2>1 DEF Past
<1>6. Past(origin[Merge])' = Past(origin[Merge]) \cup {new}
  BY <1>0, <1>5
<1>7. log'[new].branch = Merge /\ log'[new].park = None
  BY <1>4 DEF e
<1> HIDE DEF e
<1>8. TipsKnown'
  <2>1. tip'[Merge] = 0 /\ origin'[Merge] # None
    BY <1>0, NoneIsNothing DEF Git, TipsKnown
  <2>2. seen' \in Past(origin[Merge])'
    BY <1>1, <1>6
  <2>3. /\ \A b \in Branches : tip'[b] \in Known' \cup {None} /\ origin'[b] \in Known' \cup {None}
        /\ \A b \in Branches : file[b] # NoFile => file[b].start \in Known' \cup {None}
    BY <1>0, <1>4 DEF Git, TipsKnown
  <2> QED BY <2>1, <2>2, <2>3 DEF TipsKnown
<1>9. MergeIsOwn'
  <2>1. Past(origin[Merge]) \subseteq Known
    BY <1>1, InPast DEF Git
  <2>2. \A n \in Past(origin[Merge])' \ {0} : log'[n].branch = Merge
    BY <1>4, <1>6, <1>7, <2>1 DEF Git, MergeIsOwn
  <2>3. \A n \in Known' \ {0} : log'[n].branch = Merge => log'[n].park = None
    BY <1>4, <1>7 DEF Git, MergeIsOwn
  <2> QED BY <2>2, <2>3 DEF MergeIsOwn
<1>10. \A x \in Branches : tip'[x] # None =>
         /\ tip'[x] = tip[x] /\ tip[x] \in Known
         /\ Past(tip[x])' = Past(tip[x]) /\ Past(tip[x]) \subseteq Known
  BY <1>4, InPast DEF Git, TipsKnown
<1>11. BranchesOwn'
  <2>1. Past(seen)' = Past(seen)
    BY <1>1, <1>4
  <2> QED BY <1>4, <1>10, <2>1 DEF Git, BranchesOwn
<1>12. RangeIsOwn'
  <2> SUFFICES ASSUME NEW x \in Branches \ unwritten', tip'[x] # None, file[x] # NoFile,
                      file[x].start # None, NEW n \in Past(tip[x])' \ Past(file[x].start)'
               PROVE  log'[n].branch = x
    BY DEF RangeIsOwn
  <2>1. file[x].start \in Known /\ Past(file[x].start)' = Past(file[x].start)
        /\ 0 \in Past(file[x].start)
    BY <1>4, InPast DEF Git, TipsKnown
  <2>2. n \in Past(tip[x]) \ Past(file[x].start) /\ n \in Known \ {0} /\ tip[x] # None
    BY <1>10, <2>1
  <2> QED BY <1>4, <2>1, <2>2 DEF RangeIsOwn
<1>13. log'[Len(log) + 1] = [past |-> Past(origin[Merge]) \cup {Len(log) + 1},
                            branch |-> Merge, work |-> work, park |-> None]
  BY <1>0, <1>4 DEF e
<1> QED BY <1>0, <1>3, <1>4, <1>8, <1>9, <1>11, <1>12, <1>13

LEMMA MergedGrows ==
  ASSUME Git, NEW work \in SUBSET Work, Commit(Merge, origin[Merge], work, None) PROVE Grows
<1> DEFINE e == [past |-> Past(origin[Merge]) \cup {Len(log) + 1}, branch |-> Merge,
                 work |-> work, park |-> None]
<1>1. origin[Merge] \in Known /\ Len(log) \in Nat
  BY MergeIsBranch DEF Git, TipsKnown, Typed
<1>2. Past(origin[Merge]) \subseteq Known /\ log' = Append(log, e) /\ Len(log) < MaxCommits
  BY <1>1, InPast DEF Git, Commit
<1>3. e \in Entry
  BY <1>1, <1>2, MergeIsBranch, BoundIsNumber DEF Entry, Commits, Known
<1> QED BY <1>1, <1>2, <1>3 DEF Grows

(* No commit is made: what the past of one is stays.                       *)
LEMMA SameLog ==
  ASSUME Git, UNCHANGED log
  PROVE  /\ Lines' /\ Grows /\ Known' = Known
         /\ \A n : Past(n)' = Past(n) /\ (IsPark(n))' = IsPark(n) /\ Parent(n)' = Parent(n)
<1>1. \A n : Past(n)' = Past(n) /\ (IsPark(n))' = IsPark(n)
  BY DEF Past, IsPark
<1>2. \A n : Parent(n)' = Parent(n)
  BY <1>1 DEF Parent
<1>3. Known' = Known /\ Grows
  BY DEF Known, Grows
<1> QED BY <1>1, <1>2, <1>3, LogGrows DEF Git

(* The local copy of the remote's merge-branch comes forward.              *)
LEMMA Fetched ==
  ASSUME Git, RangeIsOwn, seen' \in {seen, origin[Merge]},
         UNCHANGED <<log, tip, origin, file, unwritten>>
  PROVE  /\ (Lines /\ TipsKnown /\ MergeIsOwn /\ BranchesOwn /\ RangeIsOwn)'
         /\ Past(seen) \subseteq Past(seen)'
<1>1. origin[Merge] \in Known /\ seen \in Past(origin[Merge])
  BY MergeIsBranch DEF Git, TipsKnown
<1>2. Past(seen) \subseteq Past(origin[Merge]) /\ origin[Merge] \in Past(origin[Merge])
  BY <1>1, InPast DEF Git
<1>3. Lines' /\ Known' = Known /\ \A n : Past(n)' = Past(n)
  BY SameLog
<1>4. Past(seen) \subseteq Past(seen)'
  BY <1>2, <1>3
<1>5. TipsKnown'
  BY <1>1, <1>2, <1>3 DEF Git, TipsKnown
<1>6. MergeIsOwn'
  BY <1>3 DEF Git, MergeIsOwn
<1>7. BranchesOwn'
  BY <1>3, <1>4 DEF Git, BranchesOwn
<1>8. RangeIsOwn'
  BY <1>3 DEF RangeIsOwn
<1> QED BY <1>3, <1>4, <1>5, <1>6, <1>7, <1>8

(* Only the remote's copies of branches of work change.                    *)
LEMMA Pushes ==
  ASSUME Git, RangeIsOwn, origin'[Merge] = origin[Merge],
         \A x \in Branches : origin'[x] \in {origin[x], tip[x]},
         UNCHANGED <<log, tip, seen, file, unwritten>>
  PROVE  (Lines /\ TipsKnown /\ MergeIsOwn /\ BranchesOwn /\ RangeIsOwn)'
<1>1. Lines' /\ Known' = Known /\ \A n : Past(n)' = Past(n)
  BY SameLog
<1>2. TipsKnown'
  BY <1>1 DEF Git, TipsKnown
<1>3. MergeIsOwn'
  BY <1>1 DEF Git, MergeIsOwn
<1>4. BranchesOwn'
  BY <1>1 DEF Git, BranchesOwn
<1>5. RangeIsOwn'
  BY <1>1 DEF RangeIsOwn
<1> QED BY <1>1, <1>2, <1>3, <1>4, <1>5

(* A branch is cut from a commit this repository has seen, or loses the    *)
(* tip of its own.                                                         *)
LEMMA Moves ==
  ASSUME Git, RangeIsOwn, NEW b \in Branches \ {Merge}, NEW n \in Known,
         tip' = [tip EXCEPT ![b] = n],
         \/ n \in Past(seen) /\ b \in unwritten'
         \/ tip[b] # None /\ Past(n) \subseteq Past(tip[b]),
         unwritten \subseteq unwritten', UNCHANGED <<log, origin, seen, file>>
  PROVE  (Lines /\ TipsKnown /\ MergeIsOwn /\ BranchesOwn /\ RangeIsOwn)'
<1>1. Lines' /\ Known' = Known /\ \A m : Past(m)' = Past(m)
  BY SameLog
<1>2. \A x \in Branches : tip'[x] = IF x = b THEN n ELSE tip[x]
  BY DEF Git, Typed, SwitchTypeOK
<1>3. TipsKnown'
  BY <1>1, <1>2, MergeIsBranch DEF Git, TipsKnown
<1>4. MergeIsOwn'
  BY <1>1 DEF Git, MergeIsOwn
<1>5. BranchesOwn'
  <2>1. n \in Past(seen) => Past(n) \subseteq Past(seen)
    <3>1. seen \in Known
      BY MergeIsBranch, InPast DEF Git, TipsKnown
    <3> QED BY <3>1, InPast DEF Git
  <2> QED BY <1>1, <1>2, <2>1 DEF Git, BranchesOwn
<1>6. RangeIsOwn'
  BY <1>1, <1>2 DEF RangeIsOwn
<1> QED BY <1>1, <1>3, <1>4, <1>5, <1>6

(* One task-state file is written; its start, where it changes, bounds the *)
(* branch's own commits.                                                   *)
LEMMA Written ==
  ASSUME Git, RangeIsOwn, NEW b \in Branches, NEW g \in Files,
         file' = [file EXCEPT ![b] = g],
         g # NoFile /\ g.start # None =>
           \/ file[b] # NoFile /\ g.start = file[b].start /\ (b \in unwritten => b \in unwritten')
           \/ /\ g.start \in Known
              /\ tip[b] # None => \A n \in Past(tip[b]) \ Past(g.start) : log[n].branch = b,
         unwritten \ {b} \subseteq unwritten', UNCHANGED <<log, origin, seen, tip>>
  PROVE  (Lines /\ TipsKnown /\ MergeIsOwn /\ BranchesOwn /\ RangeIsOwn)'
<1>1. Lines' /\ Known' = Known /\ \A m : Past(m)' = Past(m)
  BY SameLog
<1>2. \A x \in Branches : file'[x] = IF x = b THEN g ELSE file[x]
  BY DEF Git, Typed
<1>3. TipsKnown'
  BY <1>1, <1>2 DEF Git, TipsKnown
<1>4. MergeIsOwn'
  BY <1>1 DEF Git, MergeIsOwn
<1>5. BranchesOwn'
  BY <1>1 DEF Git, BranchesOwn
<1>6. RangeIsOwn'
  BY <1>1, <1>2 DEF RangeIsOwn
<1> QED BY <1>1, <1>3, <1>4, <1>5, <1>6

-----------------------------------------------------------------------------
(* A switch that takes no step knows what it knew.                         *)
LEMMA Uninvolved ==
  ASSUME Git, Grows, NEW u \in Teams, Informed(u),
         pc'[u] = pc[u], call'[u] = call[u], on'[u] = on[u], tip'[on[u]] = tip[on[u]],
         Past(seen) \subseteq Past(seen)'
  PROVE  Informed(u)'
<1>1. tip[on[u]] \in Known /\ Past(tip[on[u]]) \subseteq Known
  BY InPast DEF Git, Typed, SwitchTypeOK, TipsKnown
<1>2. seen \in Known /\ Past(seen) \subseteq Known
  BY InPast, MergeIsBranch DEF Git, TipsKnown
<1>3. /\ \A n \in Known : Past(n)' = Past(n)
      /\ \A n \in Known \ {0} : log'[n] = log[n]
  BY LogGrows DEF Git
<1>4. pc[u] # "idle" => call[u].base \in Known /\ call[u].base \in Past(seen)'
  BY <1>2 DEF Informed
<1>5. Past(tip[on[u]])' = Past(tip[on[u]])
  BY <1>1, <1>3
<1>6. pc[u] # "idle" => Past(call[u].base)' = Past(call[u].base) /\ 0 \in Past(call[u].base)
  BY <1>3, <1>4, InPast DEF Git
<1>7. ASSUME pc[u] = "arrive", call[u].created
      PROVE  \A n \in Past(tip[on[u]])' \ Past(call[u].base)' : log'[n].branch = on[u]
  BY <1>1, <1>3, <1>5, <1>6, <1>7 DEF Informed
<1> QED BY <1>4, <1>7 DEF Informed

(* What is somewhere stays there, where no commit goes and what a worktree *)
(* holds stays there or is committed.                                      *)
LEMMA StaysSomewhere ==
  ASSUME Git, Grows, WorkIsSomewhere, UNCHANGED made,
         Past(origin[Merge]) \subseteq Past(origin[Merge])',
         \A t \in Teams : \A w \in dirty[t] : Somewhere(w)',
         \A b \in Branches : tip[b] # None =>
           \A n \in Past(tip[b]) \ {0} : \A w \in log[n].work : Somewhere(w)'
  PROVE  WorkIsSomewhere'
<1>1. origin[Merge] \in Known /\ Past(origin[Merge]) \subseteq Known
  BY MergeIsBranch, InPast DEF Git, TipsKnown
<1>2. \A n \in Known \ {0} : log'[n] = log[n]
  BY LogGrows DEF Git
<1>3. ASSUME NEW w, NEW n \in Past(origin[Merge]) \ {0}, w \in log[n].work
      PROVE  Somewhere(w)'
  BY <1>1, <1>2, <1>3 DEF Somewhere
<1> QED BY <1>3 DEF WorkIsSomewhere, Somewhere

(* A branch that goes on, or stands still, keeps what is on it.            *)
LEMMA KeptOnBranch ==
  ASSUME Git, Grows, NEW b \in Branches, tip[b] # None, tip'[b] # None,
         Past(tip[b]) \subseteq Past(tip[b])',
         NEW n \in Past(tip[b]) \ {0}, NEW w \in log[n].work
  PROVE  Somewhere(w)'
<1>1. tip[b] \in Known
  BY DEF Git, TipsKnown
<1>2. n \in Known
  BY <1>1, InPast DEF Git
<1>3. log'[n] = log[n] /\ n \in Past(tip[b])'
  BY <1>2, LogGrows DEF Git
<1> QED BY <1>3 DEF Somewhere

(* Where git stands still, and nobody touches a file or a worktree, only   *)
(* the switch that takes the step is to be looked at.                      *)
World == <<log, tip, origin, seen, on, dirty, file, made, unwritten>>

LEMMA StandsStill ==
  ASSUME IInv, UNCHANGED World
  PROVE  /\ (Lines /\ TipsKnown /\ MergeIsOwn /\ BranchesOwn /\ TreesApart)'
         /\ (WorkIsSomewhere /\ RangeIsOwn)'
         /\ \A u \in Teams : pc'[u] = pc[u] /\ call'[u] = call[u] => Informed(u)'
<1>1. Git /\ RangeIsOwn
  BY DEF IInv, Git
<1>2. /\ Lines' /\ Known' = Known /\ Grows
      /\ \A n : Past(n)' = Past(n)
  BY <1>1, SameLog DEF World
<1>3. (Lines /\ TipsKnown /\ MergeIsOwn /\ BranchesOwn /\ RangeIsOwn)'
  BY <1>1, Pushes DEF World
<1>4. TreesApart'
  BY DEF World, IInv, TreesApart
<1>5. WorkIsSomewhere'
  BY <1>2 DEF World, IInv, WorkIsSomewhere, Somewhere
<1>6. ASSUME NEW u \in Teams, pc'[u] = pc[u], call'[u] = call[u]
      PROVE  Informed(u)'
  BY <1>1, <1>2, <1>6, Uninvolved DEF World, IInv
<1> QED BY <1>3, <1>4, <1>5, <1>6

LEMMA Thinks ==
  ASSUME IInv, UNCHANGED World, NEW t \in Teams, NEW step \in Steps, NEW c \in Call \cup {None},
         pc' = [pc EXCEPT ![t] = step], call' = [call EXCEPT ![t] = c], Informed(t)'
  PROVE  IInv'
<1>1. /\ pc'[t] = step /\ call'[t] = c
      /\ \A u \in Teams : u # t => pc'[u] = pc[u] /\ call'[u] = call[u]
  BY DEF IInv, Typed, SwitchTypeOK
<1>2. SwitchTypeOK'
  BY <1>1 DEF IInv, Typed, SwitchTypeOK, World
<1>3. Typed'
  BY <1>2 DEF IInv, Typed, World
<1>4. \A u \in Teams : Informed(u)'
  BY <1>1, StandsStill
<1> QED BY <1>3, <1>4, StandsStill DEF IInv

(* A call that returns.                                                    *)
LEMMA Ends == ASSUME IInv, UNCHANGED World, NEW t \in Teams, End(t) PROVE IInv'
<1>1. pc' = [pc EXCEPT ![t] = "idle"] /\ call' = [call EXCEPT ![t] = None] /\ pc'[t] = "idle"
  BY DEF End, Goto, IInv, Typed, SwitchTypeOK
<1>2. Informed(t)'
  BY <1>1 DEF Informed
<1> QED BY <1>1, <1>2, Thinks DEF Steps

(* A call that goes on to a step.                                          *)
LEMMA GoesOn ==
  ASSUME IInv, UNCHANGED World, NEW t \in Teams, pc[t] \notin {"idle", "resolve"},
         NEW step \in Steps \ {"idle", "resolve", "arrive"},
         Goto(t, step), UNCHANGED call,
         step \in Arrived => pc[t] \in Arrived,
         step \in {"ask", "reset"} => tip[on[t]] # 0
  PROVE  IInv'
<1>1. /\ pc' = [pc EXCEPT ![t] = step] /\ call' = [call EXCEPT ![t] = call[t]]
      /\ pc'[t] = step /\ call'[t] = call[t] /\ call[t] \in Call
  BY DEF Goto, IInv, Typed, SwitchTypeOK, Informed
<1>2. Past(seen)' = Past(seen)
  BY DEF World, Past
<1>3. Informed(t)'
  BY <1>1, <1>2 DEF World, IInv, Informed
<1> QED BY <1>1, <1>3, Thinks

LEMMA BeginKeeps ==
  ASSUME IInv, NEW t \in Teams, NEW r \in Requests[t], Begin(t, r) PROVE IInv'
<1> DEFINE c == [req |-> r, to |-> None, created |-> FALSE, dirty |-> FALSE,
                 base |-> 0, head |-> 0]
<1>1. /\ pc' = [pc EXCEPT ![t] = "resolve"] /\ call' = [call EXCEPT ![t] = c]
      /\ UNCHANGED World
  BY DEF Begin, Goto, World, git
<1>2. c \in Call
  BY BoundIsNumber DEF Call, Commits
<1>3. pc'[t] = "resolve" /\ call'[t] = c
  BY <1>1 DEF IInv, Typed, SwitchTypeOK
<1>4. 0 \in Past(seen)'
  <2>1. seen \in Known
    BY MergeIsBranch, InPast DEF IInv, TipsKnown
  <2>2. 0 \in Past(seen)
    BY <2>1, InPast DEF IInv
  <2> QED BY <1>1, <2>2 DEF World, Past
<1>5. Informed(t)'
  BY <1>2, <1>3, <1>4 DEF Informed, Arrived
<1> QED BY <1>1, <1>2, <1>5, Thinks DEF Steps

LEMMA ResolveKeeps == ASSUME IInv, NEW t \in Teams, Resolve(t) PROVE IInv'
<1>1. UNCHANGED World /\ pc[t] = "resolve"
  BY DEF Resolve, World, git, ghost
<1>2. CASE End(t)
  BY <1>1, <1>2, Ends
<1>3. CASE ~(Cardinality(Targets(t)) > 1 \/ Targets(t) \subseteq {Merge, on[t]})
  <2>1. PICK b \in Targets(t) :
          /\ call' = [call EXCEPT ![t].to = b, ![t].created = tip[b] = None]
          /\ Goto(t, "status")
    BY <1>3 DEF Resolve
  <2> DEFINE c == [call[t] EXCEPT !.to = b, !.created = tip[b] = None]
  <2>2. call[t] \in Call /\ call[t].req \in Requests[t] /\ call[t].base \in Past(seen)
    BY <1>1 DEF IInv, Informed
  <2>3. b \in Branches \ {Merge}
    <3>1. Request(t).branch \in Branches \cup {None} /\ Request(t).task \in Tasks
      BY <2>2, RequestsAsk DEF Request
    <3>2. CASE Request(t).branch # None
      <4>1. Targets(t) = {Request(t).branch}
        BY <3>2 DEF Targets
      <4> QED BY <1>3, <3>1, <3>2, <4>1
    <3>3. CASE Request(t).branch = None /\ OwnBranches(t, Request(t).task) # {}
      <4>1. Targets(t) = OwnBranches(t, Request(t).task)
        BY <3>3 DEF Targets
      <4> QED BY <4>1 DEF OwnBranches
    <3>4. CASE Request(t).branch = None /\ OwnBranches(t, Request(t).task) = {}
      <4>1. Targets(t) = {NameOf[Request(t).task]}
        BY <3>4 DEF Targets
      <4> QED BY <1>3, <3>1, <4>1, NamesAreBranches
    <3> QED BY <3>2, <3>3, <3>4
  <2>4. /\ c \in Call /\ c.to = b /\ c.base = call[t].base /\ c.req = call[t].req
    BY <2>2, <2>3 DEF Call
  <2>5. call' = [call EXCEPT ![t] = c]
    BY <2>1
  <2> HIDE DEF c
  <2>6. pc' = [pc EXCEPT ![t] = "status"] /\ pc'[t] = "status" /\ call'[t] = c
    BY <2>1, <2>5 DEF Goto, IInv, Typed, SwitchTypeOK
  <2>7. Past(seen)' = Past(seen)
    BY <1>1 DEF World, Past
  <2>8. Informed(t)'
    BY <2>2, <2>3, <2>4, <2>6, <2>7 DEF Informed, Arrived
  <2> QED BY <1>1, <2>4, <2>5, <2>6, <2>8, Thinks DEF Steps
<1> QED BY <1>2, <1>3 DEF Resolve

LEMMA StatusKeeps == ASSUME IInv, NEW t \in Teams, Status(t) PROVE IInv'
<1>1. UNCHANGED World /\ pc[t] = "status"
  BY DEF Status, World, git, ghost
<1>2. CASE End(t)
  BY <1>1, <1>2, Ends
<1>3. CASE ~(dirty[t] # {} /\ ~Request(t).park)
  <2> DEFINE c == [call[t] EXCEPT !.dirty = dirty[t] # {}]
  <2>1. PICK step \in {"base", "inventory", "switch"} :
          /\ call' = [call EXCEPT ![t].dirty = dirty[t] # {}]
          /\ Goto(t, step)
    BY <1>3 DEF Status
  <2>2. /\ call[t] \in Call /\ call[t].req \in Requests[t] /\ call[t].base \in Past(seen)
        /\ call[t].to \in Branches \ {Merge}
    BY <1>1 DEF IInv, Informed
  <2>3. /\ c \in Call /\ c.to = call[t].to /\ c.base = call[t].base /\ c.req = call[t].req
    BY <2>2 DEF Call
  <2>4. call' = [call EXCEPT ![t] = c]
    BY <2>1
  <2> HIDE DEF c
  <2>5. pc' = [pc EXCEPT ![t] = step] /\ pc'[t] = step /\ call'[t] = c
    BY <2>1, <2>4 DEF Goto, IInv, Typed, SwitchTypeOK
  <2>6. Past(seen)' = Past(seen)
    BY <1>1 DEF World, Past
  <2>7. Informed(t)'
    BY <2>2, <2>3, <2>5, <2>6 DEF Informed, Arrived
  <2> QED BY <1>1, <2>3, <2>4, <2>5, <2>7, Thinks DEF Steps
<1> QED BY <1>2, <1>3 DEF Status

LEMMA QuietKeeps ==
  ASSUME IInv, NEW t \in Teams, Inventory(t) \/ Unpark(t) \/ AskRemote(t) \/ Stop(t)
  PROVE  IInv'
<1>1. UNCHANGED World
  BY DEF Inventory, Unpark, AskRemote, Stop, World, git, ghost
<1>2. CASE End(t)
  BY <1>1, <1>2, Ends
<1>3. CASE Inventory(t) /\ Goto(t, "park") /\ UNCHANGED call
  BY <1>1, <1>3, GoesOn DEF Inventory, Steps, Arrived
<1>4. CASE Unpark(t) /\ IsPark(tip[call[t].to]) /\ Goto(t, "ask") /\ UNCHANGED call
  <2>1. pc[t] = "unpark" /\ on[t] = call[t].to
    BY <1>4 DEF Unpark, IInv, Informed, Arrived
  <2>2. tip[on[t]] # 0
    BY <1>4, <2>1 DEF IsPark
  <2> QED BY <1>1, <1>4, <2>1, <2>2, GoesOn DEF Steps, Arrived
<1>5. CASE AskRemote(t) /\ Goto(t, "reset") /\ UNCHANGED call
  <2>1. pc[t] = "ask" /\ tip[on[t]] # 0
    BY <1>5 DEF AskRemote, IInv, Informed
  <2> QED BY <1>1, <1>5, <2>1, GoesOn DEF Steps, Arrived
<1> QED BY <1>2, <1>3, <1>4, <1>5 DEF Inventory, Unpark, AskRemote, Stop

-----------------------------------------------------------------------------
(* The steps that move git, a file or a worktree.                          *)
LEMMA BaseKeeps == ASSUME IInv, NEW t \in Teams, Base(t) PROVE IInv'
<1>0. Git /\ RangeIsOwn /\ pc[t] = "base"
  BY DEF IInv, Git, Base
<1>1. PICK b \in {seen, origin[Merge]} :
        seen' = b /\ call' = [call EXCEPT ![t].base = b]
  BY DEF Base
<1>2. UNCHANGED <<log, tip, origin, on, dirty, file, made, unwritten>>
  BY DEF Base, ghost
<1>3. /\ (Lines /\ TipsKnown /\ MergeIsOwn /\ BranchesOwn /\ RangeIsOwn)'
      /\ Past(seen) \subseteq Past(seen)'
  BY <1>0, <1>1, <1>2, Fetched
<1>4. Grows /\ \A n : Past(n)' = Past(n)
  BY <1>0, <1>2, SameLog
<1>5. b \in Known /\ b \in Past(b) /\ b \in Commits
  <2>1. b \in Known
    BY <1>0, <1>1, MergeIsBranch, InPast DEF Git, TipsKnown
  <2> QED BY <1>0, <2>1, BoundIsNumber, InPast DEF Git, Typed, SwitchTypeOK, Known, Commits
<1> DEFINE c == [call[t] EXCEPT !.base = b]
<1>6. /\ call[t] \in Call /\ call[t].req \in Requests[t] /\ call[t].to \in Branches \ {Merge}
  BY <1>0 DEF IInv, Informed
<1>7. /\ c \in Call /\ c.to = call[t].to /\ c.base = b /\ c.req = call[t].req
  BY <1>5, <1>6 DEF Call
<1>8. call' = [call EXCEPT ![t] = c]
  BY <1>1
<1> HIDE DEF c
<1>9. PICK step \in {"inventory", "switch"} : pc' = [pc EXCEPT ![t] = step]
  BY DEF Base, Goto
<1>10. /\ pc'[t] = step /\ call'[t] = c
       /\ \A u \in Teams : u # t => pc'[u] = pc[u] /\ call'[u] = call[u]
  BY <1>8, <1>9 DEF IInv, Typed, SwitchTypeOK
<1>11. SwitchTypeOK'
  BY <1>1, <1>2, <1>5, <1>7, <1>9, <1>10 DEF IInv, Typed, SwitchTypeOK, Steps
<1>12. Typed'
  BY <1>2, <1>8, <1>11 DEF IInv, Typed
<1>13. Informed(t)'
  BY <1>1, <1>4, <1>5, <1>6, <1>7, <1>10 DEF Informed, Arrived
<1>14. \A u \in Teams \ {t} : Informed(u)'
  BY <1>0, <1>2, <1>3, <1>4, <1>10, Uninvolved DEF IInv
<1>15. TreesApart'
  BY <1>2 DEF IInv, TreesApart
<1>16. WorkIsSomewhere'
  BY <1>2, <1>4 DEF IInv, WorkIsSomewhere, Somewhere
<1> QED BY <1>3, <1>12, <1>13, <1>14, <1>15, <1>16 DEF IInv

(* A commit of a worktree's changes on its branch: a park, or a person's.  *)
LEMMA CommitKeeps ==
  ASSUME IInv, NEW t \in Teams, NEW work \in SUBSET Work, work \subseteq dirty[t],
         NEW team \in Teams \cup {None},
         Commit(on[t], tip[on[t]], work, team),
         tip' = [tip EXCEPT ![on[t]] = Len(log) + 1],
         dirty' = [dirty EXCEPT ![t] = @ \ work],
         UNCHANGED <<origin, seen, on, file, call, made, unwritten>>,
         \/ UNCHANGED pc
         \/ pc[t] = "park" /\ pc' = [pc EXCEPT ![t] = "record"]
  PROVE  IInv'
<1> DEFINE b == on[t]
<1>0. /\ Git /\ RangeIsOwn /\ b \in Branches \ {Merge} /\ tip[b] # None
      /\ tip[b] \in Known /\ Len(log) \in Nat
  BY DEF IInv, Git, Typed, SwitchTypeOK, TipsKnown, TreesApart
<1>1. /\ (Lines /\ TipsKnown /\ MergeIsOwn /\ BranchesOwn /\ RangeIsOwn)'
      /\ Grows /\ Len(log') = Len(log) + 1
      /\ log'[Len(log) + 1] = [past |-> Past(tip[b]) \cup {Len(log) + 1},
                               branch |-> b, work |-> work, park |-> team]
  BY <1>0, OwnCommit
<1>2. PICK new \in Nat : new = Len(log) + 1
  BY <1>0
<1>3. /\ \A x \in Branches : tip'[x] = IF x = b THEN new ELSE tip[x]
      /\ \A u \in Teams : dirty'[u] = IF u = t THEN dirty[u] \ work ELSE dirty[u]
  BY <1>0, <1>2 DEF IInv, Typed, SwitchTypeOK
<1>4. /\ log' \in Seq(Entry) /\ log'[new].past = Past(tip[b]) \cup {new}
      /\ log'[new].work = work /\ log'[new].branch = b /\ new # 0
      /\ \A n \in Known : Past(n)' = Past(n)
      /\ \A n \in Known \ {0} : log'[n] = log[n]
  BY <1>0, <1>1, <1>2, LogGrows DEF Git
<1>5. Past(new)' = Past(tip[b]) \cup {new}
  BY <1>4 DEF Past
<1>6. new <= MaxCommits /\ new \in Commits
  BY <1>0, <1>2, BoundIsNumber DEF Commit, Commits
<1>7. SwitchTypeOK'
  <2>1. \A n \in 1..Len(log') : log'[n] \in Entry
    BY <1>4
  <2>2. tip' \in [Branches -> Commits \cup {None}] /\ \A u \in Teams : tip'[on[u]] # None
    BY <1>3, <1>6, NoneIsNothing DEF IInv, Typed, SwitchTypeOK
  <2>3. pc' \in [Teams -> Steps] /\ dirty' \in [Teams -> SUBSET Work]
    BY DEF IInv, Typed, SwitchTypeOK, Steps
  <2> QED BY <1>1, <1>2, <1>6, <2>1, <2>2, <2>3 DEF IInv, Typed, SwitchTypeOK, Entry
<1>8. Typed'
  BY <1>4, <1>7 DEF IInv, Typed
<1>9. TreesApart'
  BY DEF IInv, TreesApart
<1>10. /\ Past(seen)' = Past(seen) /\ seen \in Known
       /\ Past(origin[Merge])' = Past(origin[Merge])
  <2>1. seen \in Known /\ origin[Merge] \in Known
    BY <1>0, MergeIsBranch, InPast DEF Git, TipsKnown
  <2> QED BY <1>4, <2>1
<1>11. \A u \in Teams \ {t} : Informed(u)'
  <2> SUFFICES ASSUME NEW u \in Teams \ {t} PROVE Informed(u)'
    OBVIOUS
  <2>1. on[u] # b /\ on[u] \in Branches
    BY DEF IInv, TreesApart, Typed, SwitchTypeOK
  <2>2. tip'[on[u]] = tip[on[u]] /\ pc'[u] = pc[u]
    BY <1>3, <2>1 DEF IInv, Typed, SwitchTypeOK
  <2> QED BY <1>0, <1>1, <1>10, <2>2, Uninvolved DEF IInv
<1>12. Informed(t)'
  <2>1. Past(tip[on[t]])' = Past(tip[b]) \cup {new}
    BY <1>0, <1>3, <1>5
  <2>2. pc[t] # "idle" => /\ call[t].base \in Past(seen) /\ call[t].base \in Known
                          /\ Past(call[t].base)' = Past(call[t].base)
                          /\ 0 \in Past(call[t].base)
    BY <1>0, <1>4, <1>10, InPast DEF IInv, Git, Informed
  <2>3. pc'[t] = pc[t] \/ (pc[t] = "park" /\ pc'[t] = "record")
    BY DEF IInv, Typed, SwitchTypeOK
  <2>4. Past(tip[b]) \subseteq Known
    BY <1>0, InPast DEF Git
  <2>5. ASSUME pc[t] = "arrive", call[t].created,
               NEW n \in Past(tip[on[t]])' \ Past(call[t].base)'
        PROVE  log'[n].branch = on[t]
    <3>1. CASE n = new
      BY <1>4, <3>1
    <3>2. CASE n \in Past(tip[b])
      <4>1. n \in Past(tip[b]) \ Past(call[t].base) /\ n \in Known \ {0}
        BY <2>2, <2>4, <2>5, <3>2
      <4> QED BY <1>4, <2>5, <4>1 DEF IInv, Informed
    <3> QED BY <2>1, <3>1, <3>2
  <2>6. tip'[on[t]] # 0
    BY <1>0, <1>3, <1>4
  <2> QED BY <1>10, <2>2, <2>3, <2>5, <2>6 DEF IInv, Informed, Arrived
<1>13. WorkIsSomewhere'
  <2>1. ASSUME NEW u \in Teams, NEW w \in dirty[u] PROVE Somewhere(w)'
    <3>1. CASE u = t /\ w \in work
      <4>1. tip'[b] # None /\ new \in Past(tip[b])' \ {0} /\ w \in log'[new].work
        BY <1>0, <1>3, <1>4, <1>5, <3>1, NoneIsNothing
      <4> QED BY <1>0, <4>1 DEF Somewhere
    <3>2. CASE ~(u = t /\ w \in work)
      BY <1>3, <2>1, <3>2 DEF Somewhere
    <3> QED BY <3>1, <3>2
  <2>2. ASSUME NEW x \in Branches, tip[x] # None
        PROVE  tip'[x] # None /\ Past(tip[x]) \subseteq Past(tip[x])'
    BY <1>0, <1>3, <1>4, <1>5, <2>2, NoneIsNothing DEF Git, TipsKnown
  <2>3. \A x \in Branches : tip[x] # None =>
          \A n \in Past(tip[x]) \ {0} : \A w \in log[n].work : Somewhere(w)'
    BY <1>0, <1>1, <2>2, KeptOnBranch
  <2> QED BY <1>0, <1>1, <1>10, <2>1, <2>3, StaysSomewhere DEF IInv
<1> QED BY <1>1, <1>8, <1>9, <1>11, <1>12, <1>13 DEF IInv

LEMMA ParkCommitKeeps == ASSUME IInv, NEW t \in Teams, ParkCommit(t) PROVE IInv'
<1> DEFINE work == (dirty[t] \ New) \cup (Request(t).include \cap dirty[t])
<1>1. work \in SUBSET Work /\ work \subseteq dirty[t]
  BY DEF IInv, Typed, SwitchTypeOK
<1>2. /\ Commit(on[t], tip[on[t]], work, t) /\ dirty' = [dirty EXCEPT ![t] = @ \ work]
      /\ tip' = [tip EXCEPT ![on[t]] = Len(log) + 1]
      /\ pc[t] = "park" /\ pc' = [pc EXCEPT ![t] = "record"]
      /\ UNCHANGED <<origin, seen, on, file, call, made, unwritten>>
  BY DEF ParkCommit, Goto
<1> HIDE DEF work
<1> QED BY <1>1, <1>2, CommitKeeps

LEMMA CommitWorkKeeps == ASSUME IInv, NEW t \in Teams, CommitWork(t) PROVE IInv'
<1>1. dirty[t] \in SUBSET Work /\ dirty' = [dirty EXCEPT ![t] = @ \ dirty[t]]
  BY DEF CommitWork, IInv, Typed, SwitchTypeOK
<1>2. /\ Commit(on[t], tip[on[t]], dirty[t], None)
      /\ tip' = [tip EXCEPT ![on[t]] = Len(log) + 1]
      /\ UNCHANGED <<origin, seen, on, file, call, made, unwritten, pc>>
  BY DEF CommitWork, ghost
<1> QED BY <1>1, <1>2, CommitKeeps

LEMMA EditKeeps == ASSUME IInv, NEW t \in Teams, NEW w \in Work, Edit(t, w) PROVE IInv'
<1>0. Git /\ RangeIsOwn
  BY DEF IInv, Git
<1>1. /\ made' = [made EXCEPT ![w] = on[t]] /\ dirty' = [dirty EXCEPT ![t] = @ \cup {w}]
      /\ UNCHANGED <<log, tip, origin, seen, on, file, pc, call, unwritten>>
  BY DEF Edit
<1>2. SwitchTypeOK'
  BY <1>1 DEF IInv, Typed, SwitchTypeOK
<1>3. Typed'
  BY <1>1, <1>2 DEF IInv, Typed
<1>4. (Lines /\ TipsKnown /\ MergeIsOwn /\ BranchesOwn /\ RangeIsOwn)'
  BY <1>0, <1>1, Pushes
<1>5. Grows /\ \A n : Past(n)' = Past(n)
  BY <1>0, <1>1, SameLog
<1>6. \A u \in Teams : Informed(u)'
  BY <1>0, <1>1, <1>5, Uninvolved DEF IInv
<1>7. TreesApart'
  BY <1>1 DEF IInv, TreesApart
<1>8. WorkIsSomewhere'
  <2>1. w \in dirty'[t] /\ \A u \in Teams : dirty[u] \subseteq dirty'[u]
    BY <1>1 DEF IInv, Typed, SwitchTypeOK
  <2>2. Somewhere(w)'
    BY <2>1 DEF Somewhere
  <2>3. ASSUME NEW v \in Work, v # w, made'[v] # None PROVE Somewhere(v)'
    <3>1. Somewhere(v)
      BY <1>1, <2>3 DEF IInv, WorkIsSomewhere, Typed, SwitchTypeOK
    <3> QED BY <1>1, <1>5, <2>1, <3>1 DEF Somewhere
  <2> QED BY <2>2, <2>3 DEF WorkIsSomewhere
<1> QED BY <1>3, <1>4, <1>6, <1>7, <1>8 DEF IInv

LEMMA PushKeeps == ASSUME IInv, NEW b \in Branches, Push(b) PROVE IInv'
<1>0. Git /\ RangeIsOwn
  BY DEF IInv, Git
<1>1. /\ origin' = [origin EXCEPT ![b] = tip[b]] /\ b # Merge
      /\ UNCHANGED <<log, tip, seen, on, dirty, file, pc, call, made, unwritten>>
  BY DEF Push, ghost
<1>2. \A x \in Branches : origin'[x] = IF x = b THEN tip[b] ELSE origin[x]
  BY <1>1 DEF IInv, Typed, SwitchTypeOK
<1>3. SwitchTypeOK'
  BY <1>1 DEF IInv, Typed, SwitchTypeOK
<1>4. Typed'
  BY <1>1, <1>3 DEF IInv, Typed
<1>5. (Lines /\ TipsKnown /\ MergeIsOwn /\ BranchesOwn /\ RangeIsOwn)'
  BY <1>0, <1>1, <1>2, MergeIsBranch, Pushes
<1>6. Grows /\ \A n : Past(n)' = Past(n)
  BY <1>0, <1>1, SameLog
<1>7. \A u \in Teams : Informed(u)'
  BY <1>0, <1>1, <1>6, Uninvolved DEF IInv
<1>8. TreesApart'
  BY <1>1 DEF IInv, TreesApart
<1>9. WorkIsSomewhere'
  BY <1>1, <1>2, <1>6, MergeIsBranch DEF IInv, WorkIsSomewhere, Somewhere
<1> QED BY <1>4, <1>5, <1>7, <1>8, <1>9 DEF IInv

(* What lands is all that the branch has and the merge-branch has not.     *)
LEMMA MergedKeeps ==
  ASSUME IInv, NEW work \in SUBSET Work, Commit(Merge, origin[Merge], work, None),
         NEW gone \in SUBSET (Branches \ {Merge}),
         \A t \in Teams : on[t] \notin gone,
         origin' = [b \in Branches |-> IF b = Merge THEN Len(log) + 1
                                       ELSE IF b \in gone THEN None ELSE origin[b]],
         tip' = [b \in Branches |-> IF b \in gone THEN None ELSE tip[b]],
         unwritten' = unwritten \ gone,
         \A b \in gone : tip[b] # None =>
           \A n \in Past(tip[b]) \ Past(origin[Merge]) : log[n].work \subseteq work,
         UNCHANGED <<seen, on, dirty, file, pc, call, made>>
  PROVE  IInv'
<1>0. /\ Git /\ RangeIsOwn /\ Len(log) \in Nat
      /\ origin[Merge] \in Known /\ Past(origin[Merge]) \subseteq Known
      /\ seen \in Known
  BY MergeIsBranch, InPast DEF IInv, Git, Typed, TipsKnown
<1>1. PICK new \in Nat : new = Len(log) + 1
  BY <1>0
<1>2. /\ (Lines /\ TipsKnown /\ MergeIsOwn /\ BranchesOwn /\ RangeIsOwn)'
      /\ Grows /\ Len(log') = Len(log) + 1
      /\ log'[Len(log) + 1] = [past |-> Past(origin[Merge]) \cup {Len(log) + 1},
                               branch |-> Merge, work |-> work, park |-> None]
  <2>1. /\ origin'[Merge] = Len(log) + 1 /\ tip'[Merge] = tip[Merge]
        /\ \A x \in Branches \ {Merge} : origin'[x] \in {origin[x], None}
        /\ \A x \in Branches : tip'[x] \in {tip[x], None}
        /\ \A x \in Branches : x \notin unwritten' => x \notin unwritten \/ tip'[x] = None
    BY MergeIsBranch
  <2> QED BY <1>0, <2>1, MergeCommit
<1>3. /\ log' \in Seq(Entry) /\ log'[new].past = Past(origin[Merge]) \cup {new}
      /\ log'[new].work = work /\ new # 0 /\ origin'[Merge] = new
      /\ \A n \in Known : Past(n)' = Past(n)
      /\ \A n \in Known \ {0} : log'[n] = log[n]
  BY <1>0, <1>1, <1>2, LogGrows, MergeIsBranch DEF Git
<1>4. Past(new)' = Past(origin[Merge]) \cup {new}
  BY <1>3 DEF Past
<1>5. Past(origin[Merge])' = Past(origin[Merge]) \cup {new}
  BY <1>3, <1>4
<1>6. new <= MaxCommits /\ new \in Commits
  BY <1>0, <1>1, BoundIsNumber DEF Commit, Commits
<1>7. SwitchTypeOK'
  <2>1. \A n \in 1..Len(log') : log'[n] \in Entry
    BY <1>3
  <2>2. /\ tip' \in [Branches -> Commits \cup {None}] /\ \A u \in Teams : tip'[on[u]] # None
        /\ origin' \in [Branches -> Commits \cup {None}]
    BY <1>1, <1>6 DEF IInv, Typed, SwitchTypeOK
  <2> QED BY <1>1, <1>2, <1>6, <2>1, <2>2 DEF IInv, Typed, SwitchTypeOK, Entry
<1>8. Typed'
  BY <1>3, <1>7 DEF IInv, Typed
<1>9. TreesApart'
  BY DEF IInv, TreesApart
<1>10. Past(seen)' = Past(seen)
  BY <1>0, <1>3
<1>11. \A u \in Teams : Informed(u)'
  <2> SUFFICES ASSUME NEW u \in Teams PROVE Informed(u)'
    OBVIOUS
  <2>1. tip'[on[u]] = tip[on[u]]
    BY DEF IInv, Typed, SwitchTypeOK
  <2> QED BY <1>0, <1>2, <1>10, <2>1, Uninvolved DEF IInv
<1>12. WorkIsSomewhere'
  <2>1. \A u \in Teams : \A w \in dirty[u] : Somewhere(w)'
    BY DEF Somewhere
  <2>2. ASSUME NEW x \in Branches, tip[x] # None,
               NEW n \in Past(tip[x]) \ {0}, NEW w \in log[n].work
        PROVE  Somewhere(w)'
    <3>1. CASE x \notin gone
      <4>1. tip'[x] # None /\ Past(tip[x]) \subseteq Past(tip[x])'
        BY <1>3, <2>2, <3>1 DEF IInv, TipsKnown
      <4> QED BY <1>0, <1>2, <2>2, <4>1, KeptOnBranch
    <3>2. CASE x \in gone /\ n \in Past(origin[Merge])
      <4>1. n \in Past(origin[Merge])' \ {0} /\ log'[n] = log[n]
        BY <1>0, <1>3, <1>5, <3>2
      <4> QED BY <4>1 DEF Somewhere
    <3>3. CASE x \in gone /\ n \notin Past(origin[Merge])
      <4>1. w \in log'[new].work /\ new \in Past(origin[Merge])' \ {0}
        BY <1>3, <1>5, <2>2, <3>3
      <4> QED BY <4>1 DEF Somewhere
    <3> QED BY <3>1, <3>2, <3>3
  <2> QED BY <1>0, <1>2, <1>5, <2>1, <2>2, StaysSomewhere DEF IInv
<1> QED BY <1>2, <1>8, <1>9, <1>11, <1>12 DEF IInv

LEMMA AdvanceKeeps == ASSUME IInv, Advance PROVE IInv'
<1>1. /\ Commit(Merge, origin[Merge], {}, None)
      /\ UNCHANGED <<tip, seen, on, dirty, file, pc, call, made, unwritten>>
  BY DEF Advance, ghost
<1> DEFINE gone == {}
<1>2. /\ origin' = [b \in Branches |-> IF b = Merge THEN Len(log) + 1
                                      ELSE IF b \in gone THEN None ELSE origin[b]]
      /\ tip' = [b \in Branches |-> IF b \in gone THEN None ELSE tip[b]]
      /\ unwritten' = unwritten \ gone
      /\ gone \in SUBSET (Branches \ {Merge}) /\ \A t \in Teams : on[t] \notin gone
      /\ \A b \in gone : tip[b] # None =>
           \A n \in Past(tip[b]) \ Past(origin[Merge]) : log[n].work \subseteq {}
  BY <1>1 DEF Advance, IInv, Typed, SwitchTypeOK
<1> HIDE DEF gone
<1>3. {} \in SUBSET Work
  OBVIOUS
<1> QED BY <1>1, <1>2, <1>3, MergedKeeps

LEMMA BranchWorks ==
  ASSUME IInv, NEW b \in Branches, tip[b] # None
  PROVE  \A n \in Past(tip[b]) \ Past(origin[Merge]) : log[n].work \subseteq Work
<1>1. tip[b] \in Known /\ origin[Merge] \in Known /\ Len(log) \in Nat
  BY MergeIsBranch DEF IInv, TipsKnown, Typed
<1>2. Past(tip[b]) \subseteq Known /\ 0 \in Past(origin[Merge])
  BY <1>1, InPast DEF IInv
<1>3. \A n \in Known \ {0} : log[n].work \subseteq Work
  BY <1>1 DEF IInv, Typed, SwitchTypeOK, Known
<1> QED BY <1>2, <1>3

LEMMA LandKeeps == ASSUME IInv, NEW b \in Branches, Land(b) PROVE IInv'
<1> DEFINE work == UNION {log[n].work : n \in Past(tip[b]) \ Past(origin[Merge])}
<1>1. /\ Commit(Merge, origin[Merge], work, None) /\ b # Merge /\ tip[b] # None
      /\ UNCHANGED <<seen, on, dirty, file, pc, call, made>>
  BY DEF Land
<1>2. \A n \in Past(tip[b]) \ Past(origin[Merge]) : log[n].work \subseteq Work
  BY <1>1, BranchWorks
<1>3. work \in SUBSET Work /\ \A n \in Past(tip[b]) \ Past(origin[Merge]) : log[n].work \subseteq work
  BY <1>2
<1> HIDE DEF work
<1> DEFINE gone == {b}
<1>4. /\ origin' = [x \in Branches |-> IF x = Merge THEN Len(log) + 1
                                      ELSE IF x \in gone THEN None ELSE origin[x]]
      /\ tip' = [x \in Branches |-> IF x \in gone THEN None ELSE tip[x]]
      /\ unwritten' = unwritten \ gone
  BY <1>1 DEF Land, IInv, Typed, SwitchTypeOK
<1>5. /\ gone \in SUBSET (Branches \ {Merge}) /\ \A t \in Teams : on[t] \notin gone
      /\ \A x \in gone : tip[x] # None =>
           \A n \in Past(tip[x]) \ Past(origin[Merge]) : log[n].work \subseteq work
  BY <1>1, <1>3 DEF Land
<1> HIDE DEF gone
<1> QED BY <1>1, <1>3, <1>4, <1>5, MergedKeeps

LEMMA GitSwitchKeeps == ASSUME IInv, NEW t \in Teams, GitSwitch(t) PROVE IInv'
<1>0. /\ Git /\ RangeIsOwn /\ pc[t] = "switch" /\ Len(log) \in Nat
      /\ call[t] \in Call /\ call[t].req \in Requests[t] /\ call[t].base \in Past(seen)
      /\ call[t].to \in Branches \ {Merge}
  BY DEF IInv, Git, Typed, GitSwitch, Informed
<1>1. PICK to \in Branches \ {Merge} : to = call[t].to
  BY <1>0
<1>2. PICK at : at = IF call[t].created THEN call[t].base ELSE tip[to]
  OBVIOUS
<1>3. /\ call[t].created <=> tip[to] = None
      /\ tip' = [tip EXCEPT ![to] = at] /\ on' = [on EXCEPT ![t] = to]
      /\ unwritten' = IF call[t].created THEN unwritten \cup {to} ELSE unwritten
      /\ call' = [call EXCEPT ![t].head = at]
      /\ pc' = [pc EXCEPT ![t] = "arrive"]
      /\ UNCHANGED <<log, origin, seen, dirty, file, made>>
      /\ \A u \in Teams \ {t} : on[u] # to
  BY <1>1, <1>2 DEF GitSwitch, Goto
<1>4. /\ Past(seen) \subseteq Known /\ call[t].base \in Known
      /\ Past(seen)' = Past(seen) /\ Grows /\ \A n : Past(n)' = Past(n)
  BY <1>0, <1>3, MergeIsBranch, InPast, SameLog DEF Git, TipsKnown
<1>5. at \in Known /\ at \in Commits /\ at # None
      /\ (call[t].created => at = call[t].base)
      /\ (tip[to] # None => at = tip[to])
  <2>1. at \in Known
    BY <1>0, <1>2, <1>3, <1>4 DEF IInv, TipsKnown
  <2> QED BY <1>0, <1>2, <1>3, <2>1, BoundIsNumber, NoneIsNothing DEF Known, Commits, IInv, Typed, SwitchTypeOK
<1>6. (Lines /\ TipsKnown /\ MergeIsOwn /\ BranchesOwn /\ RangeIsOwn)'
  BY <1>0, <1>3, <1>5, Moves
<1>7. /\ \A x \in Branches : tip'[x] = IF x = to THEN at ELSE tip[x]
      /\ \A u \in Teams : on'[u] = IF u = t THEN to ELSE on[u]
      /\ on' \in [Teams -> Branches]
  BY <1>3 DEF IInv, Typed, SwitchTypeOK
<1> DEFINE c == [call[t] EXCEPT !.head = at]
<1>8. /\ c \in Call /\ c.to = to /\ c.base = call[t].base /\ c.req = call[t].req
      /\ c.created = call[t].created
  BY <1>0, <1>1, <1>5 DEF Call
<1>9. call' = [call EXCEPT ![t] = c]
  BY <1>3
<1> HIDE DEF c
<1>10. /\ pc'[t] = "arrive" /\ call'[t] = c
       /\ \A u \in Teams : u # t => pc'[u] = pc[u] /\ call'[u] = call[u]
  BY <1>3, <1>9 DEF IInv, Typed, SwitchTypeOK
<1>11. SwitchTypeOK'
  <2>1. tip' \in [Branches -> Commits \cup {None}] /\ \A u \in Teams : tip'[on'[u]] # None
    BY <1>3, <1>5, <1>7 DEF IInv, Typed, SwitchTypeOK
  <2>2. pc' \in [Teams -> Steps] /\ \A u \in Teams : call'[u] # None => call'[u] \in Call
    BY <1>3, <1>8, <1>10 DEF IInv, Typed, SwitchTypeOK, Steps
  <2> QED BY <1>3, <1>7, <2>1, <2>2 DEF IInv, Typed, SwitchTypeOK
<1>12. Typed'
  BY <1>3, <1>9, <1>11 DEF IInv, Typed
<1>13. TreesApart'
  BY <1>3, <1>7 DEF IInv, TreesApart
<1>14. Informed(t)'
  <2>1. tip'[on'[t]] = at /\ on'[t] = to
    BY <1>7
  <2>2. Past(tip[on[t]])' = Past(at)
    BY <1>4, <2>1 DEF Past
  <2>3. call[t].created => Past(call[t].base)' = Past(at)
    <3>1. ASSUME call[t].created PROVE call'[t].base = at
      BY <1>5, <1>8, <1>10, <3>1
    <3> QED BY <1>4, <3>1 DEF Past
  <2> QED BY <1>0, <1>4, <1>8, <1>10, <2>1, <2>2, <2>3 DEF Informed, Arrived
<1>15. \A u \in Teams \ {t} : Informed(u)'
  <2> SUFFICES ASSUME NEW u \in Teams \ {t} PROVE Informed(u)'
    OBVIOUS
  <2>1. on'[u] = on[u] /\ tip'[on[u]] = tip[on[u]]
    BY <1>3, <1>7 DEF IInv, Typed, SwitchTypeOK
  <2> QED BY <1>0, <1>4, <1>10, <2>1, Uninvolved DEF IInv
<1>16. WorkIsSomewhere'
  <2>1. \A x \in Branches : tip[x] # None => tip'[x] = tip[x]
    BY <1>5, <1>7
  <2> QED BY <1>3, <1>4, <2>1 DEF IInv, WorkIsSomewhere, Somewhere
<1> QED BY <1>6, <1>12, <1>13, <1>14, <1>15, <1>16 DEF IInv

LEMMA ResetKeeps == ASSUME IInv, NEW t \in Teams, Reset(t) PROVE IInv'
<1>0. /\ Git /\ RangeIsOwn /\ pc[t] = "reset" /\ Len(log) \in Nat
      /\ call[t] \in Call /\ on[t] \in Branches \ {Merge} /\ on[t] = call[t].to
      /\ tip[on[t]] \in Known \ {0}
  BY DEF IInv, Git, Typed, SwitchTypeOK, TipsKnown, TreesApart, Reset, Informed, Arrived
<1>1. PICK n \in Known \ {0} : n = tip[on[t]]
  BY <1>0
<1>2. PICK p : p = Parent(n)
  OBVIOUS
<1>3. p \in Known /\ Past(p) = Past(n) \ {n} /\ p \in Commits /\ p # None
  <2>1. p \in Known /\ Past(p) = Past(n) \ {n}
    BY <1>0, <1>2, ParentIs DEF Git
  <2> QED BY <1>0, <2>1, BoundIsNumber, NoneIsNothing DEF Known, Commits, IInv, Typed, SwitchTypeOK
<1>4. /\ tip' = [tip EXCEPT ![on[t]] = p]
      /\ dirty' = [dirty EXCEPT ![t] = @ \cup log[n].work]
      /\ pc' = [pc EXCEPT ![t] = "clear"]
      /\ UNCHANGED <<log, origin, seen, on, file, call, made, unwritten>>
  BY <1>1, <1>2 DEF Reset, Goto, ghost, IInv, Typed, SwitchTypeOK
<1>5. (Lines /\ TipsKnown /\ MergeIsOwn /\ BranchesOwn /\ RangeIsOwn)'
  <2>1. n # None /\ Past(p) \subseteq Past(n) /\ n \in Nat
    BY <1>0, <1>3, NoneIsNothing DEF Known
  <2>2. tip[on[t]] # None /\ Past(p) \subseteq Past(tip[on[t]]) /\ unwritten \subseteq unwritten'
    BY <1>1, <1>4, <2>1
  <2> QED BY <1>0, <1>3, <1>4, <2>2, Moves
<1>6. Grows /\ \A m : Past(m)' = Past(m)
  BY <1>0, <1>4, SameLog
<1>7. /\ \A x \in Branches : tip'[x] = IF x = on[t] THEN p ELSE tip[x]
      /\ \A u \in Teams : dirty'[u] = IF u = t THEN dirty[u] \cup log[n].work ELSE dirty[u]
      /\ \A u \in Teams : pc'[u] = IF u = t THEN "clear" ELSE pc[u]
  BY <1>4 DEF IInv, Typed, SwitchTypeOK
<1>8. SwitchTypeOK'
  <2>1. log[n].work \subseteq Work
    BY <1>0, <1>1 DEF IInv, Typed, SwitchTypeOK, Known
  <2>2. tip' \in [Branches -> Commits \cup {None}] /\ \A u \in Teams : tip'[on[u]] # None
    BY <1>3, <1>4, <1>7 DEF IInv, Typed, SwitchTypeOK
  <2>3. pc' \in [Teams -> Steps] /\ dirty' \in [Teams -> SUBSET Work]
    BY <1>4, <2>1 DEF IInv, Typed, SwitchTypeOK, Steps
  <2> QED BY <1>4, <2>2, <2>3 DEF IInv, Typed, SwitchTypeOK
<1>9. Typed'
  BY <1>4, <1>8 DEF IInv, Typed
<1>10. TreesApart'
  BY <1>4 DEF IInv, TreesApart
<1>11. Informed(t)'
  BY <1>0, <1>4, <1>6, <1>7 DEF IInv, Informed, Arrived
<1>12. \A u \in Teams \ {t} : Informed(u)'
  <2> SUFFICES ASSUME NEW u \in Teams \ {t} PROVE Informed(u)'
    OBVIOUS
  <2>1. on[u] # on[t] /\ on[u] \in Branches
    BY DEF IInv, TreesApart, Typed, SwitchTypeOK
  <2> QED BY <1>0, <1>4, <1>6, <1>7, <2>1, Uninvolved DEF IInv
<1>13. WorkIsSomewhere'
  <2>1. \A u \in Teams : \A w \in dirty[u] : Somewhere(w)'
    BY <1>7 DEF Somewhere
  <2>2. ASSUME NEW x \in Branches, tip[x] # None,
               NEW m \in Past(tip[x]) \ {0}, NEW w \in log[m].work
        PROVE  Somewhere(w)'
    <3>1. CASE x = on[t] /\ m = n
      <4>1. w \in dirty'[t]
        BY <1>7, <2>2, <3>1
      <4> QED BY <4>1 DEF Somewhere
    <3>2. CASE x = on[t] /\ m # n
      <4>1. tip'[x] # None /\ m \in Past(tip[x])' \ {0}
        BY <1>0, <1>1, <1>3, <1>6, <1>7, <2>2, <3>2
      <4> QED BY <1>4, <2>2, <4>1 DEF Somewhere
    <3>3. CASE x # on[t]
      <4>1. tip'[x] = tip[x] /\ Past(tip[x]) \subseteq Past(tip[x])'
        BY <1>6, <1>7, <3>3
      <4> QED BY <1>0, <1>6, <2>2, <4>1, KeptOnBranch
    <3> QED BY <3>1, <3>2, <3>3
  <2>3. Past(origin[Merge]) \subseteq Past(origin[Merge])'
    BY <1>4, <1>6
  <2> QED BY <1>0, <1>4, <1>6, <2>1, <2>2, <2>3, StaysSomewhere DEF IInv
<1> QED BY <1>5, <1>9, <1>10, <1>11, <1>12, <1>13 DEF IInv

(* A write on a task-state file, with which the call goes on or ends.      *)
LEMMA WriteKeeps ==
  ASSUME IInv, NEW t \in Teams, NEW b \in Branches, NEW g \in Files,
         file' = [file EXCEPT ![b] = g],
         g # NoFile => (g.park = None <=> g.park_team = None),
         g # NoFile /\ g.start # None =>
           \/ file[b] # NoFile /\ g.start = file[b].start /\ (b \in unwritten => b \in unwritten')
           \/ /\ g.start \in Known
              /\ tip[b] # None => \A n \in Past(tip[b]) \ Past(g.start) : log[n].branch = b,
         unwritten \ {b} \subseteq unwritten',
         UNCHANGED <<log, tip, origin, seen, on, dirty, made>>,
         \/ End(t)
         \/ pc[t] = "record" /\ Goto(t, "switch") /\ UNCHANGED call
         \/ pc[t] = "arrive" /\ Goto(t, "unpark") /\ UNCHANGED call
  PROVE  IInv'
<1>0. Git /\ RangeIsOwn
  BY DEF IInv, Git
<1>1. (Lines /\ TipsKnown /\ MergeIsOwn /\ BranchesOwn /\ RangeIsOwn)'
  BY <1>0, Written
<1>2. Grows /\ \A n : Past(n)' = Past(n)
  BY <1>0, SameLog
<1>3. /\ pc' \in [Teams -> Steps]
      /\ \A u \in Teams : u # t => pc'[u] = pc[u] /\ call'[u] = call[u]
      /\ call'[t] \in {call[t], None}
      /\ call' = [u \in Teams |-> call'[u]]
      /\ \/ pc'[t] = "idle"
         \/ pc[t] = "record" /\ pc'[t] = "switch" /\ call'[t] = call[t]
         \/ pc[t] = "arrive" /\ pc'[t] = "unpark" /\ call'[t] = call[t]
  BY DEF End, Goto, IInv, Typed, SwitchTypeOK, Steps
<1>4. \A x \in Branches : file'[x] = IF x = b THEN g ELSE file[x]
  BY DEF IInv, Typed
<1>5. SwitchTypeOK'
  <2>1. \A x \in Branches : file'[x] # NoFile =>
          file'[x] \in T!State /\ (file'[x].park = None <=> file'[x].park_team = None)
    BY <1>4 DEF IInv, Typed, SwitchTypeOK, Files
  <2>2. \A u \in Teams : call'[u] # None => call'[u] \in Call
    BY <1>3 DEF IInv, Typed, SwitchTypeOK
  <2> QED BY <1>3, <2>1, <2>2 DEF IInv, Typed, SwitchTypeOK
<1>6. Typed'
  BY <1>3, <1>5 DEF IInv, Typed
<1>7. TreesApart'
  BY DEF IInv, TreesApart
<1>8. Informed(t)'
  BY <1>2, <1>3 DEF IInv, Informed, Arrived
<1>9. \A u \in Teams \ {t} : Informed(u)'
  BY <1>0, <1>2, <1>3, Uninvolved DEF IInv
<1>10. WorkIsSomewhere'
  BY <1>2 DEF IInv, WorkIsSomewhere, Somewhere
<1> QED BY <1>1, <1>6, <1>7, <1>8, <1>9, <1>10 DEF IInv

LEMMA FileIsFile == ASSUME Typed, NEW b \in Branches PROVE file[b] \in Files
  BY DEF Typed, SwitchTypeOK, Files

(* A file that is not there names no start.                                *)
LEMMA StartIsKept ==
  ASSUME NEW f, T!Parsed(f).start # None
  PROVE  f # NoFile /\ T!Parsed(f) = f
  BY DEF T!Parsed, T!Blank

LEMMA RecordParkKeeps == ASSUME IInv, NEW t \in Teams, RecordPark(t) PROVE IInv'
<1> DEFINE b == on[t]  f == file[b]
           g == T!Decide([kind |-> "park", slug |-> b, park |-> tip[b], team |-> t], f).file
<1>1. b \in Branches /\ tip[b] \in Commits /\ tip[b] # None /\ f \in Files
  BY FileIsFile DEF IInv, Typed, SwitchTypeOK
<1>2. /\ g \in T!State /\ g.start = T!Parsed(f).start /\ g.park = tip[b] /\ g.park_team = t
  BY <1>1, ParkWrites
<1>3. /\ file' = [file EXCEPT ![b] = g] /\ pc[t] = "record" /\ Goto(t, "switch")
      /\ UNCHANGED <<log, tip, origin, seen, on, dirty, made, call, unwritten>>
  BY <1>1 DEF RecordPark, Write, git
<1> HIDE DEF g
<1>4. g.start # None => f # NoFile /\ g.start = f.start
  BY <1>2, StartIsKept
<1>5. (g.park = None <=> g.park_team = None) /\ g \in Files
  BY <1>1, <1>2, NoneIsNothing DEF Files
<1> QED BY <1>1, <1>3, <1>4, <1>5, WriteKeeps

LEMMA ClearKeeps == ASSUME IInv, NEW t \in Teams, Clear(t) PROVE IInv'
<1> DEFINE b == call[t].to  f == file[b]
           g == T!Decide([kind |-> "unpark", slug |-> b], f).file
<1>1. b \in Branches /\ f \in Files
  <2>1. b \in Branches
    BY DEF Clear, IInv, Informed
  <2> QED BY <2>1, FileIsFile DEF IInv
<1>2. /\ f = NoFile => g = NoFile
      /\ f # NoFile => g \in T!State /\ g.start = f.start /\ g.park = None /\ g.park_team = None
  BY <1>1, UnparkWrites
<1>3. /\ file' = [file EXCEPT ![b] = g] /\ End(t)
      /\ UNCHANGED <<log, tip, origin, seen, on, dirty, made, unwritten>>
  BY <1>1 DEF Clear, Write, git, ghost
<1> HIDE DEF g
<1>4. g \in Files /\ (g # NoFile => f # NoFile)
  BY <1>2 DEF Files
<1> QED BY <1>1, <1>2, <1>3, <1>4, WriteKeeps

(* A branch's own commits are those above its merge-base.                  *)
LEMMA AboveMergeBase ==
  ASSUME Git, NEW b \in Branches, tip[b] # None
  PROVE  /\ MergeBase(tip[b], seen) \in Known
         /\ \A n \in Past(tip[b]) \ Past(MergeBase(tip[b], seen)) : log[n].branch = b
<1>1. tip[b] \in Known /\ seen \in Known /\ Len(log) \in Nat
  BY MergeIsBranch, InPast DEF Git, TipsKnown, Typed
<1>2. /\ MergeBase(tip[b], seen) \in Known
      /\ Past(tip[b]) \cap Past(seen) \subseteq Past(MergeBase(tip[b], seen))
  BY <1>1, MergeBaseIs DEF Git
<1>3. 0 \in Past(MergeBase(tip[b], seen))
  BY <1>2, InPast DEF Git
<1> QED BY <1>2, <1>3 DEF Git, BranchesOwn

LEMMA ArriveKeeps == ASSUME IInv, NEW t \in Teams, Arrive(t) PROVE IInv'
<1>0. /\ Git /\ pc[t] = "arrive" /\ call[t] \in Call /\ call[t].to \in Branches
      /\ on[t] = call[t].to /\ call[t].req.task \in Tasks /\ tip[on[t]] # None
      /\ call[t].base \in Past(seen)
      /\ (call[t].created =>
         \A n \in Past(tip[on[t]]) \ Past(call[t].base) : log[n].branch = on[t])
  BY RequestsAsk DEF Arrive, IInv, Git, Informed, Arrived, Typed, SwitchTypeOK
<1>1. PICK b \in Branches : b = call[t].to
  BY <1>0
<1>2. PICK start \in IF call[t].created THEN {call[t].base}
                     ELSE {MergeBase(tip[b], seen), None} :
        Write(b, WriteOfSwitch(t, start))
  BY <1>1 DEF Arrive
<1>3. call[t].base \in Known /\ MergeBase(tip[b], seen) \in Known /\ 0 \in Past(call[t].base)
      /\ \A n \in Past(tip[b]) \ Past(MergeBase(tip[b], seen)) : log[n].branch = b
  BY <1>0, <1>1, AboveMergeBase, MergeIsBranch, InPast DEF Git, TipsKnown
<1>4. start \in Commits \cup {None} /\ (start # None => start \in Known)
      /\ (call[t].created => start = call[t].base /\ start # None)
  <2>1. Known \subseteq Commits /\ Known \subseteq Nat
    BY BoundIsNumber DEF Known, Commits, IInv, Typed, SwitchTypeOK
  <2>2. CASE call[t].created
    BY <1>2, <1>3, <2>1, <2>2, NoneIsNothing
  <2>3. CASE ~call[t].created
    BY <1>2, <1>3, <2>1, <2>3
  <2> QED BY <2>2, <2>3
<1> DEFINE f == file[b]  g == T!Decide(WriteOfSwitch(t, start), f).file
<1>5. f \in Files /\ call[t].created \in BOOLEAN
  BY <1>0, FileIsFile DEF Git, Call
<1>6. /\ g \in T!State
      /\ g.park = T!Parsed(f).park /\ g.park_team = T!Parsed(f).park_team
      /\ g.start \in {start, T!Parsed(f).start}
      /\ (call[t].created => g.start = start)
  <2>1. PICK task \in Tasks, created \in BOOLEAN :
          task = call[t].req.task /\ created = call[t].created
    BY <1>0, <1>5
  <2>2. WriteOfSwitch(t, start) = [kind |-> "switch", slug |-> b, task |-> task,
                                  created |-> created, start |-> start,
                                  orc |-> None, own |-> None]
    BY <1>1, <2>1 DEF WriteOfSwitch, Request
  <2> HIDE DEF f
  <2> QED BY <1>4, <1>5, <2>1, <2>2, SwitchWrites
<1>7. /\ file' = [file EXCEPT ![b] = g]
      /\ unwritten' = (IF call[t].created THEN unwritten \ {b} ELSE unwritten)
      /\ End(t) \/ (Goto(t, "unpark") /\ UNCHANGED call)
      /\ UNCHANGED <<log, tip, origin, seen, on, dirty, made>>
  BY <1>1, <1>2 DEF Arrive, Write, git
<1> HIDE DEF g, f
<1>8. (g.park = None <=> g.park_team = None) /\ g \in Files
  <2>1. T!Parsed(f).park = None <=> T!Parsed(f).park_team = None
    BY DEF f, IInv, Typed, SwitchTypeOK, T!Parsed, T!Blank
  <2> QED BY <1>6, <2>1 DEF Files
<1>9. ASSUME g.start # None
      PROVE  \/ file[b] # NoFile /\ g.start = file[b].start /\ (b \in unwritten => b \in unwritten')
             \/ /\ g.start \in Known
                /\ tip[b] # None => \A n \in Past(tip[b]) \ Past(g.start) : log[n].branch = b
  <2>1. CASE call[t].created
    <3>1. g.start \in Known /\ g.start = call[t].base
      BY <1>3, <1>4, <1>6, <2>1
    <3>2. \A n \in Past(tip[b]) \ Past(call[t].base) : log[n].branch = b
      BY <1>0, <1>1, <2>1
    <3> QED BY <3>1, <3>2
  <2>2. CASE ~call[t].created /\ g.start = start
    <3>1. start = MergeBase(tip[b], seen)
      BY <1>2, <1>9, <2>2
    <3> QED BY <1>3, <2>2, <3>1
  <2>3. CASE ~call[t].created /\ g.start = T!Parsed(f).start
    BY <1>7, <1>9, <2>3, StartIsKept DEF f
  <2> QED BY <1>6, <2>1, <2>2, <2>3
<1> QED BY <1>0, <1>1, <1>7, <1>8, <1>9, WriteKeeps

LEMMA InitKeeps == Init => IInv
<1> SUFFICES ASSUME Init PROVE IInv
  OBVIOUS
<1>1. /\ log = << >> /\ Len(log) = 0 /\ Known = {0} /\ Past(0) = {0}
      /\ log \in Seq(Entry)
  BY DEF Init, Known, Past
<1>2. 0 \in Commits /\ None # 0 /\ Commits \subseteq Nat /\ 0 <= MaxCommits
  BY BoundIsNumber, NoneIsNothing DEF Commits
<1>3. /\ \A b \in Branches : tip[b] \in {0, None} /\ origin[b] \in {0, None}
      /\ tip[Merge] = 0 /\ origin[Merge] = 0
      /\ \A t \in Teams : on[t] \in Branches /\ tip[on[t]] = 0 /\ call[t] = None /\ pc[t] = "idle"
  BY MergeIsBranch, OwnAreBranches DEF Init
<1>4. \A b \in Branches : file[b] # NoFile =>
        /\ file[b] \in T!State /\ file[b].start \in {None, 0}
        /\ (file[b].park = None <=> file[b].park_team = None)
  BY FilesOfStart DEF Init
<1>5. SwitchTypeOK
  BY <1>1, <1>2, <1>3, <1>4, OwnAreBranches DEF Init, SwitchTypeOK, Steps
<1>6. Typed
  BY <1>1, <1>5, FilesOfStart DEF Init, Typed
<1>7. Lines
  BY <1>1 DEF Lines
<1>8. TipsKnown
  BY <1>1, <1>2, <1>3, <1>4 DEF Init, TipsKnown
<1>9. MergeIsOwn /\ BranchesOwn
  BY <1>1, <1>3 DEF MergeIsOwn, BranchesOwn
<1>10. TreesApart
  BY TreesAreApart DEF Init, TreesApart
<1>11. \A t \in Teams : Informed(t)
  BY <1>3 DEF Informed
<1>12. WorkIsSomewhere
  BY DEF Init, WorkIsSomewhere
<1>13. RangeIsOwn
  BY <1>1, <1>3, <1>4 DEF RangeIsOwn
<1> QED BY <1>6, <1>7, <1>8, <1>9, <1>10, <1>11, <1>12, <1>13 DEF IInv

LEMMA StutterKeeps == ASSUME IInv, UNCHANGED vars PROVE IInv'
<1>1. UNCHANGED World /\ UNCHANGED <<pc, call>>
  BY DEF vars, World
<1>2. Typed'
  BY <1>1 DEF IInv, Typed, SwitchTypeOK, World
<1>3. \A u \in Teams : Informed(u)'
  BY <1>1, StandsStill
<1> QED BY <1>1, <1>2, <1>3, StandsStill DEF IInv

LEMMA NextKeeps == IInv /\ [Next]_vars => IInv'
<1> SUFFICES ASSUME IInv, [Next]_vars PROVE IInv'
  OBVIOUS
<1>1. CASE People
  BY <1>1, CommitWorkKeeps, EditKeeps, PushKeeps, LandKeeps, AdvanceKeeps DEF People
<1>2. ASSUME NEW t \in Teams, Switch(t) PROVE IInv'
  BY <1>2, BeginKeeps, ResolveKeeps, StatusKeeps, BaseKeeps, QuietKeeps, ParkCommitKeeps,
     RecordParkKeeps, GitSwitchKeeps, ArriveKeeps, ResetKeeps, ClearKeeps DEF Switch
<1>3. CASE UNCHANGED vars
  BY <1>3, StutterKeeps
<1> QED BY <1>1, <1>2, <1>3 DEF Next

(* The inductive invariant of switching: whoever works in a worktree, and  *)
(* pushes or lands its branch, while a switch runs in it.                  *)
THEOREM SwitchInvariance == Spec => []IInv
BY InitKeeps, NextKeeps, PTL DEF Spec

(* What the switches and the people write has its type; park: and          *)
(* park_team: are written and cleared together.                            *)
THEOREM SwitchTypes == Spec => []SwitchTypeOK
<1>1. IInv => SwitchTypeOK
  BY DEF IInv, Typed
<1> QED BY <1>1, SwitchInvariance, PTL

(* No switch that parks and unparks, fails or dies at any of its steps,    *)
(* loses what anybody did: it is in a worktree, or in a commit some branch *)
(* has, here or at the remote.                                             *)
THEOREM NothingIsLost == Spec => []NothingLost
<1>1. ASSUME IInv PROVE NothingLost
  <2> SUFFICES ASSUME NEW w \in Work, made[w] # None, \A t \in Teams : w \notin dirty[t]
               PROVE  \E b \in Branches :
                        \E n \in (UNION {Past(m) : m \in {tip[b], origin[b]} \ {None}}) \ {0} :
                          w \in log[n].work
    BY DEF NothingLost
  <2>1. Somewhere(w)
    BY <1>1 DEF IInv, WorkIsSomewhere
  <2>2. CASE \E n \in Past(origin[Merge]) \ {0} : w \in log[n].work
    <3>1. Merge \in Branches /\ origin[Merge] \in {tip[Merge], origin[Merge]} \ {None}
      BY <1>1, MergeIsBranch DEF IInv, TipsKnown
    <3> QED BY <2>2, <3>1
  <2>3. CASE \E b \in Branches : tip[b] # None /\ \E n \in Past(tip[b]) \ {0} : w \in log[n].work
    <3>1. PICK b \in Branches : tip[b] # None /\ \E n \in Past(tip[b]) \ {0} : w \in log[n].work
      BY <2>3
    <3>2. tip[b] \in {tip[b], origin[b]} \ {None}
      BY <3>1
    <3> QED BY <3>1, <3>2
  <2> QED BY <2>1, <2>2, <2>3 DEF Somewhere
<1> QED BY <1>1, SwitchInvariance, PTL

(* The start: a switch writes bounds the branch's own commits: what a      *)
(* review or a check of the task reads between start: and the tip was made *)
(* on that branch.                                                         *)
THEOREM RangesAreOwn == Spec => []RangeIsOwn
<1>1. IInv => RangeIsOwn
  BY DEF IInv
<1> QED BY <1>1, SwitchInvariance, PTL

-----------------------------------------------------------------------------
(* While nobody works in the worktree of a switch, or pushes its branch.   *)

(* The parks of a branch are its own: the remote's merge-branch has none.  *)
LEMMA NoParkMerged == ASSUME Git, NEW n \in Past(origin[Merge]) PROVE ~IsPark(n)
<1>1. origin[Merge] \in Known /\ n \in Known
  BY MergeIsBranch, InPast DEF Git, TipsKnown
<1> QED BY <1>1 DEF Git, MergeIsOwn, IsPark

LEMMA NoParkSeen == ASSUME Git, NEW n \in Past(seen) PROVE ~IsPark(n)
<1>1. origin[Merge] \in Known /\ seen \in Past(origin[Merge])
  BY MergeIsBranch DEF Git, TipsKnown
<1>2. Past(seen) \subseteq Past(origin[Merge])
  BY <1>1, InPast DEF Git
<1> QED BY <1>2, NoParkMerged

LEMMA ParkOfBranch ==
  ASSUME Git, NEW b \in Branches, tip[b] # None, NEW n \in Past(tip[b]), IsPark(n)
  PROVE  n \in Known \ {0} /\ log[n].branch = b
<1>1. tip[b] \in Known /\ n # 0
  BY DEF Git, TipsKnown, IsPark
<1>2. n \in Known
  BY <1>1, InPast DEF Git
<1>3. n \notin Past(seen)
  BY NoParkSeen
<1> QED BY <1>1, <1>2, <1>3 DEF Git, BranchesOwn

LEMMA BuriedStays == ASSUME Git, Grows, NEW n, Buried(n) PROVE Buried(n)'
<1>1. PICK m \in 1..Len(log) : IsPark(m) /\ m # n /\ Parent(m) = n
  BY DEF Buried
<1>2. /\ Len(log) \in Nat /\ Len(log') \in Nat /\ Len(log) <= Len(log') /\ m \in Known \ {0}
  BY <1>1, LogGrows DEF Git, Typed, Known
<1>3. m \in 1..Len(log') /\ (IsPark(m))' /\ Parent(m)' = n
  BY <1>1, <1>2, LogGrows DEF Git
<1> QED BY <1>1, <1>3 DEF Buried

(* The park whose undoing brought a branch where it is.                    *)
LEMMA UndoneBuries ==
  ASSUME Git, NEW n \in Known \ {0}, IsPark(n) PROVE Buried(Parent(n))
<1>1. Len(log) \in Nat
  BY DEF Git, Typed
<1>2. n \in 1..Len(log) /\ n # Parent(n)
  BY <1>1, ParentIs DEF Git, Known
<1> QED BY <1>2 DEF Buried

Findable(b) ==
  tip[b] # None /\ IsPark(tip[b]) =>
    \/ tip[b] \in unrecorded \/ Buried(tip[b])
    \/ b \in ParkedBy(log[tip[b]].park) /\ file[b].park = tip[b]

LEMMA FindableStays ==
  ASSUME Git, Grows, NEW b \in Branches, Findable(b),
         tip'[b] \in {tip[b], None},
         tip[b] \in unrecorded => tip[b] \in unrecorded',
         file[b] # NoFile => /\ file'[b] # NoFile /\ file'[b].park = file[b].park
                             /\ file'[b].park_team = file[b].park_team
  PROVE  Findable(b)'
<1> SUFFICES ASSUME tip'[b] # None, (IsPark(tip[b]))'
             PROVE  \/ tip'[b] \in unrecorded' \/ Buried(tip[b])'
                    \/ b \in ParkedBy(log[tip[b]].park)' /\ file'[b].park = tip'[b]
  BY DEF Findable
<1>1. PICK n \in Known : n = tip[b] /\ n = tip'[b]
  BY DEF Git, TipsKnown
<1>2. (IsPark(n))' /\ n # 0
  BY <1>1 DEF IsPark
<1>3. IsPark(n) /\ log'[n] = log[n]
  BY <1>2, LogGrows DEF Git
<1>4. CASE n \in unrecorded
  BY <1>1, <1>4
<1>5. CASE Buried(n)
  <2>1. Buried(n)'
    BY <1>5, BuriedStays
  <2> QED BY <1>1, <2>1 DEF Buried
<1>6. CASE b \in ParkedBy(log[n].park) /\ file[b].park = n
  <2>1. /\ file'[b] # NoFile /\ file'[b].park = n /\ file'[b].park # None
        /\ file'[b].park_team = log'[n].park
    BY <1>3, <1>6 DEF ParkedBy
  <2> QED BY <1>1, <2>1 DEF ParkedBy
<1> QED BY <1>1, <1>3, <1>4, <1>5, <1>6 DEF Findable

(* The works of a commit more were done on its branch.                     *)
LEMMA HomeStays ==
  ASSUME Git, Grows, WorkStaysHome, UNCHANGED made,
         \A t \in Teams : \A w \in dirty'[t] : made[w] = on'[t],
         \A n \in Known' \ Known : log'[n].branch # Merge =>
           \A w \in log'[n].work : made[w] = log'[n].branch
  PROVE  WorkStaysHome'
<1>1. ASSUME NEW n \in 1..Len(log'), log'[n].branch # Merge, NEW w \in log'[n].work
      PROVE  made[w] = log'[n].branch
  <2>1. Len(log) \in Nat /\ Len(log') \in Nat /\ n \in Known' /\ n # 0
    BY LogGrows DEF Git, Typed, Known
  <2>2. CASE n \in Known
    <3>1. n \in 1..Len(log) /\ log'[n] = log[n]
      BY <2>1, <2>2, LogGrows DEF Git, Known
    <3> QED BY <1>1, <3>1 DEF WorkStaysHome
  <2>3. CASE n \notin Known
    BY <1>1, <2>1, <2>3
  <2> QED BY <2>2, <2>3
<1> QED BY <1>1 DEF WorkStaysHome

(* What the switch of another team knows.                                  *)
LEMMA StaysSettled ==
  ASSUME Git, Grows, NEW u \in Teams, Settled(u),
         pc'[u] = pc[u], call'[u] = call[u], on'[u] = on[u],
         tip'[on[u]] = tip[on[u]], dirty'[u] = dirty[u],
         pc[u] = "reset" => \A b \in Branches :
           origin'[b] # None => tip[on[u]] \notin Past(origin[b])'
  PROVE  Settled(u)'
<1>1. PICK n \in Known : n = tip[on[u]]
  BY DEF Git, Typed, SwitchTypeOK, TipsKnown
<1>2. tip'[on'[u]] = n
  BY <1>1
<1>3. (IsPark(tip[on[u]]))' <=> (IsPark(n))'
  BY <1>2 DEF IsPark
<1>4. (IsPark(n))' = IsPark(n) /\ (n # 0 => log'[n] = log[n])
  BY LogGrows DEF Git
<1>5. Buried(n) => Buried(tip[on[u]])'
  <2>1. Buried(n)' => Buried(tip[on[u]])'
    BY <1>2 DEF Buried
  <2> QED BY <2>1, BuriedStays
<1>6. pc[u] = "reset" => ~Pushed(tip[on[u]])'
  BY <1>1, <1>2 DEF Pushed
<1>7. IsPark(n) => n # 0
  BY DEF IsPark
<1> QED BY <1>1, <1>2, <1>3, <1>4, <1>5, <1>6, <1>7 DEF Settled, Request

(* Where no commit is made and the remote stays, an untouched switch is.   *)
LEMMA StillSettled ==
  ASSUME Git, UNCHANGED <<log, origin>>, NEW u \in Teams, Settled(u),
         pc'[u] = pc[u], call'[u] = call[u], on'[u] = on[u],
         tip'[on[u]] = tip[on[u]], dirty'[u] = dirty[u]
  PROVE  Settled(u)'
<1>1. Grows /\ \A n : Past(n)' = Past(n)
  BY SameLog
<1>2. pc[u] = "reset" => \A b \in Branches :
        origin'[b] # None => tip[on[u]] \notin Past(origin[b])'
  BY <1>1 DEF Settled, Pushed
<1> QED BY <1>1, <1>2, StaysSettled

(* Of the switches, one team's alone takes a step.                         *)
Alone(t) == \A u \in Teams \ {t} : pc'[u] = pc[u] /\ call'[u] = call[u]

LEMMA CalmKeeps ==
  ASSUME IInv, CInv, UNCHANGED World, UNCHANGED unrecorded,
         NEW t \in Teams, Alone(t), Settled(t)'
  PROVE  CInv'
<1>1. Git /\ Grows
  BY SameLog DEF IInv, Git, World
<1>2. ASSUME NEW u \in Teams \ {t} PROVE Settled(u)'
  BY <1>1, StillSettled DEF World, Alone, CInv
<1>3. WorkStaysHome'
  <2>1. Known' = Known
    BY <1>1, SameLog DEF World
  <2> QED BY <1>1, <2>1, HomeStays DEF World, CInv, WorkStaysHome
<1>4. ASSUME NEW b \in Branches PROVE Findable(b)'
  BY <1>1, FindableStays DEF World, CInv, ParksFindable, Findable
<1> QED BY <1>2, <1>3, <1>4 DEF CInv, ParksFindable, Findable

LEMMA StepIs ==
  ASSUME IInv, NEW t \in Teams, NEW step, Goto(t, step)
  PROVE  pc'[t] = step /\ \A u \in Teams \ {t} : pc'[u] = pc[u]
BY DEF Goto, IInv, Typed, SwitchTypeOK

LEMMA EndSettles ==
  ASSUME IInv, NEW t \in Teams, End(t) PROVE Alone(t) /\ Settled(t)' /\ pc'[t] = "idle"
<1>1. pc'[t] = "idle" /\ Alone(t)
  BY DEF End, Goto, Alone, IInv, Typed, SwitchTypeOK
<1> QED BY <1>1 DEF Settled

LEMMA CalmSteps ==
  ASSUME IInv, CInv, NEW t \in Teams,
         \/ \E r \in Requests[t] : Begin(t, r)
         \/ Resolve(t) \/ Status(t) \/ Inventory(t) \/ Unpark(t) \/ AskRemote(t) \/ Stop(t)
  PROVE  CInv'
<1>1. UNCHANGED World /\ UNCHANGED unrecorded
  BY DEF Begin, Resolve, Status, Inventory, Unpark, AskRemote, Stop, World, git, ghost
<1>0. PICK n : n = tip[on[t]]
  OBVIOUS
<1>2. /\ dirty'[t] = dirty[t] /\ tip'[on'[t]] = n
      /\ (IsPark(tip[on[t]]))' <=> IsPark(n)
  BY <1>0, <1>1 DEF World, IsPark
<1>3. CASE End(t)
  BY <1>1, <1>3, EndSettles, CalmKeeps
<1>4. ASSUME NEW r \in Requests[t], Begin(t, r) PROVE CInv'
  <2>1. pc'[t] = "resolve" /\ Alone(t)
    BY <1>4, StepIs DEF Begin, Alone, IInv, Typed
  <2>2. Settled(t)'
    BY <2>1 DEF Settled
  <2> QED BY <1>1, <2>1, <2>2, CalmKeeps
<1>5. CASE Resolve(t) /\ ~End(t)
  <2>1. PICK b \in Targets(t) :
          call' = [call EXCEPT ![t].to = b, ![t].created = tip[b] = None] /\ Goto(t, "status")
    BY <1>5 DEF Resolve
  <2>2. pc'[t] = "status" /\ Alone(t)
    BY <2>1, StepIs DEF Alone, IInv, Typed
  <2>3. Settled(t)'
    BY <2>2 DEF Settled
  <2> QED BY <1>1, <2>2, <2>3, CalmKeeps
<1>6. CASE Status(t) /\ ~End(t)
  <2>0. call[t] \in Call
    BY <1>6 DEF Status, IInv, Informed
  <2>1. PICK step : /\ step = (CASE call[t].created                     -> "base"
                                 [] ~call[t].created /\ dirty[t] # {} -> "inventory"
                                 [] OTHER                               -> "switch")
                    /\ call' = [call EXCEPT ![t].dirty = dirty[t] # {}] /\ Goto(t, step)
    BY <1>6 DEF Status
  <2>2. /\ pc'[t] = step /\ Alone(t) /\ step \in {"base", "inventory", "switch"}
        /\ (step = "switch" => dirty[t] = {})
    BY <2>0, <2>1, StepIs DEF Alone, IInv, Typed, Call
  <2>3. call'[t].dirty <=> dirty[t] # {}
    BY <2>0, <2>1 DEF IInv, Typed, Call
  <2>4. Settled(t)'
    BY <1>2, <2>2, <2>3 DEF Settled
  <2> QED BY <1>1, <2>2, <2>4, CalmKeeps
<1>7. CASE Inventory(t) /\ Goto(t, "park") /\ UNCHANGED call
  <2>1. pc'[t] = "park" /\ Alone(t) /\ call'[t] = call[t]
    BY <1>7, StepIs DEF Alone
  <2>2. Request(t).include = dirty[t] \cap New \/ End(t)
    BY <1>7 DEF Inventory
  <2>3. ~End(t)
    BY <2>1, EndSettles
  <2>4. Settled(t)'
    BY <1>2, <2>1, <2>2, <2>3 DEF Settled, Request
  <2> QED BY <1>1, <2>1, <2>4, CalmKeeps
<1>8. CASE Unpark(t) /\ ~End(t)
  <2>1. /\ pc[t] = "unpark" /\ on[t] = call[t].to /\ IsPark(tip[call[t].to])
        /\ Goto(t, "ask") /\ UNCHANGED call
    BY <1>8 DEF Unpark, IInv, Informed, Arrived
  <2>2. pc'[t] = "ask" /\ Alone(t) /\ call'[t] = call[t]
    BY <2>1, StepIs DEF Alone
  <2>3. dirty[t] = {} /\ call[t].head = n /\ IsPark(n)
    BY <1>0, <2>1 DEF CInv, Settled
  <2>4. Settled(t)'
    BY <1>2, <2>2, <2>3 DEF Settled
  <2> QED BY <1>1, <2>2, <2>4, CalmKeeps
<1>9. CASE AskRemote(t) /\ ~End(t)
  <2>1. pc[t] = "ask" /\ ~Pushed(call[t].head) /\ Goto(t, "reset") /\ UNCHANGED call
    BY <1>9 DEF AskRemote
  <2>2. pc'[t] = "reset" /\ Alone(t) /\ call'[t] = call[t]
    BY <2>1, StepIs DEF Alone
  <2>3. dirty[t] = {} /\ call[t].head = n /\ IsPark(n)
    BY <1>0, <2>1 DEF CInv, Settled
  <2>4. ~(Pushed(tip[on[t]]))'
    BY <1>1, <1>2, <2>1, <2>3 DEF World, Pushed, Past
  <2>5. Settled(t)'
    BY <1>2, <2>2, <2>3, <2>4 DEF Settled
  <2> QED BY <1>1, <2>2, <2>5, CalmKeeps
<1>10. Inventory(t) /\ ~End(t) => Goto(t, "park") /\ UNCHANGED call
  BY DEF Inventory
<1> QED BY <1>3, <1>4, <1>5, <1>6, <1>7, <1>8, <1>9, <1>10 DEF Stop

LEMMA BaseSettles == ASSUME IInv, CInv, NEW t \in Teams, Base(t) PROVE CInv'
<1>0. /\ Git /\ pc[t] = "base" /\ call[t] \in Call
      /\ UNCHANGED <<log, tip, origin, on, dirty, file, made, unrecorded>>
  BY DEF IInv, Git, Base, Informed, ghost
<1>1. Grows /\ Known' = Known
  BY <1>0, SameLog
<1>2. PICK b : call' = [call EXCEPT ![t].base = b]
  BY DEF Base
<1>3. PICK step : step = (IF call[t].dirty THEN "inventory" ELSE "switch") /\ Goto(t, step)
  BY DEF Base
<1>4. /\ pc'[t] = step /\ Alone(t)
  BY <1>2, <1>3, StepIs DEF Alone, IInv, Typed
<1>5. step = "inventory" \/ (step = "switch" /\ dirty[t] = {})
  BY <1>0, <1>3 DEF CInv, Settled
<1>6. Settled(t)'
  BY <1>0, <1>4, <1>5 DEF Settled
<1>7. ASSUME NEW u \in Teams \ {t} PROVE Settled(u)'
  BY <1>0, <1>4, StillSettled DEF Alone, CInv
<1>8. WorkStaysHome'
  BY <1>0, <1>1, HomeStays DEF CInv, WorkStaysHome
<1>9. ASSUME NEW x \in Branches PROVE Findable(x)'
  BY <1>0, <1>1, FindableStays DEF CInv, ParksFindable, Findable
<1> QED BY <1>6, <1>7, <1>8, <1>9 DEF CInv, ParksFindable, Findable

(* A commit of all a worktree has, as a park or as a person's.             *)
LEMMA CommitSettles ==
  ASSUME IInv, CInv, NEW t \in Teams, NEW team \in Teams \cup {None},
         Commit(on[t], tip[on[t]], dirty[t], team),
         tip' = [tip EXCEPT ![on[t]] = Len(log) + 1],
         dirty' = [dirty EXCEPT ![t] = {}],
         UNCHANGED <<origin, seen, on, file, call, made, unwritten>>,
         \/ UNCHANGED <<pc, unrecorded>> /\ pc[t] = "idle" /\ team = None
         \/ /\ pc[t] = "park" /\ pc' = [pc EXCEPT ![t] = "record"] /\ team = t
            /\ unrecorded' = unrecorded \cup {Len(log) + 1}
  PROVE  CInv'
<1> DEFINE b == on[t]
<1>0. /\ Git /\ RangeIsOwn /\ b \in Branches \ {Merge} /\ tip[b] # None
      /\ Len(log) \in Nat /\ dirty[t] \in SUBSET Work
  BY DEF IInv, Git, Typed, SwitchTypeOK, TreesApart
<1>1. /\ Grows /\ Len(log') = Len(log) + 1
      /\ log'[Len(log) + 1] = [past |-> Past(tip[b]) \cup {Len(log) + 1},
                               branch |-> b, work |-> dirty[t], park |-> team]
  BY <1>0, OwnCommit
<1>2. PICK new \in Nat : new = Len(log) + 1
  BY <1>0
<1>3. /\ log'[new].work = dirty[t] /\ log'[new].branch = b /\ log'[new].park = team
      /\ new # 0 /\ Known' = Known \cup {new}
  BY <1>0, <1>1, <1>2 DEF Known
<1>4. /\ \A x \in Branches : tip'[x] = IF x = b THEN new ELSE tip[x]
      /\ \A u \in Teams : dirty'[u] = IF u = t THEN {} ELSE dirty[u]
  BY <1>0, <1>2 DEF IInv, Typed, SwitchTypeOK
<1>5. /\ \A u \in Teams \ {t} : pc'[u] = pc[u]
      /\ (pc'[t] = "idle" /\ team = None /\ unrecorded' = unrecorded)
         \/ (pc'[t] = "record" /\ team = t /\ unrecorded' = unrecorded \cup {new})
  BY <1>2 DEF IInv, Typed, SwitchTypeOK
<1>6. Settled(t)'
  <2>1. CASE pc'[t] = "idle"
    BY <2>1 DEF Settled
  <2>2. CASE pc'[t] = "record" /\ team = t
    <3>1. tip'[on'[t]] = new /\ log'[new].park = t /\ log'[new].park # None /\ dirty'[t] = {}
      BY <1>0, <1>3, <1>4, <2>2, NoneIsNothing
    <3>2. (IsPark(tip[on[t]]))'
      BY <1>3, <3>1 DEF IsPark
    <3> QED BY <2>2, <3>1, <3>2 DEF Settled
  <2> QED BY <1>5, <2>1, <2>2
<1>7. ASSUME NEW u \in Teams \ {t} PROVE Settled(u)'
  <2>1. on[u] # b /\ on[u] \in Branches
    BY DEF IInv, TreesApart, Typed, SwitchTypeOK
  <2>2. tip'[on[u]] = tip[on[u]] /\ dirty'[u] = dirty[u]
    BY <1>4, <2>1
  <2>3. \A x \in Branches : origin'[x] # None => Past(origin[x])' = Past(origin[x])
    BY <1>0, <1>1, LogGrows DEF Git, TipsKnown
  <2>4. pc[u] = "reset" => \A x \in Branches :
          origin'[x] # None => tip[on[u]] \notin Past(origin[x])'
    BY <2>3 DEF CInv, Settled, Pushed
  <2> QED BY <1>0, <1>1, <1>5, <2>2, <2>4, StaysSettled DEF CInv
<1>8. WorkStaysHome'
  <2>1. \A w \in dirty[t] : made[w] = b
    BY DEF CInv, WorkStaysHome
  <2>2. \A u \in Teams : \A w \in dirty'[u] : made[w] = on'[u]
    BY <1>4 DEF CInv, WorkStaysHome
  <2>3. \A n \in Known' \ Known : log'[n].branch # Merge =>
          \A w \in log'[n].work : made[w] = log'[n].branch
    BY <1>3, <2>1
  <2> QED BY <1>0, <1>1, <2>2, <2>3, HomeStays DEF CInv
<1>9. ASSUME NEW x \in Branches PROVE Findable(x)'
  <2>1. CASE x # b
    BY <1>0, <1>1, <1>4, <1>5, <2>1, FindableStays DEF CInv, ParksFindable, Findable
  <2>2. CASE x = b
    <3>1. tip'[x] = new
      BY <1>4, <2>2
    <3>2. CASE new \in unrecorded'
      BY <3>1, <3>2 DEF Findable
    <3>3. CASE log'[new].park = None
      BY <3>1, <3>3 DEF Findable, IsPark
    <3> QED BY <1>3, <1>5, <3>2, <3>3
  <2> QED BY <2>1, <2>2
<1> QED BY <1>6, <1>7, <1>8, <1>9 DEF CInv, ParksFindable, Findable

LEMMA ParkCommitSettles == ASSUME IInv, CInv, NEW t \in Teams, ParkCommit(t) PROVE CInv'
<1>1. pc[t] = "park" /\ Request(t).include = dirty[t] \cap New
  BY DEF ParkCommit, CInv, Settled
<1>2. (dirty[t] \ New) \cup (Request(t).include \cap dirty[t]) = dirty[t]
  BY <1>1
<1>3. /\ Commit(on[t], tip[on[t]], dirty[t], t) /\ dirty' = [dirty EXCEPT ![t] = @ \ dirty[t]]
      /\ tip' = [tip EXCEPT ![on[t]] = Len(log) + 1]
      /\ unrecorded' = unrecorded \cup {Len(log) + 1}
      /\ pc' = [pc EXCEPT ![t] = "record"]
      /\ UNCHANGED <<origin, seen, on, file, call, made, unwritten>>
  BY <1>2 DEF ParkCommit, Goto
<1>4. dirty' = [dirty EXCEPT ![t] = {}]
  BY <1>3
<1> QED BY <1>1, <1>3, <1>4, CommitSettles

LEMMA CommitWorkSettles ==
  ASSUME Considerate, IInv, CInv, NEW t \in Teams, CommitWork(t) PROVE CInv'
<1>1. /\ Commit(on[t], tip[on[t]], dirty[t], None) /\ pc[t] = "idle"
      /\ tip' = [tip EXCEPT ![on[t]] = Len(log) + 1] /\ dirty' = [dirty EXCEPT ![t] = {}]
      /\ UNCHANGED <<origin, seen, on, file, call, made, unwritten, pc, unrecorded>>
  BY DEF CommitWork, MayTouch, ghost
<1> QED BY <1>1, CommitSettles

LEMMA EditSettles ==
  ASSUME Considerate, IInv, CInv, NEW t \in Teams, NEW w \in Work, Edit(t, w) PROVE CInv'
<1>0. /\ Git /\ pc[t] = "idle" /\ made[w] = None
      /\ made' = [made EXCEPT ![w] = on[t]] /\ dirty' = [dirty EXCEPT ![t] = @ \cup {w}]
      /\ UNCHANGED <<log, tip, origin, seen, on, file, pc, call, unrecorded>>
  BY DEF Edit, MayTouch, IInv, Git
<1>1. Grows /\ Known' = Known
  BY <1>0, SameLog
<1>2. /\ \A u \in Teams : dirty'[u] = IF u = t THEN dirty[u] \cup {w} ELSE dirty[u]
      /\ \A v \in Work : made'[v] = IF v = w THEN on[t] ELSE made[v]
  BY <1>0 DEF IInv, Typed, SwitchTypeOK
<1>3. Settled(t)'
  BY <1>0 DEF Settled
<1>4. ASSUME NEW u \in Teams \ {t} PROVE Settled(u)'
  BY <1>0, <1>2, StillSettled DEF CInv
<1>5. WorkStaysHome'
  <2>1. ASSUME NEW u \in Teams, NEW v \in dirty'[u] PROVE made'[v] = on[u]
    <3>1. CASE v = w /\ u = t
      BY <1>2, <3>1
    <3>2. CASE v \in dirty[u]
      <4>1. made[v] = on[u] /\ v \in Work /\ on[u] # None
        BY <3>2, NoneIsNothing DEF CInv, WorkStaysHome, IInv, Typed, SwitchTypeOK
      <4> QED BY <1>0, <1>2, <4>1
    <3> QED BY <1>2, <2>1, <3>1, <3>2
  <2>2. ASSUME NEW n \in 1..Len(log), log[n].branch # Merge, NEW v \in log[n].work
        PROVE  made'[v] = log[n].branch
    <3>1. made[v] = log[n].branch /\ v \in Work /\ log[n].branch # None
      BY <2>2, NoneIsNothing DEF CInv, WorkStaysHome, IInv, Typed, SwitchTypeOK
    <3> QED BY <1>0, <1>2, <3>1
  <2> QED BY <1>0, <2>1, <2>2 DEF WorkStaysHome
<1>6. ASSUME NEW x \in Branches PROVE Findable(x)'
  BY <1>0, <1>1, FindableStays DEF CInv, ParksFindable, Findable
<1> QED BY <1>3, <1>4, <1>5, <1>6 DEF CInv, ParksFindable, Findable

LEMMA PushSettles ==
  ASSUME Considerate, IInv, CInv, NEW b \in Branches, Push(b) PROVE CInv'
<1>0. /\ Git /\ tip[b] # None /\ origin' = [origin EXCEPT ![b] = tip[b]]
      /\ \A t \in Teams : on[t] = b => pc[t] = "idle"
      /\ UNCHANGED <<log, tip, seen, on, dirty, file, pc, call, made, unrecorded>>
  BY DEF Push, MayTouch, ghost, IInv, Git
<1>1. Grows /\ Known' = Known /\ \A n : Past(n)' = Past(n)
  BY <1>0, SameLog
<1>2. \A x \in Branches : origin'[x] = IF x = b THEN tip[b] ELSE origin[x]
  BY <1>0 DEF IInv, Typed, SwitchTypeOK
<1>3. ASSUME NEW u \in Teams PROVE Settled(u)'
  <2>1. ASSUME pc[u] = "reset", NEW x \in Branches, origin'[x] # None
        PROVE  tip[on[u]] \notin Past(origin[x])'
    <3>1. PICK n : n = tip[on[u]]
      OBVIOUS
    <3>2. /\ IsPark(n) /\ ~Pushed(n) /\ on[u] \in Branches /\ tip[on[u]] # None
          /\ n \in Past(tip[on[u]])
      BY <2>1, <3>1, InPast DEF CInv, Settled, IInv, Typed, SwitchTypeOK, TipsKnown
    <3>3. CASE x # b
      <4>1. Past(origin[x])' = Past(origin[x]) /\ origin[x] # None
        BY <1>1, <1>2, <2>1, <3>3
      <4> QED BY <3>1, <3>2, <4>1 DEF Pushed
    <3>4. CASE x = b
      <4>1. Past(origin[x])' = Past(tip[b])
        BY <1>1, <1>2, <3>4
      <4>2. log[n].branch = on[u]
        BY <1>0, <3>2, ParkOfBranch
      <4>3. n \in Past(tip[b]) => log[n].branch = b
        BY <1>0, <3>2, ParkOfBranch
      <4> QED BY <1>0, <2>1, <3>1, <4>1, <4>2, <4>3
    <3> QED BY <3>3, <3>4
  <2> QED BY <1>0, <1>1, <2>1, StaysSettled DEF CInv
<1>4. WorkStaysHome'
  BY <1>0 DEF CInv, WorkStaysHome
<1>5. ASSUME NEW x \in Branches PROVE Findable(x)'
  BY <1>0, <1>1, FindableStays DEF CInv, ParksFindable, Findable
<1> QED BY <1>3, <1>4, <1>5 DEF CInv, ParksFindable, Findable

(* What lands on the remote's merge-branch is no park.                     *)
LEMMA MergedSettles ==
  ASSUME IInv, CInv, NEW work \in SUBSET Work, Commit(Merge, origin[Merge], work, None),
         NEW gone \in SUBSET (Branches \ {Merge}),
         \A t \in Teams : on[t] \notin gone,
         origin' = [b \in Branches |-> IF b = Merge THEN Len(log) + 1
                                       ELSE IF b \in gone THEN None ELSE origin[b]],
         tip' = [b \in Branches |-> IF b \in gone THEN None ELSE tip[b]],
         unwritten' = unwritten \ gone,
         UNCHANGED <<seen, on, dirty, file, pc, call, made, unrecorded>>
  PROVE  CInv'
<1>0. /\ Git /\ RangeIsOwn /\ Len(log) \in Nat /\ origin[Merge] \in Known
  BY MergeIsBranch DEF IInv, Git, Typed, TipsKnown
<1>1. PICK new \in Nat : new = Len(log) + 1
  BY <1>0
<1>2. /\ Grows /\ Len(log') = Len(log) + 1
      /\ log'[Len(log) + 1] = [past |-> Past(origin[Merge]) \cup {Len(log) + 1},
                               branch |-> Merge, work |-> work, park |-> None]
  <2>1. /\ origin'[Merge] = Len(log) + 1 /\ tip'[Merge] = tip[Merge]
        /\ \A x \in Branches \ {Merge} : origin'[x] \in {origin[x], None}
        /\ \A x \in Branches : tip'[x] \in {tip[x], None}
        /\ \A x \in Branches : x \notin unwritten' => x \notin unwritten \/ tip'[x] = None
    BY MergeIsBranch
  <2> QED BY <1>0, <2>1, MergeCommit
<1>3. /\ log'[new].past = Past(origin[Merge]) \cup {new} /\ log'[new].branch = Merge
      /\ new # 0 /\ Known' = Known \cup {new} /\ new \notin Known
      /\ \A n \in Known : Past(n)' = Past(n)
  BY <1>0, <1>1, <1>2, LogGrows DEF Git, Known
<1>4. origin'[Merge] = new /\ Past(origin[Merge])' = Past(origin[Merge]) \cup {new}
  <2>1. origin'[Merge] = new
    BY <1>1, MergeIsBranch
  <2> QED BY <1>3, <2>1 DEF Past
<1>5. ASSUME NEW u \in Teams PROVE Settled(u)'
  <2>0. on[u] \in Branches /\ tip[on[u]] \in Known /\ tip'[on[u]] = tip[on[u]]
    BY DEF IInv, Typed, SwitchTypeOK, TipsKnown
  <2>1. ASSUME pc[u] = "reset", NEW x \in Branches, origin'[x] # None
        PROVE  tip[on[u]] \notin Past(origin[x])'
    <3>1. ~Pushed(tip[on[u]])
      BY <2>1 DEF CInv, Settled
    <3>2. CASE x = Merge
      <4>1. tip[on[u]] \notin Past(origin[Merge])
        BY <1>0, <3>1, MergeIsBranch, NoneIsNothing DEF Pushed, IInv, TipsKnown
      <4> QED BY <1>3, <1>4, <2>0, <3>2, <4>1
    <3>3. CASE x # Merge
      <4>1. origin'[x] = origin[x] /\ origin[x] \in Known
        BY <2>1, <3>3 DEF IInv, TipsKnown
      <4>2. Past(origin[x])' = Past(origin[x])
        BY <1>3, <4>1
      <4> QED BY <2>1, <3>1, <4>1, <4>2 DEF Pushed
    <3> QED BY <3>2, <3>3
  <2> QED BY <1>0, <1>2, <2>0, <2>1, StaysSettled DEF CInv
<1>6. WorkStaysHome'
  <2>1. \A u \in Teams : \A w \in dirty'[u] : made[w] = on'[u]
    BY DEF CInv, WorkStaysHome
  <2> QED BY <1>0, <1>2, <1>3, <2>1, HomeStays DEF CInv
<1>7. ASSUME NEW x \in Branches PROVE Findable(x)'
  <2>1. tip'[x] \in {tip[x], None}
    OBVIOUS
  <2> QED BY <1>0, <1>2, <2>1, FindableStays DEF CInv, ParksFindable, Findable
<1> QED BY <1>5, <1>6, <1>7 DEF CInv, ParksFindable, Findable

LEMMA AdvanceSettles == ASSUME IInv, CInv, Advance PROVE CInv'
<1> DEFINE gone == {}
<1>1. /\ Commit(Merge, origin[Merge], {}, None)
      /\ UNCHANGED <<seen, on, dirty, file, pc, call, made, unrecorded>>
      /\ origin' = [b \in Branches |-> IF b = Merge THEN Len(log) + 1
                                      ELSE IF b \in gone THEN None ELSE origin[b]]
      /\ tip' = [b \in Branches |-> IF b \in gone THEN None ELSE tip[b]]
      /\ unwritten' = unwritten \ gone
      /\ gone \in SUBSET (Branches \ {Merge}) /\ \A t \in Teams : on[t] \notin gone
  BY DEF Advance, IInv, Typed, SwitchTypeOK, ghost
<1> HIDE DEF gone
<1>2. {} \in SUBSET Work
  OBVIOUS
<1> QED BY <1>1, <1>2, MergedSettles

LEMMA LandSettles == ASSUME IInv, CInv, NEW b \in Branches, Land(b) PROVE CInv'
<1> DEFINE work == UNION {log[n].work : n \in Past(tip[b]) \ Past(origin[Merge])}
<1>1. /\ Commit(Merge, origin[Merge], work, None) /\ b # Merge /\ tip[b] # None
      /\ UNCHANGED <<seen, on, dirty, file, pc, call, made, unrecorded>>
      /\ \A t \in Teams : on[t] # b
  BY DEF Land
<1>2. work \in SUBSET Work
  BY <1>1, BranchWorks
<1> HIDE DEF work
<1> DEFINE gone == {b}
<1>3. /\ origin' = [x \in Branches |-> IF x = Merge THEN Len(log) + 1
                                      ELSE IF x \in gone THEN None ELSE origin[x]]
      /\ tip' = [x \in Branches |-> IF x \in gone THEN None ELSE tip[x]]
      /\ unwritten' = unwritten \ gone
  BY <1>1 DEF Land, IInv, Typed, SwitchTypeOK
<1>4. gone \in SUBSET (Branches \ {Merge}) /\ \A t \in Teams : on[t] \notin gone
  BY <1>1
<1> HIDE DEF gone
<1> QED BY <1>1, <1>2, <1>3, <1>4, MergedSettles

LEMMA WriteSettles ==
  ASSUME IInv, CInv, NEW t \in Teams, Alone(t), Settled(t)',
         NEW b \in Branches, NEW g, file' = [file EXCEPT ![b] = g],
         UNCHANGED <<log, tip, origin, seen, on, dirty, made>>,
         \A x \in Branches \ {b} : tip[x] \in unrecorded => tip[x] \in unrecorded',
         Findable(b)'
  PROVE  CInv'
<1>1. Git /\ Grows /\ Known' = Known
  BY SameLog DEF IInv, Git
<1>2. ASSUME NEW u \in Teams \ {t} PROVE Settled(u)'
  BY <1>1, StillSettled DEF Alone, CInv
<1>3. WorkStaysHome'
  BY <1>1, HomeStays DEF CInv, WorkStaysHome
<1>4. ASSUME NEW x \in Branches \ {b} PROVE Findable(x)'
  <2>1. file'[x] = file[x]
    BY DEF IInv, Typed
  <2> QED BY <1>1, <2>1, FindableStays DEF CInv, ParksFindable, Findable
<1> QED BY <1>2, <1>3, <1>4 DEF CInv, ParksFindable, Findable

LEMMA RecordParkSettles == ASSUME IInv, CInv, NEW t \in Teams, RecordPark(t) PROVE CInv'
<1> DEFINE b == on[t]  f == file[b]
           g == T!Decide([kind |-> "park", slug |-> b, park |-> tip[b], team |-> t], f).file
<1>1. /\ b \in Branches /\ tip[b] \in Commits /\ tip[b] # None /\ f \in Files /\ Git
      /\ tip[b] \in Past(tip[b])
  BY FileIsFile, InPast DEF IInv, Git, Typed, SwitchTypeOK, TipsKnown
<1>2. /\ g \in T!State /\ g.park = tip[b] /\ g.park_team = t
  BY <1>1, ParkWrites
<1>3. /\ file' = [file EXCEPT ![b] = g] /\ pc[t] = "record" /\ Goto(t, "switch")
      /\ UNCHANGED <<log, tip, origin, seen, on, dirty, made, call>>
      /\ unrecorded' = unrecorded \ {tip[b]}
  BY <1>1 DEF RecordPark, Write, git
<1> HIDE DEF g
<1>4. pc'[t] = "switch" /\ Alone(t)
  BY <1>3, StepIs DEF Alone
<1>5. dirty[t] = {} /\ IsPark(tip[b]) /\ log[tip[b]].park = t
  BY <1>3 DEF CInv, Settled
<1>6. Settled(t)'
  BY <1>3, <1>4, <1>5 DEF Settled
<1>7. ASSUME NEW x \in Branches \ {b}, tip[x] \in unrecorded PROVE tip[x] \in unrecorded'
  <2>1. ASSUME tip[x] = tip[b] PROVE FALSE
    <3>1. log[tip[b]].branch = x
      BY <1>1, <1>5, <2>1, ParkOfBranch
    <3>2. log[tip[b]].branch = b
      BY <1>1, <1>5, ParkOfBranch
    <3> QED BY <3>1, <3>2
  <2> QED BY <1>3, <1>7, <2>1
<1>8. Findable(b)'
  <2>1. file'[b] = g /\ g # NoFile
    BY <1>1, <1>2, <1>3, NoneIsNothing DEF IInv, Typed
  <2>2. /\ tip'[on'[t]] = tip[b] /\ log'[tip[b]].park = t
    BY <1>3, <1>5
  <2> QED BY <1>1, <1>2, <1>3, <2>1, <2>2 DEF Findable, ParkedBy
<1> QED BY <1>1, <1>3, <1>4, <1>6, <1>7, <1>8, WriteSettles

LEMMA ArriveSettles == ASSUME IInv, CInv, NEW t \in Teams, Arrive(t) PROVE CInv'
<1>0. /\ Git /\ Grows /\ pc[t] = "arrive" /\ call[t] \in Call /\ call[t].to \in Branches
      /\ on[t] = call[t].to /\ call[t].req.task \in Tasks
      /\ call[t].base \in Known /\ tip[call[t].to] # None
      /\ UNCHANGED <<log, tip, origin, seen, on, dirty, made, unrecorded>>
  <2>1. /\ pc[t] = "arrive" /\ UNCHANGED <<log, tip, origin, seen, on, dirty, made, unrecorded>>
    BY DEF Arrive, git
  <2>2. /\ Git /\ call[t] \in Call /\ call[t].to \in Branches
        /\ on[t] = call[t].to /\ call[t].req.task \in Tasks /\ tip[on[t]] # None
        /\ call[t].base \in Past(seen)
    BY <2>1, RequestsAsk DEF IInv, Git, Informed, Arrived, Typed, SwitchTypeOK
  <2>3. call[t].base \in Known
    BY <2>2, MergeIsBranch, InPast DEF Git, TipsKnown
  <2> QED BY <2>1, <2>2, <2>3, SameLog
<1>1. PICK b \in Branches : b = call[t].to
  BY <1>0
<1>2. PICK start \in IF call[t].created THEN {call[t].base}
                     ELSE {MergeBase(tip[b], seen), None} :
        Write(b, WriteOfSwitch(t, start))
  BY <1>1 DEF Arrive
<1>3. start \in Commits \cup {None}
  <2>1. MergeBase(tip[b], seen) \in Known /\ Known \subseteq Commits
    BY <1>0, <1>1, AboveMergeBase, BoundIsNumber DEF Known, Commits, Git, Typed, SwitchTypeOK
  <2> QED BY <1>0, <1>2, <2>1
<1> DEFINE f == file[b]  g == T!Decide(WriteOfSwitch(t, start), f).file
<1>4. f \in Files /\ call[t].created \in BOOLEAN
  BY <1>0, FileIsFile DEF Git, Call
<1>5. /\ g \in T!State /\ g # NoFile
      /\ g.park = T!Parsed(f).park /\ g.park_team = T!Parsed(f).park_team
  <2>1. PICK task \in Tasks, created \in BOOLEAN :
          task = call[t].req.task /\ created = call[t].created
    BY <1>0, <1>4
  <2>2. WriteOfSwitch(t, start) = [kind |-> "switch", slug |-> b, task |-> task,
                                  created |-> created, start |-> start,
                                  orc |-> None, own |-> None]
    BY <1>1, <2>1 DEF WriteOfSwitch, Request
  <2> HIDE DEF f
  <2> QED BY <1>3, <1>4, <2>1, <2>2, SwitchWrites, NoneIsNothing
<1>6. file' = [file EXCEPT ![b] = g]
  BY <1>2 DEF Write
<1> HIDE DEF g
<1>7. Alone(t) /\ Settled(t)'
  <2>1. CASE End(t)
    BY <2>1, EndSettles
  <2>2. CASE Goto(t, "unpark") /\ UNCHANGED call
    <3>1. pc'[t] = "unpark" /\ Alone(t) /\ call'[t] = call[t]
      BY <2>2, StepIs DEF Alone
    <3>2. dirty[t] = {} /\ call[t].head = tip[on[t]]
      BY <1>0 DEF CInv, Settled
    <3>3. Settled(t)'
      BY <1>0, <3>1, <3>2 DEF Settled
    <3> QED BY <3>1, <3>3
  <2> QED BY <2>1, <2>2 DEF Arrive
<1>8. Findable(b)'
  <2>1. file'[b] = g
    BY <1>6 DEF IInv, Typed
  <2>2. f # NoFile => T!Parsed(f) = f
    BY DEF T!Parsed
  <2> QED BY <1>0, <1>5, <2>1, <2>2, FindableStays DEF CInv, ParksFindable, Findable, f
<1> QED BY <1>0, <1>6, <1>7, <1>8, WriteSettles

LEMMA ClearSettles == ASSUME IInv, CInv, NEW t \in Teams, Clear(t) PROVE CInv'
<1>0. /\ Git /\ Grows /\ pc[t] = "clear" /\ End(t)
      /\ UNCHANGED <<log, tip, origin, seen, on, dirty, made, unrecorded>>
  BY SameLog DEF Clear, git, ghost, IInv, Git
<1>1. PICK b \in Branches : b = call[t].to /\ b = on[t]
  BY <1>0 DEF IInv, Informed, Arrived
<1>2. PICK g : file' = [file EXCEPT ![b] = g]
  BY <1>1 DEF Clear, Write
<1>3. Alone(t) /\ Settled(t)'
  BY <1>0, EndSettles
<1>4. Findable(b)'
  <2>1. PICK n : n = tip[b]
    OBVIOUS
  <2>2. Buried(n)'
    BY <1>0, <1>1, <2>1, BuriedStays DEF CInv, Settled
  <2>3. Buried(tip[b])'
    BY <1>0, <2>1, <2>2 DEF Buried
  <2> QED BY <2>3 DEF Findable
<1> QED BY <1>0, <1>2, <1>3, <1>4, WriteSettles

LEMMA GitSwitchSettles == ASSUME IInv, CInv, NEW t \in Teams, GitSwitch(t) PROVE CInv'
<1>0. /\ Git /\ pc[t] = "switch" /\ dirty[t] = {}
      /\ call[t] \in Call /\ call[t].base \in Past(seen)
      /\ call[t].to \in Branches \ {Merge}
  BY DEF IInv, CInv, Git, GitSwitch, Informed, Settled
<1>1. PICK to \in Branches \ {Merge} : to = call[t].to
  BY <1>0
<1>2. PICK at : at = IF call[t].created THEN call[t].base ELSE tip[to]
  OBVIOUS
<1>3. /\ call[t].created <=> tip[to] = None
      /\ tip' = [tip EXCEPT ![to] = at] /\ on' = [on EXCEPT ![t] = to]
      /\ call' = [call EXCEPT ![t].head = at]
      /\ Goto(t, "arrive")
      /\ UNCHANGED <<log, origin, seen, dirty, file, made, unrecorded>>
      /\ \A u \in Teams \ {t} : on[u] # to
  BY <1>1, <1>2 DEF GitSwitch
<1>4. Grows /\ Known' = Known /\ \A n : (IsPark(n))' = IsPark(n)
  BY <1>0, <1>3, SameLog
<1>5. /\ \A x \in Branches : tip'[x] = IF x = to THEN at ELSE tip[x]
      /\ \A u \in Teams : on'[u] = IF u = t THEN to ELSE on[u]
      /\ call'[t].head = at
      /\ pc'[t] = "arrive" /\ Alone(t)
  <2>1. call'[t] = [call[t] EXCEPT !.head = at] /\ \A u \in Teams \ {t} : call'[u] = call[u]
    BY <1>3 DEF IInv, Typed
  <2>2. call'[t].head = at
    BY <1>0, <2>1 DEF Call
  <2> QED BY <1>3, <2>1, <2>2, StepIs DEF Alone, IInv, Typed, SwitchTypeOK
<1>6. Settled(t)'
  <2>1. tip'[on'[t]] = at /\ dirty'[t] = {}
    BY <1>0, <1>3, <1>5
  <2> QED BY <1>5, <2>1 DEF Settled
<1>7. ASSUME NEW u \in Teams \ {t} PROVE Settled(u)'
  <2>1. on'[u] = on[u] /\ tip'[on[u]] = tip[on[u]]
    BY <1>3, <1>5 DEF IInv, Typed, SwitchTypeOK
  <2> QED BY <1>0, <1>3, <1>5, <2>1, StillSettled DEF Alone, CInv
<1>8. WorkStaysHome'
  <2>1. \A u \in Teams : \A w \in dirty'[u] : made[w] = on'[u]
    BY <1>0, <1>3, <1>5 DEF CInv, WorkStaysHome
  <2> QED BY <1>0, <1>3, <1>4, <2>1, HomeStays DEF CInv
<1>9. ASSUME NEW x \in Branches PROVE Findable(x)'
  <2>1. CASE tip[x] = None
    <3>1. CASE x = to
      <4>1. at \in Past(seen) /\ tip'[x] = at
        BY <1>0, <1>2, <1>3, <1>5, <2>1, <3>1
      <4>2. ~(IsPark(at))'
        BY <1>0, <1>4, <4>1, NoParkSeen
      <4> QED BY <4>1, <4>2 DEF Findable, IsPark
    <3>2. CASE x # to
      BY <1>5, <2>1, <3>2 DEF Findable
    <3> QED BY <3>1, <3>2
  <2>2. CASE tip[x] # None
    <3>1. tip'[x] = tip[x]
      BY <1>2, <1>3, <1>5, <2>2
    <3> QED BY <1>0, <1>3, <1>4, <3>1, FindableStays DEF CInv, ParksFindable, Findable
  <2> QED BY <2>1, <2>2
<1> QED BY <1>6, <1>7, <1>8, <1>9 DEF CInv, ParksFindable, Findable

LEMMA ResetSettles == ASSUME IInv, CInv, NEW t \in Teams, Reset(t) PROVE CInv'
<1>0. /\ Git /\ pc[t] = "reset" /\ on[t] \in Branches \ {Merge}
      /\ dirty[t] = {} /\ IsPark(tip[on[t]]) /\ tip[on[t]] # None
      /\ tip[on[t]] \in Past(tip[on[t]])
  BY InPast DEF IInv, CInv, Git, Typed, SwitchTypeOK, TipsKnown, TreesApart, Reset, Settled
<1>1. PICK n \in Known \ {0} : n = tip[on[t]]
  BY <1>0, ParkOfBranch
<1>2. PICK p : p = Parent(n)
  OBVIOUS
<1>3. IsPark(n) /\ log[n].branch = on[t] /\ Buried(p)
  BY <1>0, <1>1, <1>2, ParkOfBranch, UndoneBuries
<1>4. /\ tip' = [tip EXCEPT ![on[t]] = p]
      /\ dirty' = [dirty EXCEPT ![t] = @ \cup log[n].work]
      /\ Goto(t, "clear")
      /\ UNCHANGED <<log, origin, seen, on, file, call, made, unrecorded>>
  BY <1>1, <1>2 DEF Reset, ghost, IInv, Typed, SwitchTypeOK
<1>5. Grows /\ Known' = Known
  BY <1>0, <1>4, SameLog
<1>6. /\ \A x \in Branches : tip'[x] = IF x = on[t] THEN p ELSE tip[x]
      /\ \A u \in Teams : dirty'[u] = IF u = t THEN log[n].work ELSE dirty[u]
      /\ pc'[t] = "clear" /\ Alone(t)
  <2>1. /\ \A x \in Branches : tip'[x] = IF x = on[t] THEN p ELSE tip[x]
        /\ \A u \in Teams : dirty'[u] = IF u = t THEN dirty[u] \cup log[n].work ELSE dirty[u]
    BY <1>4 DEF IInv, Typed, SwitchTypeOK
  <2> QED BY <1>0, <1>4, <2>1, StepIs DEF Alone
<1>7. Buried(tip[on[t]])' /\ tip'[on[t]] = p
  <2>1. Buried(p)'
    BY <1>0, <1>3, <1>5, BuriedStays
  <2>2. tip'[on'[t]] = p
    BY <1>0, <1>4, <1>6
  <2> QED BY <1>4, <2>1, <2>2 DEF Buried
<1>8. Settled(t)'
  BY <1>6, <1>7 DEF Settled
<1>9. ASSUME NEW u \in Teams \ {t} PROVE Settled(u)'
  <2>1. on[u] # on[t] /\ on[u] \in Branches
    BY DEF IInv, TreesApart, Typed, SwitchTypeOK
  <2> QED BY <1>0, <1>4, <1>6, <2>1, StillSettled DEF Alone, CInv
<1>10. WorkStaysHome'
  <2>1. n \in 1..Len(log)
    BY DEF Known, IInv, Typed
  <2>2. \A w \in log[n].work : made[w] = on[t]
    BY <1>0, <1>3, <2>1 DEF CInv, WorkStaysHome
  <2>3. \A u \in Teams : \A w \in dirty'[u] : made[w] = on'[u]
    BY <1>4, <1>6, <2>2 DEF CInv, WorkStaysHome
  <2> QED BY <1>0, <1>4, <1>5, <2>3, HomeStays DEF CInv
<1>11. ASSUME NEW x \in Branches PROVE Findable(x)'
  <2>1. CASE x = on[t]
    <3>1. tip'[x] = p /\ Buried(p)'
      BY <1>0, <1>3, <1>5, <1>6, <2>1, BuriedStays
    <3>2. Buried(tip[x])'
      BY <3>1 DEF Buried
    <3> QED BY <3>2 DEF Findable
  <2>2. CASE x # on[t]
    BY <1>0, <1>4, <1>5, <1>6, <2>2, FindableStays DEF CInv, ParksFindable, Findable
  <2> QED BY <2>1, <2>2
<1> QED BY <1>8, <1>9, <1>10, <1>11 DEF CInv, ParksFindable, Findable

LEMMA InitSettles == Init => CInv
<1> SUFFICES ASSUME Init PROVE CInv
  OBVIOUS
<1>1. \A t \in Teams : pc[t] = "idle" /\ dirty[t] = {}
  BY DEF Init
<1>2. \A b \in Branches : tip[b] \in {0, None}
  BY DEF Init
<1>3. \A t \in Teams : Settled(t)
  BY <1>1 DEF Settled
<1>4. log = << >>
  BY DEF Init
<1>5. WorkStaysHome
  <2>1. 1..Len(log) = {}
    BY <1>4
  <2> QED BY <1>1, <2>1 DEF WorkStaysHome
<1>6. ParksFindable
  BY <1>2 DEF ParksFindable, IsPark
<1> QED BY <1>3, <1>5, <1>6 DEF CInv

LEMMA StutterSettles == ASSUME IInv, CInv, UNCHANGED vars PROVE CInv'
<1>1. UNCHANGED World /\ UNCHANGED <<pc, call, unrecorded>>
  BY DEF vars, World
<1>2. Git /\ Grows /\ Known' = Known
  BY <1>1, SameLog DEF IInv, Git, World
<1>3. ASSUME NEW u \in Teams PROVE Settled(u)'
  BY <1>1, <1>2, StillSettled DEF World, CInv
<1>4. WorkStaysHome'
  BY <1>1, <1>2, HomeStays DEF World, CInv, WorkStaysHome
<1>5. ASSUME NEW b \in Branches PROVE Findable(b)'
  BY <1>1, <1>2, FindableStays DEF World, CInv, ParksFindable, Findable
<1> QED BY <1>3, <1>4, <1>5 DEF CInv, ParksFindable, Findable

LEMMA NextSettles == ASSUME Considerate PROVE IInv /\ CInv /\ [Next]_vars => CInv'
<1> SUFFICES ASSUME IInv, CInv, [Next]_vars PROVE CInv'
  OBVIOUS
<1>1. CASE People
  BY <1>1, CommitWorkSettles, EditSettles, PushSettles, LandSettles, AdvanceSettles DEF People
<1>2. ASSUME NEW t \in Teams, Switch(t) PROVE CInv'
  BY <1>2, CalmSteps, BaseSettles, ParkCommitSettles, RecordParkSettles, GitSwitchSettles,
     ArriveSettles, ResetSettles, ClearSettles DEF Switch
<1>3. CASE UNCHANGED vars
  BY <1>3, StutterSettles
<1> QED BY <1>1, <1>2, <1>3 DEF Next

(* What the theorems below stand on.                                       *)
LEMMA ConsiderateInvariance == ASSUME Considerate PROVE Spec => [](IInv /\ CInv)
<1>1. Init => IInv /\ CInv
  BY InitKeeps, InitSettles
<1>2. (IInv /\ CInv) /\ [Next]_vars => (IInv /\ CInv)'
  BY NextKeeps, NextSettles
<1> QED BY <1>1, <1>2, PTL DEF Spec

(* While nobody works in a worktree a switch runs in, work never travels   *)
(* to another task's branch, neither uncommitted nor in a commit.          *)
THEOREM WorkStays == ASSUME Considerate PROVE Spec => []WorkStaysHome
<1>1. CInv => WorkStaysHome
  BY DEF CInv
<1> QED BY <1>1, ConsiderateInvariance, PTL

(* A park at the tip of its branch is recorded there and in the inventory  *)
(* of the team that made it, after a switch that failed or died anywhere   *)
(* but between the commit and its record.                                  *)
THEOREM ParksAreFound == ASSUME Considerate PROVE Spec => []ParksFindable
<1>1. CInv => ParksFindable
  BY DEF CInv
<1> QED BY <1>1, ConsiderateInvariance, PTL

Forward(b) ==
  tip[b] # None /\ tip'[b] # None =>
    \/ \E n \in Commits : n = tip[b] /\ (n \in Past(tip[b]))'
    \/ IsPark(tip[b]) /\ ~Pushed(tip[b]) /\ tip'[b] = Parent(tip[b])

LEMMA TipKnown ==
  ASSUME IInv, NEW b \in Branches, tip[b] # None
  PROVE  /\ tip[b] \in Known /\ tip[b] \in Commits /\ tip[b] \in Past(tip[b])
         /\ Len(log) \in Nat
BY InPast DEF IInv, Typed, SwitchTypeOK, TipsKnown

(* Where a branch stands still, it goes forward.                           *)
LEMMA StandsForward ==
  ASSUME IInv, Grows, NEW b \in Branches, tip'[b] \in {tip[b], None} PROVE Forward(b)
<1> SUFFICES ASSUME tip[b] # None, tip'[b] # None PROVE Forward(b)
  BY DEF Forward
<1>1. PICK n \in Known \cap Commits : n = tip[b] /\ n \in Past(n)
  BY TipKnown
<1>2. n \in Past(n)'
  BY <1>1, LogGrows DEF IInv
<1>3. tip'[b] = n
  BY <1>1
<1>4. Past(tip[b])' = Past(n)'
  BY <1>3 DEF Past
<1> QED BY <1>1, <1>2, <1>4 DEF Forward

(* A commit on top of a branch.                                            *)
LEMMA CommitsForward ==
  ASSUME IInv, NEW t \in Teams, NEW work \in SUBSET Work, NEW team \in Teams \cup {None},
         Commit(on[t], tip[on[t]], work, team),
         tip' = [tip EXCEPT ![on[t]] = Len(log) + 1],
         UNCHANGED <<origin, seen, file, unwritten>>
  PROVE  \A b \in Branches : Forward(b)
<1>0. /\ Git /\ RangeIsOwn /\ on[t] \in Branches \ {Merge} /\ tip[on[t]] # None
      /\ Len(log) \in Nat
  BY DEF IInv, Git, Typed, SwitchTypeOK, TreesApart
<1>1. /\ Grows /\ Len(log') = Len(log) + 1
      /\ log'[Len(log) + 1] = [past |-> Past(tip[on[t]]) \cup {Len(log) + 1},
                               branch |-> on[t], work |-> work, park |-> team]
  BY <1>0, OwnCommit
<1>2. PICK new \in Nat : new = Len(log) + 1
  BY <1>0
<1>3. /\ \A x \in Branches : tip'[x] = IF x = on[t] THEN new ELSE tip[x]
      /\ log'[new].past = Past(tip[on[t]]) \cup {new} /\ new # 0
  BY <1>0, <1>1, <1>2 DEF IInv, Typed, SwitchTypeOK
<1>4. ASSUME NEW b \in Branches \ {on[t]} PROVE Forward(b)
  BY <1>1, <1>3, StandsForward
<1>5. ASSUME NEW b \in Branches, b = on[t] PROVE Forward(b)
  <2>1. tip[on[t]] \in Past(tip[on[t]]) /\ tip[on[t]] \in Commits
    BY <1>0, TipKnown
  <2>2. PICK n \in Commits : n = tip[on[t]] /\ n \in log'[new].past
    BY <1>3, <2>1
  <2>3. tip'[b] = new
    BY <1>3, <1>5
  <2>4. n \in Past(tip[b])'
    BY <1>3, <2>2, <2>3 DEF Past
  <2> QED BY <1>5, <2>2, <2>4 DEF Forward
<1> QED BY <1>4, <1>5

LEMMA StepsForward ==
  ASSUME IInv, CInv, [Next]_vars PROVE \A b \in Branches : Forward(b)
<1>0. Git
  BY DEF IInv, Git
<1>1. CASE UNCHANGED <<log, tip>>
  BY <1>0, <1>1, SameLog, StandsForward
<1>2. ASSUME NEW t \in Teams, CommitWork(t) PROVE \A b \in Branches : Forward(b)
  <2>1. dirty[t] \in SUBSET Work
    BY DEF IInv, Typed, SwitchTypeOK
  <2>2. /\ Commit(on[t], tip[on[t]], dirty[t], None)
        /\ tip' = [tip EXCEPT ![on[t]] = Len(log) + 1]
        /\ UNCHANGED <<origin, seen, file, unwritten>>
    BY <1>2 DEF CommitWork, ghost
  <2> QED BY <2>1, <2>2, CommitsForward
<1>3. ASSUME NEW t \in Teams, ParkCommit(t) PROVE \A b \in Branches : Forward(b)
  <2> DEFINE work == (dirty[t] \ New) \cup (Request(t).include \cap dirty[t])
  <2>1. work \in SUBSET Work
    BY DEF IInv, Typed, SwitchTypeOK
  <2>2. /\ Commit(on[t], tip[on[t]], work, t)
        /\ tip' = [tip EXCEPT ![on[t]] = Len(log) + 1]
        /\ UNCHANGED <<origin, seen, file, unwritten>>
    BY <1>3 DEF ParkCommit
  <2> HIDE DEF work
  <2> QED BY <2>1, <2>2, CommitsForward
<1>4. ASSUME NEW t \in Teams, GitSwitch(t) PROVE \A b \in Branches : Forward(b)
  <2>1. /\ UNCHANGED log /\ call[t].to \in Branches
        /\ \A x \in Branches : x # call[t].to => tip'[x] = tip[x]
        /\ tip[call[t].to] # None => tip'[call[t].to] = tip[call[t].to]
    BY <1>4 DEF GitSwitch, IInv, Informed, Typed, SwitchTypeOK
  <2>2. Grows
    BY <1>0, <2>1, SameLog
  <2>3. ASSUME NEW b \in Branches, tip[b] = None PROVE Forward(b)
    BY <2>3 DEF Forward
  <2> QED BY <2>1, <2>2, <2>3, StandsForward
<1>5. ASSUME NEW t \in Teams, Reset(t) PROVE \A b \in Branches : Forward(b)
  <2>1. /\ UNCHANGED log /\ on[t] \in Branches
        /\ \A x \in Branches : tip'[x] = IF x = on[t] THEN Parent(tip[x]) ELSE tip[x]
    BY <1>5 DEF Reset, IInv, Typed, SwitchTypeOK
  <2>2. IsPark(tip[on[t]]) /\ ~Pushed(tip[on[t]])
    BY <1>5 DEF Reset, CInv, Settled
  <2>3. Grows
    BY <1>0, <2>1, SameLog
  <2>4. ASSUME NEW b \in Branches, b = on[t] PROVE Forward(b)
    <3>1. tip'[b] = Parent(tip[b]) /\ IsPark(tip[b]) /\ ~Pushed(tip[b])
      BY <2>1, <2>2, <2>4
    <3> QED BY <3>1 DEF Forward
  <2> QED BY <2>1, <2>3, <2>4, StandsForward
<1>6. ASSUME Advance PROVE \A b \in Branches : Forward(b)
  <2>1. UNCHANGED tip /\ Grows
    BY <1>0, <1>6, MergedGrows DEF Advance
  <2> QED BY <2>1, StandsForward
<1>7. ASSUME NEW x \in Branches, Land(x) PROVE \A b \in Branches : Forward(b)
  <2>1. /\ Commit(Merge, origin[Merge],
                  UNION {log[n].work : n \in Past(tip[x]) \ Past(origin[Merge])}, None)
        /\ tip[x] # None /\ \A b \in Branches : tip'[b] \in {tip[b], None}
    BY <1>7 DEF Land, IInv, Typed, SwitchTypeOK
  <2>2. UNION {log[n].work : n \in Past(tip[x]) \ Past(origin[Merge])} \in SUBSET Work
    BY <2>1, BranchWorks
  <2>3. Grows
    BY <1>0, <2>1, <2>2, MergedGrows
  <2> QED BY <2>1, <2>3, StandsForward
<1>8. \/ UNCHANGED <<log, tip>> \/ Advance \/ \E x \in Branches : Land(x)
      \/ \E t \in Teams : CommitWork(t) \/ ParkCommit(t) \/ GitSwitch(t) \/ Reset(t)
  <2>1. CASE People
    BY <2>1 DEF People, Edit, Push
  <2>2. ASSUME NEW t \in Teams, Switch(t)
        PROVE  UNCHANGED <<log, tip>> \/ ParkCommit(t) \/ GitSwitch(t) \/ Reset(t)
    BY <2>2 DEF Switch, git, Begin, Resolve, Status, Base, Inventory, RecordPark, Arrive,
                Unpark, AskRemote, Clear, Stop
  <2>3. CASE UNCHANGED vars
    BY <2>3 DEF vars
  <2> QED BY <2>1, <2>2, <2>3 DEF Next
<1> QED BY <1>1, <1>2, <1>3, <1>4, <1>5, <1>6, <1>7, <1>8

(* No branch ever loses a commit, but for a park no remote has, which goes *)
(* back into the worktree: a switch resets nothing else, and nothing it    *)
(* has read of a branch or of the remote is stale when it does.            *)
THEOREM HistoryIsKept == ASSUME Considerate PROVE Spec => HistoryKept
<1>1. IInv /\ CInv /\ [Next]_vars => [\A b \in Branches : Forward(b)]_vars
  BY StepsForward
<1>2. [\A b \in Branches : Forward(b)]_vars =>
        [\A b \in Branches : tip[b] # None /\ tip'[b] # None =>
           \/ \E n \in Commits : n = tip[b] /\ (n \in Past(tip[b]))'
           \/ IsPark(tip[b]) /\ ~Pushed(tip[b]) /\ tip'[b] = Parent(tip[b])]_vars
  BY DEF Forward
<1> QED BY <1>1, <1>2, ConsiderateInvariance, PTL DEF Spec, HistoryKept

=============================================================================
