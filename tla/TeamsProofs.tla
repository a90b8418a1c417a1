----------------------------- MODULE TeamsProofs -----------------------------
(***************************************************************************)
(* What LETS keeps in Orca.                                                *)
(*                                                                         *)
(* The flows around a standing team, for any number of calls, wrong        *)
(* answers of Orca, writes and deaths: one lead, in a worktree that was    *)
(* set up for it, and nothing of a session's taken away.  Handoff into a   *)
(* running session is at the end.                                          *)
(***************************************************************************)
EXTENDS Teams, Handoff, TLAPS

CreateSteps == {"check", "ps", "create", "git", "row", "verify", "terminals", "add"}
Relinks == {"unlink", "purge", "aside", "link"}
Placed == SiteSteps \cup {"init", "publish"}
Linked == Placed \ (Relinks \cup {"lock", "look"})

(* What the steps of one command say of the rest of it: a look is never    *)
(* the fourth, the allow rules come last, a link is made under adopt.lock  *)
(* unless create makes it, only create purges, and a task is recorded      *)
(* under adopt.lock.                                                       *)
Shape(c) ==
  /\ c.step \in Relinks => c.tries < 3
  /\ c.want = "rules" => c.doing \in {"team", "init"}
                         /\ c.step \in {"slock", "launch"} \cup SettingsSteps
  /\ c.step = "launch" => c.want = "rules" /\ c.doing = "team"
  /\ c.step \in CreateSteps => c.doing = "team" /\ c.locks /\ c.site = OrcaSite
  /\ c.step \in AdoptSteps \cup {"lock", "purge"} =>
       /\ c.doing \in {"team", "adopt", "heal"}
       /\ c.locks \/ (c.doing = "team" /\ c.site = GoSite)
  /\ c.step \in {"task", "record"} => c.locks
  /\ c.step = "purge" => ~c.locks
  /\ c.step = "unlink" => c.site # GoSite
  /\ c.step \in SettingsSteps \cup {"slock"} /\ c.want = "dir" =>
       c.doing \in {"team", "adopt", "heal"}
  /\ c.step \in {"init", "publish"} => c.doing \in {"team", "init"}
Shaped == \A p \in Procs : Shape(call[p])

(* One process got to write the team file, and only it adds the rules and  *)
(* launches.                                                               *)
Publishing(p) == call[p].want = "rules"
Published ==
  \A p \in Procs : Publishing(p) =>
    /\ TheFile(Site(p)) \in files
    /\ \A q \in Procs : Publishing(q) => q = p
Launched ==
  /\ OneLead
  /\ \A w \in Sites : leads[w] > 0 =>
       TheFile(w) \in files /\ \A p \in Procs : ~Publishing(p)

(* Nobody shares a lock.                                                   *)
AdoptAlone == \A p, q \in Procs : HoldsAdopt(p) /\ HoldsAdopt(q) => p = q
SettingsAlone ==
  \A p, q \in Procs : \A w \in Sites : HoldsSettings(p, w) /\ HoldsSettings(q, w) => p = q

(* What a call is about to write holds what the file says, but for late    *)
(* writes.                                                                 *)
SawIt ==
  \A p \in Procs : call[p].alive /\ call[p].step = "swrite" =>
    settings[Site(p)] \subseteq call[p].saw \cup (IF Site(p) \in late THEN {"own"} ELSE {})

(* Outside create's worktree nobody is about to take the main link away.   *)
MainStays ==
  \A p \in Procs : call[p].alive /\ call[p].step \in {"unlink", "aside"} /\ Site(p) # GoSite =>
    lets[Site(p)] # "main"

(* The team's command that works at w, at one of these steps.              *)
Works(p, w, steps) ==
  call[p].alive /\ call[p].doing = "team" /\ Site(p) = w /\ call[p].step \in steps

(* Orca's worktree, until Orca removes it: name, branch and HEAD, then no  *)
(* agent or a warning, then the link.                                      *)
Uncut == OrcaSite \in git /\ odd # "cut"
AsAsked == OrcaSite \in git /\ odd \in {"no", "warned"}
OrcaSound ==
  ~spent.removed =>
    /\ leads[OrcaSite] > 0 \/ (\E p \in Procs : Works(p, OrcaSite, Placed)) =>
         AsAsked
    /\ (\E p \in Procs : Works(p, OrcaSite, {"terminals"})) => Uncut
    /\ leads[OrcaSite] > 0 \/ (\E p \in Procs : Works(p, OrcaSite, Linked)) =>
         lets[OrcaSite] = "main"

(* Create's worktree: one command makes it, and its main link is in place  *)
(* or was moved aside.                                                     *)
GoLinked == lets[GoSite] = "main" \/ "main" \in aside[GoSite]
GoSound ==
  /\ lets[GoSite] \notin {"elsewhere", "file"}
  /\ leads[GoSite] > 0 => GoSite \in git /\ GoLinked
  /\ \A p \in Procs : Works(p, GoSite, Steps) =>
       /\ GoSite \in git /\ leads[GoSite] = 0
       /\ call[p].step \in Linked => GoLinked
       /\ \A q \in Procs : Works(q, GoSite, Steps) => q = p

IInv ==
  /\ TeamsTypeOK /\ Shaped /\ Published /\ Launched
  /\ AdoptAlone /\ SettingsAlone /\ SawIt /\ MainStays
  /\ OrcaSound /\ GoSound

-----------------------------------------------------------------------------
(* A step of a process leaves the other calls alone.                       *)
Apart(p) == \A q \in Procs : q # p => call'[q] = call[q]
Moved(p) == TeamsTypeOK' /\ Shaped' /\ Apart(p)

Doings == {"none", "team", "adopt", "heal", "init", "remove"}
LEMMA SetDoing == ASSUME NEW c \in Calls, NEW x \in Doings PROVE [c EXCEPT !.doing = x] \in Calls
  BY SMT DEF Calls, Doings
LEMMA SetStep == ASSUME NEW c \in Calls, NEW x \in Steps PROVE [c EXCEPT !.step = x] \in Calls
  BY SMT DEF Calls
LEMMA SetSite == ASSUME NEW c \in Calls, NEW x \in Sites PROVE [c EXCEPT !.site = x] \in Calls
  BY SMT DEF Calls
LEMMA SetLocks == ASSUME NEW c \in Calls, NEW x \in BOOLEAN PROVE [c EXCEPT !.locks = x] \in Calls
  BY SMT DEF Calls
LEMMA SetTries == ASSUME NEW c \in Calls, NEW x \in 0..3 PROVE [c EXCEPT !.tries = x] \in Calls
  BY SMT DEF Calls
LEMMA SetWant ==
  ASSUME NEW c \in Calls, NEW x \in {"dir", "rules"} PROVE [c EXCEPT !.want = x] \in Calls
  BY SMT DEF Calls
LEMMA SetSaw ==
  ASSUME NEW c \in Calls, NEW x \in SUBSET Entries PROVE [c EXCEPT !.saw = x] \in Calls
  BY SMT DEF Calls
LEMMA SetEx ==
  ASSUME NEW c \in Calls, NEW x \in SUBSET Lines PROVE [c EXCEPT !.ex = x] \in Calls
  BY SMT DEF Calls
LEMMA SetThere == ASSUME NEW c \in Calls, NEW x \in BOOLEAN PROVE [c EXCEPT !.there = x] \in Calls
  BY SMT DEF Calls
LEMMA SetGuess == ASSUME NEW c \in Calls, NEW x \in BOOLEAN PROVE [c EXCEPT !.guess = x] \in Calls
  BY SMT DEF Calls
LEMMA SetAlive == ASSUME NEW c \in Calls, NEW x \in BOOLEAN PROVE [c EXCEPT !.alive = x] \in Calls
  BY SMT DEF Calls

LEMMA IdleShape == Idle \in Calls /\ Shape(Idle)
  BY TeamsAssumption, SMT DEF Idle, Calls, Shape, Steps, CreateSteps, AdoptSteps, SettingsSteps,
     Relinks

(* A call that moves to a record of its own shape.                         *)
LEMMA OneMoves ==
  ASSUME TeamsTypeOK, Shaped, NEW p \in Procs, NEW d \in Calls, Shape(d),
         call' = [call EXCEPT ![p] = d]
  PROVE  call' \in [Procs -> Calls] /\ Shaped' /\ Apart(p) /\ call'[p] = d
<1>1. call \in [Procs -> Calls] /\ Shaped
  BY DEF TeamsTypeOK
<1> HIDE DEF Shape
<1>2. call' \in [Procs -> Calls] /\ Apart(p) /\ call'[p] = d
  BY <1>1, SMT DEF Apart
<1>3. \A q \in Procs : Shape(call'[q])
  BY <1>1, <1>2, SMT DEF Shaped, Apart
<1> QED  BY <1>2, <1>3, Zenon DEF Shaped, Shape

(* A call that goes on to another of its steps.                            *)
LEMMA GoMoves ==
  ASSUME TeamsTypeOK, NEW p \in Procs, NEW s \in Steps, Go(p, s)
  PROVE  /\ [call[p] EXCEPT !.step = s] \in Calls
         /\ call' = [call EXCEPT ![p] = [call[p] EXCEPT !.step = s]]
<1>1. call \in [Procs -> Calls] /\ call[p] \in Calls
  BY DEF TeamsTypeOK
<1>2. [call[p] EXCEPT !.step = s] \in Calls
  BY <1>1, SMT DEF Calls
<1>3. call' = [call EXCEPT ![p] = [call[p] EXCEPT !.step = s]]
  BY Zenon DEF Go
<1> QED  BY <1>2, <1>3

LEMMA EndsMoves ==
  ASSUME TeamsTypeOK, Shaped, NEW p \in Procs, Ends(p)
  PROVE  call' \in [Procs -> Calls] /\ Shaped' /\ Apart(p) /\ call'[p] = Idle
  BY OneMoves, IdleShape DEF Ends

-----------------------------------------------------------------------------
(* What each part of the invariant asks of a step that moves one call.     *)
World == <<git, odd, lets, aside, settings, files, leads, late>>
Rest == <<orca, asked, store, exclude, task, unread>>
Tally == [calls : Nat, orca : Nat, writes : Nat, removed : BOOLEAN]

EntersTeam(p) == Publishing(p)' => Publishing(p) /\ Site(p)' = Site(p)
EntersAdopt(p) == HoldsAdopt(p)' => HoldsAdopt(p) \/ \A q \in Procs : ~HoldsAdopt(q)
EntersSettings(p) ==
  \A w \in Sites : HoldsSettings(p, w)' =>
    HoldsSettings(p, w) \/ \A q \in Procs : ~HoldsSettings(q, w)
EntersWrite(p) ==
  call'[p].alive /\ call'[p].step = "swrite" =>
    settings'[Site(p)'] \subseteq call'[p].saw \cup (IF Site(p)' \in late' THEN {"own"} ELSE {})
EntersRelink(p) ==
  call'[p].alive /\ call'[p].step \in {"unlink", "aside"} /\ Site(p)' # GoSite =>
    lets'[Site(p)'] # "main"
EntersOrca(p) ==
  /\ Works(p, OrcaSite, Placed)' => Works(p, OrcaSite, Placed) \/ AsAsked
  /\ Works(p, OrcaSite, {"terminals"})' => Works(p, OrcaSite, {"terminals"}) \/ Uncut
  /\ Works(p, OrcaSite, Linked)' => Works(p, OrcaSite, Linked) \/ lets'[OrcaSite] = "main"
EntersGo(p) ==
  Works(p, GoSite, Steps)' =>
    /\ Works(p, GoSite, Steps)
    /\ call'[p].step \in Linked => call[p].step \in Linked \/ GoLinked'
Enters(p) ==
  /\ EntersTeam(p) /\ EntersAdopt(p) /\ EntersSettings(p) /\ EntersWrite(p)
  /\ EntersRelink(p) /\ EntersOrca(p) /\ EntersGo(p)

LEMMA PublishedMoves ==
  ASSUME Published, NEW p \in Procs, Apart(p), EntersTeam(p), files \subseteq files'
  PROVE  Published'
  BY SMT DEF Published, Apart, EntersTeam, Publishing, Site, TheFile

LEMMA LaunchedMoves ==
  ASSUME Launched, NEW p \in Procs, Apart(p), EntersTeam(p), files \subseteq files',
         leads' = leads
  PROVE  Launched'
  BY SMT DEF Launched, OneLead, Apart, EntersTeam, Publishing, TheFile

LEMMA AdoptMoves ==
  ASSUME AdoptAlone, NEW p \in Procs, Apart(p), EntersAdopt(p)
  PROVE  AdoptAlone'
<1>1. \A q \in Procs : q # p => (HoldsAdopt(q)' <=> HoldsAdopt(q))
  BY DEF Apart, HoldsAdopt
<1> QED  BY <1>1 DEF AdoptAlone, EntersAdopt

LEMMA SettingsMoves ==
  ASSUME SettingsAlone, NEW p \in Procs, Apart(p), EntersSettings(p)
  PROVE  SettingsAlone'
<1>1. \A q \in Procs : \A w \in Sites : q # p => (HoldsSettings(q, w)' <=> HoldsSettings(q, w))
  BY DEF Apart, HoldsSettings
<1> QED  BY <1>1 DEF SettingsAlone, EntersSettings

LEMMA SawMoves ==
  ASSUME SawIt, NEW p \in Procs, Apart(p), EntersWrite(p), settings' = settings, late' = late
  PROVE  SawIt'
  BY SMT DEF SawIt, Apart, EntersWrite, Site

LEMMA MainMoves ==
  ASSUME TeamsTypeOK, MainStays, NEW p \in Procs, Apart(p), EntersRelink(p),
         \A w \in Sites \ {GoSite} : lets'[w] = "main" => lets[w] = "main"
  PROVE  MainStays'
<1>1. \A q \in Procs : Site(q) \in Sites
  BY SMT DEF TeamsTypeOK, Calls, Site
<1> QED  BY <1>1, SMT DEF MainStays, Apart, EntersRelink, Site

LEMMA OrcaMoves ==
  ASSUME OrcaSound, NEW p \in Procs, Apart(p), EntersOrca(p),
         OrcaSite \in git => OrcaSite \in git', odd' = odd, leads' = leads,
         lets[OrcaSite] = "main" => lets'[OrcaSite] = "main",
         spent'.removed = spent.removed
  PROVE  OrcaSound'
<1>1. \A q \in Procs : q # p =>
        /\ Works(q, OrcaSite, Placed)' <=> Works(q, OrcaSite, Placed)
        /\ Works(q, OrcaSite, {"terminals"})' <=> Works(q, OrcaSite, {"terminals"})
        /\ Works(q, OrcaSite, Linked)' <=> Works(q, OrcaSite, Linked)
  BY Zenon DEF Apart, Works, Site
<1>2. (AsAsked => AsAsked') /\ (Uncut => Uncut')
  BY DEF AsAsked, Uncut
<1> HIDE DEF AsAsked, Uncut
<1> QED  BY <1>1, <1>2, SMT DEF OrcaSound, EntersOrca

LEMMA GoMovesOn ==
  ASSUME GoSound, NEW p \in Procs, Apart(p), EntersGo(p),
         GoSite \in git => GoSite \in git', leads' = leads,
         lets'[GoSite] \notin {"elsewhere", "file"}, GoLinked => GoLinked'
  PROVE  GoSound'
<1>1. \A q \in Procs : q # p =>
        /\ Works(q, GoSite, Steps)' <=> Works(q, GoSite, Steps)
        /\ call'[q] = call[q]
  BY Zenon DEF Apart, Works, Site
<1> QED  BY <1>1, SMT DEF GoSound, EntersGo

(* A step that moves one call and leaves the world as it is.               *)
LEMMA CallsOnly ==
  ASSUME IInv, NEW p \in Procs, Moved(p), Enters(p), UNCHANGED World,
         spent'.removed = spent.removed
  PROVE  IInv'
<1> USE DEF IInv, Moved, Enters
<1>1. Published' /\ Launched'
  BY PublishedMoves, LaunchedMoves DEF World
<1>2. AdoptAlone' /\ SettingsAlone'
  BY AdoptMoves, SettingsMoves
<1>3. SawIt' /\ MainStays'
  BY SawMoves, MainMoves DEF World
<1>4. OrcaSound'
  BY OrcaMoves DEF World
<1>5. GoSound'
  BY GoMovesOn DEF World, GoLinked, GoSound
<1> QED  BY <1>1, <1>2, <1>3, <1>4, <1>5

-----------------------------------------------------------------------------
(* Calls begin, go on and end.                                             *)
LEMMA WorldTyped ==
  ASSUME TeamsTypeOK, call' \in [Procs -> Calls], UNCHANGED <<World, Rest>>, spent' \in Tally
  PROVE  TeamsTypeOK'
  BY DEF TeamsTypeOK, World, Rest, Tally

(* A call that ends lets everything go.                                    *)
LEMMA EndsEnters ==
  ASSUME TeamsTypeOK, NEW p \in Procs, call'[p] = Idle
  PROVE  Enters(p)
<1>1. /\ call'[p].want = "dir" /\ call'[p].doing = "none" /\ call'[p].step = "end"
  BY DEF Idle
<1> QED
  BY <1>1, SMT DEF Enters, EntersTeam, EntersAdopt, EntersSettings, EntersWrite, EntersRelink,
     EntersOrca, EntersGo, Publishing, HoldsAdopt, HoldsSettings, Works, SettingsSteps

LEMMA EndsKeeps ==
  ASSUME IInv, NEW p \in Procs, Ends(p), UNCHANGED <<World, Rest>>, spent' \in Tally,
         spent'.removed = spent.removed
  PROVE  IInv'
<1>1. call' \in [Procs -> Calls] /\ Shaped' /\ Apart(p) /\ call'[p] = Idle
  BY EndsMoves DEF IInv
<1>2. Moved(p)
  BY <1>1, WorldTyped DEF IInv, Moved
<1>3. Enters(p)
  BY <1>1, EndsEnters DEF IInv
<1> QED  BY <1>2, <1>3, CallsOnly

(* A call that goes on to a step where it neither takes a lock nor looks   *)
(* at what others may change.                                              *)
EarlySteps == CreateSteps \cup {"list", "rm"}
Same(c, d) == d.site = c.site /\ d.want = c.want /\ d.doing = c.doing /\ d.alive = c.alive
LEMMA EarlyKeeps ==
  ASSUME IInv, NEW p \in Procs, call[p].step \in EarlySteps, NEW d \in Calls,
         Same(call[p], d), d.locks = call[p].locks, d.step \in EarlySteps,
         d.step \in CreateSteps => call[p].step \in CreateSteps, d.step = "terminals" => Uncut,
         call' = [call EXCEPT ![p] = d],
         UNCHANGED <<World, Rest>>, spent' \in Tally, spent'.removed = spent.removed
  PROVE  IInv'
<1>1. d.step \notin AdoptSteps \cup SettingsSteps \cup Relinks
                       \cup {"slock", "launch", "task", "record"}
  BY SMT DEF EarlySteps, CreateSteps, Relinks, AdoptSteps, SettingsSteps
<1>2. ~Publishing(p) /\ call[p] \in Calls
  BY SMT DEF IInv, Shaped, Shape, Publishing, EarlySteps, CreateSteps, SettingsSteps, TeamsTypeOK
<1>3. Shape(d)
  <2>1. Shape(call[p]) /\ d.step \notin {"lock", "purge", "init", "publish"}
    BY SMT DEF IInv, Shaped, EarlySteps, CreateSteps
  <2> QED  BY <1>1, <1>2, <2>1, SMT DEF Shape, Same, Publishing, Calls, Relinks
<1>4. call' \in [Procs -> Calls] /\ Shaped' /\ Apart(p) /\ call'[p] = d
  BY <1>3, OneMoves DEF IInv
<1>5. Moved(p)
  BY <1>4, WorldTyped DEF IInv, Moved
<1>6. call[p].step \in Steps /\ d.step \notin Placed \cup Linked
  BY <1>2, SMT DEF Calls, EarlySteps, CreateSteps, Placed, Linked, SiteSteps, AdoptSteps, SettingsSteps, Relinks
<1>7. Enters(p)
  <2>1. EntersTeam(p) /\ EntersAdopt(p) /\ EntersSettings(p)
    BY <1>1, <1>2, <1>4, SMT DEF EntersTeam, EntersAdopt, EntersSettings, Publishing,
       HoldsAdopt, HoldsSettings, Same
  <2>2. EntersWrite(p) /\ EntersRelink(p)
    BY <1>4, SMT DEF EntersWrite, EntersRelink, EarlySteps, CreateSteps
  <2>3. EntersOrca(p) /\ EntersGo(p)
    BY <1>4, <1>6, SMT DEF EntersOrca, EntersGo, Works, Site, Linked, Same
  <2> QED  BY <2>1, <2>2, <2>3 DEF Enters
<1> QED  BY <1>4, <1>5, <1>7, CallsOnly

LEMMA EarlyGoes ==
  ASSUME IInv, NEW p \in Procs, call[p].step \in EarlySteps, NEW s \in EarlySteps, Go(p, s),
         s \in CreateSteps => call[p].step \in CreateSteps, s = "terminals" => Uncut,
         UNCHANGED <<World, Rest>>, spent' \in Tally, spent'.removed = spent.removed
  PROVE  IInv'
<1> DEFINE d == [call[p] EXCEPT !.step = s]
<1>1. d \in Calls /\ call' = [call EXCEPT ![p] = d]
  BY GoMoves DEF IInv, EarlySteps, CreateSteps, Steps
<1>2. Same(call[p], d) /\ d.step = s /\ d.locks = call[p].locks
  <2>1. call[p] \in Calls  BY DEF IInv, TeamsTypeOK
  <2> QED  BY <2>1, SMT DEF Same, Calls
<1> HIDE DEF d
<1> QED  BY <1>1, <1>2, EarlyKeeps

LEMMA BeginsKeeps ==
  ASSUME IInv, NEW p \in Procs, NEW doing \in Doings, NEW step \in Steps, NEW w \in Sites,
         NEW locks \in BOOLEAN, Begins(p, doing, step, w, locks),
         step \in {"check", "lock", "slock", "init", "list"}, step = "slock" => ~locks,
         doing = "team" => step = "check" /\ w = OrcaSite, doing = "init" => step = "init",
         doing \in {"none", "remove"} => step = "list",
         step = "check" => doing = "team" /\ locks, step = "lock" => locks,
         step = "init" => doing = "init"
  PROVE  IInv'
<1> DEFINE c == [Idle EXCEPT !.doing = doing, !.step = step, !.site = w, !.locks = locks]
<1>1. c \in Calls
  <2> DEFINE b == [[Idle EXCEPT !.doing = doing] EXCEPT !.step = step]
  <2>1. b \in Calls  BY IdleShape, SetDoing, SetStep
  <2>2. c = [[b EXCEPT !.site = w] EXCEPT !.locks = locks]  OBVIOUS
  <2> HIDE DEF b, c
  <2> QED  BY <2>1, <2>2, SetSite, SetLocks
<1>2. /\ c.doing = doing /\ c.site = w /\ c.locks = locks /\ c.step = step
      /\ c.want = "dir" /\ c.tries = 0 /\ c.alive
  BY SMT DEF Idle
<1>3. call' = [call EXCEPT ![p] = c]
  BY DEF Begins
<1> HIDE DEF c
<1>4. Shape(c) /\ c.step \notin AdoptSteps \cup SettingsSteps
  BY <1>2, SMT DEF Shape, CreateSteps, Relinks, AdoptSteps, SettingsSteps, Doings
<1>5. call' \in [Procs -> Calls] /\ Shaped' /\ Apart(p) /\ call'[p] = c
  BY <1>1, <1>3, <1>4, OneMoves DEF IInv
<1>6. spent' \in Tally /\ spent'.removed = spent.removed /\ UNCHANGED <<World, Rest>>
  BY SMT DEF Begins, IInv, TeamsTypeOK, Tally, World, Rest, places, tree, config, team
<1>7. Moved(p)
  BY <1>5, <1>6, WorldTyped DEF IInv, Moved
<1>8. Enters(p)
  <2>1. EntersTeam(p) /\ EntersAdopt(p) /\ EntersSettings(p)
    BY <1>2, <1>4, <1>5, SMT DEF EntersTeam, EntersAdopt, EntersSettings, Publishing, HoldsAdopt,
       HoldsSettings
  <2>2. EntersWrite(p) /\ EntersRelink(p)
    BY <1>4, <1>5, SMT DEF EntersWrite, EntersRelink, AdoptSteps, SettingsSteps
  <2>3. EntersOrca(p) /\ EntersGo(p)
    <3>1. "check" \notin Placed \cup Linked
      BY SMT DEF Placed, Linked, SiteSteps, AdoptSteps, SettingsSteps
    <3> QED  BY <1>2, <1>5, <3>1, TeamsAssumption, SMT DEF EntersOrca, EntersGo, Works, Site
  <2> QED  BY <2>1, <2>2, <2>3 DEF Enters
<1> QED  BY <1>6, <1>7, <1>8, CallsOnly

LEMMA BeginKeeps == ASSUME IInv, NEW p \in Procs, Begin(p) PROVE IInv'
<1>1. git \subseteq Sites /\ OrcaSite \in Sites
  BY TeamsAssumption DEF IInv, TeamsTypeOK
<1>2. {"check", "lock", "slock", "init", "list"} \subseteq Steps
      /\ {"team", "adopt", "heal", "init", "remove"} \subseteq Doings
  BY DEF Steps, Doings
<1>3. CASE BeginTeam(p)
  BY <1>1, <1>2, <1>3, BeginsKeeps DEF BeginTeam
<1>4. CASE BeginAdopt(p)
  BY <1>1, <1>2, <1>4, BeginsKeeps DEF BeginAdopt
<1>5. CASE BeginHeal(p)
  <2>1. PICK w \in git : \/ Begins(p, "heal", "slock", w, FALSE)
                         \/ Begins(p, "heal", "lock", w, TRUE)
    BY <1>5 DEF BeginHeal
  <2>2. CASE Begins(p, "heal", "slock", w, FALSE)  BY <1>1, <1>2, <2>2, BeginsKeeps
  <2>3. CASE Begins(p, "heal", "lock", w, TRUE)  BY <1>1, <1>2, <2>3, BeginsKeeps
  <2> QED  BY <2>1, <2>2, <2>3
<1>6. CASE BeginInit(p)
  BY <1>1, <1>2, <1>6, BeginsKeeps DEF BeginInit
<1>7. CASE BeginRemove(p)
  BY <1>1, <1>2, <1>7, BeginsKeeps DEF BeginRemove
<1> QED  BY <1>3, <1>4, <1>5, <1>6, <1>7 DEF Begin

(* The frame of a step that only moves its call.                           *)
LEMMA Frame ==
  ASSUME TeamsTypeOK
  PROVE  /\ UNCHANGED <<places, tree, config, team, late>> => UNCHANGED <<World, Rest>>
         /\ UNCHANGED spent => spent' \in Tally /\ spent'.removed = spent.removed
         /\ OrcaFails \/ Writes => spent' \in Tally /\ spent'.removed = spent.removed
  BY SMT DEF TeamsTypeOK, Tally, World, Rest, places, tree, config, team, OrcaFails, Writes

LEMMA CheckKeeps == ASSUME IInv, NEW p \in Procs, Check(p) PROVE IInv'
<1>1. UNCHANGED <<World, Rest>> /\ spent' \in Tally /\ spent'.removed = spent.removed
  BY Frame DEF Check, IInv
<1>2. CASE Ends(p)  BY <1>1, <1>2, EndsKeeps
<1>3. CASE \E step \in {"ps", "add"} : Go(p, step)
  BY <1>1, <1>3, EarlyGoes DEF Check, At, EarlySteps, CreateSteps
<1> QED  BY <1>2, <1>3 DEF Check

LEMMA PsKeeps == ASSUME IInv, NEW p \in Procs, Ps(p) PROVE IInv'
<1>1. UNCHANGED <<World, Rest>> /\ spent' \in Tally /\ spent'.removed = spent.removed
  BY Frame DEF Ps, NotAttempted, IInv
<1>2. CASE Ends(p)  BY <1>1, <1>2, EndsKeeps
<1>3. CASE Go(p, "create") \/ Go(p, "add")
  BY <1>1, <1>3, EarlyGoes DEF Ps, At, EarlySteps, CreateSteps
<1> QED  BY <1>2, <1>3 DEF Ps, GoOr, NotAttempted

LEMMA ReadRowKeeps == ASSUME IInv, NEW p \in Procs, ReadRow(p) PROVE IInv'
<1>1. UNCHANGED <<World, Rest>> /\ spent' \in Tally /\ spent'.removed = spent.removed
  BY Frame DEF ReadRow, IInv
<1>2. CASE Ends(p)  BY <1>1, <1>2, EndsKeeps
<1>3. CASE Go(p, "verify")
  BY <1>1, <1>3, EarlyGoes DEF ReadRow, At, EarlySteps, CreateSteps
<1> QED  BY <1>2, <1>3 DEF ReadRow, GoOr

LEMMA ListKeeps == ASSUME IInv, NEW p \in Procs, List(p) PROVE IInv'
<1>1. UNCHANGED <<World, Rest>> /\ spent' \in Tally /\ spent'.removed = spent.removed
  BY Frame DEF List, IInv
<1>2. CASE Ends(p)  BY <1>1, <1>2, EndsKeeps
<1>3. CASE Go(p, "rm")
  BY <1>1, <1>3, EarlyGoes DEF List, At, EarlySteps, CreateSteps
<1> QED  BY <1>2, <1>3 DEF List

LEMMA GoneKeeps == ASSUME IInv, NEW p \in Procs, Gone(p) PROVE IInv'
<1>1. UNCHANGED <<World, Rest>> /\ spent' \in Tally /\ spent'.removed = spent.removed
  BY Frame DEF Gone, IInv
<1> QED  BY <1>1, EndsKeeps DEF Gone

-----------------------------------------------------------------------------
(* A call goes on in its worktree: what it must have, or find, for a step. *)
HoldSteps == AdoptSteps \cup SettingsSteps \cup {"slock"}

LEMMA Onward ==
  ASSUME TeamsTypeOK, Shaped, NEW p \in Procs, NEW d \in Calls, Shape(d),
         call' = [call EXCEPT ![p] = d], Same(call[p], d),
         call[p].step \in Placed \/ AsAsked, d.step # "terminals",
         d.locks /\ d.want = "dir" /\ d.step \in HoldSteps =>
           (call[p].locks /\ call[p].step \in HoldSteps) \/ \A q \in Procs : ~HoldsAdopt(q),
         d.step \in SettingsSteps =>
           call[p].step \in SettingsSteps \/ \A q \in Procs : ~HoldsSettings(q, Site(p)),
         d.step = "swrite" => settings'[Site(p)] \subseteq d.saw,
         d.step \in {"unlink", "aside"} => lets'[Site(p)] # "main",
         d.step \in Linked =>
           call[p].step \in Linked \/ lets'[Site(p)] = "main"
  PROVE  call' \in [Procs -> Calls] /\ Shaped' /\ Apart(p) /\ call'[p] = d /\ Enters(p)
<1>1. call' \in [Procs -> Calls] /\ Shaped' /\ Apart(p) /\ call'[p] = d
  BY OneMoves
<1>2. call[p] \in Calls /\ Shape(call[p])
  BY DEF TeamsTypeOK, Shaped
<1>3. EntersTeam(p)
  BY <1>1, SMT DEF EntersTeam, Publishing, Site, Same
<1>4. EntersAdopt(p)
  BY <1>1, SMT DEF EntersAdopt, HoldsAdopt, HoldSteps, Same
<1>5. EntersSettings(p)
  BY <1>1, SMT DEF EntersSettings, HoldsSettings, Site, Same
<1>6. EntersWrite(p) /\ EntersRelink(p)
  BY <1>1, SMT DEF EntersWrite, EntersRelink, Site, Same
<1>7. EntersOrca(p)
  <2>1. Linked \subseteq Placed  BY DEF Linked
  <2> QED  BY <1>1, <2>1, SMT DEF EntersOrca, Works, Site, Same
<1>8. EntersGo(p)
  <2>1. call[p].step \in Steps  BY <1>2, SMT DEF Calls
  <2> QED  BY <1>1, <2>1, SMT DEF EntersGo, Works, Site, GoLinked, Same
<1> QED  BY <1>1, <1>3, <1>4, <1>5, <1>6, <1>7, <1>8 DEF Enters

(* The settings merge ends, whatever it did: the call goes on to its task, *)
(* its team file or its lead, or ends.                                     *)
LEMMA AfterMoves ==
  ASSUME IInv, NEW p \in Procs, AfterMerge(p), call[p].step \in SettingsSteps \cup {"slock"}
  PROVE  call' \in [Procs -> Calls] /\ Shaped' /\ Apart(p) /\ Enters(p)
         /\ call'[p].step \notin SettingsSteps
<1> DEFINE c == [[call[p] EXCEPT !.saw = {}] EXCEPT !.tries = 0]
<1>1. call[p] \in Calls /\ Shape(call[p]) /\ TeamsTypeOK /\ Shaped
  BY DEF IInv, Shaped, TeamsTypeOK
<1>2. c \in Calls
  <2>1. {} \in SUBSET Entries /\ 0 \in 0..3  BY SMT
  <2>2. [call[p] EXCEPT !.saw = {}] \in Calls  BY <1>1, <2>1, SetSaw
  <2> QED  BY <2>1, <2>2, SetTries
<1>3. c.doing = call[p].doing /\ c.site = call[p].site /\ c.locks = call[p].locks
      /\ c.step = call[p].step /\ c.want = call[p].want /\ c.alive = call[p].alive
      /\ c.tries = 0
  BY <1>1, SMT DEF Calls
<1>4. [call[p] EXCEPT !.saw = {}, !.tries = 0] = c
  OBVIOUS
<1> HIDE DEF c
<1>5. \/ /\ call' = [call EXCEPT ![p] = [c EXCEPT !.step = "launch"]]
         /\ c.want = "rules" /\ c.doing = "team"
      \/ /\ call' = [call EXCEPT ![p] = [c EXCEPT !.step = "task"]]
         /\ c.want = "dir" /\ c.locks
      \/ /\ call' = [call EXCEPT ![p] = [c EXCEPT !.step = "init"]]
         /\ c.want = "dir" /\ c.doing = "team"
      \/ Ends(p)
  BY <1>4, Zenon DEF AfterMerge, Ends
<1>6. CASE Ends(p)
  <2>1. call' \in [Procs -> Calls] /\ Shaped' /\ Apart(p) /\ call'[p] = Idle
    BY <1>1, <1>6, EndsMoves
  <2>2. Idle.step \notin SettingsSteps  BY SMT DEF Idle, SettingsSteps
  <2> QED  BY <1>1, <2>1, <2>2, EndsEnters
<1>7. ASSUME NEW s \in {"launch", "task", "init"},
             call' = [call EXCEPT ![p] = [c EXCEPT !.step = s]],
             s = "launch" => c.want = "rules" /\ c.doing = "team",
             s # "launch" => c.want = "dir", s = "task" => c.locks,
             s = "init" => c.doing = "team"
      PROVE  call' \in [Procs -> Calls] /\ Shaped' /\ Apart(p) /\ Enters(p)
             /\ call'[p].step \notin SettingsSteps
  <2> DEFINE d == [c EXCEPT !.step = s]
  <2>1. d \in Calls  BY <1>2, SetStep DEF Steps, AdoptSteps
  <2>2. Same(call[p], d) /\ d.locks = c.locks /\ d.step = s
    BY <1>2, <1>3, SMT DEF Same, Calls
  <2>3. call' = [call EXCEPT ![p] = d]  BY <1>7
  <2> HIDE DEF d
  <2>4. Shape(d)
    BY <1>1, <1>3, <1>7, <2>2, SMT DEF Shape, Same, CreateSteps, Relinks, AdoptSteps, SettingsSteps
  <2>5. call[p].step \in Linked /\ call[p].step \in Placed /\ call[p].step \in HoldSteps
    BY SMT DEF Linked, Placed, SiteSteps, Relinks, SettingsSteps, HoldSteps
  <2>6. s \notin SettingsSteps \cup {"slock", "unlink", "aside"}
    BY SMT DEF SettingsSteps
  <2>7. "swrite" \in SettingsSteps  BY DEF SettingsSteps
  <2>8. call' \in [Procs -> Calls] /\ Shaped' /\ Apart(p) /\ call'[p] = d /\ Enters(p)
    BY <1>1, <1>3, <2>1, <2>2, <2>3, <2>4, <2>5, <2>6, <2>7, Onward
  <2> QED  BY <2>2, <2>6, <2>8, SMT
<1> QED  BY <1>5, <1>6, <1>7

LEMMA ReadGitKeeps == ASSUME IInv, NEW p \in Procs, ReadGit(p) PROVE IInv'
<1> DEFINE b == [call[p] EXCEPT !.step = "row"]
           d == [call[p] EXCEPT !.step = "row", !.there = OrcaSite \in git]
<1>1. call[p] \in Calls /\ call[p].step = "git"
  BY DEF IInv, TeamsTypeOK, ReadGit, At
<1>2. d \in Calls
  <2>1. b \in Calls  BY <1>1, SetStep DEF Steps
  <2>2. d = [b EXCEPT !.there = OrcaSite \in git]  OBVIOUS
  <2> HIDE DEF b, d
  <2>3. (OrcaSite \in git) \in BOOLEAN  OBVIOUS
  <2> QED  BY <2>1, <2>2, <2>3, SetThere
<1>3. Same(call[p], d) /\ d.step = "row" /\ d.locks = call[p].locks
  BY <1>1, SMT DEF Same, Calls
<1>4. call' = [call EXCEPT ![p] = d]
  BY DEF ReadGit
<1>5. UNCHANGED <<World, Rest>> /\ spent' \in Tally /\ spent'.removed = spent.removed
  BY Frame DEF ReadGit, IInv
<1> HIDE DEF d
<1> QED  BY <1>1, <1>2, <1>3, <1>4, <1>5, EarlyKeeps DEF EarlySteps, CreateSteps

(* A step that waits or looks: the call goes on, the rest stays.           *)
LEMMA OnwardOnly ==
  ASSUME IInv, NEW p \in Procs, call' \in [Procs -> Calls], Shaped', Apart(p), Enters(p),
         UNCHANGED <<places, tree, config, team, late, spent>>
  PROVE  IInv'
<1>1. UNCHANGED <<World, Rest>> /\ spent' \in Tally /\ spent'.removed = spent.removed
  BY Frame DEF IInv
<1>2. Moved(p)
  BY <1>1, WorldTyped DEF IInv, Moved
<1> QED  BY <1>1, <1>2, CallsOnly

LEMMA VerifyKeeps == ASSUME IInv, NEW p \in Procs, Verify(p) PROVE IInv'
<1>1. UNCHANGED <<World, Rest>> /\ spent' \in Tally /\ spent'.removed = spent.removed
  BY Frame DEF Verify, IInv
<1>2. CASE Ends(p)  BY <1>1, <1>2, EndsKeeps
<1>3. CASE Go(p, "terminals") /\ Uncut
  BY <1>1, <1>3, EarlyGoes DEF Verify, At, EarlySteps, CreateSteps
<1> QED  BY <1>2, <1>3 DEF Verify, GoOr, Uncut

(* On to adopt.lock, from the terminals.                                   *)
LEMMA OnToLock ==
  ASSUME IInv, NEW p \in Procs, At(p, "terminals"), Go(p, "lock")
  PROVE  /\ Works(p, OrcaSite, {"terminals"})
         /\ call' \in [Procs -> Calls] /\ Shaped' /\ Apart(p)
         /\ \E d \in Calls : /\ call'[p] = d /\ call' = [call EXCEPT ![p] = d] /\ Shape(d)
                             /\ Same(call[p], d) /\ d.step = "lock" /\ d.want = "dir"
<1> DEFINE d == [call[p] EXCEPT !.step = "lock"]
<1>1. call[p] \in Calls /\ Shape(call[p]) /\ TeamsTypeOK /\ Shaped
      /\ call[p].step = "terminals" /\ call[p].alive
  BY DEF IInv, Shaped, TeamsTypeOK, At
<1>2. d \in Calls /\ call' = [call EXCEPT ![p] = d]
  BY <1>1, GoMoves DEF Steps
<1>3. Same(call[p], d) /\ d.step = "lock" /\ d.locks = call[p].locks
  <2>1. call[p] \in Calls  BY <1>1
  <2> QED  BY <2>1, SMT DEF Same, Calls
<1> HIDE DEF d
<1>4. Shape(d) /\ d.want = "dir" /\ call[p].doing = "team" /\ call[p].site = OrcaSite
  BY <1>1, <1>3, SMT DEF Shape, Same, CreateSteps, Relinks, AdoptSteps, SettingsSteps, Calls
<1>5. call' \in [Procs -> Calls] /\ Shaped' /\ Apart(p) /\ call'[p] = d
  BY <1>1, <1>2, <1>4, OneMoves
<1>6. Works(p, OrcaSite, {"terminals"})
  BY <1>1, <1>4 DEF Works, Site
<1> QED  BY <1>2, <1>3, <1>4, <1>5, <1>6

(* No agent, or a list that failed: Orca's worktree is as asked for then.  *)
LEMMA TerminalsKeeps == ASSUME IInv, NEW p \in Procs, Terminals(p) PROVE IInv'
<1>1. /\ At(p, "terminals") /\ TeamsTypeOK
      /\ UNCHANGED <<git, orca, asked, tree, config, team, late>>
      /\ spent' \in Tally /\ spent'.removed = spent.removed
  BY Frame DEF Terminals, IInv
<1>2. CASE Ends(p) /\ UNCHANGED odd
  <2>1. UNCHANGED <<World, Rest>>
    BY <1>1, <1>2 DEF World, Rest, tree, config, team
  <2> QED  BY <1>1, <1>2, <2>1, EndsKeeps
<1>3. CASE /\ Go(p, "lock")
           /\ \/ odd' = odd /\ odd \notin {"agent", "warned"}
              \/ odd' = IF odd = "agent" THEN "warned" ELSE odd
  <2>1. /\ Works(p, OrcaSite, {"terminals"})
        /\ call' \in [Procs -> Calls] /\ Shaped' /\ Apart(p)
    BY <1>1, <1>3, OnToLock
  <2>2. PICK d \in Calls : /\ call'[p] = d /\ call' = [call EXCEPT ![p] = d] /\ Shape(d)
                           /\ Same(call[p], d) /\ d.step = "lock" /\ d.want = "dir"
    BY <1>1, <1>3, OnToLock
  <2>3. "lock" \notin Linked \cup HoldSteps \cup SettingsSteps \cup {"swrite"}
        /\ "lock" \in Placed
    BY SMT DEF HoldSteps, AdoptSteps, SettingsSteps, Linked, Placed, SiteSteps
  <2>4. odd' \in {"no", "cut", "agent", "warned"}
        /\ (Uncut => AsAsked') /\ (AsAsked => AsAsked') /\ (Uncut => Uncut')
    BY <1>1, <1>3, SMT DEF TeamsTypeOK, Uncut, AsAsked
  <2>5. TeamsTypeOK'
    BY <1>1, <2>1, <2>4 DEF TeamsTypeOK, Tally, tree, config, team
  <2>6. EntersTeam(p) /\ EntersAdopt(p) /\ EntersSettings(p) /\ EntersWrite(p) /\ EntersRelink(p)
    BY <2>2, <2>3, SMT DEF EntersTeam, EntersAdopt, EntersSettings, EntersWrite, EntersRelink,
       Publishing, HoldsAdopt, HoldsSettings, HoldSteps
  <2>7. EntersGo(p)
    <3>1. Site(p) = OrcaSite /\ Site(p)' = OrcaSite
      BY <2>1, <2>2, Zenon DEF Works, Same, Site
    <3> QED  BY <3>1, TeamsAssumption DEF EntersGo, Works
  <2>8. Published' /\ Launched' /\ AdoptAlone' /\ SettingsAlone' /\ SawIt' /\ MainStays'
    BY <1>1, <2>1, <2>6, PublishedMoves, LaunchedMoves, AdoptMoves, SettingsMoves, SawMoves,
       MainMoves DEF IInv, tree, config, team
  <2>9. GoSound'
    BY <1>1, <2>1, <2>7, GoMovesOn DEF IInv, tree, team, GoLinked, GoSound
  <2>10. OrcaSound'
    <3>1. \A q \in Procs : q # p =>
            /\ Works(q, OrcaSite, {"terminals"})' <=> Works(q, OrcaSite, {"terminals"})
            /\ Works(q, OrcaSite, Linked)' <=> Works(q, OrcaSite, Linked)
      BY <2>1, Zenon DEF Apart, Works, Site
    <3>2. ~Works(p, OrcaSite, Linked)' /\ ~Works(p, OrcaSite, {"terminals"})'
      BY <2>2, <2>3, SMT DEF Works
    <3>3. ~spent.removed => Uncut
      BY <2>1, Zenon DEF IInv, OrcaSound
    <3>4. ~spent'.removed => AsAsked' /\ Uncut'
      BY <1>1, <2>4, <3>3
    <3>5. lets' = lets /\ leads' = leads
      BY <1>1 DEF tree, team
    <3> HIDE DEF Uncut, AsAsked
    <3> QED  BY <1>1, <3>1, <3>2, <3>4, <3>5, SMT DEF IInv, OrcaSound
  <2> QED  BY <2>1, <2>5, <2>8, <2>9, <2>10 DEF IInv
<1> QED  BY <1>2, <1>3 DEF Terminals, GoOr

LEMMA LockKeeps == ASSUME IInv, NEW p \in Procs, Lock(p) PROVE IInv'
<1>1. call[p].step = "lock" /\ UNCHANGED <<places, tree, config, team, late, spent>>
      /\ call[p].doing # "none"
  BY DEF Lock, Here, At
<1>2. CASE Ends(p)
  BY <1>1, <1>2, EndsKeeps, Frame DEF IInv
<1>3. CASE Go(p, "look") /\ \A q \in Procs : ~HoldsAdopt(q)
  <2> DEFINE d == [call[p] EXCEPT !.step = "look"]
  <2>1. call[p] \in Calls /\ Shape(call[p]) /\ TeamsTypeOK /\ Shaped
    BY DEF IInv, Shaped, TeamsTypeOK
  <2>2. d \in Calls /\ call' = [call EXCEPT ![p] = d]
    BY <1>3, <2>1, GoMoves DEF Steps, AdoptSteps
  <2>3. Same(call[p], d) /\ d.step = "look" /\ d.locks = call[p].locks
    BY <2>1, SMT DEF Same, Calls
  <2> HIDE DEF d
  <2>4. "look" \notin SettingsSteps \cup Linked /\ "lock" \in Placed
    BY SMT DEF SettingsSteps, Linked, Placed, SiteSteps
  <2>5. Shape(d)
    BY <1>1, <2>1, <2>3, SMT DEF Shape, Same, CreateSteps, Relinks, AdoptSteps, SettingsSteps
  <2> QED  BY <1>1, <1>3, <2>1, <2>2, <2>3, <2>4, <2>5, Onward, OnwardOnly
<1> QED  BY <1>2, <1>3 DEF Lock

-----------------------------------------------------------------------------
(* The links.                                                              *)
LEMMA GoFacts ==
  ASSUME IInv, NEW p \in Procs, NEW s \in Steps, Go(p, s)
  PROVE  \E d \in Calls : /\ call' = [call EXCEPT ![p] = d] /\ Same(call[p], d)
                          /\ d.step = s /\ d.locks = call[p].locks /\ d.tries = call[p].tries
                          /\ d.saw = call[p].saw
<1> DEFINE d == [call[p] EXCEPT !.step = s]
<1>1. call[p] \in Calls
  BY DEF IInv, TeamsTypeOK
<1>2. d \in Calls /\ call' = [call EXCEPT ![p] = d]
  BY GoMoves DEF IInv
<1>3. Same(call[p], d) /\ d.step = s /\ d.locks = call[p].locks /\ d.tries = call[p].tries
      /\ d.saw = call[p].saw
  BY <1>1, SMT DEF Same, Calls
<1> HIDE DEF d
<1> QED  BY <1>2, <1>3

LEMMA LookAgainFacts ==
  ASSUME IInv, NEW p \in Procs, LookAgain(p), call[p].step \in Relinks
  PROVE  \E d \in Calls : /\ call' = [call EXCEPT ![p] = d] /\ Same(call[p], d)
                          /\ d.step = "look" /\ d.locks = call[p].locks
<1> DEFINE b == [call[p] EXCEPT !.step = "look"]
           d == [call[p] EXCEPT !.step = "look", !.tries = call[p].tries + 1]
<1>1. call[p] \in Calls /\ call[p].tries + 1 \in 0..3
  BY SMT DEF IInv, TeamsTypeOK, Shaped, Shape, Calls
<1>2. d \in Calls
  <2>1. b \in Calls  BY <1>1, SetStep DEF Steps, AdoptSteps
  <2>2. d = [b EXCEPT !.tries = call[p].tries + 1]  OBVIOUS
  <2> HIDE DEF b, d
  <2> QED  BY <1>1, <2>1, <2>2, SetTries
<1>3. Same(call[p], d) /\ d.step = "look" /\ d.locks = call[p].locks
  BY <1>1, SMT DEF Same, Calls
<1>4. call' = [call EXCEPT ![p] = d]
  BY DEF LookAgain
<1> HIDE DEF d
<1> QED  BY <1>2, <1>3, <1>4

(* The steps of a link keep the call's shape.                              *)
LEMMA LinkShape ==
  ASSUME NEW c \in Calls, NEW d \in Calls, Shape(c), Same(c, d), d.locks = c.locks,
         c.step \in Relinks \cup {"look"}, d.step \in Relinks \cup {"look", "store"},
         d.step \in Relinks => d.tries < 3,
         d.step = "purge" => ~d.locks, d.step = "unlink" => d.site # GoSite
  PROVE  Shape(d) /\ c.step \in Placed /\ d.want = "dir"
         /\ d.step \notin SettingsSteps \cup {"swrite", "terminals"}
         /\ (d.locks => c.step \in HoldSteps)
<1>1. "purge" \notin AdoptSteps /\ Relinks \ {"purge"} \subseteq AdoptSteps
      /\ {"look", "store"} \subseteq AdoptSteps
      /\ SettingsSteps \cap (Relinks \cup {"look", "store"}) = {} /\ "swrite" \in SettingsSteps
      /\ (CreateSteps \cup {"launch", "slock", "init", "publish", "task", "record"})
            \cap (Relinks \cup {"look", "store"}) = {}
  BY SMT DEF AdoptSteps, Relinks, SettingsSteps, CreateSteps
<1>2. c.want = "dir"
  BY <1>1, SMT DEF Shape, Calls
<1>3. c.doing \in {"team", "adopt", "heal"} /\ (c.locks \/ (c.doing = "team" /\ c.site = GoSite))
  BY <1>1, SMT DEF Shape
<1>4. Shape(d)
  BY <1>1, <1>2, <1>3, SMT DEF Shape, Same
<1>5. d.locks => c.step \in HoldSteps
  BY <1>1, SMT DEF Shape, HoldSteps
<1>6. d.step # "terminals"
  BY <1>1, SMT DEF CreateSteps
<1> QED  BY <1>1, <1>2, <1>4, <1>5, <1>6, SMT DEF Same, Placed, SiteSteps

(* A worktree with nothing in it yet.                                      *)
LEMMA BareTyped ==
  ASSUME TeamsTypeOK, NEW w \in Sites, Bare(w)
  PROVE  /\ lets' \in [Sites -> LetsKinds] /\ aside' \in [Sites -> SUBSET (LetsKinds \ {"absent"})]
         /\ store' \in [Sites -> StoreKinds] /\ settings' \in [Sites -> SUBSET Entries]
         /\ exclude' = exclude
         /\ lets'[w] = "absent"
         /\ \A v \in Sites \ {w} : lets'[v] = lets[v] /\ aside'[v] = aside[v]
         /\ \A v \in Sites : settings'[v] \subseteq settings[v]
<1> USE DEF TeamsTypeOK
<1>1. lets' \in [Sites -> LetsKinds] /\ store' \in [Sites -> StoreKinds]
  BY SMT DEF Bare, LetsKinds, StoreKinds
<1>2. aside' \in [Sites -> SUBSET (LetsKinds \ {"absent"})]
  BY SMT DEF Bare
<1>3. settings' \in [Sites -> SUBSET Entries] /\ \A v \in Sites : settings'[v] \subseteq settings[v]
  BY SMT DEF Bare
<1>4. /\ lets'[w] = "absent"
      /\ \A v \in Sites \ {w} : lets'[v] = lets[v] /\ aside'[v] = aside[v]
  BY SMT DEF Bare
<1> QED  BY <1>1, <1>2, <1>3, <1>4 DEF Bare

(* create rolls back the worktree that is its own.                         *)
LEMMA GivesUpKeeps ==
  ASSUME IInv, NEW p \in Procs, GivesUp(p), call[p].step \in {"look", "link", "store"}, call[p].alive,
         UNCHANGED <<orca, asked, odd, team, late>>, spent' \in Tally,
         spent'.removed = spent.removed
  PROVE  IInv'
<1>1. CASE ~(call[p].doing = "team" /\ ~call[p].locks)
  <2>1. UNCHANGED <<World, Rest>> /\ Ends(p)
    BY <1>1 DEF GivesUp, tree, config, team, World, Rest
  <2> QED  BY <2>1, EndsKeeps
<1>2. CASE call[p].doing = "team" /\ ~call[p].locks
  <2>1. Ends(p) /\ git' = git \ {Site(p)} /\ Bare(Site(p))
    BY <1>2 DEF GivesUp
  <2>2. Site(p) = GoSite /\ Works(p, GoSite, Steps)
    BY <1>2, SMT DEF IInv, Shaped, Shape, Site, AdoptSteps, TeamsTypeOK, Calls, Works
  <2>3. call' \in [Procs -> Calls] /\ Shaped' /\ Apart(p) /\ call'[p] = Idle
    BY <2>1, EndsMoves DEF IInv
  <2>4. Enters(p)
    BY <2>3, EndsEnters DEF IInv
  <2>5. TeamsTypeOK'
    <3>1. GoSite \in Sites /\ git' \subseteq Sites
      BY <2>1, TeamsAssumption DEF IInv, TeamsTypeOK
    <3>2. /\ lets' \in [Sites -> LetsKinds] /\ aside' \in [Sites -> SUBSET (LetsKinds \ {"absent"})]
          /\ store' \in [Sites -> StoreKinds] /\ settings' \in [Sites -> SUBSET Entries]
          /\ exclude' = exclude
      BY <2>1, <2>2, <3>1, BareTyped DEF IInv
    <3> QED  BY <2>3, <3>1, <3>2 DEF IInv, TeamsTypeOK, team, Tally
  <2>6. Published' /\ Launched' /\ AdoptAlone' /\ SettingsAlone'
    BY <2>3, <2>4, PublishedMoves, LaunchedMoves, AdoptMoves, SettingsMoves DEF IInv, Enters, team
  <2>7. SawIt'
    <3>1. \A q \in Procs : Site(q) \in Sites  BY SMT DEF IInv, TeamsTypeOK, Calls, Site
    <3>2. settings' = [settings EXCEPT ![GoSite] = {}] /\ late' = late
      BY <2>1, <2>2 DEF Bare
    <3>3. \A q \in Procs : settings'[Site(q)] \subseteq settings[Site(q)]
      BY <3>1, <3>2, SMT DEF IInv, TeamsTypeOK
    <3> QED  BY <2>3, <3>2, <3>3, SMT DEF IInv, SawIt, Apart, Site, Idle
  <2>8. lets' = [lets EXCEPT ![GoSite] = "absent"] /\ lets \in [Sites -> LetsKinds]
    BY <2>1, <2>2 DEF Bare, IInv, TeamsTypeOK
  <2>9. MainStays'
    <3>1. \A w \in Sites \ {GoSite} : lets'[w] = "main" => lets[w] = "main"
      BY <2>8, SMT
    <3> QED  BY <2>3, <2>4, <3>1, MainMoves DEF IInv, Enters
  <2>10. OrcaSound'
    <3>1. OrcaSite \in git => OrcaSite \in git'
      BY <2>1, <2>2, TeamsAssumption
    <3>2. lets[OrcaSite] = "main" => lets'[OrcaSite] = "main"
      BY <2>8, TeamsAssumption, SMT
    <3> QED  BY <2>3, <2>4, <3>1, <3>2, OrcaMoves DEF IInv, Enters, team
  <2>11. GoSound'
    <3>1. leads'[GoSite] = 0 /\ lets'[GoSite] = "absent"
      BY <2>2, <2>8, TeamsAssumption, SMT DEF IInv, GoSound, team
    <3>2. \A q \in Procs : ~Works(q, GoSite, Steps)'
      BY <2>2, <2>3, SMT DEF IInv, GoSound, Apart, Works, Site, Idle
    <3> QED  BY <3>1, <3>2, SMT DEF GoSound
  <2> QED  BY <2>3, <2>5, <2>6, <2>7, <2>9, <2>10, <2>11 DEF IInv
<1> QED  BY <1>1, <1>2

LEMMA LookKeeps == ASSUME IInv, NEW p \in Procs, Look(p) PROVE IInv'
<1>1. /\ call[p].step = "look" /\ call[p].alive /\ call[p] \in Calls /\ Shape(call[p])
      /\ UNCHANGED <<orca, asked, odd, team, late, spent>> /\ Site(p) \in Sites
  BY SMT DEF Look, Here, At, IInv, TeamsTypeOK, Shaped, Calls, Site
<1>2. CASE GivesUp(p)
  BY <1>1, <1>2, GivesUpKeeps, Frame DEF IInv
<1>3. CASE /\ ~(call[p].tries = 3 \/ Kind(p) = "file" \/ (Kind(p) = "data" /\ call[p].locks))
           /\ UNCHANGED <<git, tree, config>>
  <2>1. UNCHANGED <<places, tree, config, team, late, spent>>
    BY <1>1, <1>3 DEF places
  <2>3. ASSUME NEW s \in Relinks \cup {"store"}, Go(p, s),
               s = "store" => Kind(p) = "main",
               s = "unlink" => Kind(p) = "elsewhere",
               s = "aside" => Kind(p) # "main",
               s = "purge" => ~call[p].locks
        PROVE  IInv'
    <3>1. PICK d \in Calls : /\ call' = [call EXCEPT ![p] = d] /\ Same(call[p], d)
                             /\ d.step = s /\ d.locks = call[p].locks /\ d.tries = call[p].tries
      <4>1. s \in Steps  BY SMT DEF Relinks, Steps, AdoptSteps
      <4> QED  BY <2>3, <4>1, GoFacts
    <3>2. s = "unlink" => Site(p) # GoSite
      BY <2>3, SMT DEF IInv, GoSound, Kind
    <3>3. d.tries < 3
      BY <1>1, <1>3, <3>1, SMT DEF Calls
    <3>4. /\ Shape(d) /\ call[p].step \in Placed /\ d.want = "dir"
          /\ d.step \notin SettingsSteps \cup {"swrite", "terminals"}
          /\ (d.locks => call[p].step \in HoldSteps)
      <4>1. d.site = Site(p)  BY <3>1 DEF Same, Site
      <4> QED  BY <1>1, <2>3, <3>1, <3>2, <3>3, <4>1, LinkShape
    <3>5. lets' = lets
      BY <1>3 DEF tree
    <3>6. {"unlink", "aside"} \cap Linked = {} /\ "store" \notin {"unlink", "aside"}
          /\ Relinks \cap Linked = {}
      BY SMT DEF Linked, Relinks
    <3>7. d.step \in {"unlink", "aside"} => lets'[Site(p)] # "main"
      BY <2>3, <3>1, <3>5 DEF Kind
    <3>8. d.step \in Linked => lets'[Site(p)] = "main"
      BY <2>3, <3>1, <3>5, <3>6 DEF Kind
    <3>9. call' \in [Procs -> Calls] /\ Shaped' /\ Apart(p) /\ Enters(p)
      BY <3>1, <3>4, <3>7, <3>8, Onward DEF IInv
    <3> QED  BY <2>1, <3>9, OnwardOnly
  <2>4. \/ Kind(p) = "main" /\ Go(p, "store")
        \/ Kind(p) = "elsewhere" /\ Go(p, "unlink")
        \/ Go(p, "link")
        \/ Kind(p) # "main" /\ Go(p, "aside")
        \/ ~call[p].locks /\ Go(p, "purge")
    BY <1>3, Zenon DEF Look
  <2> QED  BY <2>3, <2>4, SMT DEF Relinks
<1> QED  BY <1>2, <1>3 DEF Look

LEMMA LinkFailsKeeps == ASSUME IInv, NEW p \in Procs, LinkFails(p) PROVE IInv'
<1>1. call[p].step = "link" /\ call[p].alive
  BY DEF LinkFails, Here, At
<1>2. spent' \in Tally /\ spent'.removed = spent.removed
  BY Frame DEF LinkFails, IInv
<1> QED  BY <1>1, <1>2, GivesUpKeeps DEF LinkFails

LEMMA LinkGoes ==
  ASSUME IInv, NEW p \in Procs, call[p].step \in Relinks,
         \/ Go(p, "link") /\ call[p].step # "link"
         \/ Go(p, "store") /\ lets'[Site(p)] = "main"
         \/ LookAgain(p)
  PROVE  call' \in [Procs -> Calls] /\ Shaped' /\ Apart(p) /\ Enters(p)
         /\ call'[p].step \in {"link", "store", "look"}
<1>1. call[p] \in Calls /\ Shape(call[p])
  BY DEF IInv, TeamsTypeOK, Shaped
<1>2. {"link", "store", "look"} \subseteq Steps /\ {"link", "look"} \cap Linked = {}
  BY SMT DEF Steps, AdoptSteps, Linked, Relinks
<1>3. PICK d \in Calls : /\ call' = [call EXCEPT ![p] = d] /\ Same(call[p], d)
                         /\ d.step \in {"link", "store", "look"} /\ d.locks = call[p].locks
                         /\ d.step = "link" => d.tries < 3
                         /\ d.step = "store" => lets'[Site(p)] = "main"
  <2>1. CASE Go(p, "link")
    <3>1. call[p].tries < 3  BY <1>1, SMT DEF Shape
    <3> QED  BY <1>2, <2>1, <3>1, GoFacts
  <2>2. CASE Go(p, "store") /\ lets'[Site(p)] = "main"
    BY <1>2, <2>2, GoFacts
  <2>3. CASE LookAgain(p)
    BY <2>3, LookAgainFacts
  <2> QED  BY <2>1, <2>2, <2>3
<1>4. /\ Shape(d) /\ call[p].step \in Placed /\ d.want = "dir"
      /\ d.step \notin SettingsSteps \cup {"swrite", "terminals"}
      /\ (d.locks => call[p].step \in HoldSteps)
  <2>1. /\ d.step \in Relinks \cup {"look", "store"} /\ (d.step \in Relinks => d.step = "link")
        /\ d.step \notin {"purge", "unlink"} /\ call[p].step \in Relinks \cup {"look"}
    BY <1>3, SMT DEF Relinks
  <2>2. d.step \in Relinks => d.tries < 3  BY <1>3, <2>1
  <2>3. Same(call[p], d) /\ d.locks = call[p].locks  BY <1>3
  <2> QED  BY <1>1, <2>1, <2>2, <2>3, LinkShape
<1>5. d.step \notin {"unlink", "aside"} /\ (d.step \in Linked => lets'[Site(p)] = "main")
  BY <1>2, <1>3, SMT
<1>6. call' \in [Procs -> Calls] /\ Shaped' /\ Apart(p) /\ call'[p] = d /\ Enters(p)
  <2>1. call' = [call EXCEPT ![p] = d] /\ Same(call[p], d) /\ d.locks = call[p].locks  BY <1>3
  <2>2. TeamsTypeOK /\ Shaped  BY DEF IInv
  <2>3. d.step \notin SettingsSteps /\ d.step # "swrite" /\ d.step # "terminals"  BY <1>4
  <2> QED  BY <1>4, <1>5, <2>1, <2>2, <2>3, Onward
<1> QED  BY <1>3, <1>6

(* A link step touches .lets and its place aside, nothing else.            *)
LEMMA LinkKeeps ==
  ASSUME IInv, NEW p \in Procs, call' \in [Procs -> Calls], Shaped', Apart(p), Enters(p),
         UNCHANGED <<places, store, config, team, late, spent>>,
         lets' \in [Sites -> LetsKinds], aside' \in [Sites -> SUBSET (LetsKinds \ {"absent"})],
         lets[OrcaSite] = "main" => lets'[OrcaSite] = "main", MainStays', GoSound'
  PROVE  IInv'
<1>1. TeamsTypeOK'
  BY DEF IInv, TeamsTypeOK, places, config, team
<1>2. Published' /\ Launched' /\ AdoptAlone' /\ SettingsAlone' /\ SawIt'
  BY PublishedMoves, LaunchedMoves, AdoptMoves, SettingsMoves, SawMoves
     DEF IInv, Enters, team, config
<1>3. OrcaSound'
  BY OrcaMoves DEF IInv, Enters, places, team
<1> QED  BY <1>1, <1>2, <1>3 DEF IInv

LEMMA UnlinkKeeps == ASSUME IInv, NEW p \in Procs, Unlink(p) PROVE IInv'
<1>1. /\ call[p].step = "unlink" /\ call[p].alive /\ call[p] \in Calls /\ Site(p) \in Sites
      /\ Site(p) # GoSite /\ lets[Site(p)] # "main" /\ lets \in [Sites -> LetsKinds]
  BY SMT DEF Unlink, Here, At, IInv, TeamsTypeOK, Shaped, Shape, Calls, Site, MainStays
<1>2. call' \in [Procs -> Calls] /\ Shaped' /\ Apart(p) /\ Enters(p)
  BY <1>1, LinkGoes DEF Unlink, Relinks
<1>3. /\ lets' \in [Sites -> LetsKinds] /\ aside' = aside
      /\ \A w \in Sites : w # Site(p) => lets'[w] = lets[w]
      /\ lets'[Site(p)] # "main"
  BY <1>1, SMT DEF Unlink, LetsKinds
<1>4. MainStays'
  <2>1. \A w \in Sites \ {GoSite} : lets'[w] = "main" => lets[w] = "main"
    BY <1>1, <1>3, SMT
  <2> QED  BY <1>2, <2>1, MainMoves DEF IInv, Enters
<1>5. GoSound'
  BY <1>1, <1>2, <1>3, GoMovesOn, TeamsAssumption
     DEF IInv, Enters, Unlink, places, team, GoLinked, GoSound
<1>6. lets[OrcaSite] = "main" => lets'[OrcaSite] = "main"
  BY <1>1, <1>3, TeamsAssumption
<1>7. aside' \in [Sites -> SUBSET (LetsKinds \ {"absent"})]
  BY <1>3 DEF IInv, TeamsTypeOK
<1> QED  BY <1>2, <1>3, <1>4, <1>5, <1>6, <1>7, LinkKeeps DEF Unlink

LEMMA PurgeKeeps == ASSUME IInv, NEW p \in Procs, Purge(p) PROVE IInv'
<1>1. /\ call[p].step = "purge" /\ call[p] \in Calls /\ Site(p) = GoSite
      /\ Works(p, GoSite, Steps) /\ lets \in [Sites -> LetsKinds] /\ GoSite \in Sites
  BY TeamsAssumption, SMT DEF Purge, Here, At, IInv, TeamsTypeOK, Shaped, Shape, Calls, Site, Works
<1>2. /\ call' \in [Procs -> Calls] /\ Shaped' /\ Apart(p) /\ Enters(p)
      /\ call'[p].step = "link"
  <2>1. call'[p].step = "link"  BY <1>1, SMT DEF Purge, Go, IInv, TeamsTypeOK, Calls
  <2> QED  BY <1>1, <2>1, LinkGoes DEF Purge, Relinks
<1>3. /\ lets' \in [Sites -> LetsKinds] /\ aside' = aside
      /\ \A w \in Sites : w # GoSite => lets'[w] = lets[w]
      /\ lets'[GoSite] = "absent"
  BY <1>1, SMT DEF Purge, LetsKinds
<1>4. MainStays'
  BY <1>2, <1>3, MainMoves DEF IInv, Enters
<1>5. GoSound'
  <2>1. leads'[GoSite] = 0 /\ GoSite \in git'
    BY <1>1, SMT DEF IInv, GoSound, Purge, places, team
  <2>2. \A q \in Procs : Works(q, GoSite, Steps)' => q = p
    BY <1>1, <1>2, SMT DEF IInv, GoSound, Apart, Works, Site
  <2>3. "link" \notin Linked  BY DEF Linked, Relinks
  <2>4. lets'[GoSite] \notin {"elsewhere", "file"} /\ call'[p].step \notin Linked
    BY <1>2, <1>3, <2>3, SMT
  <2> QED  BY <2>1, <2>2, <2>4, SMT DEF GoSound
<1>6. lets[OrcaSite] = "main" => lets'[OrcaSite] = "main"
  BY <1>1, <1>3, TeamsAssumption
<1>7. aside' \in [Sites -> SUBSET (LetsKinds \ {"absent"})]
  BY <1>3 DEF IInv, TeamsTypeOK
<1> QED  BY <1>2, <1>3, <1>4, <1>5, <1>6, <1>7, LinkKeeps DEF Purge

LEMMA AsideKeeps == ASSUME IInv, NEW p \in Procs, Aside(p) PROVE IInv'
<1>1. /\ call[p].step = "aside" /\ call[p].alive /\ call[p] \in Calls /\ Site(p) \in Sites
      /\ Site(p) # GoSite => lets[Site(p)] # "main"
      /\ lets \in [Sites -> LetsKinds] /\ aside \in [Sites -> SUBSET (LetsKinds \ {"absent"})]
  BY SMT DEF Aside, Here, At, IInv, TeamsTypeOK, Calls, Site, MainStays
<1>2. call' \in [Procs -> Calls] /\ Shaped' /\ Apart(p) /\ Enters(p)
  <2>1. Go(p, "link") \/ LookAgain(p)  BY DEF Aside
  <2> QED  BY <1>1, <2>1, LinkGoes DEF Relinks
<1>3. /\ lets' \in [Sites -> LetsKinds]
      /\ \A w \in Sites : w # Site(p) => lets'[w] = lets[w] /\ aside'[w] = aside[w]
      /\ lets'[Site(p)] = "absent"
      /\ aside'[Site(p)] = aside[Site(p)] \cup ({lets[Site(p)]} \ {"absent"})
  BY <1>1, SMT DEF Aside, LetsKinds, Kind
<1>4. MainStays'
  <2>1. \A w \in Sites \ {GoSite} : lets'[w] = "main" => lets[w] = "main"
    BY <1>1, <1>3, SMT
  <2> QED  BY <1>2, <2>1, MainMoves DEF IInv, Enters
<1>5. GoSound'
  <2>1. GoLinked => GoLinked'
    BY <1>3, TeamsAssumption, SMT DEF GoLinked
  <2>2. lets'[GoSite] \notin {"elsewhere", "file"}
    BY <1>3, TeamsAssumption, SMT DEF IInv, GoSound
  <2> QED  BY <1>2, <2>1, <2>2, GoMovesOn DEF IInv, Enters, Aside, places, team
<1>6. lets[OrcaSite] = "main" => lets'[OrcaSite] = "main"
  BY <1>1, <1>3, TeamsAssumption
<1>7. aside' \in [Sites -> SUBSET (LetsKinds \ {"absent"})]
  <2>1. lets[Site(p)] \in LetsKinds  BY <1>1
  <2> QED  BY <1>1, <2>1, SMT DEF Aside, Kind
<1> QED  BY <1>2, <1>3, <1>4, <1>5, <1>6, <1>7, LinkKeeps DEF Aside

LEMMA LinkStepKeeps == ASSUME IInv, NEW p \in Procs, Link(p) PROVE IInv'
<1>1. /\ call[p].step = "link" /\ call[p].alive /\ call[p] \in Calls /\ Site(p) \in Sites
      /\ lets \in [Sites -> LetsKinds]
  BY SMT DEF Link, Here, At, IInv, TeamsTypeOK, Calls, Site
<1>2. CASE lets' = lets /\ LookAgain(p)
  <2>1. call' \in [Procs -> Calls] /\ Shaped' /\ Apart(p) /\ Enters(p)
    BY <1>1, <1>2, LinkGoes DEF Relinks
  <2>2. UNCHANGED <<places, tree, config, team, late, spent>>
    BY <1>2 DEF Link, tree
  <2> QED  BY <2>1, <2>2, OnwardOnly
<1>3. CASE /\ Go(p, "store") /\ lets[Site(p)] = "absent"
           /\ lets' = [lets EXCEPT ![Site(p)] = "main"]
  <2>1. /\ lets' \in [Sites -> LetsKinds] /\ aside' = aside /\ lets'[Site(p)] = "main"
        /\ \A w \in Sites : w # Site(p) => lets'[w] = lets[w]
    BY <1>1, <1>3, SMT DEF Link, LetsKinds
  <2>2. /\ call' \in [Procs -> Calls] /\ Shaped' /\ Apart(p) /\ Enters(p)
        /\ call'[p].step = "store"
    <3>1. call'[p].step = "store"  BY <1>3, SMT DEF Go, IInv, TeamsTypeOK, Calls
    <3> QED  BY <1>1, <1>3, <2>1, <3>1, LinkGoes DEF Relinks
  <2>3. MainStays'
    <3>1. SUFFICES ASSUME NEW q \in Procs, call'[q].alive, call'[q].step \in {"unlink", "aside"},
                          Site(q)' # GoSite
                   PROVE  lets'[Site(q)'] # "main"
      BY DEF MainStays
    <3>2. q # p /\ call'[q] = call[q] /\ Site(q)' = Site(q) /\ Site(q) \in Sites
      BY <2>2, <3>1, SMT DEF Apart, IInv, TeamsTypeOK, Calls, Site
    <3>3. lets[Site(q)] # "main"
      BY <3>1, <3>2 DEF IInv, MainStays
    <3>4. Site(q) # Site(p)
      <4>1. SUFFICES ASSUME Site(q) = Site(p)  PROVE FALSE
        OBVIOUS
      <4>2. \A r \in {p, q} : /\ call[r] \in Calls /\ Shape(call[r]) /\ call[r].site # GoSite
                              /\ call[r].alive /\ call[r].step \in {"unlink", "aside", "link"}
        BY <1>1, <3>1, <3>2, <4>1 DEF IInv, Shaped, TeamsTypeOK, Site
      <4>3. \A r \in {p, q} : HoldsAdopt(r)
        BY <4>2, SMT DEF HoldsAdopt, Shape, AdoptSteps, SettingsSteps, Calls
      <4> QED  BY <3>2, <4>3 DEF IInv, AdoptAlone
    <3> QED  BY <2>1, <3>2, <3>3, <3>4
  <2>4. GoSound'
    <3>1. GoLinked => GoLinked'
      BY <2>1, TeamsAssumption, SMT DEF GoLinked
    <3>2. lets'[GoSite] \notin {"elsewhere", "file"}
      BY <2>1, TeamsAssumption, SMT DEF IInv, GoSound
    <3> QED  BY <2>2, <3>1, <3>2, GoMovesOn DEF IInv, Enters, Link, places, team
  <2>5. lets[OrcaSite] = "main" => lets'[OrcaSite] = "main"
    BY <2>1, TeamsAssumption
  <2>6. aside' \in [Sites -> SUBSET (LetsKinds \ {"absent"})]
    BY <2>1 DEF IInv, TeamsTypeOK
  <2> QED  BY <2>1, <2>2, <2>3, <2>4, <2>5, <2>6, LinkKeeps DEF Link
<1> QED  BY <1>2, <1>3 DEF Link, Kind

(* After the link: the store, the excludes and the settings.               *)
ExcludeSteps == {"store", "exread", "exwrite"}
LaterSteps == ExcludeSteps \cup {"slock"} \cup SettingsSteps
LEMMA LaterGoes ==
  ASSUME IInv, NEW p \in Procs, NEW d \in Calls, call' = [call EXCEPT ![p] = d],
         Same(call[p], d), d.locks = call[p].locks,
         call[p].step \in LaterSteps, d.step \in LaterSteps,
         d.step \in ExcludeSteps => call[p].step \in ExcludeSteps,
         d.step \in SettingsSteps =>
           call[p].step \in SettingsSteps \/ \A q \in Procs : ~HoldsSettings(q, Site(p)),
         d.step = "swrite" => settings'[Site(p)] \subseteq d.saw
  PROVE  call' \in [Procs -> Calls] /\ Shaped' /\ Apart(p) /\ call'[p] = d /\ Enters(p)
<1>1. call[p] \in Calls /\ Shape(call[p]) /\ TeamsTypeOK /\ Shaped
  BY DEF IInv, TeamsTypeOK, Shaped
<1>2. /\ ExcludeSteps \subseteq AdoptSteps
      /\ ({"slock"} \cup SettingsSteps) \cap (AdoptSteps \cup {"lock", "purge"}) = {}
      /\ LaterSteps \subseteq Linked
      /\ LaterSteps \cap (Relinks \cup CreateSteps
                             \cup {"launch", "purge", "unlink", "aside", "task", "record",
                                   "init", "publish", "terminals"}) = {}
  BY SMT DEF ExcludeSteps, LaterSteps, AdoptSteps, SettingsSteps, Linked, Placed, SiteSteps,
     Relinks, CreateSteps
<1>3. LaterSteps = ExcludeSteps \cup {"slock"} \cup SettingsSteps /\ Linked \subseteq Placed
  BY DEF LaterSteps, Linked
<1> HIDE DEF LaterSteps, ExcludeSteps
<1>4. call[p].want = "rules" => d.step \in {"slock"} \cup SettingsSteps
  BY <1>1, <1>2, <1>3, SMT DEF Shape
<1>5. call[p].step \in ExcludeSteps => call[p].doing \in {"team", "adopt", "heal"}
        /\ (call[p].locks \/ (call[p].doing = "team" /\ call[p].site = GoSite))
  BY <1>1, <1>2, SMT DEF Shape
<1>6. call[p].want = "dir" => call[p].doing \in {"team", "adopt", "heal"}
  BY <1>1, <1>3, <1>5, SMT DEF Shape
<1>7. /\ call[p].want \in {"dir", "rules"}
      /\ call[p].want = "rules" => call[p].doing \in {"team", "init"}
  BY <1>1, SMT DEF Calls, Shape
<1>8. Shape(d)
  BY <1>2, <1>3, <1>4, <1>5, <1>6, <1>7, SMT DEF Shape, Same
<1>9. call[p].step \in HoldSteps
  BY <1>2, <1>3, SMT DEF HoldSteps
<1>10. d.step \notin {"unlink", "aside", "terminals"} /\ call[p].step \in Linked /\ call[p].step \in Placed
  BY <1>2, <1>3
<1> QED  BY <1>1, <1>8, <1>9, <1>10, Onward

LEMMA LaterGo ==
  ASSUME IInv, NEW p \in Procs, NEW s \in LaterSteps, Go(p, s), call[p].step \in LaterSteps,
         s \in ExcludeSteps => call[p].step \in ExcludeSteps,
         s \in SettingsSteps =>
           call[p].step \in SettingsSteps \/ \A q \in Procs : ~HoldsSettings(q, Site(p)),
         s = "swrite" => settings'[Site(p)] \subseteq call[p].saw
  PROVE  call' \in [Procs -> Calls] /\ Shaped' /\ Apart(p) /\ Enters(p)
<1>1. s \in Steps
  BY SMT DEF LaterSteps, ExcludeSteps, Steps, AdoptSteps
<1>2. PICK d \in Calls :
        /\ call' = [call EXCEPT ![p] = d] /\ Same(call[p], d)
        /\ d.step = s /\ d.locks = call[p].locks /\ d.saw = call[p].saw
  BY <1>1, GoFacts
<1> HIDE DEF LaterSteps, ExcludeSteps
<1>3. Same(call[p], d) /\ d.step = s /\ d.locks = call[p].locks /\ d.saw = call[p].saw
  BY <1>2
<1>4. call' \in [Procs -> Calls] /\ Shaped' /\ Apart(p) /\ call'[p] = d /\ Enters(p)
  BY <1>2, <1>3, LaterGoes
<1> QED  BY <1>4

LEMMA StoreKeeps == ASSUME IInv, NEW p \in Procs, Store(p) PROVE IInv'
<1>1. /\ call[p].step = "store" /\ call[p].alive
      /\ spent' \in Tally /\ spent'.removed = spent.removed
      /\ UNCHANGED <<orca, asked, odd, team, late>>
  BY Frame DEF Store, Here, At, IInv
<1>2. CASE GivesUp(p)
  BY <1>1, <1>2, GivesUpKeeps
<1>3. CASE /\ Go(p, "exread") /\ store' = [store EXCEPT ![Site(p)] = "main"]
           /\ UNCHANGED <<git, lets, aside, config>>
  <2>1. UNCHANGED World /\ UNCHANGED <<exclude, task, unread>>
    BY <1>1, <1>3 DEF World, config, team
  <2>2. call' \in [Procs -> Calls] /\ Shaped' /\ Apart(p) /\ Enters(p)
    BY <1>1, <1>3, LaterGo, SMT DEF LaterSteps, ExcludeSteps, SettingsSteps
  <2>3. store' \in [Sites -> StoreKinds]
    <3>1. store \in [Sites -> StoreKinds]  BY DEF IInv, TeamsTypeOK
    <3>2. "main" \in StoreKinds  BY DEF StoreKinds
    <3> QED  BY <1>3, <3>1, <3>2
  <2>4. Moved(p)
    BY <1>1, <2>1, <2>2, <2>3 DEF Moved, IInv, TeamsTypeOK, World, Tally
  <2> QED  BY <1>1, <2>1, <2>2, <2>4, CallsOnly
<1> QED  BY <1>2, <1>3 DEF Store

LEMMA ExMoves ==
  ASSUME IInv, NEW p \in Procs, NEW e \in SUBSET Lines, NEW s \in LaterSteps,
         call' = [call EXCEPT ![p] = [call[p] EXCEPT !.ex = e, !.step = s]],
         call[p].step \in LaterSteps, s # "swrite",
         s \in ExcludeSteps => call[p].step \in ExcludeSteps,
         s \in SettingsSteps => call[p].step \in SettingsSteps
  PROVE  call' \in [Procs -> Calls] /\ Shaped' /\ Apart(p) /\ Enters(p)
<1> DEFINE b == [call[p] EXCEPT !.ex = e]
           d == [call[p] EXCEPT !.ex = e, !.step = s]
<1>1. call[p] \in Calls
  BY DEF IInv, TeamsTypeOK
<1>2. s \in Steps
  BY SMT DEF LaterSteps, ExcludeSteps, Steps, AdoptSteps
<1>3. d \in Calls
  <2>1. b \in Calls  BY <1>1, SetEx
  <2>2. d = [b EXCEPT !.step = s]  OBVIOUS
  <2> HIDE DEF b, d
  <2> QED  BY <1>2, <2>1, <2>2, SetStep
<1>4. Same(call[p], d) /\ d.step = s /\ d.locks = call[p].locks
  BY <1>1, SMT DEF Same, Calls
<1>5. call' = [call EXCEPT ![p] = d]
  OBVIOUS
<1> HIDE DEF d, LaterSteps, ExcludeSteps
<1>6. call' \in [Procs -> Calls] /\ Shaped' /\ Apart(p) /\ call'[p] = d /\ Enters(p)
  BY <1>3, <1>4, <1>5, LaterGoes
<1> QED  BY <1>6

(* Of an exclude step and the one after it.                                *)
ExPair(c, s) ==
  \/ c.step \in {"exread", "exwrite"} /\ s \in {"exwrite", "slock"}
  \/ c.step \in {"sexread", "sexwrite"} /\ s \in {"sexwrite", "scheck"}
LEMMA ExPairs ==
  ASSUME NEW c, NEW s, ExPair(c, s)
  PROVE  /\ c.step \in LaterSteps /\ s \in LaterSteps /\ s # "swrite"
         /\ s \in ExcludeSteps => c.step \in ExcludeSteps
         /\ s \in SettingsSteps => c.step \in SettingsSteps
  BY SMT DEF ExPair, LaterSteps, ExcludeSteps, SettingsSteps

LEMMA ExReadKeeps == ASSUME IInv, NEW p \in Procs, ExRead(p) PROVE IInv'
<1>1. UNCHANGED <<places, tree, config, team, late, spent>>
  BY DEF ExRead
<1>2. PICK e \in SUBSET Lines : \E s \in Steps :
        /\ call' = [call EXCEPT ![p] = [call[p] EXCEPT !.ex = e, !.step = s]]
        /\ ExPair(call[p], s)
  <2>1. {} \in SUBSET Lines /\ exclude \in SUBSET Lines
    BY DEF IInv, TeamsTypeOK
  <2>2. {"slock", "exwrite", "scheck", "sexwrite"} \subseteq Steps
    BY SMT DEF Steps, AdoptSteps, SettingsSteps
  <2>3. CASE Here(p, "exread") /\ ReadsExclude(p, ".lets", "exwrite", "slock")
    <3> DEFINE e == IF ".lets" \in exclude THEN {} ELSE exclude
               s == IF ".lets" \in exclude THEN "slock" ELSE "exwrite"
    <3>1. call' = [call EXCEPT ![p] = [call[p] EXCEPT !.ex = e, !.step = s]]
      BY <2>3 DEF ReadsExclude
    <3>2. e \in SUBSET Lines /\ s \in Steps  BY <2>1, <2>2
    <3>3. ExPair(call[p], s)  BY <2>3 DEF Here, At, ExPair
    <3> HIDE DEF e, s
    <3> QED  BY <3>1, <3>2, <3>3
  <2>4. CASE Here(p, "sexread") /\ ReadsExclude(p, "settings", "sexwrite", "scheck")
    <3> DEFINE e == IF "settings" \in exclude THEN {} ELSE exclude
               s == IF "settings" \in exclude THEN "scheck" ELSE "sexwrite"
    <3>1. call' = [call EXCEPT ![p] = [call[p] EXCEPT !.ex = e, !.step = s]]
      BY <2>4 DEF ReadsExclude
    <3>2. e \in SUBSET Lines /\ s \in Steps  BY <2>1, <2>2
    <3>3. ExPair(call[p], s)  BY <2>4 DEF Here, At, ExPair
    <3> HIDE DEF e, s
    <3> QED  BY <3>1, <3>2, <3>3
  <2> QED  BY <2>3, <2>4 DEF ExRead
<1>3. PICK s \in Steps :
        /\ call' = [call EXCEPT ![p] = [call[p] EXCEPT !.ex = e, !.step = s]]
        /\ ExPair(call[p], s)
  BY <1>2
<1>4. call' \in [Procs -> Calls] /\ Shaped' /\ Apart(p) /\ Enters(p)
  BY <1>3, ExPairs, ExMoves
<1> QED  BY <1>1, <1>4, OnwardOnly

LEMMA ExWriteKeeps == ASSUME IInv, NEW p \in Procs, ExWrite(p) PROVE IInv'
<1>1. PICK s \in Steps :
        /\ call' = [call EXCEPT ![p] = [call[p] EXCEPT !.ex = {}, !.step = s]]
        /\ ExPair(call[p], s)
  <2>1. "slock" \in Steps /\ "scheck" \in Steps
    BY SMT DEF Steps, SettingsSteps
  <2> QED  BY <2>1, Zenon DEF ExWrite, WritesExclude, Here, At, ExPair
<1>2. {} \in SUBSET Lines
  OBVIOUS
<1>3. call' \in [Procs -> Calls] /\ Shaped' /\ Apart(p) /\ Enters(p)
  BY <1>1, <1>2, ExPairs, ExMoves
<1>4. exclude' \subseteq Lines
  <2>1. call[p].ex \subseteq Lines  BY SMT DEF IInv, TeamsTypeOK, Calls
  <2> QED  BY <2>1, SMT DEF ExWrite, WritesExclude, Lines
<1>5. UNCHANGED World /\ UNCHANGED <<orca, asked, store, task, unread, spent>>
  BY DEF ExWrite, World, places, tree, team
<1>6. Moved(p) /\ spent'.removed = spent.removed
  BY <1>3, <1>4, <1>5 DEF Moved, IInv, TeamsTypeOK, World
<1> QED  BY <1>3, <1>5, <1>6, CallsOnly

LEMMA SLockKeeps == ASSUME IInv, NEW p \in Procs, SLock(p) PROVE IInv'
<1>1. call[p].step = "slock" /\ UNCHANGED <<places, tree, config, team, late, spent>>
  BY DEF SLock, Here, At
<1>2. CASE AfterMerge(p)
  BY <1>1, <1>2, AfterMoves, OnwardOnly
<1>3. CASE Go(p, "sread") /\ \A q \in Procs : ~HoldsSettings(q, Site(p))
  <2>1. "sread" \in LaterSteps /\ "slock" \in LaterSteps /\ "sread" \notin ExcludeSteps
    BY SMT DEF LaterSteps, ExcludeSteps, SettingsSteps
  <2> QED  BY <1>1, <1>3, <2>1, LaterGo, OnwardOnly
<1> QED  BY <1>2, <1>3 DEF SLock

LEMMA SReadKeeps == ASSUME IInv, NEW p \in Procs, SRead(p) PROVE IInv'
<1>1. call[p].step = "sread" /\ UNCHANGED <<places, tree, config, team, late, spent>>
      /\ Site(p) \in Sites /\ call[p] \in Calls
  BY SMT DEF SRead, Here, At, IInv, TeamsTypeOK, Calls, Site
<1>2. CASE AfterMerge(p)
  BY <1>1, <1>2, AfterMoves, OnwardOnly DEF SettingsSteps
<1>3. ASSUME NEW s \in {"reread", "sexread"},
             call' = [call EXCEPT ![p] = [call[p] EXCEPT !.saw = settings[Site(p)], !.step = s]]
      PROVE  IInv'
  <2> DEFINE b == [call[p] EXCEPT !.saw = settings[Site(p)]]
             d == [call[p] EXCEPT !.saw = settings[Site(p)], !.step = s]
  <2>1. d \in Calls
    <3>1. settings[Site(p)] \in SUBSET Entries  BY <1>1 DEF IInv, TeamsTypeOK
    <3>2. b \in Calls  BY <1>1, <3>1, SetSaw
    <3>3. d = [b EXCEPT !.step = s]  OBVIOUS
    <3>4. s \in Steps  BY SMT DEF Steps, SettingsSteps
    <3> HIDE DEF b, d
    <3> QED  BY <3>2, <3>3, <3>4, SetStep
  <2>2. Same(call[p], d) /\ d.step = s /\ d.locks = call[p].locks
    BY <1>1, SMT DEF Same, Calls
  <2>3. call' = [call EXCEPT ![p] = d]
    BY <1>3
  <2> HIDE DEF d
  <2>4. /\ s \in LaterSteps /\ "sread" \in LaterSteps /\ s \notin ExcludeSteps /\ s # "swrite"
        /\ "sread" \in SettingsSteps
    BY SMT DEF LaterSteps, ExcludeSteps, SettingsSteps
  <2>5. call' \in [Procs -> Calls] /\ Shaped' /\ Apart(p) /\ Enters(p)
    BY <1>1, <2>1, <2>2, <2>3, <2>4, LaterGoes
  <2> QED  BY <1>1, <2>5, OnwardOnly
<1>4. \/ AfterMerge(p)
      \/ \E s \in {"reread", "sexread"} :
           call' = [call EXCEPT ![p] = [call[p] EXCEPT !.saw = settings[Site(p)], !.step = s]]
  BY Zenon DEF SRead
<1> QED  BY <1>2, <1>3, <1>4

LEMMA SCheckKeeps == ASSUME IInv, NEW p \in Procs, SCheck(p) PROVE IInv'
<1>1. call[p].step = "scheck" /\ UNCHANGED <<places, tree, config, team, late, spent>>
  BY DEF SCheck, Here, At
<1>2. CASE AfterMerge(p)
  BY <1>1, <1>2, AfterMoves, OnwardOnly DEF SettingsSteps
<1>3. CASE Go(p, "reread")
  <2>1. /\ "reread" \in LaterSteps /\ "scheck" \in LaterSteps /\ "reread" \notin ExcludeSteps
        /\ "scheck" \in SettingsSteps
    BY SMT DEF LaterSteps, ExcludeSteps, SettingsSteps
  <2> QED  BY <1>1, <1>3, <2>1, LaterGo, OnwardOnly
<1> QED  BY <1>2, <1>3 DEF SCheck

(* The write comes only over what was read.                                *)
LEMMA RereadKeeps == ASSUME IInv, NEW p \in Procs, Reread(p) PROVE IInv'
<1>1. call[p].step = "reread" /\ UNCHANGED <<places, tree, config, team, late, spent>>
  BY DEF Reread, Here, At
<1>2. CASE AfterMerge(p)
  BY <1>1, <1>2, AfterMoves, OnwardOnly DEF SettingsSteps
<1>3. CASE Go(p, "swrite") /\ settings[Site(p)] = call[p].saw
  <2>1. /\ "swrite" \in LaterSteps /\ "reread" \in LaterSteps /\ "swrite" \notin ExcludeSteps
        /\ "reread" \in SettingsSteps
    BY SMT DEF LaterSteps, ExcludeSteps, SettingsSteps
  <2>2. settings'[Site(p)] \subseteq call[p].saw
    BY <1>1, <1>3 DEF config
  <2> QED  BY <1>1, <1>3, <2>1, <2>2, LaterGo, OnwardOnly
<1> QED  BY <1>2, <1>3 DEF Reread

(* The write: alone with the settings lock, over what was read.            *)
LEMMA SWriteKeeps == ASSUME IInv, NEW p \in Procs, SWrite(p) PROVE IInv'
<1>1. /\ call[p].step = "swrite" /\ call[p].alive /\ call[p] \in Calls /\ Site(p) \in Sites
      /\ UNCHANGED <<places, tree, exclude, team, spent>>
  BY SMT DEF SWrite, Here, At, IInv, TeamsTypeOK, Calls, Site
<1>2. call' \in [Procs -> Calls] /\ Shaped' /\ Apart(p) /\ Enters(p)
      /\ call'[p].step \notin SettingsSteps
  BY <1>1, AfterMoves DEF SWrite, SettingsSteps
<1>3. /\ settings' = [settings EXCEPT ![Site(p)] = call[p].saw \cup {call[p].want}]
      /\ late' = late \ {Site(p)}
      /\ settings \in [Sites -> SUBSET Entries] /\ late \subseteq Sites
  BY DEF SWrite, IInv, TeamsTypeOK
<1>4. TeamsTypeOK'
  <2>1. call[p].saw \cup {call[p].want} \in SUBSET Entries
    BY <1>1, SMT DEF Calls, Entries
  <2>2. settings' \in [Sites -> SUBSET Entries] /\ late' \subseteq Sites
    BY <1>3, <2>1
  <2> QED  BY <1>1, <1>2, <2>2 DEF IInv, TeamsTypeOK, places, tree, team
<1>5. SawIt'
  <2>1. SUFFICES ASSUME NEW q \in Procs, call'[q].alive, call'[q].step = "swrite"
                 PROVE  settings'[Site(q)'] \subseteq
                          call'[q].saw \cup (IF Site(q)' \in late' THEN {"own"} ELSE {})
    BY DEF SawIt
  <2>2. q # p /\ call'[q] = call[q] /\ Site(q)' = Site(q) /\ Site(q) \in Sites
    BY <1>2, <2>1, SMT DEF Apart, SettingsSteps, Site, IInv, TeamsTypeOK, Calls
  <2>3. HoldsSettings(q, Site(q)) /\ HoldsSettings(p, Site(p))
    BY <1>1, <2>1, <2>2 DEF HoldsSettings, SettingsSteps, Site
  <2>4. Site(q) # Site(p)
    BY <1>1, <2>2, <2>3 DEF IInv, SettingsAlone
  <2>5. settings'[Site(q)] = settings[Site(q)] /\ (Site(q) \in late' <=> Site(q) \in late)
    BY <1>3, <2>2, <2>4
  <2> QED  BY <2>1, <2>2, <2>5 DEF IInv, SawIt
<1>6. Published' /\ Launched' /\ AdoptAlone' /\ SettingsAlone'
  BY <1>1, <1>2, PublishedMoves, LaunchedMoves, AdoptMoves, SettingsMoves DEF IInv, Enters, team
<1>7. MainStays' /\ OrcaSound'
  BY <1>1, <1>2, MainMoves, OrcaMoves DEF IInv, Enters, places, tree, team
<1>8. GoSound'
  BY <1>1, <1>2, GoMovesOn DEF IInv, Enters, places, tree, team, GoLinked, GoSound
<1> QED  BY <1>2, <1>4, <1>5, <1>6, <1>7, <1>8 DEF IInv

-----------------------------------------------------------------------------
(* The task, the team file, the lead.                                      *)
LEMMA TaskTyped ==
  ASSUME IInv, NEW p \in Procs, Task(p)
  PROVE  task' \in [Sites -> {"none", "guess"}]
<1>1. task \in [Sites -> {"none", "guess"}] /\ Site(p) \in Sites
  BY SMT DEF IInv, TeamsTypeOK, Calls, Site
<1>2. task' = [task EXCEPT ![Site(p)] = "guess"] \/ task' = task
  BY <1>1, Zenon DEF Task
<1> QED  BY <1>1, <1>2

(* The look keeps the call's lock.                                         *)
LEMMA TaskLookKeeps == ASSUME IInv, NEW p \in Procs, TaskLook(p) PROVE IInv'
<1>1. /\ call[p].step = "task" /\ call[p] \in Calls /\ Shape(call[p]) /\ TeamsTypeOK /\ Shaped
      /\ UNCHANGED World /\ UNCHANGED <<orca, asked, store, exclude, task, spent>>
      /\ unread' \subseteq Sites
  BY DEF TaskLook, Here, At, IInv, TeamsTypeOK, Shaped, World, places, tree, config
<1>2. /\ {"task", "record"} \subseteq Linked \cap Placed \cap AdoptSteps \cap HoldSteps
      /\ "record" \in Steps /\ "record" \notin SettingsSteps
  BY SMT DEF Linked, Placed, SiteSteps, Relinks, AdoptSteps, HoldSteps, SettingsSteps, Steps
<1>3. PICK g \in BOOLEAN :
        call' = [call EXCEPT ![p] = [call[p] EXCEPT !.step = "record", !.guess = g]]
  <2>1. /\ (task[Site(p)] = "none" /\ ~TeamNamed(Site(p)) /\ FindByWorktree(Site(p)) = "none")
             \in BOOLEAN
    OBVIOUS
  <2> QED  BY <2>1, Zenon DEF TaskLook
<1> DEFINE b == [call[p] EXCEPT !.step = "record"]
           d == [call[p] EXCEPT !.step = "record", !.guess = g]
<1>4. d \in Calls
  <2>1. b \in Calls  BY <1>1, <1>2, SetStep
  <2>2. d = [b EXCEPT !.guess = g]  OBVIOUS
  <2> HIDE DEF b, d
  <2> QED  BY <2>1, <2>2, SetGuess
<1>5. Same(call[p], d) /\ d.step = "record" /\ d.locks = call[p].locks
  BY <1>1, SMT DEF Same, Calls
<1>6. call' = [call EXCEPT ![p] = d]
  BY <1>3
<1> HIDE DEF d
<1>7. Shape(d)
  BY <1>1, <1>5, SMT DEF Shape, Same, CreateSteps, Relinks, AdoptSteps, SettingsSteps
<1>8. call[p].locks
  BY <1>1, SMT DEF Shape
<1>9. call' \in [Procs -> Calls] /\ Shaped' /\ Apart(p) /\ Enters(p)
  BY <1>1, <1>2, <1>4, <1>5, <1>6, <1>7, <1>8, Onward
<1>10. Moved(p) /\ spent'.removed = spent.removed
  BY <1>1, <1>9 DEF Moved, TeamsTypeOK, World
<1> QED  BY <1>1, <1>9, <1>10, CallsOnly

LEMMA TaskKeeps == ASSUME IInv, NEW p \in Procs, Task(p) PROVE IInv'
<1> DEFINE c == [call[p] EXCEPT !.guess = FALSE]
<1>1. /\ call[p].step = "record" /\ call[p] \in Calls /\ Shape(call[p]) /\ TeamsTypeOK /\ Shaped
      /\ UNCHANGED World /\ UNCHANGED <<orca, asked, store, exclude, unread, spent>>
  BY DEF Task, Here, At, IInv, TeamsTypeOK, Shaped, World, places, tree, config
<1>2. /\ {"record", "init", "slock"} \subseteq Linked /\ Linked \subseteq Placed
      /\ "record" \in AdoptSteps \cap HoldSteps /\ {"init", "slock"} \subseteq Steps
      /\ "init" \notin HoldSteps /\ {"init", "slock"} \cap SettingsSteps = {}
  BY SMT DEF Linked, Placed, SiteSteps, Relinks, AdoptSteps, HoldSteps, SettingsSteps, Steps
<1>3. call[p].want = "dir"
  BY <1>1, SMT DEF Shape, Calls, SettingsSteps
<1>4. c \in Calls
  BY <1>1, SetGuess
<1>5. c.doing = call[p].doing /\ c.site = call[p].site /\ c.locks = call[p].locks
      /\ c.step = call[p].step /\ c.want = call[p].want /\ c.alive = call[p].alive
      /\ c.tries = call[p].tries
  BY <1>1, SMT DEF Calls
<1>6. \/ c.doing = "team" /\ call' = [call EXCEPT ![p] = [c EXCEPT !.step = "init"]]
      \/ /\ c.doing = "heal"
         /\ call' = [call EXCEPT ![p] = [c EXCEPT !.locks = FALSE, !.step = "slock"]]
      \/ Ends(p)
  BY Zenon DEF Task, Ends
<1> HIDE DEF c
<1>7. call' \in [Procs -> Calls] /\ Shaped' /\ Apart(p) /\ Enters(p)
  <2>1. CASE Ends(p)
    BY <1>1, <2>1, EndsMoves, EndsEnters
  <2>2. ASSUME NEW d \in Calls, call' = [call EXCEPT ![p] = d], Same(c, d),
               d.tries = c.tries, d.locks => c.locks,
               \/ d.step = "init" /\ d.doing = "team"
               \/ d.step = "slock" /\ d.doing = "heal"
        PROVE  call' \in [Procs -> Calls] /\ Shaped' /\ Apart(p) /\ Enters(p)
    <3>1. Same(call[p], d)
      BY <1>5, <2>2 DEF Same
    <3>2. Shape(d)
      BY <1>3, <2>2, <3>1, SMT DEF Shape, Same, CreateSteps, Relinks, AdoptSteps, SettingsSteps
    <3>3. d.step \notin SettingsSteps \cup {"swrite", "unlink", "aside", "terminals"}
      BY <1>2, <2>2, SMT
    <3> QED  BY <1>1, <1>2, <1>5, <2>2, <3>1, <3>2, <3>3, Onward
  <2>3. CASE c.doing = "team" /\ call' = [call EXCEPT ![p] = [c EXCEPT !.step = "init"]]
    <3> DEFINE d == [c EXCEPT !.step = "init"]
    <3>1. d \in Calls  BY <1>2, <1>4, SetStep
    <3>2. Same(c, d) /\ d.step = "init" /\ d.locks = c.locks /\ d.tries = c.tries
      BY <1>4, SMT DEF Same, Calls
    <3>3. call' = [call EXCEPT ![p] = d]  BY <2>3
    <3> HIDE DEF d
    <3> QED  BY <2>2, <2>3, <3>1, <3>2, <3>3 DEF Same
  <2>4. CASE /\ c.doing = "heal"
             /\ call' = [call EXCEPT ![p] = [c EXCEPT !.locks = FALSE, !.step = "slock"]]
    <3> DEFINE b == [c EXCEPT !.locks = FALSE]
               d == [c EXCEPT !.locks = FALSE, !.step = "slock"]
    <3>1. d \in Calls
      <4>1. b \in Calls  BY <1>4, SetLocks
      <4>2. d = [b EXCEPT !.step = "slock"]  OBVIOUS
      <4> HIDE DEF b, d
      <4> QED  BY <1>2, <4>1, <4>2, SetStep
    <3>2. Same(c, d) /\ d.step = "slock" /\ d.locks = FALSE /\ d.tries = c.tries
      BY <1>4, SMT DEF Same, Calls
    <3>3. call' = [call EXCEPT ![p] = d]  BY <2>4
    <3> HIDE DEF d
    <3> QED  BY <2>2, <2>4, <3>1, <3>2, <3>3 DEF Same
  <2> QED  BY <1>6, <2>1, <2>3, <2>4
<1>8. Moved(p) /\ spent'.removed = spent.removed
  BY <1>1, <1>7, TaskTyped DEF Moved, TeamsTypeOK, World
<1> QED  BY <1>1, <1>7, <1>8, CallsOnly

LEMMA InitTeamKeeps == ASSUME IInv, NEW p \in Procs, InitTeam(p) PROVE IInv'
<1>1. /\ call[p].step = "init" /\ call[p] \in Calls /\ Shape(call[p]) /\ TeamsTypeOK /\ Shaped
      /\ UNCHANGED <<places, tree, config, team, late, spent>>
  BY DEF InitTeam, At, IInv, TeamsTypeOK, Shaped
<1>2. CASE Ends(p)
  BY <1>1, <1>2, EndsKeeps, Frame
<1>3. CASE Go(p, "publish")
  <2>1. /\ {"init", "publish"} \subseteq Linked /\ Linked \subseteq Placed /\ "publish" \in Steps
        /\ "publish" \notin HoldSteps /\ "publish" \notin SettingsSteps
    BY SMT DEF Linked, Placed, SiteSteps, Relinks, AdoptSteps, HoldSteps, SettingsSteps, Steps
  <2>2. PICK d \in Calls : /\ call' = [call EXCEPT ![p] = d] /\ Same(call[p], d)
                           /\ d.step = "publish" /\ d.locks = call[p].locks
    BY <1>3, <2>1, GoFacts
  <2>3. Shape(d)
    BY <1>1, <2>2, SMT DEF Shape, Same, CreateSteps, Relinks, AdoptSteps, SettingsSteps
  <2>4. d.step \notin SettingsSteps \cup {"swrite", "unlink", "aside"}
    BY <2>1, <2>2
  <2>5. call' \in [Procs -> Calls] /\ Shaped' /\ Apart(p) /\ Enters(p)
    BY <1>1, <2>1, <2>2, <2>3, <2>4, Onward
  <2> QED  BY <1>1, <2>5, OnwardOnly
<1> QED  BY <1>2, <1>3 DEF InitTeam, GoOr

(* os.Link lets one process publish: with no file yet, nobody else did.    *)
LEMMA PublishKeeps == ASSUME IInv, NEW p \in Procs, Publish(p) PROVE IInv'
<1>1. /\ call[p].step = "publish" /\ call[p] \in Calls /\ Shape(call[p]) /\ TeamsTypeOK /\ Shaped
      /\ Site(p) \in Sites
      /\ UNCHANGED <<places, tree, config, task, leads, late, spent>>
  BY SMT DEF Publish, At, IInv, TeamsTypeOK, Shaped, Calls, Site
<1>2. CASE Ends(p) /\ UNCHANGED <<files, unread>>
  BY <1>1, <1>2, EndsKeeps, Frame DEF team
<1>3. CASE /\ ~HasFile /\ files' = files \cup {TheFile(Site(p))} /\ Claiming(Site(p))
           /\ call' = [call EXCEPT ![p] = [call[p] EXCEPT !.step = "slock", !.want = "rules"]]
  <2> DEFINE b == [call[p] EXCEPT !.step = "slock"]
             d == [call[p] EXCEPT !.step = "slock", !.want = "rules"]
  <2>1. d \in Calls
    <3>1. b \in Calls  BY <1>1, SetStep DEF Steps
    <3>2. d = [b EXCEPT !.want = "rules"]  OBVIOUS
    <3> HIDE DEF b, d
    <3> QED  BY <3>1, <3>2, SetWant
  <2>2. /\ d.step = "slock" /\ d.want = "rules" /\ d.site = call[p].site
        /\ d.doing = call[p].doing /\ d.alive = call[p].alive /\ d.locks = call[p].locks
    BY <1>1, SMT DEF Calls
  <2>3. call' = [call EXCEPT ![p] = d]
    BY <1>3
  <2> HIDE DEF d
  <2>4. Shape(d)
    BY <1>1, <2>2, SMT DEF Shape, CreateSteps, Relinks, AdoptSteps, SettingsSteps
  <2>5. call' \in [Procs -> Calls] /\ Shaped' /\ Apart(p) /\ call'[p] = d
    BY <1>1, <2>1, <2>3, <2>4, OneMoves
  <2>6. TeamsTypeOK'
    <3>1. TheFile(Site(p)) \in [name : {Name} \cup Other, site : Sites, good : BOOLEAN]
      BY <1>1 DEF TheFile
    <3>2. unread' \subseteq Sites
      BY <1>1, <1>3 DEF Claiming, TeamsTypeOK
    <3> QED  BY <1>1, <1>3, <2>5, <3>1, <3>2 DEF TeamsTypeOK, places, tree, config
  <2>7. \A f \in files : f.name # Name
    BY <1>3 DEF HasFile
  <2>8. TheFile(Site(p)).name = Name /\ \A w \in Sites : TheFile(w).name = Name
    BY DEF TheFile
  <2>9. \A q \in Procs : ~Publishing(q)
    <3>1. SUFFICES ASSUME NEW q \in Procs, Publishing(q)  PROVE FALSE
      OBVIOUS
    <3>2. TheFile(Site(q)) \in files /\ Site(q) \in Sites
      BY <3>1, SMT DEF IInv, Published, TeamsTypeOK, Calls, Site
    <3> QED  BY <2>7, <2>8, <3>2
  <2>10. Published'
    <3>1. \A q \in Procs : Publishing(q)' => q = p
      BY <2>5, <2>9 DEF Publishing, Apart
    <3>2. TheFile(Site(p))' = TheFile(Site(p))
      BY <2>2, <2>5, Zenon DEF TheFile, Site
    <3> QED  BY <1>3, <3>1, <3>2, Zenon DEF Published
  <2>11. Launched'
    <3>1. \A w \in Sites : ~(leads[w] > 0)
      BY <2>7, <2>8 DEF IInv, Launched
    <3> QED  BY <1>1, <3>1 DEF Launched, OneLead
  <2>12. "slock" \notin SettingsSteps /\ {"slock", "publish"} \subseteq Linked
         /\ {"slock", "publish"} \subseteq Placed /\ "publish" \in Steps
    BY SMT DEF SettingsSteps, Linked, Placed, SiteSteps, Relinks, Steps
  <2>13. EntersAdopt(p) /\ EntersSettings(p) /\ EntersWrite(p) /\ EntersRelink(p)
    BY <2>2, <2>5, <2>12, SMT DEF EntersAdopt, EntersSettings, EntersWrite, EntersRelink,
       HoldsAdopt, HoldsSettings
  <2>14. EntersOrca(p) /\ EntersGo(p)
    BY <1>1, <2>2, <2>5, <2>12, SMT DEF EntersOrca, EntersGo, Works, Site
  <2>15. AdoptAlone' /\ SettingsAlone' /\ SawIt' /\ MainStays'
    BY <1>1, <2>5, <2>13, AdoptMoves, SettingsMoves, SawMoves, MainMoves DEF IInv, tree, config
  <2>16. OrcaSound'
    BY <1>1, <2>5, <2>14, OrcaMoves DEF IInv, places, tree
  <2>17. GoSound'
    BY <1>1, <2>5, <2>14, GoMovesOn DEF IInv, places, tree, GoLinked, GoSound
  <2> QED  BY <2>5, <2>6, <2>10, <2>11, <2>15, <2>16, <2>17 DEF IInv
<1> QED  BY <1>2, <1>3 DEF Publish

(* Only the writer of the team file launches, and once.                    *)
LEMMA LaunchKeeps == ASSUME IInv, NEW p \in Procs, Launch(p) PROVE IInv'
<1>1. /\ call[p].step = "launch" /\ call[p].alive /\ call[p] \in Calls /\ Site(p) \in Sites
      /\ call[p].want = "rules" /\ call[p].doing = "team"
      /\ UNCHANGED <<places, tree, config, files, task, unread, late, spent>>
  BY SMT DEF Launch, Here, At, IInv, TeamsTypeOK, Shaped, Shape, Calls, Site
<1>2. TheFile(Site(p)) \in files /\ \A q \in Procs : Publishing(q) => q = p
  BY <1>1 DEF IInv, Published, Publishing
<1>3. \A w \in Sites : ~(leads[w] > 0) /\ leads[w] = 0
  BY <1>1, SMT DEF IInv, TeamsTypeOK, Launched, Publishing
<1>4. call' \in [Procs -> Calls] /\ Shaped' /\ Apart(p) /\ call'[p] = Idle /\ Enters(p)
  <2>1. call' \in [Procs -> Calls] /\ Shaped' /\ Apart(p) /\ call'[p] = Idle
    BY EndsMoves DEF Launch, IInv
  <2> QED  BY <2>1, EndsEnters DEF IInv
<1>5. /\ leads' \in [Sites -> Nat] /\ leads'[Site(p)] = 1
      /\ \A w \in Sites : w # Site(p) => leads'[w] = 0
  <2>1. leads \in [Sites -> Nat] /\ leads' = [leads EXCEPT ![Site(p)] = leads[Site(p)] + 1]
    BY DEF Launch, IInv, TeamsTypeOK
  <2> QED  BY <1>1, <1>3, <2>1, SMT
<1>6. TeamsTypeOK'
  BY <1>1, <1>4, <1>5 DEF IInv, TeamsTypeOK, places, tree, config
<1>7. Published'
  BY <1>1, <1>4, PublishedMoves DEF IInv, Enters
<1>8. Launched'
  <2>1. \A q \in Procs : ~Publishing(q)'
    BY <1>2, <1>4, SMT DEF Publishing, Apart, Idle
  <2>2. \A w \in Sites : leads'[w] > 0 => w = Site(p) /\ leads'[w] = 1
    BY <1>1, <1>5, SMT
  <2> QED  BY <1>1, <1>2, <2>1, <2>2, Zenon DEF Launched, OneLead, TheFile
<1>9. AdoptAlone' /\ SettingsAlone' /\ SawIt' /\ MainStays'
  BY <1>1, <1>4, AdoptMoves, SettingsMoves, SawMoves, MainMoves DEF IInv, Enters, tree, config
<1>10. "launch" \in Linked /\ "launch" \in Placed /\ "launch" \in Steps
  BY SMT DEF Linked, Placed, SiteSteps, Relinks, Steps
<1>11. OrcaSound'
  <2>1. leads'[OrcaSite] > 0 => Works(p, OrcaSite, Placed) /\ Works(p, OrcaSite, Linked)
    BY <1>1, <1>5, <1>10, TeamsAssumption, SMT DEF Works
  <2>2. \A q \in Procs :
          /\ Works(q, OrcaSite, Placed)' => Works(q, OrcaSite, Placed)
          /\ Works(q, OrcaSite, {"terminals"})' => Works(q, OrcaSite, {"terminals"})
          /\ Works(q, OrcaSite, Linked)' => Works(q, OrcaSite, Linked)
    BY <1>4, SMT DEF Works, Site, Apart, Idle
  <2>3. (AsAsked' <=> AsAsked) /\ (Uncut' <=> Uncut) /\ lets' = lets
    BY <1>1 DEF AsAsked, Uncut, places, tree
  <2> HIDE DEF AsAsked, Uncut
  <2> QED  BY <1>1, <2>1, <2>2, <2>3, SMT DEF IInv, OrcaSound
<1>12. GoSound'
  <2>1. leads'[GoSite] > 0 => Works(p, GoSite, Steps) /\ Site(p) = GoSite
    BY <1>1, <1>5, <1>10, TeamsAssumption, SMT DEF Works
  <2>2. \A q \in Procs : Works(q, GoSite, Steps)' =>
          Works(q, GoSite, Steps) /\ q # p /\ call'[q] = call[q]
    BY <1>4, SMT DEF Works, Site, Apart, Idle
  <2>3. \A q \in Procs : Works(q, GoSite, Steps)' => leads'[GoSite] = 0
    <3>1. Site(p) = GoSite => Works(p, GoSite, Steps)
      BY <1>1, <1>10 DEF Works
    <3>2. \A q \in Procs : Works(q, GoSite, Steps)' => Site(p) # GoSite
      BY <2>2, <3>1 DEF IInv, GoSound
    <3> QED  BY <1>5, <3>2, TeamsAssumption
  <2>4. GoLinked' <=> GoLinked
    BY <1>1 DEF GoLinked, tree
  <2>5. Site(p) = GoSite => GoSite \in git /\ GoLinked
    BY <1>1, <1>10, SMT DEF IInv, GoSound, Works
  <2>6. git' = git /\ lets' = lets
    BY <1>1 DEF places, tree
  <2> QED  BY <2>1, <2>2, <2>3, <2>4, <2>5, <2>6, SMT DEF IInv, GoSound
<1> QED  BY <1>4, <1>6, <1>7, <1>8, <1>9, <1>11, <1>12 DEF IInv

-----------------------------------------------------------------------------
(* A worktree comes or goes.                                               *)
LEMMA SawShrinks ==
  ASSUME IInv, \A q \in Procs : call'[q] = call[q] \/ call'[q].step # "swrite",
         \A w \in Sites : settings'[w] \subseteq settings[w], late' = late
  PROVE  SawIt'
<1>1. SUFFICES ASSUME NEW q \in Procs, call'[q].alive, call'[q].step = "swrite"
               PROVE  settings'[Site(q)'] \subseteq
                        call'[q].saw \cup (IF Site(q)' \in late' THEN {"own"} ELSE {})
  BY DEF SawIt
<1>2. call'[q] = call[q] /\ Site(q)' = Site(q) /\ Site(q) \in Sites
  BY <1>1, SMT DEF Site, IInv, TeamsTypeOK, Calls
<1>3. settings[Site(q)] \subseteq call[q].saw \cup (IF Site(q) \in late THEN {"own"} ELSE {})
  BY <1>1, <1>2 DEF IInv, SawIt
<1> QED  BY <1>2, <1>3, SMT

(* orca worktree rm: the worktree and its lead are gone.                   *)
LEMMA RemoveKeeps == ASSUME IInv, NEW p \in Procs, Remove(p) PROVE IInv'
<1>1. call' \in [Procs -> Calls] /\ Shaped' /\ Apart(p) /\ call'[p] = Idle /\ Enters(p)
  <2>1. call' \in [Procs -> Calls] /\ Shaped' /\ Apart(p) /\ call'[p] = Idle
    BY EndsMoves DEF Remove, IInv
  <2> QED  BY <2>1, EndsEnters DEF IInv
<1>2. UNCHANGED <<asked, files, task, unread, late>> /\ OrcaSite \in Sites /\ TeamsTypeOK
  BY TeamsAssumption DEF Remove, IInv
<1>3. CASE /\ OrcaFails /\ UNCHANGED <<git, odd, leads, tree, config>>
           /\ \E half \in BOOLEAN : orca' = IF half THEN orca \ {OrcaSite} ELSE orca
  <2>1. orca' \subseteq Sites /\ spent' \in Tally /\ spent'.removed = spent.removed
    BY <1>2, <1>3, Frame DEF TeamsTypeOK
  <2>2. Moved(p) /\ UNCHANGED World
    BY <1>1, <1>2, <1>3, <2>1 DEF Moved, TeamsTypeOK, World, Tally, tree, config
  <2> QED  BY <1>1, <2>1, <2>2, CallsOnly
<1>4. CASE /\ Removed
           /\ \/ orca' = orca \ {OrcaSite} /\ spent' = [spent EXCEPT !.removed = TRUE]
              \/ orca' = orca
                 /\ spent' = [spent EXCEPT !.orca = spent.orca + 1, !.removed = TRUE]
  <2> USE DEF Removed
  <2>1. /\ lets' \in [Sites -> LetsKinds] /\ aside' \in [Sites -> SUBSET (LetsKinds \ {"absent"})]
        /\ store' \in [Sites -> StoreKinds] /\ settings' \in [Sites -> SUBSET Entries]
        /\ exclude' = exclude /\ lets'[OrcaSite] = "absent"
        /\ \A v \in Sites \ {OrcaSite} : lets'[v] = lets[v] /\ aside'[v] = aside[v]
        /\ \A v \in Sites : settings'[v] \subseteq settings[v]
    BY <1>2, <1>4, BareTyped
  <2>2. spent' \in Tally /\ spent'.removed
    <3>1. spent \in [calls : Nat, orca : Nat, writes : Nat, removed : BOOLEAN]
      BY <1>2 DEF TeamsTypeOK
    <3>2. CASE spent' = [spent EXCEPT !.removed = TRUE]
      BY <3>1, <3>2 DEF Tally
    <3>3. CASE spent' = [spent EXCEPT !.orca = spent.orca + 1, !.removed = TRUE]
      <4>1. spent.orca + 1 \in Nat  BY <3>1, SMT
      <4> QED  BY <3>1, <3>3, <4>1, Zenon DEF Tally
    <3> QED  BY <1>4, <3>2, <3>3
  <2>3. /\ leads' \in [Sites -> Nat] /\ leads'[OrcaSite] = 0
        /\ \A w \in Sites : w # OrcaSite => leads'[w] = leads[w]
    BY <1>2, <1>4, SMT DEF TeamsTypeOK
  <2>4. TeamsTypeOK'
    BY <1>1, <1>2, <1>4, <2>1, <2>2, <2>3 DEF TeamsTypeOK, Tally
  <2>5. Published' /\ AdoptAlone' /\ SettingsAlone'
    BY <1>1, <1>2, PublishedMoves, AdoptMoves, SettingsMoves DEF IInv, Enters
  <2>6. Launched'
    <3>1. \A w \in Sites : leads'[w] > 0 => leads[w] > 0 /\ leads'[w] = leads[w]
      BY <2>3, SMT
    <3>2. \A q \in Procs : Publishing(q)' => Publishing(q)
      BY <1>1 DEF Publishing, Apart, Idle
    <3>3. OneLead'
      BY <3>1 DEF IInv, Launched, OneLead
    <3> QED  BY <1>2, <3>1, <3>2, <3>3 DEF IInv, Launched, TheFile
  <2>7. SawIt'
    BY <1>1, <1>2, <2>1, SawShrinks DEF Apart, Idle
  <2>8. MainStays'
    <3>1. \A w \in Sites \ {GoSite} : lets'[w] = "main" => lets[w] = "main"
      BY <2>1, SMT
    <3> QED  BY <1>1, <3>1, MainMoves DEF IInv, Enters
  <2>9. OrcaSound'
    BY <2>2 DEF OrcaSound
  <2>10. GoSound'
    <3>1. /\ lets'[GoSite] = lets[GoSite] /\ aside'[GoSite] = aside[GoSite]
          /\ leads'[GoSite] = leads[GoSite] /\ (GoSite \in git => GoSite \in git')
      BY <1>4, <2>1, <2>3, TeamsAssumption
    <3>2. \A q \in Procs : Works(q, GoSite, Steps)' =>
            Works(q, GoSite, Steps) /\ call'[q] = call[q]
      BY <1>1, SMT DEF Works, Site, Apart, Idle
    <3> QED  BY <3>1, <3>2, SMT DEF IInv, GoSound, GoLinked
  <2> QED  BY <1>1, <2>4, <2>5, <2>6, <2>7, <2>8, <2>9, <2>10 DEF IInv
<1> QED  BY <1>3, <1>4 DEF Remove

(* Orca makes the worktree, now or late: nobody works in it yet.           *)
LEMMA MadeKeeps ==
  ASSUME IInv, NEW listed \in BOOLEAN, NEW wrong \in {"no", "cut", "agent"},
         Made(listed, wrong), BranchFree, UNCHANGED <<team, late>>, spent'.removed = spent.removed,
         call' \in [Procs -> Calls], asked' \in BOOLEAN, spent' \in Tally,
         \A q \in Procs : call'[q] = call[q] \/ (call'[q].step = "git" /\ Site(q)' = OrcaSite)
  PROVE  TeamsTypeOK' /\ SawIt' /\ OrcaSound' /\ GoSound'
         /\ \A w \in Sites : lets'[w] = "main" => lets[w] = "main"
<1>1. OrcaSite \in Sites /\ GoSite \in Sites /\ OrcaSite # GoSite /\ TeamsTypeOK
  BY TeamsAssumption DEF IInv
<1>2. /\ lets' \in [Sites -> LetsKinds] /\ aside' \in [Sites -> SUBSET (LetsKinds \ {"absent"})]
      /\ store' \in [Sites -> StoreKinds] /\ settings' \in [Sites -> SUBSET Entries]
      /\ exclude' = exclude /\ lets'[OrcaSite] = "absent"
      /\ \A v \in Sites \ {OrcaSite} : lets'[v] = lets[v] /\ aside'[v] = aside[v]
      /\ \A v \in Sites : settings'[v] \subseteq settings[v]
  BY <1>1, BareTyped DEF Made
<1>3. git' = git \cup {OrcaSite} /\ odd' = wrong /\ orca' \subseteq Sites
  BY <1>1 DEF Made, TeamsTypeOK
<1>4. TeamsTypeOK'
  BY <1>1, <1>2, <1>3 DEF TeamsTypeOK, team, Tally
<1>5. SawIt'
  BY <1>2, SawShrinks
<1>6. OrcaSite \notin git /\ GoSite \notin git
  BY DEF BranchFree
<1>7. "git" \notin Placed \cup Linked \cup {"terminals"}
  BY SMT DEF Placed, Linked, SiteSteps, AdoptSteps, SettingsSteps
<1>8. OrcaSound'
  <2>1. \A q \in Procs :
          /\ Works(q, OrcaSite, Placed)' => Works(q, OrcaSite, Placed)
          /\ Works(q, OrcaSite, {"terminals"})' => Works(q, OrcaSite, {"terminals"})
          /\ Works(q, OrcaSite, Linked)' => Works(q, OrcaSite, Linked)
    BY <1>7, SMT DEF Works, Site
  <2>2. Linked \subseteq Placed  BY DEF Linked
  <2>3. ~spent.removed => /\ ~(leads[OrcaSite] > 0)
                          /\ \A q \in Procs : /\ ~Works(q, OrcaSite, Placed)
                                              /\ ~Works(q, OrcaSite, {"terminals"})
    BY <1>6, Zenon DEF IInv, OrcaSound, AsAsked, Uncut
  <2>4. \A q \in Procs : Works(q, OrcaSite, Linked) => Works(q, OrcaSite, Placed)
    BY <2>2 DEF Works
  <2> QED  BY <2>1, <2>3, <2>4 DEF OrcaSound, team
<1>9. GoSound'
  <2>1. ~(leads[GoSite] > 0) /\ \A q \in Procs : ~Works(q, GoSite, Steps)
    BY <1>6 DEF IInv, GoSound
  <2>2. \A q \in Procs : ~Works(q, GoSite, Steps)'
    BY <1>1, <2>1, SMT DEF Works, Site
  <2>3. lets'[GoSite] \notin {"elsewhere", "file"}
    BY <1>1, <1>2, SMT DEF IInv, GoSound
  <2> QED  BY <2>1, <2>2, <2>3 DEF GoSound, team
<1>10. \A w \in Sites : lets'[w] = "main" => lets[w] = "main"
  BY <1>2, SMT
<1> QED  BY <1>4, <1>5, <1>8, <1>9, <1>10

LEMMA OrcaCreateKeeps == ASSUME IInv, NEW p \in Procs, OrcaCreate(p) PROVE IInv'
<1> DEFINE b == [call[p] EXCEPT !.step = "git"]
           d == [call[p] EXCEPT !.step = "git", !.site = OrcaSite]
<1>1. /\ call[p].step = "create" /\ call[p] \in Calls /\ Shape(call[p]) /\ TeamsTypeOK /\ Shaped
      /\ UNCHANGED <<team, late>>
  BY DEF OrcaCreate, At, IInv, TeamsTypeOK, Shaped
<1>2. d \in Calls
  <2>1. b \in Calls  BY <1>1, SetStep DEF Steps
  <2>2. d = [b EXCEPT !.site = OrcaSite]  OBVIOUS
  <2>3. OrcaSite \in Sites  BY TeamsAssumption
  <2> HIDE DEF b, d
  <2> QED  BY <2>1, <2>2, <2>3, SetSite
<1>3. /\ d.step = "git" /\ d.site = OrcaSite /\ d.want = call[p].want /\ d.tries = call[p].tries
      /\ d.doing = call[p].doing /\ d.alive = call[p].alive /\ d.locks = call[p].locks
  BY <1>1, SMT DEF Calls
<1>4. call' = [call EXCEPT ![p] = d]
  BY DEF OrcaCreate
<1> HIDE DEF d
<1>5. Shape(d) /\ call[p].want = "dir"
  BY <1>1, <1>3, SMT DEF Shape, CreateSteps, Relinks, AdoptSteps, SettingsSteps, Calls
<1>6. call' \in [Procs -> Calls] /\ Shaped' /\ Apart(p) /\ call'[p] = d
  BY <1>1, <1>2, <1>4, <1>5, OneMoves
<1>7. Enters(p)
  <2>1. "git" \notin Placed \cup Linked \cup AdoptSteps \cup SettingsSteps
                   \cup {"slock", "terminals"}
    BY SMT DEF Placed, Linked, SiteSteps, AdoptSteps, SettingsSteps
  <2>2. EntersTeam(p) /\ EntersAdopt(p) /\ EntersSettings(p) /\ EntersWrite(p) /\ EntersRelink(p)
    BY <1>3, <1>5, <1>6, <2>1, SMT DEF EntersTeam, EntersAdopt, EntersSettings, EntersWrite,
       EntersRelink, Publishing, HoldsAdopt, HoldsSettings
  <2>3. EntersOrca(p) /\ EntersGo(p)
    BY <1>3, <1>6, <2>1, TeamsAssumption, SMT DEF EntersOrca, EntersGo, Works, Site
  <2> QED  BY <2>2, <2>3 DEF Enters
<1>8. spent' \in Tally /\ spent'.removed = spent.removed
  BY <1>1, Frame DEF OrcaCreate
<1>9. CASE asked' \in BOOLEAN /\ UNCHANGED <<git, orca, odd, tree, config>>
  <2>1. Moved(p) /\ UNCHANGED World
    BY <1>1, <1>6, <1>8, <1>9 DEF Moved, TeamsTypeOK, World, Tally, tree, config, team
  <2> QED  BY <1>7, <1>8, <2>1, CallsOnly
<1>10. ASSUME NEW listed \in BOOLEAN, NEW wrong \in {"no", "cut", "agent"},
              Made(listed, wrong), BranchFree, UNCHANGED asked
       PROVE  IInv'
  <2>1. asked' \in BOOLEAN
    BY <1>1, <1>10 DEF TeamsTypeOK
  <2>2. \A q \in Procs : call'[q] = call[q] \/ (call'[q].step = "git" /\ Site(q)' = OrcaSite)
    BY <1>3, <1>6 DEF Apart, Site
  <2>3. TeamsTypeOK' /\ SawIt' /\ OrcaSound' /\ GoSound'
        /\ \A w \in Sites : lets'[w] = "main" => lets[w] = "main"
    BY <1>1, <1>6, <1>8, <1>10, <2>1, <2>2, MadeKeeps
  <2>4. Published' /\ Launched' /\ AdoptAlone' /\ SettingsAlone' /\ MainStays'
    BY <1>1, <1>6, <1>7, <2>3, PublishedMoves, LaunchedMoves, AdoptMoves, SettingsMoves, MainMoves
       DEF IInv, Enters, team
  <2> QED  BY <1>6, <2>3, <2>4 DEF IInv
<1>11. asked \in BOOLEAN
  BY <1>1 DEF TeamsTypeOK
<1> QED  BY <1>9, <1>10, <1>11 DEF OrcaCreate, Done, places

(* A step of nobody's call.                                                *)
LEMMA CallsStay ==
  ASSUME IInv, UNCHANGED call, files \subseteq files'
  PROVE  call' \in [Procs -> Calls] /\ Shaped' /\ Published' /\ AdoptAlone' /\ SettingsAlone'
<1>1. call' \in [Procs -> Calls] /\ Shaped'
  BY DEF IInv, TeamsTypeOK, Shaped
<1>2. Published'
  BY DEF IInv, Published, Publishing, Site, TheFile
<1>3. AdoptAlone' /\ SettingsAlone'
  BY DEF IInv, AdoptAlone, SettingsAlone, HoldsAdopt, HoldsSettings
<1> QED  BY <1>1, <1>2, <1>3

LEMMA LaunchedStays ==
  ASSUME Launched, UNCHANGED call, files \subseteq files',
         \A w \in Sites : leads'[w] > 0 => leads[w] > 0 /\ leads'[w] <= leads[w],
         leads' \in [Sites -> Nat], leads \in [Sites -> Nat]
  PROVE  Launched'
<1>1. OneLead'
  <2>1. \A v, w \in Sites : leads'[v] > 0 /\ leads'[w] > 0 => v = w
    BY DEF Launched, OneLead
  <2>2. \A w \in Sites : leads'[w] > 0 => leads[w] = 1
    BY DEF Launched, OneLead
  <2>3. \A w \in Sites : leads'[w] > 0 => leads'[w] = 1
    BY <2>2, SMT
  <2> QED  BY <2>1, <2>3 DEF OneLead
<1> QED  BY <1>1 DEF Launched, Publishing, TheFile

LEMMA OrcaFinishesKeeps == ASSUME IInv, OrcaFinishes PROVE IInv'
<1>1. /\ call' \in [Procs -> Calls] /\ asked' \in BOOLEAN /\ spent' \in Tally
      /\ leads \in [Sites -> Nat]
  BY DEF OrcaFinishes, IInv, TeamsTypeOK, Tally
<1>2. TeamsTypeOK' /\ SawIt' /\ OrcaSound' /\ GoSound'
      /\ \A w \in Sites : lets'[w] = "main" => lets[w] = "main"
  BY <1>1, MadeKeeps DEF OrcaFinishes, Done
<1>3. Shaped' /\ Published' /\ AdoptAlone' /\ SettingsAlone'
  BY CallsStay DEF OrcaFinishes, team
<1>4. Launched'
  BY <1>1, LaunchedStays, SMT DEF OrcaFinishes, team, IInv
<1>5. MainStays'
  <2>1. \A q \in Procs : Site(q) \in Sites  BY SMT DEF IInv, TeamsTypeOK, Calls, Site
  <2> QED  BY <1>2, <2>1 DEF IInv, MainStays, OrcaFinishes, Site
<1> QED  BY <1>2, <1>3, <1>4, <1>5 DEF IInv

(* git worktree add makes create's own worktree.                           *)
LEMMA GoAddKeeps == ASSUME IInv, NEW p \in Procs, GoAdd(p) PROVE IInv'
<1>1. /\ call[p].step = "add" /\ call[p] \in Calls /\ Shape(call[p]) /\ TeamsTypeOK /\ Shaped
      /\ UNCHANGED <<orca, asked, odd, team, late, spent>>
      /\ spent' \in Tally /\ spent'.removed = spent.removed
  BY DEF GoAdd, At, IInv, TeamsTypeOK, Shaped, Tally
<1>2. CASE Ends(p) /\ UNCHANGED <<git, tree, config>>
  <2>1. UNCHANGED <<World, Rest>>
    BY <1>1, <1>2 DEF World, Rest, tree, config, team
  <2> QED  BY <1>1, <1>2, <2>1, EndsKeeps
<1>3. CASE /\ BranchFree /\ git' = git \cup {GoSite} /\ Bare(GoSite)
           /\ call' = [call EXCEPT ![p] =
                         [call[p] EXCEPT !.step = "look", !.site = GoSite, !.locks = FALSE]]
  <2> DEFINE a == [call[p] EXCEPT !.step = "look"]
             b == [a EXCEPT !.site = GoSite]
             d == [call[p] EXCEPT !.step = "look", !.site = GoSite, !.locks = FALSE]
  <2>1. d \in Calls
    <3>1. a \in Calls  BY <1>1, SetStep DEF Steps, AdoptSteps
    <3>2. GoSite \in Sites  BY TeamsAssumption
    <3>3. d = [b EXCEPT !.locks = FALSE]  OBVIOUS
    <3> HIDE DEF a, d
    <3>4. b \in Calls  BY <3>1, <3>2, SetSite
    <3> HIDE DEF b
    <3> QED  BY <3>3, <3>4, SetLocks
  <2>2. /\ d.step = "look" /\ d.site = GoSite /\ d.want = call[p].want /\ d.locks = FALSE
        /\ d.doing = call[p].doing /\ d.alive = call[p].alive
    BY <1>1, SMT DEF Calls
  <2>3. call' = [call EXCEPT ![p] = d]
    BY <1>3
  <2> HIDE DEF d
  <2>4. call[p].want = "dir" /\ call[p].doing = "team"
    BY <1>1, SMT DEF Shape, CreateSteps, SettingsSteps, Calls
  <2>5. Shape(d)
    BY <2>2, <2>4, SMT DEF Shape, CreateSteps, Relinks, SettingsSteps
  <2>6. call' \in [Procs -> Calls] /\ Shaped' /\ Apart(p) /\ call'[p] = d
    BY <1>1, <2>1, <2>3, <2>5, OneMoves
  <2>7. "look" \notin Linked \cup SettingsSteps \cup {"swrite"}
    BY SMT DEF Linked, SettingsSteps
  <2>8. EntersTeam(p) /\ EntersAdopt(p) /\ EntersSettings(p) /\ EntersWrite(p) /\ EntersRelink(p)
    BY <2>2, <2>4, <2>6, <2>7, SMT DEF EntersTeam, EntersAdopt, EntersSettings, EntersWrite,
       EntersRelink, Publishing, HoldsAdopt, HoldsSettings
  <2>9. EntersOrca(p)
    BY <2>2, <2>6, TeamsAssumption, SMT DEF EntersOrca, Works, Site
  <2>10. GoSite \in Sites /\ GoSite \notin git /\ OrcaSite # GoSite
    BY <1>3, TeamsAssumption DEF BranchFree
  <2>11. /\ lets' \in [Sites -> LetsKinds] /\ aside' \in [Sites -> SUBSET (LetsKinds \ {"absent"})]
         /\ store' \in [Sites -> StoreKinds] /\ settings' \in [Sites -> SUBSET Entries]
         /\ exclude' = exclude /\ lets'[GoSite] = "absent"
         /\ \A v \in Sites \ {GoSite} : lets'[v] = lets[v] /\ aside'[v] = aside[v]
         /\ \A v \in Sites : settings'[v] \subseteq settings[v]
    BY <1>1, <1>3, <2>10, BareTyped
  <2>12. TeamsTypeOK'
    BY <1>1, <1>3, <2>6, <2>10, <2>11 DEF TeamsTypeOK, team, Tally
  <2>13. Published' /\ Launched' /\ AdoptAlone' /\ SettingsAlone'
    BY <1>1, <2>6, <2>8, PublishedMoves, LaunchedMoves, AdoptMoves, SettingsMoves DEF IInv, team
  <2>14. SawIt'
    <3>1. \A q \in Procs : call'[q] = call[q] \/ call'[q].step # "swrite"
      BY <2>2, <2>6, <2>7 DEF Apart
    <3> QED  BY <1>1, <2>11, <3>1, SawShrinks
  <2>15. MainStays'
    <3>1. \A w \in Sites \ {GoSite} : lets'[w] = "main" => lets[w] = "main"
      BY <2>11, SMT
    <3> QED  BY <2>6, <2>8, <3>1, MainMoves DEF IInv
  <2>16. OrcaSound'
    BY <1>1, <1>3, <2>6, <2>9, <2>10, <2>11, TeamsAssumption, OrcaMoves DEF IInv, team
  <2>17. GoSound'
    <3>1. leads'[GoSite] = 0 /\ \A q \in Procs : ~Works(q, GoSite, Steps)
      BY <1>1, <2>10, SMT DEF IInv, GoSound, team, TeamsTypeOK
    <3>2. \A q \in Procs : Works(q, GoSite, Steps)' => q = p
      BY <2>6, <3>1, SMT DEF Apart, Works, Site
    <3>3. /\ call'[p].step \notin Linked /\ GoSite \in git'
          /\ lets'[GoSite] \notin {"elsewhere", "file"}
      BY <1>3, <2>2, <2>6, <2>7, <2>11, SMT
    <3> QED  BY <3>1, <3>2, <3>3, SMT DEF GoSound
  <2> QED  BY <2>6, <2>12, <2>13, <2>14, <2>15, <2>16, <2>17 DEF IInv
<1> QED  BY <1>2, <1>3 DEF GoAdd

-----------------------------------------------------------------------------
(* Everyone else.                                                          *)
LEMMA DiesKeeps == ASSUME IInv, NEW p \in Procs, Dies(p) PROVE IInv'
<1> DEFINE d == [call[p] EXCEPT !.alive = FALSE]
<1>1. call[p] \in Calls /\ Shape(call[p]) /\ TeamsTypeOK /\ Shaped
  BY DEF IInv, TeamsTypeOK, Shaped
<1>2. d \in Calls
  BY <1>1, SetAlive
<1>3. /\ d.step = call[p].step /\ d.site = call[p].site /\ d.want = call[p].want
      /\ d.locks = call[p].locks /\ d.doing = call[p].doing /\ d.tries = call[p].tries
      /\ ~d.alive
  BY <1>1, SMT DEF Calls
<1>4. call' = [call EXCEPT ![p] = d]
  BY DEF Dies
<1> HIDE DEF d
<1>5. Shape(d)
  BY <1>1, <1>3, Zenon DEF Shape
<1>6. call' \in [Procs -> Calls] /\ Shaped' /\ Apart(p) /\ call'[p] = d
  BY <1>1, <1>2, <1>4, <1>5, OneMoves
<1>7. Enters(p)
  BY <1>3, <1>6, Zenon DEF Enters, EntersTeam, EntersAdopt, EntersSettings, EntersWrite,
     EntersRelink, EntersOrca, EntersGo, Publishing, HoldsAdopt, HoldsSettings, Works, Site
<1>8. UNCHANGED <<World, Rest>> /\ spent' \in Tally /\ spent'.removed = spent.removed
  BY <1>1, Frame DEF Dies
<1>9. Moved(p)
  BY <1>1, <1>6, <1>8, WorldTyped DEF Moved
<1> QED  BY <1>7, <1>8, <1>9, CallsOnly

LEMMA ClaudeWritesKeeps == ASSUME IInv, NEW w \in Sites, ClaudeWrites(w) PROVE IInv'
<1>1. /\ UNCHANGED <<places, tree, exclude, team, call>> /\ TeamsTypeOK /\ w \in git
      /\ spent' \in Tally /\ spent'.removed = spent.removed
  BY Frame DEF ClaudeWrites, IInv
<1>2. /\ settings' \in [Sites -> SUBSET Entries] /\ settings'[w] = settings[w] \cup {"own"}
      /\ \A v \in Sites : v # w => settings'[v] = settings[v]
  <2>1. settings \in [Sites -> SUBSET Entries]
        /\ settings' = [settings EXCEPT ![w] = settings[w] \cup {"own"}]
    BY DEF ClaudeWrites, IInv, TeamsTypeOK
  <2>2. settings[w] \cup {"own"} \in SUBSET Entries
    BY <2>1 DEF Entries
  <2> QED  BY <2>1, <2>2
<1>3. late \subseteq late' /\ late' \subseteq Sites
  BY <1>1 DEF ClaudeWrites, TeamsTypeOK
<1>4. TeamsTypeOK'
  BY <1>1, <1>2, <1>3 DEF TeamsTypeOK, Tally, places, tree, team
<1>5. SawIt'
  <2>1. SUFFICES ASSUME NEW q \in Procs, call[q].alive, call[q].step = "swrite"
                 PROVE  settings'[Site(q)] \subseteq
                          call[q].saw \cup (IF Site(q) \in late' THEN {"own"} ELSE {})
    BY <1>1 DEF SawIt, Site
  <2>2. Site(q) \in Sites /\ call[q] \in Calls /\ Shape(call[q])
    BY SMT DEF IInv, TeamsTypeOK, Shaped, Calls, Site
  <2>3. settings[Site(q)] \subseteq call[q].saw \cup (IF Site(q) \in late THEN {"own"} ELSE {})
    BY <2>1 DEF IInv, SawIt
  <2>4. CASE Site(q) # w
    BY <1>2, <1>3, <2>2, <2>3, <2>4, SMT
  <2>5. CASE Site(q) = w
    <3>1. call[q].doing # "none"
      BY <2>1, <2>2, SMT DEF Shape, SettingsSteps, Calls
    <3>2. Here(q, "swrite")
      BY <1>1, <2>1, <2>5, <3>1 DEF Here, At
    <3>3. w \in late'
      BY <2>5, <3>2 DEF ClaudeWrites
    <3> QED  BY <1>2, <2>3, <2>5, <3>3, SMT
  <2> QED  BY <2>4, <2>5
<1>6. Shaped' /\ Published' /\ AdoptAlone' /\ SettingsAlone'
  BY <1>1, CallsStay DEF team
<1>7. Launched'
  BY <1>1, LaunchedStays, SMT DEF IInv, team, TeamsTypeOK
<1>8. MainStays' /\ OrcaSound' /\ GoSound'
  BY <1>1 DEF IInv, MainStays, OrcaSound, AsAsked, Uncut, GoSound, GoLinked, Works, Site, places,
     tree, team
<1> QED  BY <1>4, <1>5, <1>6, <1>7, <1>8 DEF IInv

LEMMA SessionWritesKeeps == ASSUME IInv, NEW w \in Sites, SessionWrites(w) PROVE IInv'
<1>1. /\ UNCHANGED <<places, aside, store, config, team, call, late>> /\ TeamsTypeOK
      /\ spent' \in Tally /\ spent'.removed = spent.removed
  BY Frame DEF SessionWrites, IInv
<1>2. /\ lets' \in [Sites -> LetsKinds] /\ lets'[w] \in {"cache", "data"}
      /\ lets[w] \in {"absent", "cache"} /\ \A v \in Sites : v # w => lets'[v] = lets[v]
  BY <1>1, SMT DEF SessionWrites, TeamsTypeOK, LetsKinds
<1>3. TeamsTypeOK'
  BY <1>1, <1>2 DEF TeamsTypeOK, Tally, places, config, team
<1>4. SawIt'
  BY <1>1 DEF IInv, SawIt, Site, config
<1>5. Shaped' /\ Published' /\ AdoptAlone' /\ SettingsAlone'
  BY <1>1, CallsStay DEF team
<1>6. Launched'
  BY <1>1, LaunchedStays, SMT DEF IInv, team, TeamsTypeOK
<1>7. \A v \in Sites : lets[v] = "main" <=> lets'[v] = "main"
  BY <1>2, SMT
<1>8. MainStays'
  <2>1. \A q \in Procs : Site(q) \in Sites  BY SMT DEF IInv, TeamsTypeOK, Calls, Site
  <2> QED  BY <1>1, <1>7, <2>1 DEF IInv, MainStays, Site
<1>9. OrcaSound'
  BY <1>1, <1>7, TeamsAssumption DEF IInv, OrcaSound, AsAsked, Uncut, Works, Site, places, team
<1>10. GoSound'
  <2>1. lets'[GoSite] \notin {"elsewhere", "file"}
    BY <1>2, TeamsAssumption, SMT DEF IInv, GoSound
  <2>2. GoLinked => GoLinked'
    BY <1>1, <1>7, TeamsAssumption DEF GoLinked
  <2> QED  BY <1>1, <2>1, <2>2 DEF IInv, GoSound, Works, Site, places, team
<1> QED  BY <1>3, <1>4, <1>5, <1>6, <1>8, <1>9, <1>10 DEF IInv

LEMMA PersonWritesKeeps == ASSUME IInv, NEW w \in Sites, PersonWrites(w) PROVE IInv'
<1>1. /\ UNCHANGED <<places, tree, config, task, leads, call, late>> /\ TeamsTypeOK
      /\ spent' \in Tally /\ spent'.removed = spent.removed
  BY Frame DEF PersonWrites, IInv
<1>2. /\ files \subseteq files'
      /\ files' \subseteq [name : {Name} \cup Other, site : Sites, good : BOOLEAN]
      /\ unread' \subseteq Sites
  BY <1>1 DEF PersonWrites, Claiming, TeamsTypeOK
<1>3. TeamsTypeOK'
  BY <1>1, <1>2 DEF TeamsTypeOK, Tally, places, tree, config
<1>4. Shaped' /\ Published' /\ AdoptAlone' /\ SettingsAlone'
  BY <1>1, <1>2, CallsStay
<1>5. Launched'
  BY <1>1, <1>2, LaunchedStays, SMT DEF IInv, TeamsTypeOK
<1>6. SawIt' /\ MainStays' /\ OrcaSound' /\ GoSound'
  BY <1>1 DEF IInv, SawIt, MainStays, OrcaSound, AsAsked, Uncut, GoSound, GoLinked, Works, Site,
     places, tree, config
<1> QED  BY <1>3, <1>4, <1>5, <1>6 DEF IInv

LEMMA LeadEndsKeeps == ASSUME IInv, NEW w \in Sites, LeadEnds(w) PROVE IInv'
<1>1. /\ UNCHANGED <<places, tree, config, files, task, unread, call, late>> /\ TeamsTypeOK
      /\ spent' \in Tally /\ spent'.removed = spent.removed
  BY Frame DEF LeadEnds, IInv
<1>2. /\ leads' \in [Sites -> Nat]
      /\ \A v \in Sites : leads'[v] <= leads[v] /\ (leads[v] = 0 => leads'[v] = 0)
      /\ \A v \in Sites : leads'[v] > 0 => leads[v] > 0
  <2>1. leads \in [Sites -> Nat] /\ leads[w] > 0 /\ leads' = [leads EXCEPT ![w] = leads[w] - 1]
    BY DEF LeadEnds, IInv, TeamsTypeOK
  <2> QED  BY <2>1, SMT
<1>3. TeamsTypeOK'
  BY <1>1, <1>2 DEF TeamsTypeOK, Tally, places, tree, config
<1>4. Shaped' /\ Published' /\ AdoptAlone' /\ SettingsAlone'
  BY <1>1, CallsStay
<1>5. Launched'
  <2>1. leads \in [Sites -> Nat] /\ leads' \in [Sites -> Nat]
    BY <1>1, <1>2 DEF TeamsTypeOK
  <2>2. \A v \in Sites : leads'[v] > 0 => leads[v] > 0 /\ leads'[v] <= leads[v]
    BY <1>2
  <2> QED  BY <1>1, <2>1, <2>2, LaunchedStays DEF IInv
<1>6. SawIt' /\ MainStays'
  BY <1>1 DEF IInv, SawIt, MainStays, Site, tree, config
<1>7. OrcaSound'
  BY <1>1, <1>2, TeamsAssumption DEF IInv, OrcaSound, AsAsked, Uncut, Works, Site, places, tree
<1>8. GoSound'
  BY <1>1, <1>2, TeamsAssumption DEF IInv, GoSound, GoLinked, Works, Site, places, tree
<1> QED  BY <1>3, <1>4, <1>5, <1>6, <1>7, <1>8 DEF IInv

-----------------------------------------------------------------------------
LEMMA Starts == Init => IInv
<1> SUFFICES ASSUME Init PROVE IInv
  OBVIOUS
<1>1. PICK b \in Beginnings :
        /\ lets = [w \in Sites |-> IF w \in git THEN b.lets ELSE "absent"]
        /\ store = [w \in Sites |-> IF w \in git THEN b.store ELSE "absent"]
  BY DEF Init
<1>2. b.lets \in LetsKinds /\ b.store \in StoreKinds
  BY BeginningsAssumption
<1>3. lets \in [Sites -> LetsKinds] /\ store \in [Sites -> StoreKinds]
  BY <1>1, <1>2, SMT DEF LetsKinds, StoreKinds
<1>4. OrcaSite \in Sites /\ GoSite \in Sites /\ GoSite \notin git
  BY TeamsAssumption DEF Init
<1>5. call \in [Procs -> Calls] /\ Shaped /\ \A p \in Procs : call[p] = Idle
  BY IdleShape DEF Init, Shaped
<1>6. spent \in [calls : Nat, orca : Nat, writes : Nat, removed : BOOLEAN]
  BY SMT DEF Init
<1>7. TeamsTypeOK
  <2>1. /\ git \subseteq Sites /\ orca \subseteq Sites /\ late \subseteq Sites
        /\ asked \in BOOLEAN /\ odd \in {"no", "cut", "agent", "warned"} /\ unread \subseteq Sites
        /\ exclude \subseteq Lines
        /\ files \subseteq [name : {Name} \cup Other, site : Sites, good : BOOLEAN]
        /\ aside \in [Sites -> SUBSET (LetsKinds \ {"absent"})]
        /\ settings \in [Sites -> SUBSET Entries] /\ task \in [Sites -> {"none", "guess"}]
    BY DEF Init
  <2>2. leads \in [Sites -> Nat]
    BY SMT DEF Init
  <2> QED  BY <1>3, <1>5, <1>6, <2>1, <2>2 DEF TeamsTypeOK
<1>8. \A p \in Procs : /\ call[p].want = "dir" /\ call[p].doing = "none"
                       /\ call[p].step \notin SettingsSteps /\ call[p].step = "end"
  BY <1>5, SMT DEF Idle, SettingsSteps
<1>9. \A w \in Sites : leads[w] = 0 /\ ~(leads[w] > 0)
  BY SMT DEF Init
<1>10. Published /\ Launched
  BY <1>8, <1>9 DEF Published, Launched, OneLead, Publishing
<1>11. AdoptAlone /\ SettingsAlone /\ SawIt /\ MainStays
  BY <1>8, SMT DEF AdoptAlone, SettingsAlone, SawIt, MainStays, HoldsAdopt, HoldsSettings
<1>12. OrcaSound
  BY <1>4, <1>8, <1>9, SMT DEF OrcaSound, Works
<1>13. GoSound
  <2>1. lets[GoSite] = "absent"  BY <1>1, <1>4
  <2> QED  BY <1>4, <1>8, <1>9, <2>1, SMT DEF GoSound, Works
<1> QED  BY <1>5, <1>7, <1>10, <1>11, <1>12, <1>13 DEF IInv

LEMMA StepKeeps == IInv /\ [Next]_teamsVars => IInv'
<1> SUFFICES ASSUME IInv, [Next]_teamsVars PROVE IInv'
  OBVIOUS
<1>1. CASE UNCHANGED teamsVars
  <2>1. UNCHANGED <<git, orca, asked, odd, lets, aside, store, settings, exclude, files, task,
                    leads, unread, call, late, spent>>
    BY <1>1 DEF teamsVars, places, tree, config, team
  <2>2. TeamsTypeOK' /\ Shaped' /\ Published' /\ Launched'
    BY <2>1 DEF IInv, TeamsTypeOK, Shaped, Published, Launched, OneLead, Publishing, Site, TheFile
  <2>3. AdoptAlone' /\ SettingsAlone' /\ SawIt' /\ MainStays' /\ OrcaSound' /\ GoSound'
    BY <2>1 DEF IInv, AdoptAlone, SettingsAlone, SawIt, MainStays, OrcaSound, GoSound, GoLinked,
       AsAsked, Uncut, HoldsAdopt, HoldsSettings, Works, Site
  <2> QED  BY <2>2, <2>3 DEF IInv
<1>2. CASE OrcaFinishes
  BY <1>2, OrcaFinishesKeeps
<1>3. ASSUME NEW p \in Procs, Begin(p) \/ CreateStep(p)  PROVE IInv'
  BY <1>3, BeginKeeps, CheckKeeps, PsKeeps, OrcaCreateKeeps, ReadGitKeeps, ReadRowKeeps,
     VerifyKeeps, TerminalsKeeps, GoAddKeeps DEF CreateStep
<1>4. ASSUME NEW p \in Procs, LinkStep(p)  PROVE IInv'
  BY <1>4, LockKeeps, LookKeeps, UnlinkKeeps, PurgeKeeps, AsideKeeps, LinkStepKeeps, LinkFailsKeeps,
     StoreKeeps, ExReadKeeps, ExWriteKeeps, GoneKeeps DEF LinkStep
<1>5. ASSUME NEW p \in Procs, MergeStep(p) \/ TeamStep(p) \/ Dies(p)  PROVE IInv'
  BY <1>5, SLockKeeps, SReadKeeps, SCheckKeeps, RereadKeeps, SWriteKeeps, TaskLookKeeps, TaskKeeps,
     InitTeamKeeps, PublishKeeps, LaunchKeeps, ListKeeps, RemoveKeeps, DiesKeeps DEF MergeStep, TeamStep
<1>6. ASSUME NEW w \in Sites,
             ClaudeWrites(w) \/ SessionWrites(w) \/ PersonWrites(w) \/ LeadEnds(w)
      PROVE  IInv'
  BY <1>6, ClaudeWritesKeeps, SessionWritesKeeps, PersonWritesKeeps, LeadEndsKeeps
<1> QED  BY <1>1, <1>2, <1>3, <1>4, <1>5, <1>6 DEF Next

(* The parts of the invariant hold together of every state of the flows,   *)
(* for any number of callers, worktrees, failures and writes.              *)
THEOREM TeamsInvariance == TeamsSpec => []IInv
  BY Starts, StepKeeps, PTL DEF TeamsSpec

(* Every variable of the flows keeps its type, the record of each call     *)
(* included.                                                               *)
THEOREM TeamsTypes == TeamsSpec => []TeamsTypeOK
<1>1. IInv => TeamsTypeOK
  BY DEF IInv
<1> QED  BY <1>1, TeamsInvariance, PTL

(* At most one lead of a callsign runs, in a worktree that its team file   *)
(* names and that was made and linked as the flow verified                 *)
(* (publishNoOverwrite, TeamCreate, linkLets).                             *)
THEOREM LeadsAreSetUp == TeamsSpec => []LeadSetUp
<1>1. IInv => LeadSetUp
  <2> SUFFICES ASSUME IInv PROVE LeadSetUp
    OBVIOUS
  <2>1. git \subseteq Sites
    BY DEF IInv, TeamsTypeOK
  <2>2. \A w \in git : leads[w] > 0 => \E f \in files : f.name = Name /\ f.site = w
    BY <2>1 DEF IInv, Launched, TheFile
  <2>3. ~spent.removed /\ leads[OrcaSite] > 0 => odd \in {"no", "warned"} /\ lets[OrcaSite] = "main"
    BY DEF IInv, OrcaSound, AsAsked
  <2>4. leads[GoSite] > 0 => lets[GoSite] = "main" \/ "main" \in aside[GoSite]
    BY DEF IInv, GoSound, GoLinked
  <2> QED  BY <2>2, <2>3, <2>4 DEF LeadSetUp, IInv, Launched
<1> QED  BY <1>1, TeamsInvariance, PTL

-----------------------------------------------------------------------------
(* What one step leaves of a worktree that stays.                          *)
Left(w) ==
  /\ lets[w] = "data" /\ w # GoSite => lets'[w] = "data" \/ "data" \in aside'[w]
  /\ aside[w] \subseteq aside'[w]
  /\ settings[w] \subseteq settings'[w] \cup (IF w \in late THEN {"own"} ELSE {})

LEMMA BareLeaves ==
  ASSUME IInv, NEW v \in Sites, Bare(v), NEW w \in Sites, w # v
  PROVE  Left(w)
<1>1. lets'[w] = lets[w] /\ aside'[w] = aside[w] /\ settings'[w] = settings[w]
  BY SMT DEF Bare, IInv, TeamsTypeOK
<1> QED  BY <1>1 DEF Left

LEMMA LinksLeave ==
  ASSUME IInv, NEW p \in Procs, Unlink(p) \/ Purge(p) \/ Aside(p) \/ Link(p), NEW w \in Sites
  PROVE  Left(w)
<1>1. /\ Site(p) \in Sites /\ lets \in [Sites -> LetsKinds] /\ settings' = settings
      /\ aside \in [Sites -> SUBSET (LetsKinds \ {"absent"})]
  BY SMT DEF IInv, TeamsTypeOK, Calls, Site, Unlink, Purge, Aside, Link, config
<1>2. CASE Unlink(p) \/ Link(p)
  <2>1. aside' = aside /\ (lets[w] = "data" => lets'[w] = "data")
    BY <1>1, <1>2, SMT DEF Unlink, Link, Kind
  <2> QED  BY <1>1, <2>1 DEF Left
<1>3. CASE Purge(p)
  <2>1. Site(p) = GoSite
    BY <1>3, SMT DEF Purge, Here, At, IInv, Shaped, Shape, TeamsTypeOK, Calls, Site
  <2>2. aside' = aside /\ (w # GoSite => lets'[w] = lets[w])
    BY <1>1, <1>3, <2>1 DEF Purge
  <2> QED  BY <1>1, <2>2 DEF Left
<1>4. CASE Aside(p)
  <2>1. /\ aside[w] \subseteq aside'[w]
        /\ lets[w] = "data" => lets'[w] = "data" \/ "data" \in aside'[w]
    <3>1. CASE w # Site(p)
      BY <1>1, <1>4, <3>1, SMT DEF Aside
    <3>2. CASE w = Site(p)
      <4>1. aside'[w] = aside[w] \cup ({lets[w]} \ {"absent"})
        BY <1>1, <1>4, <3>2 DEF Aside, Kind
      <4> QED  BY <4>1, SMT
    <3> QED  BY <3>1, <3>2
  <2> QED  BY <1>1, <2>1 DEF Left
<1> QED  BY <1>2, <1>3, <1>4

LEMMA WriteLeaves == ASSUME IInv, NEW p \in Procs, SWrite(p), NEW w \in Sites PROVE Left(w)
<1>1. /\ UNCHANGED tree /\ Site(p) \in Sites /\ call[p].alive /\ call[p].step = "swrite"
      /\ settings \in [Sites -> SUBSET Entries]
      /\ settings' = [settings EXCEPT ![Site(p)] = call[p].saw \cup {call[p].want}]
  BY SMT DEF SWrite, Here, At, IInv, TeamsTypeOK, Calls, Site
<1>2. settings[Site(p)] \subseteq call[p].saw \cup (IF Site(p) \in late THEN {"own"} ELSE {})
  BY <1>1 DEF IInv, SawIt
<1>3. settings[w] \subseteq settings'[w] \cup (IF w \in late THEN {"own"} ELSE {})
  <2>1. CASE w # Site(p)
    <3>1. settings'[w] = settings[w]  BY <1>1, <2>1
    <3> QED  BY <3>1
  <2>2. CASE w = Site(p)
    <3>1. settings'[w] = call[p].saw \cup {call[p].want}  BY <1>1, <2>2
    <3> QED  BY <1>2, <2>2, <3>1, SMT
  <2> QED  BY <2>1, <2>2
<1> QED  BY <1>1, <1>3 DEF Left, tree

LEMMA OthersLeave ==
  ASSUME IInv, NEW v \in Sites, ClaudeWrites(v) \/ SessionWrites(v), NEW w \in Sites
  PROVE  Left(w)
<1>1. lets \in [Sites -> LetsKinds] /\ settings \in [Sites -> SUBSET Entries]
  BY DEF IInv, TeamsTypeOK
<1>2. CASE ClaudeWrites(v)
  <2>1. settings[w] \subseteq settings'[w]
    BY <1>1, <1>2, SMT DEF ClaudeWrites
  <2> QED  BY <1>2, <2>1 DEF Left, ClaudeWrites, tree
<1>3. CASE SessionWrites(v)
  <2>1. lets[w] = "data" => lets'[w] = "data"
    BY <1>1, <1>3, SMT DEF SessionWrites
  <2> QED  BY <1>3, <2>1 DEF Left, SessionWrites, config
<1> QED  BY <1>2, <1>3

(* Every other step leaves the worktrees' files alone, or has just made or *)
(* removed the one it empties.                                             *)
LEMMA StepLeaves == ASSUME IInv, [Next]_teamsVars, NEW w \in git \cap git' PROVE Left(w)
<1>1. w \in Sites /\ OrcaSite \in Sites /\ GoSite \in Sites
  BY TeamsAssumption DEF IInv, TeamsTypeOK
<1>2. ASSUME UNCHANGED <<tree, config>>  PROVE Left(w)
  BY <1>2 DEF Left, tree, config
<1>3. ASSUME NEW listed, NEW wrong, Made(listed, wrong), BranchFree  PROVE Left(w)
  <2>1. w # OrcaSite  BY <1>3 DEF BranchFree
  <2> QED  BY <1>1, <1>3, <2>1, BareLeaves DEF Made
<1>4. ASSUME NEW p \in Procs, GivesUp(p)  PROVE Left(w)
  <2>1. CASE git' = git \ {Site(p)} /\ Bare(Site(p))
    <3>1. w # Site(p) /\ Site(p) \in Sites
      BY <2>1, SMT DEF IInv, TeamsTypeOK, Calls, Site
    <3> QED  BY <1>1, <2>1, <3>1, BareLeaves
  <2> QED  BY <1>2, <1>4, <2>1 DEF GivesUp
<1>5. CASE UNCHANGED teamsVars
  BY <1>2, <1>5 DEF teamsVars
<1>6. CASE OrcaFinishes
  BY <1>3, <1>6 DEF OrcaFinishes, Done
<1>7. ASSUME NEW p \in Procs, Begin(p)  PROVE Left(w)
  BY <1>2, <1>7 DEF Begin, BeginTeam, BeginAdopt, BeginHeal, BeginInit, BeginRemove, Begins
<1>8. ASSUME NEW p \in Procs, CreateStep(p)  PROVE Left(w)
  <2>1. CASE OrcaCreate(p)
    BY <1>2, <1>3, <2>1 DEF OrcaCreate, Done
  <2>2. CASE GoAdd(p)
    <3>1. CASE BranchFree /\ Bare(GoSite)
      <4>1. w # GoSite  BY <3>1 DEF BranchFree
      <4> QED  BY <1>1, <3>1, <4>1, BareLeaves
    <3> QED  BY <1>2, <2>2, <3>1 DEF GoAdd
  <2> QED  BY <1>2, <1>8, <2>1, <2>2 DEF CreateStep, Check, Ps, ReadGit, ReadRow, Verify,
     Terminals
<1>9. ASSUME NEW p \in Procs, LinkStep(p)  PROVE Left(w)
  <2>1. CASE Unlink(p) \/ Purge(p) \/ Aside(p) \/ Link(p)
    BY <1>1, <2>1, LinksLeave
  <2>2. CASE Look(p) \/ LinkFails(p)
    BY <1>2, <1>4, <2>2 DEF Look, LinkFails
  <2>3. CASE Store(p)
    BY <1>4, <2>3 DEF Store, Left, config
  <2>4. CASE Lock(p) \/ ExRead(p) \/ ExWrite(p) \/ Gone(p)
    BY <2>4 DEF Left, Lock, ExRead, ExWrite, Gone, tree, config
  <2> QED  BY <1>9, <2>1, <2>2, <2>3, <2>4 DEF LinkStep
<1>10. ASSUME NEW p \in Procs, MergeStep(p)  PROVE Left(w)
  BY <1>1, <1>2, <1>10, WriteLeaves DEF MergeStep, SLock, SRead, SCheck, Reread
<1>11. ASSUME NEW p \in Procs, TeamStep(p)  PROVE Left(w)
  <2>1. CASE Remove(p)
    <3>1. CASE git' = git \ {OrcaSite} /\ Bare(OrcaSite)
      BY <1>1, <3>1, BareLeaves
    <3> QED  BY <1>2, <2>1, <3>1 DEF Remove, Removed
  <2> QED  BY <1>2, <1>11, <2>1 DEF TeamStep, TaskLook, Task, InitTeam, Publish, Launch, List
<1>12. ASSUME NEW p \in Procs, Dies(p)  PROVE Left(w)
  BY <1>2, <1>12 DEF Dies
<1>13. ASSUME NEW v \in Sites,
              ClaudeWrites(v) \/ SessionWrites(v) \/ PersonWrites(v) \/ LeadEnds(v)
       PROVE  Left(w)
  BY <1>1, <1>2, <1>13, OthersLeave DEF PersonWrites, LeadEnds
<1> QED  BY <1>5, <1>6, <1>7, <1>8, <1>9, <1>10, <1>11, <1>12, <1>13 DEF Next

(* No step of a command takes what a session stored in a worktree that     *)
(* stays: .lets moves aside at most, the settings file loses only what was *)
(* written between a call's last look and its rename (linkLets, Reread).   *)
THEOREM NothingIsTaken == TeamsSpec => NothingTaken
<1>1. IInv /\ [Next]_teamsVars =>
        [\A w \in git \cap git' :
           /\ lets[w] = "data" /\ w # GoSite => lets'[w] = "data" \/ "data" \in aside'[w]
           /\ aside[w] \subseteq aside'[w]
           /\ settings[w] \subseteq settings'[w] \cup (IF w \in late THEN {"own"} ELSE {})]_teamsVars
  BY StepLeaves, Zenon DEF Left
<1> QED  BY <1>1, TeamsInvariance, PTL DEF TeamsSpec, NothingTaken

(* The answer a call is about to act on: nobody has claimed the worktree   *)
(* since, or somebody just did.                                            *)
Guessed(p) == At(p, "record") /\ call[p].guess
Free(w) == ~TeamNamed(w) /\ (Claims(w) = {} \/ w \in unread)
GuessHolds == \A p \in Procs : Guessed(p) => Free(Site(p))

(* A step that brings no call to the write of a task.                      *)
Elsewhere(p) ==
  \E d : call' = [call EXCEPT ![p] = d] /\ (d.step = "record" => ~d.alive)

LEMMA GoElsewhere ==
  ASSUME IInv, NEW p \in Procs, NEW s \in Steps \ {"record"}, Go(p, s)
  PROVE  Elsewhere(p)
<1>1. PICK d \in Calls : call' = [call EXCEPT ![p] = d] /\ d.step = s
  BY GoFacts
<1> QED  BY <1>1 DEF Elsewhere

LEMMA EndsElsewhere == ASSUME NEW p \in Procs, Ends(p) PROVE Elsewhere(p)
<1>1. Idle.step # "record"
  BY SMT DEF Idle
<1> QED  BY <1>1 DEF Ends, Elsewhere

LEMMA StayGuessed ==
  ASSUME IInv, NEW p \in Procs, Elsewhere(p), NEW q \in Procs, Guessed(q)'
  PROVE  Guessed(q) /\ call'[q] = call[q]
<1>1. PICK d : call' = [call EXCEPT ![p] = d] /\ (d.step = "record" => ~d.alive)
  BY DEF Elsewhere
<1>2. call \in [Procs -> Calls]
  BY DEF IInv, TeamsTypeOK
<1>3. call'[p] = d /\ (q # p => call'[q] = call[q])
  BY <1>1, <1>2
<1>4. q # p
  BY <1>1, <1>3 DEF Guessed, At
<1> QED  BY <1>3, <1>4 DEF Guessed, At

(* Every step of a command but the look.                                   *)
LEMMA MergeElsewhere ==
  ASSUME IInv, NEW p \in Procs, AfterMerge(p)  PROVE Elsewhere(p)
<1> DEFINE c == [[call[p] EXCEPT !.saw = {}] EXCEPT !.tries = 0]
<1>1. call[p] \in Calls
  BY DEF IInv, TeamsTypeOK
<1>2. c \in Calls
  <2>1. {} \in SUBSET Entries /\ 0 \in 0..3  BY SMT
  <2>2. [call[p] EXCEPT !.saw = {}] \in Calls  BY <1>1, <2>1, SetSaw
  <2> QED  BY <2>1, <2>2, SetTries
<1>3. [call[p] EXCEPT !.saw = {}, !.tries = 0] = c
  OBVIOUS
<1> HIDE DEF c
<1>4. \/ \E s \in {"launch", "task", "init"} : call' = [call EXCEPT ![p] = [c EXCEPT !.step = s]]
      \/ Ends(p)
  BY <1>3, Zenon DEF AfterMerge, Ends
<1>5. ASSUME NEW s \in {"launch", "task", "init"},
             call' = [call EXCEPT ![p] = [c EXCEPT !.step = s]]
      PROVE  Elsewhere(p)
  <2>1. [c EXCEPT !.step = s].step # "record"
    BY <1>2, SMT DEF Calls
  <2> QED  BY <1>5, <2>1 DEF Elsewhere
<1> QED  BY <1>4, <1>5, EndsElsewhere

LEMMA BeginElsewhere == ASSUME IInv, NEW p \in Procs, Begin(p) PROVE Elsewhere(p)
<1>1. \E doing, w, locks : \E step \in {"check", "lock", "slock", "init", "list"} :
        Begins(p, doing, step, w, locks)
  BY DEF Begin, BeginTeam, BeginAdopt, BeginHeal, BeginInit, BeginRemove
<1>2. PICK doing, w, locks : \E step \in {"check", "lock", "slock", "init", "list"} :
        Begins(p, doing, step, w, locks)
  BY <1>1
<1>3. PICK step \in {"check", "lock", "slock", "init", "list"} : Begins(p, doing, step, w, locks)
  BY <1>2
<1> DEFINE d == [Idle EXCEPT !.doing = doing, !.step = step, !.site = w, !.locks = locks]
<1>4. d.step = step
  BY SMT DEF Idle
<1>5. call' = [call EXCEPT ![p] = d]
  BY <1>3 DEF Begins
<1>6. d.step # "record"
  BY <1>4, SMT
<1> HIDE DEF d
<1> QED  BY <1>5, <1>6 DEF Elsewhere

LEMMA CreateElsewhere == ASSUME IInv, NEW p \in Procs, CreateStep(p) PROVE Elsewhere(p)
<1>1. {"ps", "add", "create", "verify", "terminals", "lock"} \subseteq Steps \ {"record"}
  BY SMT DEF Steps, AdoptSteps, SettingsSteps
<1>2. call[p] \in Calls
  BY DEF IInv, TeamsTypeOK
<1>3. ASSUME NEW s \in {"ps", "add", "create", "verify", "terminals", "lock"},
             Ends(p) \/ Go(p, s)
      PROVE  Elsewhere(p)
  BY <1>1, <1>3, EndsElsewhere, GoElsewhere
<1>4. CASE OrcaCreate(p)
  <2>1. [call[p] EXCEPT !.step = "git", !.site = OrcaSite].step # "record"
    BY <1>2, SMT DEF Calls
  <2> QED  BY <1>4, <2>1 DEF OrcaCreate, Elsewhere
<1>5. CASE ReadGit(p)
  <2>1. [call[p] EXCEPT !.step = "row", !.there = OrcaSite \in git].step # "record"
    BY <1>2, SMT DEF Calls
  <2> QED  BY <1>5, <2>1 DEF ReadGit, Elsewhere
<1>6. CASE GoAdd(p)
  <2>1. [call[p] EXCEPT !.step = "look", !.site = GoSite, !.locks = FALSE].step # "record"
    BY <1>2, SMT DEF Calls
  <2>2. \/ Ends(p)
        \/ call' = [call EXCEPT ![p] =
                       [call[p] EXCEPT !.step = "look", !.site = GoSite, !.locks = FALSE]]
    BY <1>6 DEF GoAdd
  <2> QED  BY <2>1, <2>2, EndsElsewhere DEF Elsewhere
<1>7. CASE Check(p) \/ Ps(p) \/ ReadRow(p) \/ Verify(p) \/ Terminals(p)
  BY <1>3, <1>7 DEF Check, Ps, NotAttempted, ReadRow, Verify, Terminals, GoOr
<1> QED  BY <1>4, <1>5, <1>6, <1>7 DEF CreateStep

LEMMA LinkElsewhere == ASSUME IInv, NEW p \in Procs, LinkStep(p) PROVE Elsewhere(p)
<1>1. /\ {"look", "link", "store", "unlink", "aside", "purge", "exread"} \subseteq Steps \ {"record"}
  BY SMT DEF Steps, AdoptSteps
<1>2. call[p] \in Calls
  BY DEF IInv, TeamsTypeOK
<1>3. ASSUME NEW s \in {"look", "link", "store", "unlink", "aside", "purge", "exread"},
             Ends(p) \/ Go(p, s)
      PROVE  Elsewhere(p)
  BY <1>1, <1>3, EndsElsewhere, GoElsewhere
<1>4. ASSUME LookAgain(p)  PROVE Elsewhere(p)
  <2>1. [call[p] EXCEPT !.step = "look", !.tries = call[p].tries + 1].step # "record"
    BY <1>2, SMT DEF Calls
  <2> QED  BY <1>4, <2>1 DEF LookAgain, Elsewhere
<1>5. CASE ExRead(p) \/ ExWrite(p)
  <2>1. \E e, s : /\ call' = [call EXCEPT ![p] = [call[p] EXCEPT !.ex = e, !.step = s]]
                  /\ s \in {"slock", "exwrite", "scheck", "sexwrite"}
    BY <1>5, Zenon DEF ExRead, ExWrite, ReadsExclude, WritesExclude
  <2>2. PICK e, s : /\ call' = [call EXCEPT ![p] = [call[p] EXCEPT !.ex = e, !.step = s]]
                    /\ s \in {"slock", "exwrite", "scheck", "sexwrite"}
    BY <2>1
  <2>3. [call[p] EXCEPT !.ex = e, !.step = s].step # "record"
    BY <1>2, <2>2, SMT DEF Calls
  <2> QED  BY <2>2, <2>3 DEF Elsewhere
<1>6. CASE Lock(p) \/ Unlink(p) \/ Purge(p) \/ Store(p) \/ Gone(p) \/ LinkFails(p)
  BY <1>3, <1>6 DEF Lock, Unlink, Purge, Store, Gone, LinkFails, GivesUp
<1>7. CASE Aside(p) \/ Link(p)
  BY <1>3, <1>4, <1>7 DEF Aside, Link
<1>8. CASE Look(p)
  <2>1. \/ Ends(p)
        \/ \E s \in {"look", "link", "store", "unlink", "aside", "purge", "exread"} : Go(p, s)
    BY <1>8, Zenon DEF Look, GivesUp
  <2> QED  BY <1>3, <2>1
<1> QED  BY <1>5, <1>6, <1>7, <1>8 DEF LinkStep

LEMMA LastElsewhere ==
  ASSUME IInv, NEW p \in Procs, MergeStep(p) \/ Dies(p) \/ (TeamStep(p) /\ ~TaskLook(p))
  PROVE  Elsewhere(p)
<1>1. {"sread", "reread", "swrite", "publish", "rm"} \subseteq Steps \ {"record"}
  BY SMT DEF Steps, AdoptSteps, SettingsSteps
<1>2. call[p] \in Calls
  BY DEF IInv, TeamsTypeOK
<1>3. ASSUME NEW s \in {"sread", "reread", "swrite", "publish", "rm"},
             Ends(p) \/ Go(p, s) \/ AfterMerge(p)
      PROVE  Elsewhere(p)
  BY <1>1, <1>3, EndsElsewhere, GoElsewhere, MergeElsewhere
<1>4. CASE SRead(p)
  <2>1. \/ AfterMerge(p)
        \/ \E s \in {"reread", "sexread"} :
             call' = [call EXCEPT ![p] = [call[p] EXCEPT !.saw = settings[Site(p)], !.step = s]]
    BY <1>4, Zenon DEF SRead
  <2>2. ASSUME NEW s \in {"reread", "sexread"}
        PROVE  [call[p] EXCEPT !.saw = settings[Site(p)], !.step = s].step # "record"
    BY <1>2, SMT DEF Calls
  <2> QED  BY <2>1, <2>2, MergeElsewhere DEF Elsewhere
<1>5. CASE Dies(p)
  <2>1. ~[call[p] EXCEPT !.alive = FALSE].alive
    BY <1>2, SMT DEF Calls
  <2> QED  BY <1>5, <2>1 DEF Dies, Elsewhere
<1>6. CASE Task(p)
  <2> DEFINE c == [call[p] EXCEPT !.guess = FALSE]
  <2>1. c \in Calls
    BY <1>2, SetGuess
  <2>2. [c EXCEPT !.step = "init"].step # "record"
        /\ [c EXCEPT !.locks = FALSE, !.step = "slock"].step # "record"
    BY <2>1, SMT DEF Calls
  <2>3. \/ call' = [call EXCEPT ![p] = [c EXCEPT !.step = "init"]]
        \/ call' = [call EXCEPT ![p] = [c EXCEPT !.locks = FALSE, !.step = "slock"]]
        \/ Ends(p)
    BY <1>6, Zenon DEF Task, Ends
  <2> HIDE DEF c
  <2> QED  BY <2>2, <2>3, EndsElsewhere DEF Elsewhere
<1>7. CASE Publish(p)
  <2>1. [call[p] EXCEPT !.step = "slock", !.want = "rules"].step # "record"
    BY <1>2, SMT DEF Calls
  <2>2. \/ Ends(p)
        \/ call' = [call EXCEPT ![p] = [call[p] EXCEPT !.step = "slock", !.want = "rules"]]
    BY <1>7 DEF Publish
  <2> QED  BY <2>1, <2>2, EndsElsewhere DEF Elsewhere
<1>8. CASE SLock(p) \/ SCheck(p) \/ Reread(p) \/ SWrite(p)
  BY <1>3, <1>8 DEF SLock, SCheck, Reread, SWrite
<1>9. CASE InitTeam(p) \/ Launch(p) \/ List(p) \/ Remove(p)
  BY <1>3, <1>9 DEF InitTeam, GoOr, Launch, List, Remove
<1> QED  BY <1>4, <1>5, <1>6, <1>7, <1>8, <1>9 DEF MergeStep, TeamStep

(* A first claim on a worktree where a call is about to write is noted.    *)
LEMMA ClaimNoted ==
  ASSUME NEW v \in Sites, Claiming(v), NEW w \in Sites, Claims(w) = {} \/ w \in unread,
         \A f \in files' : f \in files \/ f.site = v,
         \E q \in Procs : At(q, "record") /\ Site(q) = w
  PROVE  Claims(w)' = {} \/ w \in unread'
<1>1. unread \subseteq unread'
  BY DEF Claiming
<1>2. CASE w \in unread
  BY <1>1, <1>2
<1>3. CASE Claims(w) = {} /\ w = v
  BY <1>3 DEF Claiming
<1>4. CASE Claims(w) = {} /\ w # v
  BY <1>4 DEF Claims
<1> QED  BY <1>2, <1>3, <1>4

(* What a step does to the claims and the late ones.                       *)
Noted ==
  \A w \in Sites : (Claims(w) = {} \/ w \in unread)
      /\ (\E q \in Procs : At(q, "record") /\ Site(q) = w) => Claims(w)' = {} \/ w \in unread'

LEMMA StepNotes ==
  ASSUME IInv, Next  PROVE Noted \/ \E p \in Procs : TaskLook(p)
<1>1. ASSUME UNCHANGED <<files, unread>>  PROVE Noted
  BY <1>1 DEF Noted, Claims
<1>2. ASSUME NEW v \in Sites, Claiming(v), \A f \in files' : f \in files \/ f.site = v
      PROVE  Noted
  BY <1>2, ClaimNoted, Zenon DEF Noted
<1>3. ASSUME NEW p \in Procs, Begin(p) \/ CreateStep(p) \/ LinkStep(p) \/ MergeStep(p) \/ Dies(p)
      PROVE  UNCHANGED <<files, unread>>
  <2>1. CASE Begin(p)
    BY <2>1 DEF Begin, BeginTeam, BeginAdopt, BeginHeal, BeginInit, BeginRemove, Begins, team
  <2>2. CASE CreateStep(p)
    BY <2>2 DEF CreateStep, Check, Ps, OrcaCreate, ReadGit, ReadRow, Verify, Terminals, GoAdd, team
  <2>3. CASE LinkStep(p)
    BY <2>3 DEF LinkStep, Lock, Look, Unlink, Purge, Aside, Link, LinkFails, Store, ExRead,
       ExWrite, Gone, team
  <2>4. CASE MergeStep(p) \/ Dies(p)
    BY <2>4 DEF MergeStep, SLock, SRead, SCheck, Reread, SWrite, Dies, team
  <2> QED  BY <1>3, <2>1, <2>2, <2>3, <2>4
<1>4. ASSUME NEW p \in Procs, TeamStep(p), ~TaskLook(p)  PROVE Noted
  <2>1. CASE Publish(p)
    <3>1. Site(p) \in Sites
      BY SMT DEF IInv, TeamsTypeOK, Calls, Site
    <3>2. TheFile(Site(p)).site = Site(p)
      BY DEF TheFile
    <3>3. CASE UNCHANGED <<files, unread>>
      BY <1>1, <3>3
    <3>4. CASE files' = files \cup {TheFile(Site(p))} /\ Claiming(Site(p))
      BY <1>2, <3>1, <3>2, <3>4
    <3> QED  BY <2>1, <3>3, <3>4 DEF Publish
  <2>2. CASE Task(p) \/ InitTeam(p) \/ Launch(p) \/ List(p) \/ Remove(p)
    BY <1>1, <2>2 DEF Task, InitTeam, Launch, List, Remove, team
  <2> QED  BY <1>4, <2>1, <2>2 DEF TeamStep
<1>5. ASSUME NEW v \in Sites,
             ClaudeWrites(v) \/ SessionWrites(v) \/ PersonWrites(v) \/ LeadEnds(v)
      PROVE  Noted
  <2>1. CASE PersonWrites(v)
    <3>1. Claiming(v) /\ \A f \in files' : f \in files \/ f.site = v
      BY <2>1 DEF PersonWrites
    <3> QED  BY <1>2, <3>1
  <2> QED  BY <1>1, <1>5, <2>1 DEF ClaudeWrites, SessionWrites, LeadEnds, team
<1>6. CASE OrcaFinishes
  BY <1>1, <1>6 DEF OrcaFinishes, team
<1> QED  BY <1>1, <1>3, <1>4, <1>5, <1>6 DEF Next

(* The look is alone with adopt.lock: no other call is about to write.     *)
LEMMA LookHolds == ASSUME IInv, GuessHolds, NEW p \in Procs, TaskLook(p) PROVE GuessHolds'
<1>1. /\ At(p, "task") /\ Site(p) \in Sites /\ call \in [Procs -> Calls] /\ call[p] \in Calls
      /\ unread' = unread \ {Site(p)} /\ files' = files
  BY SMT DEF TaskLook, Here, IInv, TeamsTypeOK, Calls, Site
<1> DEFINE g == task[Site(p)] = "none" /\ ~TeamNamed(Site(p))
                /\ FindByWorktree(Site(p)) = "none"
           d == [call[p] EXCEPT !.step = "record", !.guess = g]
<1>2. call'[p] = d /\ \A q \in Procs : q # p => call'[q] = call[q]
  <2>1. call' = [call EXCEPT ![p] = d]  BY DEF TaskLook
  <2> HIDE DEF d
  <2> QED  BY <1>1, <2>1
<1>3. d.site = call[p].site /\ d.guess = g
  BY <1>1, SMT DEF Calls
<1> HIDE DEF d
<1>4. SUFFICES ASSUME NEW q \in Procs, Guessed(q)'  PROVE Free(Site(q))'
  BY DEF GuessHolds
<1>5. CASE q = p
  <2>1. g /\ Site(p)' = Site(p)
    BY <1>2, <1>3, <1>4, <1>5 DEF Guessed, Site
  <2>2. Claims(Site(p)) = {}
    BY <2>1 DEF FindByWorktree
  <2> QED  BY <1>1, <1>5, <2>1, <2>2 DEF Free, TeamNamed, Claims
<1>6. CASE q # p
  <2>1. Guessed(q) /\ Site(q)' = Site(q) /\ Site(q) \in Sites
    BY <1>1, <1>2, <1>4, <1>6, SMT DEF Guessed, At, Site, Calls
  <2>2. HoldsAdopt(p) /\ HoldsAdopt(q)
    <3>1. ASSUME NEW r \in Procs, At(r, "task") \/ At(r, "record")  PROVE HoldsAdopt(r)
      BY <1>1, <3>1, SMT DEF IInv, Shaped, Shape, At, HoldsAdopt, AdoptSteps, SettingsSteps, Calls
    <3> QED  BY <1>1, <2>1, <3>1 DEF Guessed
  <2> QED  BY <1>6, <2>2 DEF IInv, AdoptAlone
<1> QED  BY <1>5, <1>6

LEMMA GuessSteps == IInv /\ GuessHolds /\ [Next]_teamsVars => GuessHolds'
<1> SUFFICES ASSUME IInv, GuessHolds, [Next]_teamsVars  PROVE GuessHolds'
  OBVIOUS
<1>1. CASE UNCHANGED teamsVars
  BY <1>1 DEF teamsVars, team, GuessHolds, Guessed, Free, TeamNamed, Claims, At, Site
<1>2. CASE \E p \in Procs : TaskLook(p)
  BY <1>2, LookHolds
<1>3. CASE Next /\ ~\E p \in Procs : TaskLook(p)
  <2>1. Noted
    BY <1>3, StepNotes
  <2>2. ASSUME NEW q \in Procs, Guessed(q)'  PROVE Guessed(q) /\ Site(q)' = Site(q)
    <3>1. ASSUME NEW p \in Procs, Elsewhere(p)  PROVE Guessed(q) /\ Site(q)' = Site(q)
      BY <2>2, <3>1, StayGuessed DEF Site
    <3>2. ASSUME UNCHANGED call  PROVE Guessed(q) /\ Site(q)' = Site(q)
      BY <2>2, <3>2 DEF Guessed, At, Site
    <3>3. ASSUME NEW v \in Sites,
                 ClaudeWrites(v) \/ SessionWrites(v) \/ PersonWrites(v) \/ LeadEnds(v)
          PROVE  UNCHANGED call
      BY <3>3 DEF ClaudeWrites, SessionWrites, PersonWrites, LeadEnds
    <3>4. OrcaFinishes => UNCHANGED call
      BY DEF OrcaFinishes
    <3>5. ASSUME NEW p \in Procs,
                 Begin(p) \/ CreateStep(p) \/ LinkStep(p) \/ MergeStep(p) \/ TeamStep(p) \/ Dies(p)
          PROVE  Elsewhere(p)
      BY <1>3, <3>5, BeginElsewhere, CreateElsewhere, LinkElsewhere, LastElsewhere
    <3> QED  BY <1>3, <3>1, <3>2, <3>3, <3>4, <3>5 DEF Next
  <2>3. SUFFICES ASSUME NEW q \in Procs, Guessed(q)'  PROVE Free(Site(q))'
    BY DEF GuessHolds
  <2>4. Guessed(q) /\ Site(q)' = Site(q) /\ Site(q) \in Sites
    BY <2>2, <2>3, SMT DEF IInv, TeamsTypeOK, Calls, Site
  <2>5. Free(Site(q))
    BY <2>4 DEF GuessHolds
  <2>6. Claims(Site(q))' = {} \/ Site(q) \in unread'
    BY <2>1, <2>4, <2>5, Zenon DEF Noted, Free, Guessed, Claims
  <2> QED  BY <2>4, <2>5, <2>6 DEF Free, TeamNamed, Claims
<1> QED  BY <1>1, <1>2, <1>3

(* adoptTask is the one step that guesses, and what it saw of the team     *)
(* files still holds, but for a file linked after its look (teamWorktree,  *)
(* FindByWorktree).                                                        *)
THEOREM TeamsAreNotGuessed == TeamsSpec => TeamNotGuessed
<1> DEFINE Guesses == \A w \in Sites :
                        task[w] # task'[w] => ~TeamNamed(w) /\ (Claims(w) = {} \/ w \in unread)
<1>1. ASSUME IInv, GuessHolds, NEW p \in Procs, Task(p)  PROVE Guesses
  <2>1. task \in [Sites -> {"none", "guess"}]
    BY <1>1 DEF IInv, TeamsTypeOK
  <2>2. \/ task' = task
        \/ task' = [task EXCEPT ![Site(p)] = "guess"] /\ call[p].guess
    BY <1>1, <2>1, Zenon DEF Task
  <2>3. call[p].guess => Free(Site(p))
    BY <1>1 DEF GuessHolds, Guessed, Task, Here
  <2>4. \A w \in Sites : w # Site(p) => task'[w] = task[w]
    BY <2>1, <2>2, SMT
  <2> QED  BY <2>2, <2>3, <2>4, Zenon DEF Free
<1>2. ASSUME UNCHANGED task  PROVE Guesses
  BY <1>2
<1>3. IInv /\ GuessHolds /\ [Next]_teamsVars => [Guesses]_teamsVars
  <2> SUFFICES ASSUME IInv, GuessHolds, Next PROVE Guesses \/ UNCHANGED teamsVars
    OBVIOUS
  <2>1. ASSUME NEW p \in Procs, Begin(p) \/ CreateStep(p) \/ LinkStep(p) \/ MergeStep(p) \/ Dies(p)
        PROVE  UNCHANGED task
    <3>1. CASE Begin(p)
      BY <3>1 DEF Begin, BeginTeam, BeginAdopt, BeginHeal, BeginInit, BeginRemove, Begins, team
    <3>2. CASE CreateStep(p)
      BY <3>2 DEF CreateStep, Check, Ps, OrcaCreate, ReadGit, ReadRow, Verify, Terminals, GoAdd,
         team
    <3>3. CASE LinkStep(p)
      BY <3>3 DEF LinkStep, Lock, Look, Unlink, Purge, Aside, Link, LinkFails, Store, ExRead,
         ExWrite, Gone, team
    <3>4. CASE MergeStep(p) \/ Dies(p)
      BY <3>4 DEF MergeStep, SLock, SRead, SCheck, Reread, SWrite, Dies, team
    <3> QED  BY <2>1, <3>1, <3>2, <3>3, <3>4
  <2>2. ASSUME NEW p \in Procs, TeamStep(p)  PROVE Task(p) \/ UNCHANGED task
    BY <2>2 DEF TeamStep, TaskLook, InitTeam, Publish, Launch, List, Remove, team
  <2>3. ASSUME NEW v \in Sites,
               ClaudeWrites(v) \/ SessionWrites(v) \/ PersonWrites(v) \/ LeadEnds(v)
        PROVE  UNCHANGED task
    BY <2>3 DEF ClaudeWrites, SessionWrites, PersonWrites, LeadEnds, team
  <2>4. OrcaFinishes => UNCHANGED task
    BY DEF OrcaFinishes, team
  <2> HIDE DEF Guesses
  <2> QED  BY <1>1, <1>2, <2>1, <2>2, <2>3, <2>4 DEF Next
<1>4. Init => GuessHolds
  <2>1. ASSUME Init  PROVE GuessHolds
    BY <2>1, SMT DEF Init, GuessHolds, Guessed, At, Idle
  <2> QED  BY <2>1
<1>5. TeamsSpec => []GuessHolds
  BY <1>4, GuessSteps, TeamsInvariance, PTL DEF TeamsSpec
<1> QED  BY <1>3, <1>5, TeamsInvariance, PTL DEF TeamsSpec, TeamNotGuessed

-----------------------------------------------------------------------------
(***************************************************************************)
(* Handoff into a running session.                                         *)
(*                                                                         *)
(* What lets handoff send keeps for any number of senders, panes, handles  *)
(* and reads: the pointer is typed once at most, into the pane whose lock  *)
(* the call holds, and not over what the screen showed.  The invariant     *)
(* says which of its readings a call at each step can still rely on.       *)
(***************************************************************************)

Working == {"gate", "send", "rejoin"}

HistoryTypes ==
  /\ held \in [Senders -> Panes \cup {None}]
  /\ typed \in [Senders -> Seq(Panes)]

(* The steps that speak of a pane have one.                                *)
Targeted ==
  \A s \in Senders : pc[s] \in {"startup", "lock"} \cup Working => rec[s].pane \in Panes

(* From the gate on a call holds the lock of its target.                   *)
Locked == \A s \in Senders : pc[s] \in Working => held[s] = rec[s].pane

(* Two calls never hold one lock.                                          *)
Exclusive ==
  \A s, t \in Senders : s # t /\ held[s] # None => held[s] # held[t]

(* Nothing is typed before the report.                                     *)
Untyped == \A s \in Senders : pc[s] # "done" => typed[s] = <<>>

(* What a readable screen showed at the gate is so still, unless a person  *)
(* changed it: the only other hands on the pane need its lock.             *)
StillClear ==
  \A s \in Senders : pc[s] = "send" /\ ~excused[s] => rec[s].pane \notin busy \cup draft

HandoffIInv ==
  /\ HandoffTypeOK /\ HistoryTypes
  /\ Targeted /\ Locked /\ Exclusive
  /\ Untyped /\ TypedOnce /\ ReportHonest /\ StillClear

CallStep(s) == (\E h \in Handles : BeginKnown(s, h)) \/ BeginNew(s) \/ Progress(s) \/ Failure(s)
WorldStep(p) ==
  \/ WritesDraft(p) \/ ClearsDraft(p) \/ Submits(p) \/ EndsTurn(p)
  \/ AgentStarts(p) \/ AgentExits(p) \/ Rehandled(p) \/ Closed(p)

LEMMA InitHandoffIInv == HandoffInit => HandoffIInv
<1> SUFFICES ASSUME HandoffInit
             PROVE  HandoffIInv
  OBVIOUS
<1>1. handle \in [Panes -> 0..MaxHandle] /\ minted \in 0..MaxHandle
  BY PanesAreKnown, HandlesSuffice DEF HandoffInit
<1>2. HandoffTypeOK
  <2>1. \A p \in Panes : handle[p] # 0 => Live(p)
    BY <1>1, NoneIsNothing, HandlesSuffice DEF Live
  <2>2. agents \subseteq {p \in Panes : Live(p)}
    BY <2>1 DEF HandoffInit
  <2>3. rec \in [Senders -> Record]
    BY HandlesSuffice DEF HandoffInit, Record, NoRecord
  <2> QED
    BY <1>1, <2>2, <2>3 DEF HandoffInit, HandoffTypeOK
<1>3. HistoryTypes /\ Targeted /\ Locked /\ Exclusive /\ Untyped /\ TypedOnce
      /\ ReportHonest /\ StillClear
  BY DEF HandoffInit, HistoryTypes, Targeted, Locked, Exclusive, Untyped, TypedOnce,
         ReportHonest, StillClear, Working, Reached
<1> QED
  BY <1>2, <1>3 DEF HandoffIInv

-----------------------------------------------------------------------------
(* A step of one call leaves the locals of the others alone.               *)
OthersStay(s) ==
  /\ \A t \in Senders \ {s} :
    /\ pc'[t] = pc[t] /\ rec'[t] = rec[t] /\ held'[t] = held[t]
    /\ res'[t] = res[t] /\ typed'[t] = typed[t] /\ excused'[t] = excused[t]
  /\ held' = [t \in Senders |-> held'[t]] /\ typed' = [t \in Senders |-> typed'[t]]

LEMMA OthersStep ==
  ASSUME HandoffTypeOK, HistoryTypes, NEW s \in Senders, CallStep(s)
  PROVE  OthersStay(s)
<1> USE DEF HandoffTypeOK, HistoryTypes, OthersStay
<1>1. ASSUME NEW r, NEW step, Keeping(s, r, step)
      PROVE  OthersStay(s)
  BY <1>1 DEF Keeping, Goto
<1>2. ASSUME NEW d, Report(s, d), UNCHANGED typed \/ Types(s)
      PROVE  OthersStay(s)
  BY <1>2 DEF Report, Goto, Types
<1>3. ASSUME Forget(s)
      PROVE  OthersStay(s)
  BY <1>3 DEF Forget, Goto
<1>4. ASSUME Skip(s) \/ Fail(s)
      PROVE  OthersStay(s)
  BY <1>2, <1>4 DEF Skip, Fail
<1> HIDE DEF OthersStay
<1>5. CASE (\E h \in Handles : BeginKnown(s, h)) \/ BeginNew(s) \/ Startup(s) \/ Find(s)
  BY <1>1, <1>4, <1>5 DEF BeginKnown, BeginNew, Startup, Find
<1>6. CASE FindFails(s) \/ GiveUp(s) \/ RejoinFails(s)
  BY <1>4, <1>6 DEF FindFails, GiveUp, RejoinFails
<1>7. CASE LockPane(s) \/ Rejoin(s) \/ SendStale(s)
  BY <1>4, <1>7 DEF LockPane, Rejoin, Rejoined, SendStale, Goto, OthersStay
<1>8. CASE Gate(s)
  BY <1>4, <1>8 DEF Gate, Goto, OthersStay
<1>9. CASE Send(s) \/ SendFails(s)
  BY <1>2, <1>9 DEF Send, SendFails
<1>10. CASE Return(s) \/ Crash(s)
  BY <1>3, <1>10 DEF Return, Crash
<1> QED
  BY <1>5, <1>6, <1>7, <1>8, <1>9, <1>10 DEF CallStep, Progress, Failure

LEMMA WorldStays ==
  ASSUME NEW p \in Panes, WorldStep(p)
  PROVE  UNCHANGED <<pc, rec, held, res, typed>>
  BY DEF WorldStep, WritesDraft, ClearsDraft, Submits, EndsTurn, AgentStarts, AgentExits,
         Rehandled, Closed, calls

-----------------------------------------------------------------------------
(* The types.                                                              *)

LEMMA SeenType ==
  ASSUME HandoffTypeOK, NEW p \in Panes, Live(p)
  PROVE  Seen(p) \in Record
<1>1. handle[p] \in 0..MaxHandle
  BY DEF HandoffTypeOK, Live
<1> DEFINE working == p \in busy \ Untracked
<1>2. working \in BOOLEAN
  OBVIOUS
<1>3. Seen(p) = [pane |-> p, handle |-> handle[p], busy |-> working,
                 tries |-> 0, again |-> FALSE]
  BY DEF Seen, NoRecord
<1> HIDE DEF working
<1>4. 0 \in 0..Tries
  BY HandlesSuffice
<1> QED
  BY <1>1, <1>2, <1>3, <1>4 DEF Record

LEMMA WorldTypes ==
  ASSUME HandoffTypeOK, NEW p \in Panes, WorldStep(p)
  PROVE  HandoffTypeOK'
<1> USE DEF HandoffTypeOK
<1>1. /\ pc' = pc /\ rec' = rec /\ res' = res
  BY WorldStays
<1>2. excused' \in [Senders -> BOOLEAN]
  BY DEF WorldStep, WritesDraft, ClearsDraft, Submits, EndsTurn, AgentStarts, AgentExits,
         Rehandled, Closed, Excusing, Reached
<1>3. CASE WritesDraft(p) \/ ClearsDraft(p) \/ Submits(p) \/ EndsTurn(p)
  BY <1>1, <1>2, <1>3 DEF WritesDraft, ClearsDraft, Submits, EndsTurn, Live
<1>4. CASE AgentStarts(p) \/ AgentExits(p)
  BY <1>1, <1>2, <1>4 DEF AgentStarts, AgentExits, Live
<1>5. CASE Rehandled(p)
  <2>1. minted' \in 1..MaxHandle /\ handle' = [handle EXCEPT ![p] = minted']
    BY <1>5, HandlesSuffice DEF Rehandled
  <2>2. handle' \in [Panes -> 0..MaxHandle \cup {None}]
    BY <2>1
  <2>3. \A q \in Panes : Live(q) => Live(q)'
    BY <2>1, NoneIsNothing DEF Live
  <2> QED
    BY <1>1, <1>2, <1>5, <2>1, <2>2, <2>3 DEF Rehandled
<1>6. CASE Closed(p)
  <2>1. \A q \in Panes \ {p} : Live(q) => Live(q)'
    BY <1>6 DEF Closed, Live
  <2> QED
    BY <1>1, <1>2, <1>6, <2>1 DEF Closed
<1> QED
  BY <1>3, <1>4, <1>5, <1>6 DEF WorldStep

LEMMA CallTypes ==
  ASSUME HandoffTypeOK, Targeted, NEW s \in Senders, CallStep(s)
  PROVE  HandoffTypeOK'
<1> USE DEF HandoffTypeOK
<1>n. NoRecord \in Record
  BY HandlesSuffice DEF NoRecord, Record
<1>k. ASSUME NEW r \in Record, Keeping(s, r, "startup") \/ Keeping(s, r, "find")
                                 \/ Keeping(s, r, "lock"),
             UNCHANGED world
      PROVE  HandoffTypeOK'
  BY <1>k DEF Keeping, Goto, world, Live
<1>r. ASSUME NEW d \in {"skipped", "proven", "unproven", "failed"}, Report(s, d)
      PROVE  /\ pc' = [pc EXCEPT ![s] = "done"] /\ res' = [res EXCEPT ![s] = d]
             /\ rec' = [rec EXCEPT ![s] = NoRecord] /\ excused' = [excused EXCEPT ![s] = FALSE]
  BY <1>r DEF Report, Goto
<1>q. ASSUME Skip(s) \/ Fail(s), UNCHANGED world
      PROVE  HandoffTypeOK'
  BY <1>q, <1>r, <1>n DEF Skip, Fail, world, Live
<1>t. ASSUME Types(s)
      PROVE  /\ handle' = handle /\ agents' = agents /\ minted' = minted
             /\ busy' \subseteq agents' /\ draft' \subseteq agents'
  BY <1>t DEF Types
<1>1. ASSUME NEW h \in Handles, BeginKnown(s, h)
      PROVE  HandoffTypeOK'
  <2>1. [NoRecord EXCEPT !.handle = h, !.tries = 1] \in Record
    <3>1. h \in 0..MaxHandle /\ 1 \in 0..Tries
      BY HandlesSuffice DEF Handles
    <3> QED
      BY <1>n, <3>1 DEF Record
  <2> QED
    BY <1>1, <1>k, <2>1 DEF BeginKnown
<1>2. CASE BeginNew(s)
  <2>1. CASE Skip(s) /\ UNCHANGED world
    BY <1>q, <2>1
  <2>2. ASSUME NEW p \in Panes, handle[p] = 0, minted < MaxHandle,
               minted' = minted + 1, handle' = [handle EXCEPT ![p] = minted + 1],
               Keeping(s, [NoRecord EXCEPT !.pane = p, !.handle = minted + 1,
                                           !.tries = Tries], "startup"),
               UNCHANGED <<agents, busy, draft>>
        PROVE  HandoffTypeOK'
    <3>1. minted + 1 \in 1..MaxHandle
      BY <2>2, HandlesSuffice
    <3>2. [NoRecord EXCEPT !.pane = p, !.handle = minted + 1, !.tries = Tries] \in Record
      <4>1. minted + 1 \in 0..MaxHandle /\ Tries \in 0..Tries
        BY <3>1, HandlesSuffice
      <4> QED
        BY <1>n, <4>1 DEF Record
    <3>3. handle' \in [Panes -> 0..MaxHandle \cup {None}]
      BY <2>2, <3>1
    <3>4. \A q \in Panes : Live(q) => Live(q)'
      BY <2>2, <3>1, NoneIsNothing DEF Live
    <3>5. pc' \in [Senders -> {"idle", "startup", "find", "lock", "gate", "send", "rejoin",
                               "done"}]
      BY <2>2 DEF Keeping, Goto
    <3>6. rec' \in [Senders -> Record] /\ UNCHANGED <<res, excused>>
      BY <2>2, <3>2 DEF Keeping
    <3>7. agents' \subseteq {q \in Panes : Live(q)'}
      BY <2>2, <3>4
    <3> QED
      BY <2>2, <3>1, <3>3, <3>5, <3>6, <3>7
  <2> QED
    BY <1>2, <2>1, <2>2 DEF BeginNew
<1>3. CASE Startup(s)
  <2>1. CASE Skip(s)
    BY <1>3, <1>q, <2>1 DEF Startup
  <2>2. CASE Live(rec[s].pane)
              /\ Keeping(s, [rec[s] EXCEPT !.handle = handle[rec[s].pane]], "find")
    <3>1. rec[s].pane \in Panes /\ rec[s] \in Record
      BY <1>3 DEF Startup, Reached, Targeted
    <3>2. handle[rec[s].pane] \in 0..MaxHandle
      BY <2>2, <3>1 DEF Live
    <3>3. [rec[s] EXCEPT !.handle = handle[rec[s].pane]] \in Record
      BY <3>1, <3>2 DEF Record
    <3> QED
      BY <1>3, <1>k, <2>2, <3>3 DEF Startup
  <2> QED
    BY <1>3, <2>1, <2>2 DEF Startup
<1>4. CASE Find(s)
  <2>1. CASE Skip(s)
    BY <1>4, <1>q, <2>1 DEF Find
  <2>2. ASSUME NEW p \in Panes \cap agents, Keeping(s, Seen(p), "lock")
        PROVE  HandoffTypeOK'
    BY <1>4, <1>k, <2>2, SeenType DEF Find
  <2>3. CASE /\ rec[s].tries > 1
             /\ Keeping(s, [rec[s] EXCEPT !.tries = @ - 1], "find")
    <3>1. rec[s] \in Record
      OBVIOUS
    <3>2. rec[s].tries - 1 \in 0..Tries
      BY <2>3, <3>1, HandlesSuffice DEF Record
    <3>3. [rec[s] EXCEPT !.tries = @ - 1] \in Record
      BY <3>1, <3>2 DEF Record
    <3> QED
      BY <1>4, <1>k, <2>3, <3>3 DEF Find
  <2> QED
    BY <1>4, <2>1, <2>2, <2>3 DEF Find
<1>5. CASE FindFails(s) \/ GiveUp(s) \/ RejoinFails(s)
  BY <1>5, <1>q DEF FindFails, GiveUp, RejoinFails
<1>6. CASE LockPane(s) \/ (SendStale(s) /\ ~Fail(s))
  BY <1>6 DEF LockPane, SendStale, Goto, world, Live
<1>7. CASE Gate(s)
  <2>1. CASE Skip(s)
    BY <1>7, <1>q, <2>1 DEF Gate
  <2>2. ASSUME NEW b \in BOOLEAN, Goto(s, "send"), excused' = [excused EXCEPT ![s] = b],
               UNCHANGED <<rec, held, res, typed>>
        PROVE  HandoffTypeOK'
    BY <1>7, <2>2 DEF Gate, Goto, world, Live
  <2> QED
    BY <1>7, <2>1, <2>2 DEF Gate
<1>8. CASE Send(s)
  BY <1>8, <1>r, <1>n, <1>t DEF Send, Live
<1>9. CASE SendFails(s)
  <2>1. UNCHANGED <<handle, agents, minted>> /\ busy' \subseteq agents /\ draft' \subseteq agents
    BY <1>9, <1>t DEF SendFails, world
  <2>2. Report(s, "failed")
    BY <1>9 DEF SendFails
  <2> QED
    BY <1>r, <1>n, <2>1, <2>2 DEF Live
<1>10. CASE SendStale(s) /\ Fail(s)
  BY <1>10, <1>q DEF SendStale
<1>11. CASE Rejoin(s)
  <2>1. rec[s].pane \in Panes /\ Live(rec[s].pane)
    BY <1>11 DEF Rejoin, Reached, Targeted, Working
  <2>2. [Seen(rec[s].pane) EXCEPT !.again = TRUE] \in Record
    BY <2>1, SeenType DEF Record
  <2> QED
    BY <1>11, <2>2 DEF Rejoin, Rejoined, Goto, world, Live
<1>12. CASE Return(s) \/ Crash(s)
  <2>1. Forget(s)
    BY <1>12 DEF Return, Crash
  <2> QED
    BY <1>n, <2>1 DEF Forget, Goto, world, Live
<1> QED
  BY <1>1, <1>2, <1>3, <1>4, <1>5, <1>6, <1>7, <1>8, <1>9, <1>10, <1>11, <1>12
     DEF CallStep, Progress, Failure

-----------------------------------------------------------------------------
(* The history, call by call.                                              *)

OwnHistory(s) ==
  /\ held[s] \in Panes \cup {None} /\ typed[s] \in Seq(Panes)
  /\ pc[s] \in {"startup", "lock"} \cup Working => rec[s].pane \in Panes
  /\ pc[s] \in Working => held[s] = rec[s].pane
  /\ pc[s] # "done" => typed[s] = <<>>
  /\ Len(typed[s]) <= 1
  /\ pc[s] = "done" => /\ res[s] = "skipped" => typed[s] = <<>>
                       /\ res[s] \in {"proven", "unproven"} => typed[s] # <<>>

LEMMA HistoryIsOwn ==
  /\ HistoryTypes /\ Targeted /\ Locked /\ Untyped /\ TypedOnce /\ ReportHonest =>
       \A s \in Senders : OwnHistory(s)
  /\ (\A s \in Senders : OwnHistory(s)) =>
       Targeted /\ Locked /\ Untyped /\ TypedOnce /\ ReportHonest
  BY DEF HistoryTypes, Targeted, Locked, Untyped, TypedOnce, ReportHonest, OwnHistory, Reached

LEMMA HistoryTypesStep ==
  ASSUME HistoryTypes, NEW s \in Senders, OthersStay(s), OwnHistory(s)'
  PROVE  HistoryTypes'
<1>1. \A t \in Senders : held'[t] \in Panes \cup {None} /\ typed'[t] \in Seq(Panes)
  BY DEF HistoryTypes, OthersStay, OwnHistory
<1>2. held' = [t \in Senders |-> held'[t]] /\ typed' = [t \in Senders |-> typed'[t]]
  BY DEF OthersStay
<1> QED
  BY <1>1, <1>2 DEF HistoryTypes

LEMMA OwnHistoryStep ==
  ASSUME HandoffTypeOK, NEW s \in Senders, CallStep(s), HistoryTypes, OwnHistory(s)
  PROVE  OwnHistory(s)'
<1> USE DEF HandoffTypeOK, HistoryTypes
<1>r. ASSUME NEW d, Report(s, d)
      PROVE  pc'[s] = "done" /\ res'[s] = d /\ held' = held
  BY <1>r DEF Report, Goto
<1>q. ASSUME Skip(s) \/ Fail(s), typed[s] = <<>>
      PROVE  OwnHistory(s)'
  BY <1>q, <1>r DEF Skip, Fail, OwnHistory, Working
<1>t. ASSUME Types(s), rec[s].pane \in Panes, typed[s] = <<>>
      PROVE  /\ typed'[s] = <<rec[s].pane>> /\ typed'[s] \in Seq(Panes)
             /\ typed'[s] # <<>> /\ Len(typed'[s]) = 1
  <2>1. typed'[s] = <<rec[s].pane>>
    BY <1>t DEF Types
  <2> QED
    BY <1>t, <2>1
<1>u. pc[s] # "done" => typed[s] = <<>>
  BY DEF OwnHistory
<1>k. ASSUME NEW r, NEW step, Keeping(s, r, step)
      PROVE  /\ pc'[s] = step /\ rec'[s] = r
             /\ UNCHANGED <<held, res, typed>>
  BY <1>k DEF Keeping, Goto
<1>1. CASE \E h \in Handles : BeginKnown(s, h)
  BY <1>1, <1>k, <1>u DEF BeginKnown, Reached, OwnHistory, Working
<1>2. CASE BeginNew(s)
  <2>1. CASE Skip(s)
    BY <1>2, <1>q, <1>u, <2>1 DEF BeginNew, Reached
  <2>2. ASSUME NEW p \in Panes,
               Keeping(s, [NoRecord EXCEPT !.pane = p, !.handle = minted + 1,
                                           !.tries = Tries], "startup")
        PROVE  OwnHistory(s)'
    <3>1. [NoRecord EXCEPT !.pane = p, !.handle = minted + 1, !.tries = Tries].pane = p
      BY DEF NoRecord
    <3>2. /\ pc'[s] = "startup" /\ rec'[s].pane = p /\ UNCHANGED <<held, res, typed>>
      BY <1>k, <2>2, <3>1
    <3>3. typed[s] = <<>> /\ OwnHistory(s)
      BY <1>2, <1>u DEF BeginNew, Reached
    <3> QED
      BY <3>2, <3>3 DEF OwnHistory, Working
  <2> QED
    BY <1>2, <2>1, <2>2 DEF BeginNew
<1>3. CASE Startup(s)
  BY <1>3, <1>k, <1>q, <1>u DEF Startup, Reached, OwnHistory, Working
<1>4. CASE Find(s)
  <2>1. CASE Skip(s)
    BY <1>4, <1>q, <1>u, <2>1 DEF Find, Reached
  <2>2. ASSUME NEW p \in Panes, Keeping(s, Seen(p), "lock")
        PROVE  OwnHistory(s)'
    BY <1>4, <1>k, <1>u, <2>2 DEF Find, Reached, OwnHistory, Working, Seen
  <2>3. CASE Keeping(s, [rec[s] EXCEPT !.tries = @ - 1], "find")
    BY <1>4, <1>k, <1>u, <2>3 DEF Find, Reached, OwnHistory, Working
  <2> QED
    BY <1>4, <2>1, <2>2, <2>3 DEF Find
<1>5. CASE FindFails(s) \/ GiveUp(s) \/ RejoinFails(s)
  BY <1>5, <1>q, <1>u DEF FindFails, GiveUp, RejoinFails, Reached
<1>6. CASE LockPane(s)
  BY <1>6, <1>u DEF LockPane, Reached, Goto, LockName, OwnHistory, Working
<1>7. CASE Gate(s)
  <2>1. CASE Skip(s)
    BY <1>7, <1>q, <1>u, <2>1 DEF Gate, Reached
  <2>2. CASE Goto(s, "send") /\ UNCHANGED <<rec, held, res, typed>>
    BY <1>7, <1>u, <2>2 DEF Gate, Reached, Goto, OwnHistory, Working
  <2> QED
    BY <1>7, <2>1, <2>2 DEF Gate
<1>p. pc[s] = "send" => /\ rec[s].pane \in Panes /\ typed[s] = <<>>
                        /\ held[s] \in Panes \cup {None}
  BY DEF OwnHistory, Working
<1>8. CASE Send(s)
  <2>1. Types(s) /\ pc[s] = "send"
    BY <1>8 DEF Send, Reached
  <2>2. pc'[s] = "done" /\ held' = held
    BY <1>8, <1>r DEF Send
  <2>3. /\ typed'[s] \in Seq(Panes) /\ typed'[s] # <<>> /\ Len(typed'[s]) = 1
        /\ held[s] \in Panes \cup {None}
    BY <1>t, <1>p, <2>1
  <2>4. res'[s] # "skipped"
    BY <1>8, <1>r DEF Send
  <2> QED
    BY <2>2, <2>3, <2>4 DEF OwnHistory, Working
<1>9. CASE SendFails(s)
  <2>1. pc[s] = "send"
    BY <1>9 DEF SendFails, Reached
  <2>2. pc'[s] = "done" /\ held' = held /\ res'[s] = "failed"
    BY <1>9, <1>r DEF SendFails
  <2>3. typed'[s] \in Seq(Panes) /\ Len(typed'[s]) <= 1
    <3>1. CASE Types(s)
      <4>1. typed'[s] \in Seq(Panes) /\ Len(typed'[s]) = 1
        BY <1>t, <1>p, <2>1, <3>1
      <4> QED
        BY <4>1
    <3>2. CASE typed' = typed
      BY <1>p, <2>1, <3>2
    <3> QED
      BY <1>9, <3>1, <3>2 DEF SendFails
  <2> QED
    BY <1>p, <2>1, <2>2, <2>3 DEF OwnHistory, Working
<1>10. CASE SendStale(s)
  BY <1>10, <1>q, <1>u DEF SendStale, Reached, Goto, OwnHistory, Working
<1>11. CASE Rejoin(s)
  BY <1>11, <1>u DEF Rejoin, Rejoined, Seen, Reached, Goto, OwnHistory, Working
<1>12. CASE Return(s) \/ Crash(s)
  <2>1. Forget(s)
    BY <1>12 DEF Return, Crash
  <2> QED
    BY <2>1 DEF Forget, Goto, OwnHistory, Working
<1> QED
  BY <1>1, <1>2, <1>3, <1>4, <1>5, <1>6, <1>7, <1>8, <1>9, <1>10, <1>11, <1>12
     DEF CallStep, Progress, Failure

-----------------------------------------------------------------------------
(* The locks.                                                              *)

(* A call takes a lock only when nobody has it.                            *)
LEMMA HeldStep ==
  ASSUME HandoffTypeOK, HistoryTypes, NEW s \in Senders, CallStep(s)
  PROVE  \/ held'[s] = held[s]
         \/ held'[s] = None
         \/ \A t \in Senders : held[t] # held'[s]
<1> DEFINE Good == \/ held'[s] = held[s]
                   \/ held'[s] = None
                   \/ \A t \in Senders : held[t] # held'[s]
<1>q. ASSUME Skip(s) \/ Fail(s) \/ (\E d : Report(s, d)) \/ (\E r, step : Keeping(s, r, step))
             \/ held' = held
      PROVE  Good
  BY <1>q DEF Skip, Fail, Report, Keeping
<1>1. CASE (\E h \in Handles : BeginKnown(s, h)) \/ BeginNew(s) \/ Startup(s) \/ Find(s)
  BY <1>1 DEF BeginKnown, BeginNew, Startup, Find, Skip, Report, Keeping
<1>2. CASE FindFails(s) \/ GiveUp(s) \/ RejoinFails(s) \/ Gate(s) \/ SendStale(s)
  BY <1>2, <1>q DEF FindFails, GiveUp, RejoinFails, Gate, SendStale
<1>3. CASE Send(s) \/ SendFails(s) \/ Rejoin(s)
  BY <1>3, <1>q DEF Send, SendFails, Rejoin, Rejoined
<1>4. CASE LockPane(s)
  BY <1>4 DEF LockPane, HistoryTypes
<1>5. CASE Return(s) \/ Crash(s)
  BY <1>5 DEF Return, Crash, Forget, HistoryTypes
<1> QED
  BY <1>1, <1>2, <1>3, <1>4, <1>5 DEF CallStep, Progress, Failure

LEMMA ExclusiveStep ==
  ASSUME HandoffTypeOK, HistoryTypes, Exclusive, NEW s \in Senders, CallStep(s)
  PROVE  Exclusive'
<1>1. OthersStay(s)
  BY OthersStep
<1> QED
  BY <1>1, HeldStep DEF Exclusive, OthersStay

-----------------------------------------------------------------------------
(* What the screen showed.                                                 *)

(* A call comes to the send step from the gate, on a reading.              *)
LEMMA GateStep ==
  ASSUME HandoffTypeOK, HistoryTypes, NEW s \in Senders, CallStep(s), pc'[s] = "send"
  PROVE  /\ UNCHANGED <<busy, draft, rec>>
         /\ excused'[s] \/ rec[s].pane \notin busy \cup draft
<1> USE DEF HandoffTypeOK
<1>r. ASSUME NEW d, Report(s, d)
      PROVE  FALSE
  BY <1>r DEF Report, Goto
<1>q. ~Skip(s) /\ ~Fail(s)
  BY <1>r DEF Skip, Fail
<1>k. ASSUME NEW r, NEW step \in {"startup", "find", "lock"}, Keeping(s, r, step)
      PROVE  FALSE
  BY <1>k DEF Keeping, Goto
<1>1. ~(\E h \in Handles : BeginKnown(s, h)) /\ ~BeginNew(s) /\ ~Startup(s) /\ ~Find(s)
  BY <1>q, <1>k DEF BeginKnown, BeginNew, Startup, Find
<1>2. ~FindFails(s) /\ ~GiveUp(s) /\ ~RejoinFails(s) /\ ~LockPane(s) /\ ~Send(s) /\ ~SendFails(s)
  BY <1>q, <1>r DEF FindFails, GiveUp, RejoinFails, LockPane, Goto, Send, SendFails
<1>3. ~SendStale(s) /\ ~Rejoin(s) /\ ~Return(s) /\ ~Crash(s)
  BY <1>q DEF SendStale, Rejoin, Rejoined, Return, Crash, Forget, Goto
<1>4. Gate(s)
  BY <1>1, <1>2, <1>3 DEF CallStep, Progress, Failure
<1>5. PICK reading \in Readings(s) :
        /\ reading \in {"ready", "unknown"}
        /\ excused' = [excused EXCEPT ![s] = reading = "unknown"]
        /\ UNCHANGED <<rec, world>>
  BY <1>4, <1>q DEF Gate
<1>6. CASE reading = "unknown"
  BY <1>5, <1>6 DEF world
<1>7. CASE reading = "ready"
  <2>1. rec[s].pane \notin busy \cup draft
    BY <1>5, <1>7 DEF Readings
  <2> QED
    BY <1>5, <2>1 DEF world
<1> QED
  BY <1>5, <1>6, <1>7

(* Only a send puts the agent of a pane to work, in the pane it has locked.*)
LEMMA TypesThere ==
  ASSUME HandoffTypeOK, HistoryTypes, NEW s \in Senders, CallStep(s), Locked
  PROVE  \/ busy' \cup draft' \subseteq busy \cup draft
         \/ /\ pc[s] = "send"
            /\ busy' \cup draft' \subseteq busy \cup draft \cup {held[s]}
<1>1. ASSUME Types(s), Reached(s, "send")
      PROVE  pc[s] = "send" /\ busy' \cup draft' \subseteq busy \cup draft \cup {held[s]}
  BY <1>1 DEF Types, Reached, Locked, Working
<1>2. CASE Send(s) \/ SendFails(s)
  BY <1>1, <1>2 DEF Send, SendFails, world
<1>3. CASE (\E h \in Handles : BeginKnown(s, h)) \/ BeginNew(s) \/ Startup(s) \/ Find(s)
  BY <1>3 DEF BeginKnown, BeginNew, Startup, Find, world
<1>4. CASE FindFails(s) \/ GiveUp(s) \/ RejoinFails(s) \/ Gate(s) \/ SendStale(s) \/ LockPane(s)
  BY <1>4 DEF FindFails, GiveUp, RejoinFails, Gate, SendStale, LockPane, world
<1>5. CASE Rejoin(s) \/ Return(s) \/ Crash(s)
  BY <1>5 DEF Rejoin, Rejoined, Return, Crash, Forget, world
<1> QED
  BY <1>2, <1>3, <1>4, <1>5 DEF CallStep, Progress, Failure

LEMMA StillClearStep ==
  ASSUME HandoffIInv, NEW s \in Senders, CallStep(s)
  PROVE  StillClear'
<1> USE DEF HandoffIInv
<1>1. OthersStay(s)
  BY OthersStep
<1>2. ASSUME NEW t \in Senders \ {s}, pc'[t] = "send", ~excused'[t]
      PROVE  rec'[t].pane \notin busy' \cup draft'
  <2>1. rec'[t] = rec[t] /\ pc[t] = "send" /\ ~excused[t]
    BY <1>1, <1>2 DEF OthersStay
  <2>2. rec[t].pane \notin busy \cup draft
    BY <2>1 DEF StillClear
  <2>3. held[t] = rec[t].pane /\ held[t] # None
    BY <2>1, NoneIsNothing DEF Locked, Targeted, Working
  <2>4. held[t] # held[s]
    BY <2>3 DEF Exclusive
  <2> QED
    BY <2>1, <2>2, <2>3, <2>4, TypesThere
<1>3. ASSUME pc'[s] = "send", ~excused'[s]
      PROVE  rec'[s].pane \notin busy' \cup draft'
  BY <1>3, GateStep
<1> QED
  BY <1>2, <1>3 DEF StillClear

LEMMA StillClearWorld ==
  ASSUME HandoffTypeOK, StillClear, NEW p \in Panes, WorldStep(p)
  PROVE  StillClear'
<1>1. UNCHANGED <<pc, rec>>
  BY WorldStays
<1>2. ASSUME Excusing(p), busy' \cup draft' \subseteq busy \cup draft \cup {p}
      PROVE  StillClear'
  BY <1>1, <1>2 DEF Excusing, StillClear, Reached
<1>3. ASSUME excused' = excused, busy' \cup draft' \subseteq busy \cup draft
      PROVE  StillClear'
  BY <1>1, <1>3 DEF StillClear
<1> QED
  BY <1>2, <1>3 DEF WorldStep, WritesDraft, ClearsDraft, Submits, EndsTurn, AgentStarts,
                    AgentExits, Rehandled, Closed

-----------------------------------------------------------------------------
(* The invariant is inductive.                                             *)

LEMMA CallKeeps ==
  ASSUME HandoffIInv, NEW s \in Senders, CallStep(s)
  PROVE  HandoffIInv'
<1>1. HandoffTypeOK /\ HistoryTypes /\ Targeted /\ Exclusive
  BY DEF HandoffIInv
<1>2. OthersStay(s) /\ HandoffTypeOK' /\ Exclusive'
  BY <1>1, OthersStep, CallTypes, ExclusiveStep
<1>3. \A t \in Senders : OwnHistory(t)
  BY HistoryIsOwn DEF HandoffIInv
<1>4. OwnHistory(s)'
  BY <1>1, <1>3, OwnHistoryStep
<1>5. ASSUME NEW t \in Senders \ {s}
      PROVE  OwnHistory(t)'
  <2>1. OwnHistory(t)
    BY <1>3
  <2>2. /\ pc'[t] = pc[t] /\ rec'[t] = rec[t] /\ held'[t] = held[t]
        /\ res'[t] = res[t] /\ typed'[t] = typed[t]
    BY <1>2, <1>5 DEF OthersStay
  <2> QED
    BY <2>1, <2>2 DEF OwnHistory
<1>6. \A t \in Senders : OwnHistory(t)'
  BY <1>4, <1>5
<1>7. (Targeted /\ Locked /\ Untyped /\ TypedOnce /\ ReportHonest)'
  BY <1>6 DEF Targeted, Locked, Untyped, TypedOnce, ReportHonest, OwnHistory, Reached
<1>8. HistoryTypes' /\ StillClear'
  BY <1>1, <1>2, <1>4, HistoryTypesStep, StillClearStep
<1> QED
  BY <1>2, <1>7, <1>8 DEF HandoffIInv

LEMMA WorldKeeps ==
  ASSUME HandoffIInv, NEW p \in Panes, WorldStep(p)
  PROVE  HandoffIInv'
<1>1. UNCHANGED <<pc, rec, held, res, typed>>
  BY WorldStays
<1>2. HandoffTypeOK' /\ StillClear'
  BY WorldTypes, StillClearWorld DEF HandoffIInv
<1>3. (HistoryTypes /\ Targeted /\ Locked /\ Exclusive /\ Untyped /\ TypedOnce
       /\ ReportHonest)'
  BY <1>1 DEF HandoffIInv, HistoryTypes, Targeted, Locked, Exclusive, Untyped, TypedOnce,
              ReportHonest, Reached
<1> QED
  BY <1>2, <1>3 DEF HandoffIInv

LEMMA NextIsStep ==
  HandoffNext => (\E s \in Senders : CallStep(s)) \/ (\E p \in Panes : WorldStep(p))
  BY DEF HandoffNext, CallStep, WorldStep

LEMMA Inductive == HandoffIInv /\ [HandoffNext]_vars => HandoffIInv'
<1>1. CASE UNCHANGED vars
  BY <1>1 DEF vars, HandoffIInv, HandoffTypeOK, HistoryTypes, Targeted, Locked, Exclusive, Untyped,
              TypedOnce, ReportHonest, StillClear, Live, Reached
<1>2. ASSUME HandoffIInv, HandoffNext
      PROVE  HandoffIInv'
  BY <1>2, NextIsStep, CallKeeps, WorldKeeps
<1> QED
  BY <1>1, <1>2

(* Reached every step of every behavior a call's readings are as StillClear,    *)
(* Locked and the parts beside them say.                                   *)
THEOREM HandoffInvariance == Spec => []HandoffIInv
<1>1. HandoffInit => HandoffIInv
  BY InitHandoffIInv
<1>2. HandoffIInv /\ [HandoffNext]_vars => HandoffIInv'
  BY Inductive
<1> QED
  BY <1>1, <1>2, PTL DEF Spec

(* The state of sends, panes and agents keeps its types; an agent runs     *)
(* only in a pane that is open.                                            *)
THEOREM HandoffTyped == Spec => []HandoffTypeOK
<1>1. HandoffIInv => HandoffTypeOK
  BY DEF HandoffIInv
<1> QED
  BY <1>1, HandoffInvariance, PTL

(* A send types its pointer once at most, through stale handles, failures  *)
(* and lost receipts.                                                      *)
THEOREM NeverTwice == Spec => []TypedOnce
<1>1. HandoffIInv => TypedOnce
  BY DEF HandoffIInv
<1> QED
  BY <1>1, HandoffInvariance, PTL

(* The delivery that a send reports is what it did.                        *)
THEOREM Honest == Spec => []ReportHonest
<1>1. HandoffIInv => ReportHonest
  BY DEF HandoffIInv
<1> QED
  BY <1>1, HandoffInvariance, PTL

-----------------------------------------------------------------------------
(* The action properties.                                                  *)

(* What a call has typed changes when it sends, or is forgotten.           *)
LEMMA TypingStep ==
  ASSUME HandoffTypeOK, HistoryTypes, NEW s \in Senders, CallStep(s)
  PROVE  \/ typed'[s] = typed[s]
         \/ typed'[s] = <<>>
         \/ pc[s] = "send" /\ typed'[s] = Append(typed[s], rec[s].pane)
<1> USE DEF HandoffTypeOK, HistoryTypes
<1>1. CASE (\E h \in Handles : BeginKnown(s, h)) \/ BeginNew(s) \/ Startup(s) \/ Find(s)
  BY <1>1 DEF BeginKnown, BeginNew, Startup, Find, Keeping, Skip
<1>2. CASE FindFails(s) \/ GiveUp(s) \/ RejoinFails(s) \/ LockPane(s) \/ Gate(s)
  BY <1>2 DEF FindFails, GiveUp, RejoinFails, LockPane, Gate, Skip, Fail
<1>3. CASE Rejoin(s) \/ SendStale(s)
  BY <1>3 DEF Rejoin, Rejoined, SendStale, Fail
<1>4. CASE Send(s) \/ SendFails(s)
  BY <1>4 DEF Send, SendFails, Types, Reached
<1>5. CASE Return(s) \/ Crash(s)
  BY <1>5 DEF Return, Crash, Forget
<1> QED
  BY <1>1, <1>2, <1>3, <1>4, <1>5 DEF CallStep, Progress, Failure

LEMMA TypedIntoTarget ==
  ASSUME HandoffIInv, [HandoffNext]_vars, NEW s \in Senders, typed'[s] # typed[s], typed'[s] # <<>>
  PROVE  pc[s] = "send" /\ typed'[s] = Append(typed[s], rec[s].pane)
<1>1. CASE UNCHANGED vars
  BY <1>1 DEF vars
<1>2. ASSUME NEW p \in Panes, WorldStep(p)
      PROVE  FALSE
  BY <1>2, WorldStays
<1>3. ASSUME NEW t \in Senders, CallStep(t), t # s
      PROVE  FALSE
  BY <1>3, OthersStep DEF OthersStay, HandoffIInv
<1>4. CASE CallStep(s)
  BY <1>4, TypingStep DEF HandoffIInv
<1> QED
  BY <1>1, <1>2, <1>3, <1>4, NextIsStep

(* The pane typed into is the one whose lock the call holds, whatever its  *)
(* handle has become since.                                                *)
THEOREM IntoTheLocked == Spec => LockedThere
<1>1. ASSUME HandoffIInv, [HandoffNext]_vars, NEW s \in Senders, typed'[s] # typed[s],
             typed'[s] # <<>>
      PROVE  held[s] = typed'[s][Len(typed'[s])]
  <2>1. pc[s] = "send" /\ typed'[s] = Append(typed[s], rec[s].pane)
    BY <1>1, TypedIntoTarget
  <2>2. typed[s] = <<>> /\ held[s] = rec[s].pane
    BY <1>1, <2>1 DEF HandoffIInv, Untyped, Locked, Working
  <2> QED
    BY <2>1, <2>2
<1>2. HandoffIInv /\ [HandoffNext]_vars =>
        [\A s \in Senders : typed'[s] # typed[s] /\ typed'[s] # <<>> =>
           held[s] = typed'[s][Len(typed'[s])]]_vars
  BY <1>1
<1> QED
  BY <1>2, HandoffInvariance, PTL DEF Spec, LockedThere

(* Where the screen could be read, the pointer is not typed into a turn or *)
(* after other text, however many handoffs aim at the pane.                *)
THEOREM NotOverOthers == Spec => Undisturbed
<1>1. ASSUME HandoffIInv, [HandoffNext]_vars, NEW s \in Senders, typed'[s] # typed[s],
             typed'[s] # <<>>
      PROVE  excused[s] \/ rec[s].pane \notin busy \cup draft
  <2>1. pc[s] = "send"
    BY <1>1, TypedIntoTarget
  <2> QED
    BY <1>1, <2>1 DEF HandoffIInv, StillClear
<1>2. HandoffIInv /\ [HandoffNext]_vars =>
        [\A s \in Senders : typed'[s] # typed[s] /\ typed'[s] # <<>> =>
           excused[s] \/ rec[s].pane \notin busy \cup draft]_vars
  BY <1>1
<1> QED
  BY <1>2, HandoffInvariance, PTL DEF Spec, Undisturbed

=============================================================================
