----------------------------- MODULE PeersProofs -----------------------------
(***************************************************************************)
(* Whom a message stands for, for any sessions, names, checkouts, branches *)
(* and moves of the world between the reads of a call.  A call decides on  *)
(* what it has read, file by file and row by row; the invariant says that  *)
(* each single thing it holds of its reads was a fact at some moment of    *)
(* the call.                                                               *)
(***************************************************************************)
EXTENDS Peers, TLAPS, FiniteSetTheorems, WellFoundedInduction

Shaped(k) == k = [f \in DOMAIN NoCall |-> k[f]]

Asking     == {"branch", "registry", "entries", "rows", "row", "again", "resolve", "answer"}
Listing    == {"entries", "rows", "row", "again", "resolve", "answer"}
Recording  == {"rows", "row", "again", "resolve", "answer"}
Answered   == {"refresh", "told"}

WorldTyped ==
  /\ proc = [p \in Pids |-> proc[p]]
  /\ on \in [Checkouts -> Branches]
  /\ orc \in [Branches -> Names \cup {None}]

(* A call's fields, and the way each kind of call takes.                   *)
CallTyped ==
  /\ Shaped(call)
  /\ call.listed = [p \in Pids |-> call.listed[p]]
  /\ call.orcs = [p \in Pids |-> call.orcs[p]]
  /\ call.todo \in SUBSET Pids
  /\ call.pc # "idle" =>
       /\ call.op \in {"orchestrator", "who", "sender", "grant", "hub"}
       /\ call.dir \in Checkouts
       /\ call.message \in Messages \cup {None}
       /\ (call.op \in {"grant", "hub"} => call.message = None)
       /\ (call.op = "who" => call.own # None)
       /\ (call.op = "sender" => call.message # None)
       /\ (call.seen # None => call.op = "hub")
  /\ call.pc \in {"branch", "again", "resolve"} => call.op = "orchestrator"
  /\ call.pc \in {"stopped", "create"} => call.op = "hub"
  /\ call.pc \in {"rows", "row"} =>
       call.op = "who" /\ call.todo \subseteq Rows(call.listed, call.wide)
  /\ call.pc = "row" => call.todo # {}
  /\ call.pc = "answer" => call.op = "sender"

(* Nothing is let through before the answer.                               *)
Silent ==
  /\ call.pc \notin Answered => ~call.stands /\ call.source = "none"
  /\ call.stands => call.message # None

(* While the call reads, what holds now is noted.                          *)
FactsHeld == call.pc \in Asking => Facts(call, proc, on, orc, record) \subseteq call.held

(* What one file of the registry says of its process was so when it was    *)
(* read.                                                                   *)
CarriedHeld(k, L, p) ==
  /\ (p = k.message.pid /\ Carries(L, p, k.message.name)) => <<"at", L[p].at>> \in k.held
  /\ (k.op = "who" /\ Carries(L, p, Orchestrator(k))) => <<"own", L[p].sid>> \in k.held

YieldedHeld(k, L, p) ==
  /\ (p # k.message.pid /\ Yields(L, p, k.message.name)) => <<"free", p>> \in k.held
  /\ (k.op = "who" /\ Yields(L, p, Orchestrator(k))) => <<"not", p>> \in k.held

(* The files that were not read.                                           *)
Unlisted(k) == k.missed \cup (IF k.pc = "entries" THEN k.todo ELSE {})

Registered ==
  call.pc \in Listing /\ call.message # None =>
    /\ \A p \in Pids : CarriedHeld(call, call.listed, p)
    /\ \A p \in Pids \ Unlisted(call) : YieldedHeld(call, call.listed, p)

Granted ==
  call.pc \in Recording /\ call.message # None =>
    (call.recs[Orchestrator(call)] = "on" => <<"grant", Orchestrator(call)>> \in call.held)

(* A branch that was read was the checkout's.                              *)
OnHeld(k) == k.branch \in Branches /\ <<"on", k.branch>> \in k.held

Branched ==
  call.message # None /\ call.branch # None =>
    /\ call.pc \in Asking /\ call.op = "orchestrator" => OnHeld(call)
    /\ (/\ call.pc = "row" /\ FirstOf(call.todo) = call.message.pid
        /\ Carries(call.listed, call.message.pid, call.message.name)) => OnHeld(call)

BoundHeld(k) == \E c \in Branches : <<"on", c>> \in k.held /\ <<"bound", c>> \in k.held

RowsBound ==
  call.op = "who" /\ call.message # None =>
    /\ call.pc \in {"registry", "entries"} => call.orcs[call.message.pid] # call.own
    /\ (/\ call.pc \in {"rows", "row"} /\ call.orcs[call.message.pid] = call.own
        /\ Carries(call.listed, call.message.pid, call.message.name)) => BoundHeld(call)

(* The caller's binding, while nothing has touched it.                     *)
BindingNow ==
  call.pc \in Asking /\ call.op = "orchestrator" /\ call.bound # None =>
    call.bound = orc[on[call.dir]] /\ call.branch \in {None, on[call.dir]}

(* The processes that have run the session to wake all along.              *)
Runs(L, p) == L[p] # None /\ L[p].sid = call.seen.sid

Steady ==
  /\ call.pc \in {"registry", "entries"} /\ call.seen # None =>
       \A p \in call.steady :
         /\ p \in Pids /\ Runs(proc, p)
         /\ call.pc = "entries" => p \in call.todo \cup call.missed \/ Runs(call.listed, p)
  /\ call.pc = "create" => \A p \in call.steady : p \in call.missed /\ p # call.seen.pid

IInv ==
  /\ WorldTyped /\ CallTyped /\ Silent
  /\ FactsHeld /\ Registered /\ Granted /\ Branched /\ RowsBound
  /\ BindingNow /\ Steady
  /\ StandingGrounded /\ BoundIsKept /\ RunningMainKeptAlone

-----------------------------------------------------------------------------
(* Any set of processes has a first.                                       *)
LEMMA NaturalOrder ==
  \E R : IsWellFoundedOn(R, Nat) /\ \A p, q \in Nat : q < p => <<q, p>> \in R
<1>1. \A p, q \in Nat : q < p => <<q, p>> \in OpToRel(<, Nat)
  BY DEF OpToRel
<1> QED BY <1>1, NatLessThanWellFounded, Zenon

LEMMA FirstIsIn ==
  ASSUME NEW S \in SUBSET Pids, S # {}
  PROVE  FirstOf(S) \in S
<1>1. PICK R : IsWellFoundedOn(R, Nat) /\ \A p, q \in Nat : q < p => <<q, p>> \in R
  BY NaturalOrder
<1>2. S \subseteq Nat
  BY PeersAssumption
<1>3. PICK p \in S : \A q \in S : ~(<<q, p>> \in R)
  BY <1>1, <1>2, WFMin
<1>4. ASSUME NEW q \in S PROVE p <= q
  <2>1. p \in Nat /\ q \in Nat /\ ~(<<q, p>> \in R)
    BY <1>2, <1>3
  <2>2. ~(q < p)
    BY <1>1, <2>1
  <2> QED BY <2>1, <2>2
<1> QED BY <1>4 DEF FirstOf

(* A session that is not listed runs in no listed process.                 *)
LEMMA FindNone ==
  ASSUME NEW L, NEW s
  PROVE  /\ Find(L, s) = None => \A p \in Live(L) : L[p].sid # s
         /\ Find(L, s) # None => Find(L, s) \in Live(L) /\ L[Find(L, s)].sid = s
<1> DEFINE here == {p \in Live(L) : L[p].sid = s}
<1>1. CASE here = {}
  BY <1>1 DEF Find
<1>2. CASE here # {}
  <2>1. here \subseteq Pids
    BY DEF Live
  <2>2. FirstOf(here) \in here
    BY <1>2, <2>1, FirstIsIn
  <2>3. Find(L, s) = FirstOf(here)
    BY <1>2 DEF Find
  <2>4. FirstOf(here) # None
    BY <2>1, <2>2, PeersAssumption
  <2> QED BY <2>2, <2>3, <2>4
<1> QED BY <1>1, <1>2

(* The facts depend on these fields of the call alone ...                  *)
LEMMA FactsFrame ==
  ASSUME NEW k, NEW j, NEW P, NEW o, NEW b, NEW r,
         k.message = j.message, k.op = j.op, k.own = j.own, k.dir = j.dir, k.held = j.held
  PROVE  Facts(k, P, o, b, r) = Facts(j, P, o, b, r)
  BY DEF Facts, CarriedAt, SeenOn, SeenBound, SeenFree, SeenGrant, Orchestrator

(* ... and noting them twice adds nothing.                                 *)
LEMMA FactsClosed ==
  ASSUME NEW k, NEW j, NEW P, NEW o, NEW b, NEW r,
         k.message = j.message, k.op = j.op, k.own = j.own, k.dir = j.dir,
         j.held = Facts(k, P, o, b, r)
  PROVE  Facts(j, P, o, b, r) \subseteq j.held /\ (k.message # None => k.held \subseteq j.held)
<1>1. CASE k.message = None
  BY <1>1 DEF Facts
<1>2. CASE k.message # None
  <2> DEFINE at == k.held \cup CarriedAt(k, P)
             was == at \cup SeenOn(k, at, o)
             all == was \cup SeenBound(k, was, b) \cup SeenFree(k, P) \cup SeenGrant(k, r)
  <2>1. j.held = all
    BY <1>2 DEF Facts
  <2>2. /\ CarriedAt(j, P) = CarriedAt(k, P) /\ SeenFree(j, P) = SeenFree(k, P)
        /\ SeenGrant(j, r) = SeenGrant(k, r)
    BY DEF CarriedAt, SeenFree, SeenGrant, Orchestrator
  <2>3. \A d : <<"at", d>> \in all => <<"at", d>> \in at
    BY DEF SeenOn, SeenBound, SeenFree, SeenGrant
  <2>4. \A c : <<"on", c>> \in all => <<"on", c>> \in was
    BY DEF SeenBound, SeenFree, SeenGrant
  <2>5. all \cup CarriedAt(j, P) = all
    BY <2>2
  <2>6. SeenOn(j, all, o) \subseteq SeenOn(k, at, o)
    <3> HIDE DEF at, all
    <3> QED BY <2>3 DEF SeenOn
  <2>7. all \cup SeenOn(j, all, o) = all
    BY <2>6
  <2>8. SeenBound(j, all, b) \subseteq SeenBound(k, was, b)
    <3> HIDE DEF was, all
    <3> QED BY <2>4 DEF SeenBound, Orchestrator
  <2>9. Facts(j, P, o, b, r)
          = all \cup SeenBound(j, all, b) \cup SeenFree(j, P) \cup SeenGrant(j, r)
    <3> HIDE DEF all
    <3> QED BY <1>2, <2>1, <2>5, <2>7 DEF Facts
  <2> QED BY <2>1, <2>2, <2>8, <2>9
<1> QED BY <1>1, <1>2

(* What of the world is noted, whatever was held before.                   *)
LEMMA FactsHave ==
  ASSUME NEW k, NEW P, NEW o, NEW b, NEW r, k.message # None
  PROVE  /\ CarriedAt(k, P) \subseteq Facts(k, P, o, b, r)
         /\ SeenFree(k, P) \subseteq Facts(k, P, o, b, r)
         /\ SeenGrant(k, r) \subseteq Facts(k, P, o, b, r)
         /\ \A d \in Checkouts : (IF k.op = "who" THEN <<"at", d>> \in k.held ELSE d = k.dir)
              => <<"on", o[d]>> \in Facts(k, P, o, b, r)
         /\ \A c \in Branches : b[c] = Orchestrator(k) /\ <<"on", c>> \in k.held
              => <<"bound", c>> \in Facts(k, P, o, b, r)
<1> DEFINE at == k.held \cup CarriedAt(k, P)
           was == at \cup SeenOn(k, at, o)
<1>1. Facts(k, P, o, b, r)
        = was \cup SeenBound(k, was, b) \cup SeenFree(k, P) \cup SeenGrant(k, r)
  BY DEF Facts
<1>2. \A d \in Checkouts : (IF k.op = "who" THEN <<"at", d>> \in k.held ELSE d = k.dir)
              => <<"on", o[d]>> \in SeenOn(k, at, o)
  BY DEF SeenOn
<1>3. \A c \in Branches : b[c] = Orchestrator(k) /\ <<"on", c>> \in k.held
              => <<"bound", c>> \in SeenBound(k, was, b)
  BY DEF SeenBound
<1> QED BY <1>1, <1>2, <1>3

(* A file that is read now says what is held now.                          *)
LEMMA EntryNow ==
  ASSUME NEW k, k.message # None, Facts(k, proc, on, orc, record) \subseteq k.held,
         NEW L, NEW p \in Pids, L[p] = proc[p]
  PROVE  CarriedHeld(k, L, p) /\ YieldedHeld(k, L, p)
<1>1. CarriedAt(k, proc) \subseteq k.held /\ SeenFree(k, proc) \subseteq k.held
  BY FactsHave
<1>2. CarriedHeld(k, L, p)
  BY <1>1 DEF CarriedHeld, CarriedAt, SeenFree, Carries
<1>3. YieldedHeld(k, L, p)
  BY <1>1 DEF YieldedHeld, SeenFree, Yields, Carries
<1> QED BY <1>2, <1>3

(* What is held stays held.                                                *)
LEMMA EntryStays ==
  ASSUME NEW k, NEW j, k.message = j.message, k.op = j.op, k.own = j.own,
         k.held \subseteq j.held, NEW L, NEW M, NEW p, L[p] = M[p]
  PROVE  /\ CarriedHeld(k, L, p) => CarriedHeld(j, M, p)
         /\ YieldedHeld(k, L, p) => YieldedHeld(j, M, p)
  BY DEF CarriedHeld, YieldedHeld, Carries, Yields, Orchestrator

-----------------------------------------------------------------------------
(* The first state.                                                        *)
LEMMA InitInvariant == ASSUME Init PROVE IInv
<1>1. PICK w \in Worlds : proc = w.proc /\ on = w.on /\ orc = w.orc
  BY DEF Init
<1>2. WorldTyped
  BY <1>1, PeersAssumption DEF WorldTyped
<1>3. call = NoCall
  BY DEF Init
<1>4. CallTyped /\ Silent
  BY <1>3 DEF CallTyped, Silent, Shaped, NoCall, Answered
<1>5. FactsHeld /\ Registered /\ Granted /\ Branched /\ RowsBound /\ BindingNow /\ Steady
  BY <1>3 DEF FactsHeld, Registered, Granted, Branched, RowsBound, BindingNow, Steady, NoCall,
              Asking, Listing, Recording
<1>6. StandingGrounded /\ BoundIsKept /\ RunningMainKeptAlone
  BY <1>3 DEF StandingGrounded, BoundIsKept, RunningMainKeptAlone, Told, NoCall
<1> QED BY <1>2, <1>4, <1>5, <1>6 DEF IInv

(* A call that returns or dies, whatever becomes of the world with it.     *)
LEMMA EndKeeps ==
  ASSUME IInv, call' = NoCall, UNCHANGED <<proc, on, orc>>
  PROVE  IInv'
<1>1. WorldTyped'
  BY DEF IInv, WorldTyped
<1>2. CallTyped' /\ Silent'
  BY DEF CallTyped, Silent, Shaped, NoCall, Answered
<1>3. (FactsHeld /\ Registered /\ Granted /\ Branched /\ RowsBound /\ BindingNow /\ Steady)'
  BY DEF FactsHeld, Registered, Granted, Branched, RowsBound, BindingNow, Steady, NoCall,
         Asking, Listing, Recording
<1>4. (StandingGrounded /\ BoundIsKept /\ RunningMainKeptAlone)'
  BY DEF StandingGrounded, BoundIsKept, RunningMainKeptAlone, Told, NoCall
<1> QED BY <1>1, <1>2, <1>3, <1>4 DEF IInv

(* The world moves.                                                        *)
LEMMA MovedKeeps ==
  ASSUME IInv, Moved, WorldTyped'
  PROVE  IInv'
<1>1. CASE call.pc = "idle"
  <2>1. call' = call
    BY <1>1 DEF Moved, Noted
  <2>2. CallTyped' /\ Silent'
    BY <2>1 DEF IInv, CallTyped, Silent
  <2>3. (FactsHeld /\ Registered /\ Granted /\ Branched /\ RowsBound /\ BindingNow /\ Steady)'
    BY <1>1, <2>1 DEF FactsHeld, Registered, Granted, Branched, RowsBound, BindingNow, Steady,
           Asking, Listing, Recording
  <2>4. (StandingGrounded /\ BoundIsKept /\ RunningMainKeptAlone)'
    BY <1>1, <2>1 DEF IInv, StandingGrounded, BoundIsKept, RunningMainKeptAlone, Told
  <2> QED BY <2>2, <2>3, <2>4 DEF IInv
<1>2. CASE call.pc # "idle"
  <2> DEFINE now == Facts(call, proc', on', orc', record')
             kept == IF BindingAt(call.dir, on', orc') = call.bound /\ on'[call.dir] = on[call.dir]
                     THEN call.bound ELSE None
             still == {p \in call.steady : proc'[p] = proc[p]}
  <2>1. /\ Shaped(call)'
        /\ call'.pc = call.pc /\ call'.op = call.op /\ call'.own = call.own
        /\ call'.message = call.message /\ call'.listed = call.listed /\ call'.dir = call.dir
        /\ call'.branch = call.branch /\ call'.sid = call.sid /\ call'.missed = call.missed
        /\ call'.recs = call.recs /\ call'.orcs = call.orcs /\ call'.source = call.source
        /\ call'.target = call.target /\ call'.stands = call.stands /\ call'.seen = call.seen
        /\ call'.sure = call.sure /\ call'.todo = call.todo /\ call'.wide = call.wide
        /\ call'.held = now /\ call'.bound = kept /\ call'.steady = still
    BY <1>2 DEF Moved, Noted, IInv, CallTyped, Shaped, NoCall
  <2>2. CallTyped' /\ Silent'
    BY <2>1 DEF IInv, CallTyped, Silent
  <2>3. FactsHeld' /\ (call.message # None => call.held \subseteq call'.held)
    <3>1. /\ Facts(call', proc', on', orc', record') \subseteq call'.held
          /\ (call.message # None => call.held \subseteq call'.held)
      <4>1. /\ call.message = call'.message /\ call.op = call'.op /\ call.own = call'.own
            /\ call.dir = call'.dir /\ call'.held = Facts(call, proc', on', orc', record')
        BY <2>1
      <4> DEFINE k == call  j == call'  P == proc'  o == on'  b == orc'  r == record'
      <4>2. /\ k.message = j.message /\ k.op = j.op /\ k.own = j.own
            /\ k.dir = j.dir /\ j.held = Facts(k, P, o, b, r)
        BY <4>1
      <4> HIDE DEF k, j, P, o, b, r
      <4>3. Facts(j, P, o, b, r) \subseteq j.held /\ (k.message # None => k.held \subseteq j.held)
        BY <4>2, FactsClosed
      <4> QED BY <4>3 DEF k, j, P, o, b, r
    <3> QED BY <3>1 DEF FactsHeld
  <2>4. Registered'
    <3> SUFFICES ASSUME call.pc \in Listing, call.message # None
                 PROVE  /\ \A p \in Pids : CarriedHeld(call', call.listed, p)
                        /\ \A p \in Pids \ Unlisted(call) : YieldedHeld(call', call.listed, p)
      BY <2>1 DEF Registered, Unlisted
    <3>1. /\ \A p \in Pids : CarriedHeld(call, call.listed, p)
          /\ \A p \in Pids \ Unlisted(call) : YieldedHeld(call, call.listed, p)
      BY DEF IInv, Registered
    <3>2. /\ call'.message = call.message /\ call'.op = call.op /\ call'.own = call.own
          /\ call.held \subseteq call'.held
      BY <2>1, <2>3
    <3> QED BY <3>1, <3>2, EntryStays
  <2>5. Granted' /\ Branched' /\ RowsBound'
    <3>1. Granted'
      BY <2>1, <2>3 DEF IInv, Granted, Orchestrator
    <3>2. Branched'
      BY <2>1, <2>3 DEF IInv, Branched, OnHeld
    <3>3. RowsBound'
      BY <2>1, <2>3 DEF IInv, RowsBound, BoundHeld
    <3> QED BY <3>1, <3>2, <3>3
  <2>6. BindingNow'
    <3> SUFFICES ASSUME call.pc \in Asking, call.op = "orchestrator", kept # None
                 PROVE  kept = orc'[on'[call.dir]] /\ call.branch \in {None, on'[call.dir]}
      BY <2>1 DEF BindingNow
    <3>1. call.dir \in Checkouts
      BY <1>2 DEF IInv, CallTyped
    <3> QED BY <3>1 DEF IInv, BindingNow, BindingAt
  <2>7. Steady'
    BY <2>1 DEF IInv, Steady, Runs
  <2>8. (BoundIsKept /\ RunningMainKeptAlone)'
    BY <2>1 DEF IInv, BoundIsKept, RunningMainKeptAlone, Told
  <2>9. StandingGrounded'
    <3> SUFFICES ASSUME Told, call.stands
                 PROVE  /\ HeldSender(call')
                        /\ (call.op # "sender" => HeldBinding(call'))
                        /\ (call.op = "who" => HeldOwn(call'))
      BY <2>1 DEF StandingGrounded, Told
    <3>1. HeldSender(call) /\ (call.op # "sender" => HeldBinding(call))
          /\ (call.op = "who" => HeldOwn(call))
      BY DEF IInv, StandingGrounded
    <3>2. call.held \subseteq call'.held
      BY <2>3 DEF IInv, Silent
    <3> QED BY <2>1, <3>1, <3>2 DEF HeldSender, HeldBinding, HeldOwn, Orchestrator
  <2> QED BY <2>2, <2>3, <2>4, <2>5, <2>6, <2>7, <2>8, <2>9 DEF IInv
<1> QED BY <1>1, <1>2
LEMMA WorldKeeps == ASSUME IInv, WorldStep PROVE IInv'
<1>1. WorldTyped'
  <2> USE DEF IInv, WorldTyped
  <2>1. CASE \E p \in Pids, s \in Starts : SessionStarts(p, s)
    BY <2>1 DEF SessionStarts
  <2>2. CASE \E p \in Pids : SessionEnds(p)
    BY <2>2 DEF SessionEnds
  <2>3. CASE \E p \in Pids, n \in Names : Renamed(p, n)
    BY <2>3 DEF Renamed
  <2>4. CASE \E p, q \in Pids : Parked(p, q)
    BY <2>4 DEF Parked
  <2>5. CASE \E d \in Checkouts, b \in Branches : Switched(d, b)
    BY <2>5 DEF Switched
  <2>6. CASE \E b \in Branches, n \in Names \cup {None} : Bound(b, n)
    BY <2>6 DEF Bound
  <2>7. CASE \E n \in Names, s \in {"none", "off"} : Recorded(n, s)
    BY <2>7 DEF Recorded
  <2> QED BY <2>1, <2>2, <2>3, <2>4, <2>5, <2>6, <2>7 DEF WorldStep
<1>2. Moved
  BY DEF WorldStep, SessionStarts, SessionEnds, Renamed, Parked, Switched, Bound, Recorded
<1> QED BY <1>1, <1>2, MovedKeeps

-----------------------------------------------------------------------------
(* Where a call no longer asks, nothing is left of what it read.           *)
LEMMA NothingAsked ==
  ASSUME call'.pc \notin Asking
  PROVE  (FactsHeld /\ Registered /\ Granted /\ Branched /\ RowsBound /\ BindingNow)'
  BY DEF FactsHeld, Registered, Granted, Branched, RowsBound, BindingNow,
         Asking, Listing, Recording

(* Before the answer the three properties hold for want of one.            *)
LEMMA NothingTold ==
  ASSUME call'.pc \notin Answered, Silent'
  PROVE  (StandingGrounded /\ BoundIsKept /\ RunningMainKeptAlone)'
  BY DEF StandingGrounded, BoundIsKept, RunningMainKeptAlone, Told, Answered, Silent

(* A read of the call, the rest of its fields as they were.                *)
Reading ==
  /\ UNCHANGED <<proc, on, orc, record>> /\ call.pc \in Asking
  /\ Shaped(call') /\ call'.op = call.op /\ call'.own = call.own
  /\ call'.message = call.message /\ call'.dir = call.dir /\ call'.sid = call.sid
  /\ call'.held = call.held /\ call'.bound = call.bound /\ call'.source = call.source
  /\ call'.stands = call.stands /\ call'.seen = call.seen /\ call'.steady = call.steady
  /\ call'.still = call.still

LEMMA ReadingKeeps ==
  ASSUME IInv, Reading, call'.pc \in Asking, CallTyped',
         (Registered /\ Granted /\ Branched /\ RowsBound /\ BindingNow /\ Steady)'
  PROVE  IInv'
<1>1. WorldTyped' /\ Silent'
  BY DEF Reading, IInv, WorldTyped, Silent, Asking, Answered
<1>2. FactsHeld'
  <2>1. Facts(call', proc, on, orc, record) = Facts(call, proc, on, orc, record)
    BY FactsFrame DEF Reading
  <2> QED BY <2>1 DEF Reading, IInv, FactsHeld
<1>3. (StandingGrounded /\ BoundIsKept /\ RunningMainKeptAlone)'
  BY <1>1, NothingTold DEF Asking, Answered
<1> QED BY <1>1, <1>2, <1>3 DEF IInv

(* What was noted, or read, before such a step.                            *)
LEMMA ReadingHas ==
  ASSUME IInv, Reading
  PROVE  /\ call.op \in {"orchestrator", "who", "sender", "grant", "hub"}
         /\ call.dir \in Checkouts /\ call.message \in Messages \cup {None}
         /\ (call.seen # None => call.op = "hub") /\ (call.op = "who" => call.own # None)
         /\ (call.op = "sender" => call.message # None)
         /\ (call.op \in {"grant", "hub"} => call.message = None)
         /\ Facts(call, proc, on, orc, record) \subseteq call.held
  BY DEF IInv, Reading, CallTyped, FactsHeld, Asking

LEMMA ReadingEntries ==
  ASSUME IInv, Reading, call.pc \in Listing, call'.pc \in Listing,
         call'.listed = call.listed, Unlisted(call) \subseteq Unlisted(call')
  PROVE  Registered'
<1> SUFFICES ASSUME call.message # None
             PROVE  /\ \A p \in Pids : CarriedHeld(call', call.listed, p)
                    /\ \A p \in Pids \ Unlisted(call') : YieldedHeld(call', call.listed, p)
  BY DEF Reading, Registered
<1>1. /\ \A p \in Pids : CarriedHeld(call, call.listed, p)
      /\ \A p \in Pids \ Unlisted(call') : YieldedHeld(call, call.listed, p)
  BY DEF IInv, Registered
<1>2. /\ call'.message = call.message /\ call'.op = call.op /\ call'.own = call.own
      /\ call.held \subseteq call'.held
  BY DEF Reading
<1> QED BY <1>1, <1>2, EntryStays

(* The branch of the caller's checkout is read.                            *)
LEMMA BranchRead ==
  ASSUME IInv, Reading, call.op = "orchestrator", call'.branch \in {on[call.dir], None}
  PROVE  (call.message # None /\ call'.branch # None) => OnHeld(call')
<1> SUFFICES ASSUME call.message # None, call'.branch # None PROVE OnHeld(call')
  OBVIOUS
<1>1. call'.branch = on[call.dir] /\ call.dir \in Checkouts
  BY ReadingHas
<1>2. on[call.dir] \in Branches
  BY <1>1 DEF IInv, WorldTyped
<1>3. <<"on", on[call.dir]>> \in Facts(call, proc, on, orc, record)
  BY <1>1, FactsHave
<1> QED BY <1>1, <1>2, <1>3, ReadingHas DEF OnHeld, Reading

LEMMA BeginKeeps == ASSUME IInv, Begin PROVE IInv'
<1>1. PICK r \in Requests :
        /\ proc[r.pid] # None /\ proc[r.pid].at \in Checkouts
        /\ (r.op = "who" => proc[r.pid].name # None)
        /\ LET k == [NoCall EXCEPT !.pc = FirstStep(r.op), !.op = r.op, !.pid = r.pid,
                       !.sid = proc[r.pid].sid, !.dir = proc[r.pid].at,
                       !.own = proc[r.pid].name,
                       !.message = r.message, !.standing = r.standing,
                       !.bound = BindingAt(proc[r.pid].at, on, orc)]
           IN  call' = [k EXCEPT !.held = Facts(k, proc, on, orc, record)]
  BY DEF Begin
<1>2. UNCHANGED <<proc, on, orc, record>>
  BY DEF Begin, world
<1> DEFINE k == [NoCall EXCEPT !.pc = FirstStep(r.op), !.op = r.op, !.pid = r.pid,
                   !.sid = proc[r.pid].sid, !.dir = proc[r.pid].at,
                   !.own = proc[r.pid].name,
                   !.message = r.message, !.standing = r.standing,
                   !.bound = BindingAt(proc[r.pid].at, on, orc)]
<1>3. /\ r.op \in {"orchestrator", "who", "sender", "grant", "hub"}
      /\ r.message \in Messages \cup {None}
      /\ (r.op = "sender" => r.message # None)
      /\ (r.op \in {"grant", "hub"} => r.message = None)
  BY PeersAssumption
<1>4. /\ call'.pc = FirstStep(r.op) /\ call'.op = r.op /\ call'.sid = proc[r.pid].sid
      /\ call'.dir = proc[r.pid].at /\ call'.own = proc[r.pid].name
      /\ call'.message = r.message /\ call'.branch = None
      /\ call'.listed = [p \in Pids |-> None] /\ call'.orcs = [p \in Pids |-> None]
      /\ call'.todo = {} /\ call'.seen = None
      /\ call'.bound = BindingAt(call'.dir, on, orc) /\ call'.source = "none"
      /\ call'.stands = FALSE
      /\ call'.held = Facts(k, proc, on, orc, record)
      /\ call'.message = k.message /\ call'.op = k.op /\ call'.own = k.own
      /\ call'.dir = k.dir
  BY <1>1 DEF NoCall
<1>5. Shaped(call)'
  <2>1. Shaped(k) /\ DOMAIN k = DOMAIN NoCall
    BY DEF Shaped
  <2>2. call' = [k EXCEPT !.held = Facts(k, proc, on, orc, record)]
    BY <1>1
  <2> HIDE DEF k
  <2> QED BY <2>1, <2>2 DEF Shaped
<1>6. call'.pc \in {"branch", "registry"} /\ (call'.pc = "branch" => r.op = "orchestrator")
  BY <1>3, <1>4 DEF FirstStep
<1>7. WorldTyped'
  BY <1>2 DEF IInv, WorldTyped
<1>8. CallTyped' /\ Silent'
  BY <1>1, <1>3, <1>4, <1>5, <1>6 DEF CallTyped, Silent
<1>9. FactsHeld'
  <2>1. Facts(call', proc, on, orc, record) \subseteq call'.held
    <3> HIDE DEF k
    <3> QED BY <1>4, FactsClosed
  <2> QED BY <2>1, <1>2 DEF FactsHeld
<1>10. (Registered /\ Granted /\ Branched /\ Steady)'
  BY <1>4, <1>6 DEF Registered, Granted, Branched, Steady, Listing, Recording
<1>11. RowsBound'
  BY <1>1, <1>3, <1>4 DEF RowsBound, Messages
<1>12. BindingNow'
  BY <1>1, <1>2, <1>4 DEF BindingNow, BindingAt
<1>13. (StandingGrounded /\ BoundIsKept /\ RunningMainKeptAlone)'
  BY <1>6, <1>8, NothingTold DEF Answered
<1> QED BY <1>7, <1>8, <1>9, <1>10, <1>11, <1>12, <1>13 DEF IInv

LEMMA ReadBranchKeeps == ASSUME IInv, ReadBranch \/ ReadAgain PROVE IInv'
<1>1. PICK b \in {on[call.dir], None}, pc \in {"registry", "resolve"} :
        call' = [call EXCEPT !.pc = pc, !.branch = b]
  BY DEF ReadBranch, ReadAgain
<1>2. /\ call.pc \in {"branch", "again"} /\ UNCHANGED <<proc, on, orc, record>>
      /\ (call.pc = "branch" <=> call'.pc = "registry")
      /\ (call.pc = "again" <=> call'.pc = "resolve")
  BY DEF ReadBranch, ReadAgain, At, Quiet, world, IInv, CallTyped, Shaped, NoCall
<1>3. /\ call'.pc \in {"registry", "resolve"} /\ call'.branch = b
      /\ call'.listed = call.listed /\ call'.missed = call.missed /\ call'.todo = call.todo
      /\ call'.recs = call.recs /\ call'.orcs = call.orcs /\ call'.wide = call.wide
  BY <1>1 DEF IInv, CallTyped, Shaped, NoCall
<1>4. Reading
  BY <1>1, <1>2 DEF Reading, Asking, IInv, CallTyped, Shaped, NoCall
<1>5. call.op = "orchestrator"
  BY <1>2 DEF IInv, CallTyped
<1>6. CallTyped'
  BY <1>2, <1>3, <1>4, <1>5 DEF IInv, CallTyped, Reading
<1>7. Registered'
  <2>1. CASE call.pc = "branch"
    BY <2>1, <1>2 DEF Registered, Listing
  <2>2. CASE call.pc = "again"
    BY <2>2, <1>2, <1>3, <1>4, ReadingEntries DEF Listing, Unlisted
  <2> QED BY <2>1, <2>2, <1>2
<1>8. Granted'
  BY <1>2, <1>3, <1>4 DEF IInv, Granted, Recording, Reading, Orchestrator
<1>9. Branched'
  BY <1>1, <1>3, <1>4, <1>5, BranchRead DEF Branched, Reading
<1>10. (RowsBound /\ Steady)'
  BY <1>4, <1>5, ReadingHas, <1>3 DEF Reading, RowsBound, Steady
<1>11. BindingNow'
  BY <1>1, <1>3, <1>4, <1>5 DEF IInv, BindingNow, Reading
<1> QED BY <1>3, <1>4, <1>6, <1>7, <1>8, <1>9, <1>10, <1>11, ReadingKeeps DEF Asking

(* The files are listed: a process that has none runs nowhere.             *)
LEMMA ReadRegistryKeeps == ASSUME IInv, ReadRegistry PROVE IInv'
<1>1. PICK files \in SUBSET Pids :
       /\ Live(proc) \subseteq files
       /\ call' = [call EXCEPT !.pc = "entries", !.todo = files,
                               !.listed = NoCall.listed, !.missed = {}]
  BY DEF ReadRegistry
<1>2. call.pc = "registry" /\ UNCHANGED <<proc, on, orc, record>>
  BY DEF ReadRegistry, At, Quiet, world
<1>3. NoCall.listed = [p \in Pids |-> None]
  BY DEF NoCall
<1>4. /\ call'.pc = "entries" /\ call'.branch = call.branch
      /\ call'.listed = [p \in Pids |-> None] /\ call'.missed = {} /\ call'.todo = files
      /\ call'.recs = call.recs /\ call'.orcs = call.orcs /\ call'.wide = call.wide
  <2> DEFINE l == NoCall.listed
  <2>1. call' = [call EXCEPT !.pc = "entries", !.todo = files, !.listed = l, !.missed = {}]
    BY <1>1
  <2> HIDE DEF l
  <2>2. call'.listed = l
    BY <2>1 DEF IInv, CallTyped, Shaped, NoCall
  <2> QED BY <2>1, <2>2, <1>3 DEF IInv, CallTyped, Shaped, NoCall, l
<1>5. Reading
  <2> DEFINE l == NoCall.listed
  <2>1. call' = [call EXCEPT !.pc = "entries", !.todo = files, !.listed = l, !.missed = {}]
    BY <1>1
  <2> HIDE DEF l
  <2> QED BY <2>1, <1>2 DEF Reading, Asking, IInv, CallTyped, Shaped, NoCall
<1>6. CallTyped'
  BY <1>4, <1>5, ReadingHas DEF IInv, CallTyped, Reading
<1>7. Registered'
  <2> SUFFICES ASSUME call.message # None
               PROVE  /\ \A p \in Pids : CarriedHeld(call', call'.listed, p)
                      /\ \A p \in Pids \ files : YieldedHeld(call', call'.listed, p)
    BY <1>4, <1>5 DEF Registered, Reading, Unlisted
  <2>1. ASSUME NEW p \in Pids PROVE CarriedHeld(call', call'.listed, p)
    BY <1>4, <2>1 DEF CarriedHeld, Carries
  <2>2. ASSUME NEW p \in Pids \ files PROVE YieldedHeld(call', call'.listed, p)
    <3>1. proc[p] = None /\ call'.listed[p] = proc[p]
      BY <1>1, <1>4, <2>2 DEF Live
    <3>2. YieldedHeld(call, call'.listed, p)
      BY <3>1, <1>5, <2>2, ReadingHas, EntryNow
    <3>3. /\ call'.message = call.message /\ call'.op = call.op /\ call'.own = call.own
          /\ call.held \subseteq call'.held
      BY <1>5 DEF Reading
    <3> QED BY <3>2, <3>3, EntryStays
  <2> QED BY <2>1, <2>2
<1>8. (Granted /\ Branched)'
  BY <1>2, <1>4, <1>5 DEF IInv, Granted, Branched, Recording, Reading, OnHeld
<1>9. RowsBound'
  BY <1>2, <1>4, <1>5 DEF IInv, Reading, RowsBound
<1>10. BindingNow'
  BY <1>4, <1>5 DEF IInv, BindingNow, Reading
<1>11. Steady'
  BY <1>1, <1>2, <1>4, <1>5 DEF IInv, Steady, Reading, Live, Runs
<1> QED BY <1>4, <1>5, <1>6, <1>7, <1>8, <1>9, <1>10, <1>11, ReadingKeeps DEF Asking

(* One file is read, or cannot be.                                         *)
LEMMA ReadEntryKeeps == ASSUME IInv, ReadEntry PROVE IInv'
<1> DEFINE p == FirstOf(call.todo)
<1>1. /\ call.pc = "entries" /\ call.todo # {} /\ UNCHANGED <<proc, on, orc, record>>
      /\ \/ call' = [call EXCEPT !.todo = @ \ {p}, !.listed[p] = proc[p]]
         \/ call' = [call EXCEPT !.todo = @ \ {p}, !.missed = @ \cup {p}]
  BY DEF ReadEntry, At, Quiet, world
<1>2. p \in call.todo /\ p \in Pids
  BY <1>1, FirstIsIn DEF IInv, CallTyped
<1> HIDE DEF p
<1>3. /\ call'.pc = "entries" /\ call'.branch = call.branch /\ call'.todo = call.todo \ {p}
      /\ \/ call'.listed = [call.listed EXCEPT ![p] = proc[p]] /\ call'.missed = call.missed
         \/ call'.listed = call.listed /\ call'.missed = call.missed \cup {p}
      /\ call'.recs = call.recs /\ call'.orcs = call.orcs /\ call'.wide = call.wide
  BY <1>1 DEF IInv, CallTyped, Shaped, NoCall
<1>4. Reading
  BY <1>1 DEF Reading, Asking, IInv, CallTyped, Shaped, NoCall
<1>5. /\ call'.listed = [q \in Pids |-> call'.listed[q]]
      /\ \A q \in Pids : \/ call'.listed[q] = call.listed[q]
                         \/ (q = p /\ call'.listed[q] = proc[q])
      /\ p \notin call'.missed => call'.listed[p] = proc[p]
  <2>1. call.listed = [q \in Pids |-> call.listed[q]]
    BY DEF IInv, CallTyped
  <2> QED BY <1>2, <1>3, <2>1
<1>6. CallTyped'
  BY <1>3, <1>4, <1>5, ReadingHas DEF IInv, CallTyped, Reading
<1>7. Registered'
  <2> SUFFICES ASSUME call.message # None
               PROVE  /\ \A q \in Pids : CarriedHeld(call', call'.listed, q)
                      /\ \A q \in Pids \ Unlisted(call') : YieldedHeld(call', call'.listed, q)
    BY <1>4 DEF Registered, Reading
  <2>1. /\ call'.message = call.message /\ call'.op = call.op /\ call'.own = call.own
        /\ call.held \subseteq call'.held
    BY <1>4 DEF Reading
  <2>2. /\ \A q \in Pids : CarriedHeld(call, call.listed, q)
        /\ \A q \in Pids \ Unlisted(call) : YieldedHeld(call, call.listed, q)
    BY <1>1 DEF IInv, Registered, Listing
  <2>3. ASSUME NEW q \in Pids, call'.listed[q] = proc[q]
        PROVE  CarriedHeld(call', call'.listed, q) /\ YieldedHeld(call', call'.listed, q)
    <3>1. CarriedHeld(call, call'.listed, q) /\ YieldedHeld(call, call'.listed, q)
      BY <1>4, <2>3, ReadingHas, EntryNow
    <3> QED BY <2>1, <3>1, EntryStays
  <2>4. ASSUME NEW q \in Pids, call'.listed[q] = call.listed[q]
        PROVE  /\ CarriedHeld(call', call'.listed, q)
               /\ (q \notin Unlisted(call) => YieldedHeld(call', call'.listed, q))
    BY <2>1, <2>2, <2>4, EntryStays
  <2>5. ASSUME NEW q \in Pids \ Unlisted(call') PROVE YieldedHeld(call', call'.listed, q)
    <3>1. CASE q = p
      <4>1. p \notin call'.missed
        BY <2>5, <3>1 DEF Unlisted
      <4> QED BY <1>2, <1>5, <2>3, <3>1, <4>1
    <3>2. CASE q # p
      <4>1. q \notin Unlisted(call) /\ call'.listed[q] = call.listed[q]
        BY <1>1, <1>3, <1>5, <2>5, <3>2 DEF Unlisted
      <4> QED BY <2>4, <4>1
    <3> QED BY <3>1, <3>2
  <2> QED BY <1>5, <2>3, <2>4, <2>5
<1>8. (Granted /\ Branched)'
  BY <1>1, <1>3, <1>4 DEF IInv, Granted, Branched, Recording, Reading, OnHeld
<1>9. RowsBound'
  BY <1>1, <1>3, <1>4 DEF IInv, Reading, RowsBound
<1>10. BindingNow'
  BY <1>3, <1>4 DEF IInv, BindingNow, Reading
<1>11. Steady'
  BY <1>1, <1>3, <1>4, <1>5 DEF IInv, Steady, Reading, Runs
<1> QED BY <1>3, <1>4, <1>6, <1>7, <1>8, <1>9, <1>10, <1>11, ReadingKeeps DEF Asking

(* The whole registry is read; then the records are.                       *)
LEMMA ReadRecordsKeeps == ASSUME IInv, ReadRecords PROVE IInv'
<1>1. PICK wide \in BOOLEAN :
        call' = [call EXCEPT
         !.wide = wide, !.recs = record,
         !.todo = IF call.op = "who" THEN Rows(call.listed, wide) ELSE {},
         !.pc = CASE call.op = "hub" -> "stopped" [] call.op = "sender" -> "answer"
                  [] call.op = "who" -> "rows"
                  [] OTHER -> IF call.branch = None THEN "again" ELSE "resolve"]
  BY DEF ReadRecords
<1>2. /\ call.pc = "entries" /\ call.todo = {} /\ call.op # "grant" /\ call.seen = None
      /\ UNCHANGED <<proc, on, orc, record>>
  BY DEF ReadRecords, At, Quiet, world
<1> DEFINE rows == Rows(call.listed, wide)
<1>3. /\ call'.pc = (CASE call.op = "hub" -> "stopped" [] call.op = "sender" -> "answer"
                       [] call.op = "who" -> "rows"
                       [] OTHER -> IF call.branch = None THEN "again" ELSE "resolve")
      /\ call'.wide = wide /\ call'.branch = call.branch
      /\ call'.todo = (IF call.op = "who" THEN rows ELSE {})
      /\ call'.listed = call.listed /\ call'.missed = call.missed
      /\ call'.recs = record /\ call'.orcs = call.orcs
  <2> HIDE DEF rows
  <2> QED BY <1>1 DEF IInv, CallTyped, Shaped, NoCall, rows
<1>4. Reading
  BY <1>1, <1>2 DEF Reading, Asking, IInv, CallTyped, Shaped, NoCall
<1>5. rows \subseteq Pids
  BY DEF Rows, Live
<1> HIDE DEF rows
<1>6. CallTyped'
  <2>1. /\ call'.pc \in {"stopped", "answer", "rows", "again", "resolve"}
        /\ (call'.pc = "stopped" => call.op = "hub") /\ (call'.pc = "answer" => call.op = "sender")
        /\ (call'.pc = "rows" => call.op = "who")
        /\ (call'.pc \in {"again", "resolve"} => call.op = "orchestrator")
    BY <1>2, <1>3, <1>4, ReadingHas
  <2>2. /\ call'.todo \in SUBSET Pids
        /\ (call'.pc = "rows" => call'.todo \subseteq Rows(call'.listed, call'.wide))
    BY <1>3, <1>5, <2>1 DEF rows
  <2>3. /\ call'.listed = [p \in Pids |-> call'.listed[p]]
        /\ call'.orcs = [p \in Pids |-> call'.orcs[p]]
    BY <1>3 DEF IInv, CallTyped
  <2> QED BY <1>4, <2>1, <2>2, <2>3, ReadingHas DEF CallTyped, Reading
<1>7. CASE call.op = "hub"
  <2>1. call'.pc = "stopped"
    BY <1>3, <1>7
  <2>2. WorldTyped' /\ Silent' /\ Steady'
    BY <1>2, <1>4, <2>1 DEF IInv, WorldTyped, Silent, Steady, Reading, Answered
  <2>3. (FactsHeld /\ Registered /\ Granted /\ Branched /\ RowsBound /\ BindingNow)'
    BY <2>1, NothingAsked DEF Asking
  <2>4. (StandingGrounded /\ BoundIsKept /\ RunningMainKeptAlone)'
    BY <2>1, <2>2, NothingTold DEF Answered
  <2> QED BY <1>6, <2>2, <2>3, <2>4 DEF IInv
<1>8. CASE call.op # "hub"
  <2>1. /\ call'.pc \in {"answer", "rows", "again", "resolve"}
        /\ (call'.pc = "rows" <=> call.op = "who")
    BY <1>2, <1>3, <1>4, <1>8, ReadingHas
  <2>2. Registered'
    BY <1>2, <1>3, <1>4, <2>1, ReadingEntries DEF Listing, Unlisted
  <2>3. Granted'
    <3> SUFFICES ASSUME call.message # None, record[Orchestrator(call)] = "on"
                 PROVE  <<"grant", Orchestrator(call)>> \in call.held
      BY <1>3, <1>4 DEF Granted, Reading, Orchestrator
    <3>1. SeenGrant(call, record) \subseteq Facts(call, proc, on, orc, record)
      BY FactsHave
    <3> QED BY <3>1, <1>4, ReadingHas DEF SeenGrant
  <2>4. (Branched /\ BindingNow)'
    BY <1>2, <1>3, <1>4, <2>1 DEF IInv, Branched, BindingNow, Reading, OnHeld, Asking
  <2>5. RowsBound'
    BY <1>2, <1>3, <1>4, <2>1 DEF IInv, RowsBound, Reading
  <2>6. Steady'
    BY <2>1 DEF Steady
  <2> QED BY <1>4, <1>6, <2>1, <2>2, <2>3, <2>4, <2>5, <2>6, ReadingKeeps DEF Asking
<1> QED BY <1>7, <1>8

(* A row's branch is that of the checkout its process was in.              *)
LEMMA ReadRowBranchKeeps == ASSUME IInv, ReadRowBranch PROVE IInv'
<1> DEFINE p == FirstOf(call.todo)
<1>1. PICK b \in {on[call.listed[p].at], None} :
        call' = [call EXCEPT !.pc = "row", !.branch = b, !.sure = @ /\ b # None]
  BY DEF ReadRowBranch
<1>2. call.pc = "rows" /\ call.todo # {} /\ UNCHANGED <<proc, on, orc, record>>
  BY DEF ReadRowBranch, At, Quiet, world
<1>3. /\ call.op = "who" /\ p \in Rows(call.listed, call.wide)
      /\ call.listed[p].at \in Checkouts
  <2>1. p \in call.todo
    BY <1>2, FirstIsIn DEF IInv, CallTyped
  <2> HIDE DEF p
  <2>2. call.op = "who" /\ p \in Rows(call.listed, call.wide)
    BY <1>2, <2>1 DEF IInv, CallTyped
  <2> QED BY <2>2, PeersAssumption DEF Rows
<1> HIDE DEF p
<1>4. /\ call'.pc = "row" /\ call'.branch = b /\ call'.todo = call.todo
      /\ call'.listed = call.listed /\ call'.missed = call.missed /\ call'.wide = call.wide
      /\ call'.recs = call.recs /\ call'.orcs = call.orcs
  BY <1>1 DEF IInv, CallTyped, Shaped, NoCall
<1>5. Reading
  BY <1>1, <1>2 DEF Reading, Asking, IInv, CallTyped, Shaped, NoCall
<1>6. CallTyped'
  BY <1>2, <1>4, <1>5, ReadingHas DEF IInv, CallTyped, Reading
<1>7. Registered'
  BY <1>2, <1>4, <1>5, ReadingEntries DEF Listing, Unlisted
<1>8. Granted'
  BY <1>2, <1>4, <1>5 DEF IInv, Granted, Recording, Reading, Orchestrator
<1>9. Branched'
  <2> DEFINE m == call.message
  <2> SUFFICES ASSUME m # None, b # None, p = m.pid, Carries(call.listed, m.pid, m.name)
               PROVE  OnHeld(call')
    BY <1>3, <1>4, <1>5 DEF Branched, Reading, p
  <2>1. m.pid \in Pids
    BY <1>5, ReadingHas DEF Messages
  <2>2. CarriedHeld(call, call.listed, m.pid)
    BY <1>2, <2>1 DEF IInv, Registered, Listing
  <2>3. <<"at", call.listed[m.pid].at>> \in call.held
    BY <2>2 DEF CarriedHeld
  <2>4. b = on[call.listed[m.pid].at] /\ call.listed[m.pid].at \in Checkouts
    BY <1>1, <1>3
  <2>5. <<"on", b>> \in Facts(call, proc, on, orc, record)
    BY <1>3, <2>3, <2>4, FactsHave
  <2>6. b \in Branches
    BY <2>4 DEF IInv, WorldTyped
  <2> QED BY <1>4, <1>5, <2>5, <2>6, ReadingHas DEF OnHeld, Reading
<1>10. RowsBound'
  BY <1>2, <1>4, <1>5 DEF IInv, RowsBound, Reading, BoundHeld
<1>11. (BindingNow /\ Steady)'
  BY <1>3, <1>4, <1>5 DEF BindingNow, Steady, Reading
<1> QED BY <1>4, <1>5, <1>6, <1>7, <1>8, <1>9, <1>10, <1>11, ReadingKeeps DEF Asking

(* What that branch is bound to, it is bound to after it was checked out.  *)
LEMMA ReadRowBindingKeeps == ASSUME IInv, ReadRowBinding PROVE IInv'
<1> DEFINE p == FirstOf(call.todo)
           bound(answers) == IF answers /\ call.branch # None THEN orc[call.branch] ELSE None
<1>1. PICK answers \in BOOLEAN :
        call' = [call EXCEPT
             !.pc = "rows", !.todo = @ \ {p}, !.branch = None, !.sure = @ /\ answers,
             !.orcs[p] = bound(answers)]
  BY DEF ReadRowBinding
<1>2. call.pc = "row" /\ UNCHANGED <<proc, on, orc, record>>
  BY DEF ReadRowBinding, At, Quiet, world
<1>3. call.op = "who" /\ p \in Pids
  BY <1>2, FirstIsIn DEF IInv, CallTyped
<1> HIDE DEF p, bound
<1>4. /\ call'.pc = "rows" /\ call'.branch = None /\ call'.todo = call.todo \ {p}
      /\ call'.listed = call.listed /\ call'.missed = call.missed /\ call'.wide = call.wide
      /\ call'.recs = call.recs /\ call'.orcs = [call.orcs EXCEPT ![p] = bound(answers)]
  BY <1>1 DEF IInv, CallTyped, Shaped, NoCall
<1>5. Reading
  BY <1>1, <1>2 DEF Reading, Asking, IInv, CallTyped, Shaped, NoCall
<1>6. /\ call'.orcs = [q \in Pids |-> call'.orcs[q]] /\ call'.orcs[p] = bound(answers)
      /\ \A q \in Pids \ {p} : call'.orcs[q] = call.orcs[q]
  <2>1. call.orcs = [q \in Pids |-> call.orcs[q]]
    BY DEF IInv, CallTyped
  <2> QED BY <1>3, <1>4, <2>1
<1>7. CallTyped'
  BY <1>2, <1>4, <1>5, <1>6, ReadingHas DEF IInv, CallTyped, Reading
<1>8. Registered'
  BY <1>2, <1>4, <1>5, ReadingEntries DEF Listing, Unlisted
<1>9. Granted'
  BY <1>2, <1>4, <1>5 DEF IInv, Granted, Recording, Reading, Orchestrator
<1>10. Branched'
  BY <1>4 DEF Branched
<1>11. RowsBound'
  <2> DEFINE m == call.message
  <2> SUFFICES ASSUME m # None, Carries(call.listed, m.pid, m.name),
                      call'.orcs[m.pid] = call.own
               PROVE  BoundHeld(call')
    BY <1>4, <1>5 DEF RowsBound, Reading
  <2>1. m.pid \in Pids /\ call.own # None
    BY <1>3, <1>5, ReadingHas DEF Messages
  <2>2. CASE m.pid # p
    <3>1. call.orcs[m.pid] = call.own
      BY <1>6, <2>1, <2>2
    <3>2. BoundHeld(call)
      BY <1>2, <1>3, <3>1 DEF IInv, RowsBound
    <3> QED BY <1>5, <3>2 DEF BoundHeld, Reading
  <2>3. CASE m.pid = p
    <3>1. call.branch # None /\ orc[call.branch] = call.own
      BY <1>6, <2>1, <2>3 DEF bound
    <3>2. OnHeld(call)
      BY <1>2, <2>3, <3>1 DEF IInv, Branched, p
    <3>3. <<"bound", call.branch>> \in Facts(call, proc, on, orc, record)
      BY <1>3, <3>1, <3>2, FactsHave DEF OnHeld, Orchestrator
    <3> QED BY <1>5, <3>2, <3>3, ReadingHas DEF BoundHeld, OnHeld, Reading
  <2> QED BY <2>2, <2>3
<1>12. (BindingNow /\ Steady)'
  BY <1>3, <1>4, <1>5 DEF BindingNow, Steady, Reading
<1> QED BY <1>4, <1>5, <1>7, <1>8, <1>9, <1>10, <1>11, <1>12, ReadingKeeps DEF Asking

-----------------------------------------------------------------------------
(* The answers.  A message that comes from its claimed sender was listed   *)
(* alone under its name by a full read.                                    *)
LEMMA SenderListed ==
  ASSUME CallTyped, call.pc # "idle", call.message # None, StandingSender(call.message) # None
  PROVE  /\ call.missed = {} /\ Named(call.listed, call.message.name) = {call.message.pid}
         /\ StandingSender(call.message) = call.message.pid
  BY DEF StandingSender

(* Such a message's process carried the name, and no other did throughout. *)
LEMMA SenderHeld ==
  ASSUME IInv, call.pc \in Recording, call.message # None,
         StandingSender(call.message) # None
  PROVE  /\ HeldSender(call) /\ call.missed = {}
         /\ StandingSender(call.message) = call.message.pid
         /\ Carries(call.listed, call.message.pid, call.message.name)
         /\ <<"at", call.listed[call.message.pid].at>> \in call.held
<1> DEFINE m == call.message  L == call.listed
<1>1. /\ call.missed = {} /\ Named(L, m.name) = {m.pid} /\ m.pid \in Pids
      /\ StandingSender(call.message) = call.message.pid
  BY SenderListed DEF IInv, CallTyped, Messages, Recording
<1>2. Carries(L, m.pid, m.name)
  BY <1>1 DEF Named, Live, Carries
<1>3. /\ \A p \in Pids : CarriedHeld(call, L, p)
      /\ \A p \in Pids : YieldedHeld(call, L, p)
  BY <1>1 DEF IInv, Registered, Recording, Listing, Unlisted
<1>4. <<"at", L[m.pid].at>> \in call.held
  BY <1>1, <1>2, <1>3 DEF CarriedHeld
<1>5. ASSUME NEW q \in Pids \ {m.pid} PROVE <<"free", q>> \in call.held
  <2>1. q \notin Named(L, m.name)
    BY <1>1, <1>5
  <2>2. Yields(L, q, m.name)
    BY <2>1, <1>5 DEF Named, Live, Continued, Yields, Carries
  <2> QED BY <1>3, <1>5, <2>2 DEF YieldedHeld
<1>6. <<"at", L[m.pid].at>>[1] = "at"
  OBVIOUS
<1>7. HeldSender(call)
  BY <1>4, <1>5, <1>6 DEF HeldSender
<1> QED BY <1>1, <1>2, <1>4, <1>7

(* A call that forgets what it has read is otherwise as it was.            *)
LEMMA SettledShape ==
  ASSUME NEW k, Shaped(k), k.orcs = [p \in Pids |-> k.orcs[p]]
  PROVE  /\ Shaped(Settled(k)) /\ DOMAIN Settled(k) = DOMAIN NoCall
         /\ Settled(k).listed = [p \in Pids |-> None] /\ Settled(k).orcs = [p \in Pids |-> None]
         /\ \A f \in {"op", "own", "message", "dir", "sid", "held", "bound", "sure", "still",
                      "missed", "wide", "stands", "source", "todo", "seen", "branch", "steady"} :
              Settled(k)[f] = k[f]
<1>1. /\ DOMAIN k = DOMAIN NoCall
      /\ {"op", "own", "message", "dir", "sid", "held", "bound", "sure", "still",
          "missed", "wide", "stands", "source", "todo", "seen", "branch", "steady"}
           \subseteq DOMAIN NoCall
      /\ {"listed", "recs", "orcs"} \subseteq DOMAIN NoCall
  BY DEF Shaped, NoCall
<1> DEFINE l == NoCall.listed  r == NoCall.recs  o == NoCall.orcs
<1>2. Settled(k) = [k EXCEPT !.listed = l, !.recs = r, !.orcs = o]
  BY DEF Settled
<1>3. l = [p \in Pids |-> None] /\ o = [p \in Pids |-> None]
  BY DEF NoCall
<1> HIDE DEF l, r, o
<1>4. /\ Shaped(Settled(k)) /\ DOMAIN Settled(k) = DOMAIN NoCall
      /\ Settled(k).listed = l /\ Settled(k).orcs = o
      /\ \A f \in {"op", "own", "message", "dir", "sid", "held", "bound", "sure", "still",
                   "missed", "wide", "stands", "source", "todo", "seen", "branch", "steady"} :
           Settled(k)[f] = k[f]
  BY <1>1, <1>2 DEF Shaped
<1> QED BY <1>3, <1>4

LEMMA SettledCall ==
  ASSUME IInv
  PROVE  LET s == Settled(call)
         IN  /\ Shaped(s) /\ DOMAIN s = DOMAIN NoCall
             /\ s.listed = [p \in Pids |-> None] /\ s.orcs = [p \in Pids |-> None]
             /\ s.op = call.op /\ s.own = call.own /\ s.message = call.message
             /\ s.dir = call.dir /\ s.sid = call.sid /\ s.held = call.held
             /\ s.bound = call.bound /\ s.sure = call.sure /\ s.still = call.still
             /\ s.missed = call.missed /\ s.wide = call.wide /\ s.stands = call.stands
             /\ s.source = call.source /\ s.todo = call.todo /\ s.seen = call.seen
             /\ s.branch = call.branch /\ s.steady = call.steady
  BY SettledShape DEF IInv, CallTyped

(* An answered call is typed; it has nothing left that it read.            *)
LEMMA AnsweredKeeps ==
  ASSUME IInv, UNCHANGED <<proc, on, orc, record>>, call.pc \in Asking,
         call'.pc \in {"refresh", "told"},
         Shaped(call'), call'.listed = [p \in Pids |-> None], call'.orcs = [p \in Pids |-> None],
         call'.todo = call.todo, call'.op = call.op, call'.own = call.own,
         call'.message = call.message, call'.dir = call.dir, call'.seen = call.seen,
         call'.stands => call.message # None,
         (StandingGrounded /\ BoundIsKept /\ RunningMainKeptAlone)'
  PROVE  IInv'
<1>1. WorldTyped' /\ CallTyped' /\ Silent'
  BY DEF IInv, WorldTyped, CallTyped, Silent, Answered, Asking
<1>2. (FactsHeld /\ Registered /\ Granted /\ Branched /\ RowsBound /\ BindingNow)'
  BY NothingAsked DEF Asking
<1>3. Steady'
  BY DEF Steady
<1> QED BY <1>1, <1>2, <1>3 DEF IInv

LEMMA ResolveKeeps == ASSUME IInv, Resolve PROVE IInv'
<1>1. PICK late \in BOOLEAN, answers \in BOOLEAN :
       LET b == call.branch
           bound == IF answers /\ b # None THEN orc[b] ELSE None
           res == Resolution(bound, late)
       IN  call' = [Settled(call) EXCEPT
             !.pc = "refresh", !.found = Found, !.source = res[1], !.target = res[2],
             !.sure = @ /\ answers /\ b # None,
             !.stands = call.message # None
                        /\ FromOrchestrator(call.message, res[1], res[2])]
  BY DEF Resolve
<1> DEFINE b == call.branch
           bound == IF answers /\ b # None THEN orc[b] ELSE None
           res == Resolution(bound, late)
<1>2. call.pc = "resolve" /\ UNCHANGED <<proc, on, orc, record>>
  BY DEF Resolve, At, Quiet, world
<1>3. /\ Shaped(call) /\ call.op = "orchestrator" /\ call.dir \in Checkouts
      /\ call.message \in Messages \cup {None}
  BY <1>2 DEF IInv, CallTyped
<1>4. /\ Shaped(call') /\ call'.pc = "refresh"
      /\ call'.op = call.op /\ call'.own = call.own /\ call'.message = call.message
      /\ call'.dir = call.dir /\ call'.held = call.held /\ call'.bound = call.bound
      /\ call'.todo = call.todo /\ call'.seen = call.seen
      /\ call'.listed = [p \in Pids |-> None] /\ call'.orcs = [p \in Pids |-> None]
      /\ call'.source = res[1] /\ call'.target = res[2]
      /\ call'.sure = (call.sure /\ answers /\ b # None)
      /\ call'.stands = (call.message # None
                        /\ FromOrchestrator(call.message, res[1], res[2]))
  <2> DEFINE s == Settled(call)
  <2> HIDE DEF b, res
  <2>1. call' = [s EXCEPT
             !.pc = "refresh", !.found = Found, !.source = res[1], !.target = res[2],
             !.sure = @ /\ answers /\ b # None,
             !.stands = call.message # None
                        /\ FromOrchestrator(call.message, res[1], res[2])]
    BY <1>1 DEF b, res
  <2>2. /\ Shaped(s) /\ DOMAIN s = DOMAIN NoCall
        /\ s.listed = [p \in Pids |-> None] /\ s.orcs = [p \in Pids |-> None]
        /\ s.op = call.op /\ s.own = call.own /\ s.message = call.message
        /\ s.dir = call.dir /\ s.held = call.held /\ s.bound = call.bound
        /\ s.sure = call.sure /\ s.todo = call.todo /\ s.seen = call.seen
    BY SettledCall
  <2> HIDE DEF s
  <2>3. Shaped(call')
    BY <2>1, <2>2 DEF Shaped
  <2>4. DOMAIN s = DOMAIN NoCall /\ s = [f \in DOMAIN NoCall |-> s[f]]
    BY <2>2 DEF Shaped
  <2>5. /\ call'.pc = "refresh"
        /\ call'.op = s.op /\ call'.own = s.own /\ call'.message = s.message
        /\ call'.dir = s.dir /\ call'.held = s.held /\ call'.bound = s.bound
        /\ call'.todo = s.todo /\ call'.seen = s.seen
        /\ call'.listed = s.listed /\ call'.orcs = s.orcs
        /\ call'.source = res[1] /\ call'.target = res[2]
        /\ call'.sure = (s.sure /\ answers /\ b # None)
        /\ call'.stands = (call.message # None
                          /\ FromOrchestrator(call.message, res[1], res[2]))
    BY <2>1, <2>4 DEF NoCall
  <2> QED BY <2>2, <2>3, <2>5
<1>5. /\ (bound # None => res[1] = "bound" /\ res[2] \in {bound, None})
      /\ (bound = None => res[1] \in {"self", "late", "none", "single", "ambiguous"})
  <2> HIDE DEF bound
  <2>1. CASE bound # None
    BY <2>1 DEF Resolution
  <2>2. CASE bound = None
    BY <2>2 DEF Resolution
  <2> QED BY <2>1, <2>2
<1>6. StandingGrounded'
  <2> DEFINE m == call.message
  <2> SUFFICES ASSUME m # None, FromOrchestrator(m, res[1], res[2])
               PROVE  HeldSender(call) /\ HeldBinding(call)
    BY <1>3, <1>4 DEF StandingGrounded, HeldSender, HeldBinding, Orchestrator
  <2> HIDE DEF b, res, bound
  <2>1. /\ StandingSender(m) # None
        /\ res[1] = "bound" /\ res[2] = m.name
        /\ RepoRowOf(call.listed, Rows(call.listed, call.wide), StandingSender(m)) # {}
        /\ call.recs[m.name] = "on"
    BY DEF FromOrchestrator
  <2>2. /\ HeldSender(call) /\ StandingSender(m) = m.pid
        /\ <<"at", call.listed[m.pid].at>> \in call.held
    BY <1>2, <2>1, SenderHeld DEF Recording
  <2>3. Orchestrator(call) = m.name
    BY <1>3 DEF Orchestrator
  <2>4. call.listed[m.pid].at \in Checkouts
    BY <2>1, <2>2, PeersAssumption DEF RepoRowOf, Rows
  <2>5. <<"grant", Orchestrator(call)>> \in call.held
    BY <1>2, <2>1, <2>3 DEF IInv, Granted, Recording
  <2>6. BoundHeld(call)
    <3>1. m.name # None
      BY <1>3, PeersAssumption DEF Messages
    <3>2. bound # None /\ bound = m.name
      BY <1>5, <2>1, <3>1
    <3>3. b # None /\ orc[b] = m.name
      BY <3>2 DEF bound
    <3>4. OnHeld(call)
      BY <1>2, <1>3, <3>3 DEF IInv, Branched, Asking, b
    <3>5. <<"bound", b>> \in Facts(call, proc, on, orc, record)
      BY <1>3, <2>3, <3>3, <3>4, FactsHave DEF OnHeld, b
    <3>6. <<"bound", b>> \in call.held
      BY <1>2, <3>5 DEF IInv, FactsHeld, Asking
    <3> QED BY <3>4, <3>6 DEF BoundHeld, OnHeld, b
  <2> QED BY <2>2, <2>4, <2>5, <2>6 DEF HeldBinding, BoundHeld
<1>7. BoundIsKept'
  <2> SUFFICES ASSUME call.bound # None, answers, b # None
               PROVE  res[1] = "bound" /\ res[2] \in {call.bound, None}
    BY <1>4 DEF BoundIsKept
  <2>1. call.bound = orc[on[call.dir]] /\ call.branch \in {None, on[call.dir]}
    BY <1>2, <1>3 DEF IInv, BindingNow, Asking
  <2>2. bound = call.bound
    BY <2>1
  <2> HIDE DEF b, res, bound
  <2> QED BY <1>5, <2>2
<1>8. RunningMainKeptAlone'
  <2> HIDE DEF b, res, bound
  <2> QED BY <1>4, <1>5 DEF RunningMainKeptAlone
<1> HIDE DEF b, res, bound
<1> QED BY <1>2, <1>4, <1>6, <1>7, <1>8, AnsweredKeeps DEF Asking

LEMMA WhoKeeps == ASSUME IInv, Who PROVE IInv'
<1>1. call.pc = "rows" /\ UNCHANGED <<proc, on, orc, record>>
  BY DEF Who, At, Quiet, world
<1>2. /\ Shaped(call') /\ call'.pc = "refresh" /\ call'.op = call.op /\ call'.own = call.own
      /\ call'.message = call.message /\ call'.dir = call.dir /\ call'.held = call.held
      /\ call'.sid = call.sid
      /\ call'.source = call.source /\ call'.todo = call.todo /\ call'.seen = call.seen
      /\ call'.listed = [p \in Pids |-> None] /\ call'.orcs = [p \in Pids |-> None]
      /\ call'.stands = (call.message # None /\ FromWorker(call.message))
  <2> DEFINE s == Settled(call)
  <2>1. /\ Shaped(s) /\ DOMAIN s = DOMAIN NoCall
        /\ s.listed = [p \in Pids |-> None] /\ s.orcs = [p \in Pids |-> None]
        /\ s.op = call.op /\ s.own = call.own /\ s.message = call.message /\ s.sid = call.sid
        /\ s.dir = call.dir /\ s.held = call.held /\ s.source = call.source
        /\ s.todo = call.todo /\ s.seen = call.seen
    BY SettledCall
  <2>2. call' = [s EXCEPT !.pc = "refresh", !.found = Found,
                   !.stands = call.message # None /\ FromWorker(call.message)]
    BY DEF Who
  <2> HIDE DEF s
  <2> QED BY <2>1, <2>2 DEF Shaped, NoCall
<1>3. call.op = "who" /\ Orchestrator(call) = call.own
  BY <1>1 DEF IInv, CallTyped, Orchestrator
<1>4. StandingGrounded'
  <2> DEFINE m == call.message  L == call.listed
  <2> SUFFICES ASSUME m # None, FromWorker(m)
               PROVE  HeldSender(call) /\ HeldBinding(call) /\ HeldOwn(call)
    BY <1>2 DEF StandingGrounded, HeldSender, HeldBinding, HeldOwn, Orchestrator
  <2>1. StandingSender(m) # None
    BY DEF FromWorker
  <2>2. /\ HeldSender(call) /\ call.missed = {} /\ StandingSender(m) = m.pid
        /\ Carries(L, m.pid, m.name) /\ <<"at", L[m.pid].at>> \in call.held
    BY <1>1, <2>1, SenderHeld DEF Recording
  <2>3. PICK r \in RepoRowOf(L, Rows(L, call.wide), m.pid) : call.orcs[r] = call.own
    BY <2>2 DEF FromWorker
  <2>4. r = m.pid /\ L[m.pid].at \in Checkouts
    BY <2>3, PeersAssumption DEF RepoRowOf, Rows
  <2>5. BoundHeld(call)
    BY <1>1, <1>3, <2>2, <2>3, <2>4 DEF IInv, RowsBound
  <2>6. <<"grant", Orchestrator(call)>> \in call.held
    BY <1>1, <1>3 DEF FromWorker, IInv, Granted, Recording
  <2>7. /\ \A p \in Pids : CarriedHeld(call, L, p)
        /\ \A p \in Pids : YieldedHeld(call, L, p)
    BY <1>1, <2>2 DEF IInv, Registered, Listing, Unlisted
  <2>8. <<"own", call.sid>> \in call.held
    <3>1. /\ Find(L, call.sid) \in Live(L) /\ L[Find(L, call.sid)].sid = call.sid
          /\ L[Find(L, call.sid)].name = call.own
      BY FindNone DEF FromWorker
    <3>2. Find(L, call.sid) \in Pids /\ Carries(L, Find(L, call.sid), call.own)
      BY <3>1 DEF Live, Carries
    <3> QED BY <1>3, <2>7, <3>1, <3>2 DEF CarriedHeld
  <2>9. ASSUME NEW p \in Pids, NEW q \in Pids, p # q
        PROVE  <<"not", p>> \in call.held \/ <<"not", q>> \in call.held
    <3>1. Cardinality(Named(L, call.own)) = 1
      BY DEF FromWorker
    <3>2. IsFiniteSet(Named(L, call.own))
      <4>1. Named(L, call.own) \subseteq Pids
        BY DEF Named, Live
      <4> QED BY <4>1, PeersAssumption, FS_Subset
    <3>3. PICK x : Named(L, call.own) = {x}
      BY <3>1, <3>2, FS_Singleton
    <3>4. ASSUME NEW z \in Pids, z \notin Named(L, call.own)
          PROVE  <<"not", z>> \in call.held
      <4>1. Yields(L, z, call.own)
        BY <3>4 DEF Named, Live, Continued, Yields, Carries
      <4> QED BY <1>3, <2>7, <4>1 DEF YieldedHeld
    <3> QED BY <2>9, <3>3, <3>4
  <2> QED BY <2>2, <2>4, <2>5, <2>6, <2>8, <2>9 DEF HeldBinding, BoundHeld, HeldOwn
<1>5. (BoundIsKept /\ RunningMainKeptAlone)'
  BY <1>1, <1>2, <1>3 DEF IInv, Silent, Answered, BoundIsKept, RunningMainKeptAlone
<1> QED BY <1>1, <1>2, <1>4, <1>5, AnsweredKeeps DEF Asking

LEMMA SenderKeeps == ASSUME IInv, Sender PROVE IInv'
<1>1. call.pc = "answer" /\ UNCHANGED <<proc, on, orc, record>>
  BY DEF Sender, At, Quiet, world
<1>2. /\ Shaped(call') /\ call'.pc = "told" /\ call'.op = call.op /\ call'.own = call.own
      /\ call'.message = call.message /\ call'.dir = call.dir /\ call'.held = call.held
      /\ call'.source = call.source /\ call'.todo = call.todo /\ call'.seen = call.seen
      /\ call'.listed = [p \in Pids |-> None] /\ call'.orcs = [p \in Pids |-> None]
      /\ call'.stands = (StandingSender(call.message) # None)
  <2> DEFINE s == Settled(call)
  <2>1. /\ Shaped(s) /\ DOMAIN s = DOMAIN NoCall
        /\ s.listed = [p \in Pids |-> None] /\ s.orcs = [p \in Pids |-> None]
        /\ s.op = call.op /\ s.own = call.own /\ s.message = call.message
        /\ s.dir = call.dir /\ s.held = call.held /\ s.source = call.source
        /\ s.todo = call.todo /\ s.seen = call.seen
    BY SettledCall
  <2>2. call' = [s EXCEPT !.pc = "told", !.stands = StandingSender(call.message) # None]
    BY DEF Sender
  <2> HIDE DEF s
  <2> QED BY <2>1, <2>2 DEF Shaped, NoCall
<1>3. call.op = "sender" /\ call.message # None
  BY <1>1 DEF IInv, CallTyped
<1>4. StandingGrounded'
  <2> SUFFICES ASSUME StandingSender(call.message) # None PROVE HeldSender(call)
    BY <1>2, <1>3 DEF StandingGrounded, HeldSender
  <2> QED BY <1>1, <1>3, SenderHeld DEF Recording
<1>5. (BoundIsKept /\ RunningMainKeptAlone)'
  BY <1>1, <1>2, <1>3 DEF IInv, Silent, Answered, BoundIsKept, RunningMainKeptAlone
<1> QED BY <1>1, <1>2, <1>3, <1>4, <1>5, AnsweredKeeps DEF Asking

-----------------------------------------------------------------------------
(* After the answer, and the calls that give none.                         *)
LEMMA RefreshKeeps == ASSUME IInv, Refresh PROVE IInv'
<1>1. /\ call.pc = "refresh" /\ UNCHANGED <<proc, on, orc, record>>
      /\ call' = [call EXCEPT !.pc = "told"]
  BY DEF Refresh, At, Goto, world
<1>2. /\ Shaped(call') /\ call'.pc = "told"
      /\ call'.op = call.op /\ call'.own = call.own /\ call'.message = call.message
      /\ call'.dir = call.dir /\ call'.held = call.held /\ call'.bound = call.bound
      /\ call'.sid = call.sid /\ call'.todo = call.todo
      /\ call'.listed = call.listed /\ call'.orcs = call.orcs
      /\ call'.sure = call.sure /\ call'.stands = call.stands /\ call'.seen = call.seen
      /\ call'.source = call.source /\ call'.target = call.target
      /\ call'.steady = call.steady /\ call'.missed = call.missed
  BY <1>1 DEF IInv, CallTyped, Shaped, NoCall
<1>3. WorldTyped' /\ CallTyped' /\ Silent'
  BY <1>1, <1>2 DEF IInv, WorldTyped, CallTyped, Silent, Answered
<1>4. (FactsHeld /\ Registered /\ Granted /\ Branched /\ RowsBound /\ BindingNow)'
  BY <1>2, NothingAsked DEF Asking
<1>5. Steady'
  BY <1>2 DEF Steady
<1>6. (BoundIsKept /\ RunningMainKeptAlone)'
  BY <1>1, <1>2 DEF IInv, BoundIsKept, RunningMainKeptAlone, Told
<1>7. StandingGrounded'
  BY <1>1, <1>2 DEF IInv, StandingGrounded, Told, HeldSender, HeldBinding, HeldOwn, Orchestrator
<1> QED BY <1>3, <1>4, <1>5, <1>6, <1>7 DEF IInv

LEMMA SelfNameKeeps == ASSUME IInv, SelfName PROVE IInv'
<1> DEFINE name == call.listed[call.pid].name  s == Settled(call)
<1>1. /\ call.pc = "entries" /\ call.op = "grant" /\ UNCHANGED <<proc, on, orc, record>>
      /\ call' = NoCall \/ call' = [s EXCEPT !.pc = "patch", !.own = name]
  BY DEF SelfName, At, Quiet, world
<1>2. CASE call' = NoCall
  BY <1>1, <1>2, EndKeeps
<1>3. CASE call' = [s EXCEPT !.pc = "patch", !.own = name]
  <2> HIDE DEF name
  <2>1. /\ Shaped(s) /\ DOMAIN s = DOMAIN NoCall
        /\ s.listed = [p \in Pids |-> None] /\ s.orcs = [p \in Pids |-> None]
        /\ s.op = call.op /\ s.message = call.message /\ s.dir = call.dir
        /\ s.todo = call.todo /\ s.seen = call.seen /\ s.stands = call.stands
        /\ s.source = call.source
    BY SettledCall
  <2> HIDE DEF s
  <2>2. /\ Shaped(call') /\ call'.pc = "patch"
        /\ call'.listed = s.listed /\ call'.orcs = s.orcs
        /\ call'.op = s.op /\ call'.message = s.message /\ call'.dir = s.dir
        /\ call'.todo = s.todo /\ call'.seen = s.seen /\ call'.stands = s.stands
        /\ call'.source = s.source
    BY <1>3, <2>1 DEF Shaped, NoCall
  <2>3. WorldTyped' /\ CallTyped' /\ Silent'
    BY <1>1, <2>1, <2>2 DEF IInv, WorldTyped, CallTyped, Silent, Answered
  <2>4. (FactsHeld /\ Registered /\ Granted /\ Branched /\ RowsBound /\ BindingNow)'
    BY <2>2, NothingAsked DEF Asking
  <2>5. Steady'
    BY <2>2 DEF Steady
  <2>6. (StandingGrounded /\ BoundIsKept /\ RunningMainKeptAlone)'
    BY <2>2, <2>3, NothingTold DEF Answered
  <2> QED BY <2>3, <2>4, <2>5, <2>6 DEF IInv
<1> QED BY <1>1, <1>2, <1>3

(* What the hub picks to wake is run, from then on, by the processes that  *)
(* run it now.                                                             *)
LEMMA StoppedKeeps == ASSUME IInv, Stopped PROVE IInv'
<1> DEFINE s == Settled(call)
           now(n) == {p \in Live(proc) : proc[p].sid = last[n].sid}
<1>1. call.pc = "stopped" /\ call.op = "hub" /\ UNCHANGED <<proc, on, orc, record>>
  BY DEF Stopped, At, Quiet, world, IInv, CallTyped
<1>2. call.message = None
  BY <1>1 DEF IInv, CallTyped
<1>3. /\ Shaped(s) /\ DOMAIN s = DOMAIN NoCall
      /\ s.listed = [p \in Pids |-> None] /\ s.orcs = [p \in Pids |-> None]
      /\ s.op = call.op /\ s.message = call.message /\ s.dir = call.dir
      /\ s.todo = call.todo /\ s.seen = call.seen /\ s.stands = call.stands
      /\ s.source = call.source
  BY SettledCall
<1>4. \/ \E n \in Names :
           call' = [s EXCEPT !.pc = "registry", !.own = n, !.seen = last[n], !.steady = now(n)]
      \/ call' = [s EXCEPT !.pc = "told"]
  BY DEF Stopped
<1> HIDE DEF s, now
<1>5. CASE \E n \in Names :
             call' = [s EXCEPT !.pc = "registry", !.own = n, !.seen = last[n], !.steady = now(n)]
  <2>1. PICK n \in Names :
             call' = [s EXCEPT !.pc = "registry", !.own = n, !.seen = last[n], !.steady = now(n)]
    BY <1>5
  <2>2. /\ Shaped(call') /\ call'.pc = "registry"
        /\ call'.listed = s.listed /\ call'.orcs = s.orcs
        /\ call'.op = s.op /\ call'.message = s.message /\ call'.dir = s.dir
        /\ call'.todo = s.todo /\ call'.stands = s.stands /\ call'.source = s.source
        /\ call'.seen = last[n] /\ call'.steady = now(n)
    BY <2>1, <1>3 DEF Shaped, NoCall
  <2>3. WorldTyped' /\ CallTyped' /\ Silent'
    BY <1>1, <1>2, <1>3, <2>2 DEF IInv, WorldTyped, CallTyped, Silent, Answered
  <2>4. (FactsHeld /\ Registered /\ Granted /\ Branched /\ RowsBound /\ BindingNow)'
    BY <1>1, <1>2, <1>3, <2>2 DEF FactsHeld, Registered, Granted, Branched, RowsBound,
       BindingNow, Facts
  <2>5. Steady'
    BY <1>1, <2>2 DEF Steady, Live, Runs, now
  <2>6. (StandingGrounded /\ BoundIsKept /\ RunningMainKeptAlone)'
    BY <2>2, <2>3, NothingTold DEF Answered
  <2> QED BY <2>3, <2>4, <2>5, <2>6 DEF IInv
<1>6. CASE call' = [s EXCEPT !.pc = "told"]
  <2>1. /\ Shaped(call') /\ call'.pc = "told"
        /\ call'.listed = s.listed /\ call'.orcs = s.orcs
        /\ call'.op = s.op /\ call'.message = s.message /\ call'.dir = s.dir
        /\ call'.todo = s.todo /\ call'.stands = s.stands /\ call'.source = s.source
        /\ call'.seen = s.seen
    BY <1>6, <1>3 DEF Shaped, NoCall
  <2>2. ~call'.stands /\ call'.source = "none"
    BY <1>1, <1>3, <2>1 DEF IInv, Silent, Answered
  <2>3. WorldTyped' /\ CallTyped' /\ Silent'
    BY <1>1, <1>2, <1>3, <2>1, <2>2 DEF IInv, WorldTyped, CallTyped, Silent
  <2>4. (FactsHeld /\ Registered /\ Granted /\ Branched /\ RowsBound /\ BindingNow)'
    BY <2>1, NothingAsked DEF Asking
  <2>5. Steady'
    BY <2>1 DEF Steady
  <2>6. (StandingGrounded /\ BoundIsKept /\ RunningMainKeptAlone)'
    BY <1>1, <1>3, <2>1, <2>2 DEF StandingGrounded, BoundIsKept, RunningMainKeptAlone
  <2> QED BY <2>3, <2>4, <2>5, <2>6 DEF IInv
<1> QED BY <1>4, <1>5, <1>6

(* The hub's call is over, or it is about to create what it found dead.    *)
LEMMA HubKeeps ==
  ASSUME IInv, WorldTyped', Steady', RunningMainKeptAlone',
         call.pc # "idle", call.op = "hub", call'.pc \in {"create", "told"}, Shaped(call'),
         call'.listed = [p \in Pids |-> call'.listed[p]],
         call'.orcs = [p \in Pids |-> call'.orcs[p]], call'.todo = call.todo,
         call'.op = call.op, call'.message = call.message, call'.dir = call.dir,
         call'.stands = call.stands, call'.seen = call.seen,
         call'.pc = "create" => call'.source = "none"
  PROVE  IInv'
<1>1. call.message = None /\ ~call.stands
  BY DEF IInv, CallTyped, Silent
<1>2. CallTyped' /\ Silent'
  BY <1>1 DEF IInv, CallTyped, Silent, Answered
<1>3. (FactsHeld /\ Registered /\ Granted /\ Branched /\ RowsBound /\ BindingNow)'
  BY NothingAsked DEF Asking
<1>4. (StandingGrounded /\ BoundIsKept)'
  BY <1>1 DEF StandingGrounded, BoundIsKept
<1> QED BY <1>2, <1>3, <1>4 DEF IInv

LEMMA GateKeeps == ASSUME IInv, Gate PROVE IInv'
<1> DEFINE s == Settled(call)
           dead == Liveness(call.listed, call.missed, call.seen.sid, call.seen.pid) = "dead"
<1>1. /\ call.pc = "entries" /\ call.todo = {} /\ call.seen # None
      /\ UNCHANGED <<proc, on, orc, record>>
      /\ call' = [s EXCEPT !.pc = IF dead THEN "create" ELSE "told"]
  BY DEF Gate, At, Quiet, world
<1>2. /\ Shaped(s) /\ DOMAIN s = DOMAIN NoCall
      /\ s.listed = [p \in Pids |-> None] /\ s.orcs = [p \in Pids |-> None]
      /\ s.op = call.op /\ s.message = call.message /\ s.dir = call.dir
      /\ s.todo = call.todo /\ s.seen = call.seen /\ s.stands = call.stands
      /\ s.source = call.source /\ s.steady = call.steady /\ s.missed = call.missed
  BY SettledCall
<1> HIDE DEF s
<1>3. WorldTyped' /\ call.op = "hub" /\ call.source = "none"
  BY <1>1 DEF IInv, WorldTyped, CallTyped, Silent, Answered
<1>4. /\ Shaped(call') /\ call'.pc = (IF dead THEN "create" ELSE "told")
      /\ call'.listed = s.listed /\ call'.orcs = s.orcs
      /\ call'.op = s.op /\ call'.message = s.message /\ call'.dir = s.dir
      /\ call'.todo = s.todo /\ call'.stands = s.stands /\ call'.source = s.source
      /\ call'.seen = s.seen /\ call'.steady = s.steady /\ call'.missed = s.missed
  <2> HIDE DEF dead
  <2> QED BY <1>1, <1>2 DEF Shaped, NoCall
<1>5. ASSUME dead, NEW p \in call.steady PROVE p \in call.missed /\ p # call.seen.pid
  <2>1. Find(call.listed, call.seen.sid) = None /\ call.seen.pid \notin call.missed
    BY <1>5 DEF Liveness
  <2>2. p \in Pids /\ (p \in call.missed \/ Runs(call.listed, p))
    BY <1>1, <1>5 DEF IInv, Steady
  <2>3. ~Runs(call.listed, p)
    BY <2>1, <2>2, FindNone DEF Runs, Live
  <2> QED BY <2>1, <2>2, <2>3
<1>6. Steady'
  BY <1>2, <1>4, <1>5 DEF Steady
<1>7. RunningMainKeptAlone'
  BY <1>2, <1>3, <1>4 DEF RunningMainKeptAlone
<1> HIDE DEF dead
<1> QED BY <1>1, <1>2, <1>3, <1>4, <1>6, <1>7, HubKeeps

LEMMA CreateKeeps == ASSUME IInv, Create \/ CreateFails \/ AskedOnly PROVE IInv'
<1>1. /\ call.pc = "create" /\ UNCHANGED <<on, orc, record>>
      /\ \/ call' = [call EXCEPT !.pc = "told"]
         \/ \E v \in {"woken", "asked"} : call' = [call EXCEPT !.pc = "told", !.source = v]
  BY DEF Create, CreateFails, AskedOnly, At, Goto, Quiet, world
<1>2. WorldTyped'
  BY DEF IInv, WorldTyped, Create, CreateFails, AskedOnly, Quiet, world
<1>3. /\ Shaped(call') /\ call'.pc = "told" /\ call'.op = call.op
      /\ call'.listed = call.listed /\ call'.orcs = call.orcs /\ call'.todo = call.todo
      /\ call'.message = call.message /\ call'.dir = call.dir
      /\ call'.stands = call.stands /\ call'.seen = call.seen
      /\ call'.steady = call.steady /\ call'.missed = call.missed
  BY <1>1 DEF IInv, CallTyped, Shaped, NoCall
<1>4. Steady'
  BY <1>3 DEF Steady
<1>5. RunningMainKeptAlone'
  BY <1>1, <1>3 DEF IInv, Steady, RunningMainKeptAlone
<1>6. call.op = "hub" /\ call.listed = [p \in Pids |-> call.listed[p]]
      /\ call.orcs = [p \in Pids |-> call.orcs[p]]
  BY <1>1 DEF IInv, CallTyped
<1> QED BY <1>1, <1>2, <1>3, <1>4, <1>5, <1>6, HubKeeps

LEMMA CallKeeps == ASSUME IInv, CallStep PROVE IInv'
<1>1. ASSUME Return \/ PatchRecord \/ Dies PROVE IInv'
  <2>1. call' = NoCall /\ UNCHANGED <<proc, on, orc>>
    BY <1>1 DEF Return, PatchRecord, Dies, Quiet, world
  <2> QED BY <2>1, EndKeeps
<1> QED BY <1>1, BeginKeeps, ReadBranchKeeps, ReadRegistryKeeps, ReadEntryKeeps,
           ReadRecordsKeeps, ReadRowBranchKeeps, ReadRowBindingKeeps, ResolveKeeps, WhoKeeps,
           SenderKeeps, RefreshKeeps, SelfNameKeeps, StoppedKeeps, GateKeeps, CreateKeeps
           DEF CallStep

LEMMA StutterKeeps == ASSUME IInv, UNCHANGED vars PROVE IInv'
<1>1. UNCHANGED <<proc, on, orc, record, call>>
  BY DEF vars, world
<1>2. (WorldTyped /\ CallTyped /\ Silent)'
  BY <1>1 DEF IInv, WorldTyped, CallTyped, Silent
<1>3. (FactsHeld /\ Granted /\ Branched /\ RowsBound /\ BindingNow /\ Steady)'
  BY <1>1 DEF IInv, FactsHeld, Granted, Branched, RowsBound, BindingNow, Steady, OnHeld,
              BoundHeld, Runs, Orchestrator
<1>4. Registered'
  BY <1>1 DEF IInv, Registered, Unlisted, CarriedHeld, YieldedHeld, Carries, Yields, Orchestrator
<1>5. (StandingGrounded /\ BoundIsKept /\ RunningMainKeptAlone)'
  BY <1>1 DEF IInv, StandingGrounded, BoundIsKept, RunningMainKeptAlone, Told, HeldSender,
              HeldBinding, HeldOwn, Orchestrator
<1> QED BY <1>2, <1>3, <1>4, <1>5 DEF IInv

-----------------------------------------------------------------------------
THEOREM Invariance == Spec => []IInv
<1>1. IInv /\ [Next]_vars => IInv'
  BY CallKeeps, WorldKeeps, StutterKeeps DEF Next
<1> QED BY InitInvariant, <1>1, PTL DEF Spec

(* However the world moves between the reads, a message is let through     *)
(* without its user only on facts each of which was true at some moment of *)
(* the call (standingFromOrchestrator, standingFromWorker, Sender).        *)
THEOREM StandingIsGrounded == Spec => []StandingGrounded
<1>1. IInv => StandingGrounded
  BY DEF IInv
<1> QED BY <1>1, Invariance, PTL

(* A branch that stays bound to one name, and whose binding can be read,   *)
(* leads to that name or to nobody (Resolution).                           *)
THEOREM BindingIsKept == Spec => []BoundIsKept
<1>1. IInv => BoundIsKept
  BY DEF IInv
<1> QED BY <1>1, Invariance, PTL

(* A session that one process has run since the hub listed it as stopped   *)
(* is not resumed beside it, unless its entry could not be read and it is  *)
(* not the process last-seen recorded (Wake, AskRO).                       *)
THEOREM NotResumedBeside == Spec => []RunningMainKeptAlone
<1>1. IInv => RunningMainKeptAlone
  BY DEF IInv
<1> QED BY <1>1, Invariance, PTL

-----------------------------------------------------------------------------
(* The other direction: where nothing moves while a call runs, what it     *)
(* has read is what there is.                                              *)
Unmoved ==
  call.pc \in Asking /\ call.still =>
    /\ call.op = "orchestrator" => call.branch \in {None, on[call.dir]}
    /\ call.pc \in Listing => \A p \in Pids \ Unlisted(call) : call.listed[p] = proc[p]
    /\ call.pc \in Recording => call.recs = record
    /\ call.pc \in {"rows", "row"} /\ call.sure =>
         \A p \in Rows(call.listed, call.wide) \ call.todo :
           call.orcs[p] = BindingAt(call.listed[p].at, on, orc)
    /\ call.pc = "row" /\ call.sure => call.branch = on[call.listed[FirstOf(call.todo)].at]

AInv == Unmoved /\ StandingAnswered

(* A call that has nothing to answer, or did not stand still.              *)
LEMMA NoAnswer ==
  ASSUME call'.pc \notin Asking,
         call'.pc \notin Answered \/ ~call'.still \/ call'.message = None
  PROVE  AInv'
  BY DEF AInv, Unmoved, StandingAnswered, Told, Answered, Asking

(* While it reads there is no answer yet.                                  *)
LEMMA NotYet == ASSUME call'.pc \in Asking, Unmoved' PROVE AInv'
  BY DEF AInv, StandingAnswered, Told, Asking

LEMMA BeginAnswers == ASSUME Begin PROVE AInv'
<1>1. PICK r \in Requests :
        LET k == [NoCall EXCEPT !.pc = FirstStep(r.op), !.op = r.op, !.pid = r.pid,
                    !.sid = proc[r.pid].sid, !.dir = proc[r.pid].at,
                    !.own = proc[r.pid].name,
                    !.message = r.message, !.standing = r.standing,
                    !.bound = BindingAt(proc[r.pid].at, on, orc)]
        IN  call' = [k EXCEPT !.held = Facts(k, proc, on, orc, record)]
  BY DEF Begin
<1>2. call'.pc = FirstStep(r.op) /\ call'.branch = None
  BY <1>1 DEF NoCall
<1>3. call'.pc \in {"branch", "registry"}
  BY <1>2 DEF FirstStep
<1> QED BY <1>2, <1>3, NotYet DEF Unmoved, Asking, Listing, Recording

LEMMA ReadBranchAnswers == ASSUME IInv, AInv, ReadBranch \/ ReadAgain PROVE AInv'
<1>1. PICK b \in {on[call.dir], None}, pc \in {"registry", "resolve"} :
        call' = [call EXCEPT !.pc = pc, !.branch = b]
  BY DEF ReadBranch, ReadAgain
<1>2. /\ call.pc \in {"branch", "again"} /\ UNCHANGED <<proc, on, orc, record>>
      /\ (call.pc = "branch" <=> call'.pc = "registry")
      /\ (call.pc = "again" <=> call'.pc = "resolve")
  BY DEF ReadBranch, ReadAgain, At, Quiet, world, IInv, CallTyped, Shaped, NoCall
<1>3. /\ call'.pc \in {"registry", "resolve"} /\ call'.branch = b /\ call'.dir = call.dir
      /\ call'.listed = call.listed /\ call'.missed = call.missed /\ call'.todo = call.todo
      /\ call'.recs = call.recs /\ call'.still = call.still /\ call'.op = call.op
  BY <1>1 DEF IInv, CallTyped, Shaped, NoCall
<1>4. Unmoved'
  BY <1>1, <1>2, <1>3 DEF AInv, Unmoved, Asking, Listing, Recording, Unlisted
<1> QED BY <1>3, <1>4, NotYet DEF Asking

LEMMA ReadRegistryAnswers == ASSUME IInv, AInv, ReadRegistry PROVE AInv'
<1> DEFINE l == NoCall.listed
<1>1. PICK files \in SUBSET Pids :
       /\ Live(proc) \subseteq files
       /\ call' = [call EXCEPT !.pc = "entries", !.todo = files, !.listed = l, !.missed = {}]
  BY DEF ReadRegistry
<1>2. call.pc = "registry" /\ UNCHANGED <<proc, on, orc, record>>
  BY DEF ReadRegistry, At, Quiet, world
<1>3. l = [p \in Pids |-> None]
  BY DEF NoCall
<1> HIDE DEF l
<1>4. /\ call'.pc = "entries" /\ call'.branch = call.branch /\ call'.dir = call.dir
      /\ call'.listed = l /\ call'.missed = {} /\ call'.todo = files
      /\ call'.still = call.still /\ call'.op = call.op
  BY <1>1 DEF IInv, CallTyped, Shaped, NoCall
<1>5. \A p \in Pids \ files : call'.listed[p] = proc[p]
  BY <1>1, <1>3, <1>4 DEF Live
<1>6. Unmoved'
  BY <1>2, <1>4, <1>5 DEF AInv, Unmoved, Asking, Listing, Recording, Unlisted
<1> QED BY <1>4, <1>6, NotYet DEF Asking

LEMMA ReadEntryAnswers == ASSUME IInv, AInv, ReadEntry PROVE AInv'
<1> DEFINE p == FirstOf(call.todo)
<1>1. /\ call.pc = "entries" /\ call.todo # {} /\ UNCHANGED <<proc, on, orc, record>>
      /\ \/ call' = [call EXCEPT !.todo = @ \ {p}, !.listed[p] = proc[p]]
         \/ call' = [call EXCEPT !.todo = @ \ {p}, !.missed = @ \cup {p}]
  BY DEF ReadEntry, At, Quiet, world
<1>2. p \in Pids
  BY <1>1, FirstIsIn DEF IInv, CallTyped
<1> HIDE DEF p
<1>3. /\ call'.pc = "entries" /\ call'.branch = call.branch /\ call'.dir = call.dir
      /\ \/ call'.listed = [call.listed EXCEPT ![p] = proc[p]] /\ call'.missed = call.missed
         \/ call'.listed = call.listed /\ call'.missed = call.missed \cup {p}
      /\ call'.todo = call.todo \ {p}
      /\ call'.still = call.still /\ call'.op = call.op
  BY <1>1 DEF IInv, CallTyped, Shaped, NoCall
<1>4. call.listed = [q \in Pids |-> call.listed[q]]
  BY DEF IInv, CallTyped
<1>5. ASSUME call.still, NEW q \in Pids \ Unlisted(call') PROVE call'.listed[q] = proc[q]
  <2>1. CASE q = p
    BY <1>2, <1>3, <1>4, <1>5, <2>1 DEF Unlisted
  <2>2. CASE q # p
    <3>1. q \notin Unlisted(call)
      BY <1>1, <1>3, <1>5, <2>2 DEF Unlisted
    <3>2. call.listed[q] = proc[q]
      BY <1>1, <1>5, <3>1 DEF AInv, Unmoved, Asking, Listing
    <3> QED BY <1>3, <1>4, <2>2, <3>2
  <2> QED BY <2>1, <2>2
<1>6. Unmoved'
  BY <1>1, <1>3, <1>5 DEF AInv, Unmoved, Asking, Recording
<1> QED BY <1>3, <1>6, NotYet DEF Asking

LEMMA ReadRecordsAnswers == ASSUME IInv, AInv, ReadRecords PROVE AInv'
<1>1. PICK wide \in BOOLEAN :
        call' = [call EXCEPT
         !.wide = wide, !.recs = record,
         !.todo = IF call.op = "who" THEN Rows(call.listed, wide) ELSE {},
         !.pc = CASE call.op = "hub" -> "stopped" [] call.op = "sender" -> "answer"
                  [] call.op = "who" -> "rows"
                  [] OTHER -> IF call.branch = None THEN "again" ELSE "resolve"]
  BY DEF ReadRecords
<1>2. /\ call.pc = "entries" /\ call.todo = {} /\ UNCHANGED <<proc, on, orc, record>>
      /\ call.message \in Messages \cup {None} /\ (call.op = "hub" => call.message = None)
  BY DEF ReadRecords, At, Quiet, world, IInv, CallTyped
<1> DEFINE rows == Rows(call.listed, wide)
<1>3. /\ call'.pc = (CASE call.op = "hub" -> "stopped" [] call.op = "sender" -> "answer"
                       [] call.op = "who" -> "rows"
                       [] OTHER -> IF call.branch = None THEN "again" ELSE "resolve")
      /\ call'.wide = wide /\ call'.branch = call.branch /\ call'.dir = call.dir
      /\ call'.todo = (IF call.op = "who" THEN rows ELSE {})
      /\ call'.listed = call.listed /\ call'.missed = call.missed
      /\ call'.recs = record /\ call'.still = call.still /\ call'.op = call.op
      /\ call'.message = call.message
  <2> HIDE DEF rows
  <2> QED BY <1>1 DEF IInv, CallTyped, Shaped, NoCall, rows
<1> HIDE DEF rows
<1>4. CASE call.op = "hub"
  <2>1. call'.pc = "stopped"
    BY <1>3, <1>4
  <2> QED BY <1>2, <1>3, <1>4, <2>1, NoAnswer DEF Asking, Answered
<1>5. CASE call.op # "hub"
  <2>1. /\ call'.pc \in {"answer", "rows", "again", "resolve"}
        /\ (call'.pc = "rows" => call.op = "who")
    BY <1>3, <1>5
  <2>2. ASSUME call.still PROVE \A p \in Pids \ Unlisted(call') : call'.listed[p] = proc[p]
    BY <1>2, <1>3, <2>1, <2>2 DEF AInv, Unmoved, Asking, Listing, Unlisted
  <2>3. call'.pc = "rows" => call'.todo = Rows(call'.listed, call'.wide)
    BY <1>3, <2>1 DEF rows
  <2>4. Unmoved'
    BY <1>2, <1>3, <2>1, <2>2, <2>3 DEF AInv, Unmoved, Asking
  <2> QED BY <2>1, <2>4, NotYet DEF Asking
<1> QED BY <1>4, <1>5

LEMMA ReadRowBranchAnswers == ASSUME IInv, AInv, ReadRowBranch PROVE AInv'
<1> DEFINE p == FirstOf(call.todo)
<1>1. PICK b \in {on[call.listed[p].at], None} :
        call' = [call EXCEPT !.pc = "row", !.branch = b, !.sure = @ /\ b # None]
  BY DEF ReadRowBranch
<1>2. call.pc = "rows" /\ call.op = "who" /\ UNCHANGED <<proc, on, orc, record>>
  BY DEF ReadRowBranch, At, Quiet, world, IInv, CallTyped
<1> HIDE DEF p
<1>3. /\ call'.pc = "row" /\ call'.branch = b /\ call'.todo = call.todo
      /\ call'.sure = (call.sure /\ b # None)
      /\ call'.listed = call.listed /\ call'.missed = call.missed /\ call'.wide = call.wide
      /\ call'.recs = call.recs /\ call'.orcs = call.orcs
      /\ call'.still = call.still /\ call'.op = call.op
  BY <1>1 DEF IInv, CallTyped, Shaped, NoCall
<1>4. (call'.sure => call'.branch = on[call'.listed[FirstOf(call'.todo)].at])
  BY <1>1, <1>2, <1>3 DEF p
<1>5. ASSUME call.still
      PROVE  /\ \A q \in Pids \ Unlisted(call') : call'.listed[q] = proc[q]
             /\ call'.recs = record
             /\ (call'.sure => \A q \in Rows(call'.listed, call'.wide) \ call'.todo :
                                 call'.orcs[q] = BindingAt(call'.listed[q].at, on, orc))
  <2>1. /\ \A q \in Pids \ Unlisted(call) : call.listed[q] = proc[q]
        /\ call.recs = record
        /\ (call.sure => \A q \in Rows(call.listed, call.wide) \ call.todo :
                           call.orcs[q] = BindingAt(call.listed[q].at, on, orc))
    BY <1>2, <1>5 DEF AInv, Unmoved, Asking, Listing, Recording
  <2>2. Unlisted(call') = Unlisted(call)
    BY <1>2, <1>3 DEF Unlisted
  <2> QED BY <1>3, <2>1, <2>2
<1>6. Unmoved'
  BY <1>2, <1>3, <1>4, <1>5 DEF Unmoved
<1> QED BY <1>3, <1>6, NotYet DEF Asking

LEMMA ReadRowBindingAnswers == ASSUME IInv, AInv, ReadRowBinding PROVE AInv'
<1> DEFINE p == FirstOf(call.todo)
           bound(answers) == IF answers /\ call.branch # None THEN orc[call.branch] ELSE None
<1>1. PICK answers \in BOOLEAN :
        call' = [call EXCEPT
             !.pc = "rows", !.todo = @ \ {p}, !.branch = None, !.sure = @ /\ answers,
             !.orcs[p] = bound(answers)]
  BY DEF ReadRowBinding
<1>2. /\ call.pc = "row" /\ call.op = "who" /\ call.todo # {} /\ call.todo \in SUBSET Pids
      /\ call.todo \subseteq Rows(call.listed, call.wide)
      /\ call.orcs = [q \in Pids |-> call.orcs[q]] /\ UNCHANGED <<proc, on, orc, record>>
  BY DEF ReadRowBinding, At, Quiet, world, IInv, CallTyped
<1>3. p \in call.todo /\ p \in Pids
  BY <1>2, FirstIsIn
<1> HIDE DEF p, bound
<1>4. /\ call'.pc = "rows" /\ call'.todo = call.todo \ {p} /\ call'.sure = (call.sure /\ answers)
      /\ call'.listed = call.listed /\ call'.missed = call.missed /\ call'.wide = call.wide
      /\ call'.recs = call.recs /\ call'.orcs = [call.orcs EXCEPT ![p] = bound(answers)]
      /\ call'.still = call.still /\ call'.op = call.op
  BY <1>1 DEF IInv, CallTyped, Shaped, NoCall
<1>5. ASSUME call.still, call.sure, answers,
             NEW q \in Rows(call.listed, call.wide) \ (call.todo \ {p})
      PROVE  call'.orcs[q] = BindingAt(call.listed[q].at, on, orc)
  <2>1. q \in Pids /\ call.listed[q].at \in Checkouts
    BY <1>5, PeersAssumption DEF Rows, Live
  <2>2. CASE q = p
    <3>1. call.branch = on[call.listed[p].at]
      BY <1>2, <1>5 DEF AInv, Unmoved, Asking, p
    <3>2. on[call.listed[p].at] \in Branches /\ None \notin Branches
      BY <2>1, <2>2, PeersAssumption DEF IInv, WorldTyped
    <3>3. bound(answers) = orc[on[call.listed[p].at]]
      BY <1>5, <3>1, <3>2 DEF bound
    <3> QED BY <1>2, <1>3, <1>4, <2>1, <2>2, <3>3 DEF BindingAt
  <2>3. CASE q # p
    <3>1. call.orcs[q] = BindingAt(call.listed[q].at, on, orc)
      BY <1>2, <1>5, <2>3 DEF AInv, Unmoved, Asking
    <3> QED BY <1>2, <1>4, <2>1, <2>3, <3>1
  <2> QED BY <2>2, <2>3
<1>6. ASSUME call.still
      PROVE  /\ \A q \in Pids \ Unlisted(call') : call'.listed[q] = proc[q]
             /\ call'.recs = record
  <2>1. /\ \A q \in Pids \ Unlisted(call) : call.listed[q] = proc[q]
        /\ call.recs = record
    BY <1>2, <1>6 DEF AInv, Unmoved, Asking, Listing, Recording
  <2>2. Unlisted(call') = Unlisted(call)
    BY <1>2, <1>4 DEF Unlisted
  <2> QED BY <1>4, <2>1, <2>2
<1>7. ASSUME call'.still, call'.sure, NEW q \in Rows(call'.listed, call'.wide) \ call'.todo
      PROVE  call'.orcs[q] = BindingAt(call'.listed[q].at, on, orc)
  BY <1>4, <1>5, <1>7
<1>8. Unmoved'
  BY <1>2, <1>4, <1>6, <1>7 DEF Unmoved
<1> QED BY <1>4, <1>8, NotYet DEF Asking

-----------------------------------------------------------------------------
(* Where nothing moved and nothing was missed, the registry was read.      *)
LEMMA AllRead ==
  ASSUME IInv, AInv, call.pc \in Recording, call.still, call.missed = {}
  PROVE  call.listed = proc /\ call.recs = record
<1>1. \A p \in Pids : call.listed[p] = proc[p]
  BY DEF AInv, Unmoved, Asking, Listing, Recording, Unlisted
<1>2. call.listed = [p \in Pids |-> call.listed[p]] /\ proc = [p \in Pids |-> proc[p]]
  BY DEF IInv, CallTyped, WorldTyped
<1>3. call.listed = [p \in Pids |-> proc[p]]
  BY <1>1, <1>2
<1> QED BY <1>2, <1>3 DEF AInv, Unmoved, Asking, Recording

(* A sender that is here alone is one of the rows.                         *)
LEMMA SenderIsRow ==
  ASSUME NEW m \in Messages, SenderNow(m), proc[m.pid].at \in Checkouts,
         \A p, q \in Live(proc) : proc[p].sid = proc[q].sid => p = q
  PROVE  /\ m.pid \in Rows(proc, TRUE) /\ proc[m.pid] # None
         /\ RepoRowOf(proc, Rows(proc, TRUE), m.pid) = {m.pid}
         /\ SessionsNamed(proc, m.name) = {proc[m.pid].sid}
<1>1. /\ m.pid \in Live(proc) /\ proc[m.pid].name = m.name /\ m.pid \in Pids
      /\ Named(proc, m.name) = {m.pid}
  BY DEF SenderNow, Named, Live
<1>2. m.pid \in Rows(proc, TRUE)
  <2>1. Pids \subseteq Nat
    BY PeersAssumption
  <2>2. m.pid \in Nat
    BY <1>1, <2>1
  <2>3. m.pid <= m.pid
    BY <2>2
  <2> QED BY <1>1, <2>3 DEF Rows
<1>3. proc[m.pid] # None
  BY <1>1 DEF Live
<1> QED BY <1>1, <1>2, <1>3 DEF RepoRowOf, SessionsNamed

LEMMA ResolveAnswers == ASSUME IInv, AInv, Resolve PROVE AInv'
<1>1. PICK late \in BOOLEAN, answers \in BOOLEAN :
       LET b == call.branch
           bound == IF answers /\ b # None THEN orc[b] ELSE None
           res == Resolution(bound, late)
       IN  call' = [Settled(call) EXCEPT
             !.pc = "refresh", !.found = Found, !.source = res[1], !.target = res[2],
             !.sure = @ /\ answers /\ b # None,
             !.stands = call.message # None
                        /\ FromOrchestrator(call.message, res[1], res[2])]
  BY DEF Resolve
<1> DEFINE b == call.branch
           bound == IF answers /\ b # None THEN orc[b] ELSE None
           res == Resolution(bound, late)
           m == call.message
<1>2. call.pc = "resolve" /\ UNCHANGED <<proc, on, orc, record>>
  BY DEF Resolve, At, Quiet, world
<1>3. call.op = "orchestrator" /\ call.dir \in Checkouts /\ m \in Messages \cup {None}
  BY <1>2 DEF IInv, CallTyped
<1>4. /\ call'.pc = "refresh" /\ call'.op = call.op /\ call'.message = call.message
      /\ call'.own = call.own /\ call'.dir = call.dir /\ call'.still = call.still
      /\ call'.missed = call.missed /\ call'.wide = call.wide
      /\ call'.sure = (call.sure /\ answers /\ b # None)
      /\ call'.stands = (call.message # None
                        /\ FromOrchestrator(call.message, res[1], res[2]))
  <2> DEFINE s == Settled(call)
  <2> HIDE DEF b, res
  <2>1. call' = [s EXCEPT
             !.pc = "refresh", !.found = Found, !.source = res[1], !.target = res[2],
             !.sure = @ /\ answers /\ b # None,
             !.stands = call.message # None
                        /\ FromOrchestrator(call.message, res[1], res[2])]
    BY <1>1 DEF b, res
  <2>2. /\ s = [f \in DOMAIN NoCall |-> s[f]] /\ DOMAIN s = DOMAIN NoCall
        /\ s.op = call.op /\ s.message = call.message /\ s.own = call.own
        /\ s.dir = call.dir /\ s.sure = call.sure /\ s.still = call.still
        /\ s.missed = call.missed /\ s.wide = call.wide
    BY SettledCall DEF Shaped
  <2> HIDE DEF s
  <2> QED BY <2>1, <2>2 DEF NoCall
<1>5. Unmoved'
  BY <1>4 DEF Unmoved, Asking
<1>6. StandingAnswered'
  <2> SUFFICES ASSUME m # None, call.still, answers, b # None,
                      call.missed = {}, call.wide,
                      \A p, q \in Live(proc) : proc[p].sid = proc[q].sid => p = q,
                      SenderNow(m), BoundNow(call)
               PROVE  FromOrchestrator(m, res[1], res[2])
    <3> HIDE DEF b, res
    <3> QED BY <1>2, <1>3, <1>4 DEF StandingAnswered, BoundNow, SenderNow, Orchestrator, m
  <2>1. /\ call.branch \in {None, on[call.dir]} /\ call.listed = proc /\ call.recs = record
    BY <1>2, <1>3, AllRead DEF AInv, Unmoved, Asking, Recording
  <2>2. m \in Messages /\ m.pid \in Pids /\ m.name # None /\ m.pid # None
    BY <1>3, PeersAssumption DEF Messages
  <2>3. /\ proc[m.pid].at \in Checkouts /\ record[m.name] = "on"
        /\ BindingAt(call.dir, on, orc) = m.name
    BY <1>3 DEF BoundNow, Orchestrator
  <2>4. /\ RepoRowOf(proc, Rows(proc, TRUE), m.pid) = {m.pid}
        /\ SessionsNamed(proc, m.name) = {proc[m.pid].sid}
    BY <2>2, <2>3, SenderIsRow
  <2>5. b = on[call.dir] /\ bound = m.name
    BY <1>3, <2>1, <2>3 DEF BindingAt
  <2>6. res = <<"bound", m.name>>
    <3> HIDE DEF bound
    <3>0. SessionsNamed(call.listed, bound) = {proc[m.pid].sid}
      BY <2>1, <2>4, <2>5
    <3>1. Cardinality(SessionsNamed(call.listed, bound)) = 1
      BY <3>0, FS_Singleton
    <3> QED BY <2>2, <2>5, <3>1 DEF Resolution
  <2>7. StandingSender(m) = m.pid
    BY <2>1 DEF StandingSender, SenderNow
  <2> HIDE DEF b, res, bound
  <2>8. call.wide = TRUE
    OBVIOUS
  <2> QED BY <2>1, <2>2, <2>3, <2>4, <2>6, <2>7, <2>8 DEF FromOrchestrator
<1> QED BY <1>5, <1>6 DEF AInv

LEMMA WhoAnswers == ASSUME IInv, AInv, Who PROVE AInv'
<1>1. call.pc = "rows" /\ call.todo = {} /\ UNCHANGED <<proc, on, orc, record>>
  BY DEF Who, At, Quiet, world
<1>2. /\ call'.pc = "refresh" /\ call'.op = call.op /\ call'.message = call.message
      /\ call'.own = call.own /\ call'.sid = call.sid
      /\ call'.still = call.still /\ call'.sure = call.sure
      /\ call'.missed = call.missed /\ call'.wide = call.wide
      /\ call'.stands = (call.message # None /\ FromWorker(call.message))
  <2> DEFINE s == Settled(call)
  <2>1. /\ s = [f \in DOMAIN NoCall |-> s[f]] /\ DOMAIN s = DOMAIN NoCall
        /\ s.op = call.op /\ s.message = call.message /\ s.own = call.own /\ s.sid = call.sid
        /\ s.sure = call.sure /\ s.still = call.still
        /\ s.missed = call.missed /\ s.wide = call.wide
    BY SettledCall DEF Shaped
  <2>2. call' = [s EXCEPT !.pc = "refresh", !.found = Found,
                   !.stands = call.message # None /\ FromWorker(call.message)]
    BY DEF Who
  <2> HIDE DEF s
  <2> QED BY <2>1, <2>2 DEF NoCall
<1>3. Unmoved'
  BY <1>2 DEF Unmoved, Asking
<1>4. call.op = "who" /\ call.message \in Messages \cup {None}
  BY <1>1 DEF IInv, CallTyped
<1>5. StandingAnswered'
  <2> DEFINE m == call.message
  <2> SUFFICES ASSUME m # None, call.still, call.sure, call.missed = {}, call.wide,
                      \A p, q \in Live(proc) : proc[p].sid = proc[q].sid => p = q,
                      SenderNow(m), BoundNow(call), OwnNow(call)
               PROVE  FromWorker(m)
    BY <1>1, <1>2, <1>4 DEF StandingAnswered, BoundNow, SenderNow, OwnNow, Orchestrator
  <2>1. /\ call.listed = proc /\ call.recs = record
        /\ \A p \in Rows(proc, call.wide) :
             call.orcs[p] = BindingAt(proc[p].at, on, orc)
    BY <1>1, AllRead DEF AInv, Unmoved, Asking, Recording
  <2>2. m \in Messages /\ m.pid \in Pids /\ m.pid # None
    BY <1>4, PeersAssumption DEF Messages
  <2>3. /\ proc[m.pid].at \in Checkouts /\ record[call.own] = "on"
        /\ BindingAt(proc[m.pid].at, on, orc) = call.own
        /\ \E p \in Live(proc) : proc[p].sid = call.sid /\ proc[p].name = call.own
        /\ Cardinality(Named(proc, call.own)) = 1
    BY <1>4 DEF BoundNow, OwnNow, Orchestrator
  <2>4. /\ m.pid \in Rows(proc, TRUE)
        /\ RepoRowOf(proc, Rows(proc, TRUE), m.pid) = {m.pid}
    BY <2>2, <2>3, SenderIsRow
  <2>5. StandingSender(m) = m.pid
    BY <2>1 DEF StandingSender, SenderNow
  <2>6. Find(proc, call.sid) # None /\ proc[Find(proc, call.sid)].name = call.own
    <3>1. PICK p \in Live(proc) : proc[p].sid = call.sid /\ proc[p].name = call.own
      BY <2>3
    <3>2. Find(proc, call.sid) # None
      BY <3>1, FindNone
    <3>3. Find(proc, call.sid) \in Live(proc) /\ proc[Find(proc, call.sid)].sid = call.sid
      BY <3>2, FindNone
    <3> QED BY <3>1, <3>2, <3>3
  <2>7. call.wide = TRUE
    OBVIOUS
  <2>8. call.orcs[m.pid] = call.own
    BY <2>1, <2>3, <2>4, <2>7
  <2> QED BY <2>1, <2>2, <2>3, <2>4, <2>5, <2>6, <2>7, <2>8 DEF FromWorker
<1> QED BY <1>3, <1>5 DEF AInv

LEMMA SenderAnswers == ASSUME IInv, AInv, Sender PROVE AInv'
<1>1. call.pc = "answer" /\ UNCHANGED <<proc, on, orc, record>>
  BY DEF Sender, At, Quiet, world
<1>2. /\ call'.pc = "told" /\ call'.op = call.op /\ call'.message = call.message
      /\ call'.still = call.still /\ call'.missed = call.missed
      /\ call'.stands = (StandingSender(call.message) # None)
  <2> DEFINE s == Settled(call)
  <2>1. /\ s = [f \in DOMAIN NoCall |-> s[f]] /\ DOMAIN s = DOMAIN NoCall
        /\ s.op = call.op /\ s.message = call.message
        /\ s.still = call.still /\ s.missed = call.missed
    BY SettledCall DEF Shaped
  <2>2. call' = [s EXCEPT !.pc = "told", !.stands = StandingSender(call.message) # None]
    BY DEF Sender
  <2> HIDE DEF s
  <2> QED BY <2>1, <2>2 DEF NoCall
<1>3. Unmoved'
  BY <1>2 DEF Unmoved, Asking
<1>4. StandingAnswered'
  <2> DEFINE m == call.message
  <2> SUFFICES ASSUME call.still, call.missed = {}, SenderNow(m), m # None
               PROVE  StandingSender(m) # None
    BY <1>1, <1>2 DEF StandingAnswered, SenderNow
  <2>1. call.listed = proc
    BY <1>1, AllRead DEF Recording
  <2>2. m.pid \in Pids /\ m.pid # None
    BY <1>1, PeersAssumption DEF IInv, CallTyped, Messages
  <2> QED BY <2>1, <2>2 DEF StandingSender, SenderNow
<1> QED BY <1>3, <1>4 DEF AInv

LEMMA RefreshAnswers == ASSUME IInv, AInv, Refresh PROVE AInv'
<1>1. /\ call.pc = "refresh" /\ UNCHANGED <<proc, on, orc, record>>
      /\ call' = [call EXCEPT !.pc = "told"]
  BY DEF Refresh, At, Goto, world
<1>2. /\ call'.pc = "told" /\ call'.op = call.op /\ call'.message = call.message
      /\ call'.own = call.own /\ call'.dir = call.dir /\ call'.sid = call.sid
      /\ call'.still = call.still /\ call'.sure = call.sure
      /\ call'.missed = call.missed /\ call'.wide = call.wide
      /\ call'.stands = call.stands
  BY <1>1 DEF IInv, CallTyped, Shaped, NoCall
<1>3. Unmoved'
  BY <1>2 DEF Unmoved, Asking
<1>4. StandingAnswered'
  BY <1>1, <1>2 DEF AInv, StandingAnswered, Told, SenderNow, BoundNow, OwnNow, Orchestrator
<1> QED BY <1>3, <1>4 DEF AInv

(* What the hub and a grant do answers no message.                         *)
LEMMA UnaskedAnswers ==
  ASSUME IInv, AInv, SelfName \/ Stopped \/ Gate \/ Create \/ CreateFails \/ AskedOnly
  PROVE  AInv'
<1> DEFINE s == Settled(call)
<1>1. call' = NoCall => AInv'
  BY NoAnswer DEF NoCall, Asking, Answered
<1>2. /\ DOMAIN s = DOMAIN NoCall /\ s.op = call.op /\ s.message = call.message
      /\ s.branch = call.branch
  BY SettledCall
<1> HIDE DEF s
<1>3. CASE SelfName
  <2> DEFINE name == call.listed[call.pid].name
  <2>1. /\ call.pc = "entries" /\ call.op = "grant"
        /\ call' = NoCall \/ call' = [s EXCEPT !.pc = "patch", !.own = name]
    BY <1>3 DEF SelfName, At, s
  <2> HIDE DEF name
  <2>2. call' # NoCall => call'.pc = "patch"
    BY <1>2, <2>1 DEF NoCall
  <2> QED BY <1>1, <2>2, NoAnswer DEF Asking, Answered
<1>4. CASE Stopped
  <2> DEFINE now(n) == {p \in Live(proc) : proc[p].sid = last[n].sid}
  <2>1. call.pc = "stopped" /\ call.op = "hub" /\ call.message = None
    BY <1>4 DEF Stopped, At, IInv, CallTyped
  <2>2. \/ \E n \in Names :
             call' = [s EXCEPT !.pc = "registry", !.own = n, !.seen = last[n], !.steady = now(n)]
        \/ call' = [s EXCEPT !.pc = "told"]
    BY <1>4 DEF Stopped, s
  <2> HIDE DEF now
  <2>3. /\ call'.pc \in {"registry", "told"} /\ call'.op = "hub" /\ call'.message = None
    BY <1>2, <2>1, <2>2 DEF NoCall
  <2>4. CASE call'.pc = "registry"
    BY <2>3, <2>4, NotYet DEF Unmoved, Asking, Listing, Recording
  <2> QED BY <2>3, <2>4, NoAnswer DEF Asking, Answered
<1>5. CASE Gate
  <2>1. call.op = "hub" /\ call.message = None
    BY <1>5 DEF Gate, At, IInv, CallTyped
  <2>2. call'.pc \in {"create", "told"} /\ call'.message = None
    BY <1>2, <1>5, <2>1 DEF Gate, s, NoCall
  <2> QED BY <2>2, NoAnswer DEF Asking
<1>6. CASE Create \/ CreateFails \/ AskedOnly
  <2>1. call.pc = "create" /\ call.op = "hub" /\ call.message = None
    BY <1>6 DEF Create, CreateFails, AskedOnly, At, IInv, CallTyped
  <2>2. \/ call' = [call EXCEPT !.pc = "told"]
        \/ \E v \in {"woken", "asked"} : call' = [call EXCEPT !.pc = "told", !.source = v]
    BY <1>6 DEF Create, CreateFails, AskedOnly, Goto
  <2>3. call'.pc = "told" /\ call'.message = None
    BY <2>1, <2>2 DEF IInv, CallTyped, Shaped, NoCall
  <2> QED BY <2>3, NoAnswer DEF Asking
<1> QED BY <1>3, <1>4, <1>5, <1>6

(* A move of the world ends the stillness of the call it happens in.       *)
LEMMA WorldAnswers == ASSUME IInv, AInv, WorldStep PROVE AInv'
<1>1. Moved
  BY DEF WorldStep, SessionStarts, SessionEnds, Renamed, Parked, Switched, Bound, Recorded
<1>2. CASE call.pc = "idle"
  <2>1. call'.pc = "idle"
    BY <1>1, <1>2 DEF Moved, Noted
  <2> QED BY <2>1, NoAnswer DEF Asking, Answered
<1>3. CASE call.pc # "idle"
  <2>1. call'.still = FALSE
    BY <1>1, <1>3 DEF Moved, Noted, IInv, CallTyped, Shaped, NoCall
  <2> QED BY <2>1 DEF AInv, Unmoved, StandingAnswered
<1> QED BY <1>2, <1>3

LEMMA StutterAnswers == ASSUME AInv, UNCHANGED vars PROVE AInv'
<1>1. UNCHANGED <<proc, on, orc, record, call>>
  BY DEF vars, world
<1>2. Unmoved'
  BY <1>1 DEF AInv, Unmoved, Unlisted, Rows, Named, Live, Continued, BindingAt
<1>3. /\ Live(proc)' = Live(proc)
      /\ SenderNow(call.message)' = SenderNow(call.message)
      /\ BoundNow(call)' = BoundNow(call) /\ OwnNow(call)' = OwnNow(call)
  BY <1>1 DEF SenderNow, BoundNow, OwnNow, Orchestrator, Named, Live, Continued, BindingAt
<1>4. StandingAnswered'
  BY <1>1, <1>3 DEF AInv, StandingAnswered, Told
<1> QED BY <1>2, <1>4 DEF AInv

LEMMA CallAnswers == ASSUME IInv, AInv, CallStep PROVE AInv'
<1>1. ASSUME Return \/ PatchRecord \/ Dies PROVE AInv'
  <2>1. call' = NoCall
    BY <1>1 DEF Return, PatchRecord, Dies
  <2> QED BY <2>1, NoAnswer DEF NoCall, Asking, Answered
<1> QED BY <1>1, BeginAnswers, ReadBranchAnswers, ReadRegistryAnswers, ReadEntryAnswers,
           ReadRecordsAnswers, ReadRowBranchAnswers, ReadRowBindingAnswers, ResolveAnswers,
           WhoAnswers, SenderAnswers, RefreshAnswers, UnaskedAnswers DEF CallStep

(* And the answer is not false for nothing: where nothing moves, every     *)
(* read answers and no session runs twice, a message that comes from whom  *)
(* it says, with its branch bound and the grant recorded, is let through   *)
(* (standingFromOrchestrator, standingFromWorker, Sender).                 *)
THEOREM StandingIsAnswered == Spec => []StandingAnswered
<1>1. Init => AInv
  BY DEF Init, AInv, Unmoved, StandingAnswered, Told, NoCall, Asking
<1>2. IInv /\ AInv /\ [Next]_vars => AInv'
  BY CallAnswers, WorldAnswers, StutterAnswers DEF Next
<1>3. AInv => StandingAnswered
  BY DEF AInv
<1> QED BY <1>1, <1>2, <1>3, Invariance, PTL DEF Spec

=============================================================================
