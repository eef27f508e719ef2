-------------------------- MODULE WifiSetup_proofs --------------------------
(***************************************************************************)
(* The Wi-Fi setup session, for any dials, tokens and length of history:   *)
(* what waits for the adapter is its owner's, a cancel reaches only its    *)
(* own window, and a retired token stays refused until the history has     *)
(* turned over.                                                            *)
(***************************************************************************)
EXTENDS WifiSetup, FiniteSetTheorems, TLAPS

----------------------------------------------------------------------------
(* The inductive invariant, as conditions on the values that a step        *)
(* computes one after the other.                                           *)

Place == 0..History-1

Holds(r, s) == \E i \in Place : r.slot[i].session = s

(* How far a slot is from being overwritten. *)
Age(r, i) == IF i >= r.next THEN i - r.next ELSE i - r.next + History

(* The ring holds the latest retirements in their order, f the sessions    *)
(* retired since: a token that is not in the ring was never retired, or    *)
(* has seen as many others retire as the ring has slots.                   *)
InTurn(r, f) ==
    /\ \A i, j \in Place :
         r.slot[i].session = r.slot[j].session /\ r.slot[i].session # Legacy => i = j
    /\ \A i, j \in Place :
         r.slot[i].session # Legacy /\ Age(r, i) < Age(r, j) =>
            /\ r.slot[j].session # Legacy
            /\ r.slot[j].session \in f[r.slot[i].session]
    /\ \A s \in Session :
         IF Holds(r, s) THEN f[s] # {Legacy}
         ELSE f[s] = {Legacy} \/ Cardinality(f[s]) >= History

Histories == [Session -> SUBSET Tokens]
Windows == [mac : Dial, session : Tokens] \cup {NoOwner}

Kept(rg, f) ==
    /\ rg \in [Dial -> Ring] /\ f \in [Dial -> Histories]
    /\ \A d \in Dial : InTurn(rg[d], f[d])

(* The requests q are the owner's, who is still to be served. *)
Queued(q, o, rg) ==
    \A d \in q :
        /\ o # NoOwner /\ o.mac = d /\ ~Cancelled(o)
        /\ o.session # Legacy => ~Holds(rg[d], o.session)

(* An owner that was started and can still ask the adapter to close is the *)
(* one whose window is open.                                               *)
Opened(o, w) ==
    o # NoOwner /\ o.started /\ o.verdict \in {"none", "waiting"} =>
        w = [mac |-> o.mac, session |-> o.session]

Sound(b, q, o, rg, w, f) ==
    /\ b \subseteq Dial /\ q \subseteq b
    /\ o \in Owner \cup {NoOwner} /\ w \in Windows
    /\ o # NoOwner => o.mac \in b
    /\ Kept(rg, f) /\ Queued(q, o, rg) /\ Opened(o, w)

Outside == {Silent} \cup Acks \cup [kind : {"setup"}, dials : SUBSET Dial]

IInv ==
    /\ Sound(bonded, req, owner, ring, window, since)
    /\ ap \in BOOLEAN /\ hook \in BOOLEAN /\ out \in Outside

----------------------------------------------------------------------------
(* The history of a dial. *)

LEMMA NextSlot ==
    ASSUME ConstantsAssumption, NEW n \in Place
    PROVE  (n + 1) % History = IF n = History - 1 THEN 0 ELSE n + 1
<1>. DEFINE x == n + 1
            q == x \div History
            r == x % History
<1>0. History \in Nat /\ History > 0 /\ n \in Nat /\ n < History
  BY DEF ConstantsAssumption, Place
<1>1. x \in Nat /\ x <= History /\ r \in 0..(History - 1) /\ q \in Int
      /\ x = q * History + r
  BY <1>0
<1>. HIDE DEF x, q, r
<1>2. CASE q <= -1
  <2>1. q * History <= -History
    BY <1>0, <1>1, <1>2
  <2>. QED
    BY <1>0, <1>1, <2>1
<1>3. CASE q >= 2
  <2>1. q * History >= 2 * History
    BY <1>0, <1>1, <1>3
  <2>. QED
    BY <1>0, <1>1, <2>1
<1>4. CASE q = 0
  <2>1. r = x
    BY <1>0, <1>1, <1>4
  <2>. QED
    BY <1>0, <1>1, <2>1 DEF x, r
<1>5. CASE q = 1
  <2>1. r = x - History
    BY <1>0, <1>1, <1>5
  <2>. QED
    BY <1>0, <1>1, <2>1 DEF x, r
<1>. QED
  BY <1>1, <1>2, <1>3, <1>4, <1>5

(* A session that is in the ring gets another verdict and keeps its turn. *)
LEMMA RetiredAgain ==
    ASSUME ConstantsAssumption, NEW r \in Ring, NEW f \in Histories, InTurn(r, f),
           NEW s \in Session, NEW v \in Verdict, Holds(r, s)
    PROVE  /\ Retire(r, s, v) \in Ring
           /\ InTurn(Retire(r, s, v), f)
           /\ \A t : Holds(Retire(r, s, v), t) <=> Holds(r, t)
<1>. DEFINE p == Retire(r, s, v)
<1>0. r.slot \in [Place -> Slot] /\ r.next \in Place
  BY DEF Ring, Place
<1>1. p = [r EXCEPT !.slot = [i \in Place |->
             IF r.slot[i].session = s THEN [session |-> s, verdict |-> v]
                                      ELSE r.slot[i]]]
  BY DEF Retire, Holds, Place, ConstantsAssumption
<1>2. p.next = r.next
      /\ p.slot = [i \in Place |->
             IF r.slot[i].session = s THEN [session |-> s, verdict |-> v]
                                      ELSE r.slot[i]]
  BY <1>1 DEF Ring
<1>3. \A i \in Place : p.slot[i].session = r.slot[i].session
  BY <1>2
<1>4. p.slot \in [Place -> Slot]
  BY <1>0, <1>2 DEF Slot, Tokens
<1>5. p \in Ring
  BY <1>0, <1>1, <1>2, <1>4 DEF Ring, Place
<1>6. \A i \in Place : Age(p, i) = Age(r, i)
  BY <1>2 DEF Age
<1>. HIDE DEF p
<1>7. \A t : Holds(p, t) <=> Holds(r, t)
  BY <1>3 DEF Holds
<1>8. InTurn(p, f)
  BY <1>3, <1>6, <1>7 DEF InTurn
<1>. QED
  BY <1>5, <1>7, <1>8 DEF p

(* A new one takes the slot of the oldest. *)
LEMMA RetiredAnew ==
    ASSUME ConstantsAssumption, NEW r \in Ring, NEW f \in Histories, InTurn(r, f),
           NEW s \in Session, NEW v \in Verdict, ~Holds(r, s)
    PROVE  /\ Retire(r, s, v) \in Ring
           /\ Outdated(f, r, s) \in Histories
           /\ InTurn(Retire(r, s, v), Outdated(f, r, s))
           /\ \A t : Holds(Retire(r, s, v), t) => t = s \/ Holds(r, t)
<1>. DEFINE p == Retire(r, s, v)
            g == Outdated(f, r, s)
            n == r.next
<1>0. /\ r.slot \in [Place -> Slot] /\ n \in Place /\ s # Legacy
      /\ History \in Nat /\ History > 0
  BY DEF Ring, Place, ConstantsAssumption
<1>1. p = [slot |-> [r.slot EXCEPT ![n] = [session |-> s, verdict |-> v]],
           next |-> (n + 1) % History]
  BY <1>0 DEF Retire, Holds, Place
<1>2. /\ p.next = (IF n = History - 1 THEN 0 ELSE n + 1)
      /\ p.slot[n].session = s
      /\ \A i \in Place \ {n} : p.slot[i].session = r.slot[i].session
  BY <1>0, <1>1, NextSlot
<1>3. p.slot \in [Place -> Slot] /\ p.next \in Place
  BY <1>0, <1>1, <1>2 DEF Slot, Tokens, Place
<1>4. p \in Ring
  BY <1>1, <1>3 DEF Ring, Place
<1>5. g = [t \in Session |-> IF t = s THEN {}
                             ELSE IF f[t] = {Legacy} THEN f[t] ELSE f[t] \cup {s}]
  BY <1>0 DEF Outdated, Holds, Place
<1>6. g \in Histories
  BY <1>5 DEF Histories, Tokens
<1>7. \A i \in Place : Age(p, i) = IF i = n THEN History - 1 ELSE Age(r, i) - 1
  <2>. SUFFICES ASSUME NEW i \in Place
                PROVE  Age(p, i) = IF i = n THEN History - 1 ELSE Age(r, i) - 1
    OBVIOUS
  <2>1. i \in Int /\ n \in Int /\ i >= 0 /\ i < History /\ n >= 0 /\ n < History
    BY <1>0 DEF Place
  <2>. QED
    BY <1>0, <1>2, <2>1 DEF Age
<1>8. \A i \in Place : Age(r, i) \in Place /\ (Age(r, i) = 0 <=> i = n)
  <2>. SUFFICES ASSUME NEW i \in Place
                PROVE  Age(r, i) \in Place /\ (Age(r, i) = 0 <=> i = n)
    OBVIOUS
  <2>. QED
    BY <1>0 DEF Age, Place
<1>. HIDE DEF p, g
<1>9. \A t : Holds(p, t) => t = s \/ Holds(r, t)
  BY <1>2 DEF Holds
<1>10. \A i, j \in Place :
         p.slot[i].session = p.slot[j].session /\ p.slot[i].session # Legacy => i = j
  BY <1>2 DEF InTurn, Holds
<1>11. ASSUME NEW i \in Place, NEW j \in Place,
              p.slot[i].session # Legacy, Age(p, i) < Age(p, j)
       PROVE  p.slot[j].session # Legacy /\ p.slot[j].session \in g[p.slot[i].session]
  <2>1. i # n
    BY <1>0, <1>7, <1>8, <1>11 DEF Place
  <2>. DEFINE u == r.slot[i].session
  <2>2. p.slot[i].session = u /\ u \in Session /\ u # s /\ Holds(r, u)
    BY <1>0, <1>2, <1>11, <2>1 DEF Slot, Tokens, Holds
  <2>3. f[u] # {Legacy} /\ g[u] = f[u] \cup {s}
    BY <1>5, <2>2 DEF InTurn
  <2>4. CASE j = n
    BY <1>0, <1>2, <2>2, <2>3, <2>4
  <2>5. CASE j # n
    <3>1. Age(r, i) < Age(r, j)
      BY <1>7, <1>8, <1>11, <2>1, <2>5 DEF Place
    <3>2. r.slot[j].session # Legacy /\ r.slot[j].session \in f[u]
      BY <2>2, <3>1, <1>11 DEF InTurn
    <3>. QED
      BY <1>2, <2>2, <2>3, <2>5, <3>2
  <2>. QED
    BY <2>4, <2>5
<1>12. ASSUME NEW t \in Session
       PROVE  IF Holds(p, t) THEN g[t] # {Legacy}
              ELSE g[t] = {Legacy} \/ Cardinality(g[t]) >= History
  <2>1. CASE Holds(p, t)
    <3>1. CASE t = s
      BY <1>5, <2>1, <3>1
    <3>2. CASE t # s
      BY <1>0, <1>5, <1>9, <2>1, <3>2 DEF InTurn
    <3>. QED
      BY <3>1, <3>2
  <2>2. CASE ~Holds(p, t)
    <3>0. t # s
      BY <1>0, <1>2, <2>2 DEF Holds
    <3>1. IsFiniteSet(g[t])
      <4>1. IsFiniteSet(Tokens)
        BY FS_AddElement DEF ConstantsAssumption, Tokens
      <4>2. g[t] \in SUBSET Tokens
        BY <1>6 DEF Histories
      <4>. QED
        BY <4>1, <4>2, FS_Subset
    <3>2. CASE f[t] = {Legacy}
      BY <1>5, <2>2, <3>0, <3>2
    <3>3. CASE f[t] # {Legacy} /\ ~Holds(r, t)
      <4>1. Cardinality(f[t]) >= History /\ f[t] \in SUBSET g[t]
        BY <1>5, <3>0, <3>3 DEF InTurn
      <4>2. IsFiniteSet(f[t]) /\ Cardinality(f[t]) <= Cardinality(g[t])
        BY <3>1, <4>1, FS_Subset
      <4>3. Cardinality(f[t]) \in Nat /\ Cardinality(g[t]) \in Nat
        BY <3>1, <4>2, FS_CardinalityType
      <4>4. Cardinality(g[t]) >= History
        BY <1>0, <4>1, <4>2, <4>3
      <4>. QED
        BY <2>2, <4>4
    <3>4. CASE f[t] # {Legacy} /\ Holds(r, t)
      <4>1. g[t] = f[t] \cup {s}
        BY <1>5, <3>0, <3>4
      <4>2. r.slot[n].session = t
        BY <1>2, <2>2, <3>4 DEF Holds
      <4>3. \A i \in Place : p.slot[i].session \in g[t]
        <5>. SUFFICES ASSUME NEW i \in Place, i # n
                      PROVE  p.slot[i].session \in g[t]
          BY <1>2, <4>1
        <5>1. Age(r, n) < Age(r, i)
          BY <1>0, <1>8 DEF Place
        <5>2. r.slot[n].session # Legacy
          BY <4>2 DEF ConstantsAssumption
        <5>3. r.slot[i].session \in f[t]
          BY <1>0, <4>2, <5>1, <5>2 DEF InTurn
        <5>. QED
          BY <1>2, <4>1, <5>3
      <4>4. \A i \in Place : p.slot[i].session # Legacy
        <5>. SUFFICES ASSUME NEW i \in Place, i # n
                      PROVE  p.slot[i].session # Legacy
          BY <1>0, <1>2
        <5>1. Age(r, n) < Age(r, i)
          BY <1>0, <1>8 DEF Place
        <5>2. r.slot[n].session # Legacy
          BY <4>2 DEF ConstantsAssumption
        <5>3. r.slot[i].session # Legacy
          BY <1>0, <5>1, <5>2 DEF InTurn
        <5>. QED
          BY <1>2, <5>3
      <4>. DEFINE h == [i \in Place |-> p.slot[i].session]
      <4>5. h \in Injection(Place, g[t])
        BY <1>10, <4>3, <4>4 DEF Injection, IsInjective
      <4>6. Cardinality(Place) <= Cardinality(g[t])
        BY <3>1, <4>5, FS_Injection
      <4>7. Cardinality(Place) = History
        <5>1. 0 \in Int /\ History - 1 \in Int /\ ~(0 > History - 1)
              /\ (History - 1) - 0 + 1 = History
          BY <1>0
        <5>. QED
          BY <5>1, FS_Interval DEF Place
      <4>8. Cardinality(g[t]) \in Nat
        BY <3>1, FS_CardinalityType
      <4>9. Cardinality(g[t]) >= History
        BY <1>0, <4>6, <4>7, <4>8
      <4>. QED
        BY <2>2, <4>9
    <3>. QED
      BY <3>2, <3>3, <3>4
  <2>. QED
    BY <2>1, <2>2
<1>13. InTurn(p, g)
  BY <1>10, <1>11, <1>12 DEF InTurn
<1>. QED
  BY <1>4, <1>6, <1>9, <1>13 DEF p, g

(* Either. *)
LEMMA Retiring ==
    ASSUME ConstantsAssumption, NEW r \in Ring, NEW f \in Histories, InTurn(r, f),
           NEW s \in Tokens, NEW v \in Verdict
    PROVE  /\ Retire(r, s, v) \in Ring
           /\ Outdated(f, r, s) \in Histories
           /\ InTurn(Retire(r, s, v), Outdated(f, r, s))
           /\ \A t \in Session : Holds(Retire(r, s, v), t) => t = s \/ Holds(r, t)
<1>1. CASE s = Legacy
  <2>1. Retire(r, s, v) = r /\ Outdated(f, r, s) = f
    BY <1>1 DEF Retire, Outdated
  <2>. QED
    BY <2>1
<1>2. CASE s \in Session /\ Holds(r, s)
  <2>1. Outdated(f, r, s) = f
    BY <1>2 DEF Outdated, Holds, Place
  <2>. QED
    BY <1>2, <2>1, RetiredAgain
<1>3. CASE s \in Session /\ ~Holds(r, s)
  BY <1>3, RetiredAnew
<1>. QED
  BY <1>1, <1>2, <1>3 DEF Tokens

(* What a retirement makes of the histories of all dials. *)
Retires(rg, f, d, s, v, rg2, f2) ==
    /\ rg2 = [rg EXCEPT ![d] = Retire(@, s, v)]
    /\ f2 = [f EXCEPT ![d] = Outdated(@, rg[d], s)]

LEMMA KeptRetiring ==
    ASSUME ConstantsAssumption, NEW rg, NEW f, Kept(rg, f),
           NEW d \in Dial, NEW s \in Tokens, NEW v \in Verdict,
           NEW rg2, NEW f2, Retires(rg, f, d, s, v, rg2, f2)
    PROVE  /\ Kept(rg2, f2)
           /\ \A e \in Dial, t \in Session :
                Holds(rg2[e], t) => Holds(rg[e], t) \/ (e = d /\ t = s)
<1>. DEFINE r == Retire(rg[d], s, v)
            g == Outdated(f[d], rg[d], s)
<1>0. /\ rg \in [Dial -> Ring] /\ f \in [Dial -> Histories]
      /\ \A e \in Dial : InTurn(rg[e], f[e])
  BY DEF Kept
<1>1. /\ r \in Ring /\ g \in Histories /\ InTurn(r, g)
      /\ \A t \in Session : Holds(r, t) => t = s \/ Holds(rg[d], t)
  BY <1>0, Retiring
<1>2. rg2 = [rg EXCEPT ![d] = r] /\ f2 = [f EXCEPT ![d] = g]
  BY DEF Retires
<1>. HIDE DEF r, g
<1>3. /\ rg2 \in [Dial -> Ring] /\ f2 \in [Dial -> Histories]
      /\ rg2[d] = r /\ f2[d] = g
      /\ \A e \in Dial : e # d => rg2[e] = rg[e] /\ f2[e] = f[e]
  BY <1>0, <1>1, <1>2
<1>4. Kept(rg2, f2)
  BY <1>0, <1>1, <1>3 DEF Kept
<1>5. \A e \in Dial, t \in Session :
        Holds(rg2[e], t) => Holds(rg[e], t) \/ (e = d /\ t = s)
  BY <1>1, <1>3
<1>. QED
  BY <1>4, <1>5

----------------------------------------------------------------------------
(* The steps. *)

Stands == Sound(bonded, req, owner, ring, window, since)
StandsNext == Sound(bonded', req', owner', ring', window', since')

(* An AP that closed by itself ends its owner, who has no request waiting, *)
(* and the window.                                                         *)
LEMMA ObservedStands ==
    ASSUME ConstantsAssumption, Stands, NEW closed \in BOOLEAN, NEW v, v = Observed(closed)
    PROVE  /\ Sound(bonded, req, v.owner, v.ring, v.window, v.since)
           /\ v.owner # NoOwner /\ v.owner.started => v.window = window
<1>. DEFINE seen == /\ closed /\ owner # NoOwner /\ owner.started
                    /\ ~Cancelled(owner) /\ owner.mac \notin req
<1>1. CASE ~seen
  <2>1. v = Now
    BY <1>1 DEF Observed
  <2>2. v.owner = owner /\ v.ring = ring /\ v.window = window /\ v.since = since
    BY <2>1 DEF Now
  <2>. QED
    BY <2>2 DEF Stands
<1>2. CASE seen
  <2>. DEFINE d == owner.mac
              s == owner.session
  <2>0. /\ owner \in Owner /\ d \in Dial /\ s \in Tokens /\ d \in bonded
        /\ Kept(ring, since) /\ bonded \subseteq Dial /\ req \subseteq bonded
    BY <1>2 DEF Stands, Sound, Owner
  <2>1. v = [owner  |-> [owner EXCEPT !.started = FALSE, !.verdict = "closed"],
             ring   |-> [ring EXCEPT ![d] = Retire(@, s, "closed")],
             window |-> NoOwner,
             since  |-> [since EXCEPT ![d] = Outdated(@, ring[d], s)]]
    BY <1>2 DEF Observed
  <2>2. /\ v.owner = [owner EXCEPT !.started = FALSE, !.verdict = "closed"]
        /\ v.ring = [ring EXCEPT ![d] = Retire(@, s, "closed")]
        /\ v.window = NoOwner
        /\ v.since = [since EXCEPT ![d] = Outdated(@, ring[d], s)]
    BY <2>1
  <2>3. /\ v.owner \in Owner /\ v.owner # NoOwner /\ v.owner.mac = d
        /\ v.owner.started = FALSE
    BY <2>0, <2>2 DEF Owner, Verdict, ConstantsAssumption
  <2>4. Kept(v.ring, v.since)
    <3>1. "closed" \in Verdict /\ Retires(ring, since, d, s, "closed", v.ring, v.since)
      BY <2>2 DEF Verdict, Retires
    <3>. HIDE DEF d, s
    <3>. QED
      BY <2>0, <3>1, KeptRetiring
  <2>5. req = {}
    BY <1>2 DEF Stands, Sound, Queued
  <2>. QED
    BY <2>0, <2>2, <2>3, <2>4, <2>5 DEF Sound, Queued, Opened, Windows
<1>. QED
  BY <1>1, <1>2

LEMMA SetupKeeps ==
    ASSUME ConstantsAssumption, Stands, NEW d \in Dial, NEW s \in Tokens, Setup(d, s)
    PROVE  StandsNext
<1>0. /\ bonded' = bonded /\ window' = window /\ d \in bonded /\ ~Over(d, s)
      /\ req' = Queue(d, s)
  BY DEF Setup
<1>1. /\ bonded \subseteq Dial /\ req \subseteq bonded
      /\ owner \in Owner \cup {NoOwner} /\ window \in Windows
      /\ owner # NoOwner => owner.mac \in bonded
      /\ Kept(ring, since) /\ Queued(req, owner, ring) /\ Opened(owner, window)
  BY DEF Stands, Sound
<1>2. s # Legacy => ~Holds(ring[d], s)
  BY <1>0 DEF Over, Retired, Holds, Place
<1>3. CASE TakesOver(d, s)
  <2>. DEFINE o == [mac |-> d, session |-> s, started |-> FALSE, verdict |-> "none"]
  <2>1. /\ owner' = o /\ req' = {d}
        /\ IF owner = NoOwner THEN UNCHANGED <<ring, since>>
           ELSE /\ ring' = [ring EXCEPT ![owner.mac] =
                               Retire(@, owner.session, "stale")]
                /\ since' = [since EXCEPT ![owner.mac] =
                               Outdated(@, ring[owner.mac], owner.session)]
    BY <1>0, <1>3 DEF Setup, Queue
  <2>2. o \in Owner /\ o # NoOwner /\ o.mac = d /\ o.session = s
        /\ o.started = FALSE /\ o.verdict = "none"
    <3>1. o \in Owner
      BY DEF Owner, Verdict
    <3>2. o # NoOwner
      BY <3>1 DEF ConstantsAssumption
    <3>. QED
      BY <3>1, <3>2
  <2>. HIDE DEF o
  <2>3. Kept(ring', since') /\ (s # Legacy => ~Holds(ring'[d], s))
    <3>1. CASE owner = NoOwner
      <4>1. ring' = ring /\ since' = since
        BY <2>1, <3>1
      <4>. QED
        BY <1>1, <1>2, <4>1
    <3>2. CASE owner # NoOwner
      <4>1. owner.mac \in Dial /\ owner.session \in Tokens /\ "stale" \in Verdict
        BY <1>1, <3>2 DEF Owner, Verdict
      <4>2. /\ ring' = [ring EXCEPT ![owner.mac] = Retire(@, owner.session, "stale")]
            /\ since' = [since EXCEPT ![owner.mac] =
                           Outdated(@, ring[owner.mac], owner.session)]
        BY <2>1, <3>2
      <4>3. /\ Kept(ring', since')
            /\ \A e \in Dial, t \in Session :
                 Holds(ring'[e], t) =>
                   Holds(ring[e], t) \/ (e = owner.mac /\ t = owner.session)
        <5>1. Retires(ring, since, owner.mac, owner.session, "stale", ring', since')
          BY <4>2 DEF Retires
        <5>. QED
          BY <1>1, <4>1, <5>1, KeptRetiring
      <4>4. s # Legacy => ~(d = owner.mac /\ s = owner.session)
        BY <1>3, <3>2 DEF TakesOver, IsOwner
      <4>. QED
        BY <1>2, <4>3, <4>4 DEF Tokens
    <3>. QED
      BY <3>1, <3>2
  <2>. QED
    BY <1>0, <1>1, <2>1, <2>2, <2>3 DEF StandsNext, Sound, Queued, Opened, Cancelled
<1>4. CASE ~TakesOver(d, s)
  <2>1. /\ owner' = owner /\ ring' = ring /\ since' = since /\ req' = req \cup {d}
    BY <1>0, <1>4 DEF Setup, Queue
  <2>2. owner # NoOwner /\ owner.mac = d /\ owner.session = s /\ ~Cancelled(owner)
    BY <1>0, <1>4 DEF TakesOver, IsOwner, Over
  <2>. QED
    BY <1>0, <1>1, <1>2, <2>1, <2>2 DEF StandsNext, Sound, Queued
<1>. QED
  BY <1>3, <1>4

Statuses == {"recovery", "closed"}

Mine(v, d, s) == v.owner # NoOwner /\ v.owner.mac = d /\ v.owner.session = s

(* What the core can tell by itself is final and never a "closed" that the *)
(* AP denies; the adapter is asked for the owner's own window only.        *)
LEMMA OwnVerdictFacts ==
    ASSUME ConstantsAssumption, NEW d \in Dial, NEW s \in Session, NEW v,
           NEW a \in Statuses, NEW own, own = OwnVerdict(d, s, v, a),
           v.owner \in Owner \cup {NoOwner}, v.ring \in [Dial -> Ring], hook \in BOOLEAN
    PROVE  /\ own \in (Verdict \ {"waiting"}) \cup {"ask"}
           /\ own = "closed" => a = "closed"
           /\ own = "ask" =>
                /\ Mine(v, d, s) /\ v.owner.started
                /\ v.owner.verdict \in {"none", "waiting"}
<1>. DEFINE hits == {i \in Place : v.ring[d].slot[i].session = s}
            kept == IF hits = {} THEN "waiting"
                    ELSE v.ring[d].slot[CHOOSE i \in hits : TRUE].verdict
<1>1. kept \in Verdict
  <2>1. CASE hits = {}
    BY <2>1 DEF Verdict
  <2>2. CASE hits # {}
    <3>1. (CHOOSE i \in hits : TRUE) \in Place
      BY <2>2
    <3>2. v.ring[d].slot \in [Place -> Slot]
      BY DEF Ring, Place
    <3>. HIDE DEF hits
    <3>3. v.ring[d].slot[CHOOSE i \in hits : TRUE] \in Slot
      BY <3>1, <3>2
    <3>. QED
      BY <2>2, <3>3 DEF Slot
  <2>. QED
    BY <2>1, <2>2
<1>. DEFINE mine == Mine(v, d, s)
<1>2. \A c \in Verdict \cup {"none"} :
        c \notin {"none", "waiting"} =>
          /\ Terminal(c, a) \in Verdict \ {"waiting"}
          /\ Terminal(c, a) = "closed" => a = "closed"
  BY DEF Terminal, Verdict, Statuses
<1>3. own = CASE ~hook -> "unsupported"
         [] /\ hook /\ v.owner # NoOwner /\ ~mine
            /\ v.owner.verdict \in {"none", "waiting"} -> "stale"
         [] hook /\ mine /\ v.owner.verdict \notin {"none", "waiting"} ->
              Terminal(v.owner.verdict, a)
         [] OTHER ->
              IF kept # "waiting" THEN Terminal(kept, a)
              ELSE IF mine /\ v.owner.started THEN "ask" ELSE a
  BY DEF OwnVerdict, Mine, Place
<1>4. v.owner # NoOwner => v.owner.verdict \in Verdict \cup {"none"}
  BY DEF Owner
<1>5. mine => v.owner # NoOwner
  BY DEF Mine
<1>. HIDE DEF mine, kept
<1>6. CASE ~hook
  <2>1. own = "unsupported"
    BY <1>3, <1>6
  <2>. QED
    BY <2>1 DEF Verdict
<1>7. CASE hook /\ v.owner # NoOwner /\ ~mine /\ v.owner.verdict \in {"none", "waiting"}
  <2>1. own = "stale"
    BY <1>3, <1>7
  <2>. QED
    BY <2>1 DEF Verdict
<1>8. CASE hook /\ mine /\ v.owner.verdict \notin {"none", "waiting"}
  <2>1. own = Terminal(v.owner.verdict, a)
    BY <1>3, <1>8
  <2>2. own \in Verdict \ {"waiting"} /\ (own = "closed" => a = "closed")
    BY <1>2, <1>4, <1>5, <1>8, <2>1
  <2>. QED
    BY <2>2 DEF Verdict
<1>9. CASE /\ hook
           /\ ~(v.owner # NoOwner /\ ~mine /\ v.owner.verdict \in {"none", "waiting"})
           /\ ~(mine /\ v.owner.verdict \notin {"none", "waiting"})
  <2>1. own = IF kept # "waiting" THEN Terminal(kept, a)
              ELSE IF mine /\ v.owner.started THEN "ask" ELSE a
    BY <1>3, <1>9
  <2>2. CASE kept # "waiting"
    <3>1. kept \in Verdict \cup {"none"} /\ kept \notin {"none", "waiting"}
      BY <1>1, <2>2 DEF Verdict
    <3>2. own \in Verdict \ {"waiting"} /\ (own = "closed" => a = "closed")
      BY <1>2, <2>1, <2>2, <3>1
    <3>. QED
      BY <3>2 DEF Verdict
  <2>3. CASE kept = "waiting" /\ mine /\ v.owner.started
    BY <1>9, <2>1, <2>3 DEF mine
  <2>4. CASE kept = "waiting" /\ ~(mine /\ v.owner.started)
    BY <2>1, <2>4 DEF Verdict, Statuses
  <2>. QED
    BY <2>2, <2>3, <2>4
<1>. QED
  BY <1>6, <1>7, <1>8, <1>9

LEMMA CloseKeeps ==
    ASSUME ConstantsAssumption, NEW d \in Dial, d \in bonded, NEW s \in Session, NEW v,
           Sound(bonded, req, v.owner, v.ring, v.window, v.since),
           NEW verdict \in Verdict, NEW asked \in BOOLEAN, Close(d, s, v, verdict, asked),
           asked => /\ Mine(v, d, s) /\ v.owner.started
                    /\ v.owner.verdict \in {"none", "waiting"},
           ~asked => verdict # "waiting"
    PROVE  StandsNext /\ out' \in Acks
<1>0. /\ bonded' = bonded
      /\ owner' = IF Mine(v, d, s) THEN [v.owner EXCEPT !.verdict = verdict] ELSE v.owner
      /\ req' = IF Mine(v, d, s) THEN req \ {d} ELSE req
      /\ ring' = [v.ring EXCEPT ![d] = Retire(@, s, verdict)]
      /\ since' = [v.since EXCEPT ![d] = Outdated(@, v.ring[d], s)]
      /\ window' = IF asked /\ verdict # "waiting" THEN NoOwner ELSE v.window
      /\ out' = [kind |-> "ack", dial |-> d, session |-> s, verdict |-> verdict,
                 asked |-> asked]
  BY DEF Close, Mine
<1>1. /\ bonded \subseteq Dial /\ req \subseteq bonded
      /\ v.owner \in Owner \cup {NoOwner} /\ v.window \in Windows
      /\ v.owner # NoOwner => v.owner.mac \in bonded
      /\ Kept(v.ring, v.since) /\ Queued(req, v.owner, v.ring)
      /\ Opened(v.owner, v.window)
  BY DEF Sound
<1>2. /\ Kept(ring', since')
      /\ \A e \in Dial, t \in Session :
           Holds(ring'[e], t) => Holds(v.ring[e], t) \/ (e = d /\ t = s)
  <2>1. Retires(v.ring, v.since, d, s, verdict, ring', since') /\ s \in Tokens
    BY <1>0 DEF Retires, Tokens
  <2>. QED
    BY <1>1, <2>1, KeptRetiring
<1>3. window' \in Windows /\ out' \in Acks
  BY <1>0, <1>1 DEF Windows, Acks
<1>4. CASE Mine(v, d, s)
  <2>1. /\ v.owner \in Owner /\ v.owner.mac = d
        /\ owner' = [v.owner EXCEPT !.verdict = verdict] /\ req' = req \ {d}
    BY <1>0, <1>1, <1>4 DEF Mine
  <2>2. /\ owner' \in Owner /\ owner'.verdict = verdict
        /\ owner'.mac = v.owner.mac /\ owner'.session = v.owner.session
        /\ owner'.started = v.owner.started
    BY <2>1 DEF Owner
  <2>3. req' = {}
    BY <1>1, <2>1 DEF Queued
  <2>4. Opened(owner', window')
    <3>1. CASE verdict # "waiting"
      BY <2>2, <3>1 DEF Opened, Verdict
    <3>2. CASE verdict = "waiting"
      <4>1. asked /\ v.owner # NoOwner /\ v.owner.started
            /\ v.owner.verdict \in {"none", "waiting"}
        BY <3>2 DEF Mine
      <4>2. window' = v.window
        BY <1>0, <3>2
      <4>3. v.window = [mac |-> v.owner.mac, session |-> v.owner.session]
        BY <1>1, <4>1 DEF Opened
      <4>. QED
        BY <2>2, <4>2, <4>3 DEF Opened
    <3>. QED
      BY <3>1, <3>2
  <2>5. owner'.mac \in bonded' /\ bonded' \subseteq Dial
    BY <1>0, <1>1, <2>1, <2>2
  <2>. QED
    BY <1>2, <1>3, <2>2, <2>3, <2>4, <2>5 DEF StandsNext, Sound, Queued
<1>5. CASE ~Mine(v, d, s)
  <2>1. owner' = v.owner /\ req' = req /\ window' = v.window
    BY <1>0, <1>5
  <2>2. Queued(req', owner', ring')
    <3>. SUFFICES ASSUME NEW e \in req
                  PROVE  /\ v.owner # NoOwner /\ v.owner.mac = e /\ ~Cancelled(v.owner)
                         /\ v.owner.session # Legacy => ~Holds(ring'[e], v.owner.session)
      BY <2>1 DEF Queued
    <3>1. /\ v.owner # NoOwner /\ v.owner.mac = e /\ ~Cancelled(v.owner)
          /\ v.owner.session # Legacy => ~Holds(v.ring[e], v.owner.session)
      BY <1>1 DEF Queued
    <3>2. e \in Dial /\ v.owner.session \in Tokens
      BY <1>1, <3>1 DEF Owner
    <3>3. ~(e = d /\ v.owner.session = s)
      BY <1>5, <3>1 DEF Mine
    <3>. QED
      BY <1>2, <3>1, <3>2, <3>3 DEF Tokens
  <2>. QED
    BY <1>0, <1>1, <1>2, <1>3, <2>1, <2>2 DEF StandsNext, Sound
<1>. QED
  BY <1>3, <1>4, <1>5

(* A cancel, taken apart: what it saw, what it decided and who decided.    *)
Carried(d, s, v, a, verdict, asked) ==
    /\ a \in Statuses /\ (a = "closed" => ~ap) /\ v = Observed(a = "closed")
    /\ verdict \in Verdict /\ asked \in BOOLEAN
    /\ Close(d, s, v, verdict, asked)
    /\ asked => /\ Mine(v, d, s) /\ v.owner.started
                /\ v.owner.verdict \in {"none", "waiting"}
                /\ ap' = (ap /\ verdict # "closed")
    /\ ~asked => /\ verdict # "waiting" /\ ap' = ap
                 /\ verdict = "closed" => a = "closed"

LEMMA CancelParts ==
    ASSUME ConstantsAssumption, IInv, NEW d \in Dial, NEW s \in Session, Cancel(d, s)
    PROVE  \E v, a, verdict, asked : Carried(d, s, v, a, verdict, asked)
<1>1. PICK readable \in BOOLEAN :
        LET apStatus == IF ~readable \/ ap THEN "recovery" ELSE "closed"
            v        == Observed(apStatus = "closed")
            own      == OwnVerdict(d, s, v, apStatus)
        IN \/ /\ own # "ask"
              /\ Close(d, s, v, own, FALSE)
              /\ UNCHANGED ap
           \/ /\ own = "ask"
              /\ \E told \in Verdict :
                   /\ Close(d, s, v, told, TRUE)
                   /\ ap' = (ap /\ told # "closed")
  BY DEF Cancel
<1>. DEFINE a == IF ~readable \/ ap THEN "recovery" ELSE "closed"
            v == Observed(a = "closed")
            own == OwnVerdict(d, s, v, a)
<1>2. a \in Statuses /\ (a = "closed" => ~ap)
  BY DEF Statuses
<1>3. \/ own # "ask" /\ Close(d, s, v, own, FALSE) /\ ap' = ap
      \/ /\ own = "ask"
         /\ \E told \in Verdict :
              Close(d, s, v, told, TRUE) /\ ap' = (ap /\ told # "closed")
  BY <1>1
<1>. HIDE DEF a
<1>4. Sound(bonded, req, v.owner, v.ring, v.window, v.since)
  <2>1. Stands /\ (a = "closed") \in BOOLEAN
    BY DEF IInv, Stands
  <2>. QED
    BY <2>1, ObservedStands
<1>. HIDE DEF v
<1>5. /\ own \in (Verdict \ {"waiting"}) \cup {"ask"}
      /\ own = "closed" => a = "closed"
      /\ own = "ask" => /\ Mine(v, d, s) /\ v.owner.started
                        /\ v.owner.verdict \in {"none", "waiting"}
  <2>1. v.owner \in Owner \cup {NoOwner} /\ v.ring \in [Dial -> Ring]
    BY <1>4 DEF Sound, Kept
  <2>2. hook \in BOOLEAN
    BY DEF IInv
  <2>. QED
    BY <1>2, <2>1, <2>2, OwnVerdictFacts
<1>. HIDE DEF own
<1>6. CASE own # "ask"
  <2>1. own \in Verdict /\ own # "waiting" /\ Close(d, s, v, own, FALSE) /\ ap' = ap
    BY <1>3, <1>5, <1>6
  <2>. QED
    BY <1>2, <1>5, <2>1 DEF v, Carried
<1>7. CASE own = "ask"
  <2>1. PICK told \in Verdict :
          Close(d, s, v, told, TRUE) /\ ap' = (ap /\ told # "closed")
    BY <1>3, <1>7
  <2>. QED
    BY <1>2, <1>5, <1>7, <2>1 DEF v, Carried
<1>. QED
  BY <1>6, <1>7

LEMMA CancelKeeps ==
    ASSUME ConstantsAssumption, IInv, NEW d \in Dial, NEW s \in Session, Cancel(d, s)
    PROVE  StandsNext /\ ap' \in BOOLEAN /\ hook' = hook /\ out' \in Acks
<1>1. PICK v, a, verdict, asked : Carried(d, s, v, a, verdict, asked)
  BY CancelParts
<1>2. Stands /\ ap \in BOOLEAN
  BY DEF IInv, Stands
<1>3. Sound(bonded, req, v.owner, v.ring, v.window, v.since)
  BY <1>1, <1>2, ObservedStands DEF Carried
<1>4. d \in bonded
  BY DEF Cancel
<1>5. StandsNext /\ out' \in Acks
  BY <1>1, <1>3, <1>4, CloseKeeps DEF Carried
<1>6. ap' \in BOOLEAN
  BY <1>1, <1>2 DEF Carried
<1>7. hook' = hook
  BY <1>1 DEF Carried, Close
<1>. QED
  BY <1>5, <1>6, <1>7

LEMMA EchoKeeps ==
    ASSUME ConstantsAssumption, Stands, Echo
    PROVE  StandsNext
<1>1. PICK closed \in BOOLEAN : Become(Observed(closed))
  BY DEF Echo, BuildState
<1>. DEFINE v == Observed(closed)
<1>2. Sound(bonded, req, v.owner, v.ring, v.window, v.since)
  BY ObservedStands
<1>3. owner' = v.owner /\ ring' = v.ring /\ window' = v.window /\ since' = v.since
  BY <1>1 DEF Become
<1>4. bonded' = bonded /\ req' = req
  BY DEF Echo
<1>. QED
  BY <1>2, <1>3, <1>4 DEF StandsNext

LEMMA LoopKeeps ==
    ASSUME ConstantsAssumption, Stands, ap \in BOOLEAN, NEW live \in SUBSET Dial, Loop(live)
    PROVE  StandsNext /\ ap' \in BOOLEAN /\ hook' = hook /\ out' \in Outside
<1>1. PICK closed \in BOOLEAN, ok \in SUBSET (req \cap live) :
        LET v == Observed(closed) IN
        /\ closed => ~ap
        /\ owner' = IF ok # {} /\ v.owner # NoOwner
                    THEN [v.owner EXCEPT !.started = TRUE] ELSE v.owner
        /\ window' = IF ok # {} /\ v.owner # NoOwner
                     THEN [mac |-> v.owner.mac, session |-> v.owner.session]
                     ELSE v.window
        /\ ap' = (ap \/ ok # {})
        /\ out' = IF req \cap live = {} THEN Silent
                  ELSE [kind |-> "setup", dials |-> req \cap live]
        /\ ring' = v.ring /\ since' = v.since
  BY DEF Loop
<1>. DEFINE v == Observed(closed)
<1>2. Sound(bonded, req, v.owner, v.ring, v.window, v.since)
  BY ObservedStands
<1>3. /\ owner' = IF ok # {} /\ v.owner # NoOwner
                   THEN [v.owner EXCEPT !.started = TRUE] ELSE v.owner
      /\ window' = IF ok # {} /\ v.owner # NoOwner
                    THEN [mac |-> v.owner.mac, session |-> v.owner.session]
                    ELSE v.window
      /\ ring' = v.ring /\ since' = v.since
      /\ ap' = (ap \/ ok # {})
      /\ out' = IF req \cap live = {} THEN Silent
                ELSE [kind |-> "setup", dials |-> req \cap live]
  BY <1>1
<1>. HIDE DEF v
<1>4. bonded' = bonded /\ hook' = hook /\ req' = req \ live
  BY DEF Loop
<1>5. /\ bonded \subseteq Dial /\ req \subseteq bonded
      /\ v.owner \in Owner \cup {NoOwner} /\ v.window \in Windows
      /\ v.owner # NoOwner => v.owner.mac \in bonded
      /\ Kept(v.ring, v.since) /\ Queued(req, v.owner, v.ring)
      /\ Opened(v.owner, v.window)
  BY <1>2 DEF Sound
<1>6. ap' \in BOOLEAN
  BY <1>3
<1>7. out' \in Outside
  BY <1>3, <1>5 DEF Outside
<1>8. StandsNext
  <2>1. CASE ok # {} /\ v.owner # NoOwner
    <3>1. owner' = [v.owner EXCEPT !.started = TRUE]
          /\ window' = [mac |-> v.owner.mac, session |-> v.owner.session]
          /\ v.owner \in Owner
      BY <1>3, <1>5, <2>1
    <3>2. /\ owner' \in Owner /\ owner'.mac = v.owner.mac
          /\ owner'.session = v.owner.session /\ owner'.verdict = v.owner.verdict
      BY <3>1 DEF Owner
    <3>3. owner' # NoOwner
      BY <3>2 DEF ConstantsAssumption
    <3>4. window' \in Windows
      BY <3>1 DEF Windows, Owner
    <3>5. Queued(req', owner', ring')
      BY <1>3, <1>4, <1>5, <3>2, <3>3 DEF Queued, Cancelled
    <3>6. Opened(owner', window')
      BY <3>1, <3>2 DEF Opened
    <3>7. bonded' \subseteq Dial /\ req' \subseteq bonded' /\ owner'.mac \in bonded'
          /\ Kept(ring', since')
      BY <1>3, <1>4, <1>5, <2>1, <3>2
    <3>. QED
      BY <3>2, <3>4, <3>5, <3>6, <3>7 DEF StandsNext, Sound
  <2>2. CASE ~(ok # {} /\ v.owner # NoOwner)
    <3>1. owner' = v.owner /\ window' = v.window
      BY <1>3, <2>2
    <3>. QED
      BY <1>3, <1>4, <1>5, <3>1 DEF StandsNext, Sound, Queued
  <2>. QED
    BY <2>1, <2>2
<1>. QED
  BY <1>4, <1>6, <1>7, <1>8

(* A new bond, or none, starts without owner, request and history. *)
LEMMA FreshRing ==
    ASSUME ConstantsAssumption
    PROVE  EmptyRing \in Ring /\ Unretired \in Histories /\ InTurn(EmptyRing, Unretired)
<1>0. Legacy \notin Session /\ History \in Nat /\ History > 0
  BY DEF ConstantsAssumption
<1>1. /\ EmptyRing.slot = [i \in Place |-> Free] /\ EmptyRing.next = 0
      /\ \A i \in Place : EmptyRing.slot[i].session = Legacy
  BY DEF EmptyRing, Free, Place
<1>2. EmptyRing \in Ring
  <2>1. Free \in Slot
    BY DEF Free, Slot, Tokens, Verdict
  <2>2. 0 \in 0..History-1
    BY <1>0
  <2>. QED
    BY <2>1, <2>2 DEF EmptyRing, Ring
<1>3. Unretired \in Histories /\ \A s \in Session : Unretired[s] = {Legacy}
  BY DEF Unretired, Histories, Tokens
<1>4. \A s \in Session : ~Holds(EmptyRing, s)
  BY <1>0, <1>1 DEF Holds
<1>. HIDE DEF EmptyRing, Unretired
<1>5. InTurn(EmptyRing, Unretired)
  BY <1>1, <1>3, <1>4 DEF InTurn
<1>. QED
  BY <1>2, <1>3, <1>5

LEMMA ResetKeeps ==
    ASSUME ConstantsAssumption, Stands, NEW D \in SUBSET Dial, Reset(D),
           bonded' \subseteq Dial, bonded \ D \subseteq bonded'
    PROVE  StandsNext
<1>0. /\ owner' = IF owner # NoOwner /\ owner.mac \in D THEN NoOwner ELSE owner
      /\ window' = IF window # NoOwner /\ window.mac \in D THEN NoOwner ELSE window
      /\ req' = req \ D
      /\ ring' = [d \in Dial |-> IF d \in D THEN EmptyRing ELSE ring[d]]
      /\ since' = [d \in Dial |-> IF d \in D THEN Unretired ELSE since[d]]
  BY DEF Reset, Disown
<1>1. /\ bonded \subseteq Dial /\ req \subseteq bonded
      /\ owner \in Owner \cup {NoOwner} /\ window \in Windows
      /\ owner # NoOwner => owner.mac \in bonded
      /\ Kept(ring, since) /\ Queued(req, owner, ring) /\ Opened(owner, window)
  BY DEF Stands, Sound
<1>2. Kept(ring', since')
  BY <1>0, <1>1, FreshRing DEF Kept
<1>3. Queued(req', owner', ring')
  <2>. SUFFICES ASSUME NEW d \in req \ D
                PROVE  /\ owner' # NoOwner /\ owner'.mac = d /\ ~Cancelled(owner')
                       /\ owner'.session # Legacy => ~Holds(ring'[d], owner'.session)
    BY <1>0 DEF Queued
  <2>1. /\ owner # NoOwner /\ owner.mac = d /\ ~Cancelled(owner)
        /\ owner.session # Legacy => ~Holds(ring[d], owner.session)
    BY <1>1 DEF Queued
  <2>2. owner' = owner /\ ring'[d] = ring[d]
    BY <1>0, <1>1, <2>1
  <2>. QED
    BY <2>1, <2>2
<1>4. Opened(owner', window')
  <2>. SUFFICES ASSUME owner' # NoOwner, owner'.started,
                       owner'.verdict \in {"none", "waiting"}
                PROVE  window' = [mac |-> owner'.mac, session |-> owner'.session]
    BY DEF Opened
  <2>1. owner' = owner /\ owner.mac \notin D
    BY <1>0
  <2>2. window = [mac |-> owner.mac, session |-> owner.session]
    BY <1>1, <2>1 DEF Opened
  <2>3. window.mac = owner.mac
    BY <2>2
  <2>4. window' = window
    BY <1>0, <2>1, <2>3
  <2>. QED
    BY <2>1, <2>2, <2>4
<1>5. /\ owner' \in Owner \cup {NoOwner} /\ window' \in Windows
      /\ owner' # NoOwner => owner'.mac \in bonded'
      /\ req' \subseteq bonded'
  BY <1>0, <1>1 DEF Windows
<1>. QED
  BY <1>2, <1>3, <1>4, <1>5 DEF StandsNext, Sound

----------------------------------------------------------------------------
LEMMA InitHolds == ASSUME ConstantsAssumption, Init PROVE IInv
<1>1. Kept(ring, since)
  BY FreshRing DEF Init, Kept
<1>. QED
  BY <1>1 DEF Init, IInv, Sound, Queued, Opened, Windows, Outside

LEMMA NextKeeps == ASSUME ConstantsAssumption, IInv, [Next]_vars PROVE IInv'
<1>0. Stands /\ ap \in BOOLEAN /\ hook \in BOOLEAN /\ out \in Outside
  BY DEF IInv, Stands
<1>. SUFFICES StandsNext /\ ap' \in BOOLEAN /\ hook' \in BOOLEAN /\ out' \in Outside
  BY DEF IInv, StandsNext
<1>1. ASSUME NEW d \in Dial, NEW s \in Tokens, Setup(d, s)
      PROVE  StandsNext /\ ap' \in BOOLEAN /\ hook' \in BOOLEAN /\ out' \in Outside
  <2>1. ap' = ap /\ hook' = hook /\ out' = Silent
    BY <1>1 DEF Setup
  <2>. QED
    BY <1>0, <1>1, <2>1, SetupKeeps DEF Outside
<1>2. ASSUME NEW d \in Dial, NEW s \in Session, Cancel(d, s)
      PROVE  StandsNext /\ ap' \in BOOLEAN /\ hook' \in BOOLEAN /\ out' \in Outside
  BY <1>0, <1>2, CancelKeeps DEF Outside
<1>3. CASE Echo
  <2>1. ap' = ap /\ hook' = hook /\ out' = Silent
    BY <1>3 DEF Echo
  <2>. QED
    BY <1>0, <1>3, <2>1, EchoKeeps DEF Outside
<1>4. ASSUME NEW live \in SUBSET Dial, Loop(live)
      PROVE  StandsNext /\ ap' \in BOOLEAN /\ hook' \in BOOLEAN /\ out' \in Outside
  BY <1>0, <1>4, LoopKeeps
<1>5. ASSUME NEW D \in SUBSET Dial, Reset(D), bonded' \subseteq Dial,
             bonded \ D \subseteq bonded'
      PROVE  StandsNext /\ ap' \in BOOLEAN /\ hook' \in BOOLEAN /\ out' \in Outside
  <2>1. ap' = ap /\ hook' = hook /\ out' = Silent
    BY <1>5 DEF Reset
  <2>. QED
    BY <1>0, <1>5, <2>1, ResetKeeps DEF Outside
<1>6. bonded \subseteq Dial
  BY <1>0 DEF Stands, Sound
<1>7. ASSUME NEW d \in Dial, Commit(d) \/ Forget(d)
      PROVE  StandsNext /\ ap' \in BOOLEAN /\ hook' \in BOOLEAN /\ out' \in Outside
  <2>1. Reset({d}) /\ bonded' \subseteq Dial /\ bonded \ {d} \subseteq bonded'
    BY <1>6, <1>7 DEF Commit, Forget
  <2>2. {d} \in SUBSET Dial
    OBVIOUS
  <2>. QED
    BY <1>5, <2>1, <2>2
<1>8. CASE ForgetAll
  <2>1. Reset(Dial) /\ bonded' \subseteq Dial /\ bonded \ Dial \subseteq bonded'
    BY <1>6, <1>8 DEF ForgetAll
  <2>2. Dial \in SUBSET Dial
    OBVIOUS
  <2>. QED
    BY <1>5, <2>1, <2>2
<1>9. CASE ApChanges
  <2>1. ap' = ~ap /\ hook' = hook /\ out' = Silent
        /\ UNCHANGED <<bonded, req, owner, ring, window, since>>
    BY <1>9 DEF ApChanges
  <2>. QED
    BY <1>0, <2>1 DEF Outside, Stands, StandsNext
<1>10. CASE UNCHANGED vars
  BY <1>0, <1>10 DEF vars, Stands, StandsNext
<1>. QED
  BY <1>1, <1>2, <1>3, <1>4, <1>7, <1>8, <1>9, <1>10 DEF Next

(* The invariant the theorems follow from. *)
LEMMA Inductive == ASSUME ConstantsAssumption PROVE Spec => []IInv
<1>1. Init => IInv
  BY InitHolds
<1>2. IInv /\ [Next]_vars => IInv'
  BY NextKeeps
<1>. QED
  BY <1>1, <1>2, PTL DEF Spec

(* Nothing but a cancel is acknowledged. *)
LEMMA AcksAreCancels ==
    ASSUME Next, out'.kind = "ack"
    PROVE  \E d \in Dial, s \in Session : Cancel(d, s)
<1>1. out' # Silent /\ \A D : out' # [kind |-> "setup", dials |-> D]
  BY DEF Silent
<1>2. \A e \in Dial, s \in Tokens : ~Setup(e, s)
  BY <1>1 DEF Setup
<1>3. \A live \in SUBSET Dial : ~Loop(live)
  BY <1>1 DEF Loop
<1>4. ~Echo /\ ~ForgetAll /\ ~ApChanges /\ \A e \in Dial : ~Commit(e) /\ ~Forget(e)
  BY <1>1 DEF Echo, ForgetAll, ApChanges, Commit, Forget, Reset
<1>. QED
  BY <1>2, <1>3, <1>4 DEF Next

----------------------------------------------------------------------------
LEMMA SoundTypes == ASSUME IInv PROVE TypeOK
BY DEF IInv, Sound, Kept, Histories, Windows, Outside, TypeOK

(* The state keeps its types. *)
THEOREM SessionTypes ==
    ASSUME ConstantsAssumption
    PROVE  Spec => []TypeOK
<1>1. IInv => TypeOK
  BY SoundTypes
<1>. QED
  BY <1>1, Inductive, PTL

(* What the invariant says of the queue. *)
LEMMA SoundQueue == ASSUME ConstantsAssumption, IInv PROVE QueueIsOwners
<1>0. /\ Queued(req, owner, ring) /\ (owner # NoOwner => owner.mac \in bonded)
  BY DEF IInv, Sound
<1>1. Cardinality(req) <= 1
  <2>1. CASE req = {}
    BY <2>1, FS_EmptySet
  <2>2. CASE req # {}
    <3>1. PICK d : req = {d}
      BY <1>0, <2>2 DEF Queued
    <3>. QED
      BY <3>1, FS_Singleton
  <2>. QED
    BY <2>1, <2>2
<1>2. \A d \in req :
       /\ owner # NoOwner /\ owner.mac = d /\ ~Cancelled(owner)
       /\ owner.session # Legacy => ~Retired(d, owner.session)
  BY <1>0 DEF Queued, Holds, Retired, Place
<1>. QED
  BY <1>0, <1>1, <1>2 DEF QueueIsOwners

(* The AP is never raised for somebody else: at most one request waits for *)
(* serve_pulls, and it is the present owner's, whose session is neither    *)
(* cancelled nor in the history (wifi_queue_setup, wifi_cancel, and what   *)
(* forgetting and re-pairing leave of them).                               *)
THEOREM OwnersAreServed ==
    ASSUME ConstantsAssumption
    PROVE  Spec => []QueueIsOwners
<1>1. IInv => QueueIsOwners
  BY SoundQueue
<1>. QED
  BY <1>1, Inductive, PTL

(* The step of RetiredStayRefused. *)
LEMMA RetiredStep == ASSUME ConstantsAssumption, IInv, Next PROVE RetiredStartsRefused
<1>. SUFFICES ASSUME Next, NEW d \in Dial, out'.kind = "setup", d \in out'.dials,
                     owner.session # Legacy
              PROVE  \/ since[d][owner.session] = {Legacy}
                     \/ Cardinality(since[d][owner.session]) >= History
  BY DEF RetiredStartsRefused
<1>1. out' # Silent /\ out' \notin Acks
  BY DEF Silent, Acks
<1>2. PICK live \in SUBSET Dial : Loop(live)
  <2>1. \A e \in Dial, s \in Tokens : ~Setup(e, s)
    BY <1>1 DEF Setup
  <2>2. \A e \in Dial, s \in Session : ~Cancel(e, s)
    BY <1>1, CancelKeeps
  <2>3. ~Echo /\ ~ForgetAll /\ ~ApChanges /\ \A e \in Dial : ~Commit(e) /\ ~Forget(e)
    BY <1>1 DEF Echo, ForgetAll, ApChanges, Commit, Forget, Reset
  <2>. QED
    BY <2>1, <2>2, <2>3 DEF Next
<1>3. out' = [kind |-> "setup", dials |-> req \cap live]
  BY <1>1, <1>2 DEF Loop
<1>4. d \in req
  BY <1>3
<1>5. owner # NoOwner /\ ~Holds(ring[d], owner.session)
  BY <1>4 DEF IInv, Sound, Queued
<1>6. owner.session \in Session /\ InTurn(ring[d], since[d])
  BY <1>5 DEF IInv, Sound, Kept, Owner, Tokens
<1>. QED
  BY <1>5, <1>6 DEF InTurn

(* A token that is over starts nothing until the dial has retired as many  *)
(* others as the history has places, or has a new bond: the ring is never  *)
(* overwritten out of turn, however takeovers, closed APs and repeated     *)
(* cancels retire sessions (wifi_retire).                                  *)
THEOREM RetiredStayRefused ==
    ASSUME ConstantsAssumption
    PROVE  Spec => [][RetiredStartsRefused]_vars
<1>1. IInv /\ Next => RetiredStartsRefused
  BY RetiredStep
<1>. QED
  BY <1>1, Inductive, PTL DEF Spec

(* The step of CancelsTouchTheirOwn. *)
LEMMA CancelStep == ASSUME ConstantsAssumption, IInv, Next PROVE CancelTouchesOwnWindow
<1>. SUFFICES ASSUME Next, out'.kind = "ack"
              PROVE  /\ out'.asked => window = [mac |-> out'.dial, session |-> out'.session]
                     /\ ~out'.asked => ap' = ap
  BY DEF CancelTouchesOwnWindow
<1>1. PICK d \in Dial, s \in Session : Cancel(d, s)
  BY AcksAreCancels
<1>2. PICK v, a, verdict, asked : Carried(d, s, v, a, verdict, asked)
  BY <1>1, CancelParts
<1>3. out' = [kind |-> "ack", dial |-> d, session |-> s, verdict |-> verdict,
              asked |-> asked]
  BY <1>2 DEF Carried, Close
<1>4. Stands
  BY DEF IInv, Stands
<1>5. /\ Opened(v.owner, v.window)
      /\ v.owner # NoOwner /\ v.owner.started => v.window = window
  BY <1>2, <1>4, ObservedStands DEF Carried, Sound
<1>6. asked => window = [mac |-> d, session |-> s]
  BY <1>2, <1>5 DEF Carried, Opened, Mine
<1>. QED
  BY <1>2, <1>3, <1>6 DEF Carried

(* A cancel closes the window its own session opened and no other          *)
(* (wifi_cancel).                                                          *)
THEOREM CancelsTouchTheirOwn ==
    ASSUME ConstantsAssumption
    PROVE  Spec => [][CancelTouchesOwnWindow]_vars
<1>1. IInv /\ Next => CancelTouchesOwnWindow
  BY CancelStep
<1>. QED
  BY <1>1, Inductive, PTL DEF Spec

(* The step of VerdictsAreTrue. *)
LEMMA VerdictStep == ASSUME ConstantsAssumption, IInv, Next PROVE VerdictIsTrue
<1>. SUFFICES ASSUME Next, out'.kind = "ack"
              PROVE  /\ out'.verdict = "closed" => ~ap'
                     /\ out'.verdict = "waiting" => out'.asked
  BY DEF VerdictIsTrue
<1>1. PICK d \in Dial, s \in Session : Cancel(d, s)
  BY AcksAreCancels
<1>2. PICK v, a, verdict, asked : Carried(d, s, v, a, verdict, asked)
  BY <1>1, CancelParts
<1>3. out' = [kind |-> "ack", dial |-> d, session |-> s, verdict |-> verdict,
              asked |-> asked]
  BY <1>2 DEF Carried, Close
<1>4. CASE asked
  <2>1. ap' = (ap /\ verdict # "closed")
    BY <1>2, <1>4 DEF Carried
  <2>2. verdict = "closed" => ~ap'
    BY <2>1, Zenon
  <2>. QED
    BY <1>3, <1>4, <2>2
<1>5. CASE ~asked
  <2>1. verdict # "waiting" /\ ap' = ap /\ (verdict = "closed" => ~ap)
    BY <1>2, <1>5 DEF Carried
  <2>2. verdict = "closed" => ~ap'
    BY <2>1, Zenon
  <2>. QED
    BY <1>3, <2>1, <2>2
<1>6. asked \in BOOLEAN
  BY <1>2 DEF Carried
<1>. QED
  BY <1>4, <1>5, <1>6

(* "Closed" is acknowledged only while no AP is up, and "waiting" only     *)
(* when the adapter has just said so (wifi_terminal_status).               *)
THEOREM VerdictsAreTrue ==
    ASSUME ConstantsAssumption
    PROVE  Spec => [][VerdictIsTrue]_vars
<1>1. IInv /\ Next => VerdictIsTrue
  BY VerdictStep
<1>. QED
  BY <1>1, Inductive, PTL DEF Spec
=============================================================================
