------------------------- MODULE PullService_proofs -------------------------
(***************************************************************************)
(* What dials pull, choose and present, for any dials, room sources,       *)
(* throttle and mix of requests.                                           *)
(***************************************************************************)
EXTENDS PullService, TLAPS

(* The promises are about bonded dials; a slot that is free is blank, so   *)
(* that they hold of the dial that bonds next.                             *)
FreeSlotsAreBlank ==
    \A d \in Dial \ bonded : rt[d].infoIn = 0 /\ rt[d].cert # "ok"

IInv == TypeOK /\ KnowsOrMayPull /\ GenuineIsOwn /\ FreeSlotsAreBlank

(* What a frame leaves to the promises. *)
LEMMA FrameKeeps ==
    ASSUME IInv, NEW d \in Dial, NEW r \in Runtime, Frame(d, r),
           r.infoIn = rt[d].infoIn,
           presented' \in [Dial -> Cert \cup {NoCert}],
           \A e \in Dial : e # d => presented'[e] = presented[e],
           r.cert = "ok" => presented'[d] = "own"
    PROVE  IInv'
<1>1. /\ rt' \in [Dial -> Runtime] /\ rt'[d] = r
      /\ \A e \in Dial : e # d => rt'[e] = rt[e]
      /\ d \in bonded /\ UNCHANGED <<bonded, root, selected, told, byHa>>
  BY DEF Frame, IInv, TypeOK
<1>2. TypeOK'
  BY <1>1 DEF IInv, TypeOK
<1>3. KnowsOrMayPull'
  <2>. SUFFICES ASSUME NEW e \in bonded
                PROVE  told[e] = selected \/ rt'[e].infoIn = 0 \/ e \in byHa
    BY <1>1 DEF KnowsOrMayPull
  <2>1. rt'[e].infoIn = rt[e].infoIn
    BY <1>1 DEF IInv, TypeOK
  <2>. QED
    BY <2>1 DEF IInv, KnowsOrMayPull
<1>4. GenuineIsOwn'
  BY <1>1 DEF IInv, TypeOK, GenuineIsOwn
<1>5. FreeSlotsAreBlank'
  BY <1>1 DEF IInv, FreeSlotsAreBlank
<1>. QED
  BY <1>2, <1>3, <1>4, <1>5 DEF IInv

LEMMA ProbeKeeps ==
    ASSUME IInv, NEW d \in Dial, Probe(d)
    PROVE  IInv'
<1>1. PICK want \in SUBSET Pulls : Frame(d, [rt[d] EXCEPT !.want = want])
  BY DEF Probe
<1>. DEFINE r == [rt[d] EXCEPT !.want = want]
<1>2. rt[d] \in Runtime /\ d \in bonded /\ UNCHANGED presented
  BY <1>1 DEF IInv, TypeOK, Probe, Frame
<1>3. r \in Runtime /\ r.infoIn = rt[d].infoIn /\ r.cert = rt[d].cert
  BY <1>2 DEF Runtime
<1>4. Frame(d, r)
  BY <1>1
<1>. HIDE DEF r
<1>5. r.cert = "ok" => presented'[d] = "own"
  BY <1>2, <1>3 DEF IInv, GenuineIsOwn
<1>. QED
  BY <1>2, <1>3, <1>4, <1>5, FrameKeeps DEF IInv, TypeOK

LEMMA AskKeeps ==
    ASSUME IInv, NEW d \in Dial, NEW what \in Asks, Ask(d, what)
    PROVE  IInv'
<1>1. PICK s \in Source :
        Frame(d, [rt[d] EXCEPT !.asks = @ \cup {what},
                               !.source = IF what = "set" THEN s ELSE @])
  BY DEF Ask
<1>. DEFINE r == [rt[d] EXCEPT !.asks = @ \cup {what},
                               !.source = IF what = "set" THEN s ELSE @]
<1>2. rt[d] \in Runtime /\ d \in bonded /\ UNCHANGED presented
  BY <1>1 DEF IInv, TypeOK, Ask, Frame
<1>3. r \in Runtime /\ r.infoIn = rt[d].infoIn /\ r.cert = rt[d].cert
  BY <1>2 DEF Runtime
<1>4. Frame(d, r)
  BY <1>1
<1>. HIDE DEF r
<1>5. r.cert = "ok" => presented'[d] = "own"
  BY <1>2, <1>3 DEF IInv, GenuineIsOwn
<1>. QED
  BY <1>2, <1>3, <1>4, <1>5, FrameKeeps DEF IInv, TypeOK

LEMMA DialInfoKeeps ==
    ASSUME ConstantsAssumption, IInv, NEW d \in Dial, NEW c \in Certs, DialInfo(d, c)
    PROVE  IInv'
<1>. DEFINE r == [rt[d] EXCEPT
                   !.bytes = IF c = "malformed" THEN @ ELSE c,
                   !.cert  = IF c = "malformed" THEN "invalid"
                             ELSE IF ~root THEN "present"
                             ELSE Assessed(c)]
<1>1. Frame(d, r) /\ presented' = [presented EXCEPT ![d] = c]
  BY DEF DialInfo
<1>2. rt[d] \in Runtime /\ c \in Cert
  BY DEF IInv, TypeOK, ConstantsAssumption, Cert
<1>3. r \in Runtime /\ r.infoIn = rt[d].infoIn /\ (r.cert = "ok" => c = "own")
  BY <1>2 DEF Runtime, Assessed, Cert
<1>. HIDE DEF r
<1>4. /\ presented' \in [Dial -> Cert \cup {NoCert}] /\ presented'[d] = c
      /\ \A e \in Dial : e # d => presented'[e] = presented[e]
  BY <1>1, <1>2 DEF IInv, TypeOK
<1>. QED
  BY <1>1, <1>3, <1>4, FrameKeeps

LEMMA PulledFacts ==
    ASSUME ConstantsAssumption, NEW r \in Runtime
    PROVE  /\ Pulled(r) \in Runtime /\ Pulled(r).cert = r.cert
           /\ ~Sent("info" \in r.want, r.infoIn) => Pulled(r).infoIn = r.infoIn
<1>. DEFINE c == IF Sent("caps" \in r.want, r.capsIn) THEN Throttle ELSE r.capsIn
            i == IF Sent("info" \in r.want, r.infoIn) THEN Throttle ELSE r.infoIn
<1>1. c \in 0..Throttle /\ i \in 0..Throttle
  BY DEF ConstantsAssumption, Runtime
<1>2. Pulled(r) = [r EXCEPT !.capsIn = c, !.infoIn = i, !.asks = {}]
  BY DEF Pulled
<1>3. ~Sent("info" \in r.want, r.infoIn) => i = r.infoIn
  OBVIOUS
<1>. HIDE DEF c, i
<1>. QED
  BY <1>1, <1>2, <1>3 DEF Runtime

(* Serving tells the dial that asks, and lets the others ask at once when  *)
(* its choice was taken.                                                   *)
LEMMA ServeKeeps ==
    ASSUME ConstantsAssumption, IInv, NEW d \in Dial, NEW ok \in BOOLEAN, Serve(d, ok)
    PROVE  IInv'
<1>. DEFINE p(e) == IF e = d THEN Pulled(rt[d]) ELSE rt[e]
            telling == "set" \in rt[d].asks \/ Sent("info" \in rt[d].want, rt[d].infoIn)
<1>0. \A e \in Dial : rt[e] \in Runtime
  BY DEF IInv, TypeOK
<1>1. \A e \in Dial : /\ p(e) \in Runtime /\ p(e).cert = rt[e].cert
                      /\ (e # d \/ ~telling) => p(e).infoIn = rt[e].infoIn
  BY <1>0, PulledFacts
<1>2. /\ rt' = [e \in Dial |-> IF ok /\ e \in bonded \cap Hurried(d)
                               THEN [p(e) EXCEPT !.infoIn = 0] ELSE p(e)]
      /\ d \in bonded /\ UNCHANGED <<bonded, root, presented>>
      /\ ok => telling
      /\ selected' = IF ok THEN rt[d].source ELSE selected
      /\ telling => told' = [told EXCEPT ![d] = selected'] /\ byHa' = byHa \ {d}
      /\ ~telling => UNCHANGED <<told, byHa>>
  BY DEF Serve
<1>. HIDE DEF p, telling
<1>3. \A e \in Dial :
        /\ rt'[e] \in Runtime /\ rt'[e].cert = rt[e].cert
        /\ rt'[e].infoIn \in {p(e).infoIn, 0}
        /\ ok /\ e \in bonded /\ e # d => rt'[e].infoIn = 0
  <2>. SUFFICES ASSUME NEW e \in Dial
                PROVE  /\ rt'[e] \in Runtime /\ rt'[e].cert = rt[e].cert
                       /\ rt'[e].infoIn \in {p(e).infoIn, 0}
                       /\ ok /\ e \in bonded /\ e # d => rt'[e].infoIn = 0
    OBVIOUS
  <2>1. rt'[e] = IF ok /\ e \in bonded /\ e # d
                 THEN [p(e) EXCEPT !.infoIn = 0] ELSE p(e)
    BY <1>2 DEF Hurried
  <2>2. /\ [p(e) EXCEPT !.infoIn = 0] \in Runtime
        /\ [p(e) EXCEPT !.infoIn = 0].cert = p(e).cert
        /\ [p(e) EXCEPT !.infoIn = 0].infoIn = 0
    BY <1>1 DEF Runtime, ConstantsAssumption
  <2>. QED
    BY <1>1, <2>1, <2>2
<1>4. rt' \in [Dial -> Runtime]
  BY <1>2, <1>3
<1>5. selected' \in Source
  BY <1>0, <1>2 DEF IInv, TypeOK, Runtime
<1>6. /\ told' \in [Dial -> Source \cup {Unknown}]
      /\ \A e \in Dial : e # d \/ ~telling => told'[e] = told[e]
      /\ telling => told'[d] = selected'
      /\ byHa' \subseteq byHa /\ \A e \in byHa : e # d \/ ~telling => e \in byHa'
  BY <1>2, <1>5 DEF IInv, TypeOK
<1>7. TypeOK'
  BY <1>2, <1>4, <1>5, <1>6 DEF IInv, TypeOK
<1>8. KnowsOrMayPull'
  <2>. SUFFICES ASSUME NEW e \in bonded
                PROVE  told'[e] = selected' \/ rt'[e].infoIn = 0 \/ e \in byHa'
    BY <1>2 DEF KnowsOrMayPull
  <2>0. e \in Dial
    BY DEF IInv, TypeOK
  <2>1. CASE e = d /\ telling
    BY <2>1, <1>6
  <2>2. CASE e # d /\ ok
    BY <2>2, <2>0, <1>3
  <2>3. CASE (e # d \/ ~telling) /\ ~ok
    <3>1. /\ told'[e] = told[e] /\ selected' = selected
          /\ rt'[e].infoIn \in {rt[e].infoIn, 0} /\ (e \in byHa => e \in byHa')
      BY <2>0, <2>3, <1>1, <1>2, <1>3, <1>6
    <3>. QED
      BY <3>1 DEF IInv, KnowsOrMayPull
  <2>. QED
    BY <1>2, <2>1, <2>2, <2>3
<1>9. GenuineIsOwn'
  BY <1>2, <1>3 DEF IInv, TypeOK, GenuineIsOwn
<1>10. FreeSlotsAreBlank'
  <2>. SUFFICES ASSUME NEW e \in Dial \ bonded
                PROVE  rt'[e].infoIn = 0 /\ rt'[e].cert # "ok"
    BY <1>2 DEF FreeSlotsAreBlank
  <2>1. p(e).infoIn = rt[e].infoIn
    BY <1>1, <1>2
  <2>. QED
    BY <2>1, <1>3 DEF IInv, FreeSlotsAreBlank
<1>. QED
  BY <1>7, <1>8, <1>9, <1>10 DEF IInv

LEMMA TickKeeps ==
    ASSUME ConstantsAssumption, IInv, Tick
    PROVE  IInv'
<1>1. UNCHANGED <<bonded, root, selected, told, byHa, presented>>
  BY DEF Tick
<1>2. \A d \in Dial : /\ rt'[d] \in Runtime /\ rt'[d].cert = rt[d].cert
                      /\ rt[d].infoIn = 0 => rt'[d].infoIn = 0
  <2>. SUFFICES ASSUME NEW d \in Dial
                PROVE  /\ rt'[d] \in Runtime /\ rt'[d].cert = rt[d].cert
                       /\ rt[d].infoIn = 0 => rt'[d].infoIn = 0
    OBVIOUS
  <2>1. rt[d] \in Runtime
    BY DEF IInv, TypeOK
  <2>2. rt'[d] = [rt[d] EXCEPT !.capsIn = Less(@), !.infoIn = Less(@)]
    BY DEF Tick
  <2>3. \A n \in 0..Throttle : Less(n) \in 0..Throttle /\ (n = 0 => Less(n) = 0)
    BY DEF ConstantsAssumption, Less
  <2>. QED
    BY <2>1, <2>2, <2>3 DEF Runtime
<1>3. rt' \in [Dial -> Runtime]
  BY <1>2 DEF Tick
<1>4. TypeOK'
  BY <1>1, <1>3 DEF IInv, TypeOK
<1>5. KnowsOrMayPull'
  BY <1>1, <1>2 DEF IInv, TypeOK, KnowsOrMayPull
<1>6. GenuineIsOwn'
  BY <1>1, <1>2 DEF IInv, TypeOK, GenuineIsOwn
<1>7. FreeSlotsAreBlank'
  BY <1>1, <1>2 DEF IInv, FreeSlotsAreBlank
<1>. QED
  BY <1>4, <1>5, <1>6, <1>7 DEF IInv

LEMMA BlankFacts ==
    ASSUME NEW s \in Source, ConstantsAssumption
    PROVE  Blank(s) \in Runtime /\ Blank(s).infoIn = 0 /\ Blank(s).cert = "none"
BY DEF Blank, Runtime, ConstantsAssumption

LEMMA ForgetKeeps ==
    ASSUME ConstantsAssumption, IInv, NEW d \in Dial, Forget(d)
    PROVE  IInv'
<1>. DEFINE b == Blank(rt[d].source)
<1>1. b \in Runtime /\ b.infoIn = 0 /\ b.cert = "none"
  <2>1. rt[d].source \in Source
    BY DEF IInv, TypeOK, Runtime
  <2>. QED
    BY <2>1, BlankFacts
<1>2. /\ bonded' = bonded \ {d} /\ rt' = [rt EXCEPT ![d] = b]
      /\ told' = [told EXCEPT ![d] = Unknown] /\ byHa' = byHa \ {d}
      /\ presented' = [presented EXCEPT ![d] = NoCert]
      /\ UNCHANGED <<root, selected>>
  BY DEF Forget
<1>. HIDE DEF b
<1>3. /\ rt' \in [Dial -> Runtime] /\ rt'[d] = b
      /\ told' \in [Dial -> Source \cup {Unknown}]
      /\ presented' \in [Dial -> Cert \cup {NoCert}]
      /\ \A e \in Dial : e # d => /\ rt'[e] = rt[e] /\ told'[e] = told[e]
                                  /\ presented'[e] = presented[e]
  BY <1>1, <1>2 DEF IInv, TypeOK
<1>4. TypeOK'
  BY <1>2, <1>3 DEF IInv, TypeOK
<1>5. KnowsOrMayPull' /\ GenuineIsOwn'
  BY <1>2, <1>3 DEF IInv, TypeOK, KnowsOrMayPull, GenuineIsOwn
<1>6. FreeSlotsAreBlank'
  BY <1>1, <1>2, <1>3 DEF IInv, FreeSlotsAreBlank
<1>. QED
  BY <1>4, <1>5, <1>6 DEF IInv

LEMMA RestKeeps ==
    ASSUME IInv, AdapterSelects \/ SetRoot \/ \E d \in Dial : Bond(d)
    PROVE  IInv'
<1>1. CASE AdapterSelects
  BY <1>1 DEF AdapterSelects, IInv, TypeOK, KnowsOrMayPull, GenuineIsOwn, FreeSlotsAreBlank
<1>2. CASE SetRoot
  BY <1>2 DEF SetRoot, IInv, TypeOK, KnowsOrMayPull, GenuineIsOwn, FreeSlotsAreBlank
<1>3. ASSUME NEW d \in Dial, Bond(d) PROVE IInv'
  BY <1>3 DEF Bond, IInv, TypeOK, KnowsOrMayPull, GenuineIsOwn, FreeSlotsAreBlank
<1>. QED
  BY <1>1, <1>2, <1>3

LEMMA InitKeeps == ASSUME ConstantsAssumption, Init PROVE IInv
<1>1. Blank(selected) \in Runtime /\ Blank(selected).infoIn = 0
      /\ Blank(selected).cert = "none"
  BY BlankFacts DEF Init
<1>. QED
  BY <1>1 DEF Init, IInv, TypeOK, KnowsOrMayPull, GenuineIsOwn, FreeSlotsAreBlank

LEMMA NextKeeps == ASSUME ConstantsAssumption, IInv, [Next]_vars PROVE IInv'
<1>1. CASE UNCHANGED vars
  BY <1>1 DEF vars, IInv, TypeOK, KnowsOrMayPull, GenuineIsOwn, FreeSlotsAreBlank
<1>2. ASSUME NEW d \in Dial,
             \/ Probe(d) \/ Forget(d)
             \/ \E what \in Asks : Ask(d, what)
             \/ \E c \in Certs : DialInfo(d, c)
             \/ \E ok \in BOOLEAN : Serve(d, ok)
      PROVE  IInv'
  BY <1>2, ProbeKeeps, ForgetKeeps, AskKeeps, DialInfoKeeps, ServeKeeps
<1>. QED
  BY <1>1, <1>2, TickKeeps, RestKeeps DEF Next

----------------------------------------------------------------------------
(* The state keeps its types. *)
THEOREM PullTypes == ASSUME ConstantsAssumption PROVE Spec => []TypeOK
<1>1. Init => IInv
  BY InitKeeps
<1>2. IInv /\ [Next]_vars => IInv'
  BY NextKeeps
<1>3. IInv => TypeOK
  BY DEF IInv
<1>. QED
  BY <1>1, <1>2, <1>3, PTL DEF Spec

(* No head's choice of a room source is kept from the others by the        *)
(* throttle: every bonded dial was last told the selected source, or may   *)
(* pull INFO at once, or Home Assistant chose since (serve_pulls,          *)
(* mark_other_info_pending).                                               *)
THEOREM ChoicesReachTheOthers ==
    ASSUME ConstantsAssumption
    PROVE  Spec => []KnowsOrMayPull
<1>1. Init => IInv
  BY InitKeeps
<1>2. IInv /\ [Next]_vars => IInv'
  BY NextKeeps
<1>3. IInv => KnowsOrMayPull
  BY DEF IInv
<1>. QED
  BY <1>1, <1>2, <1>3, PTL DEF Spec

(* A dial reads as genuine only on its own certificate, however            *)
(* certificates, bonds and a root follow one another (dial_cert_apply).    *)
THEOREM GenuineIsAlwaysOwn ==
    ASSUME ConstantsAssumption
    PROVE  Spec => []GenuineIsOwn
<1>1. Init => IInv
  BY InitKeeps
<1>2. IInv /\ [Next]_vars => IInv'
  BY NextKeeps
<1>3. IInv => GenuineIsOwn
  BY DEF IInv
<1>. QED
  BY <1>1, <1>2, <1>3, PTL DEF Spec
=============================================================================
