------------------------ MODULE PairHandshake_proofs ------------------------
(***************************************************************************)
(* The pairing handshake, for any dials, controllers, queues, windows and  *)
(* attempts, over air that may lose, repeat, delay and reorder: the two    *)
(* ends agree on the key.                                                  *)
(***************************************************************************)
EXTENDS PairHandshake, TLAPS

----------------------------------------------------------------------------
(* The inductive invariant. *)

(* The keys that a dial has derived or may yet hear of. *)
Offered == derived \cup {k \in Key : Resp(k) \in air}

Frame ==
    {Req(d, n) : d \in Dial, n \in 1..MaxAttempts}
    \cup {Resp(k) : k \in Key} \cup {Proof(k) : k \in Key}
    \cup {Ack(k) : k \in Key} \cup {Cmd(k) : k \in Key}

(* A frame is one that somebody had reason to send, when the dials, the    *)
(* derived keys and the committed ones are these.                          *)
Reason(f, dials, drv, com) ==
    \/ \E d \in Dial : \E n \in 1..dials[d].eph : f = Req(d, n)
    \/ \E k \in Key : f = Resp(k)
    \/ \E k \in drv : f = Proof(k)
    \/ \E k \in com : f \in {Ack(k), Cmd(k)}

Real(f) == Reason(f, dial, derived, committed)

FramesAreReal ==
    /\ queue \in [Ctrl -> Seq(Frame)]
    /\ \A f \in air : Real(f)
    /\ \A c \in Ctrl : \A i \in DOMAIN queue[c] :
         Real(queue[c][i]) /\ queue[c][i].type \in {"REQ", "CONFIRM", "CMD"}

(* A dial derives one key in an attempt. *)
AttemptsAreUsedOnce ==
    /\ \A k \in Offered : k.de <= dial[k.dial].eph
    /\ \A j, k \in derived : j.dial = k.dial /\ j.de = k.de => j = k
    /\ \A d \in Dial :
         /\ dial[d].state = "asking" =>
              /\ dial[d].eph > 0
              /\ \A k \in derived : k.dial = d => k.de < dial[d].eph
         /\ dial[d].state = "proving" =>
              /\ dial[d].key \in derived
              /\ dial[d].key.dial = d /\ dial[d].key.de = dial[d].eph

(* A window offers keys once it is open, and is over when one of them is   *)
(* committed.                                                              *)
WindowsAreUsedOnce ==
    /\ \A k \in Offered :
         /\ k.ce <= ctrl[k.ctrl].eph
         /\ ctrl[k.ctrl].pair = "window" => k.ce < ctrl[k.ctrl].eph
    /\ \A k \in committed :
         ctrl[k.ctrl].pair # "off" => k.ce < ctrl[k.ctrl].eph
    /\ \A c \in Ctrl :
         /\ ctrl[c].pair # "off" => ctrl[c].eph > 0
         /\ ctrl[c].pair = "confirm" =>
              /\ ctrl[c].cand \in Key
              /\ ctrl[c].cand.ctrl = c /\ ctrl[c].cand.ce = ctrl[c].eph

(* A controller answers a later attempt of a dial in no earlier a window.  *)
InOrder ==
    \A j \in derived, k \in Offered :
        j.dial = k.dial /\ j.ctrl = k.ctrl /\ j.de < k.de => j.ce <= k.ce

(* What either end has as a bond was committed. *)
BondsAreCommitted ==
    /\ committed \subseteq derived
    /\ \A c \in Ctrl, d \in Dial :
         /\ ctrl[c].bond[d] # None =>
              /\ ctrl[c].bond[d] \in committed
              /\ ctrl[c].bond[d].dial = d /\ ctrl[c].bond[d].ctrl = c
         /\ dial[d].bond[c] # None => dial[d].bond[c] \in committed

RadioFollows ==
    \A c \in Ctrl, d \in Dial :
        ctrl[c].peer[d] = IF ctrl[c].pair = "confirm" /\ ctrl[c].cand.dial = d
                          THEN ctrl[c].cand ELSE ctrl[c].bond[d]

(* A candidate whose key was derived is being proved, unless its dial gave *)
(* up on it.                                                               *)
CandidateIsAwaited ==
    \A c \in Ctrl :
        ctrl[c].pair = "confirm" /\ ctrl[c].cand \in derived =>
          LET k == ctrl[c].cand IN
          \/ dial[k.dial].state = "proving" /\ dial[k.dial].key = k
          \/ <<c, k.dial>> \in parted

(* A key that was committed while its dial is still proving it is the      *)
(* bond, unless it was forgotten.                                          *)
ProvenIsBond ==
    \A d \in Dial :
        dial[d].state = "proving" /\ dial[d].key \in committed =>
          LET k == dial[d].key IN
          \/ ctrl[k.ctrl].bond[d] = k
          \/ <<k.ctrl, d>> \in parted

(* The ends that were not parted differ only while the controller has      *)
(* committed a key and the dial has yet to hear of it.                     *)
EndsMeet ==
    \A c \in Ctrl, d \in Dial :
        \/ <<c, d>> \in parted
        \/ dial[d].bond[c] = ctrl[c].bond[d]
        \/ /\ dial[d].state = "proving" /\ dial[d].key.ctrl = c
           /\ ctrl[c].bond[d] = dial[d].key

Agreement ==
    /\ AttemptsAreUsedOnce /\ WindowsAreUsedOnce /\ InOrder /\ BondsAreCommitted
    /\ RadioFollows /\ CandidateIsAwaited /\ ProvenIsBond /\ EndsMeet

IInv == TypeOK /\ FramesAreReal /\ Agreement

----------------------------------------------------------------------------
(* Frames. *)

LEMMA FrameFields ==
    ASSUME NEW d, NEW n, NEW k
    PROVE  /\ Req(d, n).type = "REQ" /\ Req(d, n).dial = d /\ Req(d, n).of = n
           /\ Resp(k).type = "RESP" /\ Resp(k).of = k /\ Resp(k).dial = k.dial
           /\ Proof(k).type = "CONFIRM" /\ Proof(k).of = k /\ Proof(k).dial = k.dial
           /\ Ack(k).type = "ACK" /\ Ack(k).of = k
           /\ Cmd(k).type = "CMD"
BY DEF Req, Resp, Proof, Ack, Cmd

LEMMA RealFrames ==
    ASSUME NEW f, Real(f)
    PROVE  /\ f.type = "REQ" => \E d \in Dial : \E n \in 1..dial[d].eph : f = Req(d, n)
           /\ f.type = "RESP" => f.of \in Key /\ f = Resp(f.of)
           /\ f.type = "CONFIRM" => /\ f.of \in derived /\ f = Proof(f.of)
                                    /\ f.dial = f.of.dial
           /\ f.type = "ACK" => f.of \in committed
<1>1. CASE \E d \in Dial : \E n \in 1..dial[d].eph : f = Req(d, n)
  <2>1. PICK d \in Dial : \E n \in 1..dial[d].eph : f = Req(d, n)
    BY <1>1
  <2>2. PICK n \in 1..dial[d].eph : f = Req(d, n)
    BY <2>1
  <2>3. f.type = "REQ"
    BY <2>2, FrameFields
  <2>. QED
    BY <1>1, <2>3
<1>2. CASE \E k \in Key : f = Resp(k)
  <2>1. PICK k \in Key : f = Resp(k)
    BY <1>2
  <2>2. f.type = "RESP" /\ f.of = k
    BY <2>1, FrameFields
  <2>. QED
    BY <2>1, <2>2
<1>3. CASE \E k \in derived : f = Proof(k)
  <2>1. PICK k \in derived : f = Proof(k)
    BY <1>3
  <2>2. f.type = "CONFIRM" /\ f.of = k /\ f.dial = k.dial
    BY <2>1, FrameFields
  <2>. QED
    BY <2>1, <2>2
<1>4. CASE \E k \in committed : f \in {Ack(k), Cmd(k)}
  <2>1. PICK k \in committed : f = Ack(k) \/ f = Cmd(k)
    BY <1>4
  <2>2. /\ Ack(k).type = "ACK" /\ Ack(k).of = k
        /\ Cmd(k).type = "CMD"
    BY FrameFields
  <2>. QED
    BY <2>1, <2>2
<1>. QED
  BY <1>1, <1>2, <1>3, <1>4 DEF Real, Reason

(* What was real stays real. *)
LEMMA RealStays ==
    ASSUME \A d \in Dial : dial[d].eph \in Nat /\ dial'[d].eph \in Nat
                           /\ dial[d].eph <= dial'[d].eph,
           derived \subseteq derived', committed \subseteq committed'
    PROVE  \A f \in Frame : Real(f) => Reason(f, dial', derived', committed')
<1>. SUFFICES ASSUME NEW f, Reason(f, dial, derived, committed)
              PROVE  Reason(f, dial', derived', committed')
  BY DEF Real
<1>1. CASE \E d \in Dial : \E n \in 1..dial[d].eph : f = Req(d, n)
  <2>0. PICK d \in Dial : \E n \in 1..dial[d].eph : f = Req(d, n)
    BY <1>1
  <2>1. PICK n \in 1..dial[d].eph : f = Req(d, n)
    BY <2>0
  <2>2. n \in 1..dial'[d].eph
    OBVIOUS
  <2>. QED
    BY <2>1, <2>2 DEF Reason
<1>. QED
  BY <1>1 DEF Reason

----------------------------------------------------------------------------
(* What a step does to a controller: its state, its window, its candidate, *)
(* its bonds, and a radio that follows.                                    *)
Becomes(c, p, e, k, b) ==
    /\ ctrl' \in [Ctrl -> Controller]
    /\ \A x \in Ctrl : x # c => ctrl'[x] = ctrl[x]
    /\ ctrl'[c].pair = p /\ ctrl'[c].eph = e /\ ctrl'[c].bond = b
    /\ p = "confirm" => ctrl'[c].cand = k
    /\ \A d \in Dial : ctrl'[c].peer[d] = IF p = "confirm" /\ k.dial = d
                                          THEN k ELSE b[d]

(* ... and to a dial. *)
Turns(d, s, e, k, b) ==
    /\ dial' \in [Dial -> ADial]
    /\ \A x \in Dial : x # d => dial'[x] = dial[x]
    /\ dial'[d].state = s /\ dial'[d].eph = e /\ dial'[d].key = k
    /\ dial'[d].bond = b

LEMMA CtrlFields ==
    ASSUME TypeOK, NEW c \in Ctrl
    PROVE  /\ ctrl[c] \in Controller
           /\ ctrl[c].pair \in {"off", "window", "confirm"}
           /\ ctrl[c].eph \in 0..MaxWindows
           /\ ctrl[c].cand \in Key \cup {None}
           /\ ctrl[c].bond \in [Dial -> Key \cup {None}]
           /\ ctrl[c].peer \in [Dial -> Key \cup {None}]
BY DEF TypeOK, Controller

LEMMA DialFields ==
    ASSUME TypeOK, NEW d \in Dial
    PROVE  /\ dial[d] \in ADial
           /\ dial[d].state \in {"idle", "asking", "proving"}
           /\ dial[d].eph \in 0..MaxAttempts
           /\ dial[d].key \in Key \cup {None}
           /\ dial[d].bond \in [Ctrl -> Key \cup {None}]
BY DEF TypeOK, ADial

LEMMA BecomesFields ==
    ASSUME TypeOK, NEW c \in Ctrl, NEW y \in Controller, ctrl' = [ctrl EXCEPT ![c] = y],
           NEW k, y.pair = "confirm" => y.cand = k,
           \A d \in Dial : y.peer[d] = IF y.pair = "confirm" /\ k.dial = d
                                       THEN k ELSE y.bond[d]
    PROVE  Becomes(c, y.pair, y.eph, k, y.bond)
<1>1. ctrl' \in [Ctrl -> Controller] /\ ctrl'[c] = y
      /\ \A z \in Ctrl : z # c => ctrl'[z] = ctrl[z]
  BY DEF TypeOK
<1>. QED
  BY <1>1 DEF Becomes

LEMMA PairStartEffect ==
    ASSUME ConstantsAssumption, IInv, NEW c \in Ctrl, PairStart(c)
    PROVE  Becomes(c, "window", ctrl[c].eph + 1, None, ctrl[c].bond)
<1>. DEFINE x == ctrl[c]
            y == [x EXCEPT !.pair = "window", !.eph = x.eph + 1]
<1>1. /\ TypeOK /\ x \in Controller /\ MaxWindows \in Nat /\ x.eph \in 0..MaxWindows
      /\ x.pair = "off" /\ x.eph < MaxWindows
  BY CtrlFields DEF IInv, Agreement, ConstantsAssumption, PairStart
<1>2. x.eph + 1 \in 0..MaxWindows
  BY <1>1
<1>3. /\ y \in Controller /\ y.pair = "window" /\ y.eph = x.eph + 1
      /\ y.bond = x.bond /\ y.peer = x.peer
  BY <1>1, <1>2 DEF Controller
<1>4. ctrl' = [ctrl EXCEPT ![c] = y]
  BY DEF PairStart
<1>5. \A d \in Dial : x.peer[d] = x.bond[d]
  BY <1>1 DEF IInv, Agreement, RadioFollows
<1>. HIDE DEF y
<1>6. Becomes(c, y.pair, y.eph, None, y.bond)
  BY <1>1, <1>3, <1>4, <1>5, BecomesFields
<1>. QED
  BY <1>3, <1>6

(* pair_cleanup_candidate gives the radio the old bond back. *)
LEMMA CleanedFields ==
    ASSUME NEW x \in Controller, x.cand \in Key,
           \A d \in Dial : d # x.cand.dial => x.peer[d] = x.bond[d],
           NEW y, y = [Cleaned(x) EXCEPT !.pair = "off"]
    PROVE  /\ y \in Controller /\ y.pair = "off" /\ y.eph = x.eph /\ y.bond = x.bond
           /\ \A d \in Dial : y.peer[d] = x.bond[d]
<1>. DEFINE q == [x.peer EXCEPT ![x.cand.dial] = x.bond[x.cand.dial]]
<1>1. x.cand.dial \in Dial
  BY DEF Key
<1>2. q \in [Dial -> Key \cup {None}] /\ \A d \in Dial : q[d] = x.bond[d]
  BY <1>1 DEF Controller
<1>3. y = [x EXCEPT !.cand = None, !.peer = q, !.pair = "off"]
  BY DEF Cleaned, Controller
<1>. HIDE DEF q
<1>. QED
  BY <1>2, <1>3 DEF Controller

(* Cancel, a deadline or a refused save. *)
LEMMA ClosingEffect ==
    ASSUME ConstantsAssumption, IInv, NEW c \in Ctrl,
           ctrl' = [ctrl EXCEPT ![c] =
                      [IF ctrl[c].pair = "confirm" THEN Cleaned(ctrl[c]) ELSE ctrl[c]
                         EXCEPT !.pair = "off"]]
    PROVE  Becomes(c, "off", ctrl[c].eph, None, ctrl[c].bond)
<1>. DEFINE x == ctrl[c]
            y == [IF x.pair = "confirm" THEN Cleaned(x) ELSE x EXCEPT !.pair = "off"]
<1>1. TypeOK /\ x \in Controller
  BY CtrlFields DEF IInv, Agreement
<1>2. /\ y \in Controller /\ y.pair = "off" /\ y.eph = x.eph /\ y.bond = x.bond
      /\ \A d \in Dial : y.peer[d] = x.bond[d]
  <2>1. CASE x.pair = "confirm"
    <3>1. x.cand \in Key
      BY <2>1 DEF IInv, Agreement, WindowsAreUsedOnce
    <3>2. \A d \in Dial : d # x.cand.dial => x.peer[d] = x.bond[d]
      BY <2>1 DEF IInv, Agreement, RadioFollows
    <3>3. y = [Cleaned(x) EXCEPT !.pair = "off"]
      BY <2>1
    <3>. HIDE DEF x, y
    <3>. QED
      BY <1>1, <3>1, <3>2, <3>3, CleanedFields
  <2>2. CASE x.pair # "confirm"
    <3>1. \A d \in Dial : x.peer[d] = x.bond[d]
      BY <2>2 DEF IInv, Agreement, RadioFollows
    <3>2. y = [x EXCEPT !.pair = "off"]
      BY <2>2
    <3>. HIDE DEF x, y
    <3>. QED
      BY <1>1, <3>1, <3>2 DEF Controller
  <2>. QED
    BY <2>1, <2>2
<1>3. ctrl' = [ctrl EXCEPT ![c] = y]
  OBVIOUS
<1>. HIDE DEF y
<1>4. Becomes(c, y.pair, y.eph, None, y.bond)
  BY <1>1, <1>2, <1>3, BecomesFields
<1>. QED
  BY <1>2, <1>4

LEMMA AdmittedEffect ==
    ASSUME ConstantsAssumption, IInv, NEW c \in Ctrl, NEW k \in Key,
           ctrl[c].pair # "confirm",
           ctrl' = [ctrl EXCEPT ![c].pair = "confirm", ![c].cand = k,
                                ![c].peer[k.dial] = k]
    PROVE  Becomes(c, "confirm", ctrl[c].eph, k, ctrl[c].bond)
<1>. DEFINE x == ctrl[c]
            q == [x.peer EXCEPT ![k.dial] = k]
            y == [x EXCEPT !.pair = "confirm", !.cand = k, !.peer = q]
<1>1. ctrl \in [Ctrl -> Controller] /\ x \in Controller /\ k.dial \in Dial /\ TypeOK
  BY CtrlFields DEF IInv, Agreement, TypeOK, Key
<1>2. ctrl' = [ctrl EXCEPT ![c] = y]
  BY <1>1 DEF Controller
<1>3. \A d \in Dial : x.peer[d] = x.bond[d]
  BY DEF IInv, Agreement, RadioFollows
<1>4. /\ q \in [Dial -> Key \cup {None}]
      /\ \A d \in Dial : q[d] = IF k.dial = d THEN k ELSE x.bond[d]
  BY <1>1, <1>3 DEF Controller
<1>. HIDE DEF q
<1>5. /\ y \in Controller /\ y.pair = "confirm" /\ y.cand = k /\ y.eph = x.eph
      /\ y.bond = x.bond /\ y.peer = q
  BY <1>1, <1>4 DEF Controller
<1>. HIDE DEF y
<1>6. \A d \in Dial : y.peer[d] = IF y.pair = "confirm" /\ k.dial = d
                                    THEN k ELSE y.bond[d]
  BY <1>4, <1>5
<1>7. Becomes(c, y.pair, y.eph, k, y.bond)
  BY <1>1, <1>2, <1>5, <1>6, BecomesFields
<1>. QED
  BY <1>5, <1>7

LEMMA CommittedEffect ==
    ASSUME ConstantsAssumption, IInv, NEW c \in Ctrl, ctrl[c].pair = "confirm",
           ctrl' = [ctrl EXCEPT ![c].bond[ctrl[c].cand.dial] = ctrl[c].cand,
                                ![c].cand = None, ![c].pair = "off"]
    PROVE  Becomes(c, "off", ctrl[c].eph, None,
                   [ctrl[c].bond EXCEPT ![ctrl[c].cand.dial] = ctrl[c].cand])
<1>. DEFINE x == ctrl[c]
            k == x.cand
            b == [x.bond EXCEPT ![k.dial] = k]
            y == [x EXCEPT !.bond = b, !.cand = None, !.pair = "off"]
<1>1. /\ ctrl \in [Ctrl -> Controller] /\ x \in Controller
      /\ k \in Key /\ k.dial \in Dial /\ TypeOK
  BY CtrlFields DEF IInv, Agreement, TypeOK, Key, WindowsAreUsedOnce
<1>2. ctrl' = [ctrl EXCEPT ![c] = y]
  BY <1>1 DEF Controller
<1>3. \A d \in Dial : x.peer[d] = IF k.dial = d THEN k ELSE x.bond[d]
  BY DEF IInv, Agreement, RadioFollows
<1>4. /\ b \in [Dial -> Key \cup {None}]
      /\ \A d \in Dial : x.peer[d] = b[d]
  BY <1>1, <1>3 DEF Controller
<1>. HIDE DEF b
<1>5. /\ y \in Controller /\ y.pair = "off" /\ y.eph = x.eph
      /\ y.bond = b /\ y.peer = x.peer
  BY <1>1, <1>4 DEF Controller
<1>. HIDE DEF y
<1>6. \A d \in Dial : y.peer[d] = IF y.pair = "confirm" /\ None.dial = d
                                    THEN None ELSE y.bond[d]
  BY <1>4, <1>5
<1>7. Becomes(c, y.pair, y.eph, None, y.bond)
  BY <1>1, <1>2, <1>5, <1>6, BecomesFields
<1>. QED
  BY <1>5, <1>7 DEF b

LEMMA ForgetEffect ==
    ASSUME ConstantsAssumption, IInv, NEW c \in Ctrl, NEW d \in Dial, Forget(c, d)
    PROVE  \E p \in {ctrl[c].pair, "off"} :
             /\ p = "confirm" => ctrl[c].cand.dial # d
             /\ Becomes(c, p, ctrl[c].eph, ctrl[c].cand,
                        [ctrl[c].bond EXCEPT ![d] = None])
<1>. DEFINE x == ctrl[c]
            b == [x.bond EXCEPT ![d] = None]
            q == [x.peer EXCEPT ![d] = None]
            kept == [x EXCEPT !.bond = b, !.peer = q]
            mine == x.pair = "confirm" /\ x.cand.dial = d
            y == IF mine THEN [Cleaned(kept) EXCEPT !.pair = "off"] ELSE kept
<1>1. /\ TypeOK /\ ctrl \in [Ctrl -> Controller] /\ x \in Controller
      /\ x.pair = "confirm" => x.cand \in Key
  BY CtrlFields DEF IInv, Agreement, WindowsAreUsedOnce, TypeOK
<1>2. kept = [x EXCEPT !.bond[d] = None, !.peer[d] = None]
  BY <1>1 DEF Controller
<1>. HIDE DEF kept
<1>3. ctrl' = [ctrl EXCEPT ![c] = y]
  BY <1>2 DEF Forget
<1>. USE DEF kept
<1>4. \A e \in Dial : x.peer[e] = IF x.pair = "confirm" /\ x.cand.dial = e
                                  THEN x.cand ELSE x.bond[e]
  BY DEF IInv, Agreement, RadioFollows
<1>5. /\ b \in [Dial -> Key \cup {None}] /\ q \in [Dial -> Key \cup {None}]
      /\ b[d] = None /\ q[d] = None
      /\ \A e \in Dial : e # d => b[e] = x.bond[e] /\ q[e] = x.peer[e]
  BY <1>1 DEF Controller
<1>. HIDE DEF b, q
<1>6. /\ kept \in Controller /\ kept.pair = x.pair /\ kept.eph = x.eph
      /\ kept.cand = x.cand /\ kept.bond = b /\ kept.peer = q
  BY <1>1, <1>5 DEF Controller
<1>. HIDE DEF kept
<1>7. CASE mine
  <2>1. \A e \in Dial : e # kept.cand.dial => kept.peer[e] = kept.bond[e]
    BY <1>4, <1>5, <1>6, <1>7
  <2>2. y = [Cleaned(kept) EXCEPT !.pair = "off"]
    BY <1>7
  <2>3. kept.cand \in Key /\ kept \in Controller
    BY <1>1, <1>6, <1>7
  <2>. HIDE DEF y, x, mine
  <2>4. /\ y \in Controller /\ y.pair = "off" /\ y.eph = kept.eph
        /\ y.bond = kept.bond /\ \A e \in Dial : y.peer[e] = kept.bond[e]
    BY ONLY <2>1, <2>2, <2>3, CleanedFields
  <2>5. Becomes(c, y.pair, y.eph, x.cand, y.bond)
    BY <1>1, <1>3, <2>4, BecomesFields
  <2>. QED
    BY <1>6, <2>4, <2>5 DEF b, x
<1>8. CASE ~mine
  <2>1. y = kept
    BY <1>8
  <2>. HIDE DEF y
  <2>2. \A e \in Dial : kept.peer[e] = IF x.pair = "confirm" /\ x.cand.dial = e
                                       THEN x.cand ELSE kept.bond[e]
    BY <1>4, <1>5, <1>6, <1>8
  <2>3. Becomes(c, kept.pair, kept.eph, x.cand, kept.bond)
    BY <1>1, <1>3, <1>6, <2>1, <2>2, BecomesFields
  <2>. QED
    BY <1>6, <1>8, <2>3 DEF b
<1>. QED
  BY <1>7, <1>8

----------------------------------------------------------------------------
(* Each kind of step keeps the two ends in agreement. *)

LEMMA KeyFacts ==
    ASSUME ConstantsAssumption, IInv
    PROVE  /\ committed \subseteq derived /\ derived \subseteq Offered /\ Offered \subseteq Key
           /\ \A k \in Key : /\ k.dial \in Dial /\ k.ctrl \in Ctrl
                            /\ k.de \in Int /\ k.ce \in Int
           /\ \A c \in Ctrl : ctrl[c].eph \in Nat
           /\ \A d \in Dial : dial[d].eph \in Nat
<1>1. TypeOK /\ BondsAreCommitted
  BY DEF IInv, Agreement
<1>2. \A k \in Key : /\ k.dial \in Dial /\ k.ctrl \in Ctrl
                    /\ k.de \in Int /\ k.ce \in Int
  BY DEF Key
<1>3. derived \subseteq Key
  BY <1>1 DEF TypeOK
<1>4. derived \subseteq Offered /\ Offered \subseteq Key
  BY <1>3 DEF Offered
<1>5. \A c \in Ctrl : ctrl[c].eph \in Nat
  BY <1>1, CtrlFields DEF ConstantsAssumption
<1>6. \A d \in Dial : dial[d].eph \in Nat
  <2>. SUFFICES ASSUME NEW d \in Dial PROVE dial[d].eph \in Nat
    OBVIOUS
  <2>1. dial[d].eph \in 0..MaxAttempts /\ MaxAttempts \in Nat
    BY <1>1, DialFields DEF ConstantsAssumption
  <2>. QED
    BY <2>1
<1>. QED
  BY <1>1, <1>2, <1>4, <1>5, <1>6 DEF BondsAreCommitted

(* What does not touch a bond leaves the ends as they are. *)
LEMMA BondsStay ==
    ASSUME EndsMeet, \A x \in Ctrl : ctrl'[x].bond = ctrl[x].bond,
           UNCHANGED <<dial, parted>>
    PROVE  EndsMeet'
<1>. SUFFICES ASSUME NEW x \in Ctrl, NEW e \in Dial
              PROVE  \/ <<x, e>> \in parted
                     \/ dial[e].bond[x] = ctrl'[x].bond[e]
                     \/ /\ dial[e].state = "proving" /\ dial[e].key.ctrl = x
                        /\ ctrl'[x].bond[e] = dial[e].key
  BY DEF EndsMeet
<1>1. ctrl'[x].bond = ctrl[x].bond
  OBVIOUS
<1>. QED
  BY <1>1 DEF EndsMeet

(* Frames come and go. *)
LEMMA QuietAgrees ==
    ASSUME ConstantsAssumption, IInv, UNCHANGED <<ctrl, dial, committed, derived, parted>>,
           Offered' \subseteq Offered
    PROVE  Agreement'
<1>1. AttemptsAreUsedOnce'
  BY DEF IInv, Agreement, AttemptsAreUsedOnce
<1>2. WindowsAreUsedOnce'
  BY DEF IInv, Agreement, WindowsAreUsedOnce
<1>3. InOrder'
  BY DEF IInv, Agreement, InOrder
<1>4. BondsAreCommitted' /\ RadioFollows'
  BY DEF IInv, Agreement, BondsAreCommitted, RadioFollows
<1>5. CandidateIsAwaited' /\ ProvenIsBond' /\ EndsMeet'
  BY DEF IInv, Agreement, CandidateIsAwaited, ProvenIsBond, EndsMeet
<1>. QED
  BY <1>1, <1>2, <1>3, <1>4, <1>5 DEF Agreement

(* A window opens. *)
LEMMA OpeningAgrees ==
    ASSUME ConstantsAssumption, IInv, NEW c \in Ctrl,
           Becomes(c, "window", ctrl[c].eph + 1, None, ctrl[c].bond),
           UNCHANGED <<dial, committed, derived, parted>>, Offered' \subseteq Offered
    PROVE  Agreement'
<1>0. /\ \A k \in Offered : /\ k \in Key /\ k.ctrl \in Ctrl /\ k.ce \in Int
                           /\ k.ce <= ctrl[k.ctrl].eph
      /\ committed \subseteq Offered
      /\ \A x \in Ctrl : ctrl[x].eph \in Nat
  BY KeyFacts DEF IInv, Agreement, WindowsAreUsedOnce
<1>1. AttemptsAreUsedOnce'
  BY DEF IInv, Agreement, AttemptsAreUsedOnce
<1>2. WindowsAreUsedOnce'
  BY <1>0 DEF IInv, Agreement, WindowsAreUsedOnce, Becomes
<1>3. InOrder'
  BY DEF IInv, Agreement, InOrder
<1>4. BondsAreCommitted'
  BY DEF IInv, Agreement, BondsAreCommitted, Becomes
<1>5. RadioFollows'
  BY DEF IInv, Agreement, RadioFollows, Becomes
<1>6. CandidateIsAwaited'
  BY DEF IInv, Agreement, CandidateIsAwaited, Becomes
<1>7. ProvenIsBond'
  BY KeyFacts DEF IInv, Agreement, ProvenIsBond, Becomes
<1>8. EndsMeet'
  BY BondsStay DEF IInv, Agreement, Becomes
<1>. QED
  BY <1>1, <1>2, <1>3, <1>4, <1>5, <1>6, <1>7, <1>8 DEF Agreement

(* A window closes, and no bond is changed. *)
LEMMA ClosingAgrees ==
    ASSUME ConstantsAssumption, IInv, NEW c \in Ctrl, Becomes(c, "off", ctrl[c].eph, None, ctrl[c].bond),
           UNCHANGED <<dial, committed, derived, parted>>, Offered' \subseteq Offered
    PROVE  Agreement'
<1>1. AttemptsAreUsedOnce'
  BY DEF IInv, Agreement, AttemptsAreUsedOnce
<1>2. WindowsAreUsedOnce'
  BY KeyFacts DEF IInv, Agreement, WindowsAreUsedOnce, Becomes
<1>3. InOrder'
  BY DEF IInv, Agreement, InOrder
<1>4. BondsAreCommitted'
  BY DEF IInv, Agreement, BondsAreCommitted, Becomes
<1>5. RadioFollows'
  BY DEF IInv, Agreement, RadioFollows, Becomes
<1>6. CandidateIsAwaited'
  BY DEF IInv, Agreement, CandidateIsAwaited, Becomes
<1>7. ProvenIsBond'
  BY KeyFacts DEF IInv, Agreement, ProvenIsBond, Becomes
<1>8. EndsMeet'
  BY BondsStay DEF IInv, Agreement, Becomes
<1>. QED
  BY <1>1, <1>2, <1>3, <1>4, <1>5, <1>6, <1>7, <1>8 DEF Agreement

(* A request is answered: the key is new, or the candidate's once more. *)
LEMMA OfferAgrees ==
    ASSUME ConstantsAssumption, IInv, NEW c \in Ctrl, NEW k \in Key, k.ctrl = c, k.ce = ctrl[c].eph,
           k.de <= dial[k.dial].eph,
           \/ /\ ctrl[c].pair = "window"
              /\ Becomes(c, "confirm", ctrl[c].eph, k, ctrl[c].bond)
           \/ UNCHANGED ctrl /\ ctrl[c].pair = "confirm",
           UNCHANGED <<dial, committed, derived, parted>>,
           Offered' \subseteq Offered \cup {k}
    PROVE  Agreement'
<1>0. \A x \in Ctrl : x # c => ctrl'[x] = ctrl[x]
  BY DEF Becomes
<1>a. ctrl'[c].pair = "confirm" /\ ctrl[c].pair # "off"
      /\ ctrl'[c].eph = ctrl[c].eph
  BY DEF Becomes
<1>b. \A x \in Ctrl : ctrl'[x].bond = ctrl[x].bond
  BY DEF Becomes
<1>1. AttemptsAreUsedOnce'
  BY DEF IInv, Agreement, AttemptsAreUsedOnce
<1>2. WindowsAreUsedOnce'
  <2>1. \A x \in Key : x.ctrl # c => ctrl'[x.ctrl] = ctrl[x.ctrl]
    BY <1>0, KeyFacts
  <2>2. \A x \in Offered' : x.ce <= ctrl'[x.ctrl].eph
                          /\ (ctrl'[x.ctrl].pair = "window" => x.ce < ctrl'[x.ctrl].eph)
    BY <1>a, <2>1, KeyFacts DEF IInv, Agreement, WindowsAreUsedOnce
  <2>3. \A x \in committed' : ctrl'[x.ctrl].pair # "off" => x.ce < ctrl'[x.ctrl].eph
    BY <1>a, <2>1, KeyFacts DEF IInv, Agreement, WindowsAreUsedOnce
  <2>4. \A x \in Ctrl :
          /\ ctrl'[x].pair # "off" => ctrl'[x].eph > 0
          /\ ctrl'[x].pair = "confirm" =>
               /\ ctrl'[x].cand \in Key
               /\ ctrl'[x].cand.ctrl = x /\ ctrl'[x].cand.ce = ctrl'[x].eph
    BY <1>0, <1>a DEF IInv, Agreement, WindowsAreUsedOnce, Becomes
  <2>. QED
    BY <2>2, <2>3, <2>4 DEF WindowsAreUsedOnce
<1>3. InOrder'
  BY KeyFacts DEF IInv, Agreement, InOrder, WindowsAreUsedOnce
<1>4. BondsAreCommitted'
  BY <1>b DEF IInv, Agreement, BondsAreCommitted
<1>5. RadioFollows'
  BY DEF IInv, Agreement, RadioFollows, Becomes
<1>6. CandidateIsAwaited'
  <2>1. CASE ctrl[c].pair = "window" /\ Becomes(c, "confirm", ctrl[c].eph, k, ctrl[c].bond)
    <3>1. k \notin derived
      BY <2>1, KeyFacts DEF IInv, Agreement, WindowsAreUsedOnce
    <3>2. ctrl'[c].cand = k
      BY <2>1 DEF Becomes
    <3>3. \A x \in Ctrl : x # c => ctrl'[x] = ctrl[x]
      BY <2>1 DEF Becomes
    <3>. QED
      BY <3>1, <3>2, <3>3 DEF IInv, Agreement, CandidateIsAwaited
  <2>2. CASE UNCHANGED ctrl
    BY <2>2 DEF IInv, Agreement, CandidateIsAwaited
  <2>. QED
    BY <2>1, <2>2
<1>7. ProvenIsBond'
  BY <1>b, KeyFacts DEF IInv, Agreement, ProvenIsBond, AttemptsAreUsedOnce
<1>8. EndsMeet'
  BY <1>b, BondsStay DEF IInv, Agreement
<1>. QED
  BY <1>1, <1>2, <1>3, <1>4, <1>5, <1>6, <1>7, <1>8 DEF Agreement

(* The candidate's key becomes the bond.  Its dial is proving it still,    *)
(* or has given up on it: so no other key that the dial is proving was the *)
(* bond that is replaced.                                                  *)
LEMMA CommitAgrees ==
    ASSUME ConstantsAssumption, IInv, NEW c \in Ctrl, NEW k \in derived,
           ctrl[c].pair = "confirm", ctrl[c].cand = k,
           Becomes(c, "off", ctrl[c].eph, None, [ctrl[c].bond EXCEPT ![k.dial] = k]),
           committed' = committed \cup {k},
           UNCHANGED <<dial, derived, parted>>, Offered' \subseteq Offered
    PROVE  Agreement'
<1>. DEFINE d == k.dial
<1>0. /\ d \in Dial /\ k.ctrl = c /\ k \in Key
      /\ \/ dial[d].state = "proving" /\ dial[d].key = k
         \/ <<c, d>> \in parted
  BY KeyFacts DEF IInv, Agreement, WindowsAreUsedOnce, CandidateIsAwaited
<1>a. /\ ctrl'[c].bond[d] = k
      /\ \A x \in Ctrl, e \in Dial : ctrl'[x].bond[e] = ctrl[x].bond[e] \/ (x = c /\ e = d)
      /\ ctrl'[c].pair = "off" /\ ctrl'[c].eph = ctrl[c].eph
      /\ \A x \in Ctrl : x # c => ctrl'[x] = ctrl[x]
  BY <1>0, CtrlFields DEF Becomes, IInv
<1>1. AttemptsAreUsedOnce'
  BY DEF IInv, Agreement, AttemptsAreUsedOnce
<1>2. WindowsAreUsedOnce'
  BY <1>0, <1>a, KeyFacts DEF IInv, Agreement, WindowsAreUsedOnce
<1>3. InOrder'
  BY DEF IInv, Agreement, InOrder
<1>4. BondsAreCommitted'
  BY <1>0, <1>a DEF IInv, Agreement, BondsAreCommitted
<1>5. RadioFollows'
  <2>1. \A e \in Dial : ctrl'[c].peer[e] = ctrl'[c].bond[e]
    BY DEF Becomes
  <2>. QED
    BY <1>a, <2>1 DEF IInv, Agreement, RadioFollows
<1>6. CandidateIsAwaited'
  BY <1>a DEF IInv, Agreement, CandidateIsAwaited
<1>7. ProvenIsBond'
  <2>. SUFFICES ASSUME NEW e \in Dial, dial[e].state = "proving",
                       dial[e].key \in committed \cup {k}
                PROVE  \/ ctrl'[dial[e].key.ctrl].bond[e] = dial[e].key
                       \/ <<dial[e].key.ctrl, e>> \in parted
    BY DEF ProvenIsBond
  <2>1. dial[e].key \in Key /\ dial[e].key.dial = e /\ dial[e].key.ctrl \in Ctrl
    BY KeyFacts DEF IInv, Agreement, AttemptsAreUsedOnce
  <2>2. CASE dial[e].key = k
    BY <1>0, <1>a, <2>1, <2>2
  <2>3. CASE dial[e].key # k /\ ~(e = d /\ dial[e].key.ctrl = c)
    BY <1>a, <2>1, <2>3 DEF IInv, Agreement, ProvenIsBond
  <2>4. CASE dial[e].key # k /\ e = d /\ dial[e].key.ctrl = c
    BY <1>0, <2>4
  <2>. QED
    BY <2>2, <2>3, <2>4
<1>8. EndsMeet'
  <2>. SUFFICES ASSUME NEW x \in Ctrl, NEW e \in Dial, <<x, e>> \notin parted,
                       dial[e].bond[x] # ctrl'[x].bond[e]
                PROVE  /\ dial[e].state = "proving" /\ dial[e].key.ctrl = x
                       /\ ctrl'[x].bond[e] = dial[e].key
    BY DEF EndsMeet
  <2>1. CASE x = c /\ e = d
    BY <1>0, <1>a, <2>1
  <2>2. CASE ~(x = c /\ e = d)
    <3>1. ctrl'[x].bond[e] = ctrl[x].bond[e]
      BY <1>a, <2>2
    <3>. QED
      BY <3>1 DEF IInv, Agreement, EndsMeet
  <2>. QED
    BY <2>1, <2>2
<1>. QED
  BY <1>1, <1>2, <1>3, <1>4, <1>5, <1>6, <1>7, <1>8 DEF Agreement

(* A bond is forgotten, and a handshake with that dial with it. *)
LEMMA ForgetAgrees ==
    ASSUME ConstantsAssumption, IInv, NEW c \in Ctrl, NEW d \in Dial, NEW p \in {ctrl[c].pair, "off"},
           p = "confirm" => ctrl[c].cand.dial # d,
           Becomes(c, p, ctrl[c].eph, ctrl[c].cand, [ctrl[c].bond EXCEPT ![d] = None]),
           parted' = parted \cup {<<c, d>>},
           UNCHANGED <<dial, committed, derived>>, Offered' \subseteq Offered
    PROVE  Agreement'
<1>a. /\ ctrl'[c].bond[d] = None
      /\ \A x \in Ctrl, e \in Dial : ctrl'[x].bond[e] = ctrl[x].bond[e] \/ (x = c /\ e = d)
      /\ ctrl'[c].pair = p /\ ctrl'[c].eph = ctrl[c].eph
      /\ p = "confirm" => ctrl[c].pair = "confirm" /\ ctrl'[c].cand = ctrl[c].cand
      /\ p \in {ctrl[c].pair, "off"}
      /\ \A x \in Ctrl : x # c => ctrl'[x] = ctrl[x]
  BY CtrlFields DEF Becomes, IInv
<1>1. AttemptsAreUsedOnce'
  BY DEF IInv, Agreement, AttemptsAreUsedOnce
<1>2. WindowsAreUsedOnce'
  BY <1>a, KeyFacts DEF IInv, Agreement, WindowsAreUsedOnce
<1>3. InOrder'
  BY DEF IInv, Agreement, InOrder
<1>4. BondsAreCommitted'
  BY <1>a DEF IInv, Agreement, BondsAreCommitted
<1>5. RadioFollows'
  <2>1. \A e \in Dial : ctrl'[c].peer[e] =
          IF ctrl'[c].pair = "confirm" /\ ctrl'[c].cand.dial = e
          THEN ctrl'[c].cand ELSE ctrl'[c].bond[e]
    BY DEF Becomes
  <2>. QED
    BY <1>a, <2>1 DEF IInv, Agreement, RadioFollows
<1>6. CandidateIsAwaited'
  BY <1>a DEF IInv, Agreement, CandidateIsAwaited
<1>7. ProvenIsBond'
  BY <1>a, KeyFacts DEF IInv, Agreement, ProvenIsBond, AttemptsAreUsedOnce
<1>8. EndsMeet'
  <2>. SUFFICES ASSUME NEW x \in Ctrl, NEW e \in Dial, <<x, e>> \notin parted',
                       dial[e].bond[x] # ctrl'[x].bond[e]
                PROVE  /\ dial[e].state = "proving" /\ dial[e].key.ctrl = x
                       /\ ctrl'[x].bond[e] = dial[e].key
    BY DEF EndsMeet
  <2>1. ctrl'[x].bond[e] = ctrl[x].bond[e] /\ <<x, e>> \notin parted
    BY <1>a
  <2>. QED
    BY <2>1 DEF IInv, Agreement, EndsMeet
<1>. QED
  BY <1>1, <1>2, <1>3, <1>4, <1>5, <1>6, <1>7, <1>8 DEF Agreement

(* A dial starts an attempt. *)
LEMMA AskAgrees ==
    ASSUME ConstantsAssumption, IInv, NEW d \in Dial, NEW j, dial[d].state = "idle",
           Turns(d, "asking", dial[d].eph + 1, j, dial[d].bond),
           UNCHANGED <<ctrl, committed, derived, parted>>, Offered' \subseteq Offered
    PROVE  Agreement'
<1>a. /\ \A e \in Dial : e # d => dial'[e] = dial[e]
      /\ dial'[d].state = "asking" /\ dial'[d].eph = dial[d].eph + 1
  BY DEF Turns
<1>b. \A e \in Dial : dial'[e].bond = dial[e].bond
  BY DEF Turns
<1>1. AttemptsAreUsedOnce'
  BY <1>a, KeyFacts DEF IInv, Agreement, AttemptsAreUsedOnce
<1>2. WindowsAreUsedOnce'
  BY DEF IInv, Agreement, WindowsAreUsedOnce
<1>3. InOrder'
  BY DEF IInv, Agreement, InOrder
<1>4. BondsAreCommitted'
  BY <1>b DEF IInv, Agreement, BondsAreCommitted
<1>5. RadioFollows'
  BY DEF IInv, Agreement, RadioFollows
<1>6. CandidateIsAwaited'
  BY <1>a, KeyFacts DEF IInv, Agreement, CandidateIsAwaited
<1>7. ProvenIsBond'
  BY <1>a DEF IInv, Agreement, ProvenIsBond
<1>8. EndsMeet'
  <2>. SUFFICES ASSUME NEW x \in Ctrl, NEW e \in Dial, <<x, e>> \notin parted,
                       dial'[e].bond[x] # ctrl[x].bond[e]
                PROVE  /\ dial'[e].state = "proving" /\ dial'[e].key.ctrl = x
                       /\ ctrl[x].bond[e] = dial'[e].key
    BY DEF EndsMeet
  <2>1. dial'[e].bond = dial[e].bond
    BY <1>b
  <2>2. /\ dial[e].state = "proving" /\ dial[e].key.ctrl = x
        /\ ctrl[x].bond[e] = dial[e].key
    BY <2>1 DEF IInv, Agreement, EndsMeet
  <2>. QED
    BY <1>a, <2>2
<1>. QED
  BY <1>1, <1>2, <1>3, <1>4, <1>5, <1>6, <1>7, <1>8 DEF Agreement

(* The first response to the attempt gives it its key.  No candidate had   *)
(* this dial waiting, and the key is in no bond yet.                       *)
LEMMA HearRespAgrees ==
    ASSUME ConstantsAssumption, IInv, NEW d \in Dial, NEW k \in Offered,
           dial[d].state = "asking", k.dial = d, k.de = dial[d].eph,
           Turns(d, "proving", dial[d].eph, k, dial[d].bond),
           derived' = derived \cup {k},
           UNCHANGED <<ctrl, committed, parted>>, Offered' \subseteq Offered
    PROVE  Agreement'
<1>a. /\ \A e \in Dial : e # d => dial'[e] = dial[e]
      /\ dial'[d].state = "proving" /\ dial'[d].eph = dial[d].eph /\ dial'[d].key = k
  BY DEF Turns
<1>b. \A e \in Dial : dial'[e].bond = dial[e].bond
  BY DEF Turns
<1>c. /\ \A x \in derived : x.dial = d => x.de < dial[d].eph
      /\ \A x \in Offered : x.de <= dial[x.dial].eph
      /\ k \in Key /\ k \notin committed
  BY KeyFacts DEF IInv, Agreement, AttemptsAreUsedOnce
<1>1. AttemptsAreUsedOnce'
  <2>1. \A x \in Offered' : x.de <= dial'[x.dial].eph
    BY <1>a, <1>c, KeyFacts
  <2>2. \A x, y \in derived' : x.dial = y.dial /\ x.de = y.de => x = y
    <3>1. \A x \in derived : ~(x.dial = k.dial /\ x.de = k.de)
      BY <1>c, KeyFacts
    <3>. QED
      BY <3>1 DEF IInv, Agreement, AttemptsAreUsedOnce
  <2>3. \A e \in Dial : dial'[e].state = "asking" =>
          dial'[e].eph > 0 /\ \A x \in derived' : x.dial = e => x.de < dial'[e].eph
    BY <1>a DEF IInv, Agreement, AttemptsAreUsedOnce
  <2>4. \A e \in Dial : dial'[e].state = "proving" =>
          dial'[e].key \in derived' /\ dial'[e].key.dial = e
          /\ dial'[e].key.de = dial'[e].eph
    BY <1>a DEF IInv, Agreement, AttemptsAreUsedOnce
  <2>. QED
    BY <2>1, <2>2, <2>3, <2>4 DEF AttemptsAreUsedOnce
<1>2. WindowsAreUsedOnce'
  BY DEF IInv, Agreement, WindowsAreUsedOnce
<1>3. InOrder'
  <2>. SUFFICES ASSUME NEW x \in derived', NEW y \in Offered', x.dial = y.dial,
                       x.ctrl = y.ctrl, x.de < y.de
                PROVE  x.ce <= y.ce
    BY DEF InOrder
  <2>1. CASE x = k
    BY <1>c, <2>1, KeyFacts
  <2>2. CASE x \in derived
    BY <2>2 DEF IInv, Agreement, InOrder
  <2>. QED
    BY <2>1, <2>2
<1>4. BondsAreCommitted'
  BY <1>b DEF IInv, Agreement, BondsAreCommitted
<1>5. RadioFollows'
  BY DEF IInv, Agreement, RadioFollows
<1>6. CandidateIsAwaited'
  <2>. SUFFICES ASSUME NEW x \in Ctrl, ctrl[x].pair = "confirm", ctrl[x].cand \in derived'
                PROVE  \/ /\ dial'[ctrl[x].cand.dial].state = "proving"
                          /\ dial'[ctrl[x].cand.dial].key = ctrl[x].cand
                       \/ <<x, ctrl[x].cand.dial>> \in parted
    BY DEF CandidateIsAwaited
  <2>1. CASE ctrl[x].cand = k
    BY <1>a, <2>1
  <2>2. CASE ctrl[x].cand \in derived
    <3>1. ctrl[x].cand.dial \in Dial
      BY <2>2, KeyFacts
    <3>. QED
      BY <1>a, <2>2, <3>1 DEF IInv, Agreement, CandidateIsAwaited
  <2>. QED
    BY <2>1, <2>2
<1>7. ProvenIsBond'
  BY <1>a, <1>c DEF IInv, Agreement, ProvenIsBond
<1>8. EndsMeet'
  <2>. SUFFICES ASSUME NEW x \in Ctrl, NEW e \in Dial, <<x, e>> \notin parted,
                       dial'[e].bond[x] # ctrl[x].bond[e]
                PROVE  /\ dial'[e].state = "proving" /\ dial'[e].key.ctrl = x
                       /\ ctrl[x].bond[e] = dial'[e].key
    BY DEF EndsMeet
  <2>1. dial'[e].bond = dial[e].bond
    BY <1>b
  <2>2. /\ dial[e].state = "proving" /\ dial[e].key.ctrl = x
        /\ ctrl[x].bond[e] = dial[e].key
    BY <2>1 DEF IInv, Agreement, EndsMeet
  <2>. QED
    BY <1>a, <2>2
<1>. QED
  BY <1>1, <1>2, <1>3, <1>4, <1>5, <1>6, <1>7, <1>8 DEF Agreement

(* The dial hears that its key was committed.  The pair is no longer       *)
(* parted if the key is the bond still, and no candidate relied on it: one *)
(* that this dial had derived earlier would be of a window before the one  *)
(* that was committed.                                                     *)
LEMMA HearAckAgrees ==
    ASSUME ConstantsAssumption, IInv, NEW d \in Dial, NEW k \in committed,
           dial[d].state = "proving", dial[d].key = k,
           Turns(d, "idle", dial[d].eph, None, [dial[d].bond EXCEPT ![k.ctrl] = k]),
           parted' = IF ctrl[k.ctrl].bond[d] = k THEN parted \ {<<k.ctrl, d>>} ELSE parted,
           UNCHANGED <<ctrl, committed, derived>>, Offered' \subseteq Offered
    PROVE  Agreement'
<1>0. /\ k \in derived /\ k.dial = d /\ k.de = dial[d].eph /\ k \in Key /\ k.ctrl \in Ctrl
      /\ ctrl[k.ctrl].bond[d] = k \/ <<k.ctrl, d>> \in parted
  BY KeyFacts DEF IInv, Agreement, AttemptsAreUsedOnce, ProvenIsBond
<1>a. /\ \A e \in Dial : e # d => dial'[e] = dial[e]
      /\ dial'[d].state = "idle" /\ dial'[d].eph = dial[d].eph
      /\ dial'[d].bond[k.ctrl] = k
      /\ \A x \in Ctrl : x # k.ctrl => dial'[d].bond[x] = dial[d].bond[x]
  BY <1>0, DialFields DEF Turns, IInv
<1>1. AttemptsAreUsedOnce'
  <2>1. \A e \in Dial : dial'[e].eph = dial[e].eph
    BY <1>a
  <2>2. \A x \in Offered' : x.de <= dial'[x.dial].eph
    BY <2>1, KeyFacts DEF IInv, Agreement, AttemptsAreUsedOnce
  <2>. QED
    BY <1>a, <2>2 DEF IInv, Agreement, AttemptsAreUsedOnce
<1>2. WindowsAreUsedOnce'
  BY DEF IInv, Agreement, WindowsAreUsedOnce
<1>3. InOrder'
  BY DEF IInv, Agreement, InOrder
<1>4. BondsAreCommitted'
  BY <1>a DEF IInv, Agreement, BondsAreCommitted
<1>5. RadioFollows'
  BY DEF IInv, Agreement, RadioFollows
<1>6. CandidateIsAwaited'
  <2>. SUFFICES ASSUME NEW x \in Ctrl, ctrl[x].pair = "confirm", ctrl[x].cand \in derived
                PROVE  \/ /\ dial'[ctrl[x].cand.dial].state = "proving"
                          /\ dial'[ctrl[x].cand.dial].key = ctrl[x].cand
                       \/ <<x, ctrl[x].cand.dial>> \in parted'
    BY DEF CandidateIsAwaited
  <2>. DEFINE j == ctrl[x].cand
  <2>1. /\ j.ctrl = x /\ j.ce = ctrl[x].eph /\ j.dial \in Dial /\ j \in Key
        /\ k.ctrl = x => k.ce < ctrl[x].eph
    BY <1>0, KeyFacts DEF IInv, Agreement, WindowsAreUsedOnce
  <2>2. \/ dial[j.dial].state = "proving" /\ dial[j.dial].key = j
        \/ <<x, j.dial>> \in parted
    BY DEF IInv, Agreement, CandidateIsAwaited
  <2>3. CASE j.dial # d
    BY <1>a, <2>1, <2>2, <2>3
  <2>4. CASE j.dial = d /\ k.ctrl # x
    BY <1>0, <2>1, <2>2, <2>4
  <2>5. CASE j.dial = d /\ k.ctrl = x
    <3>1. j.de <= k.de
      BY <1>0, <2>5, KeyFacts DEF IInv, Agreement, AttemptsAreUsedOnce
    <3>2. j.de # k.de
      BY <1>0, <2>1, <2>5, KeyFacts DEF IInv, Agreement, AttemptsAreUsedOnce
    <3>3. j.ce <= k.ce
      BY <1>0, <2>1, <2>5, <3>1, <3>2, KeyFacts DEF IInv, Agreement, InOrder
    <3>. QED
      BY <2>1, <2>5, <3>3, KeyFacts
  <2>. QED
    BY <2>3, <2>4, <2>5
<1>7. ProvenIsBond'
  BY <1>a DEF IInv, Agreement, ProvenIsBond
<1>8. EndsMeet'
  <2>. SUFFICES ASSUME NEW x \in Ctrl, NEW e \in Dial, <<x, e>> \notin parted',
                       dial'[e].bond[x] # ctrl[x].bond[e]
                PROVE  /\ dial'[e].state = "proving" /\ dial'[e].key.ctrl = x
                       /\ ctrl[x].bond[e] = dial'[e].key
    BY DEF EndsMeet
  <2>1. ~(x = k.ctrl /\ e = d)
    BY <1>0, <1>a
  <2>2. <<x, e>> \notin parted /\ dial'[e].bond[x] = dial[e].bond[x]
    BY <1>a, <2>1
  <2>3. /\ dial[e].state = "proving" /\ dial[e].key.ctrl = x
        /\ ctrl[x].bond[e] = dial[e].key
    BY <2>2 DEF IInv, Agreement, EndsMeet
  <2>. QED
    BY <1>a, <2>1, <2>3
<1>. QED
  BY <1>1, <1>2, <1>3, <1>4, <1>5, <1>6, <1>7, <1>8 DEF Agreement

(* The dial gives up, and with it whatever the controller may commit yet. *)
LEMMA GiveUpAgrees ==
    ASSUME ConstantsAssumption, IInv, NEW d \in Dial,
           Turns(d, "idle", dial[d].eph, None, dial[d].bond),
           parted' = IF dial[d].key = None THEN parted
                     ELSE parted \cup {<<dial[d].key.ctrl, d>>},
           UNCHANGED <<ctrl, committed, derived>>, Offered' \subseteq Offered
    PROVE  Agreement'
<1>a. /\ \A e \in Dial : e # d => dial'[e] = dial[e]
      /\ dial'[d].state = "idle" /\ dial'[d].eph = dial[d].eph
  BY DEF Turns
<1>b. \A e \in Dial : dial'[e].bond = dial[e].bond
  BY DEF Turns
<1>c. /\ parted \subseteq parted'
      /\ dial[d].state = "proving" => <<dial[d].key.ctrl, d>> \in parted'
  BY KeyFacts DEF IInv, Agreement, AttemptsAreUsedOnce, ConstantsAssumption
<1>1. AttemptsAreUsedOnce'
  <2>1. \A e \in Dial : dial'[e].eph = dial[e].eph
    BY <1>a
  <2>2. \A x \in Offered' : x.de <= dial'[x.dial].eph
    BY <2>1, KeyFacts DEF IInv, Agreement, AttemptsAreUsedOnce
  <2>. QED
    BY <1>a, <2>2 DEF IInv, Agreement, AttemptsAreUsedOnce
<1>2. WindowsAreUsedOnce'
  BY DEF IInv, Agreement, WindowsAreUsedOnce
<1>3. InOrder'
  BY DEF IInv, Agreement, InOrder
<1>4. BondsAreCommitted'
  BY <1>b DEF IInv, Agreement, BondsAreCommitted
<1>5. RadioFollows'
  BY DEF IInv, Agreement, RadioFollows
<1>6. CandidateIsAwaited'
  <2>. SUFFICES ASSUME NEW x \in Ctrl, ctrl[x].pair = "confirm", ctrl[x].cand \in derived,
                       <<x, ctrl[x].cand.dial>> \notin parted'
                PROVE  /\ dial'[ctrl[x].cand.dial].state = "proving"
                       /\ dial'[ctrl[x].cand.dial].key = ctrl[x].cand
    BY DEF CandidateIsAwaited
  <2>1. ctrl[x].cand.ctrl = x /\ ctrl[x].cand.dial \in Dial
    BY KeyFacts DEF IInv, Agreement, WindowsAreUsedOnce
  <2>2. /\ dial[ctrl[x].cand.dial].state = "proving"
        /\ dial[ctrl[x].cand.dial].key = ctrl[x].cand
    BY <1>c DEF IInv, Agreement, CandidateIsAwaited
  <2>. QED
    BY <1>a, <1>c, <2>1, <2>2
<1>7. ProvenIsBond'
  BY <1>a, <1>c DEF IInv, Agreement, ProvenIsBond
<1>8. EndsMeet'
  <2>. SUFFICES ASSUME NEW x \in Ctrl, NEW e \in Dial, <<x, e>> \notin parted',
                       dial'[e].bond[x] # ctrl[x].bond[e]
                PROVE  /\ dial'[e].state = "proving" /\ dial'[e].key.ctrl = x
                       /\ ctrl[x].bond[e] = dial'[e].key
    BY DEF EndsMeet
  <2>1. dial'[e].bond = dial[e].bond /\ <<x, e>> \notin parted
    BY <1>b, <1>c
  <2>2. /\ dial[e].state = "proving" /\ dial[e].key.ctrl = x
        /\ ctrl[x].bond[e] = dial[e].key
    BY <2>1 DEF IInv, Agreement, EndsMeet
  <2>. QED
    BY <1>a, <1>c, <2>2
<1>. QED
  BY <1>1, <1>2, <1>3, <1>4, <1>5, <1>6, <1>7, <1>8 DEF Agreement

----------------------------------------------------------------------------
(* Frames are sent for a reason, and wait in the queue unchanged. *)

LEMMA RealIsFrame ==
    ASSUME ConstantsAssumption, IInv, NEW f, Real(f)
    PROVE  f \in Frame
<1>1. CASE \E d \in Dial : \E n \in 1..dial[d].eph : f = Req(d, n)
  <2>1. PICK d \in Dial : \E n \in 1..dial[d].eph : f = Req(d, n)
    BY <1>1
  <2>2. PICK n \in 1..dial[d].eph : f = Req(d, n)
    BY <2>1
  <2>3. dial[d].eph \in 0..MaxAttempts /\ MaxAttempts \in Nat
    BY DialFields DEF IInv, ConstantsAssumption
  <2>4. n \in 1..MaxAttempts
    BY <2>3
  <2>. QED
    BY <2>2, <2>4 DEF Frame
<1>. QED
  BY <1>1, KeyFacts DEF Real, Reason, Frame

(* What is kept in queue and air stays real; what a step adds must be. *)
LEMMA FramesStayReal ==
    ASSUME ConstantsAssumption, IInv,
           \A d \in Dial : dial'[d].eph \in Nat /\ dial[d].eph <= dial'[d].eph,
           derived \subseteq derived', committed \subseteq committed',
           \A f \in air' : f \in air \/ Reason(f, dial', derived', committed'),
           \/ UNCHANGED queue
           \/ \E c \in Ctrl : queue[c] # <<>> /\ queue' = [queue EXCEPT ![c] = Tail(@)]
           \/ \E c \in Ctrl : \E f \in air :
                /\ f.type \in {"REQ", "CONFIRM", "CMD"} /\ Room(c)
                /\ queue' = [queue EXCEPT ![c] = Append(@, f)]
    PROVE  FramesAreReal' /\ \A c \in Ctrl : Len(queue'[c]) <= QueueLength
<1>1. \A f \in Frame : Real(f) => Reason(f, dial', derived', committed')
  BY RealStays, KeyFacts
<1>2. /\ queue \in [Ctrl -> Seq(Frame)] /\ \A f \in air : Real(f)
      /\ \A c \in Ctrl : \A i \in DOMAIN queue[c] :
           Real(queue[c][i]) /\ queue[c][i].type \in {"REQ", "CONFIRM", "CMD"}
      /\ \A c \in Ctrl : Len(queue[c]) <= QueueLength
      /\ QueueLength \in Nat
  BY DEF IInv, FramesAreReal, TypeOK, ConstantsAssumption
<1>a. \A f : Real(f) => f \in Frame
  BY RealIsFrame
<1>3. \A f \in air' : Reason(f, dial', derived', committed')
  BY <1>1, <1>2, <1>a
<1>4. /\ queue' \in [Ctrl -> Seq(Frame)]
      /\ \A c \in Ctrl : Len(queue'[c]) <= QueueLength
      /\ \A c \in Ctrl : \A i \in DOMAIN queue'[c] :
           Real(queue'[c][i]) /\ queue'[c][i].type \in {"REQ", "CONFIRM", "CMD"}
  <2>1. CASE UNCHANGED queue
    BY <1>2, <2>1
  <2>2. ASSUME NEW c \in Ctrl, queue[c] # <<>>, queue' = [queue EXCEPT ![c] = Tail(@)]
        PROVE  <1>4
    <3>1. /\ Tail(queue[c]) \in Seq(Frame) /\ Len(Tail(queue[c])) = Len(queue[c]) - 1
          /\ \A i \in 1..Len(queue[c]) - 1 : Tail(queue[c])[i] = queue[c][i + 1]
          /\ Len(queue[c]) \in Nat /\ queue[c] \in Seq(Frame)
      BY <1>2, <2>2
    <3>2. /\ queue'[c] = Tail(queue[c])
          /\ \A x \in Ctrl : x # c => queue'[x] = queue[x]
          /\ queue' \in [Ctrl -> Seq(Frame)]
      BY <1>2, <2>2, <3>1
    <3>3. \A i \in DOMAIN queue'[c] : i + 1 \in DOMAIN queue[c]
                                    /\ queue'[c][i] = queue[c][i + 1]
      BY <3>1, <3>2
    <3>4. \A i \in DOMAIN queue'[c] :
            Real(queue'[c][i]) /\ queue'[c][i].type \in {"REQ", "CONFIRM", "CMD"}
      BY <1>2, <3>3
    <3>5. Len(queue'[c]) <= QueueLength
      BY <1>2, <3>1, <3>2
    <3>. QED
      BY <1>2, <3>2, <3>4, <3>5
  <2>3. ASSUME NEW c \in Ctrl, NEW f \in air, f.type \in {"REQ", "CONFIRM", "CMD"},
               Room(c), queue' = [queue EXCEPT ![c] = Append(@, f)]
        PROVE  <1>4
    <3>1. f \in Frame /\ Real(f)
      BY <1>2, RealIsFrame
    <3>2. /\ queue[c] \in Seq(Frame) /\ Append(queue[c], f) \in Seq(Frame)
          /\ Len(Append(queue[c], f)) = Len(queue[c]) + 1
          /\ DOMAIN Append(queue[c], f) = 1..Len(queue[c]) + 1
          /\ \A i \in 1..Len(queue[c]) : Append(queue[c], f)[i] = queue[c][i]
          /\ Append(queue[c], f)[Len(queue[c]) + 1] = f
          /\ Len(queue[c]) \in Nat /\ DOMAIN queue[c] = 1..Len(queue[c])
      BY <1>2, <3>1
    <3>3. /\ queue'[c] = Append(queue[c], f)
          /\ \A x \in Ctrl : x # c => queue'[x] = queue[x]
          /\ queue' \in [Ctrl -> Seq(Frame)]
      BY <1>2, <2>3, <3>2
    <3>4. \A i \in DOMAIN queue'[c] :
            Real(queue'[c][i]) /\ queue'[c][i].type \in {"REQ", "CONFIRM", "CMD"}
      <4>. SUFFICES ASSUME NEW i \in 1..Len(queue[c]) + 1
                    PROVE  Real(queue'[c][i])
                           /\ queue'[c][i].type \in {"REQ", "CONFIRM", "CMD"}
        BY <3>2, <3>3
      <4>1. CASE i = Len(queue[c]) + 1
        BY <2>3, <3>1, <3>2, <3>3, <4>1
      <4>2. CASE i \in 1..Len(queue[c])
        BY <1>2, <3>2, <3>3, <4>2
      <4>. QED
        BY <3>2, <4>1, <4>2
    <3>5. Len(queue'[c]) <= QueueLength
      <4>1. Len(queue[c]) < QueueLength
        BY <2>3 DEF Room
      <4>2. Len(queue'[c]) = Len(queue[c]) + 1
        BY <3>2, <3>3
      <4>. QED
        BY <1>2, <3>2, <4>1, <4>2
    <3>. QED
      BY <1>2, <3>3, <3>4, <3>5
  <2>. QED
    BY <2>1, <2>2, <2>3
<1>5. \A c \in Ctrl : \A i \in DOMAIN queue'[c] :
        Reason(queue'[c][i], dial', derived', committed')
  BY <1>1, <1>4, <1>a
<1>. QED
  BY <1>3, <1>4, <1>5 DEF FramesAreReal, Real

(* Only a response offers a key. *)
LEMMA OnlyResponsesOffer ==
    ASSUME NEW K, derived' \subseteq derived \cup K,
           \A f \in air' : f \in air \/ f.type # "RESP" \/ \E k \in K : f = Resp(k)
    PROVE  Offered' \subseteq Offered \cup K
<1>1. derived' \subseteq Offered \cup K
  BY DEF Offered
<1>2. \A k \in Key : Resp(k) \in air' => k \in Offered \cup K
  <2>. SUFFICES ASSUME NEW k \in Key, Resp(k) \in air' PROVE k \in Offered \cup K
    OBVIOUS
  <2>1. Resp(k).type = "RESP" /\ Resp(k).of = k /\ \A j \in K : Resp(j).of = j
    BY FrameFields
  <2>2. Resp(k) \in air \/ k \in K
    BY <2>1
  <2>. QED
    BY <2>2 DEF Offered
<1>. DEFINE S == Offered \cup K
<1>. HIDE DEF S
<1>3. derived' \subseteq S /\ \A k \in Key : Resp(k) \in air' => k \in S
  BY <1>1, <1>2 DEF S
<1>4. Offered' \subseteq S
  BY <1>3 DEF Offered
<1>. QED
  BY <1>4 DEF S

(* The parts of the invariant put together. *)
LEMMA Together ==
    ASSUME ConstantsAssumption, IInv, ctrl' \in [Ctrl -> Controller],
           dial' \in [Dial -> ADial], committed' \subseteq Key, derived' \subseteq Key,
           parted' \subseteq Ctrl \X Dial,
           FramesAreReal', \A c \in Ctrl : Len(queue'[c]) <= QueueLength, Agreement'
    PROVE  IInv'
BY DEF IInv, TypeOK

LEMMA Types ==
    ASSUME IInv
    PROVE  /\ ctrl \in [Ctrl -> Controller] /\ dial \in [Dial -> ADial]
           /\ committed \subseteq Key /\ derived \subseteq Key
           /\ parted \subseteq Ctrl \X Dial /\ TypeOK
BY DEF IInv, TypeOK

----------------------------------------------------------------------------
(* Every action keeps the invariant.  First those of the controller. *)

LEMMA PairStartKeeps ==
    ASSUME ConstantsAssumption, IInv, NEW c \in Ctrl, PairStart(c)
    PROVE  IInv'
<1>1. Becomes(c, "window", ctrl[c].eph + 1, None, ctrl[c].bond)
  BY PairStartEffect
<1>2. UNCHANGED <<queue, dial, air, committed, derived, parted>>
  BY DEF PairStart
<1>3. Offered' \subseteq Offered \cup {}
  BY <1>2, OnlyResponsesOffer
<1>4. Agreement'
  BY <1>1, <1>2, <1>3, OpeningAgrees
<1>5. FramesAreReal' /\ \A x \in Ctrl : Len(queue'[x]) <= QueueLength
  BY <1>2, KeyFacts, FramesStayReal
<1>6. ctrl' \in [Ctrl -> Controller]
  BY <1>1 DEF Becomes
<1>. QED
  BY <1>2, <1>4, <1>5, <1>6, Types, Together

LEMMA PairEndsKeeps ==
    ASSUME ConstantsAssumption, IInv, NEW c \in Ctrl, PairEnds(c)
    PROVE  IInv'
<1>1. Becomes(c, "off", ctrl[c].eph, None, ctrl[c].bond)
  BY ClosingEffect DEF PairEnds
<1>2. UNCHANGED <<queue, dial, air, committed, derived, parted>>
  BY DEF PairEnds
<1>3. Offered' \subseteq Offered \cup {}
  BY <1>2, OnlyResponsesOffer
<1>4. Agreement'
  BY <1>1, <1>2, <1>3, ClosingAgrees
<1>5. FramesAreReal' /\ \A x \in Ctrl : Len(queue'[x]) <= QueueLength
  BY <1>2, KeyFacts, FramesStayReal
<1>6. ctrl' \in [Ctrl -> Controller]
  BY <1>1 DEF Becomes
<1>. QED
  BY <1>2, <1>4, <1>5, <1>6, Types, Together

LEMMA ReceiveKeeps ==
    ASSUME ConstantsAssumption, IInv, NEW c \in Ctrl, NEW f \in air, Receive(c, f)
    PROVE  IInv'
<1>1. /\ UNCHANGED <<ctrl, dial, air, committed, derived, parted>>
      /\ f.type \in {"REQ", "CONFIRM", "CMD"} /\ Room(c)
      /\ queue' = [queue EXCEPT ![c] = Append(@, f)]
  BY DEF Receive
<1>2. Offered' \subseteq Offered \cup {}
  BY <1>1, OnlyResponsesOffer
<1>3. Agreement'
  BY <1>1, <1>2, QuietAgrees
<1>4. \E y \in Ctrl : \E g \in air :
        /\ g.type \in {"REQ", "CONFIRM", "CMD"} /\ Room(y)
        /\ queue' = [queue EXCEPT ![y] = Append(@, g)]
  BY <1>1
<1>5. FramesAreReal' /\ \A x \in Ctrl : Len(queue'[x]) <= QueueLength
  <2>1. /\ \A d \in Dial : dial'[d].eph \in Nat /\ dial[d].eph <= dial'[d].eph
        /\ derived \subseteq derived' /\ committed \subseteq committed'
        /\ \A g \in air' : g \in air
    BY <1>1, KeyFacts
  <2>. QED
    BY <1>4, <2>1, FramesStayReal
<1>. QED
  BY <1>1, <1>3, <1>5, Types, Together

LEMMA ForgetKeeps ==
    ASSUME ConstantsAssumption, IInv, NEW c \in Ctrl, NEW d \in Dial, Forget(c, d)
    PROVE  IInv'
<1>1. PICK p \in {ctrl[c].pair, "off"} :
        /\ p = "confirm" => ctrl[c].cand.dial # d
        /\ Becomes(c, p, ctrl[c].eph, ctrl[c].cand, [ctrl[c].bond EXCEPT ![d] = None])
  BY ForgetEffect
<1>2. UNCHANGED <<queue, dial, air, committed, derived>>
      /\ parted' = parted \cup {<<c, d>>}
  BY DEF Forget
<1>3. Offered' \subseteq Offered \cup {}
  BY <1>2, OnlyResponsesOffer
<1>4. Agreement'
  BY <1>1, <1>2, <1>3, ForgetAgrees
<1>5. FramesAreReal' /\ \A x \in Ctrl : Len(queue'[x]) <= QueueLength
  BY <1>2, KeyFacts, FramesStayReal
<1>6. ctrl' \in [Ctrl -> Controller] /\ parted' \subseteq Ctrl \X Dial
  BY <1>1, <1>2, Types DEF Becomes
<1>. QED
  BY <1>2, <1>4, <1>5, <1>6, Types, Together

(* A request in the queue names an attempt that its dial has made. *)
LEMMA DerivedKey ==
    ASSUME ConstantsAssumption, IInv, NEW c \in Ctrl, ctrl[c].pair # "off",
           NEW f, Real(f), f.type = "REQ"
    PROVE  /\ Derive(c, f) \in Key /\ Derive(c, f).dial = f.dial
           /\ Derive(c, f).ctrl = c /\ Derive(c, f).ce = ctrl[c].eph
           /\ Derive(c, f).de <= dial[f.dial].eph
<1>1. PICK d \in Dial : \E n \in 1..dial[d].eph : f = Req(d, n)
  BY RealFrames
<1>2. PICK n \in 1..dial[d].eph : f = Req(d, n)
  BY <1>1
<1>3. f.dial = d /\ f.of = n
  BY <1>2, FrameFields
<1>4. /\ dial[d].eph \in 0..MaxAttempts /\ MaxAttempts \in Nat /\ MaxWindows \in Nat
      /\ ctrl[c].eph \in 0..MaxWindows /\ ctrl[c].eph > 0
  BY CtrlFields, DialFields, Types
     DEF IInv, Agreement, WindowsAreUsedOnce, ConstantsAssumption
<1>5. n \in 1..MaxAttempts /\ n <= dial[d].eph /\ ctrl[c].eph \in 1..MaxWindows
  BY <1>4
<1>. QED
  BY <1>3, <1>5 DEF Derive, Key

LEMMA DrainKeeps ==
    ASSUME ConstantsAssumption, IInv, NEW c \in Ctrl, Drain(c)
    PROVE  IInv'
<1>. DEFINE f == Head(queue[c])
            x == ctrl[c]
<1>1. /\ queue[c] # <<>> /\ queue' = [queue EXCEPT ![c] = Tail(@)]
      /\ UNCHANGED <<dial, derived, parted>>
  BY DEF Drain
<1>2. Real(f) /\ f.type \in {"REQ", "CONFIRM", "CMD"}
  BY <1>1 DEF IInv, FramesAreReal
<1>3. ASSUME committed \subseteq committed', committed' \subseteq Key,
             ctrl' \in [Ctrl -> Controller], Agreement',
             \A g \in air' : g \in air \/ Reason(g, dial', derived', committed')
      PROVE  IInv'
  <2>1. \E y \in Ctrl : queue[y] # <<>> /\ queue' = [queue EXCEPT ![y] = Tail(@)]
    BY <1>1
  <2>2. \A d \in Dial : dial'[d].eph \in Nat /\ dial[d].eph <= dial'[d].eph
    BY <1>1, KeyFacts
  <2>3. derived \subseteq derived'
    BY <1>1
  <2>4. FramesAreReal' /\ \A y \in Ctrl : Len(queue'[y]) <= QueueLength
    BY <1>3, <2>1, <2>2, <2>3, FramesStayReal
  <2>. QED
    BY <1>1, <1>3, <2>4, Types, Together
<1>4. CASE f.type = "REQ" /\ Admitted(c, f)
  <2>. DEFINE k == Derive(c, f)
  <2>1. CASE x.pair = "window" \/ (x.pair = "confirm" /\ x.cand = k)
    <3>1. /\ k \in Key /\ k.dial = f.dial /\ k.ctrl = c /\ k.ce = ctrl[c].eph
          /\ k.de <= dial[k.dial].eph
      BY <1>2, <1>4, <2>1, DerivedKey
    <3>2. /\ air' = air \cup {Resp(k)} /\ UNCHANGED committed
          /\ \/ /\ x.pair = "window"
                /\ ctrl' = [ctrl EXCEPT ![c].pair = "confirm", ![c].cand = k,
                                         ![c].peer[f.dial] = k]
             \/ UNCHANGED ctrl /\ x.pair = "confirm"
      BY <1>4, <2>1 DEF Admitted
    <3>. HIDE DEF k
    <3>3. \/ /\ ctrl[c].pair = "window"
             /\ Becomes(c, "confirm", ctrl[c].eph, k, ctrl[c].bond)
          \/ UNCHANGED ctrl /\ ctrl[c].pair = "confirm"
      BY <3>1, <3>2, AdmittedEffect
    <3>4. Offered' \subseteq Offered \cup {k}
      BY <1>1, <3>2, OnlyResponsesOffer
    <3>5. Agreement'
      BY <1>1, <3>1, <3>2, <3>3, <3>4, OfferAgrees
    <3>6. ctrl' \in [Ctrl -> Controller]
      BY <3>3, Types DEF Becomes
    <3>7. Reason(Resp(k), dial', derived', committed')
      BY <3>1 DEF Reason
    <3>. QED
      BY <1>3, <3>2, <3>5, <3>6, <3>7, Types
  <2>2. CASE ~(x.pair = "window" \/ (x.pair = "confirm" /\ x.cand = k))
    <3>1. UNCHANGED <<ctrl, air, committed>>
      BY <1>4, <2>2 DEF Admitted
    <3>2. Offered' \subseteq Offered \cup {}
      BY <1>1, <3>1, OnlyResponsesOffer
    <3>3. Agreement'
      BY <1>1, <3>1, <3>2, QuietAgrees
    <3>. QED
      BY <1>3, <3>1, <3>3, Types
  <2>. QED
    BY <2>1, <2>2
<1>5. CASE f.type # "REQ" /\ Confirms(x, f) /\ (Commit(c, x) \/ CommitFails(c, x))
  <2>1. x.pair = "confirm" /\ f = Proof(x.cand)
    BY <1>5 DEF Confirms, Matches
  <2>2. x.cand \in derived /\ x.cand \in Key
    <3>1. f.type = "CONFIRM" /\ f.of = x.cand
      BY <2>1, FrameFields
    <3>. QED
      BY <1>2, <3>1, RealFrames, KeyFacts
  <2>3. CASE Commit(c, x)
    <3>1. /\ ctrl' = [ctrl EXCEPT ![c].bond[x.cand.dial] = x.cand, ![c].cand = None,
                                   ![c].pair = "off"]
          /\ committed' = committed \cup {x.cand} /\ air' = air \cup {Ack(x.cand)}
      BY <2>3 DEF Commit
    <3>2. Becomes(c, "off", ctrl[c].eph, None,
                  [ctrl[c].bond EXCEPT ![x.cand.dial] = x.cand])
      BY <2>1, <3>1, CommittedEffect
    <3>3. Ack(x.cand).type # "RESP"
      BY FrameFields
    <3>4. Offered' \subseteq Offered \cup {}
      BY <1>1, <3>1, <3>3, OnlyResponsesOffer
    <3>5. Agreement'
      BY <1>1, <2>1, <2>2, <3>1, <3>2, <3>4, CommitAgrees
    <3>6. ctrl' \in [Ctrl -> Controller]
      BY <3>2 DEF Becomes
    <3>7. Reason(Ack(x.cand), dial', derived', committed')
      BY <3>1 DEF Reason
    <3>. QED
      BY <1>3, <2>2, <3>1, <3>5, <3>6, <3>7, Types
  <2>4. CASE CommitFails(c, x)
    <3>1. /\ ctrl' = [ctrl EXCEPT ![c] = [Cleaned(ctrl[c]) EXCEPT !.pair = "off"]]
          /\ UNCHANGED <<air, committed>>
      BY <2>4 DEF CommitFails
    <3>2. Becomes(c, "off", ctrl[c].eph, None, ctrl[c].bond)
      BY <2>1, <3>1, ClosingEffect
    <3>3. Offered' \subseteq Offered \cup {}
      BY <1>1, <3>1, OnlyResponsesOffer
    <3>4. Agreement'
      BY <1>1, <3>1, <3>2, <3>3, ClosingAgrees
    <3>5. ctrl' \in [Ctrl -> Controller]
      BY <3>2 DEF Becomes
    <3>. QED
      BY <1>3, <3>1, <3>4, <3>5, Types
  <2>. QED
    BY <1>5, <2>3, <2>4
<1>6. CASE /\ f.type # "REQ" /\ Repeats(x, f)
           /\ air' = air \cup {Ack(f.of)} /\ UNCHANGED <<ctrl, committed>>
  <2>1. x.bond[f.dial] # None /\ f = Proof(x.bond[f.dial])
    BY <1>6 DEF Repeats, Matches
  <2>2. f.type = "CONFIRM" /\ f.of = x.bond[f.dial]
    BY <2>1, FrameFields
  <2>3. f.dial \in Dial
    <3>1. f.of \in derived /\ f.dial = f.of.dial
      BY <1>2, <2>2, RealFrames
    <3>. QED
      BY <3>1, KeyFacts
  <2>4. f.of \in committed
    BY <2>1, <2>2, <2>3 DEF IInv, Agreement, BondsAreCommitted
  <2>5. Ack(f.of).type # "RESP" /\ Reason(Ack(f.of), dial', derived', committed')
    BY <1>6, <2>4, FrameFields DEF Reason
  <2>6. Offered' \subseteq Offered \cup {}
    BY <1>1, <1>6, <2>5, OnlyResponsesOffer
  <2>7. Agreement'
    BY <1>1, <1>6, <2>6, QuietAgrees
  <2>. QED
    BY <1>3, <1>6, <2>5, <2>7, Types
<1>7. CASE UNCHANGED <<ctrl, air, committed>>
  <2>1. Offered' \subseteq Offered \cup {}
    BY <1>1, <1>7, OnlyResponsesOffer
  <2>2. Agreement'
    BY <1>1, <1>7, <2>1, QuietAgrees
  <2>. QED
    BY <1>3, <1>7, <2>2, Types
<1>. QED
  BY <1>4, <1>5, <1>6, <1>7 DEF Drain

----------------------------------------------------------------------------
(* The dial's actions, and the air's. *)

LEMMA TurnsFields ==
    ASSUME TypeOK, NEW d \in Dial, NEW y \in ADial, dial' = [dial EXCEPT ![d] = y]
    PROVE  Turns(d, y.state, y.eph, y.key, y.bond)
<1>1. dial' \in [Dial -> ADial] /\ dial'[d] = y
      /\ \A z \in Dial : z # d => dial'[z] = dial[z]
  BY DEF TypeOK
<1>. QED
  BY <1>1 DEF Turns

(* A step that changes neither end, and sends at most one frame. *)
LEMMA SendingKeeps ==
    ASSUME ConstantsAssumption, IInv, NEW f, f.type # "RESP", Real(f),
           air' \subseteq air \cup {f},
           UNCHANGED <<ctrl, queue, dial, committed, derived, parted>>
    PROVE  IInv'
<1>1. Offered' \subseteq Offered \cup {}
  BY OnlyResponsesOffer
<1>2. Agreement'
  BY <1>1, QuietAgrees
<1>3. Reason(f, dial', derived', committed')
  BY DEF Real
<1>4. FramesAreReal' /\ \A x \in Ctrl : Len(queue'[x]) <= QueueLength
  BY <1>3, KeyFacts, FramesStayReal
<1>. QED
  BY <1>2, <1>4, Types, Together

LEMMA AskAgainKeeps ==
    ASSUME ConstantsAssumption, IInv, NEW d \in Dial, AskAgain(d)
    PROVE  IInv'
<1>1. dial[d].eph \in 1..dial[d].eph
  BY KeyFacts DEF AskAgain, IInv, Agreement, AttemptsAreUsedOnce
<1>2. Real(Req(d, dial[d].eph)) /\ Req(d, dial[d].eph).type # "RESP"
  BY <1>1, FrameFields DEF Real, Reason
<1>. QED
  BY <1>2, SendingKeeps DEF AskAgain

LEMMA ProveKeeps ==
    ASSUME ConstantsAssumption, IInv, NEW d \in Dial, Prove(d)
    PROVE  IInv'
<1>1. dial[d].key \in derived
  BY DEF Prove, IInv, Agreement, AttemptsAreUsedOnce
<1>2. Real(Proof(dial[d].key)) /\ Proof(dial[d].key).type # "RESP"
  BY <1>1, FrameFields DEF Real, Reason
<1>. QED
  BY <1>2, SendingKeeps DEF Prove

LEMMA CommandKeeps ==
    ASSUME ConstantsAssumption, IInv, NEW c \in Ctrl, NEW d \in Dial, Command(d, c)
    PROVE  IInv'
<1>1. dial[d].bond[c] \in committed
  BY DEF Command, IInv, Agreement, BondsAreCommitted
<1>2. Real(Cmd(dial[d].bond[c])) /\ Cmd(dial[d].bond[c]).type # "RESP"
  BY <1>1, FrameFields DEF Real, Reason
<1>. QED
  BY <1>2, SendingKeeps DEF Command

LEMMA LoseKeeps ==
    ASSUME ConstantsAssumption, IInv, NEW f \in air, Lose(f)
    PROVE  IInv'
<1>1. UNCHANGED <<ctrl, queue, dial, committed, derived, parted>> /\ air' \subseteq air
  BY DEF Lose
<1>2. Offered' \subseteq Offered \cup {}
  BY <1>1, OnlyResponsesOffer
<1>3. Agreement'
  BY <1>1, <1>2, QuietAgrees
<1>4. FramesAreReal' /\ \A x \in Ctrl : Len(queue'[x]) <= QueueLength
  BY <1>1, KeyFacts, FramesStayReal
<1>. QED
  BY <1>1, <1>3, <1>4, Types, Together

LEMMA AskKeeps ==
    ASSUME ConstantsAssumption, IInv, NEW d \in Dial, Ask(d)
    PROVE  IInv'
<1>. DEFINE y == [dial[d] EXCEPT !.state = "asking", !.eph = dial[d].eph + 1]
            f == Req(d, dial[d].eph + 1)
<1>1. /\ dial[d].state = "idle" /\ dial[d].eph < MaxAttempts /\ MaxAttempts \in Nat
      /\ dial' = [dial EXCEPT ![d] = y] /\ air' = air \cup {f}
      /\ UNCHANGED <<ctrl, queue, committed, derived, parted>>
  BY DEF Ask, ConstantsAssumption
<1>2. dial[d].eph + 1 \in 0..MaxAttempts
  BY <1>1, KeyFacts
<1>3. /\ y \in ADial /\ y.state = "asking" /\ y.eph = dial[d].eph + 1
      /\ y.key = dial[d].key /\ y.bond = dial[d].bond
  BY <1>2, DialFields, Types DEF ADial
<1>. HIDE DEF y
<1>4. Turns(d, "asking", dial[d].eph + 1, dial[d].key, dial[d].bond)
  BY <1>1, <1>3, Types, TurnsFields
<1>5. f.type # "RESP"
  BY FrameFields
<1>6. Offered' \subseteq Offered \cup {}
  BY <1>1, <1>5, OnlyResponsesOffer
<1>7. Agreement'
  BY <1>1, <1>4, <1>6, AskAgrees
<1>8. \A e \in Dial : dial'[e].eph \in Nat /\ dial[e].eph <= dial'[e].eph
  BY <1>4, KeyFacts DEF Turns
<1>9. Reason(f, dial', derived', committed')
  <2>1. dial[d].eph + 1 \in 1..dial'[d].eph
    BY <1>4, KeyFacts DEF Turns
  <2>. QED
    BY <2>1 DEF Reason
<1>10. FramesAreReal' /\ \A x \in Ctrl : Len(queue'[x]) <= QueueLength
  BY <1>1, <1>8, <1>9, FramesStayReal
<1>11. dial' \in [Dial -> ADial]
  BY <1>4 DEF Turns
<1>. QED
  BY <1>1, <1>7, <1>10, <1>11, Types, Together

LEMMA HearRespKeeps ==
    ASSUME ConstantsAssumption, IInv, NEW d \in Dial, NEW f \in air, HearResp(d, f)
    PROVE  IInv'
<1>. DEFINE k == f.of
            y == [dial[d] EXCEPT !.state = "proving", !.key = k]
<1>1. /\ dial[d].state = "asking" /\ k.de = dial[d].eph /\ f.type = "RESP" /\ f.dial = d
      /\ dial' = [dial EXCEPT ![d] = y] /\ derived' = derived \cup {k}
      /\ UNCHANGED <<ctrl, queue, air, committed, parted>>
  BY DEF HearResp
<1>2. k \in Key /\ f = Resp(k) /\ k.dial = d
  <2>1. k \in Key /\ f = Resp(k)
    BY <1>1, RealFrames DEF IInv, FramesAreReal
  <2>2. Resp(k).dial = k.dial
    BY FrameFields
  <2>. QED
    BY <1>1, <2>1, <2>2
<1>3. k \in Offered
  BY <1>2 DEF Offered
<1>. HIDE DEF k
<1>4. /\ y \in ADial /\ y.state = "proving" /\ y.eph = dial[d].eph
      /\ y.key = k /\ y.bond = dial[d].bond
  BY <1>2, DialFields, Types DEF ADial
<1>. HIDE DEF y
<1>5. Turns(d, "proving", dial[d].eph, k, dial[d].bond)
  BY <1>1, <1>4, Types, TurnsFields
<1>6. Offered' \subseteq Offered
  <2>1. Offered' \subseteq Offered \cup {k}
    BY <1>1, OnlyResponsesOffer
  <2>. QED
    BY <1>3, <2>1
<1>7. Agreement'
  BY <1>1, <1>2, <1>3, <1>5, <1>6, HearRespAgrees
<1>8. \A e \in Dial : dial'[e].eph \in Nat /\ dial[e].eph <= dial'[e].eph
  BY <1>5, KeyFacts DEF Turns
<1>9. FramesAreReal' /\ \A x \in Ctrl : Len(queue'[x]) <= QueueLength
  BY <1>1, <1>8, FramesStayReal
<1>10. dial' \in [Dial -> ADial] /\ derived' \subseteq Key
  BY <1>1, <1>2, <1>5, Types DEF Turns
<1>. QED
  BY <1>1, <1>7, <1>9, <1>10, Types, Together

LEMMA HearAckKeeps ==
    ASSUME ConstantsAssumption, IInv, NEW d \in Dial, HearAck(d)
    PROVE  IInv'
<1>. DEFINE k == dial[d].key
            b == [dial[d].bond EXCEPT ![k.ctrl] = k]
            y == [dial[d] EXCEPT !.state = "idle", !.key = None, !.bond = b]
<1>0. dial[d].state = "proving" /\ Ack(k) \in air
  BY DEF HearAck
<1>1. k \in committed /\ k \in Key /\ k.ctrl \in Ctrl
  <2>1. Ack(k).type = "ACK" /\ Ack(k).of = k
    BY FrameFields
  <2>. QED
    BY <1>0, <2>1, RealFrames, KeyFacts DEF IInv, FramesAreReal
<1>2. dial \in [Dial -> ADial] /\ dial[d] \in ADial
  BY Types
<1>3. /\ dial' = [dial EXCEPT ![d] = y]
      /\ parted' = IF ctrl[k.ctrl].bond[d] = k THEN parted \ {<<k.ctrl, d>>} ELSE parted
      /\ UNCHANGED <<ctrl, queue, air, committed, derived>>
  BY <1>2 DEF HearAck, ADial
<1>4. b \in [Ctrl -> Key \cup {None}]
  BY <1>1, <1>2 DEF ADial
<1>. HIDE DEF b
<1>5. /\ y \in ADial /\ y.state = "idle" /\ y.eph = dial[d].eph
      /\ y.key = None /\ y.bond = b
  BY <1>2, <1>4 DEF ADial
<1>. HIDE DEF y
<1>6. Turns(d, "idle", dial[d].eph, None, b)
  BY <1>3, <1>5, Types, TurnsFields
<1>7. Offered' \subseteq Offered \cup {}
  BY <1>3, OnlyResponsesOffer
<1>8. Agreement'
  BY <1>0, <1>1, <1>3, <1>6, <1>7, HearAckAgrees DEF b
<1>9. \A e \in Dial : dial'[e].eph \in Nat /\ dial[e].eph <= dial'[e].eph
  BY <1>6, KeyFacts DEF Turns
<1>10. FramesAreReal' /\ \A x \in Ctrl : Len(queue'[x]) <= QueueLength
  BY <1>3, <1>9, FramesStayReal
<1>11. dial' \in [Dial -> ADial] /\ parted' \subseteq Ctrl \X Dial
  BY <1>3, <1>6, Types DEF Turns
<1>. QED
  BY <1>3, <1>8, <1>10, <1>11, Types, Together

LEMMA GiveUpKeeps ==
    ASSUME ConstantsAssumption, IInv, NEW d \in Dial, GiveUp(d)
    PROVE  IInv'
<1>. DEFINE y == [dial[d] EXCEPT !.state = "idle", !.key = None]
<1>1. /\ dial' = [dial EXCEPT ![d] = y]
      /\ parted' = IF dial[d].key = None THEN parted
                   ELSE parted \cup {<<dial[d].key.ctrl, d>>}
      /\ UNCHANGED <<ctrl, queue, air, committed, derived>>
  BY DEF GiveUp
<1>2. /\ y \in ADial /\ y.state = "idle" /\ y.eph = dial[d].eph
      /\ y.key = None /\ y.bond = dial[d].bond
  BY DialFields, Types DEF ADial
<1>. HIDE DEF y
<1>3. Turns(d, "idle", dial[d].eph, None, dial[d].bond)
  BY <1>1, <1>2, Types, TurnsFields
<1>4. Offered' \subseteq Offered \cup {}
  BY <1>1, OnlyResponsesOffer
<1>5. Agreement'
  BY <1>1, <1>3, <1>4, GiveUpAgrees
<1>6. \A e \in Dial : dial'[e].eph \in Nat /\ dial[e].eph <= dial'[e].eph
  BY <1>3, KeyFacts DEF Turns
<1>7. FramesAreReal' /\ \A x \in Ctrl : Len(queue'[x]) <= QueueLength
  BY <1>1, <1>6, FramesStayReal
<1>8. dial' \in [Dial -> ADial] /\ parted' \subseteq Ctrl \X Dial
  <2>1. dial[d].key # None => dial[d].key.ctrl \in Ctrl
    BY DialFields, KeyFacts, Types
  <2>. QED
    BY <1>1, <1>3, <2>1, Types DEF Turns
<1>. QED
  BY <1>1, <1>5, <1>7, <1>8, Types, Together

LEMMA InitIsSound ==
    ASSUME ConstantsAssumption, Init
    PROVE  IInv
<1>1. TypeOK
  BY DEF ConstantsAssumption, Init, TypeOK, Controller, ADial
<1>2. FramesAreReal
  BY DEF Init, FramesAreReal
<1>3. Offered = {}
  BY DEF Init, Offered
<1>4. Agreement
  BY <1>3 DEF Init, Agreement, AttemptsAreUsedOnce, WindowsAreUsedOnce, InOrder,
              BondsAreCommitted, RadioFollows, CandidateIsAwaited, ProvenIsBond, EndsMeet
<1>. QED
  BY <1>1, <1>2, <1>4 DEF IInv

LEMMA NextKeeps ==
    ASSUME ConstantsAssumption, IInv, [Next]_vars
    PROVE  IInv'
<1>1. ASSUME NEW c \in Ctrl, PairStart(c) \/ PairEnds(c) \/ Drain(c) PROVE IInv'
  BY <1>1, PairStartKeeps, PairEndsKeeps, DrainKeeps
<1>2. ASSUME NEW c \in Ctrl, NEW f \in air, Receive(c, f) PROVE IInv'
  BY <1>2, ReceiveKeeps
<1>3. ASSUME NEW c \in Ctrl, NEW d \in Dial, Forget(c, d) \/ Command(d, c) PROVE IInv'
  BY <1>3, ForgetKeeps, CommandKeeps
<1>4. ASSUME NEW d \in Dial, Ask(d) \/ AskAgain(d) \/ Prove(d) \/ HearAck(d) \/ GiveUp(d)
      PROVE  IInv'
  BY <1>4, AskKeeps, AskAgainKeeps, ProveKeeps, HearAckKeeps, GiveUpKeeps
<1>5. ASSUME NEW d \in Dial, NEW f \in air, HearResp(d, f) PROVE IInv'
  BY <1>5, HearRespKeeps
<1>6. ASSUME NEW f \in air, Lose(f) PROVE IInv'
  BY <1>6, LoseKeeps
<1>7. CASE UNCHANGED vars
  <2>1. UNCHANGED <<ctrl, queue, dial, air, committed, derived, parted>>
    BY <1>7 DEF vars
  <2>2. Offered' \subseteq Offered \cup {}
    BY <2>1, OnlyResponsesOffer
  <2>3. Agreement'
    BY <2>1, <2>2, QuietAgrees
  <2>4. FramesAreReal' /\ \A x \in Ctrl : Len(queue'[x]) <= QueueLength
    BY <2>1, KeyFacts, FramesStayReal
  <2>. QED
    BY <2>1, <2>3, <2>4, Types, Together
<1>. QED
  BY <1>1, <1>2, <1>3, <1>4, <1>5, <1>6, <1>7 DEF Next

(* Two keys of one attempt are one key, as the dial derives one; and ends  *)
(* that differ, unparted, are in a handshake.                              *)
LEMMA SoundAgrees ==
    ASSUME ConstantsAssumption, IInv
    PROVE  CommittedIsDerived /\ OneWinner /\ AckedIsCommitted /\ EndsAgree
<1>1. CommittedIsDerived
  BY DEF IInv, Agreement, BondsAreCommitted, CommittedIsDerived
<1>2. OneWinner
  BY DEF IInv, Agreement, BondsAreCommitted, AttemptsAreUsedOnce, OneWinner
<1>3. AckedIsCommitted
  BY DEF IInv, Agreement, BondsAreCommitted, AckedIsCommitted
<1>4. EndsAgree
  BY DEF IInv, Agreement, EndsMeet, RadioFollows, EndsAgree
<1>. QED
  BY <1>1, <1>2, <1>3, <1>4

(* For any number of dials, controllers, windows and attempts, over air    *)
(* that loses, repeats, delays and reorders frames: a bond is saved only   *)
(* under a key its dial derived from that very window and attempt, one     *)
(* attempt gives one bond, a dial takes a key only once it is saved, and   *)
(* two ends that nobody parted hold the same key, which the radio has too  *)
(* (on_pair_req, pair_commit and the proof's branch of on_recv).           *)
THEOREM KeysAgreeAcrossAir ==
    ASSUME ConstantsAssumption
    PROVE  Spec => [](CommittedIsDerived /\ OneWinner /\ AckedIsCommitted /\ EndsAgree)
<1>1. Init => IInv
  BY InitIsSound
<1>2. IInv /\ [Next]_vars => IInv'
  BY NextKeeps
<1>3. IInv => CommittedIsDerived /\ OneWinner /\ AckedIsCommitted /\ EndsAgree
  BY SoundAgrees
<1>. QED
  BY <1>1, <1>2, <1>3, PTL DEF Spec

(* The state keeps its types, under the same assumptions. *)
THEOREM HandshakeTypes ==
    ASSUME ConstantsAssumption
    PROVE  Spec => []TypeOK
<1>1. Init => IInv
  BY InitIsSound
<1>2. IInv /\ [Next]_vars => IInv'
  BY NextKeeps
<1>3. IInv => TypeOK
  BY DEF IInv
<1>. QED
  BY <1>1, <1>2, <1>3, PTL DEF Spec

=============================================================================
