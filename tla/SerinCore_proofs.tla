-------------------------- MODULE SerinCore_proofs --------------------------
(***************************************************************************)
(* Theorems about the pairing core, for any dials, identities and bounds:  *)
(* types; the table and the store, pairing and its candidate, the replay   *)
(* guard and pinning, from one inductive invariant; what the radio holds,  *)
(* which keys are acknowledged and what forgetting leaves behind; who      *)
(* enters the bond table, the order of its slots, and that the core        *)
(* implements the bond registry.                                           *)
(***************************************************************************)
EXTENDS SerinCoreRegistry, FiniteSetTheorems, TLAPS

----------------------------------------------------------------------------
(* The table operators. *)

(* dial_by_mac finds a bond that is there. *)
LEMMA SlotFound ==
    ASSUME NEW m \in Macs(dials)
    PROVE  SlotOf(m) \in DOMAIN dials /\ BondOf(m).mac = m
BY DEF Macs, SlotOf, BondOf

LEMMA BondFound ==
    ASSUME dials \in Seq(Bond), NEW m \in Macs(dials)
    PROVE  BondOf(m) \in Bond
BY SlotFound DEF BondOf

(* Compaction removes one slot and keeps every other bond. *)
LEMMA ForgettingFacts ==
    ASSUME dials \in Seq(Bond), NEW m \in Macs(dials)
    PROVE  /\ Forgetting(m) \in Seq(Bond)
           /\ Len(Forgetting(m)) = Len(dials) - 1
           /\ \A i \in DOMAIN Forgetting(m) :
                Forgetting(m)[i] = IF i < SlotOf(m) THEN dials[i]
                                                    ELSE dials[i + 1]
BY SlotFound DEF Forgetting

(* Setting a latch keeps the table otherwise. *)
LEMMA LatchingFacts ==
    ASSUME dials \in Seq(Bond), NEW m \in Macs(dials)
    PROVE  /\ Latching(m) \in Seq(Bond)
           /\ Len(Latching(m)) = Len(dials)
           /\ \A i \in DOMAIN dials :
                /\ Latching(m)[i].mac = dials[i].mac
                /\ Latching(m)[i].lmk = dials[i].lmk
                /\ Latching(m)[i].id = dials[i].id
                /\ Latching(m)[i].latched <=> (i = SlotOf(m) \/ dials[i].latched)
<1>1. SlotOf(m) \in DOMAIN dials
  BY SlotFound
<1>2. \A i \in DOMAIN dials : dials[i] \in Bond
  OBVIOUS
<1>3. Latching(m) = [dials EXCEPT ![SlotOf(m)] =
                       [dials[SlotOf(m)] EXCEPT !.latched = TRUE]]
  BY DEF Latching
<1>4. [dials[SlotOf(m)] EXCEPT !.latched = TRUE] \in Bond
  BY <1>1, <1>2 DEF Bond
<1>5. /\ [dials[SlotOf(m)] EXCEPT !.latched = TRUE].mac = dials[SlotOf(m)].mac
      /\ [dials[SlotOf(m)] EXCEPT !.latched = TRUE].lmk = dials[SlotOf(m)].lmk
      /\ [dials[SlotOf(m)] EXCEPT !.latched = TRUE].id = dials[SlotOf(m)].id
      /\ [dials[SlotOf(m)] EXCEPT !.latched = TRUE].latched = TRUE
  BY <1>1, <1>2 DEF Bond
<1>. QED
  BY <1>1, <1>2, <1>3, <1>4, <1>5

(* A bond made from a candidate takes its dial's slot or the next one. *)
LEMMA BondingFacts ==
    ASSUME dials \in Seq(Bond), NEW c \in Candidate
    PROVE  /\ Bonding(c) \in Seq(Bond)
           /\ NewBond(c) \in Bond
           /\ c.mac \in Macs(dials) =>
                /\ Len(Bonding(c)) = Len(dials)
                /\ \A i \in DOMAIN dials :
                     Bonding(c)[i] = IF i = SlotOf(c.mac) THEN NewBond(c)
                                                          ELSE dials[i]
           /\ c.mac \notin Macs(dials) =>
                /\ Len(Bonding(c)) = Len(dials) + 1
                /\ \A i \in DOMAIN Bonding(c) :
                     Bonding(c)[i] = IF i = Len(dials) + 1 THEN NewBond(c)
                                                           ELSE dials[i]
<1>1. NewBond(c) \in Bond
  BY DEF NewBond, Bond, Candidate
<1>2. CASE c.mac \in Macs(dials)
  BY <1>1, <1>2, SlotFound DEF Bonding
<1>3. CASE c.mac \notin Macs(dials)
  BY <1>1, <1>3 DEF Bonding
<1>. QED
  BY <1>1, <1>2, <1>3
(* Whatever a handler proposes to save is a table. *)
LEMMA ProposalsAreTables ==
    ASSUME dials \in Seq(Bond), pair = "CONFIRM" => cand \in Candidate
    PROVE  Proposals \subseteq Seq(Bond)
<1>1. <<>> \in Seq(Bond)
  OBVIOUS
<1>2. \A m \in Macs(dials) : Forgetting(m) \in Seq(Bond)
  BY ForgettingFacts
<1>3. \A m \in Macs(dials) : Latching(m) \in Seq(Bond)
  BY LatchingFacts
<1>4. pair = "CONFIRM" => Bonding(cand) \in Seq(Bond)
  BY BondingFacts
<1>. QED
  BY <1>1, <1>2, <1>3, <1>4, Zenon DEF Proposals

----------------------------------------------------------------------------
(* Types.  A candidate is there whenever one is being confirmed: without   *)
(* that a step could install a key the type does not allow.                *)

TypeInv == TypeOK /\ (pair = "CONFIRM" => cand \in Candidate)

LEMMA CleanupType ==
    ASSUME TypeOK, NEW m \in Mac, NEW spent \in Nat, CleanupCandidate(m, spent)
    PROVE  /\ cand' = NoCandidate /\ eph' = 0 /\ faults' \in Nat
           /\ peers' \in [Mac -> Key \cup {NoKey, FailedKey}]
<1>1. m \in Macs(dials) => BondOf(m).lmk \in Key
  BY BondFound DEF TypeOK, Bond
<1>. QED
  BY <1>1 DEF TypeOK, CleanupCandidate, Spend

LEMMA InstalledType ==
    ASSUME peers \in [Mac -> Key \cup {NoKey, FailedKey}],
           NEW table \in Seq(Bond), NEW n \in 0..Len(table)
    PROVE  Installed(table, n) \in [Mac -> Key \cup {NoKey, FailedKey}]
<1>1. \A i \in 1..n : table[i] \in Bond
  OBVIOUS
<1>2. \A i \in 1..n : table[i].lmk \in Key
  BY <1>1 DEF Bond
<1>3. ASSUME NEW m \in Mac, \E i \in 1..n : table[i].mac = m
      PROVE  table[CHOOSE i \in 1..n : table[i].mac = m].lmk \in Key
  BY <1>2, <1>3
<1>. QED
  BY <1>3 DEF Installed

LEMMA PairEndType ==
    ASSUME NEW r \in Results, PairEnd(r)
    PROVE  /\ pair' = "OFF" /\ pair' \in {"OFF", "WINDOW", "CONFIRM"}
           /\ pair' # "CONFIRM" /\ result' \in Results /\ bcast' \in BOOLEAN
BY DEF PairEnd

LEMMA PowerOffType ==
    ASSUME TypeOK, PowerOff, stored' \in Seq(Bond), proven' \subseteq Mac
    PROVE  TypeInv'
<1>1. started' \in BOOLEAN /\ blind' \in BOOLEAN /\ bcast' \in BOOLEAN
  BY DEF PowerOff
<1>2. dials' \in Seq(Bond) /\ seen' \subseteq Mac
      /\ peers' \in [Mac -> Key \cup {NoKey, FailedKey}]
  BY DEF PowerOff
<1>3. pair' \in {"OFF", "WINDOW", "CONFIRM"} /\ pair' # "CONFIRM"
      /\ cand' \in Candidate \cup {NoCandidate} /\ result' \in Results
      /\ out' \in Outcomes
  BY DEF PowerOff, Results, Outcomes
<1>4. eph' \in Nat /\ epoch' \in Nat /\ windows' \in Nat /\ boots' \in Nat
      /\ faults' \in Nat
  BY DEF PowerOff, TypeOK
<1>. QED
  BY <1>1, <1>2, <1>3, <1>4 DEF TypeInv, TypeOK

LEMMA InitType == Init => TypeInv
<1>. SUFFICES ASSUME Init PROVE TypeInv
  OBVIOUS
<1>1. stored \in Seq(Bond)
  <2>1. LegacyBond \subseteq Bond
    <3>1. [dial : DialEph, ctrl : {0}] \subseteq Key
      BY DEF Key
    <3>. QED
      BY <3>1 DEF LegacyBond, Bond
  <2>2. PICK n \in 0..MaxDials : stored \in [1..n -> LegacyBond]
    BY DEF Init
  <2>. QED
    BY <2>1, <2>2
<1>2. Silent \in Outcomes
  BY DEF Outcomes
<1>3. started \in BOOLEAN /\ blind \in BOOLEAN /\ bcast \in BOOLEAN
  BY DEF Init
<1>4. dials \in Seq(Bond) /\ peers \in [Mac -> Key \cup {NoKey, FailedKey}]
  BY DEF Init
<1>5. /\ eph \in Nat /\ epoch \in Nat /\ windows \in Nat /\ boots \in Nat
      /\ faults \in Nat
  BY DEF Init
<1>. QED
  BY <1>1, <1>2, <1>3, <1>4, <1>5 DEF Init, TypeInv, TypeOK, Results

LEMMA NextType == TypeInv /\ [Next]_vars => TypeInv'
<1>. SUFFICES ASSUME TypeInv, [Next]_vars PROVE TypeInv'
  OBVIOUS
<1>. USE DEF TypeInv
<1>a. Silent \in Outcomes
  BY DEF Outcomes
<1>b. \A m \in Mac, k \in Key :
        Resp(m, k) \in Outcomes /\ Ack(m, k) \in Outcomes
  BY DEF Outcomes, Resp, Ack
<1>c. \A m \in Mac, f \in {"cmd", "room", "wifi"}, e \in Nat :
        Act(f, m, e) \in Outcomes
  BY DEF Outcomes, Act
<1>d. \A M \in SUBSET Mac : Forgot(M) \in Outcomes
  BY DEF Outcomes, Forgot
<1>1. CASE Start
  <2>1. PICK readable \in BOOLEAN :
          /\ dials' = Loaded(readable)
          /\ blind' = (~readable /\ Loaded(readable) = <<>>)
          /\ \/ peers' = Installed(Loaded(readable), Len(Loaded(readable)))
             \/ \E n \in DOMAIN Loaded(readable) :
                  peers' = [Installed(Loaded(readable), n - 1)
                              EXCEPT ![Loaded(readable)[n].mac] = FailedKey]
    BY <1>1 DEF Start
  <2>2. dials' \in Seq(Bond)
    BY <2>1 DEF TypeOK, Loaded
  <2>3. \A n \in 0..Len(dials') :
          Installed(dials', n) \in [Mac -> Key \cup {NoKey, FailedKey}]
    BY <2>2, InstalledType DEF TypeOK
  <2>4. peers' \in [Mac -> Key \cup {NoKey, FailedKey}]
    BY <2>1, <2>2, <2>3
  <2>5. started' \in BOOLEAN /\ blind' \in BOOLEAN /\ bcast' \in BOOLEAN
    BY <1>1, <2>1 DEF Start, TypeOK, pairingVars
  <2>6. epoch' \in Nat /\ faults' \in Nat
    BY <1>1 DEF Start, TypeOK, Spend
  <2>. QED
    BY <1>1, <2>2, <2>4, <2>5, <2>6, <1>a DEF Start, TypeOK, pairingVars
<1>2. CASE PairStart
  <2>1. started' \in BOOLEAN /\ blind' \in BOOLEAN /\ bcast' \in BOOLEAN
    BY <1>2 DEF PairStart, TypeOK, tableVars, bootVars
  <2>2. eph' \in Nat /\ windows' \in Nat /\ faults' \in Nat
    BY <1>2 DEF PairStart, TypeOK, Spend
  <2>. QED
    BY <1>2, <2>1, <2>2, <1>a DEF PairStart, TypeOK, Results, tableVars, bootVars
<1>3. CASE PairStartRefused
  BY <1>3, <1>a DEF PairStartRefused, TypeOK, Results, Spend, tableVars, bootVars
<1>4. CASE PairCancel
  <2>1. pair = "CONFIRM" => cand.mac \in Mac
    BY DEF Candidate
  <2>. QED
    BY <1>4, <1>a, <2>1, CleanupType, PairEndType
    DEF PairCancel, TypeOK, Results, tableVars, bootVars
<1>5. CASE WindowTimeout
  BY <1>5, <1>a DEF WindowTimeout, PairEnd, TypeOK, Results, tableVars, bootVars
<1>6. CASE ConfirmTimeout
  <2>1. cand.mac \in Mac
    BY <1>6 DEF Candidate, ConfirmTimeout
  <2>. QED
    BY <1>6, <1>a, <2>1, CleanupType, PairEndType
    DEF ConfirmTimeout, TypeOK, Results, tableVars, bootVars
<1>7. ASSUME NEW m \in Mac, NEW id \in Id, NEW e \in DialEph,
             PairReq(m, id, e)
      PROVE  TypeInv'
  <2>0. [dial |-> e, ctrl |-> eph] \in Key
    BY DEF TypeOK, Key
  <2>1. CASE PairReqPastMaxLinks(m)
    BY <2>1, <1>a
    DEF PairReqPastMaxLinks, TypeOK, Results, tableVars, bootVars
  <2>2. CASE PairReqRefused(m, id)
    BY <2>2, <1>a DEF PairReqRefused, TypeOK, Results, tableVars, bootVars
  <2>3. CASE PairReqRepeated(m, id, e)
    BY <2>3, <2>0, <1>b
    DEF PairReqRepeated, TypeOK, tableVars, bootVars, pairingVars
  <2>4. CASE PairReqAdmitted(m, id, e)
    <3>. DEFINE lmk == [dial |-> e, ctrl |-> eph]
    <3>1. CASE CleanupCandidate(m, 1) /\ PairEnd("cancelled") /\ out' = Silent
      BY <3>1, <2>4, <1>a, CleanupType, PairEndType
      DEF PairReqAdmitted, TypeOK, Results, tableVars, bootVars
    <3>2. CASE /\ peers' = [peers EXCEPT ![m] = lmk]
               /\ Spend(0)
               /\ pair' = "CONFIRM" /\ result' = "confirming"
               /\ cand' = [mac |-> m, lmk |-> lmk, id |-> id]
               /\ out' = Resp(m, lmk)
               /\ UNCHANGED <<eph, bcast>>
      <4>1. cand' \in Candidate
        BY <3>2, <2>0 DEF Candidate
      <4>. QED
        BY <3>2, <4>1, <2>4, <2>0, <1>b
        DEF PairReqAdmitted, TypeOK, Results, tableVars, bootVars, Spend
    <3>. QED
      BY <3>1, <3>2, <2>4 DEF PairReqAdmitted
  <2>. QED
    BY <1>7, <2>1, <2>2, <2>3, <2>4 DEF PairReq
<1>8. ASSUME NEW m \in Mac, NEW k \in Key, PairConfirm(m, k)
      PROVE  TypeInv'
  <2>1. CASE IsCandidate(m) /\ Commit
    <3>1. cand \in Candidate /\ cand.mac \in Mac /\ cand.lmk \in Key
      BY <2>1 DEF IsCandidate, Candidate
    <3>. QED
      BY <2>1, <3>1, <1>b, BondingFacts
      DEF Commit, Save, PairEnd, TypeOK, Results, bootVars
  <2>2. CASE IsCandidate(m) /\ CommitFails
    <3>1. cand.mac \in Mac
      BY <2>2 DEF IsCandidate, Candidate
    <3>. QED
      BY <2>2, <3>1, <1>a, CleanupType, PairEndType
      DEF CommitFails, SaveFails, TypeOK, Results, tableVars, bootVars
  <2>3. CASE /\ out' = Ack(m, k)
             /\ UNCHANGED <<tableVars, bootVars, pairingVars, peers, windows,
                            faults>>
    BY <2>3, <1>b DEF TypeOK, tableVars, bootVars, pairingVars
  <2>. QED
    BY <1>8, <2>1, <2>2, <2>3 DEF PairConfirm
<1>9. ASSUME NEW f \in {"cmd", "room", "wifi"}, NEW m \in Mac, NEW e \in Nat,
             FromBonded(m), EpochOk(f, m, e),
             UNCHANGED <<bootVars, pairingVars, peers, windows>>
      PROVE  TypeInv'
  <2>1. Latching(m) \in Seq(Bond)
    BY <1>9, LatchingFacts DEF FromBonded, TypeOK
  <2>2. dials' \in Seq(Bond) /\ stored' \in Seq(Bond) /\ seen' \subseteq Mac
        /\ blind' \in BOOLEAN
    BY <1>9, <2>1 DEF EpochOk, Save, TypeOK
  <2>3. proven' \subseteq Mac /\ out' \in Outcomes /\ faults' \in Nat
    BY <1>9, <1>a, <1>c DEF EpochOk, AcceptAs, Spend, TypeOK
  <2>. QED
    BY <1>9, <2>2, <2>3 DEF TypeOK, bootVars, pairingVars
<1>10. CASE \E m \in Mac : ForgetDial(m)
  <2>1. PICK m \in Mac : ForgetDial(m)
    BY <1>10
  <2>2. CASE ForgetBonded(m)
    <3>1. Forgetting(m) \in Seq(Bond)
      BY <2>2, ForgettingFacts DEF ForgetBonded, TypeOK
    <3>2. /\ pair' \in {"OFF", "WINDOW", "CONFIRM"} /\ result' \in Results
          /\ bcast' \in BOOLEAN /\ eph' \in Nat
          /\ cand' \in Candidate \cup {NoCandidate}
          /\ pair' = "CONFIRM" => cand' \in Candidate
      BY <2>2, PairEndType
      DEF ForgetBonded, CancelCandidacy, TypeOK, Results, pairingVars
    <3>. QED
      BY <2>2, <3>1, <3>2, <1>d DEF ForgetBonded, Save, TypeOK, bootVars
  <2>3. CASE ForgetNewCandidate(m)
    BY <2>3, <1>d, CleanupType, PairEndType
    DEF ForgetNewCandidate, TypeOK, Results, tableVars, bootVars
  <2>. QED
    BY <2>1, <2>2, <2>3 DEF ForgetDial
<1>11. CASE ForgetAll
  <2>1. /\ pair' \in {"OFF", "WINDOW", "CONFIRM"} /\ result' \in Results
        /\ bcast' \in BOOLEAN /\ eph' \in Nat
        /\ cand' \in Candidate \cup {NoCandidate}
        /\ pair' = "CONFIRM" => cand' \in Candidate
    BY <1>11, PairEndType DEF ForgetAll, TypeOK, Results, pairingVars
  <2>2. blind' \in BOOLEAN /\ started' \in BOOLEAN
    BY <1>11 DEF ForgetAll, Save, TypeOK, bootVars
  <2>3. peers' \in [Mac -> Key \cup {NoKey, FailedKey}]
    BY <1>11 DEF ForgetAll, TypeOK
  <2>4. out' \in Outcomes
    BY <1>11, <1>d DEF ForgetAll
  <2>5. dials' \in Seq(Bond) /\ stored' \in Seq(Bond)
        /\ seen' \subseteq Mac /\ proven' \subseteq Mac
    BY <1>11 DEF ForgetAll, Save
  <2>. QED
    BY <1>11, <2>1, <2>2, <2>3, <2>4, <2>5 DEF ForgetAll, TypeOK, bootVars
<1>12. CASE RepairPeers
  <2>1. \A m \in Macs(dials) : BondOf(m).lmk \in Key
    BY BondFound DEF TypeOK, Bond
  <2>. DEFINE wrong == {m \in Macs(dials) : peers[m] # BondOf(m).lmk}
  <2>2. PICK bad \in SUBSET wrong :
          /\ peers' = [m \in Mac |-> IF m \in bad THEN FailedKey
                                     ELSE IF m \in wrong THEN BondOf(m).lmk
                                     ELSE peers[m]]
          /\ Spend(IF bad = {} THEN 0 ELSE 1)
    BY <1>12 DEF RepairPeers
  <2>3. faults' \in Nat
    BY <2>2 DEF Spend, TypeOK
  <2>. QED
    BY <1>12, <2>1, <2>2, <2>3, <1>a
    DEF RepairPeers, TypeOK, tableVars, bootVars, pairingVars
<1>13. CASE PowerLoss
  BY <1>13, PowerOffType DEF PowerLoss, TypeOK
<1>14. CASE PowerLossAfterSave
  <2>1. stored' \in Seq(Bond) /\ proven' \subseteq Mac
    BY <1>14, ProposalsAreTables DEF PowerLossAfterSave, TypeOK
  <2>. QED
    BY <1>14, <2>1, PowerOffType DEF PowerLossAfterSave
<1>15. CASE UNCHANGED vars
  BY <1>15 DEF TypeOK, vars
<1>16. ASSUME NEW m \in Mac, NEW d \in DialEph, NEW c \in 0..windows,
              PairConfirm(m, [dial |-> d, ctrl |-> c])
       PROVE  TypeInv'
  BY <1>16, <1>8 DEF TypeOK, Key
<1>17. ASSUME NEW m \in Mac, NEW e \in 0..boots,
              Command(m, e) \/ WifiSessionFrame(m, e)
       PROVE  TypeInv'
  BY <1>17, <1>9 DEF Command, WifiSessionFrame, TypeOK
<1>18. ASSUME NEW m \in Mac, NEW e \in 0..boots, NEW v5 \in BOOLEAN,
              RoomFrame(m, v5, e)
       PROVE  TypeInv'
  BY <1>18, <1>9 DEF RoomFrame, TypeOK
<1>. QED
  BY <1>1, <1>2, <1>3, <1>4, <1>5, <1>6, <1>7, <1>10, <1>11, <1>12, <1>13,
     <1>14, <1>15, <1>16, <1>17, <1>18
  DEF Next

(* Every variable keeps its type. *)
THEOREM TypeCorrect == Spec => []TypeOK
<1>1. TypeInv => TypeOK
  BY DEF TypeInv
<1>. QED
  BY <1>1, InitType, NextType, PTL DEF Spec

----------------------------------------------------------------------------
(* How the bond table can change: a handler saves one of the proposals and *)
(* publishes it, a start loads it, or power is lost.                       *)

TableKept == UNCHANGED <<dials, stored, blind, started>>

TableSaved ==
    \E table \in Proposals :
      /\ stored' = table /\ dials' = table /\ blind' = FALSE
      /\ started' = started

LEMMA TableStep ==
    ASSUME [Next]_vars
    PROVE  TableKept \/ TableSaved \/ Start \/ PowerLoss \/ PowerLossAfterSave
<1>. USE DEF tableVars, bootVars
<1>1. CASE PairStart \/ PairStartRefused \/ PairCancel \/ WindowTimeout
           \/ ConfirmTimeout \/ RepairPeers \/ UNCHANGED vars
  BY <1>1 DEF PairStart, PairStartRefused, PairCancel, WindowTimeout,
              ConfirmTimeout, RepairPeers, vars, TableKept
<1>2. ASSUME NEW m \in Mac, NEW id \in Id, NEW e \in DialEph,
             PairReq(m, id, e)
      PROVE  TableKept
  BY <1>2 DEF PairReq, PairReqPastMaxLinks, PairReqRefused, PairReqRepeated,
              PairReqAdmitted, TableKept
<1>3. ASSUME NEW m, NEW k, PairConfirm(m, k)
      PROVE  TableKept \/ TableSaved
  <2>1. CASE IsCandidate(m) /\ Commit
    <3>1. Bonding(cand) \in Proposals
      BY <2>1 DEF Proposals, IsCandidate
    <3>. QED
      BY <2>1, <3>1 DEF Commit, Save, TableSaved
  <2>2. CASE CommitFails
    BY <2>2 DEF CommitFails, SaveFails, TableKept
  <2>3. CASE UNCHANGED <<tableVars, bootVars>>
    BY <2>3 DEF TableKept
  <2>. QED
    BY <1>3, <2>1, <2>2, <2>3 DEF PairConfirm
<1>4. ASSUME NEW f, NEW m, NEW e, FromBonded(m), EpochOk(f, m, e),
             UNCHANGED bootVars
      PROVE  TableKept \/ TableSaved
  <2>1. CASE epoch # 0 /\ ~BondOf(m).latched /\ Save(Latching(m))
             /\ dials' = Latching(m)
    <3>1. Latching(m) \in Proposals
      BY <1>4, <2>1 DEF Proposals, FromBonded
    <3>. QED
      BY <1>4, <2>1, <3>1 DEF Save, TableSaved
  <2>. QED
    BY <1>4, <2>1 DEF EpochOk, TableKept
<1>5. ASSUME NEW m \in Mac, ForgetDial(m)
      PROVE  TableKept \/ TableSaved
  <2>1. CASE ForgetBonded(m)
    BY <2>1 DEF ForgetBonded, Proposals, Save, TableSaved
  <2>2. CASE ForgetNewCandidate(m)
    BY <2>2 DEF ForgetNewCandidate, TableKept
  <2>. QED
    BY <1>5, <2>1, <2>2 DEF ForgetDial
<1>6. CASE ForgetAll
  BY <1>6 DEF ForgetAll, Proposals, Save, TableSaved
<1>7. ASSUME NEW m \in Mac, NEW e, Command(m, e) \/ WifiSessionFrame(m, e)
      PROVE  TableKept \/ TableSaved
  BY <1>7, <1>4 DEF Command, WifiSessionFrame
<1>8. ASSUME NEW m \in Mac, NEW e, NEW v5, RoomFrame(m, v5, e)
      PROVE  TableKept \/ TableSaved
  BY <1>8, <1>4 DEF RoomFrame
<1>. QED
  BY <1>1, <1>2, <1>3, <1>5, <1>6, <1>7, <1>8 DEF Next

----------------------------------------------------------------------------
(* Durability. *)

LEMMA InitDurable == Init => DurableTable
BY DEF Init, DurableTable

LEMMA NextDurable == DurableTable /\ [Next]_vars => DurableTable'
<1>. SUFFICES ASSUME DurableTable, [Next]_vars PROVE DurableTable'
  OBVIOUS
<1>1. CASE TableKept
  BY <1>1 DEF TableKept, DurableTable
<1>2. CASE TableSaved
  BY <1>2 DEF TableSaved, DurableTable
<1>3. CASE Start
  <2>1. PICK readable \in BOOLEAN :
          /\ dials' = Loaded(readable)
          /\ blind' = (~readable /\ Loaded(readable) = <<>>)
    BY <1>3 DEF Start
  <2>2. stored' = stored
    BY <1>3 DEF Start
  <2>. QED
    BY <2>1, <2>2 DEF Loaded, DurableTable
<1>4. CASE PowerLoss \/ PowerLossAfterSave
  BY <1>4 DEF PowerLoss, PowerLossAfterSave, PowerOff, DurableTable
<1>. QED
  BY <1>1, <1>2, <1>3, <1>4, TableStep

(* What RAM serves is what a reboot would load: no failing save and no     *)
(* power loss, not even between a save and what follows it, separates the  *)
(* bond table from the store.                                              *)
THEOREM TableIsDurable == Spec => []DurableTable
BY InitDurable, NextDurable, PTL DEF Spec

----------------------------------------------------------------------------
(* One slot for a dial. *)

LEMMA ProposalsFit ==
    ASSUME dials \in Seq(Bond), Unique(dials), Len(dials) <= MaxDials,
           pair = "CONFIRM" =>
             /\ cand \in Candidate
             /\ cand.mac \notin Macs(dials) => Len(dials) < MaxDials,
           NEW table \in Proposals
    PROVE  Unique(table) /\ Len(table) <= MaxDials
<1>1. CASE table = <<>>
  BY <1>1, ConstantsAssumption DEF Unique
<1>2. ASSUME NEW m \in Macs(dials), table = Forgetting(m)
      PROVE  Unique(table) /\ Len(table) <= MaxDials
  <2>1. SlotOf(m) \in DOMAIN dials
    BY SlotFound
  <2>2. /\ Len(table) = Len(dials) - 1 /\ DOMAIN table = 1..(Len(dials) - 1)
        /\ \A i \in DOMAIN table :
             table[i] = IF i < SlotOf(m) THEN dials[i] ELSE dials[i + 1]
    BY <1>2, ForgettingFacts
  <2>3. ASSUME NEW i \in DOMAIN table, NEW j \in DOMAIN table,
               table[i].mac = table[j].mac
        PROVE  i = j
    <3>. DEFINE Source(x) == IF x < SlotOf(m) THEN x ELSE x + 1
    <3>1. Source(i) \in DOMAIN dials /\ Source(j) \in DOMAIN dials
      BY <2>1, <2>2
    <3>2. table[i] = dials[Source(i)] /\ table[j] = dials[Source(j)]
      BY <2>2
    <3>3. Source(i) = Source(j)
      BY <2>3, <3>1, <3>2 DEF Unique
    <3>. QED
      BY <2>1, <2>2, <3>3
  <2>. QED
    BY <2>2, <2>3, ConstantsAssumption DEF Unique
<1>3. ASSUME NEW m \in Macs(dials), table = Latching(m)
      PROVE  Unique(table) /\ Len(table) <= MaxDials
  BY <1>3, LatchingFacts DEF Unique
<1>4. CASE pair = "CONFIRM" /\ table = Bonding(cand)
  <2>1. NewBond(cand).mac = cand.mac
    BY DEF NewBond
  <2>2. CASE cand.mac \in Macs(dials)
    <3>1. SlotOf(cand.mac) \in DOMAIN dials
          /\ dials[SlotOf(cand.mac)].mac = cand.mac
      BY <2>2, SlotFound DEF BondOf
    <3>. QED
      BY <1>4, <2>1, <2>2, <3>1, BondingFacts DEF Unique
  <2>3. CASE cand.mac \notin Macs(dials)
    <3>1. \A i \in DOMAIN dials : dials[i].mac # cand.mac
      BY <2>3 DEF Macs
    <3>. QED
      BY <1>4, <2>1, <2>3, <3>1, BondingFacts, ConstantsAssumption DEF Unique
  <2>. QED
    BY <2>2, <2>3
<1>. QED
  BY <1>1, <1>2, <1>3, <1>4 DEF Proposals
----------------------------------------------------------------------------
(* Pairing and its candidate. *)

Coherent == TypeInv /\ DurableTable /\ OneSlotPerDial /\ PairingCoherent

LEMMA InitCoherent == Init => OneSlotPerDial /\ PairingCoherent
<1>. SUFFICES ASSUME Init PROVE OneSlotPerDial /\ PairingCoherent
  OBVIOUS
<1>1. PICK n \in 0..MaxDials : stored \in [1..n -> LegacyBond]
  BY DEF Init
<1>2. Len(stored) <= MaxDials /\ Len(<<>>) <= MaxDials
  BY <1>1, ConstantsAssumption
<1>3. OneSlotPerDial
  BY <1>2 DEF Init, OneSlotPerDial, Unique
<1>4. PairingCoherent
  BY DEF Init, PairingCoherent
<1>. QED
  BY <1>3, <1>4

LEMMA NextOneSlot == Coherent /\ [Next]_vars => OneSlotPerDial'
<1>. SUFFICES ASSUME Coherent, [Next]_vars PROVE OneSlotPerDial'
  OBVIOUS
<1>. USE DEF Coherent
<1>1. \A table \in Proposals : Unique(table) /\ Len(table) <= MaxDials
  BY ProposalsFit DEF TypeInv, TypeOK, OneSlotPerDial, PairingCoherent
<1>2. CASE TableKept
  BY <1>2 DEF TableKept, OneSlotPerDial, Unique
<1>3. CASE TableSaved
  BY <1>1, <1>3 DEF TableSaved, OneSlotPerDial, Unique
<1>4. CASE Start
  BY <1>4 DEF Start, Loaded, OneSlotPerDial, Unique
<1>5. CASE PowerLoss \/ PowerLossAfterSave
  <2>1. dials' = <<>> /\ (stored' = stored \/ stored' \in Proposals)
    BY <1>5 DEF PowerLoss, PowerLossAfterSave, PowerOff
  <2>2. Len(<<>>) <= MaxDials
    BY ConstantsAssumption
  <2>. QED
    BY <1>1, <2>1, <2>2 DEF OneSlotPerDial, Unique
<1>. QED
  BY <1>2, <1>3, <1>4, <1>5, TableStep
(* Every way out of pairing leaves it coherent. *)
LEMMA ClosingCoherent ==
    ASSUME NEW r \in Results \ {"listening", "confirming"}, PairEnd(r),
           cand' = NoCandidate
    PROVE  PairingCoherent'
BY DEF PairEnd, PairingCoherent

(* So does a change of the table that drops no candidate's bond, while the *)
(* pairing itself stays as it is.                                          *)
LEMMA TableChangeCoherent ==
    ASSUME Coherent, UNCHANGED <<pair, cand, eph, result, bcast, windows, started>>,
           \A j \in DOMAIN dials' : \E i \in DOMAIN dials :
             dials'[j].mac = dials[i].mac /\ dials'[j].id = dials[i].id,
           cand.mac \in Macs(dials) /\ pair = "CONFIRM" => cand.mac \in Macs(dials'),
           dials' \in Seq(Bond), Len(dials') <= Len(dials)
    PROVE  PairingCoherent'
<1>1. pair = "CONFIRM" => \A i \in DOMAIN dials' :
                            dials'[i].mac = cand.mac => dials'[i].id = cand.id
  BY DEF Coherent, PairingCoherent
<1>2. pair = "CONFIRM" /\ cand.mac \notin Macs(dials') => Len(dials') < MaxDials
  BY ConstantsAssumption DEF Coherent, PairingCoherent, TypeInv, TypeOK
<1>. QED
  BY <1>1, <1>2 DEF Coherent, PairingCoherent

LEMMA UniqueSlot ==
    ASSUME Unique(dials), NEW i \in DOMAIN dials
    PROVE  SlotOf(dials[i].mac) = i /\ BondOf(dials[i].mac) = dials[i]
<1>1. dials[i].mac \in Macs(dials)
  BY DEF Macs
<1>. QED
  BY <1>1, SlotFound DEF Unique, BondOf

LEMMA NextPairing == Coherent /\ [Next]_vars => PairingCoherent'
<1>. SUFFICES ASSUME Coherent, [Next]_vars PROVE PairingCoherent'
  OBVIOUS
<1>. USE DEF Coherent
<1>0. ASSUME UNCHANGED <<dials, pair, cand, eph, result, bcast, windows, started>>
      PROVE  PairingCoherent'
  BY <1>0 DEF PairingCoherent
<1>1. CASE Start
  BY <1>1 DEF Start, PairingCoherent, pairingVars
<1>2. CASE PairStart
  <2>1. CASE /\ pair' = "WINDOW" /\ result' = "listening"
             /\ bcast' = TRUE /\ eph' = windows + 1
    BY <1>2, <2>1 DEF PairStart, PairingCoherent, TypeInv, TypeOK, bootVars
  <2>2. CASE result' = "idle" /\ UNCHANGED <<pair, bcast>>
    BY <1>2, <2>2 DEF PairStart, PairingCoherent, bootVars
  <2>. QED
    BY <1>2, <2>1, <2>2 DEF PairStart
<1>3. CASE PairStartRefused
  BY <1>3 DEF PairStartRefused, PairingCoherent, bootVars, tableVars
<1>4. CASE PairCancel
  <2>1. cand' = NoCandidate
    BY <1>4 DEF PairCancel, CleanupCandidate, PairingCoherent
  <2>. QED
    BY <1>4, <2>1, ClosingCoherent DEF PairCancel, Results
<1>5. CASE WindowTimeout
  <2>1. cand' = NoCandidate
    BY <1>5 DEF WindowTimeout, PairingCoherent
  <2>. QED
    BY <1>5, <2>1, ClosingCoherent DEF WindowTimeout, Results
<1>6. CASE ConfirmTimeout
  BY <1>6, ClosingCoherent DEF ConfirmTimeout, CleanupCandidate, Results
<1>7. ASSUME NEW m \in Mac, NEW id \in Id, NEW e \in DialEph,
             PairReq(m, id, e)
      PROVE  PairingCoherent'
  <2>1. CASE PairReqPastMaxLinks(m)
    BY <2>1 DEF PairReqPastMaxLinks, PairingCoherent, tableVars, bootVars
  <2>2. CASE PairReqRefused(m, id)
    <3>1. pair = "CONFIRM" => ~TableFull(m)
      BY <2>2, ConstantsAssumption
      DEF PairReqRefused, Considered, TableFull, PairingCoherent, TypeInv, TypeOK
    <3>. QED
      BY <2>2, <3>1
      DEF PairReqRefused, Considered, PairingCoherent, tableVars, bootVars
  <2>3. CASE PairReqRepeated(m, id, e)
    BY <2>3, <1>0 DEF PairReqRepeated, tableVars, bootVars, pairingVars
  <2>4. CASE PairReqAdmitted(m, id, e)
    <3>. DEFINE lmk == [dial |-> e, ctrl |-> eph]
    <3>1. CASE CleanupCandidate(m, 1) /\ PairEnd("cancelled")
      BY <3>1, ClosingCoherent DEF CleanupCandidate, Results
    <3>2. CASE /\ pair' = "CONFIRM" /\ result' = "confirming"
               /\ cand' = [mac |-> m, lmk |-> lmk, id |-> id]
               /\ UNCHANGED <<eph, bcast>>
      <4>1. cand' \in Candidate
        <5>1. lmk \in Key
          BY DEF Key, TypeInv, TypeOK
        <5>. QED
          BY <3>2, <5>1 DEF Candidate
      <4>2. cand' # NoCandidate
        BY <4>1, ConstantsAssumption
      <4>3. \A i \in DOMAIN dials : dials[i].mac = m => dials[i].id = id
        BY <2>4, UniqueSlot DEF PairReqAdmitted, PinMismatch, OneSlotPerDial, Macs
      <4>4. m \notin Macs(dials) => Len(dials) < MaxDials
        BY <2>4, ConstantsAssumption
        DEF PairReqAdmitted, TableFull, TypeInv, TypeOK
      <4>5. UNCHANGED <<dials, windows, started>> /\ pair = "WINDOW"
        BY <2>4 DEF PairReqAdmitted, tableVars, bootVars
      <4>6. cand'.mac = m /\ cand'.id = id /\ cand'.lmk.ctrl = eph
        BY <3>2
      <4>. QED
        BY <3>2, <4>2, <4>3, <4>4, <4>5, <4>6 DEF PairingCoherent
    <3>. QED
      BY <2>4, <3>1, <3>2 DEF PairReqAdmitted
  <2>. QED
    BY <1>7, <2>1, <2>2, <2>3, <2>4 DEF PairReq
<1>8. ASSUME NEW m \in Mac, NEW k, PairConfirm(m, k)
      PROVE  PairingCoherent'
  <2>1. CASE Commit
    BY <2>1, ClosingCoherent DEF Commit, Results
  <2>2. CASE CommitFails
    BY <2>2, ClosingCoherent DEF CommitFails, CleanupCandidate, Results
  <2>3. CASE UNCHANGED <<tableVars, bootVars, pairingVars, peers, windows, faults>>
    BY <2>3, <1>0 DEF tableVars, bootVars, pairingVars
  <2>. QED
    BY <1>8, <2>1, <2>2, <2>3 DEF PairConfirm
<1>9. ASSUME NEW f, NEW m \in Mac, NEW e, FromBonded(m), EpochOk(f, m, e),
             UNCHANGED <<bootVars, pairingVars, windows>>
      PROVE  PairingCoherent'
  <2>1. CASE dials' = dials
    BY <1>9, <2>1, <1>0 DEF bootVars, pairingVars
  <2>2. CASE dials' = Latching(m)
    <3>1. /\ dials' \in Seq(Bond) /\ Len(dials') = Len(dials)
          /\ \A i \in DOMAIN dials : /\ dials'[i].mac = dials[i].mac
                                    /\ dials'[i].id = dials[i].id
      BY <1>9, <2>2, LatchingFacts DEF FromBonded, TypeInv, TypeOK
    <3>2. DOMAIN dials' = DOMAIN dials
      BY <3>1 DEF TypeInv, TypeOK
    <3>3. Macs(dials') = Macs(dials)
      BY <3>1, <3>2 DEF Macs
    <3>. QED
      BY <1>9, <3>1, <3>2, <3>3, TableChangeCoherent
      DEF bootVars, pairingVars, TypeInv, TypeOK
  <2>. QED
    BY <1>9, <2>1, <2>2 DEF EpochOk
<1>10. ASSUME NEW m \in Mac, ForgetDial(m) PROVE PairingCoherent'
  <2>1. CASE ForgetNewCandidate(m)
    BY <2>1, ClosingCoherent DEF ForgetNewCandidate, CleanupCandidate, Results
  <2>2. CASE ForgetBonded(m) /\ IsCandidate(m)
    BY <2>2, ClosingCoherent DEF ForgetBonded, CancelCandidacy, Results
  <2>3. CASE ForgetBonded(m) /\ ~IsCandidate(m)
    <3>1. dials \in Seq(Bond) /\ m \in Macs(dials) /\ dials' = Forgetting(m)
          /\ SlotOf(m) \in DOMAIN dials /\ dials[SlotOf(m)].mac = m
      BY <2>3, SlotFound DEF ForgetBonded, TypeInv, TypeOK, BondOf
    <3>2. /\ dials' \in Seq(Bond) /\ Len(dials') = Len(dials) - 1
          /\ \A i \in DOMAIN dials' :
               dials'[i] = IF i < SlotOf(m) THEN dials[i] ELSE dials[i + 1]
      BY <3>1, ForgettingFacts
    <3>3. \A j \in DOMAIN dials' : \E i \in DOMAIN dials : dials'[j] = dials[i]
      BY <3>1, <3>2
    <3>4. \A i \in DOMAIN dials :
            dials[i].mac # m => \E j \in DOMAIN dials' : dials'[j] = dials[i]
      <4>1. ASSUME NEW i \in DOMAIN dials, dials[i].mac # m
            PROVE  \E j \in DOMAIN dials' : dials'[j] = dials[i]
        <5>1. CASE i < SlotOf(m)
          BY <3>1, <3>2, <5>1
        <5>2. CASE i > SlotOf(m)
          <6>1. i - 1 \in DOMAIN dials' /\ dials'[i - 1] = dials[i]
            BY <3>1, <3>2, <5>2
          <6>. QED
            BY <6>1
        <5>. QED
          BY <3>1, <4>1, <5>1, <5>2
      <4>. QED
        BY <4>1
    <3>5. cand.mac \in Macs(dials) /\ pair = "CONFIRM" => cand.mac \in Macs(dials')
      BY <2>3, <3>4 DEF Macs, IsCandidate
    <3>. QED
      BY <2>3, <3>1, <3>2, <3>3, <3>5, TableChangeCoherent
      DEF ForgetBonded, CancelCandidacy, pairingVars, bootVars
  <2>. QED
    BY <1>10, <2>1, <2>2, <2>3 DEF ForgetDial
<1>11. CASE ForgetAll
  <2>1. CASE pair = "OFF"
    BY <1>11, <2>1 DEF ForgetAll, PairingCoherent, pairingVars, bootVars
  <2>2. CASE pair # "OFF"
    <3>1. cand' = NoCandidate
      BY <1>11, <2>2 DEF ForgetAll, PairingCoherent
    <3>. QED
      BY <1>11, <2>2, <3>1, ClosingCoherent DEF ForgetAll, Results
  <2>. QED
    BY <2>1, <2>2
<1>12. CASE RepairPeers
  BY <1>12, <1>0 DEF RepairPeers, tableVars, bootVars, pairingVars
<1>13. CASE PowerLoss \/ PowerLossAfterSave
  BY <1>13 DEF PowerLoss, PowerLossAfterSave, PowerOff, PairingCoherent
<1>14. CASE UNCHANGED vars
  BY <1>14, <1>0 DEF vars
<1>15. ASSUME NEW m \in Mac, NEW e, Command(m, e) \/ WifiSessionFrame(m, e)
       PROVE  PairingCoherent'
  BY <1>15, <1>9 DEF Command, WifiSessionFrame
<1>16. ASSUME NEW m \in Mac, NEW e, NEW v5, RoomFrame(m, v5, e)
       PROVE  PairingCoherent'
  BY <1>16, <1>9 DEF RoomFrame
<1>. QED
  BY <1>1, <1>2, <1>3, <1>4, <1>5, <1>6, <1>7, <1>8, <1>10, <1>11, <1>12,
     <1>13, <1>14, <1>15, <1>16
  DEF Next

LEMMA AlwaysCoherent == Spec => []Coherent
<1>1. Init => Coherent
  BY InitType, InitDurable, InitCoherent DEF Coherent
<1>2. Coherent /\ [Next]_vars => Coherent'
  BY NextType, NextDurable, NextOneSlot, NextPairing DEF Coherent
<1>. QED
  BY <1>1, <1>2, PTL DEF Spec

(* No dial ever holds two slots, and the table never outgrows the blob. *)
THEOREM OneSlotAlways == Spec => []OneSlotPerDial
<1>1. Coherent => OneSlotPerDial
  BY DEF Coherent
<1>. QED
  BY <1>1, AlwaysCoherent, PTL

(* Pairing state, candidate, keys, broadcast peer and result agree in      *)
(* every reachable state.                                                  *)
THEOREM PairingAlwaysCoherent == Spec => []PairingCoherent
<1>1. Coherent => PairingCoherent
  BY DEF Coherent
<1>. QED
  BY <1>1, AlwaysCoherent, PTL

----------------------------------------------------------------------------

(* Once a dial has proven that it echoes epochs, its stored bond says so.  *)
ProvenIsLatched ==
    \A i \in DOMAIN stored : stored[i].mac \in proven => stored[i].latched

(* Every bond of a proposed table is a bond of the table in RAM, perhaps   *)
(* newly latched, or the confirmed candidate's.                            *)
LEMMA ProposalEntries ==
    ASSUME Coherent, NEW table \in Proposals, NEW i \in DOMAIN table
    PROVE  \/ pair = "CONFIRM" /\ table[i] = NewBond(cand)
           \/ \E j \in DOMAIN dials :
                /\ table[i].mac = dials[j].mac /\ table[i].lmk = dials[j].lmk
                /\ table[i].id = dials[j].id
                /\ dials[j].latched => table[i].latched
<1>0. dials \in Seq(Bond) /\ (pair = "CONFIRM" => cand \in Candidate)
  BY DEF Coherent, TypeInv, TypeOK
<1>1. CASE table = <<>>
  BY <1>1
<1>2. ASSUME NEW m \in Macs(dials), table = Forgetting(m)
      PROVE  \E j \in DOMAIN dials : table[i] = dials[j]
  BY <1>0, <1>2, SlotFound, ForgettingFacts
<1>3. ASSUME NEW m \in Macs(dials), table = Latching(m)
      PROVE  /\ i \in DOMAIN dials
             /\ table[i].mac = dials[i].mac /\ table[i].lmk = dials[i].lmk
             /\ table[i].id = dials[i].id
             /\ dials[i].latched => table[i].latched
  BY <1>0, <1>3, LatchingFacts
<1>4. CASE pair = "CONFIRM" /\ table = Bonding(cand)
  <2>1. table[i] = NewBond(cand) \/ (i \in DOMAIN dials /\ table[i] = dials[i])
    BY <1>0, <1>4, BondingFacts
  <2>. QED
    BY <1>4, <2>1
<1>. QED
  BY <1>1, <1>2, <1>3, <1>4 DEF Proposals

(* A bonded dial's controller has read the store. *)
LEMMA ReadWhenBonded ==
    ASSUME DurableTable, dials # <<>>
    PROVE  dials = stored
BY DEF DurableTable

----------------------------------------------------------------------------
(* The replay guard. *)

LEMMA ProposalsLatched ==
    ASSUME Coherent, ProvenIsLatched, NEW table \in Proposals,
           NEW i \in DOMAIN table, table[i].mac \in proven
    PROVE  table[i].latched
<1>1. CASE table[i] = NewBond(cand)
  BY <1>1 DEF NewBond
<1>2. ASSUME NEW j \in DOMAIN dials,
             table[i].mac = dials[j].mac, dials[j].latched => table[i].latched
      PROVE  table[i].latched
  <2>1. dials = stored
    BY <1>2, ReadWhenBonded DEF Coherent
  <2>. QED
    BY <1>2, <2>1 DEF ProvenIsLatched
<1>. QED
  BY <1>1, <1>2, ProposalEntries

LEMMA InitProven == Init => ProvenIsLatched
BY DEF Init, ProvenIsLatched

LEMMA NextProven == Coherent /\ ProvenIsLatched /\ [Next]_vars => ProvenIsLatched'
<1>. SUFFICES ASSUME Coherent, ProvenIsLatched, [Next]_vars
              PROVE  ProvenIsLatched'
  OBVIOUS
<1>0. dials \in Seq(Bond) /\ (pair = "CONFIRM" => cand \in Candidate)
      /\ Unique(dials)
  BY DEF Coherent, TypeInv, TypeOK, OneSlotPerDial
<1>1. ASSUME UNCHANGED <<stored, proven>> PROVE ProvenIsLatched'
  BY <1>1 DEF ProvenIsLatched
<1>2. ASSUME stored' \in Proposals, proven' \subseteq proven PROVE ProvenIsLatched'
  BY <1>2, ProposalsLatched DEF ProvenIsLatched
<1>3. CASE Start \/ PairStart \/ PairStartRefused \/ PairCancel \/ WindowTimeout
           \/ ConfirmTimeout \/ RepairPeers \/ PowerLoss \/ UNCHANGED vars
  BY <1>1, <1>3 DEF Start, PairStart, PairStartRefused, PairCancel, WindowTimeout,
                    ConfirmTimeout, RepairPeers, PowerLoss, vars, tableVars
<1>4. ASSUME NEW m \in Mac, NEW id \in Id, NEW e \in DialEph, PairReq(m, id, e)
      PROVE  ProvenIsLatched'
  BY <1>1, <1>4 DEF PairReq, PairReqPastMaxLinks, PairReqRefused,
                    PairReqRepeated, PairReqAdmitted, tableVars
<1>5. ASSUME NEW m \in Mac, NEW k, PairConfirm(m, k) PROVE ProvenIsLatched'
  <2>1. CASE IsCandidate(m) /\ Commit
    <3>1. stored' = Bonding(cand) /\ stored' \in Proposals
          /\ proven' \subseteq proven \cup {cand.mac}
      BY <2>1 DEF Commit, Save, Proposals, IsCandidate
    <3>2. ASSUME NEW i \in DOMAIN stored', stored'[i].mac = cand.mac
          PROVE  stored'[i].latched
      <4>1. stored'[i] = NewBond(cand)
        BY <1>0, <2>1, <3>1, <3>2, BondingFacts
        DEF IsCandidate, Unique, SlotOf, Macs
      <4>. QED
        BY <4>1 DEF NewBond
    <3>. QED
      BY <3>1, <3>2, ProposalsLatched DEF ProvenIsLatched
  <2>2. CASE CommitFails
    BY <1>1, <2>2 DEF CommitFails, SaveFails, tableVars
  <2>3. CASE UNCHANGED <<tableVars, bootVars>>
    BY <1>1, <2>3 DEF tableVars
  <2>. QED
    BY <1>5, <2>1, <2>2, <2>3 DEF PairConfirm
<1>6. ASSUME NEW f, NEW m \in Mac, NEW e, FromBonded(m), EpochOk(f, m, e)
      PROVE  ProvenIsLatched'
  <2>0. /\ m \in Macs(dials) /\ dials = stored
        /\ \A i \in DOMAIN dials : dials[i].mac = m => dials[i] = BondOf(m)
    BY <1>0, <1>6, UniqueSlot, ReadWhenBonded DEF FromBonded, Macs, Coherent
  <2>1. CASE stored' = stored /\ BondOf(m).latched
    <3>1. proven' \subseteq proven \cup {m}
      BY <1>6, <2>1 DEF EpochOk, AcceptAs
    <3>. QED
      BY <2>0, <2>1, <3>1 DEF ProvenIsLatched
  <2>2. CASE stored' = stored /\ ~BondOf(m).latched /\ ~(epoch # 0 /\ e = epoch)
    <3>1. proven' = proven
      BY <1>6, <2>2 DEF EpochOk, AcceptAs
    <3>. QED
      BY <1>1, <2>2, <3>1
  <2>3. CASE epoch # 0 /\ e = epoch /\ ~BondOf(m).latched /\ Save(Latching(m))
    <3>1. stored' = Latching(m) /\ proven' \subseteq proven \cup {m}
      BY <1>6, <2>3 DEF Save, EpochOk, AcceptAs
    <3>2. ASSUME NEW i \in DOMAIN stored', stored'[i].mac \in proven \cup {m}
          PROVE  stored'[i].latched
      BY <1>0, <2>0, <3>1, <3>2, LatchingFacts, UniqueSlot DEF ProvenIsLatched
    <3>. QED
      BY <3>1, <3>2 DEF ProvenIsLatched
  <2>4. CASE UNCHANGED <<stored, proven>>
    BY <1>1, <2>4
  <2>. QED
    BY <1>6, <2>1, <2>2, <2>3, <2>4 DEF EpochOk
<1>7. ASSUME NEW m \in Mac, ForgetDial(m) PROVE ProvenIsLatched'
  <2>1. CASE ForgetBonded(m)
    BY <1>2, <2>1 DEF ForgetBonded, Save, Proposals
  <2>2. CASE ForgetNewCandidate(m)
    BY <1>1, <2>2 DEF ForgetNewCandidate, tableVars
  <2>. QED
    BY <1>7, <2>1, <2>2 DEF ForgetDial
<1>8. CASE ForgetAll
  BY <1>8 DEF ForgetAll, ProvenIsLatched
<1>9. CASE PowerLossAfterSave
  BY <1>2, <1>9 DEF PowerLossAfterSave
<1>10. ASSUME NEW m \in Mac, NEW e, Command(m, e) \/ WifiSessionFrame(m, e)
       PROVE  ProvenIsLatched'
  BY <1>6, <1>10 DEF Command, WifiSessionFrame
<1>11. ASSUME NEW m \in Mac, NEW e, NEW v5, RoomFrame(m, v5, e)
       PROVE  ProvenIsLatched'
  BY <1>6, <1>11 DEF RoomFrame
<1>. QED
  BY <1>3, <1>4, <1>5, <1>7, <1>8, <1>9, <1>10, <1>11 DEF Next
(* Which steps act on a frame, answer a proof or report a dial forgotten.  *)
LEMMA StepOutcome ==
    ASSUME Next
    PROVE  \/ out'.kind \notin {"act", "ack", "forgot"}
           \/ \E f \in {"cmd", "room", "wifi"}, m \in Mac, e \in Int :
                FromBonded(m) /\ EpochOk(f, m, e) /\ (f = "room" => epoch # 0)
           \/ \E m \in Mac, k \in Key : PairConfirm(m, k)
           \/ \E m \in Mac : ForgetDial(m)
           \/ ForgetAll
<1>1. Silent.kind \notin {"act", "ack", "forgot"}
      /\ \A m, k : Resp(m, k).kind \notin {"act", "ack", "forgot"}
  BY DEF Silent, Resp
<1>2. CASE Start \/ PairStart \/ PairStartRefused \/ PairCancel \/ WindowTimeout
           \/ ConfirmTimeout \/ RepairPeers \/ PowerLoss \/ PowerLossAfterSave
  BY <1>1, <1>2 DEF Start, PairStart, PairStartRefused, PairCancel, WindowTimeout,
                    ConfirmTimeout, RepairPeers, PowerLoss, PowerLossAfterSave,
                    PowerOff
<1>3. ASSUME NEW m \in Mac, NEW id \in Id, NEW e \in DialEph, PairReq(m, id, e)
      PROVE  out'.kind \notin {"act", "ack", "forgot"}
  BY <1>1, <1>3 DEF PairReq, PairReqPastMaxLinks, PairReqRefused,
                    PairReqRepeated, PairReqAdmitted
<1>4. ASSUME NEW m \in Mac, NEW e \in 0..boots, Command(m, e) \/ WifiSessionFrame(m, e)
      PROVE  \E f \in {"cmd", "room", "wifi"} :
               FromBonded(m) /\ EpochOk(f, m, e) /\ (f = "room" => epoch # 0)
  BY <1>4 DEF Command, WifiSessionFrame
<1>5. ASSUME NEW m \in Mac, NEW e \in 0..boots, NEW v5 \in BOOLEAN,
             RoomFrame(m, v5, e)
      PROVE  \E x \in Int : FromBonded(m) /\ EpochOk("room", m, x) /\ epoch # 0
  <2>1. (IF v5 THEN e ELSE 0) \in Int
    OBVIOUS
  <2>. QED
    BY <1>5, <2>1 DEF RoomFrame
<1>6. \A d \in DialEph, c \in 0..windows : [dial |-> d, ctrl |-> c] \in Key
  BY DEF Key
<1>7. CASE \E m \in Mac, d \in DialEph, c \in 0..windows :
             PairConfirm(m, [dial |-> d, ctrl |-> c])
  BY <1>6, <1>7
<1>8. CASE \E m \in Mac, e \in 0..boots : Command(m, e) \/ WifiSessionFrame(m, e)
  BY <1>4, <1>8
<1>9. CASE \E m \in Mac, e \in 0..boots, v5 \in BOOLEAN : RoomFrame(m, v5, e)
  BY <1>5, <1>9
<1>. QED
  BY <1>2, <1>3, <1>7, <1>8, <1>9 DEF Next

LEMMA OutcomeKinds ==
    ASSUME NEW f, NEW m, NEW e, NEW k, NEW M
    PROVE  /\ Silent.kind = "none"
           /\ Ack(m, k).kind = "ack" /\ Ack(m, k).mac = m /\ Ack(m, k).lmk = k
           /\ Act(f, m, e).kind = "act" /\ Act(f, m, e).frame = f
           /\ Act(f, m, e).mac = m /\ Act(f, m, e).echo = e
           /\ Forgot(M).kind = "forgot" /\ Forgot(M).macs = M
BY DEF Silent, Ack, Act, Forgot

(* What the other handlers leave in out. *)
LEMMA ConfirmOutcome ==
    ASSUME NEW m, NEW k, PairConfirm(m, k)
    PROVE  out'.kind \in {"none", "ack"}
BY OutcomeKinds DEF PairConfirm, Commit, CommitFails

LEMMA EpochOutcome ==
    ASSUME NEW f, NEW m, NEW e, EpochOk(f, m, e)
    PROVE  out'.kind \in {"none", "act"}
BY OutcomeKinds DEF EpochOk, AcceptAs

LEMMA ForgetOutcome ==
    ASSUME (\E m \in Mac : ForgetDial(m)) \/ ForgetAll
    PROVE  out'.kind = "forgot"
<1>1. \E M : out' = Forgot(M)
  BY DEF ForgetDial, ForgetBonded, ForgetNewCandidate, ForgetAll
<1>. QED
  BY <1>1 DEF Forgot

LEMMA GuardedStep ==
    ASSUME Coherent, ProvenIsLatched, NEW f \in {"cmd", "room", "wifi"},
           NEW m \in Mac, NEW e, FromBonded(m), EpochOk(f, m, e),
           f = "room" => epoch # 0, out'.kind = "act"
    PROVE  \/ out'.echo = epoch /\ epoch # 0
           \/ out'.mac \notin proven
           \/ epoch = 0 /\ out'.frame # "room"
<1>1. m \in proven => BondOf(m).latched
  <2>1. SlotOf(m) \in DOMAIN dials /\ BondOf(m).mac = m /\ dials = stored
    BY SlotFound, ReadWhenBonded DEF FromBonded, Macs, Coherent
  <2>. QED
    BY <2>1 DEF ProvenIsLatched, BondOf
<1>2. out' = Act(f, m, e)
  BY OutcomeKinds DEF EpochOk, AcceptAs
<1>. QED
  BY <1>1, <1>2, OutcomeKinds DEF EpochOk

(* A frame with another boot's epoch is never acted on once the dial has   *)
(* proven that it echoes epochs: not in this boot, not after any number of *)
(* reboots, and whatever saves fail, unless this boot drew no epoch.       *)
THEOREM ReplaysAreRefused == Spec => ReplayGuard
<1>. DEFINE Guarded ==
       out'.kind = "act" =>
         \/ out'.echo = epoch /\ epoch # 0
         \/ out'.mac \notin proven
         \/ epoch = 0 /\ out'.frame # "room"
<1>1. Coherent /\ ProvenIsLatched /\ [Next]_vars => [Guarded]_vars
  <2>. SUFFICES ASSUME Coherent, ProvenIsLatched, Next, out'.kind = "act"
                PROVE  Guarded
    BY DEF Guarded
  <2>. QED
    BY StepOutcome, GuardedStep, ConfirmOutcome, ForgetOutcome DEF Guarded
<1>2. Spec => []ProvenIsLatched
  BY AlwaysCoherent, InitProven, NextProven, PTL DEF Spec
<1>. QED
  BY <1>1, <1>2, AlwaysCoherent, PTL DEF Spec, ReplayGuard

----------------------------------------------------------------------------
(* Pinning. *)

LEMMA StoredStep ==
    ASSUME [Next]_vars
    PROVE  stored' = stored \/ stored' \in Proposals
<1>1. CASE TableKept
  BY <1>1 DEF TableKept
<1>2. CASE TableSaved
  BY <1>2 DEF TableSaved
<1>. QED
  BY <1>1, <1>2, TableStep DEF Start, PowerLoss, PowerLossAfterSave

LEMMA NextPinned ==
    ASSUME Coherent, [Next]_vars, ~blind, NEW i \in DOMAIN stored
    PROVE  \/ \E j \in DOMAIN stored' : /\ stored'[j].mac = stored[i].mac
                                        /\ stored'[j].id = stored[i].id
           \/ stored[i].mac \notin Macs(stored')
<1>1. CASE stored' = stored
  BY <1>1
<1>2. ASSUME stored' \in Proposals, NEW j \in DOMAIN stored',
             stored'[j].mac = stored[i].mac
      PROVE  stored'[j].id = stored[i].id
  <2>1. CASE pair = "CONFIRM" /\ stored'[j] = NewBond(cand)
    <3>1. started /\ dials = stored
      BY <2>1 DEF Coherent, PairingCoherent, DurableTable
    <3>. QED
      BY <1>2, <2>1, <3>1 DEF Coherent, PairingCoherent, NewBond
  <2>2. ASSUME NEW x \in DOMAIN dials,
               stored'[j].mac = dials[x].mac, stored'[j].id = dials[x].id
        PROVE  stored'[j].id = stored[i].id
    <3>1. dials = stored /\ Unique(stored)
      BY <2>2, ReadWhenBonded DEF Coherent, OneSlotPerDial
    <3>. QED
      BY <1>2, <2>2, <3>1 DEF Unique
  <2>. QED
    BY <1>2, <2>1, <2>2, ProposalEntries
<1>. QED
  BY <1>1, <1>2, StoredStep DEF Macs

(* The identity pinned at the first pairing stays until the dial is        *)
(* forgotten, unless a boot could not read the store.                      *)
THEOREM PinsHold == Spec => PinnedUntilForgotten
<1>. DEFINE Pinned ==
       ~blind =>
         \A i \in DOMAIN stored :
           \/ \E j \in DOMAIN stored' : /\ stored'[j].mac = stored[i].mac
                                        /\ stored'[j].id = stored[i].id
           \/ stored[i].mac \notin Macs(stored')
<1>1. Coherent /\ [Next]_vars => [Pinned]_vars
  BY NextPinned
<1>. QED
  BY <1>1, AlwaysCoherent, PTL DEF Spec, PinnedUntilForgotten

----------------------------------------------------------------------------
(* The radio. *)

LEMMA InitRadio == Init => RadioMatchesBonds
BY DEF Init, RadioMatchesBonds, IsCandidate

(* Nothing the promise is about has changed. *)
LEMMA RadioKept ==
    ASSUME RadioMatchesBonds, UNCHANGED <<dials, peers, pair, cand, started>>
    PROVE  RadioMatchesBonds'
BY DEF RadioMatchesBonds, IsCandidate, Macs

(* No pairing, no candidate: only the bonds count. *)
LEMMA RadioWhenOff ==
    ASSUME pair' # "CONFIRM",
           \A i \in DOMAIN dials' :
             \/ peers'[dials'[i].mac] \in {dials'[i].lmk, FailedKey}
             \/ ~started' /\ peers'[dials'[i].mac] = NoKey,
           \A m \in Mac \ Macs(dials') : peers'[m] = NoKey
    PROVE  RadioMatchesBonds'
BY DEF RadioMatchesBonds, IsCandidate

LEMMA InTable ==
    ASSUME NEW table \in Seq(Bond)
    PROVE  /\ \A i \in DOMAIN table : table[i] \in Bond /\ table[i].mac \in Mac
                                      /\ table[i].mac \in Macs(table)
           /\ \A m \in Macs(table) : \E i \in DOMAIN table : table[i].mac = m
<1>1. \A i \in DOMAIN table : table[i] \in Bond
  OBVIOUS
<1>. QED
  BY <1>1 DEF Bond, Macs

(* Dropping the candidate gives a re-pairing dial its bond's key back, or  *)
(* none if the driver refuses it.                                          *)
LEMMA CleanupRadio ==
    ASSUME Coherent, RadioMatchesBonds, NEW m \in Mac, NEW spent,
           CleanupCandidate(m, spent), pair' = "OFF", UNCHANGED <<dials, started>>,
           pair = "CONFIRM" => m = cand.mac
    PROVE  RadioMatchesBonds'
<1>0. dials \in Seq(Bond) /\ Unique(dials)
      /\ peers \in [Mac -> Key \cup {NoKey, FailedKey}]
  BY DEF Coherent, TypeInv, TypeOK, OneSlotPerDial
<1>1. \A x \in Mac : x # m => ~IsCandidate(x) /\ peers'[x] = peers[x]
  BY <1>0 DEF IsCandidate, CleanupCandidate
<1>2. m \notin Macs(dials) => peers'[m] = NoKey
  BY <1>0 DEF CleanupCandidate
<1>3. m \in Macs(dials) => peers'[m] \in {BondOf(m).lmk, FailedKey}
  BY <1>0 DEF CleanupCandidate
<1>4. ASSUME NEW i \in DOMAIN dials
      PROVE  \/ peers'[dials[i].mac] \in {dials[i].lmk, FailedKey}
             \/ ~started /\ peers'[dials[i].mac] = NoKey
  <2>1. dials[i].mac \in Mac /\ dials[i].mac \in Macs(dials)
        /\ BondOf(dials[i].mac) = dials[i]
    BY <1>0, InTable, UniqueSlot
  <2>2. CASE dials[i].mac = m
    BY <1>3, <2>1, <2>2
  <2>3. CASE dials[i].mac # m
    BY <1>1, <2>1, <2>3 DEF RadioMatchesBonds
  <2>. QED
    BY <2>2, <2>3
<1>5. \A x \in Mac \ Macs(dials) : peers'[x] = NoKey
  BY <1>1, <1>2 DEF RadioMatchesBonds
<1>. QED
  BY <1>4, <1>5, RadioWhenOff

(* Adding the peers of a table, in slot order. *)
LEMMA InstalledFacts ==
    ASSUME NEW table \in Seq(Bond), Unique(table), NEW n \in 0..Len(table),
           peers \in [Mac -> Key \cup {NoKey, FailedKey}]
    PROVE  /\ Installed(table, n) \in [Mac -> Key \cup {NoKey, FailedKey}]
           /\ \A i \in 1..n : Installed(table, n)[table[i].mac] = table[i].lmk
           /\ \A i \in DOMAIN table :
                i \notin 1..n => Installed(table, n)[table[i].mac]
                                   = peers[table[i].mac]
           /\ \A m \in Mac \ Macs(table) : Installed(table, n)[m] = peers[m]
<1>0. \A i \in DOMAIN table : table[i].mac \in Mac /\ table[i].mac \in Macs(table)
  BY InTable
<1>1. ASSUME NEW i \in 1..n PROVE Installed(table, n)[table[i].mac] = table[i].lmk
  <2>. DEFINE chosen == CHOOSE j \in 1..n : table[j].mac = table[i].mac
  <2>1. chosen \in 1..n /\ table[chosen].mac = table[i].mac
    OBVIOUS
  <2>2. i \in DOMAIN table /\ chosen \in DOMAIN table
    BY <2>1
  <2>3. chosen = i
    BY <2>1, <2>2 DEF Unique
  <2>4. Installed(table, n)[table[i].mac] = table[chosen].lmk
    BY <1>0, <2>2 DEF Installed
  <2>. QED
    BY <2>3, <2>4
<1>2. ASSUME NEW i \in DOMAIN table, i \notin 1..n
      PROVE  Installed(table, n)[table[i].mac] = peers[table[i].mac]
  <2>1. ~\E j \in 1..n : table[j].mac = table[i].mac
    BY <1>2 DEF Unique
  <2>. QED
    BY <1>0, <2>1 DEF Installed
<1>3. ASSUME NEW m \in Mac \ Macs(table) PROVE Installed(table, n)[m] = peers[m]
  <2>1. ~\E j \in 1..n : table[j].mac = m
    BY <1>0, <1>3
  <2>. QED
    BY <2>1 DEF Installed
<1>. QED
  BY <1>1, <1>2, <1>3, InstalledType

LEMMA StartRadio ==
    ASSUME Coherent, RadioMatchesBonds, Start
    PROVE  RadioMatchesBonds'
<1>0. /\ dials \in Seq(Bond) /\ stored \in Seq(Bond)
      /\ Unique(dials) /\ Unique(stored)
      /\ peers \in [Mac -> Key \cup {NoKey, FailedKey}]
      /\ ~started /\ pair' = pair /\ pair # "CONFIRM"
  BY DEF Coherent, TypeInv, TypeOK, OneSlotPerDial, PairingCoherent, Start,
         pairingVars
<1>1. PICK readable \in BOOLEAN :
        /\ dials' = Loaded(readable)
        /\ \/ peers' = Installed(dials', Len(dials'))
           \/ /\ started' = FALSE
              /\ \E n \in DOMAIN dials' :
                   peers' = [Installed(dials', n - 1)
                               EXCEPT ![dials'[n].mac] = FailedKey]
  BY <1>0 DEF Start
<1>2. dials' \in Seq(Bond) /\ Unique(dials') /\ (dials = <<>> \/ dials' = dials)
  BY <1>0, <1>1 DEF Loaded, Coherent, DurableTable
<1>3. \A i \in DOMAIN dials' :
        peers[dials'[i].mac] \in {dials'[i].lmk, FailedKey, NoKey}
  <2>1. CASE dials' = dials
    BY <1>0, <2>1 DEF RadioMatchesBonds, IsCandidate
  <2>2. CASE dials = <<>>
    <3>1. \A m \in Mac : m \notin Macs(dials)
      BY <2>2 DEF Macs
    <3>. QED
      BY <1>0, <1>2, <3>1, InTable DEF RadioMatchesBonds, IsCandidate
  <2>. QED
    BY <1>2, <2>1, <2>2
<1>4. \A m \in Mac \ Macs(dials') : peers[m] = NoKey
  <2>1. \A m \in Mac \ Macs(dials') : m \notin Macs(dials)
    BY <1>2 DEF Macs
  <2>. QED
    BY <1>0, <2>1 DEF RadioMatchesBonds, IsCandidate
<1>5. CASE peers' = Installed(dials', Len(dials'))
  <2>1. Len(dials') \in 0..Len(dials')
    BY <1>2
  <2>2. /\ \A i \in DOMAIN dials' : peers'[dials'[i].mac] = dials'[i].lmk
        /\ \A m \in Mac \ Macs(dials') : peers'[m] = peers[m]
    BY <1>0, <1>2, <1>5, <2>1, InstalledFacts
  <2>. QED
    BY <1>0, <1>4, <2>2, RadioWhenOff
<1>6. ASSUME NEW n \in DOMAIN dials', started' = FALSE,
             peers' = [Installed(dials', n - 1) EXCEPT ![dials'[n].mac] = FailedKey]
      PROVE  RadioMatchesBonds'
  <2>. DEFINE base == Installed(dials', n - 1)
  <2>1. n - 1 \in 0..Len(dials')
    BY <1>2
  <2>2. /\ base \in [Mac -> Key \cup {NoKey, FailedKey}]
        /\ \A i \in DOMAIN dials' :
             base[dials'[i].mac] \in {dials'[i].lmk, peers[dials'[i].mac]}
        /\ \A m \in Mac \ Macs(dials') : base[m] = peers[m]
    BY <1>0, <1>2, <2>1, InstalledFacts
  <2>3. \A i \in DOMAIN dials' : dials'[i].mac \in Mac /\ dials'[i].mac \in Macs(dials')
    BY <1>2, InTable
  <2>. HIDE DEF base
  <2>4. peers' = [base EXCEPT ![dials'[n].mac] = FailedKey]
    BY <1>6 DEF base
  <2>5. \A i \in DOMAIN dials' :
          peers'[dials'[i].mac] \in {dials'[i].lmk, FailedKey, NoKey}
    BY <1>3, <2>2, <2>3, <2>4
  <2>6. \A m \in Mac \ Macs(dials') : peers'[m] = NoKey
    BY <1>4, <2>2, <2>3, <2>4
  <2>. QED
    BY <1>0, <1>6, <2>5, <2>6, RadioWhenOff
<1>. QED
  BY <1>1, <1>5, <1>6

(* The committed candidate's key is already in the radio. *)
LEMMA CommitRadio ==
    ASSUME Coherent, RadioMatchesBonds, pair = "CONFIRM", Commit
    PROVE  RadioMatchesBonds'
<1>0. /\ dials \in Seq(Bond) /\ Unique(dials) /\ cand \in Candidate
      /\ cand.mac \in Mac
  BY DEF Coherent, TypeInv, TypeOK, OneSlotPerDial, Candidate
<1>1. dials' = Bonding(cand) /\ peers' = peers /\ pair' = "OFF" /\ started' = started
  BY DEF Commit, PairEnd, bootVars
<1>2. peers[cand.mac] = cand.lmk
  BY <1>0 DEF RadioMatchesBonds, IsCandidate
<1>3. NewBond(cand).mac = cand.mac /\ NewBond(cand).lmk = cand.lmk
  BY DEF NewBond
<1>4. \A i \in DOMAIN dials' :
        dials'[i] = NewBond(cand)
        \/ (i \in DOMAIN dials /\ dials'[i] = dials[i] /\ dials[i].mac # cand.mac)
  <2>1. CASE cand.mac \in Macs(dials)
    <3>1. \A i \in DOMAIN dials : i # SlotOf(cand.mac) => dials[i].mac # cand.mac
      BY <1>0, UniqueSlot
    <3>. QED
      BY <1>0, <1>1, <2>1, <3>1, BondingFacts
  <2>2. CASE cand.mac \notin Macs(dials)
    BY <1>0, <1>1, <2>2, BondingFacts DEF Macs
  <2>. QED
    BY <2>1, <2>2
<1>5. Macs(dials) \cup {cand.mac} \subseteq Macs(dials')
  <2>1. CASE cand.mac \in Macs(dials)
    <3>1. /\ DOMAIN dials' = DOMAIN dials
          /\ \A i \in DOMAIN dials : dials'[i].mac = dials[i].mac
      <4>1. SlotOf(cand.mac) \in DOMAIN dials /\ dials[SlotOf(cand.mac)].mac = cand.mac
        BY <2>1, SlotFound DEF BondOf
      <4>2. /\ Len(dials') = Len(dials) /\ dials' \in Seq(Bond)
            /\ \A i \in DOMAIN dials :
                 dials'[i] = IF i = SlotOf(cand.mac) THEN NewBond(cand) ELSE dials[i]
        BY <1>0, <1>1, <2>1, BondingFacts
      <4>3. DOMAIN dials' = DOMAIN dials
        BY <1>0, <4>2
      <4>. QED
        BY <1>3, <4>1, <4>2, <4>3
    <3>. QED
      BY <2>1, <3>1 DEF Macs
  <2>2. CASE cand.mac \notin Macs(dials)
    <3>1. /\ Len(dials) + 1 \in DOMAIN dials' /\ dials'[Len(dials) + 1] = NewBond(cand)
          /\ \A i \in DOMAIN dials : i \in DOMAIN dials' /\ dials'[i] = dials[i]
      BY <1>0, <1>1, <2>2, BondingFacts
    <3>. QED
      BY <1>3, <3>1 DEF Macs
  <2>. QED
    BY <2>1, <2>2
<1>6. \A i \in DOMAIN dials' :
        \/ peers'[dials'[i].mac] \in {dials'[i].lmk, FailedKey}
        \/ ~started' /\ peers'[dials'[i].mac] = NoKey
  BY <1>1, <1>2, <1>3, <1>4 DEF RadioMatchesBonds, IsCandidate
<1>7. \A m \in Mac \ Macs(dials') : peers'[m] = NoKey
  BY <1>1, <1>5 DEF RadioMatchesBonds, IsCandidate
<1>. QED
  BY <1>1, <1>6, <1>7, RadioWhenOff

(* A latch changes no key. *)
LEMMA LatchRadio ==
    ASSUME Coherent, RadioMatchesBonds, NEW m \in Macs(dials), dials' = Latching(m),
           UNCHANGED <<peers, pair, cand, started>>
    PROVE  RadioMatchesBonds'
<1>1. /\ DOMAIN dials' = DOMAIN dials
      /\ \A i \in DOMAIN dials : /\ dials'[i].mac = dials[i].mac
                                /\ dials'[i].lmk = dials[i].lmk
  BY LatchingFacts DEF Coherent, TypeInv, TypeOK
<1>2. Macs(dials') = Macs(dials)
  BY <1>1 DEF Macs
<1>. QED
  BY <1>1, <1>2 DEF RadioMatchesBonds, IsCandidate

(* After compaction the table holds the other dials' bonds and no other.   *)
LEMMA ForgettingEntries ==
    ASSUME dials \in Seq(Bond), Unique(dials), NEW m \in Macs(dials)
    PROVE  /\ \A j \in DOMAIN Forgetting(m) :
                \E i \in DOMAIN dials :
                  Forgetting(m)[j] = dials[i] /\ dials[i].mac # m
           /\ \A i \in DOMAIN dials :
                dials[i].mac # m => \E j \in DOMAIN Forgetting(m) :
                                      Forgetting(m)[j] = dials[i]
           /\ Macs(Forgetting(m)) = Macs(dials) \ {m}
<1>1. SlotOf(m) \in DOMAIN dials /\ dials[SlotOf(m)].mac = m
  BY SlotFound DEF BondOf
<1>2. \A i \in DOMAIN dials : i # SlotOf(m) => dials[i].mac # m
  BY UniqueSlot
<1>3. /\ Forgetting(m) \in Seq(Bond) /\ Len(Forgetting(m)) = Len(dials) - 1
      /\ \A i \in DOMAIN Forgetting(m) :
           Forgetting(m)[i] = IF i < SlotOf(m) THEN dials[i] ELSE dials[i + 1]
  BY ForgettingFacts
<1>4. ASSUME NEW j \in DOMAIN Forgetting(m)
      PROVE  \E i \in DOMAIN dials : Forgetting(m)[j] = dials[i] /\ dials[i].mac # m
  BY <1>1, <1>2, <1>3
<1>5. ASSUME NEW i \in DOMAIN dials, dials[i].mac # m
      PROVE  \E j \in DOMAIN Forgetting(m) : Forgetting(m)[j] = dials[i]
  <2>1. CASE i < SlotOf(m)
    BY <1>1, <1>3, <2>1
  <2>2. CASE i > SlotOf(m)
    <3>1. i - 1 \in DOMAIN Forgetting(m) /\ ~(i - 1 < SlotOf(m)) /\ (i - 1) + 1 = i
      BY <1>1, <1>3, <2>2
    <3>. QED
      BY <1>3, <3>1
  <2>. QED
    BY <1>1, <1>5, <2>1, <2>2
<1>6. Macs(Forgetting(m)) = Macs(dials) \ {m}
  BY <1>4, <1>5 DEF Macs
<1>. QED
  BY <1>4, <1>5, <1>6

LEMMA ForgetRadio ==
    ASSUME Coherent, RadioMatchesBonds, NEW m \in Mac, ForgetBonded(m)
    PROVE  RadioMatchesBonds'
<1>0. /\ dials \in Seq(Bond) /\ Unique(dials) /\ m \in Macs(dials)
      /\ peers \in [Mac -> Key \cup {NoKey, FailedKey}]
      /\ dials' = Forgetting(m) /\ peers' = [peers EXCEPT ![m] = NoKey]
      /\ started' = started
  BY DEF Coherent, TypeInv, TypeOK, OneSlotPerDial, ForgetBonded, bootVars
<1>1. /\ \A j \in DOMAIN dials' : \E i \in DOMAIN dials :
           dials'[j] = dials[i] /\ dials[i].mac # m
      /\ Macs(dials') = Macs(dials) \ {m}
  BY <1>0, ForgettingEntries
<1>2. ASSUME NEW x \in Mac
      PROVE  (pair' = "CONFIRM" /\ x = cand'.mac)
               <=> (IsCandidate(x) /\ x # m)
  BY <1>0 DEF ForgetBonded, CancelCandidacy, IsCandidate, PairEnd, pairingVars
<1>3. pair' = "CONFIRM" => cand' = cand
  BY <1>0 DEF ForgetBonded, CancelCandidacy, PairEnd, pairingVars
<1>4. \A x \in Mac : pair' = "CONFIRM" /\ x = cand'.mac => peers'[x] = cand'.lmk
  BY <1>0, <1>2, <1>3 DEF RadioMatchesBonds
<1>5. \A i \in DOMAIN dials : dials[i].mac \in Mac
  BY <1>0, InTable
<1>6. ASSUME NEW j \in DOMAIN dials', ~(pair' = "CONFIRM" /\ dials'[j].mac = cand'.mac)
      PROVE  \/ peers'[dials'[j].mac] \in {dials'[j].lmk, FailedKey}
             \/ ~started' /\ peers'[dials'[j].mac] = NoKey
  <2>1. PICK i \in DOMAIN dials : dials'[j] = dials[i] /\ dials[i].mac # m
    BY <1>1
  <2>2. ~IsCandidate(dials[i].mac) /\ peers'[dials[i].mac] = peers[dials[i].mac]
    BY <1>0, <1>2, <1>5, <1>6, <2>1
  <2>. QED
    BY <1>0, <2>1, <2>2 DEF RadioMatchesBonds
<1>7. \A x \in Mac \ Macs(dials') :
        ~(pair' = "CONFIRM" /\ x = cand'.mac) => peers'[x] = NoKey
  BY <1>0, <1>1, <1>2 DEF RadioMatchesBonds
<1>. QED
  BY <1>4, <1>6, <1>7 DEF RadioMatchesBonds, IsCandidate

LEMMA ForgetAllRadio ==
    ASSUME Coherent, RadioMatchesBonds, ForgetAll
    PROVE  RadioMatchesBonds'
<1>1. pair' # "CONFIRM" /\ dials' = <<>>
  BY DEF ForgetAll, PairEnd, pairingVars
<1>2. \A m \in Mac : peers'[m] = NoKey
  BY DEF ForgetAll, RadioMatchesBonds
<1>. QED
  BY <1>1, <1>2, RadioWhenOff

LEMMA RepairRadio ==
    ASSUME Coherent, RadioMatchesBonds, RepairPeers
    PROVE  RadioMatchesBonds'
<1>0. /\ dials \in Seq(Bond) /\ Unique(dials)
      /\ pair' = "OFF" /\ pair = "OFF" /\ dials' = dials /\ started
  BY DEF Coherent, TypeInv, TypeOK, OneSlotPerDial, RepairPeers, tableVars,
         pairingVars
<1>. DEFINE wrong == {m \in Macs(dials) : peers[m] # BondOf(m).lmk}
<1>1. PICK bad \in SUBSET wrong :
        peers' = [m \in Mac |-> IF m \in bad THEN FailedKey
                                ELSE IF m \in wrong THEN BondOf(m).lmk
                                ELSE peers[m]]
  BY DEF RepairPeers
<1>2. ASSUME NEW i \in DOMAIN dials
      PROVE  peers'[dials[i].mac] \in {dials[i].lmk, FailedKey}
  <2>1. dials[i].mac \in Mac /\ dials[i].mac \in Macs(dials)
        /\ BondOf(dials[i].mac) = dials[i]
    BY <1>0, InTable, UniqueSlot
  <2>. QED
    BY <1>1, <2>1
<1>3. \A m \in Mac \ Macs(dials) : peers'[m] = peers[m]
  BY <1>1
<1>4. \A m \in Mac \ Macs(dials) : peers'[m] = NoKey
  BY <1>0, <1>3 DEF RadioMatchesBonds, IsCandidate
<1>. QED
  BY <1>0, <1>2, <1>4, RadioWhenOff

LEMMA AdmittedRadio ==
    ASSUME Coherent, RadioMatchesBonds, NEW m \in Mac, NEW id \in Id,
           NEW e \in DialEph, PairReqAdmitted(m, id, e)
    PROVE  RadioMatchesBonds'
<1>0. /\ pair = "WINDOW" /\ UNCHANGED <<dials, started>>
      /\ peers \in [Mac -> Key \cup {NoKey, FailedKey}]
  BY DEF PairReqAdmitted, tableVars, bootVars, Coherent, TypeInv, TypeOK
<1>1. CASE CleanupCandidate(m, 1) /\ PairEnd("cancelled")
  BY <1>0, <1>1, CleanupRadio DEF PairEnd
<1>2. ASSUME NEW lmk, peers' = [peers EXCEPT ![m] = lmk], pair' = "CONFIRM",
             cand' = [mac |-> m, lmk |-> lmk, id |-> id]
      PROVE  RadioMatchesBonds'
  <2>1. cand'.mac = m /\ cand'.lmk = lmk
    BY <1>2
  <2>2. peers'[m] = lmk /\ \A x : x \in Mac /\ x # m => peers'[x] = peers[x]
    BY <1>0, <1>2
  <2>3. \A i \in DOMAIN dials : dials[i].mac \in Mac
    BY InTable DEF Coherent, TypeInv, TypeOK
  <2>4. Macs(dials') = Macs(dials)
    BY <1>0
  <2>. QED
    BY <1>0, <1>2, <2>1, <2>2, <2>3, <2>4 DEF RadioMatchesBonds, IsCandidate
<1>. QED
  BY <1>1, <1>2 DEF PairReqAdmitted

LEMMA EpochRadio ==
    ASSUME Coherent, RadioMatchesBonds, NEW f, NEW m \in Mac, NEW e,
           FromBonded(m), EpochOk(f, m, e),
           UNCHANGED <<bootVars, pairingVars, peers>>
    PROVE  RadioMatchesBonds'
<1>1. UNCHANGED <<peers, pair, cand, started>>
  BY DEF bootVars, pairingVars
<1>2. CASE dials' = dials
  BY <1>1, <1>2, RadioKept
<1>3. CASE dials' = Latching(m)
  BY <1>1, <1>3, LatchRadio DEF FromBonded
<1>. QED
  BY <1>2, <1>3 DEF EpochOk

LEMMA NextRadio == Coherent /\ RadioMatchesBonds /\ [Next]_vars => RadioMatchesBonds'
<1>. SUFFICES ASSUME Coherent, RadioMatchesBonds, [Next]_vars
              PROVE  RadioMatchesBonds'
  OBVIOUS
<1>0. pair = "CONFIRM" => cand.mac \in Mac
  BY DEF Coherent, TypeInv, Candidate
<1>1. CASE PairStartRefused \/ WindowTimeout \/ PairStart \/ UNCHANGED vars
  <2>1. UNCHANGED <<dials, peers, cand, started>>
    BY <1>1 DEF PairStartRefused, WindowTimeout, PairStart, vars, tableVars, bootVars
  <2>2. pair' = pair \/ (pair # "CONFIRM" /\ pair' # "CONFIRM")
    BY <1>1 DEF PairStartRefused, WindowTimeout, PairStart, PairEnd, vars
  <2>. QED
    BY <2>1, <2>2 DEF RadioMatchesBonds, IsCandidate, Macs
<1>2. CASE PairCancel \/ ConfirmTimeout
  <2>1. /\ pair' = "OFF" /\ UNCHANGED <<dials, started>>
        /\ \/ pair = "CONFIRM" /\ CleanupCandidate(cand.mac, 0)
           \/ pair # "CONFIRM" /\ UNCHANGED <<cand, peers>>
    BY <1>2 DEF PairCancel, ConfirmTimeout, PairEnd, tableVars, bootVars
  <2>2. CASE pair = "CONFIRM" /\ CleanupCandidate(cand.mac, 0)
    BY <1>0, <2>1, <2>2, CleanupRadio
  <2>3. CASE pair # "CONFIRM" /\ UNCHANGED <<cand, peers>>
    BY <2>1, <2>3 DEF RadioMatchesBonds, IsCandidate, Macs
  <2>. QED
    BY <2>1, <2>2, <2>3
<1>3. ASSUME NEW m \in Mac, NEW id \in Id, NEW e \in DialEph, PairReq(m, id, e)
      PROVE  RadioMatchesBonds'
  <2>1. CASE PairReqPastMaxLinks(m) \/ PairReqRefused(m, id) \/ PairReqRepeated(m, id, e)
    BY <2>1, RadioKept DEF PairReqPastMaxLinks, PairReqRefused, PairReqRepeated,
       tableVars, bootVars, pairingVars
  <2>2. CASE PairReqAdmitted(m, id, e)
    BY <2>2, AdmittedRadio
  <2>. QED
    BY <1>3, <2>1, <2>2 DEF PairReq
<1>4. ASSUME NEW m \in Mac, NEW k, PairConfirm(m, k)
      PROVE  RadioMatchesBonds'
  <2>1. CASE IsCandidate(m) /\ Commit
    BY <2>1, CommitRadio DEF IsCandidate
  <2>2. CASE IsCandidate(m) /\ CommitFails
    <3>1. /\ CleanupCandidate(cand.mac, 1) /\ pair' = "OFF"
          /\ UNCHANGED <<dials, started>> /\ pair = "CONFIRM"
      BY <2>2 DEF CommitFails, SaveFails, PairEnd, tableVars, bootVars, IsCandidate
    <3>. QED
      BY <1>0, <3>1, CleanupRadio
  <2>3. CASE UNCHANGED <<tableVars, bootVars, pairingVars, peers>>
    BY <2>3, RadioKept DEF tableVars, bootVars, pairingVars
  <2>. QED
    BY <1>4, <2>1, <2>2, <2>3 DEF PairConfirm
<1>5. ASSUME NEW m \in Mac, NEW e, NEW v5,
             Command(m, e) \/ WifiSessionFrame(m, e) \/ RoomFrame(m, v5, e)
      PROVE  RadioMatchesBonds'
  BY <1>5, EpochRadio DEF Command, WifiSessionFrame, RoomFrame
<1>6. ASSUME NEW m \in Mac, ForgetDial(m) PROVE RadioMatchesBonds'
  <2>1. CASE ForgetNewCandidate(m)
    <3>1. /\ CleanupCandidate(m, 0) /\ pair' = "OFF" /\ UNCHANGED <<dials, started>>
          /\ m = cand.mac
      BY <2>1 DEF ForgetNewCandidate, PairEnd, tableVars, bootVars, IsCandidate
    <3>. QED
      BY <3>1, CleanupRadio
  <2>. QED
    BY <1>6, <2>1, ForgetRadio DEF ForgetDial
<1>7. CASE PowerLoss \/ PowerLossAfterSave
  <2>1. dials' = <<>> /\ pair' = "OFF" /\ \A m \in Mac : peers'[m] = NoKey
    BY <1>7 DEF PowerLoss, PowerLossAfterSave, PowerOff
  <2>. QED
    BY <2>1, RadioWhenOff
<1>. QED
  BY <1>1, <1>2, <1>3, <1>4, <1>5, <1>6, <1>7, StartRadio, ForgetAllRadio,
     RepairRadio
  DEF Next

LEMMA AlwaysInTune == Spec => [](Coherent /\ RadioMatchesBonds)
BY AlwaysCoherent, InitRadio, NextRadio, PTL DEF Spec

(* The radio holds a candidate's key while it is being confirmed, a bond's *)
(* key or a refused one otherwise, and nothing for anybody else: whatever  *)
(* handler is interrupted, whatever peer the driver refuses.               *)
THEOREM RadioIsInTune == Spec => []RadioMatchesBonds
BY AlwaysInTune, PTL

----------------------------------------------------------------------------
(* Acknowledgements. *)

LEMMA BondedInTable ==
    ASSUME dials \in Seq(Bond), NEW c \in Candidate
    PROVE  \E i \in DOMAIN Bonding(c) : Bonding(c)[i] = NewBond(c)
<1>1. CASE c.mac \in Macs(dials)
  <2>1. SlotOf(c.mac) \in DOMAIN dials
    BY <1>1, SlotFound
  <2>. QED
    BY <1>1, <2>1, BondingFacts
<1>2. CASE c.mac \notin Macs(dials)
  <2>1. Len(dials) + 1 \in DOMAIN Bonding(c)
    BY <1>2, BondingFacts
  <2>. QED
    BY <1>2, <2>1, BondingFacts
<1>. QED
  BY <1>1, <1>2

LEMMA AckedStep ==
    ASSUME Coherent, RadioMatchesBonds, NEW m \in Mac, NEW k \in Key,
           PairConfirm(m, k), out'.kind = "ack"
    PROVE  \E i \in DOMAIN stored' :
             /\ stored'[i].mac = out'.mac /\ stored'[i].lmk = out'.lmk
             /\ peers'[out'.mac] \in {out'.lmk, FailedKey}
<1>0. dials \in Seq(Bond) /\ (pair = "CONFIRM" => cand \in Candidate)
  BY DEF Coherent, TypeInv, TypeOK
<1>1. CASE IsCandidate(m) /\ Commit
  <2>1. /\ stored' = Bonding(cand) /\ peers' = peers
        /\ out'.mac = cand.mac /\ out'.lmk = cand.lmk
    BY <1>1, OutcomeKinds DEF Commit, Save
  <2>2. peers[cand.mac] = cand.lmk
    BY <1>1 DEF RadioMatchesBonds, IsCandidate
  <2>3. NewBond(cand).mac = cand.mac /\ NewBond(cand).lmk = cand.lmk
    BY DEF NewBond
  <2>. QED
    BY <1>0, <1>1, <2>1, <2>2, <2>3, BondedInTable DEF IsCandidate
<1>2. CASE CommitFails
  BY <1>2, OutcomeKinds DEF CommitFails
<1>3. CASE /\ ~IsCandidate(m) /\ m \in Macs(dials) /\ k = BondOf(m).lmk
           /\ out' = Ack(m, k)
           /\ UNCHANGED <<tableVars, peers>>
  <2>1. SlotOf(m) \in DOMAIN dials /\ dials[SlotOf(m)].mac = m
        /\ dials[SlotOf(m)].lmk = k
    BY <1>3, SlotFound DEF BondOf
  <2>2. stored' = dials /\ peers' = peers /\ out'.mac = m /\ out'.lmk = k
    BY <1>3, <2>1, ReadWhenBonded, OutcomeKinds DEF Coherent, tableVars
  <2>3. peers[m] \in {k, FailedKey}
    BY <1>3, <2>1 DEF RadioMatchesBonds, PairConfirm
  <2>. QED
    BY <2>1, <2>2, <2>3
<1>. QED
  BY <1>1, <1>2, <1>3 DEF PairConfirm

(* The key a dial is told to keep is in the store when it is told, and the *)
(* radio has it unless the driver refused the peer: whichever proof is     *)
(* answered, whatever save failed before.                                  *)
THEOREM AcksAreDurable == Spec => AckedKeyIsDurable
<1>. DEFINE Durable ==
       out'.kind = "ack" =>
         \E i \in DOMAIN stored' :
           /\ stored'[i].mac = out'.mac /\ stored'[i].lmk = out'.lmk
           /\ peers'[out'.mac] \in {out'.lmk, FailedKey}
<1>1. Coherent /\ RadioMatchesBonds /\ [Next]_vars => [Durable]_vars
  <2>. SUFFICES ASSUME Coherent, RadioMatchesBonds, Next, out'.kind = "ack"
                PROVE  Durable
    BY DEF Durable
  <2>. QED
    BY StepOutcome, AckedStep, EpochOutcome, ForgetOutcome DEF Durable
<1>. QED
  BY <1>1, AlwaysInTune, PTL DEF Spec, AckedKeyIsDurable

----------------------------------------------------------------------------
(* Forgetting. *)

LEMMA ForgottenStep ==
    ASSUME Coherent, RadioMatchesBonds, (\E m \in Mac : ForgetDial(m)) \/ ForgetAll,
           NEW x \in out'.macs
    PROVE  /\ x \notin Macs(dials')
           /\ ~blind' => x \notin Macs(stored')
           /\ peers'[x] = NoKey
           /\ ~(pair' = "CONFIRM" /\ cand'.mac = x)
<1>0. /\ dials \in Seq(Bond) /\ Unique(dials)
      /\ peers \in [Mac -> Key \cup {NoKey, FailedKey}]
  BY DEF Coherent, TypeInv, TypeOK, OneSlotPerDial
<1>1. ASSUME NEW m \in Mac, ForgetBonded(m)
      PROVE  /\ x \notin Macs(dials')
             /\ ~blind' => x \notin Macs(stored')
             /\ peers'[x] = NoKey
             /\ ~(pair' = "CONFIRM" /\ cand'.mac = x)
  <2>1. /\ m \in Macs(dials) /\ dials' = Forgetting(m) /\ stored' = Forgetting(m)
        /\ peers' = [peers EXCEPT ![m] = NoKey] /\ x = m
    BY <1>1, OutcomeKinds DEF ForgetBonded, Save
  <2>2. ~(pair' = "CONFIRM" /\ cand'.mac = m)
    BY <1>1 DEF ForgetBonded, CancelCandidacy, IsCandidate, PairEnd, pairingVars
  <2>. QED
    BY <1>0, <2>1, <2>2, ForgettingEntries
<1>2. ASSUME NEW m \in Mac, ForgetNewCandidate(m)
      PROVE  /\ x \notin Macs(dials')
             /\ ~blind' => x \notin Macs(stored')
             /\ peers'[x] = NoKey
             /\ ~(pair' = "CONFIRM" /\ cand'.mac = x)
  <2>1. /\ m \notin Macs(dials) /\ UNCHANGED <<dials, stored, blind>>
        /\ pair' = "OFF" /\ pair = "CONFIRM" /\ CleanupCandidate(m, 0) /\ x = m
    BY <1>2, OutcomeKinds
    DEF ForgetNewCandidate, PairEnd, IsCandidate, tableVars
  <2>2. peers'[m] = NoKey
    BY <1>0, <2>1 DEF CleanupCandidate
  <2>3. ~blind => dials = stored
    BY <2>1 DEF Coherent, DurableTable, PairingCoherent
  <2>4. Macs(dials') = Macs(dials) /\ Macs(stored') = Macs(stored)
    BY <2>1
  <2>. QED
    BY <2>1, <2>2, <2>3, <2>4
<1>3. CASE ForgetAll
  <2>1. /\ dials' = <<>> /\ stored' = <<>> /\ x \in Mac
        /\ pair' # "CONFIRM"
    BY <1>3, OutcomeKinds DEF ForgetAll, Save, PairEnd, pairingVars
  <2>2. peers'[x] = NoKey
    BY <1>3, <2>1 DEF ForgetAll, RadioMatchesBonds
  <2>3. Macs(<<>>) = {}
    BY DEF Macs
  <2>4. Macs(dials') = {} /\ Macs(stored') = {}
    BY <2>1, <2>3
  <2>. QED
    BY <2>1, <2>2, <2>4
<1>. QED
  BY <1>1, <1>2, <1>3 DEF ForgetDial

(* A forget that has returned true leaves no bond in RAM, none in a store  *)
(* this boot has read or written, no key in the radio and no candidate     *)
(* whose proof, already queued, could bring the dial back.                 *)
THEOREM ForgettingIsFinal == Spec => ForgetIsFinal
<1>. DEFINE Final ==
       out'.kind = "forgot" =>
         \A m \in out'.macs :
           /\ m \notin Macs(dials')
           /\ ~blind' => m \notin Macs(stored')
           /\ peers'[m] = NoKey
           /\ ~(pair' = "CONFIRM" /\ cand'.mac = m)
<1>1. Coherent /\ RadioMatchesBonds /\ [Next]_vars => [Final]_vars
  <2>. SUFFICES ASSUME Coherent, RadioMatchesBonds, Next, out'.kind = "forgot"
                PROVE  Final
    BY DEF Final
  <2>1. (\E m \in Mac : ForgetDial(m)) \/ ForgetAll
    BY StepOutcome, ConfirmOutcome, EpochOutcome
  <2>. QED
    BY <2>1, ForgottenStep DEF Final
<1>. QED
  BY <1>1, AlwaysInTune, PTL DEF Spec, ForgetIsFinal

----------------------------------------------------------------------------
(* Who enters the table. *)

(* A new dial being confirmed was admitted with a link to spare, and links *)
(* have only become fewer since.                                           *)
AdmissionHolds ==
    (pair = "CONFIRM" /\ cand.mac \notin Macs(dials) /\ MaxLinks > 0)
      => Len(dials) < MaxLinks

(* A table that is saved either brings in the confirmed candidate or no    *)
(* dial and no key that is not in RAM already.                             *)
LEMMA ProposalKinds ==
    ASSUME Coherent, NEW table \in Proposals
    PROVE  \/ pair = "CONFIRM" /\ table = Bonding(cand)
           \/ \A i \in DOMAIN table : \E j \in DOMAIN dials :
                table[i].mac = dials[j].mac /\ table[i].lmk = dials[j].lmk
<1>0. dials \in Seq(Bond) /\ Unique(dials)
  BY DEF Coherent, TypeInv, TypeOK, OneSlotPerDial
<1>1. CASE table = <<>>
  BY <1>1
<1>2. ASSUME NEW m \in Macs(dials), table = Forgetting(m)
      PROVE  \A i \in DOMAIN table : \E j \in DOMAIN dials : table[i] = dials[j]
  BY <1>0, <1>2, ForgettingEntries
<1>3. ASSUME NEW m \in Macs(dials), table = Latching(m)
      PROVE  /\ DOMAIN table = DOMAIN dials
             /\ \A i \in DOMAIN dials : /\ table[i].mac = dials[i].mac
                                       /\ table[i].lmk = dials[i].lmk
  BY <1>0, <1>3, LatchingFacts
<1>. QED
  BY <1>1, <1>2, <1>3 DEF Proposals

(* What leaves the admission of a candidate as it was. *)
LEMMA AdmissionKept ==
    ASSUME AdmissionHolds, UNCHANGED <<pair, cand>>,
           Len(dials') <= Len(dials), Len(dials) \in Nat, Len(dials') \in Nat,
           pair = "CONFIRM" /\ cand.mac \in Macs(dials) => cand.mac \in Macs(dials')
    PROVE  AdmissionHolds'
<1>1. MaxLinks \in Nat
  BY ConstantsAssumption
<1>. QED
  BY <1>1 DEF AdmissionHolds

LEMMA NextAdmission == Coherent /\ AdmissionHolds /\ [Next]_vars => AdmissionHolds'
<1>. SUFFICES ASSUME Coherent, AdmissionHolds, [Next]_vars
              PROVE  AdmissionHolds'
  OBVIOUS
<1>0. dials \in Seq(Bond) /\ Unique(dials)
  BY DEF Coherent, TypeInv, TypeOK, OneSlotPerDial
<1>1. ASSUME UNCHANGED <<pair, cand, dials>> PROVE AdmissionHolds'
  BY <1>1 DEF AdmissionHolds, Macs
<1>2. ASSUME pair' # "CONFIRM" PROVE AdmissionHolds'
  BY <1>2 DEF AdmissionHolds
<1>3. CASE Start
  BY <1>2, <1>3 DEF Start, pairingVars, Coherent, PairingCoherent
<1>4. CASE PairStart
  BY <1>2, <1>4 DEF PairStart
<1>5. CASE PairStartRefused \/ RepairPeers \/ UNCHANGED vars
  BY <1>1, <1>5 DEF PairStartRefused, RepairPeers, vars, tableVars, pairingVars
<1>6. CASE PairCancel \/ WindowTimeout \/ ConfirmTimeout \/ PowerLoss
           \/ PowerLossAfterSave
  BY <1>2, <1>6 DEF PairCancel, WindowTimeout, ConfirmTimeout, PowerLoss,
                    PowerLossAfterSave, PowerOff, PairEnd
<1>7. ASSUME NEW m \in Mac, NEW id \in Id, NEW e \in DialEph, PairReq(m, id, e)
      PROVE  AdmissionHolds'
  <2>1. CASE PairReqPastMaxLinks(m) \/ PairReqRefused(m, id)
             \/ PairReqRepeated(m, id, e)
    BY <1>1, <2>1
    DEF PairReqPastMaxLinks, PairReqRefused, PairReqRepeated, tableVars, pairingVars
  <2>2. CASE PairReqAdmitted(m, id, e)
    <3>1. ~PastMaxLinks(m) /\ dials' = dials
      BY <2>2 DEF PairReqAdmitted, Considered, tableVars
    <3>2. pair' = "CONFIRM" => cand'.mac = m
      BY <2>2 DEF PairReqAdmitted, PairEnd
    <3>3. MaxLinks \in Nat /\ Len(dials) \in Nat /\ Macs(dials') = Macs(dials)
      BY <1>0, <3>1, ConstantsAssumption
    <3>. QED
      BY <3>1, <3>2, <3>3 DEF AdmissionHolds, PastMaxLinks
  <2>. QED
    BY <1>7, <2>1, <2>2 DEF PairReq
<1>8. ASSUME NEW m \in Mac, NEW k, PairConfirm(m, k) PROVE AdmissionHolds'
  <2>1. CASE Commit \/ CommitFails
    BY <1>2, <2>1 DEF Commit, CommitFails, PairEnd
  <2>2. CASE UNCHANGED <<tableVars, pairingVars>>
    BY <1>1, <2>2 DEF tableVars, pairingVars
  <2>. QED
    BY <1>8, <2>1, <2>2 DEF PairConfirm
<1>9. ASSUME NEW f, NEW m \in Mac, NEW e, FromBonded(m), EpochOk(f, m, e),
             UNCHANGED pairingVars
      PROVE  AdmissionHolds'
  <2>0. UNCHANGED <<pair, cand>> /\ m \in Macs(dials)
    BY <1>9 DEF pairingVars, FromBonded
  <2>1. CASE dials' = dials
    BY <1>1, <2>0, <2>1
  <2>2. CASE dials' = Latching(m)
    <3>1. /\ DOMAIN dials' = DOMAIN dials /\ Len(dials') = Len(dials)
          /\ \A i \in DOMAIN dials : dials'[i].mac = dials[i].mac
      BY <1>0, <2>0, <2>2, LatchingFacts
    <3>2. Macs(dials') = Macs(dials)
      BY <3>1 DEF Macs
    <3>. QED
      BY <1>0, <2>0, <3>1, <3>2, AdmissionKept
  <2>. QED
    BY <1>9, <2>1, <2>2 DEF EpochOk
<1>10. ASSUME NEW m \in Mac, NEW e, NEW v5,
              Command(m, e) \/ WifiSessionFrame(m, e) \/ RoomFrame(m, v5, e)
       PROVE  AdmissionHolds'
  BY <1>9, <1>10 DEF Command, WifiSessionFrame, RoomFrame
<1>11. ASSUME NEW m \in Mac, ForgetDial(m) PROVE AdmissionHolds'
  <2>1. CASE ForgetNewCandidate(m)
    BY <1>2, <2>1 DEF ForgetNewCandidate, PairEnd
  <2>2. CASE ForgetBonded(m) /\ IsCandidate(m)
    BY <1>2, <2>2 DEF ForgetBonded, CancelCandidacy, PairEnd
  <2>3. CASE ForgetBonded(m) /\ ~IsCandidate(m)
    <3>1. /\ m \in Macs(dials) /\ dials' = Forgetting(m) /\ UNCHANGED <<pair, cand>>
          /\ pair = "CONFIRM" => cand.mac # m
      BY <2>3 DEF ForgetBonded, CancelCandidacy, IsCandidate, pairingVars
    <3>2. /\ Len(dials') = Len(dials) - 1 /\ dials' \in Seq(Bond)
          /\ Macs(dials') = Macs(dials) \ {m}
      BY <1>0, <3>1, ForgettingFacts, ForgettingEntries
    <3>. QED
      BY <1>0, <3>1, <3>2, AdmissionKept
  <2>. QED
    BY <1>11, <2>1, <2>2, <2>3 DEF ForgetDial
<1>12. CASE ForgetAll
  BY <1>2, <1>12 DEF ForgetAll, PairEnd, pairingVars
<1>. QED
  BY <1>3, <1>4, <1>5, <1>6, <1>7, <1>8, <1>10, <1>11, <1>12 DEF Next

LEMMA NewEntryStep ==
    ASSUME Coherent, AdmissionHolds, [Next]_vars, NEW i \in DOMAIN stored',
           \A j \in DOMAIN stored :
             stored[j].mac # stored'[i].mac \/ stored[j].lmk # stored'[i].lmk
    PROVE  /\ pair = "CONFIRM"
           /\ stored'[i].mac = cand.mac /\ stored'[i].lmk = cand.lmk
           /\ \/ Len(stored') = Len(stored)
              \/ blind
              \/ MaxLinks = 0 \/ Len(stored') <= MaxLinks
<1>0. dials \in Seq(Bond) /\ (pair = "CONFIRM" => cand \in Candidate)
  BY DEF Coherent, TypeInv, TypeOK
<1>1. stored' \in Proposals
  BY StoredStep
<1>2. ~\E j \in DOMAIN dials :
         stored'[i].mac = dials[j].mac /\ stored'[i].lmk = dials[j].lmk
  BY ReadWhenBonded DEF Coherent
<1>3. pair = "CONFIRM" /\ stored' = Bonding(cand)
  BY <1>1, <1>2, ProposalKinds
<1>4. stored'[i] = NewBond(cand)
  <2>1. stored'[i] = NewBond(cand) \/ (i \in DOMAIN dials /\ stored'[i] = dials[i])
    BY <1>0, <1>3, BondingFacts
  <2>. QED
    BY <1>2, <2>1
<1>5. CASE ~blind
  <2>1. dials = stored
    BY <1>3, <1>5 DEF Coherent, DurableTable, PairingCoherent
  <2>2. CASE cand.mac \in Macs(dials)
    BY <1>0, <1>3, <1>4, <2>1, <2>2, BondingFacts DEF NewBond
  <2>3. CASE cand.mac \notin Macs(dials)
    <3>1. Len(stored') = Len(dials) + 1 /\ Len(dials) \in Nat /\ MaxLinks \in Nat
      BY <1>0, <1>3, <2>3, BondingFacts, ConstantsAssumption
    <3>. QED
      BY <1>3, <1>4, <2>3, <3>1 DEF AdmissionHolds, NewBond
  <2>. QED
    BY <1>3, <1>4, <2>2, <2>3 DEF NewBond
<1>. QED
  BY <1>3, <1>4, <1>5 DEF NewBond

(* Nothing but the confirmed candidate of the open window brings a dial or *)
(* a key into the store, and the limit it was admitted under still holds   *)
(* when it does.                                                           *)
THEOREM OnlyCandidates == Spec => OnlyCandidatesCommit
<1>. DEFINE Entering ==
       \A i \in DOMAIN stored' :
         (\A j \in DOMAIN stored :
            stored[j].mac # stored'[i].mac \/ stored[j].lmk # stored'[i].lmk)
         => /\ pair = "CONFIRM"
            /\ stored'[i].mac = cand.mac /\ stored'[i].lmk = cand.lmk
            /\ \/ Len(stored') = Len(stored)
               \/ blind
               \/ MaxLinks = 0 \/ Len(stored') <= MaxLinks
<1>1. Coherent /\ AdmissionHolds /\ [Next]_vars => [Entering]_vars
  BY NewEntryStep
<1>2. Init => AdmissionHolds
  BY DEF Init, AdmissionHolds
<1>. QED
  BY <1>1, <1>2, AlwaysCoherent, NextAdmission, PTL DEF Spec, OnlyCandidatesCommit

----------------------------------------------------------------------------
(* The order of the slots. *)

LEMMA ProposalOrder ==
    ASSUME Coherent, NEW table \in Proposals,
           NEW i \in DOMAIN dials, NEW j \in DOMAIN dials, i < j,
           NEW x \in DOMAIN table, NEW y \in DOMAIN table,
           table[x].mac = dials[i].mac, table[y].mac = dials[j].mac
    PROVE  x < y
<1>0. /\ dials \in Seq(Bond) /\ Unique(dials)
      /\ (pair = "CONFIRM" => cand \in Candidate)
  BY DEF Coherent, TypeInv, TypeOK, OneSlotPerDial
<1>1. CASE table = <<>>
  BY <1>1
<1>2. ASSUME NEW m \in Macs(dials), table = Forgetting(m) PROVE x < y
  <2>. DEFINE Source(n) == IF n < SlotOf(m) THEN n ELSE n + 1
  <2>0. SlotOf(m) \in DOMAIN dials
    BY SlotFound
  <2>1. /\ Len(table) = Len(dials) - 1 /\ table \in Seq(Bond)
        /\ \A n \in DOMAIN table : table[n] = dials[Source(n)]
    BY <1>0, <1>2, ForgettingFacts
  <2>2. \A n \in DOMAIN table : Source(n) \in DOMAIN dials
    BY <1>0, <2>0, <2>1
  <2>3. Source(x) = i /\ Source(y) = j
    BY <1>0, <2>1, <2>2 DEF Unique
  <2>. QED
    BY <1>0, <2>0, <2>1, <2>3
<1>3. ASSUME NEW m \in Macs(dials), table = Latching(m) PROVE x < y
  <2>1. DOMAIN table = DOMAIN dials /\ \A n \in DOMAIN dials : table[n].mac = dials[n].mac
    BY <1>0, <1>3, LatchingFacts
  <2>. QED
    BY <1>0, <2>1 DEF Unique
<1>4. CASE pair = "CONFIRM" /\ table = Bonding(cand)
  <2>1. NewBond(cand).mac = cand.mac
    BY DEF NewBond
  <2>2. CASE cand.mac \in Macs(dials)
    <3>1. SlotOf(cand.mac) \in DOMAIN dials /\ dials[SlotOf(cand.mac)].mac = cand.mac
      BY <2>2, SlotFound DEF BondOf
    <3>2. DOMAIN table = DOMAIN dials /\ \A n \in DOMAIN dials : table[n].mac = dials[n].mac
      BY <1>0, <1>4, <2>1, <2>2, <3>1, BondingFacts
    <3>. QED
      BY <1>0, <3>2 DEF Unique
  <2>3. CASE cand.mac \notin Macs(dials)
    <3>1. \A n \in DOMAIN dials : dials[n].mac # cand.mac
      BY <2>3 DEF Macs
    <3>2. \A n \in DOMAIN table :
            n # Len(dials) + 1 => n \in DOMAIN dials /\ table[n] = dials[n]
      BY <1>0, <1>4, <2>3, BondingFacts
    <3>3. table[Len(dials) + 1] = NewBond(cand)
      BY <1>0, <1>4, <2>3, BondingFacts
    <3>4. x # Len(dials) + 1 /\ y # Len(dials) + 1
      BY <2>1, <3>1, <3>3
    <3>. QED
      BY <1>0, <3>2, <3>4 DEF Unique
  <2>. QED
    BY <2>2, <2>3
<1>. QED
  BY <1>1, <1>2, <1>3, <1>4 DEF Proposals

LEMMA NextOrder ==
    ASSUME Coherent, [Next]_vars,
           NEW i \in DOMAIN dials, NEW j \in DOMAIN dials,
           NEW x \in DOMAIN dials', NEW y \in DOMAIN dials',
           i < j, dials'[x].mac = dials[i].mac, dials'[y].mac = dials[j].mac
    PROVE  x < y
<1>1. CASE dials' = dials
  BY <1>1 DEF Coherent, OneSlotPerDial, Unique
<1>2. CASE TableSaved
  BY <1>2, ProposalOrder DEF TableSaved
<1>3. CASE Start
  <2>1. dials = stored
    BY ReadWhenBonded DEF Coherent
  <2>. QED
    BY <1>1, <1>3, <2>1 DEF Start, Loaded
<1>4. CASE PowerLoss \/ PowerLossAfterSave
  BY <1>4 DEF PowerLoss, PowerLossAfterSave, PowerOff
<1>. QED
  BY <1>1, <1>2, <1>3, <1>4, TableStep DEF TableKept

(* No step swaps two bonds: a re-pair stays in its slot and a removal only *)
(* moves later bonds down.                                                 *)
THEOREM SlotsKeepOrder == Spec => SlotOrderKept
<1>. DEFINE Ordered ==
       \A i, j \in DOMAIN dials, x, y \in DOMAIN dials' :
         (i < j /\ dials'[x].mac = dials[i].mac /\ dials'[y].mac = dials[j].mac)
         => x < y
<1>1. Coherent /\ [Next]_vars => [Ordered]_vars
  BY NextOrder
<1>. QED
  BY <1>1, AlwaysCoherent, PTL DEF Spec, SlotOrderKept

----------------------------------------------------------------------------
(* The registry of bonds.                                                  *)

(* What the refinement needs besides: keys come from windows that were     *)
(* opened, and a boot that could not read the store serves nothing.        *)
RegistryInv == Coherent /\ windows <= MaxWindows /\ (blind => dials = <<>>)

LEMMA NextRegistryInv == RegistryInv /\ [Next]_vars => RegistryInv'
<1>. SUFFICES ASSUME RegistryInv, [Next]_vars PROVE RegistryInv'
  OBVIOUS
<1>1. Coherent'
  BY NextType, NextDurable, NextOneSlot, NextPairing DEF RegistryInv, Coherent
<1>2. windows' <= MaxWindows
  <2>0. windows \in Nat /\ MaxWindows \in Nat
    BY ConstantsAssumption DEF RegistryInv, Coherent, TypeInv, TypeOK
  <2>1. CASE PairStart
    BY <2>0, <2>1 DEF PairStart
  <2>2. CASE ~PairStart
    <3>1. windows' = windows
      <4>1. CASE PairStartRefused \/ PairCancel \/ WindowTimeout
                 \/ ConfirmTimeout \/ RepairPeers \/ ForgetAll \/ UNCHANGED vars
        BY <4>1 DEF PairStartRefused, PairCancel, WindowTimeout, ConfirmTimeout,
                    RepairPeers, ForgetAll, vars
      <4>7. CASE Start \/ PowerLoss \/ PowerLossAfterSave
        BY <4>7 DEF Start, PowerLoss, PowerLossAfterSave, PowerOff
      <4>2. CASE \E m \in Mac, id \in Id, e \in DialEph : PairReq(m, id, e)
        BY <4>2 DEF PairReq, PairReqPastMaxLinks, PairReqRefused,
                    PairReqRepeated, PairReqAdmitted
      <4>3. CASE \E m \in Mac, d \in DialEph, c \in 0..windows :
                   PairConfirm(m, [dial |-> d, ctrl |-> c])
        BY <4>3 DEF PairConfirm, Commit, CommitFails
      <4>4. CASE \E m \in Mac, e \in 0..boots :
                   Command(m, e) \/ WifiSessionFrame(m, e)
        BY <4>4 DEF Command, WifiSessionFrame
      <4>5. CASE \E m \in Mac, e \in 0..boots, v5 \in BOOLEAN : RoomFrame(m, v5, e)
        BY <4>5 DEF RoomFrame
      <4>6. CASE \E m \in Mac : ForgetDial(m)
        BY <4>6 DEF ForgetDial, ForgetBonded, ForgetNewCandidate
      <4>. QED
        BY <2>2, <4>1, <4>2, <4>3, <4>4, <4>5, <4>6, <4>7 DEF Next
    <3>. QED
      BY <2>0, <3>1 DEF RegistryInv
  <2>. QED
    BY <2>1, <2>2
<1>3. blind' => dials' = <<>>
  <2>1. CASE TableKept \/ TableSaved
    BY <2>1 DEF TableKept, TableSaved, RegistryInv
  <2>2. CASE Start
    BY <2>2 DEF Start
  <2>3. CASE PowerLoss \/ PowerLossAfterSave
    BY <2>3 DEF PowerLoss, PowerLossAfterSave, PowerOff
  <2>. QED
    BY <2>1, <2>2, <2>3, TableStep
<1>. QED
  BY <1>1, <1>2, <1>3 DEF RegistryInv

(* The entries of a table: one for each slot, hence no more than slots.    *)
LEMMA EntriesFacts ==
    ASSUME NEW table \in Seq(Bond)
    PROVE  /\ \A i \in DOMAIN table : EntryOf(table[i]) \in Entries(table)
           /\ \A b \in Entries(table) : \E i \in DOMAIN table : b = EntryOf(table[i])
           /\ Entries(table) = {} <=> table = <<>>
           /\ IsFiniteSet(Entries(table))
           /\ Cardinality(Entries(table)) <= Len(table)
<1>1. \A i \in DOMAIN table : EntryOf(table[i]) \in Entries(table)
  BY DEF Entries
<1>2. \A b \in Entries(table) : \E i \in DOMAIN table : b = EntryOf(table[i])
  BY DEF Entries
<1>3. Entries(table) = {} <=> table = <<>>
  <2>1. table # <<>> => 1 \in DOMAIN table
    OBVIOUS
  <2>2. table = <<>> => DOMAIN table = {}
    OBVIOUS
  <2>. QED
    BY <1>1, <1>2, <2>1, <2>2
<1>4. /\ IsFiniteSet(DOMAIN table) /\ Cardinality(DOMAIN table) = Len(table)
  <2>1. DOMAIN table = 1..Len(table) /\ Len(table) \in Nat
    OBVIOUS
  <2>2. IsFiniteSet(1..Len(table)) /\ Cardinality(1..Len(table)) = Len(table)
    BY <2>1, FS_Interval
  <2>. QED
    BY <2>1, <2>2
<1>5. /\ IsFiniteSet(Entries(table))
      /\ Cardinality(Entries(table)) <= Cardinality(DOMAIN table)
  <2>. DEFINE slot == [i \in DOMAIN table |-> EntryOf(table[i])]
  <2>1. slot \in Surjection(DOMAIN table, Entries(table))
    BY DEF Surjection, Entries
  <2>. QED
    BY <1>4, <2>1, FS_Surjection
<1>. QED
  BY <1>1, <1>2, <1>3, <1>4, <1>5

LEMMA EntryFields ==
    ASSUME NEW bond
    PROVE  /\ EntryOf(bond).mac = bond.mac /\ EntryOf(bond).lmk = bond.lmk
           /\ EntryOf(bond).id = bond.id
BY DEF EntryOf

(* The registry counts as the library does. *)
LEMMA SameCardinality == \A S : Registry!Cardinality(S) = Cardinality(S)
BY DEF Cardinality, Registry!Cardinality

LEMMA InitRegistry == Init => Registry!Init
<1>. SUFFICES ASSUME Init PROVE Registry!Init
  OBVIOUS
<1>1. PICK n \in 0..MaxDials : stored \in [1..n -> LegacyBond]
  BY DEF Init
<1>2. stored \in Seq(Bond) /\ Len(stored) <= MaxDials /\ DOMAIN stored = 1..n
  BY <1>1, InitType, ConstantsAssumption DEF TypeInv, TypeOK
<1>3. Entries(stored) \in SUBSET Registry!Entry
  <2>1. ASSUME NEW b \in LegacyBond
        PROVE  EntryOf(b) \in Registry!Entry
    <3>1. b.mac \in Mac /\ b.id \in Id /\ b.lmk \in [dial : DialEph, ctrl : {0}]
      BY DEF LegacyBond
    <3>2. b.lmk \in [dial : DialEph, ctrl : 0..MaxWindows]
      BY <3>1, ConstantsAssumption
    <3>. QED
      BY <3>1, <3>2 DEF EntryOf, Registry!Entry
  <2>. QED
    BY <1>1, <1>2, <2>1 DEF Entries
<1>4. ASSUME NEW b \in Entries(stored), NEW c \in Entries(stored), b.mac = c.mac
      PROVE  b = c
  <2>1. PICK i \in DOMAIN stored : b = EntryOf(stored[i])
    BY <1>2, EntriesFacts
  <2>2. PICK j \in DOMAIN stored : c = EntryOf(stored[j])
    BY <1>2, EntriesFacts
  <2>. QED
    BY <1>4, <2>1, <2>2, EntryFields DEF Init, Unique
<1>5. Cardinality(Entries(stored)) <= MaxDials
  <2>1. Cardinality(Entries(stored)) <= Len(stored)
        /\ IsFiniteSet(Entries(stored)) /\ Len(stored) \in Nat
    BY <1>2, EntriesFacts
  <2>2. Cardinality(Entries(stored)) \in Nat
    BY <2>1, FS_CardinalityType
  <2>. QED
    BY <1>2, <2>1, <2>2, ConstantsAssumption
<1>6. Entries(dials) = {} /\ blind = FALSE
  BY DEF Init, Entries
<1>. QED
  BY <1>3, <1>4, <1>5, <1>6, SameCardinality DEF Registry!Init

(* A controller that proposes a table knows the registry, or has read      *)
(* nothing and serves nothing.                                             *)
LEMMA KnownIsServed ==
    ASSUME RegistryInv, started \/ dials # <<>>
    PROVE  Registry!Known = Entries(dials)
<1>1. CASE blind
  BY <1>1 DEF Registry!Known, RegistryInv, Entries
<1>2. CASE ~blind
  BY <1>2 DEF Registry!Known, RegistryInv, Coherent, DurableTable
<1>. QED
  BY <1>1, <1>2

(* Each kind of proposal is a change of the registry. *)
LEMMA ForgettingChanges ==
    ASSUME RegistryInv, NEW m \in Macs(dials)
    PROVE  /\ Registry!Of(m, Registry!Known) # {}
           /\ Entries(Forgetting(m)) = Registry!Known \ Registry!Of(m, Registry!Known)
<1>0. dials \in Seq(Bond) /\ Unique(dials) /\ dials # <<>>
  BY DEF RegistryInv, Coherent, TypeInv, TypeOK, OneSlotPerDial, Macs
<1>1. Registry!Known = Entries(dials)
  BY <1>0, KnownIsServed
<1>2. PICK i \in DOMAIN dials : dials[i].mac = m
  BY <1>0, InTable
<1>3. EntryOf(dials[i]) \in Registry!Of(m, Entries(dials))
  BY <1>0, <1>2, EntriesFacts, EntryFields DEF Registry!Of
<1>4. Entries(Forgetting(m)) = {b \in Entries(dials) : b.mac # m}
  <2>1. Forgetting(m) \in Seq(Bond)
    BY <1>0, ForgettingFacts
  <2>2. ASSUME NEW b \in Entries(Forgetting(m))
        PROVE  b \in Entries(dials) /\ b.mac # m
    <3>1. PICK j \in DOMAIN Forgetting(m) : b = EntryOf(Forgetting(m)[j])
      BY <2>1, EntriesFacts
    <3>2. PICK n \in DOMAIN dials : Forgetting(m)[j] = dials[n] /\ dials[n].mac # m
      BY <1>0, ForgettingEntries
    <3>. QED
      BY <1>0, <3>1, <3>2, EntriesFacts, EntryFields
  <2>3. ASSUME NEW b \in Entries(dials), b.mac # m
        PROVE  b \in Entries(Forgetting(m))
    <3>1. PICK n \in DOMAIN dials : b = EntryOf(dials[n])
      BY <1>0, EntriesFacts
    <3>2. PICK j \in DOMAIN Forgetting(m) : Forgetting(m)[j] = dials[n]
      BY <1>0, <2>3, <3>1, ForgettingEntries, EntryFields
    <3>. QED
      BY <2>1, <3>1, <3>2, EntriesFacts
  <2>. QED
    BY <2>2, <2>3
<1>. QED
  BY <1>1, <1>3, <1>4 DEF Registry!Of

LEMMA LatchingChangesNothing ==
    ASSUME RegistryInv, NEW m \in Macs(dials)
    PROVE  Entries(Latching(m)) = Entries(dials)
<1>0. dials \in Seq(Bond)
  BY DEF RegistryInv, Coherent, TypeInv, TypeOK
<1>1. /\ DOMAIN Latching(m) = DOMAIN dials
      /\ \A i \in DOMAIN dials : EntryOf(Latching(m)[i]) = EntryOf(dials[i])
  BY <1>0, LatchingFacts DEF EntryOf
<1>. QED
  BY <1>1 DEF Entries

(* A commit bonds the candidate, in the slot its dial has or a new one. *)
LEMMA BondingEntries ==
    ASSUME RegistryInv, pair = "CONFIRM"
    PROVE  Entries(Bonding(cand)) =
             (Entries(dials) \ Registry!Of(cand.mac, Entries(dials))) \cup {EntryOf(NewBond(cand))}
<1>0. dials \in Seq(Bond) /\ Unique(dials) /\ cand \in Candidate
  BY DEF RegistryInv, Coherent, TypeInv, TypeOK, OneSlotPerDial
<1>. DEFINE b == EntryOf(NewBond(cand))
            rest == {c \in Entries(dials) : c.mac # cand.mac}
<1>1. Bonding(cand) \in Seq(Bond) /\ NewBond(cand).mac = cand.mac
  BY <1>0, BondingFacts DEF NewBond
<1>2. \A i \in DOMAIN Bonding(cand) :
        Bonding(cand)[i] = NewBond(cand)
        \/ (i \in DOMAIN dials /\ Bonding(cand)[i] = dials[i] /\ dials[i].mac # cand.mac)
  <2>1. CASE cand.mac \in Macs(dials)
    <3>1. \A i \in DOMAIN dials : i # SlotOf(cand.mac) => dials[i].mac # cand.mac
      BY <1>0, UniqueSlot
    <3>. QED
      BY <1>0, <2>1, <3>1, BondingFacts
  <2>2. CASE cand.mac \notin Macs(dials)
    BY <1>0, <2>2, BondingFacts DEF Macs
  <2>. QED
    BY <2>1, <2>2
<1>3. \A i \in DOMAIN dials : dials[i].mac # cand.mac =>
        i \in DOMAIN Bonding(cand) /\ Bonding(cand)[i] = dials[i]
  <2>1. CASE cand.mac \in Macs(dials)
    <3>1. dials[SlotOf(cand.mac)].mac = cand.mac
      BY <2>1, SlotFound DEF BondOf
    <3>. QED
      BY <1>0, <2>1, <3>1, BondingFacts
  <2>2. CASE cand.mac \notin Macs(dials)
    BY <1>0, <2>2, BondingFacts
  <2>. QED
    BY <2>1, <2>2
<1>4. ASSUME NEW c \in Entries(Bonding(cand)) PROVE c \in rest \cup {b}
  <2>1. PICK i \in DOMAIN Bonding(cand) : c = EntryOf(Bonding(cand)[i])
    BY <1>1, EntriesFacts
  <2>2. CASE Bonding(cand)[i] = NewBond(cand)
    BY <2>1, <2>2
  <2>3. CASE i \in DOMAIN dials /\ Bonding(cand)[i] = dials[i] /\ dials[i].mac # cand.mac
    BY <1>0, <2>1, <2>3, EntriesFacts, EntryFields
  <2>. QED
    BY <1>2, <2>2, <2>3
<1>5. ASSUME NEW c \in rest PROVE c \in Entries(Bonding(cand))
  <2>1. PICK i \in DOMAIN dials : c = EntryOf(dials[i])
    BY <1>0, EntriesFacts
  <2>2. i \in DOMAIN Bonding(cand) /\ Bonding(cand)[i] = dials[i]
    BY <1>3, <2>1, EntryFields
  <2>. QED
    BY <1>1, <2>1, <2>2, EntriesFacts
<1>6. b \in Entries(Bonding(cand))
  <2>1. PICK i \in DOMAIN Bonding(cand) : Bonding(cand)[i] = NewBond(cand)
    BY <1>0, BondedInTable
  <2>. QED
    BY <1>1, <2>1, EntriesFacts
<1>7. Entries(Bonding(cand)) = rest \cup {b}
  BY <1>4, <1>5, <1>6
<1>8. Entries(dials) \ Registry!Of(cand.mac, Entries(dials)) = rest
  BY DEF Registry!Of
<1>. QED
  BY <1>7, <1>8

LEMMA BondingPairs ==
    ASSUME RegistryInv, pair = "CONFIRM",
           Registry!Change(Registry!Known, Entries(Bonding(cand)))
    PROVE  \E b \in Registry!Entry : Registry!Pair(b)
<1>. DEFINE b == EntryOf(NewBond(cand))
<1>0. /\ dials \in Seq(Bond) /\ Unique(dials) /\ Len(dials) <= MaxDials
      /\ cand \in Candidate /\ started
      /\ cand.lmk.ctrl = windows /\ windows \in Nat /\ windows <= MaxWindows
      /\ cand.mac \notin Macs(dials) => Len(dials) < MaxDials
      /\ \A i \in DOMAIN dials : dials[i].mac = cand.mac => dials[i].id = cand.id
  BY DEF RegistryInv, Coherent, TypeInv, TypeOK, OneSlotPerDial, PairingCoherent
<1>1. b.mac = cand.mac /\ b.lmk = cand.lmk /\ b.id = cand.id
  BY EntryFields DEF NewBond
<1>2. b \in Registry!Entry
  <2>1. cand.mac \in Mac /\ cand.id \in Id /\ cand.lmk \in Key
    BY <1>0 DEF Candidate
  <2>2. cand.lmk \in [dial : DialEph, ctrl : 0..MaxWindows]
    BY <1>0, <2>1, ConstantsAssumption DEF Key
  <2>. QED
    BY <2>1, <2>2 DEF EntryOf, NewBond, Registry!Entry
<1>3. Registry!Known = Entries(dials)
  BY <1>0, KnownIsServed
<1>4. Entries(Bonding(cand)) =
        (Registry!Known \ Registry!Of(b.mac, Registry!Known)) \cup {b}
  BY <1>1, <1>3, BondingEntries
<1>5. ASSUME NEW c \in Registry!Of(b.mac, Registry!Known) PROVE c.id = b.id
  <2>1. c \in Entries(dials) /\ c.mac = cand.mac
    BY <1>1, <1>3, <1>5 DEF Registry!Of
  <2>2. PICK i \in DOMAIN dials : c = EntryOf(dials[i])
    BY <1>0, <2>1, EntriesFacts
  <2>. QED
    BY <1>0, <1>1, <2>1, <2>2, EntryFields
<1>6. Registry!Cardinality(Entries(Bonding(cand))) <= MaxDials
  <2>1. /\ Bonding(cand) \in Seq(Bond)
        /\ Len(Bonding(cand)) <= MaxDials /\ Len(Bonding(cand)) \in Nat
    BY <1>0, BondingFacts, ConstantsAssumption
  <2>2. /\ Cardinality(Entries(Bonding(cand))) <= Len(Bonding(cand))
        /\ IsFiniteSet(Entries(Bonding(cand)))
    BY <2>1, EntriesFacts
  <2>3. Cardinality(Entries(Bonding(cand))) \in Nat
    BY <2>2, FS_CardinalityType
  <2>. QED
    BY <2>1, <2>2, <2>3, SameCardinality, ConstantsAssumption
<1>7. Registry!Pair(b)
  BY <1>4, <1>5, <1>6 DEF Registry!Pair
<1>. QED
  BY <1>2, <1>7

(* A table is saved and published, or saved just before power is lost. *)
LEMMA SavedChanges ==
    ASSUME RegistryInv, NEW table \in Proposals, stored' = table, blind' = FALSE,
           dials' \in {table, <<>>}
    PROVE  [Registry!Next]_(Registry!vars)
<1>0. /\ dials \in Seq(Bond) /\ (pair = "CONFIRM" => started)
      /\ Entries(<<>>) = {}
  BY DEF RegistryInv, Coherent, TypeInv, TypeOK, PairingCoherent, Entries
<1>1. CASE table = <<>>
  <2>1. Registry!Change(Entries(dials), {})
    BY <1>0, <1>1 DEF Registry!Change
  <2>. QED
    BY <2>1 DEF Registry!Next, Registry!Clear
<1>2. ASSUME Registry!Known = Entries(dials)
      PROVE  Registry!Change(Registry!Known, Entries(table))
  BY <1>0, <1>2 DEF Registry!Change
<1>3. ASSUME NEW m \in Macs(dials), table = Forgetting(m)
      PROVE  Registry!Next
  <2>1. m \in Mac /\ dials # <<>>
    BY <1>0, InTable DEF Macs
  <2>2. Registry!Known = Entries(dials)
    BY <2>1, KnownIsServed
  <2>3. Registry!Change(Registry!Known, Entries(table))
    BY <1>2, <2>2
  <2>4. Registry!Forget(m)
    BY <1>3, <2>3, ForgettingChanges DEF Registry!Forget
  <2>. QED
    BY <2>1, <2>4 DEF Registry!Next
<1>4. ASSUME NEW m \in Macs(dials), table = Latching(m)
      PROVE  [Registry!Next]_(Registry!vars)
  <2>1. dials # <<>>
    BY DEF Macs
  <2>2. dials = stored /\ blind = FALSE
    BY <2>1, ReadWhenBonded DEF RegistryInv, Coherent, TypeInv, TypeOK
  <2>3. Entries(stored') = Entries(stored)
    BY <1>4, <2>2, LatchingChangesNothing
  <2>4. CASE dials' = table
    <3>1. Entries(dials') = Entries(dials)
      BY <1>4, <2>4, LatchingChangesNothing
    <3>. QED
      BY <2>2, <2>3, <3>1 DEF Registry!vars
  <2>5. CASE dials' = <<>>
    <3>1. Registry!PowerLoss
      BY <1>0, <2>3, <2>5 DEF Registry!PowerLoss
    <3>. QED
      BY <3>1 DEF Registry!Next
  <2>. QED
    BY <2>4, <2>5
<1>5. CASE pair = "CONFIRM" /\ table = Bonding(cand)
  <2>1. Registry!Change(Registry!Known, Entries(table))
    BY <1>0, <1>2, <1>5, KnownIsServed
  <2>. QED
    BY <1>5, <2>1, BondingPairs DEF Registry!Next
<1>. QED
  BY <1>1, <1>3, <1>4, <1>5 DEF Proposals

LEMMA StartBoots ==
    ASSUME RegistryInv, Start
    PROVE  Registry!Boot
<1>1. PICK readable \in BOOLEAN :
        /\ dials' = Loaded(readable)
        /\ blind' = (~readable /\ Loaded(readable) = <<>>)
  BY DEF Start
<1>2. stored' = stored /\ dials \in Seq(Bond) /\ dials' \in Seq(Bond)
  BY <1>1 DEF Start, Loaded, RegistryInv, Coherent, TypeInv, TypeOK
<1>3. Entries(dials) = {} <=> dials = <<>>
  BY <1>2, EntriesFacts
<1>4. CASE readable
  <2>1. dials' = stored /\ blind' = FALSE
    BY <1>1, <1>4 DEF Loaded, RegistryInv, Coherent, DurableTable
  <2>. QED
    BY <1>2, <2>1 DEF Registry!Boot
<1>5. CASE ~readable
  <2>1. dials' = dials /\ blind' = (dials = <<>>)
    BY <1>1, <1>5 DEF Loaded
  <2>. QED
    BY <1>2, <1>3, <2>1 DEF Registry!Boot
<1>. QED
  BY <1>4, <1>5

LEMMA NextRegistry == RegistryInv /\ [Next]_vars => [Registry!Next]_(Registry!vars)
<1>. SUFFICES ASSUME RegistryInv, [Next]_vars
              PROVE  [Registry!Next]_(Registry!vars)
  OBVIOUS
<1>1. CASE TableKept
  BY <1>1 DEF TableKept, Registry!vars
<1>2. CASE TableSaved
  BY <1>2, SavedChanges DEF TableSaved
<1>3. CASE Start
  BY <1>3, StartBoots DEF Registry!Next
<1>4. CASE PowerLoss
  <2>1. Entries(<<>>) = {}
    BY DEF Entries
  <2>2. Registry!PowerLoss
    BY <1>4, <2>1 DEF PowerLoss, PowerOff, Registry!PowerLoss
  <2>. QED
    BY <2>2 DEF Registry!Next
<1>5. CASE PowerLossAfterSave
  BY <1>5, SavedChanges DEF PowerLossAfterSave, PowerOff
<1>. QED
  BY <1>1, <1>2, <1>3, <1>4, <1>5, TableStep

(* The pairing core implements the bond registry: with every handler,      *)
(* refused save and interruption, the table changes only by bonding a dial *)
(* under its pinned identity, forgetting one or clearing all, durably and  *)
(* before it is served, and never beyond its capacity.                     *)
THEOREM CoreImplementsRegistry == Spec => ImplementsRegistry
<1>1. Init => RegistryInv
  BY InitType, InitDurable, InitCoherent, ConstantsAssumption
  DEF RegistryInv, Coherent, Init
<1>. QED
  BY <1>1, InitRegistry, NextRegistryInv, NextRegistry, PTL
  DEF Spec, ImplementsRegistry, Registry!Spec
=============================================================================
