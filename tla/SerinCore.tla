----------------------------- MODULE SerinCore -----------------------------
(***************************************************************************)
(* The controller's pairing core (src/src/sl2_link.c): the pairing window  *)
(* and its candidate, the bond table in RAM and in the key/value store,    *)
(* the peers installed in the radio, and the per-boot epoch that keeps a   *)
(* recorded frame from being acted on after a reboot.                      *)
(*                                                                         *)
(* on_recv and loop run in one context (sl2_link.h, "Threading contract"), *)
(* so a handler is one step; what interleaves is the order of frames, API  *)
(* calls and timeouts, the failure of any port call a handler makes, and   *)
(* power loss -- also in the middle of a handler, just after its save.     *)
(* Every frame that can be received may be received at any time, any       *)
(* number of times: loss, duplication, reordering and replay need no       *)
(* actions of their own.  Frames dropped with no effect on this state      *)
(* (short, bad signature, wrong destination, failed derivation) are the    *)
(* stuttering steps.  Clocks are abstracted: a deadline may pass at any    *)
(* moment.                                                                 *)
(***************************************************************************)
EXTENDS Integers, Sequences

CONSTANTS
    Mac,         \* MAC addresses of dials
    Id,          \* dial identities (Ed25519 public keys)
    DialEph,     \* dial ephemeral public keys
    MaxDials,    \* SL2_MAX_DIALS
    MaxLinks,    \* the adapter's max_links, 0 when unset
    NoKey,       \* the radio holds no peer for a MAC
    FailedKey,   \* ... because the last peer_add for it failed
    NoCandidate,
    MaxWindows,  \* bound: pairing windows (controller ephemeral keys) ever
    MaxBoots,    \* bound: boots
    MaxFaults    \* bound: port calls that fail

(* An LMK is what X25519 and HKDF make of the two ephemerals.  ctrl = 0 is *)
(* the key of a bond made before the modelled history.                     *)
Key == [dial : DialEph, ctrl : Nat]

Bond == [mac : Mac, lmk : Key, id : Id, latched : BOOLEAN]

Candidate == [mac : Mac, lmk : Key, id : Id]

ASSUME ConstantsAssumption ==
    /\ MaxDials \in Nat \ {0}
    /\ MaxLinks \in 0..MaxDials
    /\ MaxWindows \in Nat /\ MaxBoots \in Nat /\ MaxFaults \in Nat
    /\ NoKey \notin Key /\ FailedKey \notin Key /\ NoKey # FailedKey
    /\ NoCandidate \notin Candidate

VARIABLES
    started,  \* sl2_link_start has succeeded in this boot
    dials,    \* the bond table in RAM, in slot order
    seen,     \* MACs whose dial has epoch_seen set
    stored,   \* the bond table in the key/value store
    blind,    \* this boot could not read the store, and has not saved since
    peers,    \* the radio: the key of the peer installed for each MAC
    bcast,    \* the radio: the broadcast peer is installed
    pair,     \* "OFF", "WINDOW" or "CONFIRM"
    cand,     \* cand_mac, cand_lmk (hence cand_eph_pub), cand_id_pub
    eph,      \* eph_priv: number of the window it was made for, 0 = wiped
    result,   \* pair_result
    epoch,    \* the boot's epoch, 0 = none (no start yet, or rand failed)
    proven,   \* history: MACs whose bond comes from an authenticated
              \*   handshake or has had a correct echo accepted
    out,      \* history: what the last step did for the outside
    windows, boots, faults  \* counters, bounded by MaxWindows, ...

pairingVars == <<pair, cand, eph, result, bcast>>
tableVars   == <<dials, seen, stored, blind, proven>>
bootVars    == <<started, epoch, boots>>
vars == <<started, dials, seen, stored, blind, peers, bcast, pair, cand, eph,
          result, epoch, proven, out, windows, boots, faults>>

----------------------------------------------------------------------------
(* The table. *)

Macs(table) == {table[i].mac : i \in DOMAIN table}

SlotOf(m) == CHOOSE i \in DOMAIN dials : dials[i].mac = m

BondOf(m) == dials[SlotOf(m)]

IsCandidate(m) == pair = "CONFIRM" /\ m = cand.mac

(* Mutant: the count is not decremented, the freed slot stays, zeroed. *)
ForgettingKeepsSlot(m) ==
    [i \in 1..Len(dials) |->
       IF i < SlotOf(m) THEN dials[i]
       ELSE IF i < Len(dials) THEN dials[i + 1]
       ELSE [mac |-> NoKey, lmk |-> NoKey, id |-> NoKey, latched |-> FALSE]]

(* forget_dial compacts: later slots move down by one. *)
Forgetting(m) ==
    [i \in 1..(Len(dials) - 1) |-> IF i < SlotOf(m) THEN dials[i]
                                                    ELSE dials[i + 1]]

(* Mutant: the latch is not in the table that is saved. *)
LatchingNothing(m) == dials

Latching(m) == [dials EXCEPT ![SlotOf(m)].latched = TRUE]

(* Every bond is made by a v5 handshake: it starts latched. *)
NewBond(c) == [mac |-> c.mac, lmk |-> c.lmk, id |-> c.id, latched |-> TRUE]

(* Mutant: a re-pair does not look for the dial's slot. *)
BondingAppends(c) == Append(dials, NewBond(c))

(* Mutant: a re-pair frees the slot and takes the next free one. *)
BondingMovesSlot(c) ==
    IF c.mac \in Macs(dials) THEN Append(Forgetting(c.mac), NewBond(c))
                             ELSE Append(dials, NewBond(c))

(* A re-pair replaces the bond in its slot, a new dial takes the next one. *)
Bonding(c) ==
    IF c.mac \in Macs(dials)
    THEN [dials EXCEPT ![SlotOf(c.mac)] = NewBond(c)]
    ELSE Append(dials, NewBond(c))

(* What a step does for the outside, for the properties and for modules    *)
(* that add the other end of the link.                                     *)
Silent         == [kind |-> "none"]
Resp(m, k)     == [kind |-> "resp", mac |-> m, lmk |-> k]
Ack(m, k)      == [kind |-> "ack", mac |-> m, lmk |-> k]
Act(f, m, e)   == [kind |-> "act", frame |-> f, mac |-> m, echo |-> e]
Forgot(M)      == [kind |-> "forgot", macs |-> M]

(* Mutant: the table as it was is what gets saved. *)
SaveOld(table) == stored' = dials /\ blind' = FALSE

(* persist_bonds: the proposed table is durable before RAM or the radio    *)
(* change; on failure the store keeps the old one.                         *)
Save(table) ==
    /\ stored' = table
    /\ blind' = FALSE

SaveFails ==
    /\ faults < MaxFaults
    /\ UNCHANGED tableVars

Spend(n) == faults + n <= MaxFaults /\ faults' = faults + n

----------------------------------------------------------------------------
(* Closing a pairing attempt. *)

(* Mutant: the broadcast peer's slot is not returned. *)
PairEndKeepsBroadcast(r) == pair' = "OFF" /\ result' = r /\ bcast' = bcast

PairEnd(r) ==
    /\ pair' = "OFF"
    /\ result' = r
    /\ bcast' = FALSE

(* Mutant: the original key of a re-pairing dial is not restored. *)
CleanupWithoutRestore(m, spent) ==
    /\ cand' = NoCandidate /\ eph' = 0
    /\ peers' = [peers EXCEPT ![m] = NoKey]
    /\ Spend(spent)

(* Drop the candidate and its keys; a bonded dial that was re-pairing gets *)
(* its old key back in the radio, unless that peer_add fails too.  spent:  *)
(* the faults the handler has met before.                                  *)
CleanupCandidate(m, spent) ==
    /\ cand' = NoCandidate
    /\ eph' = 0
    /\ \/ /\ m \notin Macs(dials)
          /\ peers' = [peers EXCEPT ![m] = NoKey]
          /\ Spend(spent)
       \/ /\ m \in Macs(dials)
          /\ peers' = [peers EXCEPT ![m] = BondOf(m).lmk]
          /\ Spend(spent)
       \/ /\ m \in Macs(dials)
          /\ peers' = [peers EXCEPT ![m] = FailedKey]
          /\ Spend(spent + 1)

PairCancel ==
    /\ pair # "OFF"
    /\ PairEnd("cancelled")
    /\ IF pair = "CONFIRM" THEN CleanupCandidate(cand.mac, 0)
                           ELSE UNCHANGED <<cand, eph, peers, faults>>
    /\ out' = Silent
    /\ UNCHANGED <<tableVars, bootVars, windows>>

(* loop(): the window or the confirmation deadline has passed. *)
WindowTimeout ==
    /\ started /\ pair = "WINDOW"
    /\ PairEnd(IF result = "full" THEN "full" ELSE "timeout")
    /\ out' = Silent
    /\ UNCHANGED <<tableVars, bootVars, cand, eph, peers, windows, faults>>

ConfirmTimeout ==
    /\ started /\ pair = "CONFIRM"
    /\ PairEnd("timeout")
    /\ CleanupCandidate(cand.mac, 0)
    /\ out' = Silent
    /\ UNCHANGED <<tableVars, bootVars, windows>>

----------------------------------------------------------------------------
(* Opening a window.  A call while pairing only moves the deadline. *)

PairStartRefused ==
    /\ \/ ~started /\ Spend(0)
       \/ started /\ pair = "OFF" /\ Spend(1)      \* no key pair
    /\ result' = "idle"
    /\ out' = Silent
    /\ UNCHANGED <<tableVars, bootVars, pair, cand, eph, bcast, peers, windows>>

PairStart ==
    /\ started /\ pair = "OFF" /\ windows < MaxWindows
    /\ windows' = windows + 1
    /\ \/ /\ Spend(0)
          /\ pair' = "WINDOW" /\ result' = "listening"
          /\ bcast' = TRUE /\ eph' = windows + 1
       \/ /\ Spend(1)                              \* broadcast peer failed
          /\ result' = "idle" /\ eph' = 0
          /\ UNCHANGED <<pair, bcast>>
    /\ out' = Silent
    /\ UNCHANGED <<tableVars, bootVars, cand, peers>>

----------------------------------------------------------------------------
(* PAIR_REQ.  The adapter's loop() first drops requests of new dials past  *)
(* max_links; on_pair_req() decides the rest.  The request's signature by  *)
(* id has been verified.                                                   *)

(* Mutant: the check is off by one. *)
PastMaxLinksLate(m) ==
    MaxLinks > 0 /\ Len(dials) > MaxLinks /\ m \notin Macs(dials)

PastMaxLinks(m) ==
    MaxLinks > 0 /\ Len(dials) >= MaxLinks /\ m \notin Macs(dials)

(* The request reaches the verdicts of on_pair_req. *)
Considered(m) ==
    /\ started /\ pair # "OFF"
    /\ ~PastMaxLinks(m)
    /\ pair = "CONFIRM" => m = cand.mac

PairReqPastMaxLinks(m) ==
    /\ started /\ pair = "WINDOW"
    /\ PastMaxLinks(m)
    /\ result' = "full"
    /\ out' = Silent
    /\ UNCHANGED <<tableVars, bootVars, pair, cand, eph, bcast, peers, windows,
                   faults>>

(* Mutant: the pinned identity is not compared. *)
PinIgnored(m, id) == FALSE

PinMismatch(m, id) == m \in Macs(dials) /\ BondOf(m).id # id

TableFull(m) == m \notin Macs(dials) /\ Len(dials) >= MaxDials

PairReqRefused(m, id) ==
    /\ Considered(m)
    /\ \/ PinMismatch(m, id) /\ result' = "pin-mismatch"
       \/ TableFull(m) /\ result' = "full"
    /\ out' = Silent
    /\ UNCHANGED <<tableVars, bootVars, pair, cand, eph, bcast, peers, windows,
                   faults>>

PairReqRepeated(m, id, e) ==
    /\ Considered(m) /\ pair = "CONFIRM"
    /\ ~PinMismatch(m, id) /\ ~TableFull(m)
    /\ cand.lmk.dial = e /\ cand.id = id
    /\ out' = Resp(m, [dial |-> e, ctrl |-> eph])
    /\ UNCHANGED <<tableVars, bootVars, pairingVars, peers, windows, faults>>

PairReqAdmitted(m, id, e) ==
    LET lmk == [dial |-> e, ctrl |-> eph] IN
    /\ Considered(m) /\ pair = "WINDOW"
    /\ ~PinMismatch(m, id) /\ ~TableFull(m)
    /\ \/ /\ peers' = [peers EXCEPT ![m] = lmk]
          /\ Spend(0)
          /\ pair' = "CONFIRM" /\ result' = "confirming"
          /\ cand' = [mac |-> m, lmk |-> lmk, id |-> id]
          /\ out' = Resp(m, lmk)
          /\ UNCHANGED <<eph, bcast>>
       \/ /\ CleanupCandidate(m, 1)                \* candidate peer failed
          /\ PairEnd("cancelled")
          /\ out' = Silent
    /\ UNCHANGED <<tableVars, bootVars, windows>>

PairReq(m, id, e) ==
    \/ PairReqPastMaxLinks(m)
    \/ PairReqRefused(m, id)
    \/ PairReqRepeated(m, id, e)
    \/ PairReqAdmitted(m, id, e)

----------------------------------------------------------------------------
(* PAIR_CONFIRM: a proof made with key k for the sender's MAC.             *)

Commit ==
    /\ Save(Bonding(cand))
    /\ dials' = Bonding(cand)
    /\ seen' = seen \ {cand.mac}
    /\ proven' = (proven \cap Macs(Bonding(cand))) \cup {cand.mac}
    /\ PairEnd("paired")
    /\ eph' = 0 /\ cand' = NoCandidate
    /\ out' = Ack(cand.mac, cand.lmk)
    /\ UNCHANGED <<bootVars, peers, windows, faults>>

(* Mutant: on_recv answers whatever pair_commit came to. *)
CommitFailsButAcks ==
    /\ SaveFails
    /\ CleanupCandidate(cand.mac, 1)
    /\ PairEnd("storage-error")
    /\ out' = Ack(cand.mac, cand.lmk)
    /\ UNCHANGED <<bootVars, windows>>

CommitFails ==
    /\ SaveFails
    /\ CleanupCandidate(cand.mac, 1)
    /\ PairEnd("storage-error")
    /\ out' = Silent
    /\ UNCHANGED <<bootVars, windows>>

PairConfirm(m, k) ==
    /\ started
    /\ \/ IsCandidate(m) /\ k = cand.lmk /\ (Commit \/ CommitFails)
       \/ /\ ~IsCandidate(m) /\ m \in Macs(dials) /\ k = BondOf(m).lmk
          /\ out' = Ack(m, k)
          /\ UNCHANGED <<tableVars, bootVars, pairingVars, peers, windows,
                         faults>>

----------------------------------------------------------------------------
(* Frames of a bonded dial that change something carry the epoch the dial  *)
(* last heard.  pend_state, set when one is refused, belongs to the STATE  *)
(* fan-out.                                                                *)

AcceptAs(f, m, e) ==
    /\ out' = Act(f, m, e)
    /\ proven' = IF e = epoch /\ epoch # 0 THEN proven \cup {m} ELSE proven

(* epoch_ok: e is the echo it is given. *)
EpochOk(f, m, e) ==
    LET latched == BondOf(m).latched IN
    \/ /\ epoch = 0 \/ (e = epoch /\ latched)
                    \/ (e # epoch /\ ~latched /\ m \notin seen)
       /\ AcceptAs(f, m, e)
       /\ UNCHANGED <<dials, seen, stored, blind, faults>>
    \/ /\ epoch # 0 /\ e = epoch /\ ~latched
       /\ seen' = seen \cup {m}
       /\ \/ /\ Save(Latching(m)) /\ dials' = Latching(m)
             /\ AcceptAs(f, m, e)
             /\ UNCHANGED faults
          \/ /\ Spend(1)                           \* latch not saved: drop
             /\ out' = Silent
             /\ UNCHANGED <<dials, stored, blind, proven>>

(* on_recv: what gets past the pairing boundary. *)
FromBonded(m) == started /\ m \in Macs(dials) /\ ~IsCandidate(m)

Command(m, e) ==
    /\ FromBonded(m)
    /\ EpochOk("cmd", m, e)
    /\ UNCHANGED <<bootVars, pairingVars, peers, windows>>

(* room_epoch_ok: a v5 frame must echo this boot's epoch; an older one     *)
(* counts as echoing 0.                                                    *)
RoomFrame(m, v5, e) ==
    /\ FromBonded(m)
    /\ epoch # 0 /\ (v5 => e = epoch)
    /\ EpochOk("room", m, IF v5 THEN e ELSE 0)
    /\ UNCHANGED <<bootVars, pairingVars, peers, windows>>

(* wifi_epoch_ok: session frames never use the legacy grace. *)
WifiSessionFrame(m, e) ==
    /\ FromBonded(m)
    /\ e = epoch
    /\ EpochOk("wifi", m, e)
    /\ UNCHANGED <<bootVars, pairingVars, peers, windows>>

----------------------------------------------------------------------------
(* Forgetting.  A failed save leaves everything as it was. *)

(* Mutant: a re-pair of the forgotten dial goes on. *)
CandidacyGoesOn(m) == UNCHANGED pairingVars

(* sl2_link_pair_cancel, when the forgotten dial is the candidate. *)
CancelCandidacy(m) ==
    IF IsCandidate(m)
    THEN PairEnd("cancelled") /\ cand' = NoCandidate /\ eph' = 0
    ELSE UNCHANGED pairingVars

ForgetBonded(m) ==
    /\ m \in Macs(dials)
    /\ Save(Forgetting(m))
    /\ dials' = Forgetting(m)
    /\ seen' = seen \ {m}
    /\ proven' = proven \cap Macs(Forgetting(m))
    /\ peers' = [peers EXCEPT ![m] = NoKey]
    /\ CancelCandidacy(m)
    /\ out' = Forgot({m})
    /\ UNCHANGED <<bootVars, windows, faults>>

ForgetNewCandidate(m) ==
    /\ m \notin Macs(dials) /\ IsCandidate(m)
    /\ CleanupCandidate(m, 0)
    /\ PairEnd("cancelled")
    /\ out' = Forgot({m})
    /\ UNCHANGED <<tableVars, bootVars, windows>>

ForgetDial(m) == ForgetBonded(m) \/ ForgetNewCandidate(m)

ForgetAll ==
    /\ Save(<<>>)
    /\ dials' = <<>>
    /\ seen' = {}
    /\ proven' = {}
    /\ peers' = [m \in Mac |-> IF m \in Macs(dials) \/ IsCandidate(m)
                               THEN NoKey ELSE peers[m]]
    /\ IF pair = "OFF" THEN UNCHANGED pairingVars
       ELSE /\ PairEnd("cancelled")
            /\ IF pair = "CONFIRM" THEN cand' = NoCandidate /\ eph' = 0
                                   ELSE UNCHANGED <<cand, eph>>
    /\ out' = Forgot(Mac)
    /\ UNCHANGED <<bootVars, windows, faults>>

----------------------------------------------------------------------------
(* Boot and power. *)

(* The radio after the first n peers of a table have been added. *)
Installed(table, n) ==
    [m \in Mac |-> IF \E i \in 1..n : table[i].mac = m
                   THEN table[CHOOSE i \in 1..n : table[i].mac = m].lmk
                   ELSE peers[m]]

(* The bonds of the store when it can be read and holds any.  Otherwise    *)
(* the table keeps what an earlier attempt of this boot has put there.     *)
Loaded(readable) == IF readable /\ stored # <<>> THEN stored ELSE dials

(* sl2_link_start: load, add the peers in slot order, draw the epoch.  The *)
(* first peer that fails ends the attempt; the adapter retries.            *)
Start ==
    /\ ~started
    /\ \E readable \in BOOLEAN :
       LET table   == Loaded(readable)
           misread == IF readable THEN 0 ELSE 1
       IN
       /\ dials' = table
       /\ blind' = (~readable /\ table = <<>>)
       /\ \/ /\ peers' = Installed(table, Len(table))
             /\ started' = TRUE
             /\ \/ epoch' = boots /\ Spend(misread)
                \/ epoch' = 0 /\ Spend(misread + 1)   \* rand failed
          \/ /\ \E n \in DOMAIN table :
                peers' = [Installed(table, n - 1)
                            EXCEPT ![table[n].mac] = FailedKey]
             /\ Spend(misread + 1)
             /\ UNCHANGED <<started, epoch>>
    /\ out' = Silent
    /\ UNCHANGED <<seen, stored, proven, pairingVars, windows, boots>>

(* The adapter's repair_transport_ between pairings: every bonded peer     *)
(* that does not match is added again.  bad: those that fail again, which  *)
(* the fault bound counts once.                                            *)
RepairPeers ==
    /\ started /\ pair = "OFF"
    /\ LET wrong == {m \in Macs(dials) : peers[m] # BondOf(m).lmk}
       IN  /\ wrong # {}
           /\ \E bad \in SUBSET wrong :
              /\ peers' = [m \in Mac |-> IF m \in bad THEN FailedKey
                                         ELSE IF m \in wrong THEN BondOf(m).lmk
                                         ELSE peers[m]]
              /\ Spend(IF bad = {} THEN 0 ELSE 1)
    /\ out' = Silent
    /\ UNCHANGED <<tableVars, bootVars, pairingVars, windows>>

(* RAM and the driver's peers are gone. *)
PowerOff ==
    /\ boots < MaxBoots /\ boots' = boots + 1
    /\ started' = FALSE /\ epoch' = 0
    /\ dials' = <<>> /\ seen' = {} /\ blind' = FALSE
    /\ peers' = [m \in Mac |-> NoKey] /\ bcast' = FALSE
    /\ pair' = "OFF" /\ cand' = NoCandidate /\ eph' = 0 /\ result' = "idle"
    /\ out' = Silent
    /\ UNCHANGED <<windows, faults>>

PowerLoss == PowerOff /\ UNCHANGED <<stored, proven>>

(* The tables the handlers above pass to persist_bonds. *)
Proposals ==
    {<<>>}
    \cup {Forgetting(m) : m \in Macs(dials)}
    \cup {Bonding(c) : c \in {c \in {cand} : pair = "CONFIRM"}}
    \cup {Latching(m) : m \in {m \in Macs(dials) :
                                 /\ started /\ epoch # 0 /\ ~IsCandidate(m)
                                 /\ ~BondOf(m).latched}}

(* Power loss inside a handler: the save is done, nothing after it. *)
PowerLossAfterSave ==
    /\ PowerOff
    /\ \E table \in Proposals :
         /\ stored' = table
         /\ proven' = proven \cap Macs(table)

----------------------------------------------------------------------------
(* The store holds what an earlier firmware left: bonds not yet latched. *)
LegacyBond ==
    [mac : Mac, lmk : [dial : DialEph, ctrl : {0}], id : Id, latched : {FALSE}]

Unique(table) ==
    \A i, j \in DOMAIN table : table[i].mac = table[j].mac => i = j

Init ==
    /\ stored \in UNION {[1..n -> LegacyBond] : n \in 0..MaxDials}
    /\ Unique(stored)
    /\ started = FALSE /\ epoch = 0 /\ boots = 1
    /\ dials = <<>> /\ seen = {} /\ blind = FALSE /\ proven = {}
    /\ peers = [m \in Mac |-> NoKey] /\ bcast = FALSE
    /\ pair = "OFF" /\ cand = NoCandidate /\ eph = 0 /\ result = "idle"
    /\ out = Silent /\ windows = 0 /\ faults = 0

Next ==
    \/ Start
    \/ PairStart \/ PairStartRefused \/ PairCancel
    \/ WindowTimeout \/ ConfirmTimeout
    \/ \E m \in Mac, id \in Id, e \in DialEph : PairReq(m, id, e)
    \/ \E m \in Mac, d \in DialEph, c \in 0..windows :
         PairConfirm(m, [dial |-> d, ctrl |-> c])
    \/ \E m \in Mac, e \in 0..boots :
         Command(m, e) \/ WifiSessionFrame(m, e)
    \/ \E m \in Mac, e \in 0..boots, v5 \in BOOLEAN : RoomFrame(m, v5, e)
    \/ \E m \in Mac : ForgetDial(m)
    \/ ForgetAll
    \/ RepairPeers
    \/ PowerLoss \/ PowerLossAfterSave

Spec == Init /\ [][Next]_vars

----------------------------------------------------------------------------
(* Properties; the primed ones are of every step. *)

Results == {"idle", "listening", "confirming", "paired", "cancelled",
            "timeout", "full", "pin-mismatch", "storage-error"}

Outcomes ==
    {Silent}
    \cup [kind : {"resp", "ack"}, mac : Mac, lmk : Key]
    \cup [kind : {"act"}, frame : {"cmd", "room", "wifi"}, mac : Mac, echo : Nat]
    \cup [kind : {"forgot"}, macs : SUBSET Mac]

(* Every variable keeps its type; the radio holds only keys that exist. *)
TypeOK ==
    /\ started \in BOOLEAN /\ blind \in BOOLEAN /\ bcast \in BOOLEAN
    /\ dials \in Seq(Bond) /\ stored \in Seq(Bond)
    /\ seen \subseteq Mac /\ proven \subseteq Mac
    /\ peers \in [Mac -> Key \cup {NoKey, FailedKey}]
    /\ pair \in {"OFF", "WINDOW", "CONFIRM"}
    /\ cand \in Candidate \cup {NoCandidate}
    /\ eph \in Nat /\ epoch \in Nat /\ windows \in Nat
    /\ boots \in Nat /\ faults \in Nat
    /\ result \in Results /\ out \in Outcomes

(* persist_bonds before publishing: what RAM serves is what a reboot would *)
(* load, whatever save fails and wherever power is lost.  The table is     *)
(* empty instead only before the store has been read.                      *)
DurableTable == dials = stored \/ (dials = <<>> /\ (blind \/ ~started))

(* dial_by_mac may stop at the first match: no dial has two slots, in RAM  *)
(* or in the blob, and the blob never holds more than sl2_bonds_encode     *)
(* accepts.                                                                *)
OneSlotPerDial ==
    /\ Unique(stored) /\ Len(stored) <= MaxDials
    /\ Unique(dials)  /\ Len(dials) <= MaxDials

(* Pairing, candidate and broadcast peer move together: a candidate exists *)
(* exactly while a confirmation is awaited, its LMK is the one the current *)
(* ephemeral gives -- never one made with a wiped key -- and a re-pairing  *)
(* dial shows its pinned identity.  The result told to the user agrees.    *)
PairingCoherent ==
    /\ pair = "CONFIRM" <=> cand # NoCandidate
    /\ bcast <=> pair # "OFF"
    /\ pair # "OFF" => started /\ eph = windows /\ eph > 0
    /\ pair = "CONFIRM" =>
         /\ cand.lmk.ctrl = eph
         /\ \A i \in DOMAIN dials :
              dials[i].mac = cand.mac => dials[i].id = cand.id
         /\ cand.mac \notin Macs(dials) => Len(dials) < MaxDials
         /\ result \in {"confirming", "pin-mismatch"}
    /\ pair = "OFF" => result \notin {"listening", "confirming"}

(* The radio decrypts with the right key or not at all: a candidate's key  *)
(* while it is being confirmed, the bond's otherwise -- missing only when  *)
(* the driver refused it -- and nothing for a dial that is neither.        *)
RadioMatchesBonds ==
    /\ \A m \in Mac : IsCandidate(m) => peers[m] = cand.lmk
    /\ \A i \in DOMAIN dials :
         ~IsCandidate(dials[i].mac) =>
           \/ peers[dials[i].mac] \in {dials[i].lmk, FailedKey}
           \/ ~started /\ peers[dials[i].mac] = NoKey
    /\ \A m \in Mac \ Macs(dials) : ~IsCandidate(m) => peers[m] = NoKey

(* An ACK tells the dial to drop its old key, so the key it names is       *)
(* durable when the ACK leaves, and it is the key the radio will use.      *)
AckedKeyIsDurable ==
    [][out'.kind = "ack" =>
         \E i \in DOMAIN stored' :
           /\ stored'[i].mac = out'.mac /\ stored'[i].lmk = out'.lmk
           /\ peers'[out'.mac] \in {out'.lmk, FailedKey}]_vars

(* A dial enters the table, or its key changes there, only as the          *)
(* confirmed candidate of the open window; the capacity checked when it    *)
(* was admitted still holds when it commits.                               *)
OnlyCandidatesCommit ==
    [][\A i \in DOMAIN stored' :
         (\A j \in DOMAIN stored :
            stored[j].mac # stored'[i].mac \/ stored[j].lmk # stored'[i].lmk)
         => /\ pair = "CONFIRM"
            /\ stored'[i].mac = cand.mac /\ stored'[i].lmk = cand.lmk
            /\ \/ Len(stored') = Len(stored)
               \/ blind
               \/ MaxLinks = 0 \/ Len(stored') <= MaxLinks]_vars

(* TOFU pinning: until it is forgotten a dial keeps its pinned identity,   *)
(* through re-pairs, reboots and failed saves.  Only a boot that could not *)
(* read the store can overwrite it.                                        *)
PinnedUntilForgotten ==
    [][~blind =>
         \A i \in DOMAIN stored :
           \/ \E j \in DOMAIN stored' : /\ stored'[j].mac = stored[i].mac
                                        /\ stored'[j].id = stored[i].id
           \/ stored[i].mac \notin Macs(stored')]_vars

(* Forgetting is final when it returns true: no bond in RAM or in the      *)
(* store, no key in the radio, and no candidate a queued proof could still *)
(* commit.  (A boot that could not read the store cannot remove the bond   *)
(* it does not know of; it keeps it out of RAM.)                           *)
ForgetIsFinal ==
    [][out'.kind = "forgot" =>
         \A m \in out'.macs :
           /\ m \notin Macs(dials')
           /\ ~blind' => m \notin Macs(stored')
           /\ peers'[m] = NoKey
           /\ ~(pair' = "CONFIRM" /\ cand'.mac = m)]_vars

(* The replay guard ratchets: once a dial has paired under v5 or had a     *)
(* correct echo accepted, no frame of it that carries another epoch is     *)
(* acted on again -- in this boot or a later one, whatever saves fail --   *)
(* unless this boot has no epoch; room frames not even then.               *)
ReplayGuard ==
    [][out'.kind = "act" =>
         \/ out'.echo = epoch /\ epoch # 0
         \/ out'.mac \notin proven
         \/ epoch = 0 /\ out'.frame # "room"]_vars

(* Bonds keep their slots: a re-pair stays where it was and a removal      *)
(* shifts later bonds without reordering them.                             *)
SlotOrderKept ==
    [][\A i, j \in DOMAIN dials, x, y \in DOMAIN dials' :
         (i < j /\ dials'[x].mac = dials[i].mac /\ dials'[y].mac = dials[j].mac)
         => x < y]_vars

=============================================================================
