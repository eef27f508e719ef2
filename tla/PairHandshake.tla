---------------------------- MODULE PairHandshake ----------------------------
(***************************************************************************)
(* The pairing handshake across the air: controllers (sl2_link.c:          *)
(* on_pair_req, pair_commit, the PAIR_CONFIRM branch of on_recv), their    *)
(* receive queue and radio, and the dials they pair with, whose code is    *)
(* not in the repository and is taken from what the controller expects.    *)
(*                                                                         *)
(* Cryptography is symbolic.  A key is the pair of ephemerals it is        *)
(* derived from (sl2_derive_lmk), so only their two owners make it; a      *)
(* response names the request it answers (its signed transcript); a proof  *)
(* names its type, key and parties (sl2_pair_auth_make).  What is on the   *)
(* air may be received at any time, again and again, or never.             *)
(***************************************************************************)
EXTENDS Integers, Sequences

CONSTANTS
    Dial, Ctrl,
    None,
    QueueLength,  \* bound: frames between radio and on_recv
    MaxWindows,   \* bound: windows of a controller
    MaxAttempts,  \* bound: attempts of a dial
    Lossy         \* whether what is on the air may be lost for good

(* An LMK, by the two attempts whose ephemerals it is derived from. *)
Key == [dial : Dial, de : 1..MaxAttempts, ctrl : Ctrl, ce : 1..MaxWindows]

ConstantsAssumption ==
    /\ None \notin Dial \cup Ctrl \cup Key /\ QueueLength \in Nat \ {0}
    /\ MaxWindows \in Nat /\ MaxAttempts \in Nat /\ Lossy \in BOOLEAN

VARIABLES
    ctrl,       \* the controllers
    queue,      \* their receive queues
    dial,       \* the dials
    air,        \* what has been sent
    committed,  \* history: the keys of the bonds controllers have saved
    derived,    \* history: the keys dials have derived
    parted      \* history: the pairs that a forget or a give-up parted

vars == <<ctrl, queue, dial, air, committed, derived, parted>>

Controller ==
    [pair : {"off", "window", "confirm"},
     eph  : 0..MaxWindows,
     cand : Key \cup {None},                  \* cand_mac, cand_lmk, cand_eph_pub
     bond : [Dial -> Key \cup {None}],
     peer : [Dial -> Key \cup {None}]]        \* the radio

ADial ==
    [state : {"idle", "asking", "proving"},
     eph   : 0..MaxAttempts,
     key   : Key \cup {None},
     bond  : [Ctrl -> Key \cup {None}]]

(* Frames: under is the key the radio encrypts with, None for a broadcast. *)
Req(d, n) == [type |-> "REQ", dial |-> d, ctrl |-> None, of |-> n, under |-> None]
Resp(k)   == [type |-> "RESP", dial |-> k.dial, ctrl |-> k.ctrl, of |-> k, under |-> None]
Proof(k)  == [type |-> "CONFIRM", dial |-> k.dial, ctrl |-> k.ctrl, of |-> k, under |-> k]
Ack(k)    == [type |-> "ACK", dial |-> k.dial, ctrl |-> k.ctrl, of |-> k, under |-> k]
Cmd(k)    == [type |-> "CMD", dial |-> k.dial, ctrl |-> k.ctrl, of |-> None, under |-> k]

(* sl2_pair_auth_matches, against the proof key k would make. *)
Matches(f, k) == f = Proof(k)

----------------------------------------------------------------------------
(* Controller: the window. *)
PairStart(c) ==
    /\ ctrl[c].pair = "off" /\ ctrl[c].eph < MaxWindows
    /\ ctrl' = [ctrl EXCEPT ![c].pair = "window", ![c].eph = @ + 1]
    /\ UNCHANGED <<queue, dial, air, committed, derived, parted>>

(* Mutant: a bonded candidate is left with its new key in the radio. *)
CleanedOfPeer(x) == [x EXCEPT !.cand = None]

(* pair_cleanup_candidate *)
Cleaned(x) ==
    [x EXCEPT !.cand = None, !.peer[x.cand.dial] = x.bond[x.cand.dial]]

(* Cancel, or either deadline. *)
PairEnds(c) ==
    /\ ctrl[c].pair # "off"
    /\ ctrl' = [ctrl EXCEPT ![c] = [IF @.pair = "confirm" THEN Cleaned(@) ELSE @
                                      EXCEPT !.pair = "off"]]
    /\ UNCHANGED <<queue, dial, air, committed, derived, parted>>

(* sl2_rxq_push's only refusal *)
Room(c) == Len(queue[c]) < QueueLength

(* The radio: a frame enters the queue if it decrypts now. *)
Receive(c, f) ==
    /\ f \in air /\ f.type \in {"REQ", "CONFIRM", "CMD"} /\ f.ctrl \in {c, None}
    /\ f.under = None \/ f.under = ctrl[c].peer[f.dial]
    /\ Room(c)
    /\ queue' = [queue EXCEPT ![c] = Append(@, f)]
    /\ UNCHANGED <<ctrl, dial, air, committed, derived, parted>>

----------------------------------------------------------------------------
(* Controller: on_recv of the head of the queue. *)

(* The key the two ephemerals give: sl2_derive_lmk. *)
Derive(c, f) == [dial |-> f.dial, de |-> f.of, ctrl |-> c, ce |-> ctrl[c].eph]

(* Mutant: the request is enough, no proof is awaited. *)
AdmittedAtOnce(c, f) ==
    /\ IF ctrl[c].pair = "window"
       THEN /\ ctrl' = [ctrl EXCEPT ![c].pair = "off", ![c].bond[f.dial] = Derive(c, f),
                                    ![c].peer[f.dial] = Derive(c, f)]
            /\ air' = air \cup {Resp(Derive(c, f))}
            /\ committed' = committed \cup {Derive(c, f)}
       ELSE UNCHANGED <<ctrl, air, committed>>

(* on_pair_req *)
Admitted(c, f) ==
    LET k == Derive(c, f) IN
    /\ CASE ctrl[c].pair = "window" ->
              /\ ctrl' = [ctrl EXCEPT ![c].pair = "confirm", ![c].cand = k,
                                      ![c].peer[f.dial] = k]
              /\ air' = air \cup {Resp(k)}
         [] ctrl[c].pair = "confirm" /\ ctrl[c].cand = k ->
              air' = air \cup {Resp(k)} /\ UNCHANGED ctrl
         [] OTHER -> UNCHANGED <<ctrl, air>>
    /\ UNCHANGED committed

(* Mutant: anything that decrypts from the candidate confirms it. *)
ConfirmsAny(x, f) == x.pair = "confirm" /\ f.dial = x.cand.dial

(* The proof of the candidate's key. *)
Confirms(x, f) == x.pair = "confirm" /\ f.dial = x.cand.dial /\ Matches(f, x.cand)

(* Mutant: a proof of a bonded key is not answered. *)
RepeatsNever(x, f) == FALSE

(* The proof of a key already committed. *)
Repeats(x, f) ==
    /\ ~(x.pair = "confirm" /\ f.dial = x.cand.dial)
    /\ x.bond[f.dial] # None /\ Matches(f, x.bond[f.dial])

(* pair_commit, and the answer to the proof *)
Commit(c, x) ==
    /\ ctrl' = [ctrl EXCEPT ![c].bond[x.cand.dial] = x.cand, ![c].cand = None,
                            ![c].pair = "off"]
    /\ committed' = committed \cup {x.cand} /\ air' = air \cup {Ack(x.cand)}

(* Mutant: the proof is answered although nothing was saved. *)
CommitFailsButAcks(c, x) ==
    /\ ctrl' = [ctrl EXCEPT ![c] = [Cleaned(x) EXCEPT !.pair = "off"]]
    /\ air' = air \cup {Ack(x.cand)} /\ UNCHANGED committed

(* pair_commit when the bonds could not be saved *)
CommitFails(c, x) ==
    /\ ctrl' = [ctrl EXCEPT ![c] = [Cleaned(x) EXCEPT !.pair = "off"]]
    /\ UNCHANGED <<air, committed>>

Drain(c) ==
    /\ queue[c] # <<>> /\ queue' = [queue EXCEPT ![c] = Tail(@)]
    /\ LET f == Head(queue[c])
           x == ctrl[c]
       IN  \/ f.type = "REQ" /\ Admitted(c, f)
           \/ /\ f.type # "REQ" /\ Confirms(x, f)
              /\ Commit(c, x) \/ CommitFails(c, x)
           \/ /\ f.type # "REQ" /\ ~Confirms(x, f) /\ Repeats(x, f)
              /\ air' = air \cup {Ack(f.of)} /\ UNCHANGED <<ctrl, committed>>
           \/ /\ f.type # "REQ" /\ ~Confirms(x, f) /\ ~Repeats(x, f)
              /\ UNCHANGED <<ctrl, air, committed>>
    /\ UNCHANGED <<dial, derived, parted>>

(* sl2_link_forget_dial *)
Forget(c, d) ==
    /\ ctrl[c].bond[d] # None
    /\ LET kept == [ctrl[c] EXCEPT !.bond[d] = None, !.peer[d] = None]
       IN  ctrl' = [ctrl EXCEPT ![c] =
                      IF @.pair = "confirm" /\ @.cand.dial = d
                      THEN [Cleaned(kept) EXCEPT !.pair = "off"] ELSE kept]
    /\ parted' = parted \cup {<<c, d>>}
    /\ UNCHANGED <<queue, dial, air, committed, derived>>

----------------------------------------------------------------------------
(* The dial. *)
Ask(d) ==
    /\ dial[d].state = "idle" /\ dial[d].eph < MaxAttempts
    /\ dial' = [dial EXCEPT ![d].state = "asking", ![d].eph = @ + 1]
    /\ air' = air \cup {Req(d, dial[d].eph + 1)}
    /\ UNCHANGED <<ctrl, queue, committed, derived, parted>>

AskAgain(d) ==
    /\ dial[d].state = "asking"
    /\ air' = air \cup {Req(d, dial[d].eph)}
    /\ UNCHANGED <<ctrl, queue, dial, committed, derived, parted>>

(* The first valid response to this request wins. *)
HearResp(d, f) ==
    /\ f \in air /\ f.type = "RESP" /\ f.dial = d
    /\ dial[d].state = "asking" /\ f.of.de = dial[d].eph
    /\ dial' = [dial EXCEPT ![d].state = "proving", ![d].key = f.of]
    /\ derived' = derived \cup {f.of}
    /\ UNCHANGED <<ctrl, queue, air, committed, parted>>

Prove(d) ==
    /\ dial[d].state = "proving"
    /\ air' = air \cup {Proof(dial[d].key)}
    /\ UNCHANGED <<ctrl, queue, dial, committed, derived, parted>>

HearAck(d) ==
    /\ dial[d].state = "proving" /\ Ack(dial[d].key) \in air
    /\ LET k == dial[d].key
       IN  /\ dial' = [dial EXCEPT ![d].state = "idle", ![d].key = None,
                                   ![d].bond[k.ctrl] = k]
           /\ parted' = IF ctrl[k.ctrl].bond[d] = k THEN parted \ {<<k.ctrl, d>>}
                        ELSE parted
    /\ UNCHANGED <<ctrl, queue, air, committed, derived>>

(* The confirmation or the search times out: the old bond is back. *)
GiveUp(d) ==
    /\ dial[d].state # "idle"
    /\ dial' = [dial EXCEPT ![d].state = "idle", ![d].key = None]
    /\ parted' = IF dial[d].key = None THEN parted
                 ELSE parted \cup {<<dial[d].key.ctrl, d>>}
    /\ UNCHANGED <<ctrl, queue, air, committed, derived>>

Command(d, c) ==
    /\ dial[d].state = "idle" /\ dial[d].bond[c] # None
    /\ air' = air \cup {Cmd(dial[d].bond[c])}
    /\ UNCHANGED <<ctrl, queue, dial, committed, derived, parted>>

Lose(f) ==
    /\ Lossy /\ f \in air /\ air' = air \ {f}
    /\ UNCHANGED <<ctrl, queue, dial, committed, derived, parted>>

----------------------------------------------------------------------------
Init ==
    /\ ctrl = [c \in Ctrl |-> [pair |-> "off", eph |-> 0, cand |-> None,
                 bond |-> [d \in Dial |-> None], peer |-> [d \in Dial |-> None]]]
    /\ queue = [c \in Ctrl |-> <<>>]
    /\ dial = [d \in Dial |-> [state |-> "idle", eph |-> 0, key |-> None,
                 bond |-> [c \in Ctrl |-> None]]]
    /\ air = {} /\ committed = {} /\ derived = {} /\ parted = {}

Next ==
    \/ \E c \in Ctrl : PairStart(c) \/ PairEnds(c) \/ Drain(c)
    \/ \E c \in Ctrl, f \in air : Receive(c, f)
    \/ \E c \in Ctrl, d \in Dial : Forget(c, d) \/ Command(d, c)
    \/ \E d \in Dial : Ask(d) \/ AskAgain(d) \/ Prove(d) \/ HearAck(d) \/ GiveUp(d)
    \/ \E d \in Dial, f \in air : HearResp(d, f)
    \/ \E f \in air : Lose(f)

Spec == Init /\ [][Next]_vars

(* A dial goes on proving, and does not meet a full queue each time; what  *)
(* is sent again and again gets through; a controller drains its queue.    *)
Fairness ==
    /\ \A d \in Dial : SF_vars(HearAck(d))
    /\ \A c \in Ctrl : WF_vars(Drain(c))
    /\ \A c \in Ctrl, d \in Dial :
         /\ SF_vars(Room(c) /\ Prove(d))
         /\ SF_vars(\E f \in air : f.type = "CONFIRM" /\ f.dial = d /\ Receive(c, f))

----------------------------------------------------------------------------
(* Types of the state. *)
TypeOK ==
    /\ ctrl \in [Ctrl -> Controller] /\ dial \in [Dial -> ADial]
    /\ \A c \in Ctrl : Len(queue[c]) <= QueueLength
    /\ committed \subseteq Key /\ derived \subseteq Key
    /\ parted \subseteq Ctrl \X Dial

(* A controller saves a bond only under a key that the dial has derived    *)
(* from this very window and attempt: neither an old request, nor a frame  *)
(* that was decrypted under the former key, gets a candidate committed.    *)
CommittedIsDerived == committed \subseteq derived

(* One attempt of a dial gives it one bond: of the controllers that answer *)
(* a request, only the one the dial chose ever commits.                    *)
OneWinner == \A j, k \in committed : j.dial = k.dial /\ j.de = k.de => j = k

(* A dial takes a key only after the controller has saved it.              *)
AckedIsCommitted ==
    \A d \in Dial, c \in Ctrl : dial[d].bond[c] # None => dial[d].bond[c] \in committed

(* The two ends hold the same key, and the controller's radio too, while   *)
(* neither is in a handshake, unless the controller forgot the dial or the *)
(* dial gave up before it heard.                                           *)
EndsAgree ==
    \A d \in Dial, c \in Ctrl :
        /\ dial[d].state # "proving" /\ <<c, d>> \notin parted
        /\ ctrl[c].pair # "confirm"
        => /\ dial[d].bond[c] = ctrl[c].bond[d]
           /\ ctrl[c].peer[d] = ctrl[c].bond[d]

(* A lost acknowledgement is recovered: a dial that goes on proving a key  *)
(* the controller has saved takes it, unless it gives up, is forgotten, or *)
(* the radio is given to another handshake.                                *)
AckLossRecovers ==
    \A d \in Dial :
        []<>~(/\ dial[d].state = "proving"
              /\ \E c \in Ctrl : ctrl[c].bond[d] = dial[d].key
                               /\ ctrl[c].peer[d] = dial[d].key)
=============================================================================
