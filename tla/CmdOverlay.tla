----------------------------- MODULE CmdOverlay -----------------------------
(***************************************************************************)
(* Commands from dials: staged, sent to the climate entity after a quiet   *)
(* time, and shown as if in force until the entity reports them            *)
(* (serin_link.cpp: hvac_apply, stage_, apply_pending_, apply_overlay_, as *)
(* called by sl2_link_on_recv and sl2_link_loop).                          *)
(*                                                                         *)
(* A command's mask is a set of bits.  Every bit has one value but the     *)
(* band, which has a low and a high one.  The entity is asynchronous: it   *)
(* carries calls out in order, later, or rejects them, and is also changed *)
(* from elsewhere.                                                         *)
(***************************************************************************)
EXTENDS Integers, Sequences

CONSTANTS
    Field,       \* the bits with one value: SL2_CM_MODE, _TEMP, _FAN ...
    Value,
    NA,          \* SL2_DC_NA: leave this bound of the band alone
    Debounce,    \* cmd_debounce_ms_
    EchoHold,    \* ECHO_HOLD_MS
    MaxCmds,     \* commands
    MaxEvents    \* rejections and changes from elsewhere

ConstantsAssumption ==
    /\ NA \notin Value
    /\ Debounce \in Nat \ {0} /\ EchoHold \in Nat /\ EchoHold > Debounce
    /\ MaxCmds \in Nat /\ MaxEvents \in Nat

Part     == Field \cup {"low", "high"}
Bit      == Field \cup {"band"}
BitOf(p) == IF p \in {"low", "high"} THEN "band" ELSE p
PartsOf(B) == {p \in Part : BitOf(p) \in B}

(* The values of v, and for the parts it does not have those of f. *)
Over(v, f) == [p \in Part |-> IF p \in DOMAIN v THEN v[p] ELSE f[p]]

VARIABLES
    hold,      \* hold_
    pending,   \* pending_mask_
    overlay,   \* overlay_mask_
    age,       \* since overlay_since_ms_
    timer,     \* to the "sl2_cmd" timeout, -1 when it is not set
    device,    \* what the climate entity publishes
    flight,    \* calls made and not carried out
    want,      \* history: the last value commanded of each part
    why,       \* history: what may keep it from being shown or in force
    cmds,      \* commands so far
    events     \* rejections and changes from elsewhere so far

ours == <<hold, pending, overlay, age, timer>>
vars == <<ours, device, flight, want, why, cmds, events>>

----------------------------------------------------------------------------
(* apply_overlay_, in hvac_get_state. *)

(* Mutant: the hold never ends. *)
ExpiredNever(a) == FALSE

Expired(a) == a > EchoHold

(* Mutant: a band is confirmed by one of its bounds. *)
ConfirmedByOne(b, h) == \E p \in PartsOf({b}) : h[p] \in {NA, device[p]}

Confirmed(b, h) == \A p \in PartsOf({b}) : h[p] \in {NA, device[p]}

LeftOf(ov, h, a) == IF Expired(a) THEN {} ELSE {b \in ov : ~Confirmed(b, h)}

(* What a STATE built now would carry. *)
Shown(p) ==
    IF ~Expired(age) /\ BitOf(p) \in overlay /\ hold[p] # NA
    THEN hold[p] ELSE device[p]

(* The last call under way that has a value for a part. *)
IsLast(i, p) ==
    p \in DOMAIN flight[i] /\ \A j \in i+1..Len(flight) : p \notin DOMAIN flight[j]

(* The value a part has once all calls are carried out. *)
Coming(p) ==
    IF \A i \in DOMAIN flight : p \notin DOMAIN flight[i] THEN device[p]
    ELSE flight[CHOOSE i \in DOMAIN flight : IsLast(i, p)][p]

----------------------------------------------------------------------------
(* CMD: the values are staged, the quiet time starts again, and STATE is   *)
(* built for the echo.                                                     *)

(* Mutant: a second command replaces the first. *)
MergedLast(B) == B

Merged(B) == pending \cup B

Rearmed(pend) == IF pend # {} THEN Debounce ELSE timer

Cmd ==
    /\ cmds < MaxCmds /\ cmds' = cmds + 1
    /\ \E B \in SUBSET Bit : \E v \in [PartsOf(B) -> Value \cup {NA}] :
         LET h == Over(v, hold)
             ov == overlay \cup B
             a == IF B # {} THEN 0 ELSE age
         IN  /\ \A p \in PartsOf(B) \cap Field : v[p] # NA
             /\ "band" \in B => v["low"] # NA \/ v["high"] # NA
             /\ hold' = h
             /\ pending' = Merged(B)
             /\ timer' = Rearmed(pending')
             /\ overlay' = LeftOf(ov, h, a) /\ age' = a
             /\ want' = [p \in Part |-> IF p \in DOMAIN v /\ v[p] # NA
                                        THEN v[p] ELSE want[p]]
             /\ why' = [p \in Part |->
                   IF p \notin DOMAIN v THEN why[p]
                   ELSE IF v[p] = NA
                   THEN why[p] \cup IF "band" \in pending \cup overlay /\ hold[p] # NA
                                    THEN {"halved"} ELSE {}
                   ELSE IF \E i \in DOMAIN flight :
                             p \in DOMAIN flight[i] /\ flight[i][p] # v[p]
                   THEN {"crossed"} ELSE {}]
    /\ UNCHANGED <<device, flight, events>>

(* apply_pending_, when the timeout fires. *)
ApplyPending ==
    /\ timer = 0 /\ timer' = -1
    /\ pending' = {}
    /\ flight' = Append(flight,
                   [p \in {q \in PartsOf(pending) : hold[q] # NA} |-> hold[p]])
    /\ UNCHANGED <<hold, overlay, age, device, want, why, cmds, events>>

(* sl2_link_loop, with or without the clock moving: a dial that sent a     *)
(* command is live for longer than ECHO_HOLD_MS, so STATE is built.        *)
Loop(dt) ==
    /\ dt > 0 => timer # 0
    /\ age' = IF age + dt > EchoHold THEN EchoHold + 1 ELSE age + dt
    /\ timer' = IF timer = -1 THEN -1 ELSE timer - dt
    /\ overlay' = LeftOf(overlay, hold, age')
    /\ why' = [p \in Part |->
                IF Expired(age') /\ BitOf(p) \in overlay
                THEN why[p] \cup {"expired"} ELSE why[p]]
    /\ UNCHANGED <<hold, pending, device, flight, want, cmds, events>>

----------------------------------------------------------------------------
(* The climate entity. *)
Carry ==
    /\ flight # <<>> /\ flight' = Tail(flight)
    /\ device' = Over(Head(flight), device)
    /\ UNCHANGED <<ours, want, why, cmds, events>>

Reject ==
    /\ flight # <<>> /\ flight' = Tail(flight)
    /\ events < MaxEvents /\ events' = events + 1
    /\ why' = [p \in Part |-> IF p \in DOMAIN Head(flight)
                              THEN why[p] \cup {"denied"} ELSE why[p]]
    /\ UNCHANGED <<ours, device, want, cmds>>

Elsewhere(p) ==
    /\ events < MaxEvents /\ events' = events + 1
    /\ \E v \in Value : device' = [device EXCEPT ![p] = v]
    /\ why' = [why EXCEPT ![p] = @ \cup {"denied"}]
    /\ UNCHANGED <<ours, flight, want, cmds>>

----------------------------------------------------------------------------
Init ==
    /\ hold = [p \in Part |-> NA]
    /\ pending = {} /\ overlay = {} /\ age = EchoHold + 1 /\ timer = -1
    /\ device \in [Part -> Value] /\ flight = <<>>
    /\ want = [p \in Part |-> NA] /\ why = [p \in Part |-> {}]
    /\ cmds = 0 /\ events = 0

Next ==
    \/ Cmd \/ ApplyPending
    \/ \E dt \in 0..1 : Loop(dt)
    \/ Carry \/ Reject
    \/ \E p \in Part : Elsewhere(p)

Spec == Init /\ [][Next]_vars

(* The loop runs, the clock moves and timeouts fire; the entity answers.   *)
Fairness ==
    /\ WF_vars(Loop(0)) /\ WF_vars(Loop(1)) /\ WF_vars(ApplyPending)
    /\ WF_vars(Carry)

----------------------------------------------------------------------------
(* Properties; the primed ones are of every step. *)

(* Every variable keeps its type. *)
TypeOK ==
    /\ hold \in [Part -> Value \cup {NA}] /\ want \in [Part -> Value \cup {NA}]
    /\ pending \subseteq Bit /\ overlay \subseteq Bit
    /\ age \in 0..EchoHold+1 /\ timer \in -1..Debounce
    /\ device \in [Part -> Value] /\ DOMAIN flight = 1..Len(flight)
    /\ why \in [Part -> SUBSET {"denied", "crossed", "expired", "halved"}]
    /\ cmds \in 0..MaxCmds /\ events \in 0..MaxEvents

(* However commands of several dials overlap, the last value commanded of  *)
(* each part is waiting to be sent, on its way or in force -- unless the   *)
(* entity refused it, somebody else changed it, or half a band replaced a  *)
(* staged half.                                                            *)
LatestIsSent ==
    \A p \in Part :
        \/ want[p] = NA \/ why[p] \cap {"denied", "halved"} # {}
        \/ IF BitOf(p) \in pending /\ hold[p] # NA THEN hold[p] = want[p]
           ELSE Coming(p) = want[p]

(* Dials see the last value commanded, never an older one, for as long as  *)
(* the hold lasts and afterwards -- with the same exceptions, and unless   *)
(* another value of the part was on its way to the entity when this one    *)
(* was commanded.                                                          *)
ShownIsLatest ==
    \A p \in Part : want[p] = NA \/ why[p] # {} \/ Shown(p) = want[p]

(* Once dials and others leave the entity alone, dials are shown what it   *)
(* reports, refused or not.                                                *)
TruthReturns == <>[](\A p \in Part : Shown(p) = device[p])
=============================================================================
