----------------------------- MODULE Transport -----------------------------
(***************************************************************************)
(* How the ESPHome adapter brings ESP-NOW up and keeps it up               *)
(* (serin_link.cpp: setup_transport_, try_start_, process_wifi_events_,    *)
(* transport_fault_, repair_transport_, maintain_transport_, the head of   *)
(* loop).  The Wi-Fi event task only latches bits; loop takes them in one  *)
(* atomic exchange, so the rest of the world may act between the two       *)
(* halves of loop.                                                         *)
(*                                                                         *)
(* One tick is a second.  Driver calls fail only while trouble lasts;      *)
(* `trouble', `damage' and `windows' are the run's bounds on that, on      *)
(* harm done to the driver from outside and on pairing windows.            *)
(***************************************************************************)
EXTENDS Integers

CONSTANTS
    Bonded,        \* the dials of the bond table, which stays as it is
    MaxAttempts,   \* 5
    CheckEvery,    \* 5: seconds between audits
    Budgets        \* bound: passes of loop with failing driver calls, losses
                   \* of the driver and pairing windows, in what combinations

MaxBackoff == 2 ^ (MaxAttempts - 1)

(* MaxBackoff is a power, of which the provers know only that it is an     *)
(* integer.                                                                *)
ConstantsAssumption ==
    /\ MaxAttempts \in Nat /\ MaxAttempts > 1 /\ MaxBackoff \in Nat
    /\ CheckEvery \in Nat /\ CheckEvery > 0
    /\ Budgets \subseteq [trouble : Nat, damage : Nat, windows : Nat]

Started == "started"        \* WIFI_STARTED
Connected == "connected"    \* WIFI_CONNECTED

VARIABLES
    radio,         \* the adapter's view of the driver, and the driver
    pending,       \* transport_pending_
    attempts,      \* transport_attempts_
    started,       \* started_
    warning,       \* status_set_warning / status_clear_warning
    sinceAttempt,  \* seconds since last_transport_attempt_ms_, up to MaxBackoff
    sinceCheck,    \* seconds since last_transport_check_ms_, up to CheckEvery
    sincePs,       \* seconds since last_wifi_ps_check_ms_, up to 1
    events,        \* wifi_events_; stop and disconnect change nothing here
    wasConnected,  \* wifi_was_connected_
    connected,     \* what the Wi-Fi component says
    pairing,       \* sl2_link_pairing
    inLoop,        \* between the two halves of loop
    bounds,        \* what is left of one of the Budgets
    burst          \* history: attempts since there was a reason to retry

wifi == <<events, wasConnected, connected>>
timers == <<sinceAttempt, sinceCheck, sincePs>>
vars == <<radio, pending, attempts, started, warning, timers, wifi, pairing,
          inLoop, bounds, burst>>

Radio == [handler    : BOOLEAN,          \* wifi_handler_
          inited     : BOOLEAN,          \* transport_initialized_
          configured : BOOLEAN,          \* transport_configured_
          refresh    : BOOLEAN,          \* refresh_recv_
          up         : BOOLEAN,          \* esp_now_init done in the driver
          recv       : BOOLEAN,          \* our callback is registered
          ps         : BOOLEAN,          \* Wi-Fi modem sleep
          peers      : SUBSET Bonded]    \* installed as bonded

(* A call that returned an error: the state where the work stopped.        *)
Failed(S) == {[ok |-> FALSE, radio |-> r] : r \in S}
Done(r) == {[ok |-> TRUE, radio |-> r]}

----------------------------------------------------------------------------
(* setup_transport_. *)

Handled(r) == [r EXCEPT !.handler = TRUE]
Initialised(r) == [Handled(r) EXCEPT !.inited = TRUE, !.up = TRUE]
Awake(r) == [r EXCEPT !.ps = FALSE]
Registered(r) == [r EXCEPT !.recv = TRUE, !.refresh = FALSE]
SetUp(r) == [Registered(Awake(Initialised(r))) EXCEPT !.configured = TRUE]

(* get_peer_num: the flags after the driver was asked. *)
Asked(r) == IF r.up THEN r ELSE [r EXCEPT !.inited = FALSE, !.configured = FALSE]

SetUpFailed(r) ==
    {r, Handled(r), [Handled(r) EXCEPT !.inited = @ /\ r.up],
     Initialised(r), Awake(Initialised(r))}

(* try_start_: setup_transport_, then sl2_link_start installs the peers. *)
StartResults(r, bad) ==
    Done([SetUp(r) EXCEPT !.peers = Bonded])
    \cup IF ~bad THEN {}
         ELSE Failed(SetUpFailed(r)
                     \cup {[SetUp(r) EXCEPT !.peers = P] : P \in SUBSET Bonded})

(* transport_fault_: the flags it leaves, and whether it names a fault.    *)
Healthy(r) == r.up /\ r.configured /\ ~r.ps /\ r.peers = Bonded /\ ~r.refresh

(* repair_transport_ *)
RepairResults(r, bad) ==
    LET q     == Asked(r)
        ready == Awake(IF q.configured THEN q ELSE SetUp(q))
        heard == IF ready.refresh THEN Registered(ready) ELSE ready
    IN  Done([heard EXCEPT !.peers = Bonded])
        \cup IF ~bad THEN {}
             ELSE Failed({r, q, ready, heard}
                         \cup (IF q.configured THEN {} ELSE SetUpFailed(q))
                         \cup {[heard EXCEPT !.peers = P] : P \in SUBSET Bonded})

----------------------------------------------------------------------------
(* loop, first half: process_wifi_events_. *)

(* Mutant: being connected is enough for a new burst. *)
ConnectEdgeSteady == ~radio.handler /\ connected

ConnectEdge == ~radio.handler /\ connected /\ ~wasConnected

(* Mutant: only a connection is a reason to register the callback again. *)
RefreshConnected == Connected \in events

Refresh == events # {}    \* STARTED or CONNECTED

(* Mutant: nothing starts a new burst. *)
RearmedNever(tries) == tries

Rearmed(tries) ==
    IF (Refresh \/ ConnectEdge) /\ tries >= MaxAttempts THEN 0 ELSE tries

LoopEvents ==
    /\ ~inLoop /\ inLoop' = TRUE
    /\ wasConnected' = IF radio.handler THEN wasConnected ELSE connected
    /\ events' = {}
    /\ \E awake \in {TRUE, bounds.trouble = 0} :
         radio' = [radio EXCEPT !.ps = @ /\ ~(Connected \in events /\ awake),
                                !.refresh = @ \/ Refresh]
    /\ attempts' = Rearmed(attempts)
    /\ burst' = IF \/ events # {}
                   \/ ~radio.handler /\ connected /\ ~wasConnected
                THEN 0 ELSE burst
    /\ UNCHANGED <<pending, started, warning, timers, connected, pairing, bounds>>

----------------------------------------------------------------------------
(* loop, second half: the power-save check, then start or maintain.        *)

(* Mutant: power save is left to the audit. *)
PsCheckedNever(bad) == {radio}

PsChecked(bad) ==
    IF connected /\ sincePs >= 1
    THEN {Awake(radio)} \cup (IF bad THEN {radio} ELSE {})
    ELSE {radio}

(* The attempts are counted and spaced by a doubling back-off. *)
MayTry(tries) ==
    tries < MaxAttempts /\ (tries = 0 \/ sinceAttempt >= 2 ^ (tries - 1))

TryStart(r, bad) ==
    /\ ~started
    /\ IF MayTry(attempts)
       THEN \E res \in StartResults(r, bad) :
              /\ radio' = res.radio
              /\ started' = res.ok
              /\ warning' = ~res.ok
              /\ attempts' = IF res.ok THEN 0 ELSE attempts + 1
              /\ burst' = IF res.ok THEN 0 ELSE burst + 1
              /\ sinceAttempt' = 0
              /\ sinceCheck' = IF res.ok THEN 0 ELSE sinceCheck
              /\ sincePs' = IF res.ok \/ connected THEN 0 ELSE sincePs
       ELSE /\ radio' = r
            /\ sincePs' = IF connected THEN 0 ELSE sincePs
            /\ UNCHANGED <<started, warning, attempts, burst, sinceAttempt, sinceCheck>>
    /\ UNCHANGED pending

AuditDue(r) == sinceCheck >= CheckEvery \/ (~pending /\ r.refresh)

(* Mutant: a driver that healed by itself leaves the warning on. *)
ClearedKept == warning

Cleared == FALSE

(* An audit that finds nothing wrong. *)
AuditClean(r) ==
    /\ AuditDue(r) /\ Healthy(r)
    /\ radio' = r /\ sinceCheck' = 0
    /\ pending' = FALSE
    /\ attempts' = IF pending THEN 0 ELSE attempts
    /\ warning' = IF pending THEN Cleared ELSE warning
    /\ burst' = 0
    /\ UNCHANGED sinceAttempt

(* The repair that follows an audit or an earlier failure. *)
Repair(r, open, tries, bad) ==
    IF open /\ MayTry(tries)
    THEN \E res \in RepairResults(r, bad) :
           /\ radio' = res.radio
           /\ pending' = ~res.ok
           /\ warning' = ~res.ok
           /\ attempts' = IF res.ok THEN 0 ELSE tries + 1
           /\ burst' = IF res.ok THEN 0 ELSE burst + 1
           /\ sinceAttempt' = 0
    ELSE /\ radio' = r /\ pending' = open /\ attempts' = tries
         /\ UNCHANGED <<warning, burst, sinceAttempt>>

Maintain(r, bad) ==
    /\ started
    /\ \/ pairing /\ radio' = r
          /\ UNCHANGED <<pending, attempts, warning, burst, sinceAttempt, sinceCheck>>
       \/ ~pairing /\ AuditClean(r)
       \/ ~pairing /\ AuditDue(r) /\ (~Healthy(r) \/ bad)
          /\ sinceCheck' = 0
          /\ \E q \in {Asked(r)} \cup (IF bad THEN {r} ELSE {}) :
               Repair(q, TRUE, IF pending THEN attempts ELSE 0, bad)
       \/ ~pairing /\ ~AuditDue(r)
          /\ UNCHANGED sinceCheck
          /\ Repair(r, pending, attempts, bad)
    /\ sincePs' = IF connected THEN 0 ELSE sincePs
    /\ UNCHANGED started

LoopRest ==
    /\ inLoop /\ inLoop' = FALSE
    /\ \E bad \in {FALSE, bounds.trouble > 0} :
         /\ bounds' = [bounds EXCEPT !.trouble = IF bad THEN @ - 1 ELSE @]
         /\ \E r \in PsChecked(bad) : TryStart(r, bad) \/ Maintain(r, bad)
    /\ UNCHANGED <<wifi, pairing>>

----------------------------------------------------------------------------
(* The rest of the world. *)

Second ==
    /\ ~inLoop
    /\ sinceAttempt' = IF sinceAttempt < MaxBackoff THEN sinceAttempt + 1 ELSE sinceAttempt
    /\ sinceCheck' = IF sinceCheck < CheckEvery THEN sinceCheck + 1 ELSE sinceCheck
    /\ sincePs' = 1
    /\ UNCHANGED <<radio, pending, attempts, started, warning, wifi, pairing,
                   inLoop, bounds, burst>>

(* The event task reaches us only through the registered handler. *)
Latched(bit) == IF radio.handler THEN events \cup {bit} ELSE events

WifiConnected ==
    /\ ~connected /\ connected' = TRUE
    /\ events' = Latched(Connected)
    /\ UNCHANGED <<radio, pending, attempts, started, warning, timers,
                   wasConnected, pairing, inLoop, bounds, burst>>

WifiDisconnected ==
    /\ connected /\ connected' = FALSE
    /\ UNCHANGED <<radio, pending, attempts, started, warning, timers,
                   events, wasConnected, pairing, inLoop, bounds, burst>>

Harmed(r) ==
    /\ bounds.damage > 0
    /\ bounds' = [bounds EXCEPT !.damage = @ - 1]
    /\ radio' = r
    /\ UNCHANGED <<pending, attempts, started, warning, timers, wasConnected,
                   pairing, inLoop, burst>>

(* The station restarts: power save is back, callback and peers may go.    *)
StaRestart ==
    \E keep \in BOOLEAN, P \in SUBSET radio.peers :
      /\ Harmed([radio EXCEPT !.ps = TRUE, !.recv = @ /\ keep, !.peers = P])
      /\ events' = Latched(Started)
      /\ connected' = FALSE

(* Something restores modem sleep, or takes ESP-NOW or a peer away. *)
DriverHarmed ==
    /\ \/ Harmed([radio EXCEPT !.ps = TRUE])
       \/ Harmed([radio EXCEPT !.up = FALSE, !.recv = FALSE, !.peers = {}])
       \/ \E b \in radio.peers : Harmed([radio EXCEPT !.peers = @ \ {b}])
    /\ UNCHANGED <<events, connected>>

(* A candidate replaces a bonded dial's peer; its end may not restore it.  *)
PairStart ==
    /\ started /\ ~pairing /\ pairing' = TRUE
    /\ bounds.windows > 0
    /\ bounds' = [bounds EXCEPT !.windows = @ - 1]
    /\ \E P \in SUBSET radio.peers : radio' = [radio EXCEPT !.peers = P]
    /\ UNCHANGED <<pending, attempts, started, warning, timers, wifi, inLoop, burst>>

PairEnd ==
    /\ pairing /\ pairing' = FALSE
    /\ \E P \in {radio.peers, Bonded} :
         radio' = [radio EXCEPT !.peers = IF radio.up THEN P ELSE @]
    /\ UNCHANGED <<pending, attempts, started, warning, timers, wifi, inLoop,
                   bounds, burst>>

Init ==
    /\ radio = [handler |-> FALSE, inited |-> FALSE, configured |-> FALSE,
                refresh |-> FALSE, up |-> FALSE, recv |-> FALSE, ps |-> TRUE,
                peers |-> {}]
    /\ connected \in BOOLEAN /\ wasConnected = connected
    /\ pending = FALSE /\ attempts = 0 /\ started = FALSE /\ warning = FALSE
    /\ sinceAttempt = 0 /\ sinceCheck = 0 /\ sincePs = 0
    /\ events = {} /\ pairing = FALSE /\ inLoop = FALSE /\ burst = 0
    /\ bounds \in Budgets

Next ==
    \/ LoopEvents \/ LoopRest \/ Second
    \/ WifiConnected \/ WifiDisconnected \/ StaRestart \/ DriverHarmed
    \/ PairStart \/ PairEnd

Spec == Init /\ [][Next]_vars

(* loop and the clock never stop. *)
Fairness == WF_vars(LoopEvents) /\ WF_vars(LoopRest) /\ SF_vars(Second)

----------------------------------------------------------------------------
(* Properties; the primed ones are of every step. *)

(* Every variable keeps its type. *)
TypeOK ==
    /\ radio \in Radio
    /\ pending \in BOOLEAN /\ started \in BOOLEAN /\ warning \in BOOLEAN
    /\ attempts \in 0..MaxAttempts
    /\ sinceAttempt \in 0..MaxBackoff /\ sinceCheck \in 0..CheckEvery
    /\ sincePs \in 0..1
    /\ events \subseteq {Started, Connected}
    /\ wasConnected \in BOOLEAN /\ connected \in BOOLEAN /\ pairing \in BOOLEAN
    /\ inLoop \in BOOLEAN
    /\ bounds \in [trouble : Nat, damage : Nat, windows : Nat]
    /\ burst \in 0..MaxAttempts + 1

(* A receive callback that the driver lost -- which no query reveals, and  *)
(* silence does not prove -- is always going to be registered again: the   *)
(* loss is latched, noted, or the whole transport will be set up anew, as  *)
(* it is by every attempt before the first success.                        *)
LostCallbackKnown ==
    started /\ radio.up /\ ~radio.recv /\ radio.configured =>
        radio.refresh \/ Started \in events

(* A driver that stays broken is not hammered: without a Wi-Fi event, a    *)
(* fresh connection or a sound driver in between, at most five attempts.   *)
BoundedBurst == burst <= MaxAttempts

(* The warning shown in Home Assistant ends with the fault: once started,  *)
(* it is there only while a repair is pending.                             *)
WarningIsCurrent == started /\ warning => pending

Ready == started /\ radio.up /\ radio.recv /\ radio.peers = Bonded

(* Five failures are not the end: as long as the Wi-Fi keeps coming back   *)
(* where the handler, or loop itself, sees it and no window stays open,    *)
(* the transport is ready for good once the troubles are over.             *)
WifiReturns ==
    \/ []<>(Connected \in events)
    \/ []<>wasConnected /\ []<>~wasConnected

Recovers == WifiReturns /\ <>[]~pairing => <>[]Ready

(* Modem sleep, which makes the radio deaf to broadcasts, is turned off    *)
(* soon, also while a pairing window suspends the audit.                   *)
StaysAwake == []<>~(connected /\ radio.ps)
=============================================================================
