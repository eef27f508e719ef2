------------------------------ MODULE Progress ------------------------------
(***************************************************************************)
(* What must happen eventually, in the services that repeat, retry or      *)
(* expire. Each is a module of its own and shares no state with the others *)
(* here, so they are not interleaved: a behaviour is a scenario of one of  *)
(* them, in an instance of its own size, while the others rest.  The states*)
(* are the sum of theirs. The fairness is that of the service which runs.  *)
(***************************************************************************)
EXTENDS Integers

CONSTANTS
    d1, d2, d3,  \* dials
    c1,          \* a controller
    v1, v2,      \* contents, sources and values
    none

(* A radio that rests, one that fails until the attempts are used up, and *)
(* one that loses something.                                              *)
RadioBudgets == {[trouble |-> 0, damage |-> 0, windows |-> 0],
                 [trouble |-> 2, damage |-> 0, windows |-> 1],
                 [trouble |-> 1, damage |-> 1, windows |-> 0]}

VARIABLES
    scenario,
    now, ran, hvac, stateLast, stateBonded, stateDial, sent, quiet, floored,
    radio, radioPending, attempts, started, warning, sinceAttempt, sinceCheck,
    sincePs, radioEvents, wasConnected, connected, pairing, inLoop, bounds,
    burst,
    pullBonded, rt, root, selected, told, byHa, presented,
    cmdHold, cmdPending, overlay, age, timer, device, flight, cmdWant, why,
    cmds, cmdEvents,
    slots, request, resp, stage, pageList, ack, changes, losses,
    ctrl, queue, peerDial, air, committed, derived, parted

state == <<now, ran, hvac, stateLast, stateBonded, stateDial, sent, quiet,
           floored>>
transport == <<radio, radioPending, attempts, started, warning, sinceAttempt,
               sinceCheck, sincePs, radioEvents, wasConnected, connected,
               pairing, inLoop, bounds, burst>>
pulls == <<pullBonded, rt, root, selected, told, byHa, presented>>
commands == <<cmdHold, cmdPending, overlay, age, timer, device, flight,
              cmdWant, why, cmds, cmdEvents>>
pages == <<slots, request, resp, stage, pageList, ack, changes, losses>>
hands == <<ctrl, queue, peerDial, air, committed, derived, parted>>
vars == <<scenario, state, transport, pulls, commands, pages, hands>>

Fanout == INSTANCE StateFanout WITH
    last <- stateLast, bonded <- stateBonded, dial <- stateDial, Dial <- {d1},
    Content <- {v1, v2}, Nothing <- none, Word <- 9, MinInterval <- 2,
    Heartbeat <- 3, LiveTime <- 4, Punctual <- TRUE

Radio == INSTANCE Transport WITH
    pending <- radioPending, events <- radioEvents, Bonded <- {d1},
    MaxAttempts <- 2, CheckEvery <- 2, Budgets <- RadioBudgets

Pulls == INSTANCE PullService WITH
    bonded <- pullBonded, Dial <- {d1}, Source <- {v1, v2}, Unknown <- none,
    Throttle <- 2, Pulls <- {"info", "caps"}, Asks <- {"set", "catalog"},
    Certs <- {}

Commands == INSTANCE CmdOverlay WITH
    hold <- cmdHold, pending <- cmdPending, want <- cmdWant,
    events <- cmdEvents, Field <- {}, Value <- {v1, v2}, NA <- none,
    Debounce <- 1, EchoHold <- 2, MaxCmds <- 2, MaxEvents <- 1

Pages == INSTANCE Catalog WITH
    list <- pageList, Dial <- {d1, d2, d3}, Ext <- <<"Bedroom">>, PageMax <- 2,
    MaxChanges <- 3, MaxLoss <- 2

Hands == INSTANCE PairHandshake WITH
    dial <- peerDial, None <- none, Dial <- {d1}, Ctrl <- {c1},
    QueueLength <- 1, MaxWindows <- 2, MaxAttempts <- 1, Lossy <- TRUE

ASSUME InstancesAssumption ==
    /\ Fanout!ConstantsAssumption /\ Radio!ConstantsAssumption
    /\ Pulls!ConstantsAssumption /\ Commands!ConstantsAssumption
    /\ Pages!ConstantsAssumption /\ Hands!ConstantsAssumption

Scenarios == {"fanout", "transport", "pulls", "commands", "catalog", "hands"}

Init ==
    /\ scenario \in Scenarios
    /\ Fanout!Init
    /\ scenario # "fanout" => now = 0 /\ hvac = v1 /\ stateBonded = {}
    /\ Radio!Init
    /\ scenario # "transport" => connected = FALSE /\ bounds = [trouble |-> 0, damage |-> 0, windows |-> 0]
    /\ Pulls!Init
    /\ scenario # "pulls" => pullBonded = {} /\ selected = v1 /\ root = FALSE
    /\ Commands!Init
    /\ scenario # "commands" => device = [p \in Commands!Part |-> v1]
    /\ Pages!Init
    /\ Hands!Init

(* The parts that do not run in this behaviour stay as they are. *)
OthersRest ==
    /\ IF scenario = "fanout" THEN TRUE ELSE UNCHANGED state
    /\ IF scenario = "transport" THEN TRUE ELSE UNCHANGED transport
    /\ IF scenario = "pulls" THEN TRUE ELSE UNCHANGED pulls
    /\ IF scenario = "commands" THEN TRUE ELSE UNCHANGED commands
    /\ IF scenario = "catalog" THEN TRUE ELSE UNCHANGED pages
    /\ IF scenario = "hands" THEN TRUE ELSE UNCHANGED hands

Next ==
    /\ UNCHANGED scenario
    /\ OthersRest
    /\ \/ scenario = "fanout" /\ Fanout!Next
       \/ scenario = "transport" /\ Radio!Next
       \/ scenario = "pulls" /\ Pulls!Next
       \/ scenario = "commands" /\ Commands!Next
       \/ scenario = "catalog" /\ Pages!Next
       \/ scenario = "hands" /\ Hands!Next

(* The service of the behaviour, in a form TLC checks without a tableau. *)
Runs(s) == []<>(scenario = s)

(* The fairness of the service that runs; each module says what justifies it. *)
Fairness ==
    \/ Runs("fanout") /\ Fanout!Fairness
    \/ Runs("transport") /\ Radio!Fairness
    \/ Runs("pulls") /\ Pulls!Fairness
    \/ Runs("commands") /\ Commands!Fairness
    \/ Runs("catalog") /\ Pages!Fairness
    \/ Runs("hands") /\ Hands!Fairness

Spec == Init /\ [][Next]_vars /\ Fairness

-----------------------------------------------------------------------------
(* Properties, explained in the modules of the parts. *)

(* A STATE that is pending for a live dial goes out, and what a live dial  *)
(* pulls is answered.                                                      *)
DialsAreServed ==
    /\ Runs("fanout") => Fanout!PendingGoesOut
    /\ Runs("pulls") => Pulls!PullIsAnswered

(* A radio that is no longer harmed is usable again, and with Links bonded *)
(* does not stay in power save.                                            *)
RadioRecovers ==
    Runs("transport") => Radio!Recovers /\ Radio!StaysAwake

(* Staged values give way to what the entity reports, and a dial that pages*)
(* through the catalog has all of it in the end.                           *)
TruthArrives ==
    /\ Runs("commands") => Commands!TruthReturns
    /\ Runs("catalog") => Pages!CatalogArrives

(* The loss of an acknowledgement does not leave the pairing half done. *)
PairingRecovers == Runs("hands") => Hands!AckLossRecovers
=============================================================================
