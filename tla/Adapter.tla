------------------------------- MODULE Adapter ------------------------------
(***************************************************************************)
(* The services of the ESPHome adapter (serin_link.cpp, serin_link.h). Each*)
(* is a module of its own and shares no state with the others here, so they*)
(* are not interleaved: a behaviour is a scenario of one of them, in an    *)
(* instance of its own size, while the others rest and their variables are *)
(* none.  The states are the sum of theirs.                                *)
(***************************************************************************)
EXTENDS Integers, TLC

CONSTANTS
    Dials,        \* of every service but the automations
    Values,       \* temperatures, and values of the climate entity
    none,
    RadioBonded, MaxAttempts, CheckEvery, Budgets,      \* Transport
    Ext,                                                \* RoomSource
    MaxDials, RowSlots, RowRepeat, StaleAfter,          \* SensorRows
    Field, Debounce, EchoHold, MaxCmds, MaxEvents,      \* CmdOverlay
    Firmware, blank, LiveFor, Renewal, Wrap,            \* Diagnostics
    LinkDials, LinkSlots, Lists, MaxTime,               \* LinkActions
    MaxBoots                                            \* Gates

(* A radio with troubles of every kind, and one that fails for longer than *)
(* there are attempts.                                                     *)
RadioBudgets == {[trouble |-> 2, damage |-> 1, windows |-> 1],
                 [trouble |-> 5, damage |-> 0, windows |-> 0]}

(* One slot or two to forget, from below or above, one past the table. *)
ForgetLists == {<<0>>, <<2, 0>>, <<0, 1>>, <<-1>>}

VARIABLES
    scenario,
    radio, radioPending, attempts, radioStarted, warning, sinceAttempt,
    sinceCheck, sincePs, radioEvents, wasConnected, connected, radioPairing,
    inLoop, bounds, burst,
    roomBonds, slots, roomStarted, room, saved, stored, pin, extHas, api, fed,
    choice, gone, loose, torn,
    sensorBonds, sensorRow, sensorShown, checked,
    cmdHold, cmdPending, overlay, age, timer, device, flight, cmdWant, why,
    cmds, cmdEvents,
    diagBonds, rt, diagRow, primed, total, diagShown, walked, settled,
    linkBonds, bondedAt, clock, linkPairing, cand, source, linkShown, rows,
    plan, linkList, asSeen,
    unset, mode, up, gate, seen, cached, flash, sent, mayBe, told, boots

transport == <<radio, radioPending, attempts, radioStarted, warning,
               sinceAttempt, sinceCheck, sincePs, radioEvents, wasConnected,
               connected, radioPairing, inLoop, bounds, burst>>
rooms == <<roomBonds, slots, roomStarted, room, saved, stored, pin, extHas,
           api, fed, choice, gone, loose, torn>>
sensors == <<sensorBonds, sensorRow, sensorShown, checked>>
commands == <<cmdHold, cmdPending, overlay, age, timer, device, flight,
              cmdWant, why, cmds, cmdEvents>>
diagnosis == <<diagBonds, rt, diagRow, primed, total, diagShown, walked,
               settled>>
links == <<linkBonds, bondedAt, clock, linkPairing, cand, source, linkShown,
           rows, plan, linkList, asSeen>>
gates == <<unset, mode, up, gate, seen, cached, flash, sent, mayBe, told, boots>>
vars == <<scenario, transport, rooms, sensors, commands, diagnosis, links,
          gates>>

Radio == INSTANCE Transport WITH
    pending <- radioPending, started <- radioStarted, events <- radioEvents,
    pairing <- radioPairing, Bonded <- RadioBonded

Room == INSTANCE RoomSource WITH
    bonds <- roomBonds, started <- roomStarted, Dial <- Dials, None <- none,
    Internal <- "internal", Auto <- "auto"

Rows == INSTANCE SensorRows WITH
    bonds <- sensorBonds, row <- sensorRow, shown <- sensorShown,
    Dial <- Dials, Temp <- Values, NA <- none,
    Declared <- RowSlots, Heartbeat <- RowRepeat

Band == INSTANCE CmdOverlay WITH
    hold <- cmdHold, pending <- cmdPending, want <- cmdWant,
    events <- cmdEvents, Value <- Values, NA <- none

Diagnosis == INSTANCE Diagnostics WITH
    bonds <- diagBonds, row <- diagRow, shown <- diagShown, Dial <- Dials,
    Blank <- blank, Unknown <- none, Refresh <- Renewal

Links == INSTANCE LinkActions WITH
    bonds <- linkBonds, pairing <- linkPairing, shown <- linkShown,
    list <- linkList, None <- none, Dial <- LinkDials, MaxDials <- LinkSlots

Gate == INSTANCE Gates WITH
    NoMode <- "no mode"

ASSUME InstancesAssumption ==
    /\ Radio!ConstantsAssumption /\ Room!ConstantsAssumption
    /\ Rows!ConstantsAssumption /\ Band!ConstantsAssumption
    /\ Diagnosis!ConstantsAssumption /\ Links!ConstantsAssumption
    /\ Gate!ConstantsAssumption

Scenarios == {"transport", "room", "rows", "band", "diagnostics", "links",
              "gates"}

Init ==
    /\ scenario \in Scenarios
    /\ \/ scenario = "transport" /\ Radio!Init
       \/ /\ scenario # "transport"
          /\ radio = none /\ radioPending = none /\ attempts = none
          /\ radioStarted = none /\ warning = none /\ sinceAttempt = none
          /\ sinceCheck = none /\ sincePs = none /\ radioEvents = none
          /\ wasConnected = none /\ connected = none /\ radioPairing = none
          /\ inLoop = none /\ bounds = none /\ burst = none
    /\ \/ scenario = "room" /\ Room!Init
       \/ /\ scenario # "room"
          /\ roomBonds = none /\ slots = none /\ roomStarted = none
          /\ room = none /\ saved = none /\ stored = none /\ pin = none
          /\ extHas = none /\ api = none /\ fed = none /\ choice = none
          /\ gone = none /\ loose = none /\ torn = none
    /\ \/ scenario = "rows" /\ Rows!Init
       \/ /\ scenario # "rows"
          /\ sensorBonds = none /\ sensorRow = none /\ sensorShown = none
          /\ checked = none
    /\ \/ scenario = "band" /\ Band!Init
       \/ /\ scenario # "band"
          /\ cmdHold = none /\ cmdPending = none /\ overlay = none
          /\ age = none /\ timer = none /\ device = none /\ flight = none
          /\ cmdWant = none /\ why = none /\ cmds = none /\ cmdEvents = none
    /\ \/ scenario = "diagnostics" /\ Diagnosis!Init
       \/ /\ scenario # "diagnostics"
          /\ diagBonds = none /\ rt = none /\ diagRow = none /\ primed = none
          /\ total = none /\ diagShown = none /\ walked = none
          /\ settled = none
    /\ \/ scenario = "links" /\ Links!Init
       \/ /\ scenario # "links"
          /\ linkBonds = none /\ bondedAt = none /\ clock = none
          /\ linkPairing = none /\ cand = none /\ source = none
          /\ linkShown = none /\ rows = none /\ plan = none /\ linkList = none
          /\ asSeen = none
    /\ \/ scenario = "gates" /\ Gate!Init
       \/ /\ scenario # "gates"
          /\ unset = none /\ mode = none /\ up = none /\ gate = none
          /\ seen = none /\ cached = none /\ flash = none /\ sent = none
          /\ mayBe = none /\ told = none /\ boots = none

(* The parts that do not run in this behaviour stay as they are. *)
OthersRest ==
    /\ IF scenario = "transport" THEN TRUE ELSE UNCHANGED transport
    /\ IF scenario = "room" THEN TRUE ELSE UNCHANGED rooms
    /\ IF scenario = "rows" THEN TRUE ELSE UNCHANGED sensors
    /\ IF scenario = "band" THEN TRUE ELSE UNCHANGED commands
    /\ IF scenario = "diagnostics" THEN TRUE ELSE UNCHANGED diagnosis
    /\ IF scenario = "links" THEN TRUE ELSE UNCHANGED links
    /\ IF scenario = "gates" THEN TRUE ELSE UNCHANGED gates

Next ==
    /\ UNCHANGED scenario
    /\ OthersRest
    /\ \/ scenario = "transport" /\ Radio!Next
       \/ scenario = "room" /\ Room!Next
       \/ scenario = "rows" /\ Rows!Next
       \/ scenario = "band" /\ Band!Next
       \/ scenario = "diagnostics" /\ Diagnosis!Next
       \/ scenario = "links" /\ Links!Next
       \/ scenario = "gates" /\ Gate!Next

Spec == Init /\ [][Next]_vars

(* Two of the dials are alike in every service, and the values are. *)
Symmetry == Permutations(Dials) \cup Permutations(Values)

-----------------------------------------------------------------------------
(* Properties, explained in the modules of the parts. *)

(* A receive callback that the driver lost is going to be registered again;*)
(* a driver that stays broken is not hammered; the warning is there only   *)
(* while a repair is pending.                                              *)
RadioIsLookedAfter ==
    scenario = "transport" =>
       /\ Radio!TypeOK /\ Radio!LostCallbackKnown /\ Radio!BoundedBurst
       /\ Radio!WarningIsCurrent

(* Room source: the temperature, the dropdown and the fields kept beside the*)
(* id follow the selection, which changes by itself only when its source is*)
(* gone; a power loss between its two preferences can leave one field of an*)
(* earlier choice, until the next.                                         *)
SelectionIsShown ==
    scenario = "room" =>
       /\ Room!TypeOK /\ Room!ShownIsPinned /\ Room!ProjectionAgrees
       /\ Room!DropdownTracks /\ Room!SelectionIsTheUsers

(* The pump is driven by the selected source only, and told when it is on  *)
(* its own again.                                                          *)
SelectionHolds ==
    [][scenario = "room" =>
            /\ Room!FeedIsSelected /\ Room!PumpIsReleased
            /\ Room!HeartbeatRepeats]_vars

(* A row shows the latest readings of the dial in its slot, exactly as long*)
(* as they are repeated; a row of diagnostics is about the dial in its slot,*)
(* its linked state agrees with its last-seen time, and that keeps growing *)
(* while the dial stays away.                                              *)
RowsShowTheirDial ==
    /\ scenario = "rows" =>
         /\ Rows!TypeOK /\ Rows!MovedIsRetracted /\ Rows!HumidityIsOwn
         /\ Rows!ShowsLatest /\ Rows!FreshIsShown
    /\ scenario = "diagnostics" =>
         /\ Diagnosis!TypeOK /\ Diagnosis!RowsAreTheSlots
         /\ Diagnosis!LinkedAgreesWithLastSeen /\ Diagnosis!OutageGrows

(* The last value commanded is waiting, on its way or in force, and is what*)
(* dials are shown.                                                        *)
LastCommandCounts ==
    scenario = "band" =>
       /\ Band!TypeOK /\ Band!ShownIsLatest /\ Band!LatestIsSent

(* A late forget never removes an older Link than the one it was made for, a*)
(* list of them removes the Links it was made of, and the room source is   *)
(* shown at its present slot.                                              *)
ForgetsHitTheirLink ==
    [][scenario = "links" =>
            /\ Links!TypeOK' /\ Links!ShownIsSource' /\ Links!NeverAnOlderLink
            /\ Links!ListHitsSeen]_vars

(* A gate that is restored is as it was left; one that was never touched   *)
(* puts no Link to sleep.                                                  *)
GatesEndure ==
    [][scenario = "gates" =>
            /\ Gate!TypeOK' /\ Gate!GateOutlivesReboot
            /\ Gate!UntouchedIsAsBefore']_vars
=============================================================================
