---------------------------- MODULE ConfigSlots ----------------------------
(***************************************************************************)
(* The bond slots of a configuration (__init__.py: _base schema,           *)
(* _expand_max_links, _expand_sensor_links, slot_count, to_code) and the   *)
(* controller it builds: the entities per slot, the options of the         *)
(* room-source dropdown, and the Links that max_links_ lets bond           *)
(* (serin_link.cpp: pair_req_past_max_links_).                             *)
(*                                                                         *)
(* A list of rows is its length; whether one of its rows has a screen:     *)
(* entity is a key of its own.                                             *)
(***************************************************************************)
EXTENDS Integers

CONSTANTS
    MaxDials,     \* SL2_MAX_DIALS
    Sources,      \* external sources, the options between Heat pump and Links
    Absent,       \* the key is not in the configuration
    Bare,         \* links: without rows
    DeviceCounts  \* lengths of link_devices: to try

ConstantsAssumption ==
    /\ MaxDials \in Nat \ {0} /\ Sources \in Nat
    /\ Absent # Bare /\ {Absent, Bare} \cap Int = {}
    /\ DeviceCounts \subseteq Nat

VARIABLES
    yaml,       \* the configuration as written
    conf,       \* ... as validation transformed it
    phase,      \* "written", "valid", "rejected", "built"
    built,      \* what to_code set on the component that runs
    bonded      \* Links bonded in the controller

vars == <<yaml, conf, phase, built, bonded>>

Rows == {Absent} \cup 0..(MaxDials + 1)

Config ==
    [maxLinks : {Absent} \cup 1..MaxDials,
     devices  : {Absent} \cup DeviceCounts,
     screen   : BOOLEAN,                  \* screen: on serin_link itself
     rows     : Rows,                     \* diagnostics: links:
     rowScreen : BOOLEAN,                 \* ... one of them with screen:
     linkSensor : BOOLEAN,
     sensorRows : Rows \cup {Bare},       \* link_sensor: links:
     dropdown : BOOLEAN]                  \* room_temperature_source:

WellFormed(c) ==
    /\ c.rowScreen => c.rows \notin {Absent, 0}
    /\ ~c.linkSensor => c.sensorRows = Absent

NotBuilt == [runs |-> FALSE, maxLinks |-> 0, rows |-> 0, sensorRows |-> 0,
             screenRows |-> FALSE, feature |-> FALSE, options |-> 0]

----------------------------------------------------------------------------
(* The schema, and the checks across keys. *)

FitsTable(r) == r \in {Absent, Bare} \/ r <= MaxDials

(* The slot count, of max_links: or of link_devices:. *)
Stated(c) == IF c.maxLinks # Absent THEN c.maxLinks ELSE c.devices

(* Mutant: devices that max_links: outnumbers are accepted. *)
DevicesFewer(c) ==
    c.devices # Absent => IF c.maxLinks = Absent THEN c.devices <= MaxDials
                          ELSE c.devices <= c.maxLinks

DevicesAgree(c) ==
    c.devices # Absent => IF c.maxLinks = Absent THEN c.devices <= MaxDials
                          ELSE c.devices = c.maxLinks

SensorRowsAgree(c) ==
    CASE c.sensorRows = Absent -> TRUE
      [] c.sensorRows = Bare   -> Stated(c) # Absent
      [] OTHER                 -> Stated(c) # Absent => c.sensorRows = Stated(c)

(* Mutant: only more rows than slots are refused. *)
RowsAtMost(c) ==
    Stated(c) # Absent /\ c.rows # Absent => c.devices = Absent /\ c.rows <= Stated(c)

RowsAgree(c) ==
    Stated(c) # Absent /\ c.rows # Absent => c.devices = Absent /\ c.rows = Stated(c)

(* Mutant: screen rows are looked at only where max_links: generates. *)
ScreenWithMax(c) == c.rowScreen /\ c.maxLinks # Absent => c.screen

ScreenHasSwitch(c) == c.rowScreen => c.screen

Accepted(c) ==
    /\ FitsTable(c.rows) /\ FitsTable(c.sensorRows)
    /\ c.dropdown => c.linkSensor
    /\ ScreenHasSwitch(c)
    /\ DevicesAgree(c)
    /\ SensorRowsAgree(c)
    /\ RowsAgree(c)

(* Rows generated for the slots that have none. *)
Expanded(c) ==
    [c EXCEPT !.sensorRows = IF @ = Bare THEN Stated(c) ELSE @,
              !.rows = IF @ = Absent THEN Stated(c) ELSE @,
              !.rowScreen = IF c.rows = Absent /\ Stated(c) \notin {Absent, 0}
                            THEN c.screen ELSE @]

Validate ==
    /\ phase = "written"
    /\ IF Accepted(yaml) THEN phase' = "valid" /\ conf' = Expanded(yaml)
       ELSE phase' = "rejected" /\ UNCHANGED conf
    /\ UNCHANGED <<yaml, built, bonded>>

----------------------------------------------------------------------------
(* to_code. *)
Count(r) == IF r = Absent THEN 0 ELSE r

(* Mutant: without rows and max_links: the dropdown has no Links. *)
SlotCountNoFloor(c) ==
    IF Count(c.rows) # 0 THEN c.rows
    ELSE IF Count(c.sensorRows) # 0 THEN c.sensorRows ELSE Count(c.maxLinks)

SlotCount(c) ==
    IF Count(c.rows) # 0 THEN c.rows
    ELSE IF Count(c.sensorRows) # 0 THEN c.sensorRows
    ELSE IF c.maxLinks # Absent THEN c.maxLinks ELSE MaxDials

Limit(c) == Count(Stated(c))

(* The dropdown: Heat pump, the external sources, one option per slot. *)
Options(c) == IF c.dropdown THEN 1 + Sources + SlotCount(c) ELSE 0

ToCode ==
    /\ phase = "valid" /\ phase' = "built"
    /\ built' = [runs       |-> TRUE,
                 maxLinks   |-> Limit(conf),
                 rows       |-> Count(conf.rows),
                 sensorRows |-> Count(conf.sensorRows),
                 screenRows |-> conf.rowScreen,
                 feature    |-> conf.screen,
                 options    |-> Options(conf)]
    /\ UNCHANGED <<yaml, conf, bonded>>

(* The user changes the slot count and installs again; bonds stay in flash. *)
Edit ==
    /\ phase \in {"built", "rejected"} /\ phase' = "written"
    /\ \E m \in {Absent} \cup 1..MaxDials, d \in {Absent} \cup DeviceCounts :
         yaml' = [yaml EXCEPT !.maxLinks = m, !.devices = d]
    /\ UNCHANGED <<conf, built, bonded>>

(* The running controller: pairing a new Link, and forgetting one. *)
Pair ==
    /\ built.runs /\ bonded < MaxDials
    /\ built.maxLinks = 0 \/ bonded < built.maxLinks
    /\ bonded' = bonded + 1
    /\ UNCHANGED <<yaml, conf, phase, built>>

Forget ==
    /\ built.runs /\ bonded > 0 /\ bonded' = bonded - 1
    /\ UNCHANGED <<yaml, conf, phase, built>>

Init ==
    /\ yaml \in {c \in Config : WellFormed(c)}
    /\ conf = yaml /\ phase = "written" /\ built = NotBuilt /\ bonded = 0

Next == Validate \/ ToCode \/ Edit \/ Pair \/ Forget

Spec == Init /\ [][Next]_vars

----------------------------------------------------------------------------
(* Types of the state; rows past the bond table, which the component would *)
(* ignore without a word (add_dial_row, add_sensor_row), are never built.  *)
TypeOK ==
    /\ yaml \in Config /\ conf \in Config
    /\ phase \in {"written", "valid", "rejected", "built"}
    /\ bonded \in 0..MaxDials
    /\ built.maxLinks \in 0..MaxDials /\ built.options \in Nat
    /\ built.rows \in 0..MaxDials /\ built.sensorRows \in 0..MaxDials
    /\ {built.screenRows, built.feature, built.runs} \subseteq BOOLEAN

(* A screen entity exists only in a controller that declares SL2_FEAT_SCREEN, *)
(* without which no Link reports and it would read off for ever.              *)
ScreenRowsReport == built.screenRows => built.feature

(* In a configuration whose entities were put into sub-devices there are as  *)
(* many of those as slots with entities.                                     *)
DevicePerRow ==
    phase = "built" /\ conf.devices \notin {Absent, 0} => built.rows = conf.devices

(* Where the controller limits pairing, a Link that bonds has its entities   *)
(* from then on: a row of diagnostics, and one of readings when there are    *)
(* any; whatever was bonded before the limit was changed.                    *)
LimitedLinkHasRows ==
    bonded' > bonded /\ built.maxLinks # 0 =>
     /\ bonded' <= built.rows
     /\ built.sensorRows # 0 => bonded' <= built.sensorRows

(* The dropdown, sized at build time, covers the catalog (Heat pump, the     *)
(* external sources and the live bonds, room_catalog_entry_) when a Link     *)
(* bonds, if a limit sized it or nothing did.                                *)
DropdownCoversCatalog ==
    bonded' > bonded /\ built.options # 0
    /\ (built.maxLinks # 0 \/ built.rows + built.sensorRows = 0)
    => 1 + Sources + bonded' <= built.options
=============================================================================
