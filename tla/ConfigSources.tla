--------------------------- MODULE ConfigSources ---------------------------
(***************************************************************************)
(* The external room sources of a configuration (__init__.py: the          *)
(* sources: schema, _room_source_label, _room_sources_labels_unique,       *)
(* _room_sources_units, to_code) and what the component makes of them      *)
(* (serin_link.cpp: add_room_source, ext_index_, ext_state_,               *)
(* room_catalog_entry_).                                                   *)
(*                                                                         *)
(* A label is a model value.  Those in Builtin collide with an entry of    *)
(* the controller's own, those in Long have more than 23 characters, those *)
(* in Twins differ after their first 23 bytes only, and those in Clash     *)
(* have one hash.  Validation may run many times in one process, over a    *)
(* configuration that changes; CORE.data stays.                            *)
(***************************************************************************)
EXTENDS Integers, Sequences, SequencesExt

CONSTANTS
    Label, Builtin, Long, Twins, Clash,
    OwnLabel,     \* labels that sensors have themselves
    Sensor,       \* ids of sensors
    Absent,
    MaxSources    \* MAX_ROOM_SOURCES

ConstantsAssumption ==
    /\ Builtin \cup Long \cup Twins \cup Clash \cup OwnLabel \subseteq Label
    /\ Absent \notin Label \cup Sensor /\ MaxSources \in Nat

VARIABLES
    sensors,     \* the sensor: blocks; their own names and units
    sources,     \* the sources: list
    phase,       \* "written", "valid", "rejected", "built", "failed"
    fahrenheit,  \* CORE.data[KEY_FAHRENHEIT_SOURCES]
    built        \* ext_sources_ of the component that runs, with their units

vars == <<sensors, sources, phase, fahrenheit, built>>

Unit   == {"C", "F", "none", "other"}
Decl   == [own : OwnLabel \cup {Absent}, unit : Unit]
Entry  == [sensor : Sensor, name : Label \cup {Absent}]

(* sl2_room_source_name_id, and _fnv1a56 that must agree with it. *)
Hash(l) == IF l \in Clash THEN "clash" ELSE l

(* What fits the name of a catalog entry. *)
OnDial(l) == IF l \in Twins THEN "twin" ELSE l

----------------------------------------------------------------------------
(* FINAL_VALIDATE_SCHEMA. *)
Resolved(e) == IF e.name # Absent THEN e.name ELSE sensors[e.sensor].own

Labels == [i \in DOMAIN sources |-> Resolved(sources[i])]

(* Mutant: labels are compared, not their hashes. *)
LabelsDiffer == IsInjective(Labels)

LabelsDistinct == IsInjective([i \in DOMAIN sources |-> Hash(Labels[i])])

LabelsUnique ==
    /\ Absent \notin ToSet(Labels)
    /\ ToSet(Labels) \cap (Long \cup Builtin) = {}
    /\ LabelsDistinct

UnitOf(i) == sensors[sources[i].sensor].unit

Units == {UnitOf(i) : i \in DOMAIN sources}

(* Mutant: ids of an earlier validation stay. *)
FahrenheitGrows ==
    fahrenheit \cup {sources[i].sensor : i \in {i \in DOMAIN sources : UnitOf(i) = "F"}}

(* The Fahrenheit sensors, up to the first source of an unknown unit. *)
FahrenheitFound ==
    {sources[i].sensor : i \in {i \in DOMAIN sources :
        UnitOf(i) = "F" /\ \A j \in 1..(i - 1) : UnitOf(j) # "other"}}

(* Mutant: labels are resolved again by to_code. *)
NotNamed == sources

Named == [i \in DOMAIN sources |-> [sources[i] EXCEPT !.name = Labels[i]]]

(* _room_sources_units runs only if the labels are accepted. *)
Validate ==
    /\ phase = "written"
    /\ IF ~LabelsUnique
       THEN phase' = "rejected" /\ UNCHANGED <<sources, fahrenheit>>
       ELSE /\ sources' = Named
            /\ fahrenheit' = FahrenheitFound
            /\ phase' = IF "other" \in Units THEN "rejected" ELSE "valid"
    /\ UNCHANGED <<sensors, built>>

----------------------------------------------------------------------------
(* to_code, which can resolve no label. *)
ToCode ==
    /\ phase = "valid"
    /\ IF Absent \in {e.name : e \in ToSet(sources)}
       THEN phase' = "failed" /\ UNCHANGED built
       ELSE /\ phase' = "built"
            /\ built' = [i \in DOMAIN sources |->
                           [name |-> sources[i].name, id |-> Hash(sources[i].name),
                            unit |-> sensors[sources[i].sensor].unit,
                            fahrenheit |-> sources[i].sensor \in fahrenheit]]
    /\ UNCHANGED <<sensors, sources, fahrenheit>>

(* The user rewrites the declaration of one sensor, or the names. *)
Edit ==
    /\ phase \in {"built", "rejected"} /\ phase' = "written"
    /\ \/ /\ \E s \in Sensor, u \in Unit : sensors' = [sensors EXCEPT ![s].unit = u]
          /\ UNCHANGED sources
       \/ /\ sources' = [i \in DOMAIN sources |-> [sources[i] EXCEPT !.name = Absent]]
          /\ UNCHANGED sensors
    /\ UNCHANGED <<fahrenheit, built>>

Init ==
    /\ sensors \in [Sensor -> Decl]
    /\ sources \in UNION {[1..n -> Entry] : n \in 0..MaxSources}
    /\ \A e \in ToSet(sources) : e.name \notin Long
    /\ phase = "written" /\ fahrenheit = {} /\ built = <<>>

Next == Validate \/ ToCode \/ Edit

Spec == Init /\ [][Next]_vars

----------------------------------------------------------------------------
(* The component. *)

(* ext_index_ *)
Index(id) == CHOOSE i \in DOMAIN built :
                 built[i].id = id /\ \A j \in 1..(i - 1) : built[j].id # id

(* ext_state_: the unit in which a reading of unit u is used. *)
Used(x, u) == IF x.fahrenheit THEN IF u = "F" THEN "C" ELSE "wrong" ELSE u

(* Types of the state. *)
TypeOK ==
    /\ sensors \in [Sensor -> Decl]
    /\ sources \in Seq(Entry) /\ Len(sources) <= MaxSources
    /\ phase \in {"written", "valid", "rejected", "built", "failed"}
    /\ fahrenheit \subseteq Sensor
    /\ \A i \in DOMAIN built : /\ built[i].unit \in Unit \ {"other"}
                              /\ built[i].name \in Label \ (Builtin \cup Long)

(* Whatever validates can be built: to_code, which cannot see the other     *)
(* blocks of the configuration, needs no label that only they have.         *)
BuildSucceeds == phase # "failed"

(* Choosing an option of the dropdown, or an entry on a dial, selects the   *)
(* source it names: no two sources have one id.                             *)
ChoiceIsItsSource == \A i \in DOMAIN built : Index(built[i].id) = i

(* A reading of a declared unit is used in degrees Celsius, whatever units  *)
(* earlier validations in the same process saw.                             *)
ReadingsAreCelsius ==
    \A i \in DOMAIN built :
        built[i].unit # "none" => Used(built[i], built[i].unit) = "C"
=============================================================================
