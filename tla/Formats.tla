------------------------------- MODULE Formats ------------------------------
(***************************************************************************)
(* What is computed rather than served: the mapping between the climate    *)
(* entity and the wire, TLVs, the paged catalog, the ESPHome configuration,*)
(* and the hash and key derivation, of which HashStream is taken as it is. *)
(* Each other part is a module of its own and shares no state with the     *)
(* others here, so they are not interleaved: a behaviour is a scenario of  *)
(* one of them, in an instance of its own size, while the others rest and  *)
(* their variables are none.  The states are the sum of theirs.            *)
(***************************************************************************)
EXTENDS HashStream, FiniteSets, FiniteSetsExt, SequencesExt, TLC

CONSTANTS
    Dial, Ext, PageMax, MaxChanges, MaxLoss,            \* Catalog
    MaxDials, Sources, DeviceCounts,                    \* ConfigSlots
    Label, Builtin, Long, Twins, Clash, OwnLabel, Sensor, MaxSources,
                                                        \* ConfigSources
    HmacBlock, HashLen, CtrLimit, Lengths, MaxOut,      \* KeyExpansion
    absent, bare,                \* a key that is not there, or has no value
    NaN,
    none

(* Three bytes of a length, which count 4, 2 and 1 in blocks of five. *)
ByteWeights == <<4, 2, 1>>

(* Entities that each vary one thing: every set of at most one element, and *)
(* of all but at most one.                                                  *)
Some(S) == {T \in SUBSET S : Cardinality(T) <= 1 \/ Cardinality(S \ T) <= 1}

Plain == [modes |-> {0}, presets |-> {}, fans |-> {}, lo |-> 160, hi |-> 165,
          step |-> 5, vane |-> <<>>, rounds |-> "half", ftab |-> "auto",
          battery |-> FALSE]

MCTraits ==
    {[Plain EXCEPT !.battery = TRUE]}
    \cup {[Plain EXCEPT !.modes = {0} \cup m] : m \in Some(1..6)}
    \cup {[Plain EXCEPT !.presets = p] : p \in Some(0..7)}
    \cup {[Plain EXCEPT !.fans = f \cup g] :
             f \in Some({"quiet", "low", "medium", "middle", "focus", "diffuse", "high"})
                   \cup {{"low", "medium", "high"},
                          {"quiet", "low", "medium", "middle", "high"}},
             g \in {{}, {"auto"}}}
    \cup {[Plain EXCEPT !.lo = r[1], !.hi = r[2], !.step = r[3], !.rounds = r[4],
                       !.ftab = r[5]] :
             r \in {<<100, 350, 1, "tenth", "auto">>, <<160, 310, 5, "half", "auto">>,
                    <<165, 305, 5, "tenth", "auto">>, <<100, 300, 5, "half", "auto">>,
                    <<160, 310, 10, "tenth", "mitsubishi">>,
                    <<160, 315, 5, "half", "mitsubishi">>,
                    <<160, 310, 5, "fahrenheit", "linear">>,
                    <<160, 310, 5, "tenth", "linear">>}}
    \cup {[Plain EXCEPT !.vane = v] :
             v \in {<<"p">>, <<"auto", "p", "q", "r", "s", "t", "swing">>,
                    <<"p", "q", "auto", "r">>, <<"swing", "p", "q">>, <<"auto">>,
                    <<"p", "q", "r", "s", "t", "split", "swing">>,
                    <<"p", "q", "r", "auto", "s", "t", "split", "u">>,
                    <<"a", "b", "c", "d", "e", "split", "g", "h", "i", "j", "k", "l",
                      "m", "n", "o", "p", "auto">>}}

(* Nodes that bind no entity, one that lacks something, or one whose range *)
(* is between tenths of a degree.                                          *)
PlainNode == [entity |-> TRUE, link |-> "none", traits |-> {"room"},
              modes |-> {"heat", "heat_cool"}, lo |-> 1600, hi |-> 3100,
              step |-> 50]

MCNodes ==
    {[PlainNode EXCEPT !.entity = FALSE]}
    \cup {[PlainNode EXCEPT !.traits = t] :
             t \in {{}, {"band"}, {"room", "action"}, {"room", "hum"}, {"room", "humset"}}}
    \cup {[PlainNode EXCEPT !.link = k] : k \in {"lambda", "sensor"}}
    \cup {[PlainNode EXCEPT !.modes = {"off", "heat", "cool", "auto", "dry", "fan_only"}],
          [PlainNode EXCEPT !.lo = 1555, !.hi = 3056, !.step = 10]}

(* Those without a sensor, which vary in what can be commanded, but with   *)
(* the same modes.                                                         *)
MCCommanded == {n \in MCNodes : /\ n.link = "none" /\ n.modes = PlainNode.modes
                                /\ {"action", "hum"} \cap n.traits = {}}

MCTemp == {-4, 1555, 2244, 3056}

MCWireSet == {90, 158, 162, 163, 195, 201, 202, 203, 204, 218, 308, 312, 360}

(* An SSID has up to 32 characters, an IPv6 address up to 39, a version up *)
(* to 24 and a build time 25.                                              *)
MCMaxStr == [ssid |-> 32, ip |-> 39, version |-> 24, build |-> 25]

(* One external source, after Heat pump and before the Links. *)
OneSource == <<"Bedroom">>

VARIABLES
    scenario,
    traits, field, entity, staged, hvacLast, latch, flips,
    node, dev, held, tick, heard,
    bound, present, strs, power, energy, infoPhase, infoBuf, infoLen, infoGot,
    slots, request, resp, stage, pageList, ack, changes, losses,
    yaml, conf, confPhase, confBuilt, bonded,
    sensors, sources, srcPhase, fahrenheit, srcBuilt,
    prk, keyInfo, keyWant, keyT, out, ctr

mapping == <<traits, field, entity, staged, hvacLast, latch, flips>>
report == <<node, dev, held, tick, heard>>
tlvs == <<bound, present, strs, power, energy, infoPhase, infoBuf, infoLen,
          infoGot>>
pages == <<slots, request, resp, stage, pageList, ack, changes, losses>>
slotKeys == <<yaml, conf, confPhase, confBuilt, bonded>>
sourceKeys == <<sensors, sources, srcPhase, fahrenheit, srcBuilt>>
keys == <<prk, keyInfo, keyWant, keyT, out, ctr>>
formatsVars == <<scenario, mapping, report, tlvs, pages, slotKeys, sourceKeys,
                 keys, vars>>

Mapping == INSTANCE HvacMapping WITH
    last <- hvacLast, TraitsSet <- MCTraits,
    WireMode <- 0..9, WirePreset <- 0..9, WireFan <- 0..100 \cup {255},
    WireSet <- MCWireSet, WireVane <- 0..7 \cup {15, 16} \cup {255},
    DegF <- {50, 95} \cup 60..71 \cup 86..89, Level <- 8..16, BatteryLow <- 10, NA <- none

Report == INSTANCE HvacReport WITH
    Nodes <- MCNodes, Temp <- MCTemp, Hum <- {0, 1000},
    Commanded <- MCCommanded, WireMode <- {5, 9}, WireTemp <- {50},
    WireHum <- {100, 101}

Info == INSTANCE InfoTlvs WITH
    phase <- infoPhase, buf <- infoBuf, len <- infoLen, got <- infoGot,
    MTU <- 250, MaxStr <- MCMaxStr, Reading <- {NaN, -3, 0, 8, 9, 10, 11, 40},
    WMax <- 9, WhMax <- 11, Lost <- 0..17

Pages == INSTANCE Catalog WITH list <- pageList

SlotKeys == INSTANCE ConfigSlots WITH
    phase <- confPhase, built <- confBuilt, Absent <- absent, Bare <- bare

SourceKeys == INSTANCE ConfigSources WITH
    phase <- srcPhase, built <- srcBuilt, Absent <- absent

Keys == INSTANCE KeyExpansion WITH
    info <- keyInfo, want <- keyWant, t <- keyT, Block <- HmacBlock

ASSUME InstancesAssumption ==
    /\ Mapping!ConstantsAssumption /\ Report!ConstantsAssumption
    /\ Info!ConstantsAssumption /\ Pages!ConstantsAssumption
    /\ SlotKeys!ConstantsAssumption /\ SourceKeys!ConstantsAssumption
    /\ Keys!ConstantsAssumption

Scenarios == {"hash", "mapping", "report", "info", "catalog", "slots",
              "labels", "keys"}

FormatsInit ==
    /\ scenario \in Scenarios
    /\ Init
    /\ \/ scenario = "mapping" /\ Mapping!Init
       \/ /\ scenario # "mapping"
          /\ traits = none /\ field = none /\ entity = none /\ staged = none
          /\ hvacLast = none /\ latch = none /\ flips = none
    /\ \/ scenario = "report" /\ Report!Init
       \/ /\ scenario # "report"
          /\ node = none /\ dev = none /\ held = none /\ tick = none /\ heard = none
    /\ \/ scenario = "info" /\ Info!Init
       \/ /\ scenario # "info"
          /\ bound = none /\ present = none /\ strs = none /\ power = none
          /\ energy = none /\ infoPhase = none /\ infoBuf = none
          /\ infoLen = none /\ infoGot = none
    /\ \/ scenario = "catalog" /\ Pages!Init
       \/ /\ scenario # "catalog"
          /\ slots = none /\ request = none /\ resp = none /\ stage = none
          /\ pageList = none /\ ack = none /\ changes = none /\ losses = none
    /\ \/ scenario = "slots" /\ SlotKeys!Init
       \/ /\ scenario # "slots"
          /\ yaml = none /\ conf = none /\ confPhase = none /\ confBuilt = none
          /\ bonded = none
    /\ \/ scenario = "labels" /\ SourceKeys!Init
       \/ /\ scenario # "labels"
          /\ sensors = none /\ sources = none /\ srcPhase = none
          /\ fahrenheit = none /\ srcBuilt = none
    /\ \/ scenario = "keys" /\ Keys!Init
       \/ /\ scenario # "keys"
          /\ prk = none /\ keyInfo = none /\ keyWant = none /\ keyT = none
          /\ out = none /\ ctr = none

(* The parts that do not run in this behaviour stay as they are. *)
OthersRest ==
    /\ IF scenario = "hash" THEN TRUE ELSE UNCHANGED vars
    /\ IF scenario = "mapping" THEN TRUE ELSE UNCHANGED mapping
    /\ IF scenario = "report" THEN TRUE ELSE UNCHANGED report
    /\ IF scenario = "info" THEN TRUE ELSE UNCHANGED tlvs
    /\ IF scenario = "catalog" THEN TRUE ELSE UNCHANGED pages
    /\ IF scenario = "slots" THEN TRUE ELSE UNCHANGED slotKeys
    /\ IF scenario = "labels" THEN TRUE ELSE UNCHANGED sourceKeys
    /\ IF scenario = "keys" THEN TRUE ELSE UNCHANGED keys

FormatsNext ==
    /\ UNCHANGED scenario
    /\ OthersRest
    /\ \/ scenario = "hash" /\ Next
       \/ scenario = "mapping" /\ Mapping!Next
       \/ scenario = "report" /\ Report!Next
       \/ scenario = "info" /\ Info!Next
       \/ scenario = "catalog" /\ Pages!Next
       \/ scenario = "slots" /\ SlotKeys!Next
       \/ scenario = "labels" /\ SourceKeys!Next
       \/ scenario = "keys" /\ Keys!Next

FormatsSpec == FormatsInit /\ [][FormatsNext]_formatsVars

(* The sensors of the configuration are alike. *)
Symmetry == Permutations(Sensor)

-----------------------------------------------------------------------------
(* Properties, explained in the modules of the parts. *)

(* What the entity declares and a dial commands is what it reports then, in*)
(* degrees Fahrenheit too; what is reported is declared, by the node without*)
(* an entity also; a battery at the threshold does not flap; the link      *)
(* inferred to be up comes with a reading.                                 *)
ReportsComeBack ==
    /\ scenario = "mapping" =>
         /\ Mapping!TypeOK /\ Mapping!DeclaredConfirms /\ Mapping!DegreesReturn
         /\ Mapping!ReportIsDeclared /\ Mapping!SplitIsSplit
         /\ Mapping!NoFlapping
    /\ scenario = "report" =>
         /\ Report!TypeOK /\ Report!StateFitsCaps /\ Report!MirrorIsTheLowEnd
         /\ Report!UpIsHeard

(* README.md: "unknown modes/presets are no-ops". *)
UnknownModeIsNoOp ==
    [][scenario = "mapping" => Mapping!UnknownModeIsNoOp]_formatsVars

(* However long the texts, INFO leaves no TLV out; the receiver finds the  *)
(* TLVs of the sender, each with its row in CAPS, and a reading that is    *)
(* known as such.                                                          *)
InfoIsWhole ==
    scenario = "info" =>
       /\ Info!NothingLeftOut /\ Info!WalkKeepsPlace /\ Info!RowsAreAnnounced
       /\ Info!KnownIsNotNA

(* The list a dial shows is the catalog of one moment; a page is empty only*)
(* when the catalog changed under the dial; a selection is accepted only   *)
(* under the name shown.                                                   *)
CatalogIsOfOneMoment ==
    [][scenario = "catalog" =>
            /\ Pages!ListIsACatalog' /\ Pages!EmptyOnlyIfChanged'
            /\ Pages!AcceptedAsShown]_formatsVars

(* What validates can be built, with rows, sub-devices and a dropdown for  *)
(* the Links that may bond; choosing a room source selects the source it   *)
(* names, and its reading is used in degrees Celsius.                      *)
BuildsFit ==
    [][/\ scenario = "slots" =>
            /\ SlotKeys!TypeOK' /\ SlotKeys!ScreenRowsReport'
            /\ SlotKeys!DevicePerRow' /\ SlotKeys!LimitedLinkHasRows
            /\ SlotKeys!DropdownCoversCatalog
       /\ scenario = "labels" =>
            /\ SourceKeys!TypeOK' /\ SourceKeys!BuildSucceeds'
            /\ SourceKeys!ChoiceIsItsSource' /\ SourceKeys!ReadingsAreCelsius']_formatsVars

(* Padding is that of SHA-256, HMAC that of RFC 2104 and the expansion that*)
(* of RFC 5869: keys are those the other adapters derive.                  *)
AsTheStandards ==
    /\ WholeBlocks
    /\ scenario = "keys" =>
         /\ Keys!TypeOK /\ Keys!AsOtherAdapters /\ Keys!Extracted
=============================================================================
