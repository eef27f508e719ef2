---------------------------- MODULE HvacMapping ----------------------------
(***************************************************************************)
(* What a command means to the climate entity and what STATE and CAPS make *)
(* of it (serin_link.cpp: hvac_apply, apply_pending_, hvac_get_state with  *)
(* apply_overlay_, hvac_get_caps and their conversions; the Fahrenheit     *)
(* tables of sl2_proto.h).  One field of CMD is followed at a time, with   *)
(* its value in hold_ and its bits of the two masks; commands to others    *)
(* share only the time stamp with it.  The entity takes a call at once     *)
(* here: late and refused calls are CmdOverlay's.                          *)
(*                                                                         *)
(* Temperatures are integers in tenths of a degree Celsius.                *)
(***************************************************************************)
EXTENDS Integers, Sequences, SequencesExt, FiniteSetsExt

CONSTANTS
    TraitsSet,     \* entities to bind, see Traits
    WireMode,      \* values of the command's bytes
    WirePreset, WireFan, WireSet, WireVane, DegF,
    Level,         \* values of the battery sensor
    BatteryLow,    \* batt_low_threshold_
    NA             \* NAN, an empty optional

Mode == 0..6       \* SL2_MODE_OFF, _HEAT, _COOL, _HEAT_COOL, _AUTO, _DRY, _FAN_ONLY
Preset == 0..7     \* SL2_PRESET_NONE, _ECO ... _ACTIVITY
FanOrder == <<"quiet", "low", "medium", "middle", "focus", "diffuse", "high">>
AUTO == 0          \* SL2_FAN_AUTO, SL2_VANE_AUTO
SWING == 255

Field == {"mode", "preset", "fan", "set", "vane"}

(* What an entity supports; "vane" is the bound select's list of options,  *)
(* "auto", "swing" or a position's name, "rounds" what the entity makes of *)
(* a setpoint it is given, and "ftab" the configured fahrenheit_table.     *)
Traits == [modes : SUBSET Mode, presets : SUBSET Preset,
           fans : SUBSET (ToSet(FanOrder) \cup {"auto"}),
           lo : Int, hi : Int, step : Int, vane : Seq(STRING),
           rounds : {"tenth", "half", "fahrenheit"},
           ftab : {"auto", "linear", "mitsubishi"}, battery : BOOLEAN]

ConstantsAssumption ==
    /\ \A t \in TraitsSet : t.lo < t.hi /\ 0 \in t.modes
    \* an entity's range ends on its own grid
    /\ \A t \in TraitsSet : t.rounds = "half" => t.lo % 5 = 0 /\ t.hi % 5 = 0
    \* the split position of cn105's horizontal vane is its sixth
    /\ \A t \in TraitsSet : "split" \in ToSet(t.vane) =>
          SelectSeq(t.vane, LAMBDA o : o \notin {"auto", "swing"})[6] = "split"
    /\ BatteryLow \in Nat /\ NA \notin Level

VARIABLES
    traits,    \* of the bound entity
    field,     \* the field of CMD that is followed
    entity,    \* what it publishes: mode, preset, fan, set, vane
    staged,    \* the field's value in hold_, pending_mask_ and overlay_mask_,
               \* and whether overlay_since_ms_ is within ECHO_HOLD_MS
    last,      \* history: whether there was a command, whether CAPS declares
               \* its value, and the value the dial shows
    latch,     \* batt_low_latch_
    flips      \* history: the last two levels at which the latch changed

vars == <<traits, field, entity, staged, last, latch, flips>>

----------------------------------------------------------------------------
(* Numbers. *)
Rounded(a, b) == (2 * a + b) \div (2 * b)       \* a >= 0, halves away from zero
Clamp(v, lo, hi) == IF v < lo THEN lo ELSE IF v > hi THEN hi ELSE v

(* sl2_ftab1: half a degree a step but for 19.5 and 20.5. *)
Ftab == [f \in 61..88 |-> IF f <= 67 THEN 160 + 5 * (f - 61)
                          ELSE IF f = 68 THEN 200 ELSE 210 + 5 * (f - 69)]

(* sl2_ftab1_c_to_f: the nearest entry, the lower of two. *)
NearestF == [dc \in 160..305 |->
    LET d(f) == IF Ftab[f] > dc THEN Ftab[f] - dc ELSE dc - Ftab[f]
    IN  Min({f \in 61..88 : \A g \in 61..88 : d(f) <= d(g)})]

(* Mutant: a dial's choice is sent by the linear scale. *)
FromFLinear(f, tab) == Rounded((f - 32) * 50, 9)

FromF(f, tab) == IF tab THEN Ftab[Clamp(f, 61, 88)] ELSE Rounded((f - 32) * 50, 9)
ToF(dc, tab)  == IF tab /\ dc \in 160..305 THEN NearestF[dc]
                 ELSE Rounded(dc * 9 + 1600, 50)

----------------------------------------------------------------------------
(* Setpoints. *)
Shaped == traits.step = 5 /\ traits.lo >= 160 /\ traits.hi <= 310

(* Mutant: what is configured is not looked at. *)
MitsubishiByShape == Shaped

(* mitsubishi_ftab_: configured, or else told by the entity's shape. *)
Mitsubishi == traits.ftab = "mitsubishi" \/ (traits.ftab = "auto" /\ Shaped)

SetpointFromWire(dc) ==
    Clamp(IF Mitsubishi THEN 5 * Rounded(dc, 5) ELSE dc, traits.lo, traits.hi)

(* The entity keeps a setpoint on a grid of its own: cn105 rounds down to  *)
(* half degrees, or with fahrenheit_compatibility keeps the whole degrees F*)
(* of its range.                                                           *)
Stored(dc) ==
    CASE traits.rounds = "tenth"      -> dc
      [] traits.rounds = "half"       -> 5 * (dc \div 5)
      [] traits.rounds = "fahrenheit" ->
             Clamp(FromF(ToF(dc, FALSE), FALSE), traits.lo, traits.hi)

----------------------------------------------------------------------------
(* Fan speeds: detents in the canonical order, percent on the wire. *)

Detents == SelectSeq(FanOrder, LAMBDA m : m \in traits.fans)

FanIndex(w) == Clamp((w * Len(Detents) + 50) \div 100, 1, Len(Detents))

FanPercent(i) == (i * 100 + Len(Detents) \div 2) \div Len(Detents)

FanOf(w) == IF w = AUTO THEN "auto" ELSE Detents[FanIndex(w)]

FanReported(m) ==
    IF m \in {"auto", NA} \/ m \notin ToSet(Detents) THEN AUTO
    ELSE FanPercent(CHOOSE i \in DOMAIN Detents : Detents[i] = m)

----------------------------------------------------------------------------
(* Vanes: the options of a select, in order. *)
IsPosition(o) == o \notin {"auto", "swing"}
Positions == SelectSeq(traits.vane, IsPosition)

(* Mutant: one option is taken to be auto. *)
VaneCapsLessAuto == Len(traits.vane) - 1

VaneCaps  == Min({Len(Positions), 15})

(* SL2_VANECAP: the number of positions, a bit for auto, a bit for swing.  *)
VaneByte ==
    VaneCaps + (IF "auto" \in ToSet(traits.vane) THEN 16 ELSE 0)
             + (IF "swing" \in ToSet(traits.vane) THEN 32 ELSE 0)

(* How a dial reads the byte; no option sets SPLIT_TOP, its bit 6. *)
NPos(v)     == v % 16
HasAuto(v)  == (v \div 16) % 2 = 1
HasSwing(v) == (v \div 32) % 2 = 1
SplitTop(v) == (v \div 64) % 2 = 1

(* Mutant: the top position is the split whenever there are six or more. *)
SplitPosTop(v) == IF NPos(v) >= 6 THEN NPos(v) ELSE 0

(* sl2_vanecap_split_pos: the position that fans the louvres apart. *)
SplitPos(v) == IF SplitTop(v) THEN NPos(v) ELSE IF NPos(v) >= 6 THEN 6 ELSE 0

VaneCode(o) ==
    IF o = "auto" \/ o \notin ToSet(traits.vane) THEN AUTO
    ELSE IF o = "swing" THEN SWING
    ELSE CHOOSE i \in DOMAIN Positions : Positions[i] = o

(* vane_apply: the option a code selects, if there is one. *)
VaneOptions(c) ==
    {o \in ToSet(traits.vane) :
        \/ c = AUTO /\ o = "auto"
        \/ c = SWING /\ o = "swing"
        \/ c \in 1..15 /\ c \in DOMAIN Positions /\ o = Positions[c]}

----------------------------------------------------------------------------
(* CAPS and STATE. *)
DeclaredModes   == {0} \cup traits.modes
DeclaredPresets == traits.presets \ {0}      \* bit 0 is unused
DeclaresVane(c) ==
    \/ c \in 1..NPos(VaneByte)
    \/ c = AUTO /\ HasAuto(VaneByte)
    \/ c = SWING /\ HasSwing(VaneByte)

Declares(w) ==
    CASE field = "mode"   -> w \in DeclaredModes
      [] field = "preset" -> w \in DeclaredPresets
      [] field = "fan"    -> TRUE
      [] field = "vane"   -> DeclaresVane(w)
      [] field = "set"    -> w \in traits.lo..traits.hi

(* What hvac_get_state reads of the entity ... *)
Measured == [mode |-> entity.mode, preset |-> entity.preset,
             fan |-> FanReported(entity.fan), set |-> entity.set,
             vane |-> VaneCode(entity.vane)]

(* ... and what STATE says: a staged value masks it. *)
Reported == [Measured EXCEPT ![field] = IF staged.overlay THEN staged.value ELSE @]

(* Mutant: a staged value is shown until the entity has it, however long.  *)
LeftForever(s) == [s EXCEPT !.overlay = s.overlay /\ s.value # Measured[field]]

(* apply_overlay_: a value that is confirmed, or too old, masks no more.   *)
Left(s) == [s EXCEPT !.overlay = s.overlay /\ s.fresh /\ s.value # Measured[field]]

(* What the entity takes: ESPHome drops what its traits do not have. *)
Taken(v) ==
    CASE field = "mode"   -> IF v \in traits.modes THEN v ELSE entity.mode
      [] field = "preset" -> IF v \in traits.presets THEN v ELSE entity.preset
      [] field = "fan"    -> FanOf(v)
      [] field = "set"    -> Stored(v)
      [] field = "vane"   -> IF VaneOptions(v) = {} THEN entity.vane
                             ELSE CHOOSE o \in VaneOptions(v) : TRUE

----------------------------------------------------------------------------
(* hvac_apply: a value is staged, and STATE is built for the echo. *)
Stage(f, v, declared, shown) ==
    /\ field = f
    /\ staged' = Left([value |-> v, pending |-> TRUE, overlay |-> TRUE, fresh |-> TRUE])
    /\ last' = [any |-> TRUE, declared |-> declared, shown |-> shown]
    /\ UNCHANGED <<traits, field, entity, latch, flips>>

ModeFromWire(w) == IF w \in 1..6 THEN w ELSE 0
CmdMode(w) == Stage("mode", ModeFromWire(w), Declares(w), NA)

CmdPreset(w) == w \in Preset /\ Stage("preset", w, Declares(w), NA)

(* Mutant: the percent is staged as it came. *)
FanHeldRaw(w) == w

FanHeld(w) == IF w = AUTO THEN AUTO ELSE FanPercent(FanIndex(w))

CmdFan(w) ==
    /\ Detents # <<>>
    /\ w = AUTO => "auto" \in traits.fans
    /\ Stage("fan", FanHeld(w), Declares(w), NA)

CmdSet(w) == Stage("set", SetpointFromWire(w), Declares(w), NA)

(* A dial that shows degrees Fahrenheit, by the table CAPS declares. *)
CmdDegF(f) ==
    LET w == FromF(f, Mitsubishi)
    IN  Stage("set", SetpointFromWire(w), Declares(w), f)

CmdVane(w) == traits.vane # <<>> /\ Stage("vane", w, Declares(w), NA)

(* A command to another field holds the overlays of all of them longer.    *)
CmdOther ==
    /\ staged' = Left([staged EXCEPT !.fresh = TRUE])
    /\ UNCHANGED <<traits, field, entity, last, latch, flips>>

(* apply_pending_, after the quiet time. *)
ApplyPending ==
    /\ staged.pending
    /\ staged' = [staged EXCEPT !.pending = FALSE]
    /\ entity' = [entity EXCEPT ![field] = Taken(staged.value)]
    /\ UNCHANGED <<traits, field, last, latch, flips>>

(* loop reads STATE, at once or when ECHO_HOLD_MS are over, before which   *)
(* the quiet time is.                                                      *)
Loop(over) ==
    /\ over => ~staged.pending
    /\ staged' = Left([staged EXCEPT !.fresh = @ /\ ~over])
    /\ UNCHANGED <<traits, field, entity, last, latch, flips>>

(* hvac_get_state's battery flag, off again only 5 % higher. *)

(* Mutant: no hysteresis. *)
LatchedFlat(b) == b # NA /\ b <= BatteryLow

Latched(b) ==
    /\ b # NA
    /\ b <= BatteryLow \/ (latch /\ b < BatteryLow + 5)

Battery(b) ==
    /\ traits.battery
    /\ latch' = Latched(b)
    /\ flips' = IF b = NA THEN <<>>
                ELSE IF latch' = latch THEN flips
                ELSE Append(IF flips = <<>> THEN <<>> ELSE <<Last(flips)>>, b)
    /\ UNCHANGED <<traits, field, entity, staged, last>>

(* Only the field that is followed matters: the others are as after a boot. *)
Found(f, first, all) == IF field = f THEN {first} \cup all ELSE {first}

Init ==
    /\ traits \in TraitsSet
    /\ field \in Field
    /\ entity \in [mode : Found("mode", 0, traits.modes),
                   preset : Found("preset", 0, traits.presets),
                   fan : Found("fan", NA, traits.fans), set : {traits.lo},
                   vane : Found("vane", NA, ToSet(traits.vane))]
    /\ staged = [value |-> NA, pending |-> FALSE, overlay |-> FALSE, fresh |-> FALSE]
    /\ last = [any |-> FALSE, declared |-> FALSE, shown |-> NA]
    /\ latch = FALSE /\ flips = <<>>

Next ==
    \/ \E w \in WireMode : CmdMode(w)
    \/ \E w \in WirePreset : CmdPreset(w)
    \/ \E w \in WireFan : CmdFan(w)
    \/ \E w \in WireSet : CmdSet(w)
    \/ \E f \in DegF : CmdDegF(f)
    \/ \E w \in WireVane : CmdVane(w)
    \/ CmdOther \/ ApplyPending
    \/ \E over \in BOOLEAN : Loop(over)
    \/ \E b \in Level \cup {NA} : Battery(b)

Spec == Init /\ [][Next]_vars

----------------------------------------------------------------------------
(* Properties. *)

(* Every variable keeps its type. *)
TypeOK ==
    /\ entity.mode \in Mode /\ entity.preset \in Preset /\ entity.set \in Int
    /\ field \in Field /\ staged.pending \in BOOLEAN /\ staged.overlay \in BOOLEAN
    /\ entity.fan \in traits.fans \cup {NA}
    /\ entity.vane \in ToSet(traits.vane) \cup {NA}
    /\ latch \in BOOLEAN /\ ToSet(flips) \subseteq Level

(* A configuration that suits its entity, as README.md tells: the setpoints*)
(* it stages stay on the grid the entity keeps them on.  cn105 wants the   *)
(* table, or linear degrees F when those are what it keeps; then only a    *)
(* dial in degrees F sends what is on the grid.                            *)
Suits ==
    CASE traits.rounds = "tenth"      -> TRUE
      [] traits.rounds = "half"       -> \/ traits.ftab = "mitsubishi"
                                         \/ traits.ftab = "auto" /\ Shaped
      [] traits.rounds = "fahrenheit" -> /\ traits.ftab = "linear"
                                         /\ last.shown # NA /\ last.declared

(* hvac_apply stages a value "normalized to what the entity will report    *)
(* back": for every declared value of every entity, also one between two   *)
(* detents or off the setpoint grid, the report after the call is the      *)
(* staged value, so the overlay ends by confirmation and no dial's value   *)
(* jumps.                                                                  *)
DeclaredConfirms ==
    /\ last.any /\ ~staged.pending
    /\ last.declared \/ field \in {"fan", "set"}
    /\ field = "set" => Suits
    => staged.value = Measured[field]

(* A dial in degrees Fahrenheit that chose a value within the entity's     *)
(* range is shown the value it chose, by the table and without it, from    *)
(* the echo on and also when the overlay is over.                          *)
DegreesReturn ==
    last.shown # NA /\ last.declared /\ Suits /\ (Mitsubishi => last.shown \in 61..88)
    => ToF(Reported.set, Mitsubishi) = last.shown

(* Whatever is reported is something CAPS declares: the dial can show it.  *)
(* A fan speed and a setpoint always are.  An undeclared mode, preset or   *)
(* vane position that was commanded is shown meanwhile, until ECHO_HOLD_MS *)
(* after the last command to any field.  Options beyond the fifteenth      *)
(* position of a vane are reported although CAPS has no number for them.   *)
ReportIsDeclared ==
    /\ Reported.fan \in {AUTO} \cup {FanPercent(i) : i \in DOMAIN Detents}
    /\ Reported.set \in traits.lo..traits.hi
    /\ \/ staged.fresh /\ last.any /\ ~last.declared
       \/ /\ Reported.mode \in DeclaredModes
          /\ Reported.preset \in {0} \cup DeclaredPresets
          /\ \/ DeclaresVane(Reported.vane) \/ Len(Positions) > 15
             \/ entity.vane = NA /\ Reported.vane = AUTO

(* A position a dial draws as the split is the select's split option, and  *)
(* that one is drawn so, by the position alone: the comment on vane axes   *)
(* counts on cn105's sixth option, and a wide axis has positions above it. *)
SplitIsSplit ==
    SplitPos(VaneByte) # 0 /\ "split" \in ToSet(traits.vane) =>
        VaneOptions(SplitPos(VaneByte)) = {"split"}

(* A battery that hovers at the threshold does not flap: from one change   *)
(* of the flag to the next the level moved by 5 %.                         *)
NoFlapping ==
    Len(flips) = 2 => flips[2] - flips[1] >= 5 \/ flips[1] - flips[2] >= 5

(* README: "unknown modes/presets are no-ops".                             *)
UnknownModeIsNoOp ==
    \A w \in WireMode \ Mode : CmdMode(w) => UNCHANGED staged
=============================================================================
