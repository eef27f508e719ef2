----------------------------- MODULE HvacReport -----------------------------
(***************************************************************************)
(* STATE and CAPS as a whole (serin_link.cpp: hvac_get_state with          *)
(* apply_overlay_, hvac_get_caps, and what hvac_apply stages of a CMD,     *)
(* with sl2_hvac_link_infer): what a node that is bound to a climate       *)
(* entity, or to none, says of itself, when the entity has not been heard  *)
(* of yet, when it does not measure everything, and when a dial commands   *)
(* what it does not have.  The codes of fan speeds, presets and vanes are  *)
(* HvacMapping's, gates and battery flag are Gates's and HvacMapping's; how*)
(* calls reach the entity is CmdOverlay's, here it publishes as it likes.  *)
(***************************************************************************)
EXTENDS Integers, Functions

CONSTANTS
    Nodes,     \* configurations, see Node
    Temp,      \* temperatures an entity publishes, in hundredths of a degree
    Hum,       \* humidities, in tenths of a percent
    Commanded, \* the nodes a dial sends commands to
    WireMode,  \* modes of commands
    WireTemp,  \* temperatures of commands, in tenths
    WireHum,   \* humidities of commands
    NaN

Mode   == {"off", "heat", "cool", "heat_cool", "auto", "dry", "fan_only"}
Action == {"cooling", "heating", "drying", "fan", "idle", "off", "defrosting"}

(* "link" is how the node learns of the pump's serial link; lo, hi and step *)
(* are the entity's range in hundredths of a degree.                        *)
Node == [entity : BOOLEAN, link : {"none", "lambda", "sensor"},
         traits : SUBSET {"room", "action", "band", "hum", "humset"},
         modes : SUBSET Mode, lo : Int, hi : Int, step : Nat]

ConstantsAssumption ==
    /\ \A n \in Nodes : n \in Node /\ n.lo < n.hi /\ n.step > 0
    /\ \A h \in Hum : h \in 0..1000
    /\ NaN \notin Temp \cup Hum /\ Commanded \subseteq Nodes
    \* on the half degrees: what is off them HvacMapping rounds
    /\ WireMode \subseteq 0..255 /\ WireHum \subseteq 0..255
    /\ \A t \in WireTemp : t \in 0..1000 /\ t % 5 = 0

VARIABLES
    node,
    dev,       \* what the entity, the link source and the network are at
    held,      \* the values of hold_ whose overlay_mask_ bit is set
    tick,      \* half minutes of the canned device
    heard      \* history: the last room temperature the entity published

vars == <<node, dev, held, tick, heard>>

----------------------------------------------------------------------------
(* Numbers of the wire. *)
DcNA  == 32767      \* SL2_DC_NA
HumNA == 255        \* SL2_HUM_NA

(* sl2_c_to_dc: hundredths to tenths, halves away from zero. *)
Deci(t) == IF t >= 0 THEN (t + 5) \div 10 ELSE -((5 - t) \div 10)

DeciOr(t, fallback) == IF t = NaN THEN fallback ELSE Deci(t)
Percent(h) == IF h = NaN THEN HumNA ELSE h \div 10

ModeToSl2(m) ==
    CASE m = "heat" -> 1 [] m = "cool" -> 2 [] m = "heat_cool" -> 3
      [] m = "auto" -> 4 [] m = "dry" -> 5 [] m = "fan_only" -> 6 [] OTHER -> 0

ActionToSl2(a) ==
    CASE a \in {"idle", "off"} -> 1 [] a = "heating" -> 2 [] a = "cooling" -> 3
      [] a = "drying" -> 4 [] a = "fan" -> 5 [] OTHER -> 0

----------------------------------------------------------------------------
(* STATE. *)
Has(trait) == trait \in node.traits

(* Mutant: the platform's room temperature is not looked at. *)
InferLinkAlways(source, health, reports, room) == IF source THEN health ELSE TRUE

InferLink(source, health, reports, room) ==
    IF source THEN health ELSE ~(reports /\ room = NaN)

(* The flags of STATE that do not come from Gates or the battery. *)
Flags(up) ==
    {"WIFI_PROVISIONED"} \cup (IF up THEN {"HVAC_LINK"} ELSE {})
    \cup (IF dev.wifi THEN {"WIFI"} ELSE {}) \cup (IF dev.useF THEN {"USE_F"} ELSE {})

(* Mutant: humidity is reported by every entity. *)
SetHumidityOfAll == Percent(dev.humset)

SetHumidity == IF Has("humset") THEN Percent(dev.humset) ELSE HumNA

BandEnd(t) == IF Has("band") THEN DeciOr(t, DcNA) ELSE DcNA

EntityState ==
    LET low == BandEnd(dev.low)
    IN  [flags  |-> Flags(InferLink(node.link # "none", dev.health, Has("room"),
                                    dev.room)),
         mode   |-> ModeToSl2(dev.mode),
         action |-> IF Has("action") THEN ActionToSl2(dev.action) ELSE 0,
         room   |-> DeciOr(dev.room, 0),
         low    |-> low,
         high   |-> BandEnd(dev.high),
         \* mirrors the low end, for dials without bands
         set    |-> IF ~Has("band") THEN DeciOr(dev.set, 0)
                    ELSE IF low # DcNA THEN low ELSE 0,
         hum    |-> IF Has("hum") THEN Percent(dev.hum) ELSE HumNA,
         humset |-> SetHumidity]

(* Without an entity: a device that heats, for bringing up the radio. *)
CannedState ==
    [flags |-> Flags(TRUE), mode |-> 1, action |-> 2, room |-> 208 + (tick % 5),
     low |-> DcNA, high |-> DcNA, set |-> 220, hum |-> HumNA, humset |-> HumNA]

(* What of hold_ masks the entity's own: either end of a band, or both.    *)
Masks(f) == f \in DOMAIN held
Or(f, v) == IF Masks(f) THEN held[f] ELSE v
EndOr(end, v) == IF Masks("band") /\ held.band[end] # DcNA THEN held.band[end] ELSE v

(* Mutant: the single setpoint is not looked at again. *)
MirrorLate(low, set) == set

(* The single setpoint mirrors the low end that is shown. *)
Mirror(low, set) ==
    IF Masks("band") /\ Has("band") THEN IF low # DcNA THEN low ELSE 0 ELSE set

(* apply_overlay_ *)
Overlaid(e) ==
    LET low == EndOr("low", e.low)
    IN  [e EXCEPT !.mode = Or("mode", e.mode), !.humset = Or("hum", e.humset),
                  !.low = low, !.high = EndOr("high", e.high),
                  !.set = Mirror(low, Or("set", e.set))]

State == IF node.entity THEN Overlaid(EntityState) ELSE CannedState

----------------------------------------------------------------------------
(* CAPS. *)
StepOf(step) == LET dc == Deci(step) IN IF dc < 5 THEN 5 ELSE dc

EntityCaps ==
    [modes |-> {0} \cup {ModeToSl2(m) : m \in node.modes},
     min   |-> Deci(node.lo), max |-> Deci(node.hi), step |-> StepOf(node.step),
     gap   |-> IF Has("band") THEN 5 ELSE 0,
     flags |-> IF Has("humset") THEN {"HUM_CTRL"} ELSE {},
     humstep |-> IF Has("humset") THEN 1 ELSE 0]

CannedCaps ==
    [modes |-> {0, 1, 2, 4, 5, 6}, min |-> 160, max |-> 305, step |-> 5,
     gap |-> 0, flags |-> {}, humstep |-> 0]

Caps == IF node.entity THEN EntityCaps ELSE CannedCaps

----------------------------------------------------------------------------
(* Commands. *)

Clamp(v, lo, hi) == IF v < lo THEN lo ELSE IF v > hi THEN hi ELSE v

(* Mutant: a setpoint is held as it came. *)
SetpointRaw(t) == t

(* setpoint_from_wire_ *)
Setpoint(t) == Deci(Clamp(10 * t, node.lo, node.hi))
EndFromWire(t) == IF t = DcNA THEN DcNA ELSE Setpoint(t)

(* What hvac_apply stages of a command's fields, whatever CAPS declares.   *)
Bit == {"mode", "set", "band", "hum"}
Stageable(f) ==
    CASE f = "mode" -> {IF w \in 1..6 THEN w ELSE 0 : w \in WireMode}
      [] f = "set"  -> {Setpoint(t) : t \in WireTemp}
      [] f = "band" -> [low : {EndFromWire(t) : t \in WireTemp \cup {DcNA}},
                        high : {EndFromWire(t) : t \in WireTemp \cup {DcNA}}]
      [] f = "hum"  -> WireHum \cap 0..100

(* apply_overlay_ unmasks what the entity reports itself. *)
Confirmed(f, v) ==
    LET e == EntityState
    IN  CASE f = "mode" -> e.mode = v
          [] f = "set"  -> e.set = v
          [] f = "band" -> v.low \in {DcNA, e.low} /\ v.high \in {DcNA, e.high}
          [] f = "hum"  -> e.humset = v

Left(h) == Restrict(h, {f \in DOMAIN h : ~Confirmed(f, h[f])})

(* A command with one bit; one with several is several at once. *)
Cmd(f) ==
    /\ node.entity /\ node \in Commanded
    /\ \E v \in Stageable(f) :
          held' = Left([g \in DOMAIN held \cup {f} |-> IF g = f THEN v ELSE held[g]])
    /\ UNCHANGED <<node, dev, tick, heard>>

(* loop reads STATE; ten seconds after the last command nothing masks.     *)
Loop(over) ==
    /\ held' = IF over THEN Left(Restrict(held, {})) ELSE Left(held)
    /\ UNCHANGED <<node, dev, tick, heard>>

----------------------------------------------------------------------------
(* The entity publishes; its setpoints are within its range. *)
InRange == {t \in Temp : t >= node.lo /\ t <= node.hi}

Published(field) ==
    CASE field = "mode"   -> node.modes
      [] field = "action" -> IF Has("action") THEN Action ELSE {}
      [] field = "room"   -> IF Has("room") THEN Temp \cup {NaN} ELSE {}
      [] field = "set"    -> IF Has("band") THEN {} ELSE InRange
      [] field \in {"low", "high"} -> IF Has("band") THEN InRange ELSE {}
      [] field = "hum"    -> IF Has("hum") THEN Hum \cup {NaN} ELSE {}
      \* a platform may keep a humidity it does not offer to set
      [] field = "humset" -> Hum
      [] field = "health" -> IF node.link = "none" THEN {} ELSE BOOLEAN
      [] field \in {"wifi", "useF"} -> BOOLEAN

Publish(field) ==
    /\ node.entity
    /\ \E v \in Published(field) :
         /\ dev' = [dev EXCEPT ![field] = v]
         /\ heard' = IF field = "room" /\ v # NaN THEN v ELSE heard
    /\ UNCHANGED <<node, held, tick>>

HalfMinute ==
    /\ ~node.entity
    /\ tick' = (tick + 1) % 10
    /\ UNCHANGED <<node, dev, held, heard>>

Init ==
    /\ node \in Nodes
    /\ dev = [mode |-> "off", action |-> "off", room |-> NaN, set |-> NaN,
              low |-> NaN, high |-> NaN, hum |-> NaN, humset |-> NaN,
              health |-> FALSE, wifi |-> FALSE, useF |-> FALSE]
    /\ held = <<>> /\ tick = 0 /\ heard = NaN

Next ==
    \/ \E field \in DOMAIN dev : Publish(field)
    \/ \E f \in Bit : Cmd(f)
    \/ \E over \in BOOLEAN : Loop(over)
    \/ HalfMinute

Spec == Init /\ [][Next]_vars

----------------------------------------------------------------------------
(* Properties. *)

(* Every variable keeps its type, and STATE fits its 16-bit and 8-bit      *)
(* fields.                                                                 *)
TypeOK ==
    /\ node \in Nodes /\ dev.mode \in node.modes \cup {"off"}
    /\ dev.action \in Action /\ tick \in 0..9 /\ heard \in Temp \cup {NaN}
    /\ State.room \in -32768..32767 /\ State.hum \in 0..100 \cup {HumNA}
    /\ DOMAIN held \subseteq Bit /\ State.humset \in 0..100 \cup {HumNA}

(* What STATE reports is what CAPS told the dial to expect: setpoints and  *)
(* ends of a band lie in the declared range once the entity has published  *)
(* them or a dial has commanded them, the mode is one a dial can show, a   *)
(* band comes only from a node that declared a gap and a humidity to set   *)
(* only with the control -- but for what a dial commanded all the same,    *)
(* which hvac_apply stages without asking what is declared: it is shown as *)
(* long as the overlay lasts.  The entity's range, its setpoints and the   *)
(* gap are rounded or made up in two functions that never meet, the range  *)
(* of a command in a third, and all again for the canned device.           *)
StateFitsCaps ==
    LET st == State
        caps == Caps
    IN  /\ st.set \in {0} \cup caps.min..caps.max
        /\ {st.low, st.high} \subseteq {DcNA} \cup caps.min..caps.max
        /\ Masks("mode") \/ st.mode \in caps.modes
        /\ Masks("band") \/ caps.gap > 0 \/ {st.low, st.high} = {DcNA}
        /\ \/ Masks("hum") \/ st.humset = HumNA
           \/ "HUM_CTRL" \in caps.flags /\ caps.humstep > 0

(* A dial that knows no bands shows, for a node with one, the low end that *)
(* other dials show, also while a commanded band masks the entity's, and   *)
(* when only its high end was commanded; unless the dial's own setpoint was*)
(* commanded last.                                                         *)
MirrorIsTheLowEnd ==
    node.entity /\ Has("band") /\ (Masks("set") => Masks("band")) =>
        State.set = (IF State.low = DcNA THEN 0 ELSE State.low)

(* README: the heuristic "reports link-down while an entity that claims a  *)
(* room temperature has none".  So the link of such an entity is up only   *)
(* with a room temperature it published last: no dial shows the 0 degrees  *)
(* that stand for a reading nobody made as that of a connected pump.       *)
UpIsHeard ==
    node.entity /\ node.link = "none" /\ Has("room")
        /\ "HVAC_LINK" \in State.flags =>
      heard # NaN /\ State.room = Deci(heard)
=============================================================================
