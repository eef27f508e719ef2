------------------------------- MODULE Gates -------------------------------
(***************************************************************************)
(* The screen: and night: switches (serin_link.h: ScreenSwitch,            *)
(* NightSwitch; serin_link.cpp: hvac_get_state): Home Assistant gates the  *)
(* displays of the Links through STATE, and the gate must outlive a        *)
(* restart of the controller.  ESPHome's part is external: components are  *)
(* set up by priority, and a preference is cached when saved and written   *)
(* to flash later, or before an orderly restart.                           *)
(***************************************************************************)
EXTENDS Integers

CONSTANTS
    NoMode,     \* the switch is not in the configuration
    MaxBoots    \* bound: starts of the controller

Gate == {"screen", "night"}

(* ESPHome's restore modes, less those that invert. *)
Modes == {"RESTORE_DEFAULT_ON", "RESTORE_DEFAULT_OFF", "ALWAYS_ON", "ALWAYS_OFF",
          "RESTORE_DISABLED"}

ConstantsAssumption == NoMode \notin Modes /\ MaxBoots \in Nat \ {0}

VARIABLES
    unset,      \* the gates whose configuration gives no restore_mode
    mode,       \* of each gate
    up,         \* the components that are set up
    gate,       \* Switch::state
    seen,       \* the gates with a published state: publish_state's filter
    cached,     \* the preferences as saved in this boot, or "none"
    flash,      \* the preferences in flash, or "none"
    sent,       \* the flags of the last STATE of this boot, or "none"
    mayBe,      \* history: what was published since flash was written
    told,       \* history: what Home Assistant asked for since the first boot
    boots

vars == <<unset, mode, up, gate, seen, cached, flash, sent, mayBe, told, boots>>

Declared == {g \in Gate : mode[g] # NoMode}
Persistent(g) == mode[g] \in {"RESTORE_DEFAULT_ON", "RESTORE_DEFAULT_OFF"}
ByMode(m) == IF m \in {"RESTORE_DEFAULT_ON", "ALWAYS_ON"} THEN "on" ELSE "off"

(* Mutant: both gates start open. *)
DefaultModeOn == [g \in Gate |-> "RESTORE_DEFAULT_ON"]

(* What a configuration that says nothing else gets. *)
DefaultMode == [screen |-> "RESTORE_DEFAULT_ON", night |-> "RESTORE_DEFAULT_OFF"]

Component == Declared \cup {"link"}

(* Mutant: the switches have the priority of the component. *)
PriorityEqual(c) == 0

(* DATA and LATE, only their order counts. *)
Priority(c) == IF c \in Gate THEN 1 ELSE 0

(* get_initial_state_with_restore_mode *)
Initial(g) == IF Persistent(g) /\ flash[g] # "none" THEN flash[g] ELSE ByMode(mode[g])

(* write_state: publish_state, which saves what changes. *)
Published(g, v) ==
    /\ gate' = [gate EXCEPT ![g] = v]
    /\ seen' = seen \cup {g}
    /\ cached' = IF Persistent(g) /\ (g \notin seen \/ gate[g] # v)
                 THEN [cached EXCEPT ![g] = v] ELSE cached

(* setup of a switch *)
SetupSwitch(g) ==
    IF mode[g] = "RESTORE_DISABLED" THEN UNCHANGED <<gate, seen, cached>>
    ELSE Published(g, Initial(g))

Setup(c) ==
    /\ c \in Component \ up
    /\ \A d \in Component \ up : Priority(d) <= Priority(c)
    /\ up' = up \cup {c}
    /\ IF c \in Gate THEN SetupSwitch(c) ELSE UNCHANGED <<gate, seen, cached>>
    /\ UNCHANGED <<unset, mode, flash, sent, mayBe, told, boots>>

(* Home Assistant sets a gate. *)
Toggle(g, v) ==
    /\ g \in Declared \cap up
    /\ Published(g, v)
    /\ mayBe' = [mayBe EXCEPT ![g] = @ \cup {v}]
    /\ told' = [told EXCEPT ![g] = @ \cup {v}]
    /\ UNCHANGED <<unset, mode, up, flash, sent, boots>>

Flushed == [g \in Gate |-> IF cached[g] # "none" THEN cached[g] ELSE flash[g]]

(* ESPHome writes the preferences. *)
Flush ==
    /\ \E g \in Gate : cached[g] # "none"
    /\ flash' = Flushed /\ cached' = [g \in Gate |-> "none"]
    /\ mayBe' = [g \in Gate |-> IF Persistent(g) /\ g \in up THEN {gate[g]} ELSE mayBe[g]]
    /\ UNCHANGED <<unset, mode, up, gate, seen, sent, told, boots>>

(* The gates in STATE.flags2. *)
Flags ==
    (IF "screen" \in Declared THEN {"SCREEN_CTL"} ELSE {})
    \cup (IF "screen" \in Declared /\ gate["screen"] = "off" THEN {"SCREEN_OFF"} ELSE {})
    \cup (IF "night" \in Declared THEN {"NIGHT_CTL"} ELSE {})
    \cup (IF "night" \in Declared /\ gate["night"] = "on" THEN {"NIGHT"} ELSE {})

SendState ==
    /\ "link" \in up /\ sent' = Flags
    /\ UNCHANGED <<unset, mode, up, gate, seen, cached, flash, mayBe, told, boots>>

(* The switches are constructed with state false. *)
Start ==
    /\ boots < MaxBoots /\ boots' = boots + 1
    /\ up' = {} /\ sent' = {"none"} /\ seen' = {}
    /\ gate' = [g \in Gate |-> "off"] /\ cached' = [g \in Gate |-> "none"]
    /\ UNCHANGED <<unset, mode, told>>

(* An orderly restart writes the preferences first. *)
Reboot ==
    /\ Start /\ flash' = Flushed
    /\ mayBe' = [g \in Gate |-> IF Persistent(g) /\ g \in up THEN {gate[g]} ELSE mayBe[g]]

PowerLoss == Start /\ UNCHANGED <<flash, mayBe>>

Init ==
    /\ unset \in SUBSET Gate
    /\ mode \in {f \in [Gate -> Modes \cup {NoMode}] :
                    \A g \in unset : f[g] = DefaultMode[g]}
    /\ up = {} /\ sent = {"none"} /\ seen = {} /\ boots = 1
    /\ gate = [g \in Gate |-> "off"]
    /\ cached = [g \in Gate |-> "none"] /\ flash = [g \in Gate |-> "none"]
    /\ mayBe = [g \in Gate |-> {ByMode(mode[g])}]
    /\ told = [g \in Gate |-> {}]

Next ==
    \/ \E c \in Gate \cup {"link"} : Setup(c)
    \/ \E g \in Gate, v \in {"on", "off"} : Toggle(g, v)
    \/ Flush \/ SendState \/ Reboot \/ PowerLoss

Spec == Init /\ [][Next]_vars

----------------------------------------------------------------------------
(* Types. *)
TypeOK ==
    /\ unset \subseteq Declared
    /\ mode \in [Gate -> Modes \cup {NoMode}] /\ up \subseteq Component
    /\ gate \in [Gate -> {"on", "off"}] /\ seen \subseteq Declared \cap up
    /\ cached \in [Gate -> {"on", "off", "none"}] /\ flash \in [Gate -> {"on", "off", "none"}]
    /\ boots \in 1..MaxBoots

(* What a Link hears of a gate. *)
Heard(flags, g) ==
    IF g = "screen" THEN IF "SCREEN_OFF" \in flags THEN "off" ELSE "on"
    ELSE IF "NIGHT" \in flags THEN "on" ELSE "off"

(* From the first STATE on, a gate that is restored is as it was left: as  *)
(* published last before an orderly restart, or at or after the last write *)
(* of flash before a loss of power (serin_link.h:483).                     *)
GateOutlivesReboot ==
    sent' \notin {sent, {"none"}} =>
      \A g \in Declared : Persistent(g) => Heard(sent', g) \in mayBe[g]

(* A switch that Home Assistant never touches changes nothing: the Links   *)
(* are neither put to sleep nor dimmed, through any restart               *)
(* (__init__.py:458, :480).                                                *)
UntouchedIsAsBefore ==
    sent # {"none"} =>
        /\ "screen" \in unset /\ "SCREEN_OFF" \in sent => "off" \in told["screen"]
        /\ "night" \in unset /\ "NIGHT" \in sent => "on" \in told["night"]
=============================================================================
