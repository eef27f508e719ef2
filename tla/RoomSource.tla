---------------------------- MODULE RoomSource ----------------------------
(***************************************************************************)
(* The room-temperature source of the ESPHome adapter (serin_link.cpp:     *)
(* setup, room_source_apply_, _project_, _reconcile_, room_source_set,     *)
(* room_source_select_control, room_sensor_feed, ext_state_): who may      *)
(* feed the heat pump, what Home Assistant shows, and what is stored.      *)
(*                                                                         *)
(* A source is named by its id: Internal, Auto (retired), an external      *)
(* sensor, or the bonded Link with that MAC.  A reading is named by the    *)
(* source it comes from.  Preferences are cached by ESPHome and written    *)
(* later and one by one, so a power loss may lose both, or one of the two. *)
(***************************************************************************)
EXTENDS Integers, Sequences, FiniteSets, SequencesExt

CONSTANTS
    Dial,       \* MACs, also the ids of Links
    Ext,        \* ids of external sources
    Internal,   \* SL2_ROOM_SOURCE_INTERNAL_ID, "Heat pump"
    Auto,       \* SL2_ROOM_SOURCE_LINK_AUTO_ID
    None

ConstantsAssumption ==
    /\ Dial \cap Ext = {} /\ Internal # Auto
    /\ {Internal, Auto, None} \cap (Dial \cup Ext) = {}
    /\ None \notin {Internal, Auto}
    /\ IsFiniteSet(Dial) /\ IsFiniteSet(Ext)

VARIABLES
    bonds,      \* bond slots as stored
    slots,      \* bond slots in RAM
    started,
    room,       \* the adapter's room-source fields
    saved,      \* the two preferences as the adapter saved them
    stored,     \* ... and as they are in flash; id None: not written yet
    pin,        \* the v3 primary_pref_ as long as setup uses it, or None
    extHas,     \* which external sources have a reading
    api,        \* api_client_connected
    fed,        \* history: the sources whose readings this step fired
    choice,     \* history: the source chosen last, as far as this boot knows
    gone,       \* history: the choice was missing from the catalog since
    loose,      \* history: no reconcile-and-refresh since bonds moved
    torn        \* history: where ("room", "flash") the two preferences are of
                \* two choices, power having failed between their writes

vars == <<bonds, slots, started, room, saved, stored, pin, extHas, api, fed,
          choice, gone, loose, torn>>

(* The sources: of the configuration, in some order. *)
Externals == SetToSeq(Ext)

Source == {Internal, Auto} \cup Ext \cup Dial

Room == [id      : Source,                        \* selected_source_id_
         src     : {"internal", "ble", "link"},   \* selected_src_
         primary : Dial \cup {None},              \* primary_dial_
         ext     : Ext \cup {None},               \* selected_ext_
         dial    : Dial \cup {None},              \* dial_mac_
         has     : BOOLEAN,                       \* dial_temp_ms_ # 0
         stale   : BOOLEAN,                       \* dial_stale_
         shown   : Dial \cup {None},              \* whose temperature HA shows
         sent    : BOOLEAN,                       \* ext_fire_ms_ # 0
         index   : Int]                           \* pub_room_source_idx_

Prefs == [id : Source \cup {None}, src : {"internal", "ble", "link"}]

Catalog(sl) == {Internal} \cup Ext \cup ToSet(sl)

(* The position refresh_room_source_select_ publishes. *)
Index(r, sl) ==
    CASE r.ext # None -> CHOOSE i \in DOMAIN Externals : Externals[i] = r.ext
      [] r.ext = None /\ r.id \in ToSet(sl) ->
           Len(Externals) + CHOOSE i \in DOMAIN sl : sl[i] = r.id
      [] OTHER          -> 0

----------------------------------------------------------------------------
(* Changing the selection. *)

(* Mutant: a pin is set but never cleared. *)
ProjectKeepsPin(r) ==
    [r EXCEPT !.ext = IF r.id \in Ext THEN r.id ELSE None,
              !.primary = IF r.id \in Dial THEN r.id ELSE @,
              !.src = IF r.id \in Dial THEN "link" ELSE "internal"]

(* room_source_project_ *)
Project(r) ==
    [r EXCEPT !.ext = IF r.id \in Ext THEN r.id ELSE None,
              !.primary = IF r.id \in Dial THEN r.id ELSE None,
              !.src = IF r.id \in Dial THEN "link" ELSE "internal"]

(* Mutant: the reading on display outlives the selection. *)
RetractKept(r) == [r EXCEPT !.has = FALSE, !.stale = FALSE]

(* reset_dial_reading_ *)
Retract(r) ==
    [r EXCEPT !.shown = IF r.has /\ ~r.stale THEN None ELSE @,
              !.dial = None, !.has = FALSE, !.stale = FALSE]

(* Mutant: the heartbeat's stamp survives a change. *)
ForgottenKept(r) == Retract(r)

Forgotten(r) == [Retract(r) EXCEPT !.sent = FALSE]

Changed(r, new) == new # r.id \/ r.src = "ble"

Refreshed(r, sl) == [r EXCEPT !.index = Index(r, sl)]

(* room_src_status_ is OK: an external reading is as good as the link it   *)
(* arrives over, a Link's until it is stale, BLE's never.                  *)
Healthy(r) ==
    CASE r.ext # None                   -> extHas[r.ext] /\ api
      [] r.ext = None /\ r.src = "link" -> /\ r.primary # None /\ r.dial = r.primary
                                           /\ r.has /\ ~r.stale
      [] OTHER                          -> r.src = "internal"

(* room_source_changed_.  A Link waits for its first fresh frame. *)
Announced(r) ==
    CASE r.ext # None                      -> IF Healthy(r) THEN {r.ext} ELSE {}
      [] r.ext = None /\ r.primary # None  -> IF Healthy(r) THEN {r.primary} ELSE {}
      [] OTHER                             -> {Internal}

(* room_source_apply_ *)
Applied(r, new, fire, sl) ==
    LET base == IF Changed(r, new) THEN Forgotten(r) ELSE r
        next == Refreshed(Project([base EXCEPT !.id = new]), sl)
        out  == IF Changed(r, new) /\ started /\ fire THEN Announced(next) ELSE {}
    IN  [room |-> [next EXCEPT !.sent = @ \/ (out \cap Ext # {})], fed |-> out]

Prefers(r) == [id |-> r.id, src |-> r.src]

(* A user's choice takes effect and is saved. *)
Apply(new, sl) ==
    LET res == Applied(room, new, TRUE, sl)
    IN  /\ room' = res.room /\ fed' = res.fed
        /\ saved' = Prefers(res.room)
        /\ choice' = new /\ gone' = FALSE /\ torn' = torn \ {"room"}

(* Mutant: only the retired id is looked after. *)
ReconciledLazy(id, sl) ==
    IF id = Auto THEN IF Len(sl) = 1 THEN sl[1] ELSE Internal ELSE id

(* Mutant: external sources are not thought of. *)
ReconciledLinks(id, sl) ==
    CASE id = Auto -> IF Len(sl) = 1 THEN sl[1] ELSE Internal
      [] id # Auto /\ id \notin {Internal} \cup ToSet(sl) -> Internal
      [] OTHER -> id

(* What room_source_reconcile_ makes of the selection. *)
Reconciled(id, sl) ==
    CASE id = Auto -> IF Len(sl) = 1 THEN sl[1] ELSE Internal
      [] id # Auto /\ id \notin Catalog(sl) -> Internal
      [] OTHER -> id

(* Mutant: a selection that vanished is dropped without telling the pump.  *)
ReconcileSilent(fire, refresh, sl) ==
    LET new == Reconciled(room.id, sl)
        res == Applied(room, new, FALSE, sl)
        r   == IF new # room.id THEN res.room
               ELSE [Project(room) EXCEPT !.src = IF room.src = "ble" THEN "ble" ELSE @]
    IN  /\ room' = IF refresh THEN Refreshed(r, sl) ELSE r
        /\ fed' = {}
        /\ saved' = IF new # room.id THEN Prefers(r) ELSE saved
        /\ torn' = IF new # room.id THEN torn \ {"room"} ELSE torn

Reconcile(fire, refresh, sl) ==
    LET new == Reconciled(room.id, sl)
        res == Applied(room, new, fire, sl)
        r   == IF new # room.id THEN res.room
               ELSE [Project(room) EXCEPT !.src = IF room.src = "ble" THEN "ble" ELSE @]
    IN  /\ room' = IF refresh THEN Refreshed(r, sl) ELSE r
        /\ fed' = IF new # room.id THEN res.fed ELSE {}
        /\ saved' = IF new # room.id THEN Prefers(r) ELSE saved
        /\ torn' = IF new # room.id THEN torn \ {"room"} ELSE torn

----------------------------------------------------------------------------
(* A selection from a dial's catalog (room_source_set).  The dial may have *)
(* read the catalog when other dials were bonded; then nothing changes.    *)
CatalogSet(seen, new) ==
    /\ started
    /\ seen = slots                 \* room_catalog_revision_
    /\ new \in Catalog(slots)
    /\ Apply(new, slots)
    /\ UNCHANGED <<bonds, slots, started, stored, pin, extHas, api, loose>>

(* The dropdown of Home Assistant: a position, empty slots do nothing.     *)
DropdownControl(position) ==
    LET all == <<Internal>> \o Externals \o slots
    IN  /\ position + 1 \in DOMAIN all
        /\ Apply(all[position + 1], slots)
        /\ UNCHANGED <<bonds, slots, started, stored, pin, extHas, api, loose>>

(* is_room_src_valid, and a change. *)
Edits(want) == want \in {"internal", "ble", "link"} \ {room.src}

(* room_sensor_feed, first the edit of a pre-catalog dial ... *)
Edited(d, want) ==
    CASE ~Edits(want) -> [room |-> room, fed |-> {}]
      [] Edits(want) /\ want = "ble" ->
           [room |-> Refreshed([Retract(room) EXCEPT !.src = "ble", !.id = Internal,
                                  !.primary = None, !.ext = None], slots),
            fed |-> {}]
      [] Edits(want) /\ want = "internal" -> Applied(room, Internal, TRUE, slots)
      [] Edits(want) /\ want = "link"     -> Applied(room, d, TRUE, slots)

(* ... then its reading: not from another Link than the pinned one. *)
Heard(r, d, temp) == temp /\ r.primary \in {None, d}

(* Mutant: whatever is published is fed. *)
FeedsAlways(r, d) == {d}

(* room_src_is_link *)
Feeds(r, d) == IF r.src = "link" THEN {d} ELSE {}

(* publish_dial_ *)
Showing(r, d) == [r EXCEPT !.has = TRUE, !.stale = FALSE, !.shown = d]
Staled(r)     == [r EXCEPT !.stale = TRUE, !.shown = None]

(* It publishes on a change, when due, or to end staleness. *)
SensorFrame(d, want, temp, publish) ==
    /\ started /\ d \in ToSet(slots)
    /\ \E edit \in {Edited(d, want)} :
       LET r    == edit.room
           own  == IF r.dial # d THEN [Retract(r) EXCEPT !.dial = d] ELSE r
           must == ~own.has \/ own.stale
       IN  /\ IF Heard(r, d, temp) /\ (must \/ publish)
              THEN /\ room' = Showing(own, d)
                   /\ fed' = edit.fed \cup Feeds(r, d)
              ELSE /\ room' = IF Heard(r, d, temp) THEN [own EXCEPT !.has = TRUE] ELSE r
                   /\ fed' = edit.fed
           /\ saved' = IF Edits(want) THEN Prefers(r) ELSE saved
           /\ choice' = IF Edits(want) THEN r.id ELSE choice
           /\ gone' = (gone /\ ~Edits(want))
           /\ torn' = IF Edits(want) THEN torn \ {"room"} ELSE torn
    /\ UNCHANGED <<bonds, slots, started, stored, pin, extHas, api, loose>>

(* loop, 1 Hz: the reading on display is too old. *)
GoesStale ==
    /\ started /\ room.has /\ ~room.stale
    /\ room' = Staled(room)
    /\ fed' = {}
    /\ UNCHANGED <<bonds, slots, started, saved, stored, pin, extHas, api, choice,
                   gone, loose, torn>>

----------------------------------------------------------------------------
(* External sources. *)

(* ext_state_ *)
ExtState(e, value) ==
    /\ extHas' = [extHas EXCEPT ![e] = value]
    /\ fed' = IF value /\ room.ext = e THEN {e} ELSE {}
    /\ room' = [room EXCEPT !.sent = @ \/ (value /\ room.ext = e)]
    /\ UNCHANGED <<bonds, slots, started, saved, stored, pin, api, choice, gone, loose,
                   torn>>

(* loop: Home Assistant publishes only changes, so the last one is re-sent. *)
Heartbeat ==
    /\ room.ext # None /\ room.sent /\ extHas[room.ext] /\ api
    /\ fed' = {room.ext}
    /\ UNCHANGED <<bonds, slots, started, room, saved, stored, pin, extHas, api,
                   choice, gone, loose, torn>>

ApiChanges ==
    /\ api' = ~api /\ fed' = {}
    /\ UNCHANGED <<bonds, slots, started, room, saved, stored, pin, extHas,
                   choice, gone, loose, torn>>

----------------------------------------------------------------------------
(* Bonds, time and power. *)

Missing(sl) == gone \/ choice \notin Catalog(sl)

Bond(d) ==
    /\ started /\ d \notin ToSet(slots)
    /\ slots' = Append(slots, d) /\ bonds' = slots' /\ fed' = {}
    /\ UNCHANGED <<started, room, saved, stored, pin, extHas, api, choice, gone, loose,
                   torn>>

(* The table closes the hole that a bond leaves. *)
Without(s, i) == SubSeq(s, 1, i - 1) \o SubSeq(s, i + 1, Len(s))

Removed(d) ==
    /\ \E i \in DOMAIN slots : slots[i] = d /\ slots' = Without(slots, i)
    /\ bonds' = slots'

(* The adapter's forget methods reconcile at once ... *)
Forget(d) ==
    /\ started /\ Removed(d)
    /\ Reconcile(TRUE, TRUE, slots')
    /\ gone' = Missing(slots') /\ loose' = FALSE
    /\ UNCHANGED <<started, stored, pin, extHas, api, choice>>

(* ... a removal through the core is noticed within a second. *)
CoreForget(d) ==
    /\ started /\ Removed(d)
    /\ gone' = Missing(slots') /\ loose' = TRUE /\ fed' = {}
    /\ UNCHANGED <<started, room, saved, stored, pin, extHas, api, choice,
                   torn>>

Second ==
    /\ started /\ Reconcile(TRUE, TRUE, slots)
    /\ loose' = FALSE
    /\ UNCHANGED <<bonds, slots, started, stored, pin, extHas, api, choice, gone>>

(* The v3 pin stays in flash, but setup uses it only while no id is stored. *)
Pinned(prefs) == IF prefs.id = None THEN pin ELSE None

(* The preferences reach the flash. *)
Reached == IF "room" \in torn THEN {"room", "flash"} ELSE {}

Sync ==
    /\ stored' = saved /\ pin' = Pinned(saved) /\ torn' = Reached /\ fed' = {}
    /\ UNCHANGED <<bonds, slots, started, room, saved, extHas, api, choice, gone,
                   loose>>

(* What setup makes of the preferences. *)
Blank == [id |-> Internal, src |-> "internal", primary |-> None, ext |-> None,
          dial |-> None, has |-> FALSE, stale |-> FALSE, shown |-> None,
          sent |-> FALSE, index |-> -1]

Folded(prefs) ==
    CASE prefs.src # "link" -> Internal
      [] prefs.src = "link" /\ pin # None -> pin
      [] OTHER -> Auto

Loaded(prefs) ==
    IF prefs.id # None
    THEN [Project([Blank EXCEPT !.id = prefs.id])
            EXCEPT !.src = IF prefs.src = "ble" THEN "ble" ELSE @]
    ELSE [Blank EXCEPT !.src = prefs.src, !.primary = pin, !.id = Folded(prefs)]

(* ESPHome writes preferences one at a time, in any order. *)
Survivors ==
    {stored, [stored EXCEPT !.id = saved.id], [stored EXCEPT !.src = saved.src]}

PowerLoss ==
    \E prefs \in Survivors :
      /\ stored' = prefs /\ pin' = Pinned(prefs)
      /\ room' = Loaded(prefs)
      /\ saved' = [id |-> Loaded(prefs).id, src |-> prefs.src]
      /\ choice' = Loaded(prefs).id
      /\ slots' = <<>> /\ started' = FALSE
      /\ extHas' = [e \in Ext |-> FALSE] /\ api' = FALSE
      /\ fed' = {} /\ gone' = FALSE /\ loose' = TRUE
      /\ torn' = CASE prefs = stored -> IF "flash" \in torn THEN {"room", "flash"} ELSE {}
                   [] prefs # stored /\ prefs = saved -> Reached
                   [] OTHER -> {"room", "flash"}
      /\ UNCHANGED bonds

(* try_start_, with the bonds or -- when they cannot be read -- without.   *)
Start ==
    /\ ~started /\ started' = TRUE
    /\ slots' \in {bonds, <<>>}
    /\ Reconcile(FALSE, FALSE, slots')
    /\ gone' = Missing(slots')
    /\ UNCHANGED <<bonds, stored, pin, extHas, api, choice, loose>>

Init ==
    /\ \E S \in SUBSET Dial : bonds \in SetToSeqs(S)
    /\ slots = <<>> /\ started = FALSE
    /\ stored \in {p \in Prefs : (p.id # None) =>
                      \/ p.src = "ble" /\ p.id = Internal
                      \/ p.src = (IF p.id \in Dial THEN "link" ELSE "internal")}
    /\ pin \in Dial \cup {None} /\ pin = Pinned(stored)
    /\ room = Loaded(stored)
    /\ saved = [id |-> room.id, src |-> stored.src]
    /\ choice = room.id
    /\ extHas = [e \in Ext |-> FALSE] /\ api = FALSE
    /\ fed = {} /\ gone = FALSE /\ loose = TRUE /\ torn = {}

Next ==
    \/ \E S \in SUBSET Dial : \E seen \in SetToSeqs(S) :
         \E new \in Source : CatalogSet(seen, new)
    \/ \E p \in 0..(Len(Externals) + Len(slots)) : DropdownControl(p)
    \/ \E d \in Dial, want \in {"invalid", "internal", "ble", "link"} \ {room.src} :
         \E temp \in BOOLEAN : \E publish \in {FALSE, temp} :
           SensorFrame(d, want, temp, publish)
    \/ GoesStale
    \/ \E e \in Ext, value \in BOOLEAN : ExtState(e, value)
    \/ Heartbeat \/ ApiChanges
    \/ \E d \in Dial : Bond(d) \/ Forget(d) \/ CoreForget(d)
    \/ Second \/ Sync \/ PowerLoss \/ Start

Spec == Init /\ [][Next]_vars

----------------------------------------------------------------------------
(* Properties; the primed ones are of every step. *)

(* Every variable keeps its type. *)
TypeOK ==
    /\ bonds \in Seq(Dial) /\ slots \in Seq(Dial) /\ started \in BOOLEAN
    /\ room \in Room /\ saved \in Prefs /\ stored \in Prefs
    /\ pin \in Dial \cup {None} /\ extHas \in [Ext -> BOOLEAN] /\ api \in BOOLEAN
    /\ fed \subseteq Source /\ choice \in Source
    /\ gone \in BOOLEAN /\ loose \in BOOLEAN /\ torn \subseteq {"room", "flash"}

(* The heat pump is never driven by a sensor that is not the selected one, *)
(* whichever Links are talking, edits cross, bonds move or Home Assistant  *)
(* changes its mind.  BLE, which nothing can feed, feeds nothing; only an  *)
(* external sensor does that a cut between two writes put beside it.       *)
FeedIsSelected ==
    \A x \in fed' : /\ x = room'.id
                     /\ room'.src = "ble" => x \in Ext /\ "room" \in torn'

(* The temperature that Home Assistant shows as the Link's is the pinned   *)
(* Link's own.                                                             *)
ShownIsPinned ==
    started /\ room.shown # None => room.primary \in {None, room.shown}

(* What else is kept about the choice is a projection of the id, but for   *)
(* BLE, which has no id of its own and goes with Internal's.  With another *)
(* id it is found only after power failed between the two writes of a      *)
(* choice, and only until the next choice: room_source_apply_ says of the  *)
(* projections that they cannot "survive a reboot disagreeing with it".    *)
ProjectionAgrees ==
    started =>
        /\ room.primary = (IF room.id \in Dial THEN room.id ELSE None)
        /\ room.ext = (IF room.id \in Ext THEN room.id ELSE None)
        /\ room.src # "ble" => room.src = (IF room.id \in Dial THEN "link" ELSE "internal")
        /\ room.src = "ble" => room.id = Internal \/ "room" \in torn

(* Once loop has had its second, the dropdown points at the selection and  *)
(* the selection is listed, although forgetting a Link moves the others.   *)
DropdownTracks ==
    ~loose => /\ room.id \in Catalog(slots)
              /\ room.index = Index(room, slots)

(* The selection is the user's: it changes by itself only to Heat pump,    *)
(* and only if the source was missing -- or the retired id was resolved.   *)
SelectionIsTheUsers ==
    room.id # choice => \/ choice = Auto /\ room.id \in Dial \cup {Internal}
                        \/ gone /\ room.id = Internal

(* When the heat pump's own sensor takes over from another source while    *)
(* the adapter runs, the pump is told so and does not stay with the last   *)
(* remote value.  (BLE and a boot do not tell it.)                         *)
PumpIsReleased ==
    started /\ started' /\ room.id # Internal /\ room'.id = Internal =>
      Internal \in fed' \/ room'.src = "ble"

(* The heartbeat repeats only what this selection has sent: an external    *)
(* source that is picked again stays silent until it is known to be good.  *)
HeartbeatRepeats ==
    room'.ext \notin {room.ext, None} /\ room'.sent => room'.ext \in fed'
=============================================================================
