----------------------------- MODULE WireFormat -----------------------------
(***************************************************************************)
(* What the receive handler makes of a frame of any version and length     *)
(* (src/src/sl2_link.c: sl2_link_on_recv, epoch_ok, room_epoch_ok,         *)
(* wifi_epoch_ok), for one bonded dial.                                    *)
(*                                                                         *)
(* sl2_decode_pkt fills with zeros what a frame is too short for.          *)
(***************************************************************************)
EXTENDS WireLayout

CONSTANTS
    Frames,     \* the frames that may arrive
    Epoch,      \* values of the 16-bit epoch, 0 included
    MTU         \* SL2_MTU

ConstantsAssumption ==
    /\ Epoch \subseteq Nat /\ 0 \in Epoch
    /\ \A f \in Frames :
          /\ f.type \in DOMAIN Layout /\ f.ver \in Nat
          /\ f.len \in Nat /\ f.echo \in Epoch
          /\ f.type = "dialinfo" => f.says # "nothing"
    /\ MTU \in Nat /\ MTU >= 250

ASSUME FramesAssumption == ConstantsAssumption

MinCompat    == 1   \* SL2_PROTO_MIN_COMPAT
RoomEpochVer == 5   \* SL2_ROOM_EPOCH_MIN_VER

(* Mutant: the floor follows the protocol's version. *)
SensorVerLatest == 5
(* Mutant: the floor is the oldest version there is. *)
SensorVerNone == 1
SensorVer == 3      \* SL2_DIAL_SENSOR_MIN_VER

CatalogVer == 4     \* SL2_ROOM_CATALOG_MIN_VER

VARIABLES
    epoch,      \* this boot's, 0 when none could be drawn
    latched,    \* SL2_BOND_F_EPOCH of the dial's bond
    seen,       \* epoch_seen
    units,      \* history: the unit of the reading taken last
    info,       \* have_info, and what is kept of the dial's model and fw
    said,       \* history: what the latest DIAL_INFO of this boot said
    out         \* what the last step did with which frame

vars == <<epoch, latched, seen, units, info, said, out>>

(* sl2_decode_pkt: the missing high byte reads as zero. *)
Decoded(f) == IF Whole(f, "epoch") THEN f.echo
              ELSE IF Torn(f, "epoch") THEN f.echo % 256 ELSE 0

----------------------------------------------------------------------------
(* The outcome of the guards: the answer, and the marks they leave. *)

Guard == [ok : BOOLEAN, latched : BOOLEAN, seen : BOOLEAN]

(* epoch_ok; the save of the latch may fail. *)
EpochOk(e, saved) ==
    IF epoch = 0 THEN [ok |-> TRUE, latched |-> latched, seen |-> seen]
    ELSE IF e = epoch
    THEN IF latched THEN [ok |-> TRUE, latched |-> TRUE, seen |-> seen]
         ELSE [ok |-> saved, latched |-> saved, seen |-> TRUE]
    ELSE [ok |-> ~latched /\ ~seen, latched |-> latched, seen |-> seen]

Refuse == [ok |-> FALSE, latched |-> latched, seen |-> seen]
Accept == [ok |-> TRUE, latched |-> latched, seen |-> seen]

(* Mutant: the length of the echo is not looked at. *)
RoomEpochOkTorn(ver, whole, e, saved) ==
    IF epoch = 0 \/ (ver >= RoomEpochVer /\ (e = 0 \/ e # epoch)) THEN Refuse
    ELSE EpochOk(IF ver >= RoomEpochVer THEN e ELSE 0, saved)

(* room_epoch_ok *)
RoomEpochOk(ver, whole, e, saved) ==
    IF epoch = 0 \/ (ver >= RoomEpochVer /\ (~whole \/ e = 0 \/ e # epoch)) THEN Refuse
    ELSE EpochOk(IF ver >= RoomEpochVer /\ whole THEN e ELSE 0, saved)

(* wifi_epoch_ok *)
WifiEpochOk(e, saved) == IF e # epoch THEN Refuse ELSE EpochOk(e, saved)

(* Mutant: the decoded want_src decides, whatever the length. *)
IsEditByValue(f) == IF Whole(f, "want_src") THEN f.edit ELSE TRUE

(* The edit of a reading: a frame that stops before want_src has none. *)
IsEdit(f) == Whole(f, "want_src") /\ f.edit

----------------------------------------------------------------------------
(* sl2_link_on_recv: which frames pass the checks of length and version    *)
(* (Admits), with which guard, and what is read of them.                   *)

Admits(f) ==
    \/ f.type = "probe"
    \/ /\ f.ver >= MinCompat
       /\ f.type = "sensor" => f.ver >= SensorVer
       /\ f.type \in {"catalog", "set"} => f.ver >= CatalogVer
       /\ \/ f.len >= MinLen[f.type] /\ f.type # "setup"
          \/ f.len = MinLen.setup /\ f.type = "setup"
          \/ f.len >= Size(SessionL) /\ f.type = "setup" /\ f.session
       /\ f.type = "cancel" => f.session

GuardOf(f, saved) ==
    CASE f.type \in {"sensor", "set"} ->
             RoomEpochOk(f.ver, Whole(f, "epoch"), Decoded(f), saved)
      [] f.type = "cmd" \/ (f.type = "setup" /\ f.len = MinLen.setup) ->
             EpochOk(Decoded(f), saved)
      [] f.type = "cancel" \/ (f.type = "setup" /\ f.len # MinLen.setup) ->
             WifiEpochOk(Decoded(f), saved)
      [] OTHER -> Accept

(* The fields taken from a frame that is acted on.  A want_src or a session*)
(* the sender left out is not; a text it left out is, as zeros.            *)
Texts == {"model", "fw"}
Reads(f) ==
    CASE f.type = "probe"  -> IF f.len >= MinLen.probe THEN Required.probe ELSE {}
      [] f.type = "sensor" -> Required.sensor
                                \cup (IF IsEdit(f) THEN {"want_src"} ELSE {})
      [] f.type = "setup"  -> IF f.len = MinLen.setup THEN {} ELSE {"session"}
      [] f.type = "dialinfo" -> Required.dialinfo \cup Texts
      [] OTHER -> Required[f.type]

NoText == [of |-> "nothing", cut |-> FALSE]

(* Mutant: a text that is not in the frame is left as it was. *)
TextOrOld(f, n) ==
    LET field == Extent.dialinfo[n]
    IN  IF f.len <= field.start THEN info[n]
        ELSE [of |-> f.says, cut |-> f.len < field.end - 1]

(* The copy of a text: what is missing of the field is zeros, and the last *)
(* byte is made one, so that only the bytes before it can be lost.         *)
Text(f, n) ==
    LET field == Extent.dialinfo[n]
    IN  IF f.len <= field.start THEN NoText
        ELSE [of |-> f.says, cut |-> f.len < field.end - 1]

NoInfo == [have |-> FALSE, model |-> NoText, fw |-> NoText]

Receive(f, saved) ==
    /\ LET g == IF Admits(f) THEN GuardOf(f, saved) ELSE Refuse IN
       /\ latched' = g.latched /\ seen' = g.seen
       /\ units' = IF g.ok /\ f.type = "sensor"
                   THEN IF f.ver < 3 THEN "deci" ELSE "centi" ELSE units
       /\ IF g.ok /\ f.type = "dialinfo"
          THEN /\ info' = [have |-> TRUE, model |-> Text(f, "model"), fw |-> Text(f, "fw")]
               /\ said' = f.says
          ELSE UNCHANGED <<info, said>>
       /\ out' = [step |-> "receive", frame |-> f, acted |-> g.ok,
                  reads |-> IF g.ok THEN Reads(f) ELSE {}, sent |-> 0]
    /\ UNCHANGED epoch

Blank   == [type |-> "probe", ver |-> 0, len |-> 2, echo |-> 0, edit |-> FALSE,
            session |-> FALSE, says |-> "nothing"]
Nothing == [step |-> "idle", frame |-> Blank, acted |-> FALSE, reads |-> {}, sent |-> 0]

(* Mutant: a page holds one entry more. *)
PageMaxEight == 8
PageMax == 7    \* SL2_ROOM_CATALOG_PAGE_MAX

(* The lengths of what the controller sends; n is the number of entries of *)
(* a page of the catalog.                                                  *)
SendLen(n) == [state |-> Size(StateL), pair |-> Size(PairL), caps |-> Size(CapsL),
               catalog |-> Size(CatRespH) + n * Size(EntryL), ack |-> Size(AckL),
               creds |-> Size(CredL), cancelled |-> Size(CancelAckL)]

Send ==
    /\ out.step = "idle"
    /\ \E n \in 0..PageMax : \E t \in DOMAIN SendLen(n) :
          out' = [Nothing EXCEPT !.step = "send", !.sent = SendLen(n)[t]]
    /\ UNCHANGED <<epoch, latched, seen, units, info, said>>

(* sl2_link_start draws the epoch; what it loads keeps the latch, and the  *)
(* rest of the dial's slot starts as zeros.                                *)
Reboot ==
    /\ epoch' \in Epoch
    /\ seen' = FALSE
    /\ info' = NoInfo /\ said' = "nothing"
    /\ out' = Nothing
    /\ UNCHANGED <<latched, units>>

(* The handler, or the loop, returns. *)
Return ==
    /\ out.step # "idle"
    /\ out' = Nothing
    /\ UNCHANGED <<epoch, latched, seen, units, info, said>>

Init ==
    /\ epoch \in Epoch /\ latched = FALSE /\ seen = FALSE /\ units = "none"
    /\ info = NoInfo /\ said = "nothing"
    /\ out = Nothing

Next == \/ out.step = "idle" /\ \E f \in Frames, saved \in BOOLEAN : Receive(f, saved)
        \/ Send
        \/ Reboot
        \/ Return

Spec == Init /\ [][Next]_vars

----------------------------------------------------------------------------
(* Properties; the primed ones are of every step.                          *)

(* Every variable has its type, and a boot without an epoch marks no dial. *)
TypeOK ==
    /\ epoch \in Epoch /\ latched \in BOOLEAN /\ seen \in BOOLEAN
    /\ units \in {"none", "centi", "deci"} /\ info.have \in BOOLEAN
    /\ out.frame.type \in DOMAIN Layout /\ out.frame.echo \in Epoch
    /\ out.acted \in BOOLEAN /\ out.sent \in Nat
    /\ seen => epoch # 0

(* Whatever the length of a frame, nothing is done on the strength of a    *)
(* field that is not in it whole: zeros put in by the decode are never     *)
(* taken for an edit, a session or a command.  The two texts of a DIAL_INFO*)
(* are excepted, which the packet allows to be absent: what a frame is too *)
(* short for is overwritten with zeros, and only shown (ShownIsLatest).    *)
NothingTorn == \A n \in out'.reads \ Texts : Whole(out'.frame, n)

(* What is shown of a dial is of its latest report and of no earlier one,  *)
(* of whatever length each of them was: never the model of one with the    *)
(* firmware of another.  Only one of the two is ever shown in part.        *)
ShownIsLatest ==
    /\ info.have <=> said # "nothing"
    /\ \A n \in Texts : info[n] # NoText => info[n].of = said
    /\ info.fw # NoText => info.model # NoText /\ ~info.model.cut

(* A report in its full length is shown whole.                             *)
ReportIsShown ==
    out'.acted /\ out'.frame.type = "dialinfo" /\ out'.frame.len >= Size(DialL)
    => /\ info'.have
       /\ \A n \in Texts : info'[n] = [of |-> out'.frame.says, cut |-> FALSE]

(* A room frame of the version that carries the epoch changes nothing      *)
(* unless the frame had all of this boot's epoch, also when the part that  *)
(* did arrive reads like it.                                               *)
EchoWasWhole ==
    out'.acted /\ out'.frame.type \in {"sensor", "set"} /\ out'.frame.ver >= 5
    => Whole(out'.frame, "epoch") /\ out'.frame.echo = epoch /\ epoch # 0

(* No reading of the time when temperatures were tenths is taken for       *)
(* hundredths: both have the same size on the wire.                        *)
OneUnit == units # "deci"

(* A dial of every released version keeps working with this controller: as *)
(* long as the dial has not been seen to echo an epoch, its frames in the  *)
(* layout of its own version are acted on.                                 *)
Released(f) ==
    \/ f.type = "sensor" /\ f.ver \in 3..4 /\ f.len = 9
    \/ f.type = "set" /\ f.ver = 4 /\ f.len = 16
    \/ f.type = "catalog" /\ f.ver >= 4 /\ f.len = 8
    \/ f.type = "cmd" /\ f.ver \in 1..5 /\ f.len = 19 /\ f.echo = 0
    \/ f.type = "setup" /\ f.ver \in 1..5 /\ f.len = 4 /\ f.echo = 0
OldDialsWork ==
    out'.step = "receive" /\ epoch # 0 /\ ~latched /\ ~seen /\ Released(out'.frame)
    => out'.acted

(* Whatever the controller sends fits the radio's payload, a full page of  *)
(* the catalog included.                                                   *)
FitsRadio == out.sent <= MTU
=============================================================================
