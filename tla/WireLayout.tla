----------------------------- MODULE WireLayout -----------------------------
(***************************************************************************)
(* Packet layouts (include/serin_link/sl2_proto.h).  A layout is a         *)
(* sequence of fields with widths; a field of a frame is whole, torn or    *)
(* absent, as the frame's length has it.  Only the fields the receive      *)
(* handler decides on have values: the epoch, the edit and the session;    *)
(* and a DIAL_INFO says one of two things of the dial, in all its texts.   *)
(***************************************************************************)
EXTENDS Integers, Sequences, SequencesExt

Bytes(ns)  == [i \in DOMAIN ns |-> <<ns[i], 1>>]
Hdr        == Bytes(<<"type", "version">>)
Field(n, w) == <<<<n, w>>>>

StateL   == Hdr \o Bytes(<<"caps_seq", "flags", "mode", "action", "fan", "vane_v", "vane_h", "preset">>)
                 \o Field("fault", 2) \o Field("temps", 8)
                 \o Bytes(<<"hum", "hum_set", "flags2", "night_ceil">>) \o Field("epoch", 2)
CmdL     == Hdr \o Field("mask", 2) \o Bytes(<<"mode", "fan", "vane_v", "vane_h", "preset">>)
                 \o Field("sets", 6) \o Bytes(<<"hum_set", "use_f">>) \o Field("epoch", 2)
ProbeL   == Hdr \o Bytes(<<"want", "reserved">>)
PairL    == Hdr \o Field("mac", 6) \o Field("eph_pub", 32) \o Field("id_pub", 32)
                 \o Field("sig", 64) \o Field("channel", 1)
CapsL    == Hdr \o Bytes(<<"caps_seq", "caps_flags">>) \o Field("modes", 2) \o Field("presets", 2)
                 \o Bytes(<<"fan_steps", "fan_flags", "vane_v", "vane_h">>) \o Field("range", 4)
                 \o Bytes(<<"step", "ftab", "gap", "hum_step">>) \o Field("features", 2)
                 \o Field("name", 32) \o Field("reserved", 14)
CatReqL  == Hdr \o Field("cursor", 2) \o Field("known_revision", 4)
EntryL   == Field("id", 8) \o Bytes(<<"kind", "flags">>) \o Field("name", 24)
CatRespH == Hdr \o Bytes(<<"count", "flags">>) \o Field("next_cursor", 2)
                 \o Field("reserved", 2) \o Field("revision", 4)
SetL     == Hdr \o Bytes(<<"request_id", "reserved">>) \o Field("revision", 4)
                 \o Field("source_id", 8) \o Field("epoch", 2)
AckL     == Hdr \o Bytes(<<"request_id", "result">>) \o Field("revision", 4)
                 \o Field("source_id", 8) \o Field("status", 4)
CredReqL == Hdr \o Field("reserved", 2)
CredL    == Hdr \o Field("ok", 1) \o Field("ssid", 33) \o Field("psk", 65) \o Field("reserved", 2)
SessionL == Hdr \o Field("epoch", 2) \o Field("session", 4)
CancelAckL == Hdr \o Field("session", 4) \o Field("status", 1)
DialL    == Hdr \o Field("caps_seq", 1) \o Field("model", 24) \o Field("fw", 16)
SensorL  == Hdr \o Field("flags", 1) \o Field("temp_cc", 2) \o Field("hum_cc", 2)
                 \o Bytes(<<"want_src", "reserved">>) \o Field("epoch", 2)

Layout == [probe |-> ProbeL, cmd |-> CmdL, sensor |-> SensorL, creds |-> CredReqL,
           setup |-> SessionL, cancel |-> SessionL, dialinfo |-> DialL,
           catalog |-> CatReqL, set |-> SetL]

Size(l)     == FoldLeft(LAMBDA n, f : n + f[2], 0, l)
Start(l, n) == Size(SubSeq(l, 1, SelectInSeq(l, LAMBDA f : f[1] = n) - 1))
End(l, n)   == Start(l, n) + l[SelectInSeq(l, LAMBDA f : f[1] = n)][2]

(* offsetof and offsetof + sizeof of every field a dial sends. *)
Names(l)  == {l[i][1] : i \in DOMAIN l}
Extent    == [t \in DOMAIN Layout |-> [n \in Names(Layout[t]) |->
                [start |-> Start(Layout[t], n), end |-> End(Layout[t], n)]]]

(* SL2_*_MIN_LEN. *)
MinLen == [probe |-> End(ProbeL, "want"), cmd |-> End(CmdL, "epoch"),
           sensor |-> End(SensorL, "hum_cc"), creds |-> Size(CredReqL),
           setup |-> End(SessionL, "epoch"), cancel |-> Size(SessionL),
           dialinfo |-> End(DialL, "caps_seq"), catalog |-> Size(CatReqL),
           set |-> End(SetL, "source_id")]

(* The static assertions of the sizes. *)
SizesAsGuarded ==
    /\ <<Size(StateL), Size(CmdL), Size(ProbeL), Size(PairL), Size(CapsL)>> = <<26, 19, 4, 137, 68>>
    /\ <<Size(CredReqL), Size(CredL), Size(SessionL), Size(CancelAckL)>> = <<4, 103, 8, 7>>
    /\ <<Size(DialL), Size(SensorL), Size(SetL), Size(AckL)>> = <<43, 11, 18, 20>>
    /\ Size(CatReqL) = 8 /\ Size(EntryL) = 34 /\ Size(CatRespH) = 12 /\ 12 + 7 * 34 = 250
    /\ Size(DialL) + 2 + 112 <= 250      \* a certificate fits
    /\ \A t \in DOMAIN Layout : MinLen[t] <= Size(Layout[t])
    /\ MinLen = [probe |-> 3, cmd |-> 19, sensor |-> 7, creds |-> 4, setup |-> 4,
                 cancel |-> 8, dialinfo |-> 3, catalog |-> 8, set |-> 16]

(* What a frame of a type always has: the fields up to its MIN_LEN.        *)
Required == [probe |-> {"want"}, cmd |-> {"mask", "sets", "hum_set", "use_f"},
             sensor |-> {"flags", "temp_cc", "hum_cc"}, creds |-> {},
             setup |-> {}, cancel |-> {"session"}, dialinfo |-> {"caps_seq"},
             catalog |-> {"cursor"}, set |-> {"request_id", "revision", "source_id"}]

FieldsAsRequired ==
    /\ \A t \in DOMAIN Layout : \A n \in Required[t] : Extent[t][n].end \in 0..MinLen[t]
    /\ Extent.setup.session.end \in 0..Size(SessionL)
    /\ Extent.dialinfo.model = [start |-> 3, end |-> 27]
    /\ Extent.dialinfo.fw = [start |-> 27, end |-> Size(DialL)]

ASSUME LayoutAssumption == SizesAsGuarded /\ FieldsAsRequired

Whole(f, n) == f.len >= Extent[f.type][n].end
Torn(f, n)  == ~Whole(f, n) /\ f.len > Extent[f.type][n].start

(* The frames of given versions and epochs, in every length that tears a   *)
(* field or leaves one out; what lies beyond a frame's end has one value.  *)
FramesOf(versions, epochs) ==
    LET Echoes(t, n) == IF "epoch" \in Names(Layout[t]) /\ n > Extent[t].epoch.start
                        THEN epochs ELSE {0}
        Edits(t, n)  == IF t = "sensor" /\ n >= Extent[t].want_src.end
                        THEN BOOLEAN ELSE {FALSE}
        Sessions(t)  == IF t \in {"setup", "cancel"} THEN BOOLEAN ELSE {FALSE}
        Sayings(t)   == IF t = "dialinfo" THEN {"one", "other"} ELSE {"nothing"}
        Cut(t, n)    == [type : {t}, ver : versions, len : {n}, echo : Echoes(t, n),
                         edit : Edits(t, n), session : Sessions(t), says : Sayings(t)]
    IN  UNION {Cut(p[1], p[2]) :
                 p \in {q \in (DOMAIN Layout) \X (2..46) : q[2] <= Size(Layout[q[1]]) + 2}}
=============================================================================
