------------------------------ MODULE InfoTlvs ------------------------------
(***************************************************************************)
(* The INFO frame: a controller appends one TLV after the other to a       *)
(* buffer (serin_link.cpp: fill_info_tlvs; include/serin_link/sl2_info.h,  *)
(* sl2_proto.h: sl2_tlv_put), a receiver walks over them (sl2_tlv_next).   *)
(* The same walk reads the tail of a dial's DIAL_INFO.                     *)
(*                                                                         *)
(* Strings are their lengths.  A byte of a value is as likely as any other *)
(* to be taken for a type or a length if the walk loses its place: all of  *)
(* them are 1.  ESPHome's strings are never longer than MaxStr says.       *)
(***************************************************************************)
EXTENDS Integers, Sequences, SequencesExt

CONSTANTS
    MTU,        \* SL2_MTU
    MaxStr,     \* a function: the longest string of each name
    NaN,        \* a float that is not a number
    Reading,    \* values of the power and energy sensors, in W and Wh
    WMax,       \* the 16-bit maximum, scaled down with Reading
    WhMax,      \* the 32-bit maximum, likewise
    Lost        \* how much of a frame may be missing at its end

ConstantsAssumption ==
    /\ MTU \in Nat \ {0}
    /\ MaxStr \in [{"ssid", "ip", "version", "build"} -> Nat]
    /\ Reading \subseteq Int \cup {NaN} /\ WMax \in Nat /\ WhMax \in Nat
    /\ Lost \subseteq Nat

(* What each optional part of INFO and of CAPS depends on in the configuration. *)
Bindings == [outside |-> {"outside"}, compressor |-> {"hz", "stage", "sub", "auto_sub"},
             battery |-> {"battery"}, runtime |-> {"runtime"},
             energy |-> {"power", "energy"}, room |-> {"link_sensor"}]

(* What has a value at times only. *)
Optional == {"wifi", "outside", "battery", "runtime"}

VARIABLES
    bound,      \* what the configuration binds
    present,    \* those of Optional with a value now
    strs,       \* the length of each string
    power, energy,  \* what the sensors of the ENERGY TLV read
    phase,      \* "fill", "sent", "read"
    buf,        \* the TLVs of the frame, as bytes
    len,        \* how much of it there is
    got         \* the TLVs the receiver found: type, and where the value is

vars == <<bound, present, strs, power, energy, phase, buf, len, got>>

(* SL2_TLV_*: the type of each. *)
Code == [wifi |-> 1, outside |-> 3, compressor |-> 4, battery |-> 5, fw |-> 6,
         runtime |-> 7, sys |-> 8, energy |-> 9, room_src |-> 11, room_v2 |-> 12]

HeaderLen == 4      \* SL2_INFO_HDR_LEN

----------------------------------------------------------------------------
(* Mutant: room for the versions of a development build only. *)
FwCapShort == 24
FwCap      == 96    \* the buffer of sl2_info_put_fw
WifiCap    == 33 + 46   \* the one of sl2_info_put_wifi, after its two bytes

(* sl2_info__strpair: both strings with their zeros, or nothing. *)
StrPair(cap, a, b) == IF a + b + 2 > cap THEN 0 ELSE a + b + 2

(* The length of the value, -1 when the TLV is left out. *)
FwLen   == LET n == StrPair(FwCap, strs["version"], strs["build"]) IN IF n = 0 THEN -1 ELSE n
WifiLen == LET n == StrPair(WifiCap, strs["ssid"], strs["ip"]) IN IF n = 0 THEN -1 ELSE n + 2
If(s, n) == IF s \in present THEN n ELSE -1
Bound(s) == Bindings[s] \cap bound # {}
IfBound(s, n) == IF Bound(s) THEN n ELSE -1

(* sl2_info_put_*: the length of what they encode. *)
ValueLen == [outside |-> 2, compressor |-> 4, battery |-> 1, runtime |-> 4, sys |-> 5,
             energy |-> 6, room_src |-> 2, room_v2 |-> 13]

(* The order of fill_info_tlvs.  FW_INFO and SYS are always sent. *)
Wanted == <<<<"wifi", If("wifi", WifiLen)>>, <<"outside", If("outside", ValueLen.outside)>>,
            <<"compressor", IfBound("compressor", ValueLen.compressor)>>,
            <<"battery", If("battery", ValueLen.battery)>>, <<"fw", FwLen>>,
            <<"runtime", If("runtime", ValueLen.runtime)>>, <<"sys", ValueLen.sys>>,
            <<"energy", IfBound("energy", ValueLen.energy)>>,
            <<"room_src", IfBound("room", ValueLen.room_src)>>,
            <<"room_v2", IfBound("room", ValueLen.room_v2)>>>>

Tlv(w) == <<Code[w[1]], w[2]>> \o [i \in 1..w[2] |-> 1]

(* sl2_tlv_put: the whole TLV, or nothing. *)
Put(b, w) == IF w[2] < 0 \/ Len(b) + 2 + w[2] > MTU - HeaderLen THEN b ELSE b \o Tlv(w)

----------------------------------------------------------------------------
(* Mutant: the length of the value is not compared with what is left. *)
NextFitsHeader(b, n, off) == off + 2 <= n

(* sl2_tlv_next: is there a whole TLV at off, in the first n bytes? *)
NextFits(b, n, off) == off + 2 <= n /\ off + 2 + b[off + 2] <= n

Walk(b, n) ==
    LET from[off \in 0..(n + 257)] ==
            IF off <= n /\ NextFits(b, n, off)
            THEN <<<<b[off + 1], off + 3, b[off + 2]>>>> \o from[off + 2 + b[off + 2]]
            ELSE <<>>
    IN  from[0]

----------------------------------------------------------------------------
(* f_to_u32: not a number and negatives are zero, the rest is capped. *)
ToUint(f, max) == IF f = NaN THEN 0 ELSE IF f <= 0 THEN 0 ELSE IF f >= max THEN max ELSE f

(* Mutant: capped at the largest value of the width. *)
WattsFull(f) == IF f = NaN THEN WMax ELSE ToUint(f, WMax)

(* The two halves of ENERGY; the largest value of each width is "n/a". *)
Watts(f)     == IF f = NaN THEN WMax ELSE ToUint(f, WMax - 1)
WattHours(f) == IF f = NaN THEN WhMax ELSE ToUint(f, WhMax - 1)

----------------------------------------------------------------------------
(* Mutant: the sensors of the compressor are announced by the first only. *)
FeaturesByHz ==
    {"WIFI_INFO", "FW_INFO"}
    \cup (IF Bound("outside") THEN {"OUTSIDE_T"} ELSE {})
    \cup (IF "hz" \in bound THEN {"COMPRESSOR"} ELSE {})
    \cup (IF Bound("battery") THEN {"SENSOR_BATT"} ELSE {})
    \cup (IF Bound("room") THEN {"LINK_SENSOR", "ROOM_CATALOG"} ELSE {})
    \cup (IF Bound("runtime") THEN {"RUNTIME"} ELSE {})
    \cup (IF Bound("energy") THEN {"ENERGY"} ELSE {})

(* CAPS: what the dial makes room for. *)
Features ==
    {"WIFI_INFO", "FW_INFO"}
    \cup (IF Bound("outside") THEN {"OUTSIDE_T"} ELSE {})
    \cup (IF Bound("compressor") THEN {"COMPRESSOR"} ELSE {})
    \cup (IF Bound("battery") THEN {"SENSOR_BATT"} ELSE {})
    \cup (IF Bound("room") THEN {"LINK_SENSOR", "ROOM_CATALOG"} ELSE {})
    \cup (IF Bound("runtime") THEN {"RUNTIME"} ELSE {})
    \cup (IF Bound("energy") THEN {"ENERGY"} ELSE {})

(* The feature a TLV belongs to; SYS needs none. *)
FeatureOf == [wifi |-> "WIFI_INFO", outside |-> "OUTSIDE_T", compressor |-> "COMPRESSOR",
              battery |-> "SENSOR_BATT", fw |-> "FW_INFO", runtime |-> "RUNTIME",
              energy |-> "ENERGY", room_src |-> "LINK_SENSOR", room_v2 |-> "ROOM_CATALOG"]

----------------------------------------------------------------------------
Fill ==
    /\ phase = "fill"
    /\ buf' = FoldLeft(Put, <<>>, Wanted)
    /\ len' = Len(buf')
    /\ phase' = "sent"
    /\ UNCHANGED <<bound, present, strs, power, energy, got>>

(* All of it arrives, or all but its end. *)
Arrive(n) ==
    /\ phase = "sent" /\ n <= Len(buf)
    /\ len' = Len(buf) - n
    /\ got' = Walk(buf, len')
    /\ phase' = "read"
    /\ UNCHANGED <<bound, present, strs, power, energy, buf>>

(* Something gets or loses its value, or reads otherwise, before the next pull. *)
Change ==
    /\ phase = "read"
    /\ \/ /\ \E s \in {o \in Optional : o = "wifi" \/ Bound(o)} :
              present' = IF s \in present THEN present \ {s} ELSE present \cup {s}
          /\ UNCHANGED <<power, energy>>
       \/ Bound("energy") /\ \E r \in Reading : power' = r /\ energy' = r /\ UNCHANGED present
    /\ phase' = "fill" /\ buf' = <<>> /\ len' = 0 /\ got' = <<>>
    /\ UNCHANGED <<bound, strs>>

Init ==
    /\ \/ bound = UNION {Bindings[s] : s \in DOMAIN Bindings}
       \/ \E s \in DOMAIN Bindings : \E b \in Bindings[s] : bound \in {{}, {b}}
    /\ present = {} /\ power = NaN /\ energy = NaN
    /\ strs \in {MaxStr, [s \in DOMAIN MaxStr |-> 0]}
    /\ phase = "fill" /\ buf = <<>> /\ len = 0 /\ got = <<>>

Next == Fill \/ (\E n \in Lost : Arrive(n)) \/ Change

Spec == Init /\ [][Next]_vars

----------------------------------------------------------------------------
(* With the longest network name, address and version strings there are,   *)
(* everything the controller knows is in the frame: no TLV is left out for *)
(* want of room, above all not the room source at the end.                 *)
SentTlvs == SelectSeq(Wanted, LAMBDA w : w[2] >= 0)
NothingLeftOut ==
    phase # "fill" =>
        /\ \A i \in DOMAIN Wanted : Wanted[i][1] \in present \cup {"fw"} => Wanted[i][2] >= 0
        /\ Len(buf) = FoldLeft(LAMBDA n, w : n + 2 + w[2], 0, SentTlvs)

(* A dial that makes rows for the features of CAPS has a row for each TLV, *)
(* and a row that is announced has a TLV while there is a value for it.    *)
RowsAreAnnounced ==
    phase # "fill" =>
        /\ \A i \in DOMAIN SentTlvs :
              SentTlvs[i][1] = "sys" \/ FeatureOf[SentTlvs[i][1]] \in Features
        /\ \A f \in Features : \E i \in DOMAIN Wanted :
              /\ Wanted[i][1] # "sys" /\ FeatureOf[Wanted[i][1]] = f
              /\ Wanted[i][1] \in Optional \/ Wanted[i][2] >= 0

(* What the receiver finds are TLVs of the sender, in order and with their *)
(* lengths: it never takes the inside of a value for one, and never one    *)
(* that has not come wholly.                                               *)
WalkKeepsPlace ==
    phase = "read" =>
        /\ Len(got) <= Len(SentTlvs)
        /\ \A i \in DOMAIN got :
              /\ got[i][1] = Code[SentTlvs[i][1]] /\ got[i][3] = SentTlvs[i][2]
              /\ got[i][2] + got[i][3] - 1 <= len
        /\ len = Len(buf) => Len(got) = Len(SentTlvs)

(* A sensor that has a value never reads as one that has none, however     *)
(* large the value.                                                        *)
KnownIsNotNA ==
    /\ power # NaN => Watts(power) # WMax
    /\ energy # NaN => WattHours(energy) # WhMax
=============================================================================
