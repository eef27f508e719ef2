----------------------------- MODULE SensorRows -----------------------------
(***************************************************************************)
(* The per-slot room readings that Home Assistant shows                    *)
(* (serin_link.cpp: feed_sensor_row_, publish_sensor_row_,                 *)
(* check_sensor_rows_) over a bond table whose slots move                  *)
(* (sl2_link_forget_dial, pair_commit).                                    *)
(*                                                                         *)
(* A reading carries the dial it came from; the code's has only the value, *)
(* and so has every comparison here.  Time is counted in seconds, the pace *)
(* of check_sensor_rows_, as ages that stop at StaleAfter.                 *)
(***************************************************************************)
EXTENDS Integers, Sequences, Functions

CONSTANTS
    Dial,
    Temp,          \* values of a temperature
    NA,            \* SL2_CC_NA, SL2_HUM_CC_NA, NAN and 'no dial'
    MaxDials,      \* SL2_MAX_DIALS
    Declared,      \* slots with entities
    Heartbeat,     \* the 30 s after which the same value is published again
    StaleAfter     \* dial_stale_ms_

ConstantsAssumption ==
    /\ NA \notin Dial \cup Temp
    /\ MaxDials \in Nat \ {0} /\ Declared \subseteq 1..MaxDials
    /\ Heartbeat \in Nat \ {0} /\ StaleAfter \in Nat /\ StaleAfter > Heartbeat

VARIABLES
    bonds,     \* the bonded dials in slot order
    row,       \* sensor_rows_
    shown,     \* what Home Assistant shows in each slot
    checked    \* nothing was bonded or forgotten since check_sensor_rows_

vars == <<bonds, row, shown, checked>>

None     == [val |-> NA, of |-> NA]
Reading  == [val : Temp, of : Dial] \cup {None}
Occupant(b, i) == IF i \in DOMAIN b THEN b[i] ELSE NA

Row == [mac : Dial \cup {NA},                \* NA: mac_valid is false
        temp : Reading, hum : Reading,
        age : 0..StaleAfter \cup {-1},       \* of temp_ms, -1 when it is 0
        pub : Temp \cup {NA},                \* pub_cc
        pubAge : 0..Heartbeat \cup {-1},     \* of pub_ms, -1 when it is 0
        stale : BOOLEAN]                     \* stale_pub

----------------------------------------------------------------------------
(* publish_sensor_row_. *)
Retracted(r) == [row |-> [r EXCEPT !.stale = TRUE],
                 shown |-> [temp |-> None, hum |-> None]]

Published(r, s) ==
    [row |-> [r EXCEPT !.stale = FALSE, !.pub = r.temp.val, !.pubAge = 0],
     shown |-> [temp |-> r.temp, hum |-> IF r.hum # None THEN r.hum ELSE s.hum]]

Unchanged(r, s) == [row |-> r, shown |-> s]

(* Mutant: the humidity of the former occupant is not dropped. *)
AdoptedWithHum(r, d) ==
    IF r.mac = d THEN r ELSE [r EXCEPT !.mac = d, !.pub = NA, !.pubAge = -1]

(* feed_sensor_row_, a new occupant. *)
Adopted(r, d) ==
    IF r.mac = d THEN r
    ELSE [r EXCEPT !.mac = d, !.hum = None, !.pub = NA, !.pubAge = -1]

(* Mutant: a changed value waits for the heartbeat. *)
PublishesOnBeat(r) == r.pubAge \in {-1, Heartbeat} \/ r.stale

Publishes(r) ==
    \/ r.temp.val # r.pub
    \/ r.pubAge \in {-1, Heartbeat}
    \/ r.stale

(* feed_sensor_row_, on_sensor's frame of dial d. *)
Fed(r, s, d, t, h) ==
    LET a == Adopted(r, d)
        n == [a EXCEPT !.temp = [val |-> t, of |-> d], !.age = 0,
                       !.hum = IF h = NA THEN @ ELSE [val |-> h, of |-> d]]
    IN  IF t = NA THEN Unchanged(a, s)
        ELSE IF Publishes(n) THEN Published(n, s) ELSE Unchanged(n, s)

SlotOf(d) == CHOOSE i \in DOMAIN bonds : bonds[i] = d

Frame(d) ==
    /\ d \in Range(bonds)
    /\ \E t, h \in Temp \cup {NA} :
         LET i == SlotOf(d)
             to == Fed(row[i], shown[i], d, t, h)
         IN  /\ row' = IF i \in Declared THEN [row EXCEPT ![i] = to.row] ELSE row
             /\ shown' = IF i \in Declared THEN [shown EXCEPT ![i] = to.shown]
                         ELSE shown
    /\ UNCHANGED <<bonds, checked>>

----------------------------------------------------------------------------
(* check_sensor_rows_, once a second. *)

Older(a, max) == IF a = -1 THEN -1 ELSE IF a = max THEN max ELSE a + 1

Aged(r) == [r EXCEPT !.age = Older(r.age, StaleAfter),
                     !.pubAge = Older(r.pubAge, Heartbeat)]

(* Mutant: only an empty slot counts as changed. *)
LeftOnly(r, i) == r.mac # NA /\ Occupant(bonds, i) = NA

Left(r, i) == r.mac # NA /\ Occupant(bonds, i) # r.mac

(* Mutant: the age of a reading is not looked at. *)
StaleNever(r) == FALSE

Stale(r) == ~r.stale /\ r.age = StaleAfter

Walked(r, s, i) ==
    IF Left(r, i)
    THEN LET c == [r EXCEPT !.mac = NA, !.temp = None, !.hum = None, !.age = -1]
         IN  IF r.age # -1 /\ ~r.stale THEN Retracted(c) ELSE Unchanged(c, s)
    ELSE IF Stale(r) THEN Retracted(r) ELSE Unchanged(r, s)

Second ==
    /\ LET to == [i \in 1..MaxDials |->
                    IF i \in Declared THEN Walked(Aged(row[i]), shown[i], i)
                    ELSE Unchanged(row[i], shown[i])]
       IN  /\ row' = [i \in 1..MaxDials |-> to[i].row]
           /\ shown' = [i \in 1..MaxDials |-> to[i].shown]
    /\ checked' = TRUE
    /\ UNCHANGED bonds

----------------------------------------------------------------------------
(* The bond table. *)

(* sl2_link_forget_dial closes the hole. *)
Without(s, i) == SubSeq(s, 1, i - 1) \o SubSeq(s, i + 1, Len(s))

Bond(d) ==
    /\ d \notin Range(bonds) /\ Len(bonds) < MaxDials
    /\ bonds' = Append(bonds, d) /\ checked' = FALSE
    /\ UNCHANGED <<row, shown>>

Forget(d) ==
    /\ d \in Range(bonds)
    /\ bonds' = Without(bonds, SlotOf(d)) /\ checked' = FALSE
    /\ UNCHANGED <<row, shown>>

Init ==
    /\ bonds = <<>> /\ checked = TRUE
    /\ row = [i \in 1..MaxDials |->
                [mac |-> NA, temp |-> None, hum |-> None, age |-> -1,
                 pub |-> NA, pubAge |-> -1, stale |-> FALSE]]
    /\ shown = [i \in 1..MaxDials |-> [temp |-> None, hum |-> None]]

Next ==
    \/ \E d \in Dial : Frame(d) \/ Bond(d) \/ Forget(d)
    \/ Second

Spec == Init /\ [][Next]_vars

----------------------------------------------------------------------------
(* Properties; the primed ones are of every step. *)

(* Every variable keeps its type. *)
TypeOK ==
    /\ bonds \in UNION {[1..n -> Dial] : n \in 0..MaxDials}
    /\ row \in [1..MaxDials -> Row]
    /\ shown \in [1..MaxDials -> [temp : Reading, hum : Reading]]
    /\ checked \in BOOLEAN

(* However slots moved, after a check no slot shows the temperature of a   *)
(* dial that is not in it -- unless the new dial's frame without a reading *)
(* came before the check: its row then has the dial's address and the      *)
(* other's temperature.                                                    *)
MovedIsRetracted ==
    checked => \A i \in Declared :
        \/ shown[i].temp.of \in {NA, Occupant(bonds, i)}
        \/ row[i].temp.of # row[i].mac /\ row[i].mac = Occupant(bonds, i)

(* What a row holds for its dial is that dial's: a humidity never comes    *)
(* from a former occupant, though its frames may carry none.               *)
HumidityIsOwn == \A i \in Declared : row[i].hum.of \in {NA, row[i].mac}

(* A slot shows its dial's latest temperature, or nothing: repeats that    *)
(* are not published repeat what is shown, also across a retraction and a  *)
(* new dial that measures the same.                                        *)
ShowsLatest ==
    \A i \in Declared : row[i].temp # None =>
        shown[i].temp \in {None, row[i].temp}

(* No slot shows a temperature whose dial has not repeated it for          *)
(* stale_after, and none is withheld while its dial reports.               *)
FreshIsShown ==
    \A i \in Declared : (shown[i].temp # None) = (row[i].age \in 0..StaleAfter-1)
=============================================================================
