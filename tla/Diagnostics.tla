----------------------------- MODULE Diagnostics -----------------------------
(***************************************************************************)
(* The read-only entities over the bond table (serin_link.cpp:             *)
(* publish_diagnostics_): what the walk of every second publishes, from    *)
(* the caches of what it published before, against what the core knows of  *)
(* each dial (sl2_link_dial_view).                                         *)
(*                                                                         *)
(* Time is counted in seconds.  A dial's silence is a difference of 32-bit *)
(* stamps, so it is counted modulo Wrap, and read as a signed number.      *)
(***************************************************************************)
EXTENDS Integers, Sequences, Functions

CONSTANTS
    Dial,
    Firmware,     \* versions a DIAL_INFO names
    Blank,        \* "", NAN and 'no dial'
    Unknown,      \* what Home Assistant shows before the first publication
    MaxDials,     \* SL2_MAX_DIALS
    LiveFor,      \* SL2_DIAL_LIVE_MS
    Refresh,      \* the 60 s after which last_seen is published again
    Wrap          \* 2^32 ms

ConstantsAssumption ==
    /\ Blank \notin Dial \cup Firmware \cup {Unknown}
    /\ Unknown \notin Dial \cup Firmware
    /\ Blank \notin Int /\ Unknown \notin Int       \* no number of seconds
    /\ MaxDials \in Nat \ {0}
    /\ LiveFor \in Nat \ {0} /\ Refresh \in Nat \ {0}
    /\ Wrap \in Nat /\ LiveFor < Wrap \div 2 /\ Refresh < Wrap \div 2

VARIABLES
    bonds,      \* the bonded dials in slot order
    rt,         \* what the core knows of each bonded dial
    row,        \* dial_rows_: the caches
    primed,     \* diag_primed_
    total,      \* the entities of all dials: connected and bonded_count
    shown,      \* what Home Assistant shows in each row
    walked,     \* nothing happened since the last walk
    settled     \* seconds the slot's occupant has been there, up to Refresh

vars == <<bonds, rt, row, primed, total, shown, walked, settled>>

Slots    == 1..MaxDials
Silence  == 0..(Wrap - 1) \cup {-1}       \* -1: last_probe_ms is 0

Runtime  == [silence : Silence, fw : Firmware \cup {Blank}, screen : BOOLEAN]  \* valid and on
Row      == [mac : Dial \cup {Blank}, fw : Firmware \cup {Blank},
             linked : BOOLEAN, linkedValid : BOOLEAN,
             screen : BOOLEAN, screenValid : BOOLEAN,
             seenPub : 0..Refresh]        \* age of last_seen_pub_ms

NewRuntime == [silence |-> -1, fw |-> Blank, screen |-> FALSE]

BootRow == [mac |-> Blank, fw |-> Blank, linked |-> FALSE, linkedValid |-> FALSE,
            screen |-> FALSE, screenValid |-> FALSE, seenPub |-> Refresh]

BlankShown == [mac |-> Unknown, fw |-> Unknown, linked |-> Unknown,
               seen |-> Unknown, screen |-> Unknown]

----------------------------------------------------------------------------
(* sl2_link_dial_view and its reading by the walk. *)
Live(d) == rt[d].silence \in 0..(LiveFor - 1)

Signed(s) == IF s < Wrap \div 2 THEN s ELSE s - Wrap

LastSeen(d) == IF Signed(rt[d].silence) >= 0 THEN Signed(rt[d].silence) ELSE Blank

EmptyView == [mac |-> Blank, fw |-> Blank, linked |-> FALSE,
              seen |-> Blank, screen |-> FALSE]

View(i) ==
    IF i \notin DOMAIN bonds THEN EmptyView
    ELSE LET d == bonds[i]
         IN  [mac |-> d, fw |-> rt[d].fw, linked |-> Live(d),
              seen |-> LastSeen(d), screen |-> rt[d].screen]

AnyLive == \E d \in Range(bonds) : Live(d)

----------------------------------------------------------------------------
(* publish_diagnostics_, once a second. *)

OneOlder(s) == IF s = -1 THEN -1 ELSE (s + 1) % Wrap

Prime == ~primed

(* Mutant: the firmware is compared with the MAC only. *)
FwWithMac(r, v) == Prime \/ v.mac # r.mac

FwChanged(r, v) == Prime \/ v.fw # r.fw

(* Mutant: last_seen waits for its refresh. *)
SeenOnRefresh(r, edge) == Prime \/ r.seenPub = Refresh

(* Mutant: last_seen is published on an edge alone. *)
SeenOnEdge(r, edge) == Prime \/ edge

SeenIsDue(r, edge) == Prime \/ edge \/ r.seenPub = Refresh

Walked(r, s, v) ==
    LET edge == ~r.linkedValid \/ v.linked # r.linked
        due  == SeenIsDue(r, edge)
    IN  [row |-> [mac |-> v.mac, fw |-> IF FwChanged(r, v) THEN v.fw ELSE r.fw,
                  linked |-> v.linked, linkedValid |-> TRUE,
                  screen |-> v.screen, screenValid |-> TRUE,
                  seenPub |-> IF due THEN 0 ELSE r.seenPub],
         shown |->
           [mac    |-> IF Prime \/ v.mac # r.mac THEN v.mac ELSE s.mac,
            fw     |-> IF FwChanged(r, v) THEN v.fw ELSE s.fw,
            linked |-> IF Prime \/ edge THEN v.linked ELSE s.linked,
            seen   |-> IF due THEN v.seen ELSE s.seen,
            screen |-> IF Prime \/ ~r.screenValid \/ v.screen # r.screen
                       THEN v.screen ELSE s.screen]]

Walk ==
    /\ ~walked
    /\ LET to == [i \in Slots |-> Walked(row[i], shown[i], View(i))]
       IN  /\ row'   = [i \in Slots |-> to[i].row]
           /\ shown' = [i \in Slots |-> to[i].shown]
    /\ total' = [connected |-> AnyLive, count |-> Len(bonds)]
    /\ primed' = TRUE /\ walked' = TRUE
    /\ UNCHANGED <<bonds, rt, settled>>

(* A second passes; no second passes without a walk at its end. *)
Second ==
    /\ walked
    /\ rt'  = [d \in Dial |-> [rt[d] EXCEPT !.silence = OneOlder(@)]]
    /\ row' = [i \in Slots |->
                [row[i] EXCEPT !.seenPub = IF @ = Refresh THEN Refresh ELSE @ + 1]]
    /\ settled' = [i \in Slots |->
                    IF settled[i] = Refresh THEN Refresh ELSE settled[i] + 1]
    /\ walked' = FALSE
    /\ UNCHANGED <<bonds, primed, total, shown>>

----------------------------------------------------------------------------
(* Between walks: frames of the dials, the bond table, a restart. *)
Frame(d) ==
    /\ d \in Range(bonds)
    /\ \/ rt' = [rt EXCEPT ![d].silence = 0]
       \/ \E f \in Firmware : rt' = [rt EXCEPT ![d].silence = 0, ![d].fw = f]
       \/ \E s \in BOOLEAN : rt' = [rt EXCEPT ![d].silence = 0, ![d].screen = s]
    /\ ~walked
    /\ UNCHANGED <<bonds, row, primed, total, shown, walked, settled>>

Moved(b) == [i \in Slots |->
    IF i \in DOMAIN b /\ i \in DOMAIN bonds
    THEN IF b[i] = bonds[i] THEN settled[i] ELSE 0
    ELSE IF i \in DOMAIN b \/ i \in DOMAIN bonds THEN 0 ELSE settled[i]]

Bond(d) ==
    /\ d \notin Range(bonds) /\ Len(bonds) < MaxDials /\ ~walked
    /\ bonds' = Append(bonds, d)
    /\ rt' = [rt EXCEPT ![d] = NewRuntime]
    /\ settled' = Moved(bonds')
    /\ UNCHANGED <<row, primed, total, shown, walked>>

(* sl2_link_forget_dial closes the hole. *)
Without(s, i) == SubSeq(s, 1, i - 1) \o SubSeq(s, i + 1, Len(s))

Forget(d) ==
    /\ ~walked
    /\ \E i \in DOMAIN bonds : bonds[i] = d /\ bonds' = Without(bonds, i)
    /\ rt' = [rt EXCEPT ![d] = NewRuntime]
    /\ settled' = Moved(bonds')
    /\ UNCHANGED <<row, primed, total, shown, walked>>

Reboot ==
    /\ primed /\ ~walked
    /\ rt'  = [d \in Dial |-> NewRuntime]
    /\ row' = [i \in Slots |-> BootRow]
    /\ shown' = [i \in Slots |-> BlankShown]
    /\ total' = [connected |-> Unknown, count |-> Unknown]
    /\ primed' = FALSE
    /\ UNCHANGED <<bonds, walked, settled>>

Init ==
    /\ bonds = <<>> /\ rt = [d \in Dial |-> NewRuntime]
    /\ row = [i \in Slots |-> BootRow] /\ primed = FALSE
    /\ shown = [i \in Slots |-> BlankShown]
    /\ total = [connected |-> Unknown, count |-> Unknown]
    /\ walked = FALSE /\ settled = [i \in Slots |-> Refresh]

Next ==
    \/ Walk \/ Second \/ Reboot
    \/ \E d \in Dial : Frame(d) \/ Bond(d) \/ Forget(d)

Spec == Init /\ [][Next]_vars

----------------------------------------------------------------------------
(* Types of the state. *)
TypeOK ==
    /\ bonds \in Seq(Dial) /\ Len(bonds) <= MaxDials /\ IsInjective(bonds)
    /\ rt \in [Dial -> Runtime] /\ row \in [Slots -> Row]
    /\ primed \in BOOLEAN /\ walked \in BOOLEAN
    /\ settled \in [Slots -> 0..Refresh]

(* After a walk a row's MAC, firmware, linked state and screen are those of *)
(* the dial in its slot, whatever was bonded, forgotten, heard or restarted *)
(* since, and none is unknown, the counts of all dials included: nothing is *)
(* lost to the publish-on-change caches.                                    *)
RowsAreTheSlots ==
    walked => /\ \A i \in Slots :
                   /\ shown[i].mac = View(i).mac /\ shown[i].fw = View(i).fw
                   /\ shown[i].linked = View(i).linked
                   /\ shown[i].screen = View(i).screen
                   /\ shown[i].seen # Unknown
              /\ total = [connected |-> AnyLive, count |-> Len(bonds)]

(* The number of seconds and the linked state, published by different       *)
(* rules, agree: a row says linked exactly when its number is that of a     *)
(* live dial.                                                               *)
LinkedAgreesWithLastSeen ==
    walked => \A i \in Slots :
        shown[i].linked <=> shown[i].seen \in 0..(LiveFor - 1)

(* A dial that stays away is seen to: once it has held its slot for the     *)
(* refresh period, the number shown is its own silence, less than one       *)
(* period old.                                                              *)
OutageGrows ==
    walked => \A i \in DOMAIN bonds :
        LET s == rt[bonds[i]].silence
        IN  settled[i] = Refresh /\ s >= LiveFor + Refresh /\ s < Wrap \div 2
            => shown[i].seen \in (s - Refresh + 1)..s
=============================================================================
