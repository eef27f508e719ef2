---------------------------- MODULE LinkActions ----------------------------
(***************************************************************************)
(* Pairing and forgetting from automations (serin_link.h: forget_*,        *)
(* PairLinkButton, PairStartAction, ForgetDialAction, ...; __init__.py:    *)
(* the actions' schemas).  An automation decides on what Home Assistant    *)
(* shows of the bond table, and acts later: a slot may hold another Link   *)
(* by then, a MAC is one Link.  The actions of a list play one after the   *)
(* other, before anything else of the node (synchronous=True).             *)
(***************************************************************************)
EXTENDS Integers, Sequences, Functions

CONSTANTS
    Dial,       \* MACs
    None,
    MaxDials,   \* SL2_MAX_DIALS
    Lists,      \* bound: the action lists of automations, over slots
    MaxTime     \* bound: bonds made

ConstantsAssumption ==
    /\ None \notin Dial /\ MaxDials \in Nat \ {0} /\ MaxTime \in Nat
    /\ Lists \subseteq Seq(Int)

VARIABLES
    bonds,      \* the bond table
    bondedAt,   \* history: when each Link was bonded last
    clock,      \* history: bonds made so far
    pairing,    \* the window is open
    cand,       \* the candidate that has to confirm
    source,     \* selected_source_id_: a Link, or None for the heat pump
    shown,      \* the position the room-source dropdown shows
    rows,       \* the diagnostics rows: a MAC, and (history) its bondedAt
    plan,       \* what an automation has decided: actions to play
    list,       \* those of a running list still to play
    asSeen      \* history: the list started with the table its author saw,
                \* and names its slots from the last to the first

vars == <<bonds, bondedAt, clock, pairing, cand, source, shown, rows, plan, list,
          asSeen>>

Without(s, i) == SubSeq(s, 1, i - 1) \o SubSeq(s, i + 1, Len(s))

(* Mutant: the last bond fills the hole. *)
RemovedSwapping(s, i) == SubSeq([s EXCEPT ![i] = s[Len(s)]], 1, Len(s) - 1)

(* sl2_link_forget_dial closes the hole. *)
Removed(s, i) == Without(s, i)

Position(id, table) ==
    IF id \in Range(table) THEN CHOOSE i \in DOMAIN table : table[i] = id ELSE 0

(* Mutant: the dropdown waits for the loop. *)
ReconciledLater(table) ==
    /\ source' = IF source \in Range(table) THEN source ELSE None
    /\ UNCHANGED shown

(* room_source_reconcile_, refresh_room_source_select_ *)
Reconciled(table) ==
    /\ source' = IF source \in Range(table) THEN source ELSE None
    /\ shown' = Position(source', table)

Unchanged == UNCHANGED <<bonds, pairing, cand, source, shown>>

(* forget_dial_mac; nothing changes when the table cannot be saved. *)
ForgetMac(d) ==
    \/ /\ d \in Range(bonds)
       /\ bonds' = Removed(bonds, Position(d, bonds))
       /\ IF cand = d THEN pairing' = FALSE /\ cand' = None ELSE UNCHANGED <<pairing, cand>>
       /\ Reconciled(bonds')
    \/ /\ d \notin Range(bonds) /\ d = cand /\ d # None
       /\ pairing' = FALSE /\ cand' = None
       /\ Reconciled(bonds) /\ UNCHANGED bonds
    \/ /\ d \notin Range(bonds) => d # cand \/ d = None
       /\ Unchanged

(* sl2_link_dial_mac *)
SlotMac(i) == IF i \in 0..(Len(bonds) - 1) THEN bonds[i + 1] ELSE None

(* ForgetDialAction::play *)
Played(t) == IF t.how = "mac" THEN t.mac ELSE SlotMac(t.slot)

(* One action of the running list. *)
Play ==
    /\ list # <<>>
    /\ ForgetMac(Played(Head(list)))
    /\ list' = Tail(list)
    /\ UNCHANGED <<bondedAt, clock, rows, plan, asSeen>>

(* Mutant: actions are deferred, the loop runs in between. *)
AtRestAlways == TRUE

(* What else happens on the node happens between lists. *)
AtRest == list = <<>>

(* forget_all_dials, by automation or by button *)
ForgetAll ==
    /\ AtRest
    /\ \/ /\ bonds' = <<>> /\ pairing' = FALSE /\ cand' = None
          /\ Reconciled(<<>>)
       \/ Unchanged
    /\ UNCHANGED <<bondedAt, clock, rows, plan, list, asSeen>>

(* PairLinkButton, PairStartAction; a window that is open is extended. *)
PairStart ==
    /\ AtRest /\ pairing' = TRUE
    /\ UNCHANGED <<bonds, bondedAt, clock, cand, source, shown, rows, plan, list, asSeen>>

(* PairCancelAction, or the window times out *)
PairCancel ==
    /\ AtRest /\ pairing /\ pairing' = FALSE /\ cand' = None
    /\ UNCHANGED <<bonds, bondedAt, clock, source, shown, rows, plan, list, asSeen>>

(* A request, and its confirmation: a Link that is bonded keeps its slot. *)
PairReq(d) ==
    /\ AtRest /\ pairing /\ cand = None
    /\ d \in Range(bonds) \/ Len(bonds) < MaxDials
    /\ cand' = d
    /\ UNCHANGED <<bonds, bondedAt, clock, pairing, source, shown, rows, plan, list, asSeen>>

PairConfirm ==
    /\ AtRest /\ cand # None /\ clock < MaxTime
    /\ bonds' = IF cand \in Range(bonds) THEN bonds ELSE Append(bonds, cand)
    /\ clock' = clock + 1
    /\ bondedAt' = IF cand \in Range(bonds) THEN bondedAt ELSE [bondedAt EXCEPT ![cand] = clock']
    /\ pairing' = FALSE /\ cand' = None
    /\ UNCHANGED <<source, shown, rows, plan, list, asSeen>>

(* publish_diagnostics_, once a second. *)
ShowRows ==
    /\ AtRest
    /\ rows' = [i \in DOMAIN bonds |-> [mac |-> bonds[i], time |-> bondedAt[bonds[i]]]]
    /\ UNCHANGED <<bonds, bondedAt, clock, pairing, cand, source, shown, plan, list, asSeen>>

(* The room source is chosen from the dropdown. *)
Select(id) ==
    /\ AtRest /\ id \in Range(bonds) \cup {None}
    /\ source' = id /\ shown' = Position(id, bonds)
    /\ UNCHANGED <<bonds, bondedAt, clock, pairing, cand, rows, plan, list, asSeen>>

(* An automation is written, or a template of it evaluated: by what the    *)
(* rows show (_exactly_one_target: a slot, or a MAC).                      *)
Seen(how, i) ==
    LET row == IF i + 1 \in DOMAIN rows THEN rows[i + 1] ELSE [mac |-> None, time |-> 0]
    IN  [how |-> how, slot |-> i, mac |-> row.mac, time |-> row.time]

Decide(how, slots) ==
    /\ AtRest /\ plan = <<>>
    /\ how = "mac" => \A i \in DOMAIN slots : slots[i] + 1 \in DOMAIN rows
    /\ plan' = [i \in DOMAIN slots |-> Seen(how, slots[i])]
    /\ UNCHANGED <<bonds, bondedAt, clock, pairing, cand, source, shown, rows, list, asSeen>>

Descending(ts) == \A i, j \in DOMAIN ts : i < j => ts[i].slot > ts[j].slot

(* It runs. *)
Run ==
    /\ AtRest /\ plan # <<>>
    /\ list' = plan /\ plan' = <<>>
    /\ asSeen' = (Descending(plan) /\ \A i \in DOMAIN plan : SlotMac(plan[i].slot) = plan[i].mac)
    /\ UNCHANGED <<bonds, bondedAt, clock, pairing, cand, source, shown, rows>>

Init ==
    /\ bonds = <<>> /\ bondedAt = [d \in Dial |-> 0] /\ clock = 0
    /\ pairing = FALSE /\ cand = None /\ source = None /\ shown = 0
    /\ rows = <<>> /\ plan = <<>> /\ list = <<>> /\ asSeen = TRUE

Next ==
    \/ Play \/ ForgetAll \/ PairStart \/ PairCancel \/ PairConfirm \/ ShowRows \/ Run
    \/ \E d \in Dial : PairReq(d)
    \/ \E id \in Dial \cup {None} : Select(id)
    \/ \E how \in {"slot", "mac"}, slots \in Lists : Decide(how, slots)

Spec == Init /\ [][Next]_vars

----------------------------------------------------------------------------
(* Types, and no Link twice. *)
TypeOK ==
    /\ bonds \in Seq(Dial) /\ Len(bonds) <= MaxDials
    /\ IsInjective(bonds)
    /\ source \in Dial \cup {None} /\ shown \in 0..MaxDials /\ rows \in Seq([mac : Dial, time : 0..MaxTime])
    /\ cand \in Dial \cup {None} /\ (cand # None => pairing)

(* However late an action plays, it never forgets a Link that was bonded   *)
(* before the one its author saw in the slot: a slot left empty by others  *)
(* is taken by later ones.  One that names a MAC forgets that Link or none.*)
NeverAnOlderLink ==
    list # <<>> /\ bonds' # bonds =>
      LET t == Head(list)
          d == CHOOSE x \in Range(bonds) \ Range(bonds') : TRUE
      IN  /\ t.how = "slot" /\ t.mac # None => bondedAt[d] >= t.time
          /\ t.how = "mac" => d = t.mac

(* A list that forgets slots from the last to the first, and starts with   *)
(* the table its author saw, forgets the Links that were seen, whatever    *)
(* could not be saved: nothing of the node comes in between.               *)
ListHitsSeen ==
    list # <<>> /\ asSeen /\ bonds' # bonds =>
      Range(bonds) \ Range(bonds') \subseteq {Head(list).mac}

(* The dropdown shows the Link that is the room source, at its slot, as    *)
(* soon as an action has moved it; a forgotten Link is no source.          *)
ShownIsSource ==
    /\ source \in Range(bonds) \cup {None}
    /\ shown = Position(source, bonds)
=============================================================================
