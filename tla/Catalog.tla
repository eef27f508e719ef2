------------------------------- MODULE Catalog -------------------------------
(***************************************************************************)
(* The catalog of room sources, read by a dial page by page while dials    *)
(* are bonded and forgotten (serin_link.cpp: room_catalog_revision_,       *)
(* room_catalog_entry_, room_catalog_page, room_source_set; sl2_link.c:    *)
(* on_recv, serve_pulls; sl2_proto.h: the source ids).                     *)
(*                                                                         *)
(* The controller keeps nothing between the pages.  The dial, which is not *)
(* in this repository, does as docs/serin-link-wire-spec.md says: it       *)
(* stages pages of one revision, shows them when the last has come, and    *)
(* reads again when INFO tells another revision.  It asks again only when  *)
(* nothing is on the way.  The revision, a hash of the ids in their order, *)
(* is the ids in their order.                                              *)
(***************************************************************************)
EXTENDS Integers, Sequences, SequencesExt

CONSTANTS
    Dial,
    Ext,         \* external sources, as the YAML lists them
    PageMax,     \* SL2_ROOM_CATALOG_PAGE_MAX
    MaxChanges,  \* dials bonded or forgotten
    MaxLoss      \* frames lost

ConstantsAssumption ==
    /\ Ext \in Seq(ToSet(Ext))
    /\ PageMax \in Nat \ {0} /\ MaxChanges \in Nat /\ MaxLoss \in Nat

Internal == [ns |-> 0, of |-> "internal"]
LinkId(d) == [ns |-> 1, of |-> d]      \* sl2_room_source_mac_id
ExtId(x)  == [ns |-> 4, of |-> x]      \* sl2_room_source_name_id
Done == -1                             \* SL2_ROOM_CATALOG_DONE

VARIABLES
    slots,     \* the bonded dials, in slot order
    request,   \* room_catalog_req and _cursor of the dial: a cursor, or Done
    resp,      \* the page on its way to the dial, or Nothing
    stage,     \* the dial: revision, entries so far, next cursor
    list,      \* the dial: revision and entries on its screen
    ack,       \* the answer to the last selection
    changes, losses

vars == <<slots, request, resp, stage, list, ack, changes, losses>>

Nothing == [none |-> TRUE]
Idle    == [rev |-> <<>>, entries |-> <<>>, next |-> Done]

----------------------------------------------------------------------------
Ids(sl) == <<Internal>> \o [i \in DOMAIN Ext |-> ExtId(Ext[i])]
                        \o [i \in DOMAIN sl |-> LinkId(sl[i])]

(* Mutant: the hash does not depend on the order. *)
RevisionSorted(sl) == SetToSeq(ToSet(Ids(sl)))

(* Mutant: Links are counted, not hashed. *)
RevisionCount(sl) == <<Len(sl)>>

(* room_catalog_revision_ *)
Revision(sl) == Ids(sl)

(* room_catalog_entry_: Links are named by their slot. *)
Entry(sl, i) ==
    [id   |-> Ids(sl)[i],
     name |-> CASE i = 1 -> <<"Heat pump">>
                [] i - 1 \in DOMAIN Ext -> <<Ext[i - 1]>>
                [] OTHER -> <<"Serin Link", i - 1 - Len(Ext)>>]

Entries(sl) == [i \in DOMAIN Ids(sl) |-> Entry(sl, i)]

(* Mutant: a full page always has a next one. *)
NextCursorFull(sl, cursor, n) == IF n = PageMax THEN cursor + n ELSE Done

(* Mutant: the next page starts with the last entry of this one. *)
NextCursorBack(sl, cursor, n) ==
    IF n = PageMax /\ cursor + n < Len(Ids(sl)) THEN cursor + n - 1 ELSE Done

(* The look-ahead of room_catalog_page. *)
NextCursor(sl, cursor, n) ==
    IF n = PageMax /\ cursor + n < Len(Ids(sl)) THEN cursor + n ELSE Done

(* room_catalog_page *)
Page(sl, cursor) ==
    LET all == Entries(sl)
        es  == SubSeq(all, cursor + 1, IF cursor + PageMax < Len(all)
                                       THEN cursor + PageMax ELSE Len(all))
    IN  [none |-> FALSE, rev |-> Revision(sl), entries |-> es,
         next |-> NextCursor(sl, cursor, Len(es))]

(* room_source_set: the revision first, then the id. *)
SetResult(sl, rev, id) ==
    IF rev # Revision(sl) THEN "stale catalog"
    ELSE IF id \notin ToSet(Ids(sl)) THEN "bad source" ELSE "ok"

----------------------------------------------------------------------------
(* The dial's request, latched by sl2_link_on_recv. *)
Ask ==
    /\ request = Done /\ resp = Nothing
    /\ stage.next # Done
    /\ \/ request' = stage.next /\ UNCHANGED losses
       \/ losses < MaxLoss /\ losses' = losses + 1 /\ UNCHANGED request
    /\ UNCHANGED <<slots, resp, stage, list, ack, changes>>

(* serve_pulls in a later loop. *)
Serve ==
    /\ request # Done
    /\ request' = Done
    /\ \/ resp' = Page(slots, request) /\ UNCHANGED losses
       \/ losses < MaxLoss /\ losses' = losses + 1 /\ UNCHANGED resp
    /\ UNCHANGED <<slots, stage, list, ack, changes>>

(* The dial takes a page; one of another revision makes it start anew. *)
Take ==
    /\ resp # Nothing
    /\ resp' = Nothing
    /\ LET all == stage.entries \o resp.entries IN
       IF stage.entries # <<>> /\ resp.rev # stage.rev
       THEN stage' = [Idle EXCEPT !.next = 0] /\ UNCHANGED list
       ELSE IF resp.next = Done
       THEN stage' = Idle /\ list' = [rev |-> resp.rev, entries |-> all]
       ELSE /\ stage' = [rev |-> resp.rev, entries |-> all, next |-> resp.next]
            /\ UNCHANGED list
    /\ UNCHANGED <<slots, request, ack, changes, losses>>

(* INFO tells the dial the revision; it reads the catalog if it has not. *)
Info ==
    /\ stage = Idle /\ list.rev # Revision(slots)
    /\ stage' = [Idle EXCEPT !.next = 0]
    /\ UNCHANGED <<slots, request, resp, list, ack, changes, losses>>

(* The dial selects what it shows; the controller answers. *)
Select(i) ==
    /\ i \in DOMAIN list.entries
    /\ ack' = [entry  |-> list.entries[i],
               result |-> SetResult(slots, list.rev, list.entries[i].id)]
    /\ UNCHANGED <<slots, request, resp, stage, list, changes, losses>>

(* A dial is bonded after the others, or forgotten: those after it move.   *)
Bond(d) ==
    /\ d \notin ToSet(slots) /\ changes < MaxChanges
    /\ slots' = Append(slots, d) /\ changes' = changes + 1
    /\ UNCHANGED <<request, resp, stage, list, ack, losses>>

Forget(i) ==
    /\ i \in DOMAIN slots /\ changes < MaxChanges
    /\ slots' = RemoveAt(slots, i) /\ changes' = changes + 1
    /\ UNCHANGED <<request, resp, stage, list, ack, losses>>

Init ==
    /\ slots = <<>> /\ request = Done /\ resp = Nothing
    /\ stage = Idle /\ list = [rev |-> <<>>, entries |-> <<>>]
    /\ ack = [entry |-> Nothing, result |-> "none"]
    /\ changes = 0 /\ losses = 0

Next == \/ Ask \/ Serve \/ Take \/ Info
        \/ \E i \in 1..(1 + Len(Ext) + MaxChanges) : Select(i)
        \/ \E d \in Dial : Bond(d)
        \/ \E i \in 1..MaxChanges : Forget(i)

(* The dial repeats its requests, the loop serves them. *)
Fairness == WF_vars(Ask) /\ WF_vars(Serve) /\ WF_vars(Take) /\ WF_vars(Info)

Spec == Init /\ [][Next]_vars

----------------------------------------------------------------------------
(* However the bonds changed between the pages, what the dial shows is the *)
(* catalog of one moment, whole and with the names of that moment.         *)
ListIsACatalog ==
    list.rev # <<>> =>
        \E sl \in UNION {[1..n -> Dial] : n \in 0..MaxChanges} :
            Revision(sl) = list.rev /\ Entries(sl) = list.entries

(* A selection is accepted only if the source still has the name under     *)
(* which the dial offered it, though Links are named by slots that move.   *)
AcceptedAsShown ==
    ack' # ack /\ ack'.result = "ok" => ack'.entry \in ToSet(Entries(slots))

(* A page without entries is sent only when the catalog got shorter while  *)
(* it was read, never because it ended with a full page.                   *)
EmptyOnlyIfChanged ==
    resp # Nothing /\ resp.entries = <<>> => stage.rev # resp.rev

(* When the bonds stay as they are, the dial ends up showing the catalog.  *)
CatalogArrives == <>[](list.entries = Entries(slots))
=============================================================================
