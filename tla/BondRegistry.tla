---------------------------- MODULE BondRegistry ----------------------------
(***************************************************************************)
(* What the bond table promises, with nothing of how pairing, slots, the   *)
(* radio or the store work: a registry of bonds, one per dial, that        *)
(* survives power loss, and the part of it the running controller serves.  *)
(* The registry changes by one bond at a time -- a dial is bonded or       *)
(* bonded again under the identity it is pinned to, a dial is forgotten -- *)
(* or is cleared.  What is served changes with it, or the power is gone.   *)
(* A boot that could not read the registry serves nothing, and its first   *)
(* change overwrites the registry.                                         *)
(***************************************************************************)
EXTENDS Naturals, FiniteSets

CONSTANTS Mac, Id, Key, Capacity

VARIABLES
    registry,   \* the durable bonds
    served,     \* the bonds the running controller acts on
    unread      \* this boot could not read the registry

vars == <<registry, served, unread>>

Entry == [mac : Mac, lmk : Key, id : Id]

Of(m, bonds) == {b \in bonds : b.mac = m}

Init ==
    /\ registry \in SUBSET Entry
    /\ \A b, c \in registry : b.mac = c.mac => b = c
    /\ Cardinality(registry) <= Capacity
    /\ served = {} /\ unread = FALSE

(* The change is durable first; then it is served, unless power is lost. *)
Change(from, to) ==
    /\ registry' = to
    /\ \/ served = from /\ served' = to
       \/ served' = {}
    /\ unread' = FALSE

(* The bonds a change starts from: none, when they could not be read. *)
Known == IF unread THEN {} ELSE registry

Pair(b) ==
    /\ \A c \in Of(b.mac, Known) : c.id = b.id
    /\ Cardinality((Known \ Of(b.mac, Known)) \cup {b}) <= Capacity
    /\ Change(Known, (Known \ Of(b.mac, Known)) \cup {b})

Forget(m) ==
    /\ Of(m, Known) # {}
    /\ Change(Known, Known \ Of(m, Known))

Clear == Change(served, {})

Boot ==
    /\ registry' = registry
    /\ \/ served' = registry /\ unread' = FALSE
       \/ served' = served /\ unread' = (served = {})

PowerLoss == registry' = registry /\ served' = {} /\ unread' = FALSE

Next ==
    \/ \E b \in Entry : Pair(b)
    \/ \E m \in Mac : Forget(m)
    \/ Clear
    \/ Boot
    \/ PowerLoss

Spec == Init /\ [][Next]_vars
=============================================================================
