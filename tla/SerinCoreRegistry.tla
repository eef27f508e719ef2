------------------------- MODULE SerinCoreRegistry -------------------------
(* The pairing core implements the bond registry.                          *)
EXTENDS SerinCore

(* A bond as the registry knows it: its slot and its replay latch are not  *)
(* part of the promise.                                                    *)
EntryOf(bond) == [mac |-> bond.mac, lmk |-> bond.lmk, id |-> bond.id]

Entries(table) == {EntryOf(table[i]) : i \in DOMAIN table}

Registry == INSTANCE BondRegistry WITH
    Key      <- [dial : DialEph, ctrl : 0..MaxWindows],
    Capacity <- MaxDials,
    registry <- Entries(stored),
    served   <- Entries(dials),
    unread   <- blind

(* Every step of the core -- handlers, refused saves, restarts, power lost *)
(* between the save and what follows it -- is a step of the registry or    *)
(* leaves it alone.                                                        *)
ImplementsRegistry == Registry!Spec
=============================================================================
