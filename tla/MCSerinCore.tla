---------------------------- MODULE MCSerinCore ----------------------------
(* Small instances of SerinCore for TLC. *)
EXTENDS SerinCore, TLC

CONSTANTS m1, m2, m3, i1, i2, d1, d2

(* Init and Next treat every dial alike, and every identity and ephemeral. *)
Symmetry ==
    Permutations(Mac) \cup Permutations(Id) \cup Permutations(DialEph)

(* What two comments say of the program, and the code does not do.         *)

(* sl2_bond.h of SL2_BOND_F_EPOCH: "re-pairing the dial resets it with the *)
(* rest of the bond".  pair_commit makes every bond with the flag set.     *)
RepairResetsLatch ==
    [][\A i \in DOMAIN stored, j \in DOMAIN stored' :
         (stored[i].mac = stored'[j].mac /\ stored[i].lmk # stored'[j].lmk)
         => ~stored'[j].latched]_vars

(* sl2_link.h lists what sl2_link_pair_result returns. *)
DocumentedResult ==
    result \in {"idle", "listening", "confirming", "paired", "timeout", "full",
                "pin-mismatch", "storage-error"}
=============================================================================
