---------------------------- MODULE KeyExpansion ----------------------------
(***************************************************************************)
(* HKDF (sl2_sha256.h: sl2_hkdf_sha256 over sl2_hmac_sha256), which makes  *)
(* the key of a bond.  A digest is symbolic: its bytes are known only by   *)
(* what was digested and their place, so two are equal exactly when they   *)
(* must be.  HashStream is about how the digest itself is computed.        *)
(***************************************************************************)
EXTENDS Integers, Sequences

CONSTANTS
    Block,      \* bytes of a block of the hash
    HashLen,    \* bytes of a digest
    CtrLimit,   \* values of the block counter, a uint8_t
    Lengths,    \* bound: lengths of the salts and the infos tried
    MaxOut      \* bound: bytes asked for

ConstantsAssumption ==
    /\ Block \in Nat \ {0} /\ HashLen \in 1..Block /\ CtrLimit \in Nat \ {0, 1}
    /\ Lengths \subseteq Nat /\ MaxOut \in 0..((CtrLimit - 1) * HashLen)

VARIABLES
    prk,        \* the extracted key
    info, want, \* what to expand it with, and how many bytes
    t,          \* the block of output before
    out,
    ctr

vars == <<prk, info, want, t, out, ctr>>

(* Bytes: a number, a byte of an input, or a byte of a digest. *)
Octet(n) == <<"octet", n>>
Text(name, n) == [i \in 1..n |-> <<name, i>>]
Digest(kind, of) == [i \in 1..HashLen |-> <<kind, of, i>>]

(* Mutant: a key of exactly one block is hashed too. *)
KeyBlockEager(key) ==
    LET k == IF Len(key) >= Block THEN Digest("hash", key) ELSE key
    IN  [i \in 1..Block |-> IF i <= Len(k) THEN k[i] ELSE Octet(0)]

(* A longer key is hashed, a shorter one filled up. *)
KeyBlock(key) ==
    LET k == IF Len(key) > Block THEN Digest("hash", key) ELSE key
    IN  [i \in 1..Block |-> IF i <= Len(k) THEN k[i] ELSE Octet(0)]

(* sl2_hmac_sha256: its two hashes keep apart all that differs. *)
Hmac(key, text) == Digest("hmac", <<KeyBlock(key), text>>)

Extract(salt, ikm) ==
    Hmac(IF salt = <<>> THEN [i \in 1..HashLen |-> Octet(0)] ELSE salt, ikm)

(* What is missing of the output, from a block of it. *)
Take(s) ==
    LET missing == want - Len(out)
    IN  SubSeq(s, 1, IF missing < HashLen THEN missing ELSE HashLen)

(* Mutant: the block before does not go into the next. *)
InputUnchained == info \o <<Octet(ctr)>>

Input == t \o info \o <<Octet(ctr)>>

(* One turn of the loop. *)
Expand ==
    /\ Len(out) < want
    /\ t' = Hmac(prk, Input)
    /\ out' = out \o Take(t')
    /\ ctr' = (ctr + 1) % CtrLimit
    /\ UNCHANGED <<prk, info, want>>

(* sl2_derive_lmk asks with a salt of two ephemerals and a fixed info. *)
Init ==
    /\ \E s \in Lengths : prk = Extract(Text("salt", s), Text("secret", 1))
    /\ \E n \in Lengths : info = Text("info", n)
    /\ want \in 0..MaxOut
    /\ t = <<>> /\ out = <<>> /\ ctr = 1

Next == Expand

Spec == Init /\ [][Next]_vars

----------------------------------------------------------------------------
(* The counter is a byte; no more is written than the caller has room for. *)
TypeOK ==
    /\ ctr \in 0..(CtrLimit - 1) /\ want \in 0..MaxOut
    /\ Len(out) <= want /\ Len(t) \in {0, HashLen}

(* RFC 2104: the key, or its hash when longer than a block, and zeros.     *)
HmacRfc(key, text) ==
    LET k == IF Len(key) <= Block THEN key ELSE Digest("hash", key)
    IN  Digest("hmac", <<k \o [i \in 1..(Block - Len(k)) |-> Octet(0)], text>>)

(* RFC 5869: T(n) is made from T(n-1), info and n. *)
Rfc[n \in Nat] ==
    IF n = 0 THEN <<>> ELSE HmacRfc(prk, Rfc[n - 1] \o info \o <<Octet(n)>>)

(* The output is the beginning of T(1), T(2), ... of RFC 5869, as every    *)
(* other adapter derives it.                                               *)
AsOtherAdapters ==
    \A i \in DOMAIN out :
        out[i] = Rfc[((i - 1) \div HashLen) + 1][((i - 1) % HashLen) + 1]

(* The extraction of a salt is that of RFC 5869, an absent one being zeros.*)
Extracted ==
    \E s \in Lengths : prk = HmacRfc(Text("salt", s), Text("secret", 1))
=============================================================================
