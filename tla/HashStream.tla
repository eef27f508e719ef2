----------------------------- MODULE HashStream -----------------------------
(***************************************************************************)
(* The streaming half of SHA-256 (sl2_sha256.h: init, update, final), from *)
(* which HMAC, the key derivation and the pairing proof are made.  The     *)
(* compression function is abstract: the chaining state after a number of  *)
(* blocks is what was compressed, in order, so the digest of a message is  *)
(* right when and only when the bytes compressed are.  Two builds that     *)
(* disagree here derive different keys.                                    *)
(***************************************************************************)
EXTENDS Integers, Sequences

CONSTANTS
    Base,       \* the values of a byte are 0..Base-1
    Bits,       \* bits of a byte
    Mark,       \* 0x80
    Block,      \* bytes of a block
    LenBytes,   \* bytes of the length that closes the last block
    Weight,     \* what each of them counts, the first one most
    MaxPiece,   \* bound: bytes of one update
    MaxMsg      \* bound: bytes of a message

ASSUME ConstantsAssumption ==
    /\ Base \in Nat \ {0} /\ Bits \in Nat \ {0} /\ Mark \in 0..(Base - 1)
    /\ Block \in Nat /\ LenBytes \in 1..(Block - 1)
    /\ Weight \in [1..LenBytes -> Nat \ {0}]
    /\ MaxPiece \in Nat /\ MaxMsg \in Nat

VARIABLES
    phase,      \* "open", then "pad" in final, then "out"
    hashed,     \* what has been compressed: stands for state[8]
    buf,        \* the unfinished block
    bitlen,
    left,       \* what a running update has still to copy
    bl,         \* final's copy of bitlen
    msg,        \* history: the message
    pad         \* history: the padding

vars == <<phase, hashed, buf, bitlen, left, bl, msg, pad>>

Byte == 0..(Base - 1)

(* Big-endian, one byte after another. *)
LengthField(n) == [i \in 1..LenBytes |-> (n \div Weight[i]) % Base]

(* Mutant: the length of the message before is kept. *)
ReinitKeepsLength ==
    /\ phase = "out" /\ phase' = "open"
    /\ hashed' = <<>> /\ buf' = <<>> /\ msg' = <<>> /\ pad' = <<>>
    /\ UNCHANGED <<left, bl, bitlen>>

(* sl2_sha256_init on a context that has been used (the two passes of HMAC) *)
Reinit ==
    /\ phase = "out" /\ phase' = "open"
    /\ hashed' = <<>> /\ buf' = <<>> /\ bitlen' = 0 /\ msg' = <<>> /\ pad' = <<>>
    /\ UNCHANGED <<left, bl>>

Update(piece) ==
    /\ phase = "open" /\ left = <<>> /\ Len(msg) + Len(piece) <= MaxMsg
    /\ left' = piece /\ msg' = msg \o piece
    /\ bitlen' = bitlen + Bits * Len(piece)
    /\ UNCHANGED <<phase, hashed, buf, bl, pad>>

(* Mutant: what did not fit into the block is forgotten. *)
CopyDropsRest ==
    /\ left # <<>> /\ left' = <<>>
    /\ LET n == IF Block - Len(buf) > Len(left) THEN Len(left) ELSE Block - Len(buf)
           b == buf \o SubSeq(left, 1, n)
       IN  IF Len(b) = Block
           THEN hashed' = hashed \o b /\ buf' = <<>>
           ELSE buf' = b /\ UNCHANGED hashed
    /\ UNCHANGED <<phase, bitlen, bl, msg, pad>>

(* One turn of update's loop. *)
Copy ==
    /\ left # <<>>
    /\ LET n == IF Block - Len(buf) > Len(left) THEN Len(left) ELSE Block - Len(buf)
           b == buf \o SubSeq(left, 1, n)
       IN  /\ left' = SubSeq(left, n + 1, Len(left))
           /\ IF Len(b) = Block
              THEN hashed' = hashed \o b /\ buf' = <<>>
              ELSE buf' = b /\ UNCHANGED hashed
    /\ UNCHANGED <<phase, bitlen, bl, msg, pad>>

(* final: the mark, ... *)
Final ==
    /\ phase = "open" /\ left = <<>>
    /\ phase' = "pad" /\ bl' = bitlen
    /\ left' = <<Mark>> /\ pad' = <<Mark>> /\ bitlen' = bitlen + Bits
    /\ UNCHANGED <<hashed, buf, msg>>

(* Mutant: a message of less than a block is padded into a second one. *)
RoomForLengthFromNext == Len(buf) = Block - LenBytes /\ Len(hashed) >= Block

RoomForLength == Len(buf) = Block - LenBytes

(* ... zeros, by update, ... *)
PadZero ==
    /\ phase = "pad" /\ left = <<>> /\ ~RoomForLength
    /\ left' = <<0>> /\ pad' = Append(pad, 0) /\ bitlen' = bitlen + Bits
    /\ UNCHANGED <<phase, hashed, buf, bl, msg>>

(* ... and the length, past update. *)
Finish ==
    /\ phase = "pad" /\ left = <<>> /\ RoomForLength
    /\ hashed' = (hashed \o buf) \o LengthField(bl) /\ buf' = <<>> /\ phase' = "out"
    /\ UNCHANGED <<bitlen, left, bl, msg, pad>>

Pieces == UNION {[1..n -> Byte] : n \in 0..MaxPiece}

Init ==
    /\ phase = "open" /\ hashed = <<>> /\ buf = <<>> /\ left = <<>>
    /\ bitlen = 0 /\ bl = 0 /\ msg = <<>> /\ pad = <<>>

Next ==
    \/ \E piece \in Pieces : Update(piece)
    \/ Copy \/ Final \/ PadZero \/ Finish \/ Reinit

Spec == Init /\ [][Next]_vars

----------------------------------------------------------------------------
(* Types; the buffer never holds a whole block. *)
TypeOK ==
    /\ phase \in {"open", "pad", "out"}
    /\ hashed \in Seq(Byte) /\ left \in Seq(Byte) /\ msg \in Seq(Byte) /\ pad \in Seq(Byte)
    /\ buf \in Seq(Byte) /\ Len(buf) < Block
    /\ bitlen \in Nat /\ bl \in Nat

(* However a message is cut into updates, each of its bytes goes in once,  *)
(* in order: compressed, in the buffer, or still to be copied.             *)
NothingLost == phase # "out" => hashed \o (buf \o left) = msg \o pad

(* A digest is that of the message, its padding and its length, whatever   *)
(* the context was used for before.                                        *)
DigestOfMessage ==
    phase = "out" => hashed = (msg \o pad) \o LengthField(Bits * Len(msg))

(* Both, of a buffer that never holds a whole block between two copies.     *)
StreamIsRight == TypeOK /\ NothingLost /\ DigestOfMessage

(* Only whole blocks are compressed, and the padding is the mark and the   *)
(* fewest zeros that bring the length to the end of one.                   *)
WholeBlocks ==
    /\ Len(hashed) % Block = 0
    /\ phase = "out" =>
         /\ pad[1] = Mark /\ \A i \in 2..Len(pad) : pad[i] = 0
         /\ \A n \in 1..(Len(pad) - 1) : (Len(msg) + n + LenBytes) % Block # 0
=============================================================================
