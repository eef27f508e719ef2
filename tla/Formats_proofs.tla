--------------------------- MODULE Formats_proofs ---------------------------
(***************************************************************************)
(* Theorems about what is computed: a streamed digest, a catalog read page *)
(* by page, and the configuration.  A behaviour is one of the part that    *)
(* runs, so each has an inductive invariant of its own, which holds in its *)
(* scenario whatever the constants are.                                    *)
(***************************************************************************)
EXTENDS Formats, SequenceTheorems, WellFoundedInduction, TLAPS

----------------------------------------------------------------------------
(* The digest. *)

(* The lengths final needs: of the message while it grows, then kept.      *)
LengthKnown ==
    /\ phase = "open" => bitlen = Bits * Len(msg) /\ pad = <<>>
    /\ phase # "open" => bl = Bits * Len(msg)
    /\ phase = "out" => left = <<>> /\ buf = <<>>

HashInv == TypeOK /\ NothingLost /\ LengthKnown /\ DigestOfMessage

----------------------------------------------------------------------------
(* The length field is a sequence of bytes. *)
LEMMA LengthFieldIsBytes ==
    ASSUME NEW n \in Nat
    PROVE  LengthField(n) \in Seq(Byte) /\ Len(LengthField(n)) = LenBytes
<1>1. \A i \in 1..LenBytes : (n \div Weight[i]) % Base \in Byte
  <2>1. SUFFICES ASSUME NEW i \in 1..LenBytes
                 PROVE  (n \div Weight[i]) % Base \in Byte
    OBVIOUS
  <2>2. Weight[i] \in Nat \ {0}
    BY ConstantsAssumption
  <2>3. n \div Weight[i] \in Int
    BY <2>2
  <2>4. QED
    BY <2>3, ConstantsAssumption DEF Byte
<1>2. LenBytes \in Nat
  BY ConstantsAssumption
<1>3. LengthField(n) \in [1..LenBytes -> Byte]
  BY <1>1 DEF LengthField
<1>4. QED
  BY <1>2, <1>3

(* Concatenation of bytes is associative: the form the steps below use. *)
LEMMA BytesAssociate ==
    \A s, t, u \in Seq(Byte) : (s \o t) \o u = s \o (t \o u)
<1>1. SUFFICES ASSUME NEW s \in Seq(Byte), NEW t \in Seq(Byte), NEW u \in Seq(Byte)
               PROVE  (s \o t) \o u = s \o (t \o u)
  OBVIOUS
<1>2. QED
  BY ConcatAssociative

(* Cutting a sequence and appending its front elsewhere moves no byte. *)
LEMMA Moved ==
    ASSUME NEW s \in Seq(Byte), NEW t \in Seq(Byte), NEW u \in Seq(Byte),
           NEW n \in 0..Len(u)
    PROVE  /\ SubSeq(u, 1, n) \in Seq(Byte) /\ Len(SubSeq(u, 1, n)) = n
           /\ SubSeq(u, n + 1, Len(u)) \in Seq(Byte)
           /\ s \o ((t \o SubSeq(u, 1, n)) \o SubSeq(u, n + 1, Len(u))) = s \o (t \o u)
<1>1. Len(u) \in Nat /\ \A i \in 1..Len(u) : u[i] \in Byte
  BY LenProperties
<1>2. SubSeq(u, 1, n) \in Seq(Byte) /\ Len(SubSeq(u, 1, n)) = n
  <2>1. \A i \in 1..n : u[i] \in Byte
    BY <1>1
  <2>2. QED
    BY <1>1, <2>1, SubSeqProperties
<1>3. SubSeq(u, n + 1, Len(u)) \in Seq(Byte)
  <2>1. \A i \in (n + 1)..Len(u) : u[i] \in Byte
    BY <1>1
  <2>2. n + 1 \in Int /\ Len(u) \in Int
    BY <1>1
  <2>3. QED
    BY <2>1, <2>2, SubSeqProperties
<1>4. SubSeq(u, 1, n) \o SubSeq(u, n + 1, Len(u)) = SubSeq(u, 1, Len(u))
  <2>1. 1 \in 1..(Len(u) + 1) /\ n \in (1 - 1)..Len(u) /\ Len(u) \in n..Len(u)
    BY <1>1
  <2>2. QED
    BY <2>1, ConcatAdjacentSubSeq
<1>5. SubSeq(u, 1, Len(u)) = u
  BY SubSeqFull
<1>6. (t \o SubSeq(u, 1, n)) \o SubSeq(u, n + 1, Len(u))
        = t \o (SubSeq(u, 1, n) \o SubSeq(u, n + 1, Len(u)))
  BY <1>2, <1>3, BytesAssociate
<1>7. QED
  BY <1>2, <1>3, <1>4, <1>5, <1>6

----------------------------------------------------------------------------
LEMMA HashInit == Init => HashInv
<1>1. SUFFICES ASSUME Init PROVE HashInv
  OBVIOUS
<1>2. TypeOK
  BY <1>1, ConstantsAssumption, EmptySeq DEF Init, TypeOK
<1>3. NothingLost
  BY <1>1, <1>2, ConcatEmptySeq, EmptySeq DEF Init, NothingLost, TypeOK
<1>4. LengthKnown /\ DigestOfMessage
  BY <1>1, EmptySeq, ConstantsAssumption DEF Init, LengthKnown, DigestOfMessage
<1>5. QED
  BY <1>2, <1>3, <1>4 DEF HashInv

LEMMA UpdateKeeps ==
    ASSUME HashInv, NEW piece \in Pieces, Update(piece)
    PROVE  HashInv'
<1>1. piece \in Seq(Byte)
  BY DEF Pieces
<1>2. /\ phase = "open" /\ left = <<>> /\ left' = piece /\ msg' = msg \o piece
      /\ bitlen' = bitlen + Bits * Len(piece)
      /\ UNCHANGED <<phase, hashed, buf, bl, pad>>
  BY DEF Update
<1>3. /\ TypeOK /\ hashed \o (buf \o left) = msg \o pad
      /\ bitlen = Bits * Len(msg) /\ pad = <<>>
  BY <1>2 DEF HashInv, NothingLost, LengthKnown
<1>4. msg \o piece \in Seq(Byte) /\ Len(msg \o piece) = Len(msg) + Len(piece)
  BY <1>1, <1>3, ConcatProperties DEF TypeOK
<1>5. bitlen' = Bits * Len(msg')
  <2>1. Len(msg) \in Nat /\ Len(piece) \in Nat /\ Bits \in Nat
    BY <1>1, <1>3, LenProperties, ConstantsAssumption DEF TypeOK
  <2>2. Bits * (Len(msg) + Len(piece)) = Bits * Len(msg) + Bits * Len(piece)
    BY <2>1
  <2>3. QED
    BY <1>2, <1>3, <1>4, <2>2
<1>6. TypeOK'
  <2>1. bitlen' \in Nat
    BY <1>1, <1>2, <1>3, LenProperties, ConstantsAssumption DEF TypeOK
  <2>2. QED
    BY <1>1, <1>2, <1>3, <1>4, <2>1 DEF TypeOK
<1>7. NothingLost'
  <2>1. buf \o left = buf /\ msg \o pad = msg /\ msg' \o pad' = msg \o piece
    BY <1>2, <1>3, <1>4, ConcatEmptySeq DEF TypeOK
  <2>2. hashed \o (buf \o piece) = (hashed \o buf) \o piece
    <3>1. hashed \in Seq(Byte) /\ buf \in Seq(Byte)
      BY <1>3 DEF TypeOK
    <3>2. QED
      BY <1>1, <3>1, BytesAssociate
  <2>3. QED
    BY <1>2, <1>3, <2>1, <2>2 DEF NothingLost
<1>8. LengthKnown' /\ DigestOfMessage'
  BY <1>2, <1>3, <1>5 DEF LengthKnown, DigestOfMessage
<1>9. QED
  BY <1>6, <1>7, <1>8 DEF HashInv

LEMMA CopyKeeps ==
    ASSUME HashInv, Copy
    PROVE  HashInv'
<1> DEFINE n == IF Block - Len(buf) > Len(left) THEN Len(left) ELSE Block - Len(buf)
           b == buf \o SubSeq(left, 1, n)
<1>1. /\ left # <<>> /\ left' = SubSeq(left, n + 1, Len(left))
      /\ IF Len(b) = Block THEN hashed' = hashed \o b /\ buf' = <<>>
                           ELSE buf' = b /\ hashed' = hashed
      /\ UNCHANGED <<phase, bitlen, bl, msg, pad>>
  BY DEF Copy
<1>2. TypeOK /\ phase # "out"
  BY <1>1 DEF HashInv, LengthKnown
<1>3. n \in 0..Len(left) /\ Len(buf) + n <= Block
  <2>1. Len(buf) \in Nat /\ Len(left) \in Nat /\ Block \in Nat /\ Len(buf) < Block
    BY <1>2, LenProperties, ConstantsAssumption DEF TypeOK
  <2>2. QED
    BY <2>1
<1> HIDE DEF n
<1>4. /\ SubSeq(left, 1, n) \in Seq(Byte) /\ Len(SubSeq(left, 1, n)) = n
      /\ left' \in Seq(Byte)
      /\ hashed \o (b \o left') = hashed \o (buf \o left)
  <2>1. hashed \in Seq(Byte) /\ buf \in Seq(Byte) /\ left \in Seq(Byte)
    BY <1>2 DEF TypeOK
  <2>2. /\ SubSeq(left, 1, n) \in Seq(Byte) /\ Len(SubSeq(left, 1, n)) = n
        /\ SubSeq(left, n + 1, Len(left)) \in Seq(Byte)
        /\ hashed \o ((buf \o SubSeq(left, 1, n)) \o SubSeq(left, n + 1, Len(left)))
             = hashed \o (buf \o left)
    BY <1>3, <2>1, Moved
  <2>3. QED
    BY <1>1, <2>2
<1>5. b \in Seq(Byte) /\ Len(b) = Len(buf) + n
  BY <1>2, <1>4, ConcatProperties DEF TypeOK
<1> HIDE DEF b
<1>6. CASE Len(b) = Block
  <2>1. hashed' = hashed \o b /\ buf' = <<>>
    BY <1>1, <1>6
  <2>2. hashed' \in Seq(Byte) /\ buf' \in Seq(Byte) /\ Len(buf') < Block
    BY <1>2, <1>5, <2>1, ConcatProperties, EmptySeq, ConstantsAssumption DEF TypeOK
  <2>3. hashed' \o (buf' \o left') = hashed \o (b \o left')
    <3>1. hashed \in Seq(Byte) /\ left' \in Seq(Byte)
      BY <1>2, <1>4 DEF TypeOK
    <3>2. buf' \o left' = left'
      BY <2>1, <3>1, ConcatEmptySeq
    <3>3. (hashed \o b) \o left' = hashed \o (b \o left')
      BY <1>5, <3>1, BytesAssociate
    <3>4. QED
      BY <2>1, <3>2, <3>3
  <2>4. TypeOK'
    BY <1>1, <1>2, <1>4, <2>2 DEF TypeOK
  <2>5. NothingLost'
    BY <1>1, <1>2, <1>4, <2>3 DEF HashInv, NothingLost
  <2>6. LengthKnown' /\ DigestOfMessage'
    BY <1>1, <1>2 DEF HashInv, LengthKnown, DigestOfMessage
  <2>7. QED
    BY <2>4, <2>5, <2>6 DEF HashInv
<1>7. CASE Len(b) # Block
  <2>1. hashed' = hashed /\ buf' = b
    BY <1>1, <1>7
  <2>2. Len(b) < Block
    <3>1. Len(buf) \in Nat /\ n \in Nat /\ Block \in Nat
      BY <1>2, <1>3, ConstantsAssumption DEF TypeOK
    <3>2. QED
      BY <1>3, <1>5, <1>7, <3>1
  <2>3. TypeOK'
    BY <1>1, <1>2, <1>4, <1>5, <2>1, <2>2 DEF TypeOK
  <2>4. NothingLost'
    BY <1>1, <1>2, <1>4, <2>1 DEF HashInv, NothingLost
  <2>5. LengthKnown' /\ DigestOfMessage'
    BY <1>1, <1>2 DEF HashInv, LengthKnown, DigestOfMessage
  <2>6. QED
    BY <2>3, <2>4, <2>5 DEF HashInv
<1>8. QED
  BY <1>6, <1>7

LEMMA FinalKeeps ==
    ASSUME HashInv, Final
    PROVE  HashInv'
<1>1. /\ phase = "open" /\ left = <<>> /\ phase' = "pad" /\ bl' = bitlen
      /\ left' = <<Mark>> /\ pad' = <<Mark>> /\ bitlen' = bitlen + Bits
      /\ UNCHANGED <<hashed, buf, msg>>
  BY DEF Final
<1>2. /\ TypeOK /\ hashed \o (buf \o left) = msg \o pad
      /\ bitlen = Bits * Len(msg) /\ pad = <<>>
  BY <1>1 DEF HashInv, NothingLost, LengthKnown
<1>3. <<Mark>> \in Seq(Byte)
  BY ConstantsAssumption DEF Byte
<1>4. TypeOK'
  BY <1>1, <1>2, <1>3, ConstantsAssumption DEF TypeOK
<1>5. NothingLost'
  <2>1. buf \o left = buf /\ msg \o pad = msg
    BY <1>1, <1>2, ConcatEmptySeq DEF TypeOK
  <2>2. hashed \o (buf \o <<Mark>>) = (hashed \o buf) \o <<Mark>>
    <3>1. hashed \in Seq(Byte) /\ buf \in Seq(Byte)
      BY <1>2 DEF TypeOK
    <3>2. QED
      BY <1>3, <3>1, BytesAssociate
  <2>3. QED
    BY <1>1, <1>2, <2>1, <2>2 DEF NothingLost
<1>6. LengthKnown' /\ DigestOfMessage'
  BY <1>1, <1>2 DEF LengthKnown, DigestOfMessage
<1>7. QED
  BY <1>4, <1>5, <1>6 DEF HashInv

LEMMA PadZeroKeeps ==
    ASSUME HashInv, PadZero
    PROVE  HashInv'
<1>1. /\ phase = "pad" /\ left = <<>> /\ left' = <<0>> /\ pad' = Append(pad, 0)
      /\ bitlen' = bitlen + Bits /\ UNCHANGED <<phase, hashed, buf, bl, msg>>
  BY DEF PadZero
<1>2. TypeOK /\ hashed \o (buf \o left) = msg \o pad /\ bl = Bits * Len(msg)
  BY <1>1 DEF HashInv, NothingLost, LengthKnown
<1>3. 0 \in Byte /\ <<0>> \in Seq(Byte)
  BY ConstantsAssumption DEF Byte
<1>4. pad' = pad \o <<0>> /\ pad' \in Seq(Byte)
  BY <1>1, <1>2, <1>3, AppendIsConcat, AppendProperties DEF TypeOK
<1>5. TypeOK'
  BY <1>1, <1>2, <1>3, <1>4, ConstantsAssumption DEF TypeOK
<1>6. NothingLost'
  <2>1. buf \o left = buf
    BY <1>1, <1>2, ConcatEmptySeq DEF TypeOK
  <2>2. /\ hashed \o (buf \o <<0>>) = (hashed \o buf) \o <<0>>
        /\ msg \o (pad \o <<0>>) = (msg \o pad) \o <<0>>
    <3>1. hashed \in Seq(Byte) /\ buf \in Seq(Byte) /\ msg \in Seq(Byte) /\ pad \in Seq(Byte)
      BY <1>2 DEF TypeOK
    <3>2. QED
      BY <1>3, <3>1, BytesAssociate
  <2>3. QED
    BY <1>1, <1>2, <1>4, <2>1, <2>2 DEF NothingLost
<1>7. LengthKnown' /\ DigestOfMessage'
  BY <1>1, <1>2 DEF LengthKnown, DigestOfMessage
<1>8. QED
  BY <1>5, <1>6, <1>7 DEF HashInv

LEMMA FinishKeeps ==
    ASSUME HashInv, Finish
    PROVE  HashInv'
<1>1. /\ phase = "pad" /\ left = <<>>
      /\ hashed' = (hashed \o buf) \o LengthField(bl) /\ buf' = <<>> /\ phase' = "out"
      /\ UNCHANGED <<bitlen, left, bl, msg, pad>>
  BY DEF Finish
<1>2. TypeOK /\ hashed \o (buf \o left) = msg \o pad /\ bl = Bits * Len(msg)
  BY <1>1 DEF HashInv, NothingLost, LengthKnown
<1>3. hashed \o buf \in Seq(Byte) /\ hashed \o buf = msg \o pad
  BY <1>1, <1>2, ConcatEmptySeq, ConcatProperties DEF TypeOK
<1>4. hashed' \in Seq(Byte)
  <2>1. LengthField(bl) \in Seq(Byte)
    BY <1>2, LengthFieldIsBytes DEF TypeOK
  <2>2. QED
    BY <1>1, <1>3, <2>1, ConcatProperties
<1>5. TypeOK'
  BY <1>1, <1>2, <1>4, EmptySeq, ConstantsAssumption DEF TypeOK
<1>6. NothingLost' /\ LengthKnown' /\ DigestOfMessage'
  BY <1>1, <1>2, <1>3 DEF NothingLost, LengthKnown, DigestOfMessage
<1>7. QED
  BY <1>5, <1>6 DEF HashInv

LEMMA ReinitKeeps ==
    ASSUME HashInv, Reinit
    PROVE  HashInv'
<1>1. /\ phase = "out" /\ phase' = "open" /\ hashed' = <<>> /\ buf' = <<>>
      /\ bitlen' = 0 /\ msg' = <<>> /\ pad' = <<>> /\ UNCHANGED <<left, bl>>
  BY DEF Reinit
<1>2. TypeOK /\ left = <<>>
  BY <1>1 DEF HashInv, LengthKnown
<1>3. TypeOK'
  BY <1>1, <1>2, EmptySeq, ConstantsAssumption DEF TypeOK
<1>4. NothingLost'
  BY <1>1, <1>2, ConcatEmptySeq, EmptySeq DEF NothingLost
<1>5. LengthKnown' /\ DigestOfMessage'
  BY <1>1, EmptySeq, ConstantsAssumption DEF LengthKnown, DigestOfMessage
<1>6. QED
  BY <1>3, <1>4, <1>5 DEF HashInv

LEMMA StutterKeeps ==
    ASSUME HashInv, UNCHANGED vars
    PROVE  HashInv'
BY DEF vars, HashInv, TypeOK, NothingLost, LengthKnown, DigestOfMessage

LEMMA OnlyTheHash == [FormatsNext]_formatsVars => [Next]_vars
<1>1. formatsVars' = formatsVars => vars' = vars
  BY DEF formatsVars
<1>2. FormatsNext => Next \/ UNCHANGED vars
  <2>1. ASSUME FormatsNext, scenario = "hash" PROVE Next
    BY <2>1 DEF FormatsNext
  <2>2. ASSUME FormatsNext, scenario # "hash" PROVE UNCHANGED vars
    BY <2>2 DEF FormatsNext, OthersRest
  <2>. QED
    BY <2>1, <2>2
<1>. QED
  BY <1>1, <1>2

LEMMA HashKept ==
    /\ FormatsInit => HashInv
    /\ HashInv /\ [FormatsNext]_formatsVars => HashInv'
<1>1. FormatsInit => HashInv
  BY HashInit DEF FormatsInit
<1>2. HashInv /\ [Next]_vars => HashInv'
  BY UpdateKeeps, CopyKeeps, FinalKeeps, PadZeroKeeps, FinishKeeps, ReinitKeeps,
     StutterKeeps DEF Next
<1>. QED
  BY <1>1, <1>2, OnlyTheHash

(* However a message is cut into updates, and whatever the context was     *)
(* used for before, every byte is compressed once and in its order, and a  *)
(* digest is that of the message, its padding and its length               *)
(* (sl2_sha256_update, sl2_sha256_final), for every size of block and of   *)
(* piece.                                                                  *)
THEOREM StreamAlwaysRight == FormatsSpec => []StreamIsRight
<1>1. HashInv => StreamIsRight
  BY DEF HashInv, StreamIsRight
<1>. QED
  BY <1>1, HashKept, PTL DEF FormatsSpec

----------------------------------------------------------------------------
(* The padding. *)

(* Remainders and quotients. *)
LEMMA RemainderUnique ==
    ASSUME NEW n \in Nat \ {0}, NEW p \in Int, NEW q \in Int,
           NEW r \in 0..(n - 1), NEW s \in 0..(n - 1), p * n + r = q * n + s
    PROVE  p = q /\ r = s
<1>1. (p - q) * n = s - r
  OBVIOUS
<1>2. CASE p - q >= 1
  <2>1. (p - q) * n >= n
    BY <1>2
  <2>. QED
    BY <1>1, <2>1
<1>3. CASE p - q <= -1
  <2>1. (p - q) * n <= -n
    BY <1>3
  <2>. QED
    BY <1>1, <2>1
<1>4. CASE p = q
  BY <1>4
<1>. QED
  BY <1>2, <1>3, <1>4

LEMMA Divided ==
    ASSUME NEW n \in Nat \ {0}, NEW x \in Int
    PROVE  x % n \in 0..(n - 1) /\ x \div n \in Int /\ x = (x \div n) * n + (x % n)
OBVIOUS

LEMMA RemainderIs ==
    ASSUME NEW n \in Nat \ {0}, NEW q \in Int, NEW r \in 0..(n - 1)
    PROVE  (q * n + r) % n = r /\ (q * n + r) \div n = q
<1>. DEFINE x == q * n + r
<1>1. x \in Int
  OBVIOUS
<1>2. x % n \in 0..(n - 1) /\ x \div n \in Int /\ x = (x \div n) * n + (x % n)
  BY <1>1, Divided
<1>. QED
  BY <1>2, RemainderUnique

(* Fewer whole blocks than there is room for. *)
LEMMA FewerBlocks ==
    ASSUME NEW n \in Nat \ {0}, NEW p \in Int, NEW q \in Int, p * n < q * n
    PROVE  p + 1 <= q
<1>1. SUFFICES ASSUME q <= p PROVE FALSE
  OBVIOUS
<1>2. (p - q) * n >= 0
  BY <1>1
<1>. QED
  BY <1>2

(* Whole blocks do not change a remainder. *)
LEMMA BlocksAside ==
    ASSUME NEW n \in Nat \ {0}, NEW h \in Nat, h % n = 0, NEW y \in Nat
    PROVE  (h + y) % n = y % n
<1>1. h \div n \in Int /\ h = (h \div n) * n + (h % n)
  BY Divided
<1>2. y \div n \in Int /\ y % n \in 0..(n - 1) /\ y = (y \div n) * n + (y % n)
  BY Divided
<1>. DEFINE p == h \div n
            q == y \div n
            r == y % n
<1>3. h + y = (p + q) * n + r
  <2>1. p \in Int /\ q \in Int /\ r \in Int /\ h = p * n /\ y = q * n + r
    BY <1>1, <1>2
  <2>. HIDE DEF p, q, r
  <2>. QED
    BY <2>1
<1>4. p + q \in Int /\ r \in 0..(n - 1)
  BY <1>1, <1>2
<1>. HIDE DEF p, q, r
<1>5. ((p + q) * n + r) % n = r
  BY <1>4, RemainderIs
<1>. QED
  BY <1>3, <1>5 DEF r

LEMMA BlockAppended ==
    ASSUME NEW n \in Nat \ {0}, NEW h \in Nat, h % n = 0
    PROVE  (h + n) % n = 0
<1>1. (1 * n + 0) % n = 0
  BY RemainderIs
<1>2. n % n = 0
  BY <1>1
<1>. QED
  BY <1>2, BlocksAside

LEMMA NoneEmptied ==
    ASSUME NEW n \in Nat \ {0}
    PROVE  0 % n = 0
<1>1. (0 * n + 0) % n = 0
  BY RemainderIs
<1>. QED
  BY <1>1

(* A byte before the length's place, or behind it, is not at a block's end.*)
LEMMA NotAtTheEnd ==
    ASSUME NEW n \in Nat \ {0}, NEW h \in Nat, h % n = 0, NEW l \in 1..(n - 1),
           NEW b \in 0..(n - 1), b # n - l
    PROVE  (h + (b + l)) % n # 0
<1>. DEFINE y == b + l
<1>1. y \in Nat /\ y # 0 /\ y # n /\ y < 2 * n
  OBVIOUS
<1>2. (h + y) % n = y % n
  BY <1>1, BlocksAside
<1>3. CASE y < n
  <2>1. (0 * n + y) % n = y
    BY <1>1, <1>3, RemainderIs
  <2>2. y % n = y
    BY <1>1, <2>1
  <2>. QED
    BY <1>1, <1>2, <2>2
<1>4. CASE ~(y < n)
  <2>. DEFINE r == y - n
  <2>1. r \in 0..(n - 1) /\ y = 1 * n + r /\ r # 0
    BY <1>1, <1>4
  <2>2. (1 * n + r) % n = r
    BY <2>1, RemainderIs
  <2>3. y % n = r
    BY <2>1, <2>2
  <2>. QED
    BY <1>2, <2>1, <2>3
<1>. QED
  BY <1>3, <1>4

(* The mark, and zeros none of which was one too many. *)
FewestZeros ==
    /\ pad # <<>> /\ pad[1] = Mark /\ \A i \in 2..Len(pad) : pad[i] = 0
    /\ \A n \in 1..(Len(pad) - 1) : (Len(msg) + n + LenBytes) % Block # 0

PadInv ==
    /\ Len(hashed) % Block = 0
    /\ phase # "open" => FewestZeros

LEMMA PadInit == Init => PadInv
<1>. SUFFICES ASSUME Init PROVE PadInv
  OBVIOUS
<1>1. Block \in Nat \ {0}
  BY ConstantsAssumption
<1>2. hashed = <<>> /\ phase = "open"
  BY DEF Init
<1>. QED
  BY <1>1, <1>2, NoneEmptied DEF PadInv

LEMMA CopyPads ==
    ASSUME HashInv, PadInv, Copy PROVE PadInv'
<1>1. Block \in Nat \ {0}
  BY ConstantsAssumption
<1>. DEFINE k == IF Block - Len(buf) > Len(left) THEN Len(left) ELSE Block - Len(buf)
            b == buf \o SubSeq(left, 1, k)
<1>2. /\ (Len(b) = Block /\ hashed' = hashed \o b) \/ hashed' = hashed
      /\ UNCHANGED <<phase, msg, pad>>
  BY DEF Copy
<1>3. /\ hashed \in Seq(Byte) /\ buf \in Seq(Byte) /\ left \in Seq(Byte) /\ Len(buf) < Block
      /\ Len(hashed) % Block = 0
  BY DEF HashInv, TypeOK, PadInv
<1>4. b \in Seq(Byte)
  <2>1. k \in 0..Len(left)
    BY <1>1, <1>3
  <2>. HIDE DEF k
  <2>2. \A i \in 1..k : left[i] \in Byte
    BY <1>3, <2>1
  <2>3. SubSeq(left, 1, k) \in Seq(Byte)
    BY <2>1, <2>2, SubSeqProperties
  <2>. QED
    BY <1>3, <2>3, ConcatProperties
<1>. HIDE DEF b
<1>5. Len(hashed') % Block = 0
  <2>1. CASE Len(b) = Block /\ hashed' = hashed \o b
    <3>1. Len(hashed') = Len(hashed) + Block /\ Len(hashed) \in Nat
      BY <1>3, <1>4, <2>1, ConcatProperties, LenProperties
    <3>. QED
      BY <1>1, <1>3, <3>1, BlockAppended
  <2>2. CASE hashed' = hashed
    BY <1>3, <2>2
  <2>. QED
    BY <1>2, <2>1, <2>2
<1>. QED
  BY <1>2, <1>5 DEF PadInv, FewestZeros

LEMMA FinalPads ==
    ASSUME HashInv, PadInv, Final PROVE PadInv'
<1>1. /\ pad' = <<Mark>> /\ hashed' = hashed
  BY DEF Final
<1>2. Len(pad') = 1 /\ pad' # <<>> /\ pad'[1] = Mark
  BY <1>1
<1>. QED
  BY <1>1, <1>2 DEF PadInv, FewestZeros

LEMMA PadZeroPads ==
    ASSUME HashInv, PadInv, PadZero PROVE PadInv'
<1>1. /\ phase = "pad" /\ left = <<>> /\ pad' = Append(pad, 0) /\ Len(buf) # Block - LenBytes
      /\ UNCHANGED <<phase, hashed, buf, msg>>
  BY DEF PadZero, RoomForLength
<1>2. /\ hashed \in Seq(Byte) /\ buf \in Seq(Byte) /\ msg \in Seq(Byte) /\ pad \in Seq(Byte)
      /\ Len(buf) < Block /\ hashed \o (buf \o left) = msg \o pad
  BY <1>1 DEF HashInv, TypeOK, NothingLost
<1>3. Block \in Nat \ {0} /\ LenBytes \in 1..(Block - 1)
  BY ConstantsAssumption
<1>4. FewestZeros /\ Len(hashed) % Block = 0
  BY <1>1 DEF PadInv
<1>. DEFINE p == Len(pad)
<1>5. p \in Nat \ {0} /\ Len(msg) \in Nat /\ Len(hashed) \in Nat /\ Len(buf) \in Nat
  BY <1>2, <1>4, LenProperties, EmptySeq DEF FewestZeros
<1>6. Len(hashed) + Len(buf) = Len(msg) + p
  <2>1. hashed \o buf = msg \o pad
    BY <1>1, <1>2, ConcatEmptySeq
  <2>. QED
    BY <1>2, <2>1, ConcatProperties
<1>7. (Len(hashed) + (Len(buf) + LenBytes)) % Block # 0
  <2>1. Len(buf) \in 0..(Block - 1)
    BY <1>2, <1>3, <1>5
  <2>. QED
    BY <1>1, <1>3, <1>4, <1>5, <2>1, NotAtTheEnd
<1>8. Len(hashed) + (Len(buf) + LenBytes) = Len(msg) + p + LenBytes
  BY <1>3, <1>5, <1>6
<1>9. /\ Len(pad') = p + 1 /\ pad' # <<>> /\ \A i \in 1..p : pad'[i] = pad[i]
      /\ pad'[p + 1] = 0
  <2>1. pad \in Seq(Byte \cup {0}) /\ 0 \in Byte \cup {0}
    BY <1>2, SeqMonotonic
  <2>. QED
    BY <1>1, <2>1, AppendProperties
<1>. HIDE DEF p
<1>10. \A n \in 1..p : (Len(msg) + n + LenBytes) % Block # 0
  <2>. SUFFICES ASSUME NEW n \in 1..p PROVE (Len(msg) + n + LenBytes) % Block # 0
    OBVIOUS
  <2>1. CASE n = p
    BY <1>7, <1>8, <2>1
  <2>2. CASE n # p
    <3>1. n \in 1..(Len(pad) - 1)
      BY <1>5, <2>2 DEF p
    <3>. QED
      BY <1>4, <3>1 DEF FewestZeros
  <2>. QED
    BY <2>1, <2>2
<1>11. \A i \in 2..(p + 1) : pad'[i] = 0
  <2>1. \A i \in 2..p : pad[i] = 0
    BY <1>4 DEF FewestZeros, p
  <2>. QED
    BY <1>5, <1>9, <2>1
<1>12. pad'[1] = Mark
  BY <1>4, <1>5, <1>9 DEF FewestZeros
<1>13. FewestZeros'
  <2>1. Len(pad') - 1 = p /\ Len(msg') = Len(msg)
    BY <1>1, <1>5, <1>9
  <2>. QED
    BY <1>9, <1>10, <1>11, <1>12, <2>1 DEF FewestZeros
<1>. QED
  BY <1>1, <1>4, <1>13 DEF PadInv

LEMMA FinishPads ==
    ASSUME HashInv, PadInv, Finish PROVE PadInv'
<1>1. /\ phase = "pad" /\ Len(buf) = Block - LenBytes
      /\ hashed' = (hashed \o buf) \o LengthField(bl) /\ UNCHANGED <<msg, pad>>
  BY DEF Finish, RoomForLength
<1>2. hashed \in Seq(Byte) /\ buf \in Seq(Byte) /\ bl \in Nat
  BY DEF HashInv, TypeOK
<1>3. LengthField(bl) \in Seq(Byte) /\ Len(LengthField(bl)) = LenBytes
  BY <1>2, LengthFieldIsBytes
<1>4. Block \in Nat \ {0} /\ LenBytes \in 1..(Block - 1)
  BY ConstantsAssumption
<1>5. Len(hashed') = Len(hashed) + Block /\ Len(hashed) \in Nat
  <2>1. hashed \o buf \in Seq(Byte) /\ Len(hashed \o buf) = Len(hashed) + (Block - LenBytes)
    BY <1>1, <1>2, ConcatProperties
  <2>2. Len(hashed') = Len(hashed \o buf) + LenBytes
    BY <1>1, <1>3, <2>1, ConcatProperties
  <2>3. Len(hashed) \in Nat
    BY <1>2, LenProperties
  <2>. QED
    BY <1>4, <2>1, <2>2, <2>3
<1>6. FewestZeros /\ Len(hashed) % Block = 0
  BY <1>1 DEF PadInv
<1>7. Len(hashed') % Block = 0
  BY <1>4, <1>5, <1>6, BlockAppended
<1>. QED
  BY <1>1, <1>6, <1>7 DEF PadInv, FewestZeros

LEMMA PadKept ==
    ASSUME HashInv, PadInv, [Next]_vars PROVE PadInv'
<1>1. ASSUME NEW piece \in Pieces, Update(piece) PROVE PadInv'
  <2>1. phase = "open" /\ phase' = phase /\ hashed' = hashed
    BY <1>1 DEF Update
  <2>. QED
    BY <2>1 DEF PadInv
<1>2. ASSUME Reinit PROVE PadInv'
  <2>1. phase' = "open" /\ hashed' = <<>> /\ Block \in Nat \ {0}
    BY <1>2, ConstantsAssumption DEF Reinit
  <2>. QED
    BY <2>1, NoneEmptied DEF PadInv
<1>3. ASSUME UNCHANGED vars PROVE PadInv'
  BY <1>3 DEF vars, PadInv, FewestZeros
<1>. QED
  BY <1>1, <1>2, <1>3, CopyPads, FinalPads, PadZeroPads, FinishPads DEF Next

LEMMA PadTells == PadInv => WholeBlocks
BY DEF PadInv, FewestZeros, WholeBlocks

----------------------------------------------------------------------------
(* The catalog. *)

(* What Ids names, and the tables of bonds there can have been.            *)
SourceId == {Pages!Internal} \cup {Pages!ExtId(x) : x \in Pages!ToSet(Ext)}
                             \cup {Pages!LinkId(d) : d \in Dial}

Tables == UNION {[1..n -> Dial] : n \in 0..MaxChanges}

Start == [Pages!Idle EXCEPT !.next = 0]

(* The dial has the first pages of the catalog of table sl. *)
Begun(sl) ==
    /\ stage.rev = Pages!Revision(sl)
    /\ stage.next \in 1..(Len(Pages!Ids(sl)) - 1)
    /\ stage.entries = SubSeq(Pages!Entries(sl), 1, stage.next)

(* A request asks for what comes next, and is answered from a table there  *)
(* was; what is staged and what is shown are of one such table each.       *)
CatalogInv ==
    /\ slots \in Seq(Dial) /\ changes \in 0..MaxChanges /\ Len(slots) <= changes
    /\ request # Pages!Done => request = stage.next /\ resp = Pages!Nothing
    /\ resp # Pages!Nothing =>
         /\ stage.next # Pages!Done
         /\ \E sl \in Tables : resp = Pages!Page(sl, stage.next)
    /\ stage \in {Pages!Idle, Start} \/ \E sl \in Tables : Begun(sl)
    /\ Pages!ListIsACatalog

(* The catalog of a table has an entry for each id, and Heat pump at least.*)
LEMMA EntriesListed ==
    ASSUME Pages!ConstantsAssumption, NEW sl \in Seq(Dial)
    PROVE  /\ Pages!Ids(sl) \in Seq(SourceId)
           /\ Len(Pages!Ids(sl)) \in Nat /\ Len(Pages!Ids(sl)) > 0
           /\ Pages!Entries(sl) \in Seq({Pages!Entry(sl, i) : i \in 1..Len(Pages!Ids(sl))})
           /\ Len(Pages!Entries(sl)) = Len(Pages!Ids(sl))
<1>. DEFINE a == <<Pages!Internal>>
            b == [i \in DOMAIN Ext |-> Pages!ExtId(Ext[i])]
            c == [i \in DOMAIN sl |-> Pages!LinkId(sl[i])]
            ids == Pages!Ids(sl)
<1>1. a \in Seq(SourceId) /\ Len(a) = 1
  BY DEF SourceId
<1>2. b \in Seq(SourceId)
  <2>1. Ext \in Seq(Pages!ToSet(Ext))
    BY DEF Pages!ConstantsAssumption
  <2>2. /\ Len(Ext) \in Nat /\ DOMAIN Ext = 1..Len(Ext)
        /\ \A i \in 1..Len(Ext) : Ext[i] \in Pages!ToSet(Ext)
    BY <2>1, LenProperties, ElementOfSeq
  <2>3. \A i \in 1..Len(Ext) : b[i] \in SourceId
    BY <2>2 DEF SourceId
  <2>. QED
    BY <2>2, <2>3
<1>3. c \in Seq(SourceId)
  <2>1. Len(sl) \in Nat /\ DOMAIN sl = 1..Len(sl) /\ \A i \in 1..Len(sl) : sl[i] \in Dial
    BY LenProperties, ElementOfSeq
  <2>2. \A i \in 1..Len(sl) : c[i] \in SourceId
    BY <2>1 DEF SourceId
  <2>. QED
    BY <2>1, <2>2
<1>4. ids = (a \o b) \o c
  BY DEF Pages!Ids
<1>. HIDE DEF a, b, c
<1>5. ids \in Seq(SourceId) /\ Len(ids) = Len(a) + Len(b) + Len(c)
  <2>1. a \o b \in Seq(SourceId) /\ Len(a \o b) = Len(a) + Len(b)
    BY <1>1, <1>2, ConcatProperties
  <2>2. (a \o b) \o c \in Seq(SourceId) /\ Len((a \o b) \o c) = Len(a \o b) + Len(c)
    BY <1>3, <2>1, ConcatProperties
  <2>. QED
    BY <1>4, <2>1, <2>2
<1>6. Len(ids) \in Nat /\ Len(ids) > 0 /\ DOMAIN ids = 1..Len(ids)
  BY <1>1, <1>2, <1>3, <1>5, LenProperties
<1>7. Pages!Entries(sl) = [i \in 1..Len(ids) |-> Pages!Entry(sl, i)]
  BY <1>6 DEF Pages!Entries
<1>. QED
  BY <1>5, <1>6, <1>7

(* It depends on the table by its ids only, of which the revision consists.*)
LEMMA RevisionTells ==
    ASSUME NEW s, NEW t, Pages!Revision(s) = Pages!Revision(t)
    PROVE  Pages!Entries(s) = Pages!Entries(t) /\ Pages!Ids(s) = Pages!Ids(t)
<1>1. Pages!Ids(s) = Pages!Ids(t)
  BY DEF Pages!Revision
<1>2. Pages!Entries(s) = Pages!Entries(t)
  BY <1>1 DEF Pages!Entries, Pages!Entry
<1>. QED
  BY <1>1, <1>2

LEMMA TablesAreSeq ==
    ASSUME Pages!ConstantsAssumption
    PROVE  /\ Tables \subseteq Seq(Dial)
           /\ \A s \in Seq(Dial) : Len(s) <= MaxChanges => s \in Tables
<1>1. MaxChanges \in Nat
  BY DEF Pages!ConstantsAssumption
<1>2. ASSUME NEW s \in Tables PROVE s \in Seq(Dial)
  <2>1. PICK n \in 0..MaxChanges : s \in [1..n -> Dial]
    BY <1>2 DEF Tables
  <2>. QED
    BY <1>1, <2>1
<1>3. ASSUME NEW s \in Seq(Dial), Len(s) <= MaxChanges PROVE s \in Tables
  <2>1. Len(s) \in 0..MaxChanges /\ s \in [1..Len(s) -> Dial]
    BY <1>1, <1>3, LenProperties
  <2>. QED
    BY <2>1 DEF Tables
<1>. QED
  BY <1>2, <1>3

(* A page goes on where the cursor is, with an entry at least, up to the   *)
(* next cursor or the end.                                                 *)
LEMMA PageContinues ==
    ASSUME Pages!ConstantsAssumption, NEW sl \in Seq(Dial),
           NEW c \in 0..(Len(Pages!Ids(sl)) - 1)
    PROVE  /\ Pages!Page(sl, c).entries # <<>>
           /\ Pages!Page(sl, c).rev = Pages!Revision(sl)
           /\ \E m \in 1..Len(Pages!Ids(sl)) :
                /\ SubSeq(Pages!Entries(sl), 1, c) \o Pages!Page(sl, c).entries
                     = SubSeq(Pages!Entries(sl), 1, m)
                /\ \/ Pages!Page(sl, c).next = m /\ m < Len(Pages!Ids(sl))
                   \/ Pages!Page(sl, c).next = Pages!Done /\ m = Len(Pages!Ids(sl))
<1>. DEFINE all == Pages!Entries(sl)
            L == Len(Pages!Ids(sl))
            m == IF c + PageMax < L THEN c + PageMax ELSE L
            S == {Pages!Entry(sl, i) : i \in 1..Len(Pages!Ids(sl))}
            es == SubSeq(all, c + 1, m)
<1>1. L \in Nat /\ L > 0 /\ all \in Seq(S) /\ Len(all) = L
  BY EntriesListed
<1>2. PageMax \in Nat /\ PageMax > 0 /\ c \in Nat /\ c < L
  BY <1>1 DEF Pages!ConstantsAssumption
<1>3. Pages!Page(sl, c) = [none |-> FALSE, rev |-> Pages!Revision(sl), entries |-> es,
                           next |-> Pages!NextCursor(sl, c, Len(es))]
  BY <1>1 DEF Pages!Page
<1>. HIDE DEF all, S, L
<1>4. m \in (c + 1)..L
  BY <1>1, <1>2
<1>5. Len(es) = m - c
  <2>1. c + 1 \in Int /\ m \in Int /\ \A i \in (c + 1)..m : all[i] \in S
    BY <1>1, <1>2, <1>4
  <2>2. Len(es) = IF c + 1 <= m THEN m - (c + 1) + 1 ELSE 0
    BY <2>1, SubSeqProperties
  <2>. QED
    BY <1>1, <1>2, <1>4, <2>2
<1>6. SubSeq(all, 1, c) \o es = SubSeq(all, 1, m)
  <2>1. 1 \in 1..(Len(all) + 1) /\ c \in (1 - 1)..Len(all) /\ m \in c..Len(all)
    BY <1>1, <1>2, <1>4
  <2>. QED
    BY <1>1, <2>1, ConcatAdjacentSubSeq
<1>7. Pages!NextCursor(sl, c, Len(es))
        = IF Len(es) = PageMax /\ c + Len(es) < L THEN c + Len(es) ELSE Pages!Done
  BY DEF Pages!NextCursor, L
<1>8. \/ Pages!NextCursor(sl, c, Len(es)) = m /\ m < L
      \/ Pages!NextCursor(sl, c, Len(es)) = Pages!Done /\ m = L
  BY <1>1, <1>2, <1>5, <1>7
<1>9. m \in 1..L
  BY <1>1, <1>2, <1>4
<1>. HIDE DEF es, m
<1>10. es # <<>>
  <2>1. Len(es) > 0
    BY <1>2, <1>4, <1>5, <1>1
  <2>. QED
    BY <2>1
<1>. QED
  BY <1>3, <1>6, <1>8, <1>9, <1>10 DEF all, L

LEMMA CatalogInit ==
    ASSUME Pages!ConstantsAssumption, Pages!Init PROVE CatalogInv
<1>1. slots \in Seq(Dial) /\ Len(slots) = 0 /\ changes = 0
  BY DEF Pages!Init
<1>. QED
  BY <1>1 DEF Pages!Init, CatalogInv, Pages!ConstantsAssumption, Pages!ListIsACatalog

(* While the bonds change, the rest of the invariant is not touched.       *)
LEMMA BondsChange ==
    ASSUME Pages!ConstantsAssumption, CatalogInv,
           slots' \in Seq(Dial), Len(slots') <= changes', changes' = changes + 1,
           changes < MaxChanges, UNCHANGED <<request, resp, stage, pageList, ack, losses>>
    PROVE  CatalogInv'
BY DEF CatalogInv, Begun, Pages!ListIsACatalog, Pages!ConstantsAssumption

LEMMA BondKeeps ==
    ASSUME Pages!ConstantsAssumption, CatalogInv, NEW d \in Dial, Pages!Bond(d)
    PROVE  CatalogInv'
<1>1. /\ changes < MaxChanges /\ slots' = Append(slots, d) /\ changes' = changes + 1
      /\ UNCHANGED <<request, resp, stage, pageList, ack, losses>>
  BY DEF Pages!Bond
<1>2. slots \in Seq(Dial) /\ changes \in Nat /\ Len(slots) <= changes
  BY DEF CatalogInv, Pages!ConstantsAssumption
<1>3. slots' \in Seq(Dial) /\ Len(slots') = Len(slots) + 1 /\ Len(slots) \in Nat
  BY <1>1, <1>2, AppendProperties, LenProperties
<1>4. Len(slots') <= changes'
  BY <1>1, <1>2, <1>3
<1>. QED
  BY <1>1, <1>3, <1>4, BondsChange

LEMMA ForgetKeeps ==
    ASSUME Pages!ConstantsAssumption, CatalogInv, NEW i \in 1..MaxChanges, Pages!Forget(i)
    PROVE  CatalogInv'
<1>1. /\ i \in DOMAIN slots /\ changes < MaxChanges /\ changes' = changes + 1
      /\ slots' = SubSeq(slots, 1, i - 1) \o SubSeq(slots, i + 1, Len(slots))
      /\ UNCHANGED <<request, resp, stage, pageList, ack, losses>>
  BY DEF Pages!Forget, Pages!RemoveAt
<1>2. slots \in Seq(Dial) /\ changes \in Nat /\ Len(slots) <= changes
  BY DEF CatalogInv, Pages!ConstantsAssumption
<1>3. /\ Len(slots) \in Nat /\ i \in 1..Len(slots)
      /\ \A j \in 1..Len(slots) : slots[j] \in Dial
  BY <1>1, <1>2, LenProperties, ElementOfSeq
<1>. DEFINE a == SubSeq(slots, 1, i - 1)
            b == SubSeq(slots, i + 1, Len(slots))
<1>4. a \in Seq(Dial) /\ Len(a) = i - 1
  BY <1>2, <1>3
<1>5. b \in Seq(Dial) /\ Len(b) = Len(slots) - i
  BY <1>2, <1>3
<1>6. slots' = a \o b
  BY <1>1
<1>. HIDE DEF a, b
<1>7. slots' \in Seq(Dial) /\ Len(slots') = Len(a) + Len(b)
  BY <1>4, <1>5, <1>6, ConcatProperties
<1>8. Len(slots') <= changes'
  <2>1. Len(slots') = Len(slots) - 1
    BY <1>3, <1>4, <1>5, <1>7
  <2>2. changes' = changes + 1
    BY <1>1
  <2>. QED
    BY <1>2, <1>3, <2>1, <2>2
<1>. QED
  BY <1>1, <1>7, <1>8, BondsChange

LEMMA AskKeeps ==
    ASSUME Pages!ConstantsAssumption, CatalogInv, Pages!Ask PROVE CatalogInv'
<1>1. /\ resp = Pages!Nothing /\ request' \in {request, stage.next} /\ request = Pages!Done
      /\ UNCHANGED <<slots, resp, stage, pageList, ack, changes>>
  BY DEF Pages!Ask
<1>. QED
  BY <1>1 DEF CatalogInv, Begun, Pages!ListIsACatalog

LEMMA ServeKeeps ==
    ASSUME Pages!ConstantsAssumption, CatalogInv, Pages!Serve PROVE CatalogInv'
<1>1. /\ request # Pages!Done /\ request' = Pages!Done
      /\ resp' \in {resp, Pages!Page(slots, request)}
      /\ UNCHANGED <<slots, stage, pageList, ack, changes>>
  BY DEF Pages!Serve
<1>2. request = stage.next /\ resp = Pages!Nothing /\ stage.next # Pages!Done
  BY <1>1 DEF CatalogInv
<1>3. slots \in Tables
  <2>1. slots \in Seq(Dial) /\ Len(slots) <= MaxChanges
    <3>1. slots \in Seq(Dial) /\ Len(slots) <= changes /\ changes \in 0..MaxChanges
      BY DEF CatalogInv
    <3>2. Len(slots) \in Nat
      BY <3>1, LenProperties
    <3>. QED
      BY <3>1, <3>2 DEF Pages!ConstantsAssumption
  <2>. QED
    BY <2>1, TablesAreSeq
<1>4. resp' # Pages!Nothing => \E sl \in Tables : resp' = Pages!Page(sl, stage'.next)
  BY <1>1, <1>2, <1>3
<1>. QED
  BY <1>1, <1>2, <1>4 DEF CatalogInv, Begun, Pages!ListIsACatalog

(* A response to the dial is of a table and goes on where its stage ends.  *)
LEMMA ResponseFits ==
    ASSUME Pages!ConstantsAssumption, CatalogInv, resp # Pages!Nothing
    PROVE  \E sl \in Tables :
             /\ resp = Pages!Page(sl, stage.next)
             /\ resp.rev = Pages!Revision(sl)
             /\ \/ /\ stage = Start /\ stage.next = 0
                   /\ stage.entries = SubSeq(Pages!Entries(sl), 1, stage.next)
                \/ stage.entries # <<>> /\ \E t \in Tables : Begun(t)
<1>1. PICK sl \in Tables : resp = Pages!Page(sl, stage.next)
  BY DEF CatalogInv
<1>2. resp.rev = Pages!Revision(sl)
  BY <1>1 DEF Pages!Page
<1>3. stage.next # Pages!Done
  BY DEF CatalogInv
<1>4. CASE stage \in {Pages!Idle, Start}
  <2>1. stage = Start
    BY <1>3, <1>4 DEF Pages!Idle
  <2>2. stage.next = 0 /\ stage.entries = <<>>
    BY <2>1 DEF Start, Pages!Idle
  <2>3. SubSeq(Pages!Entries(sl), 1, 0) = <<>>
    BY SubSeqEmpty
  <2>. QED
    BY <1>1, <1>2, <2>1, <2>2, <2>3
<1>5. CASE \E t \in Tables : Begun(t)
  <2>1. PICK t \in Tables : Begun(t)
    BY <1>5
  <2>2. t \in Seq(Dial)
    BY TablesAreSeq
  <2>. DEFINE all == Pages!Entries(t)
              S == {Pages!Entry(t, i) : i \in 1..Len(Pages!Ids(t))}
  <2>3. all \in Seq(S) /\ Len(all) \in Nat /\ Len(Pages!Ids(t)) = Len(all)
    BY <2>2, EntriesListed
  <2>4. stage.entries = SubSeq(all, 1, stage.next) /\ stage.next \in 1..(Len(all) - 1)
    BY <2>1, <2>3 DEF Begun
  <2>. HIDE DEF all, S
  <2>5. Len(SubSeq(all, 1, stage.next)) = stage.next /\ stage.next > 0
    BY <2>3, <2>4
  <2>6. stage.entries # <<>>
    BY <2>4, <2>5
  <2>. QED
    BY <1>1, <1>2, <1>5, <2>6
<1>. QED
  BY <1>4, <1>5 DEF CatalogInv

LEMMA TakeKeeps ==
    ASSUME Pages!ConstantsAssumption, CatalogInv, Pages!Take PROVE CatalogInv'
<1>. DEFINE joined == stage.entries \o resp.entries
<1>1. /\ resp # Pages!Nothing /\ resp' = Pages!Nothing
      /\ IF stage.entries # <<>> /\ resp.rev # stage.rev
         THEN stage' = Start /\ UNCHANGED pageList
         ELSE IF resp.next = Pages!Done
         THEN stage' = Pages!Idle /\ pageList' = [rev |-> resp.rev, entries |-> joined]
         ELSE /\ stage' = [rev |-> resp.rev, entries |-> joined, next |-> resp.next]
              /\ UNCHANGED pageList
      /\ UNCHANGED <<slots, request, ack, changes, losses>>
  BY DEF Pages!Take, Start
<1>2. request' = Pages!Done
  BY <1>1 DEF CatalogInv
<1>3. /\ slots' \in Seq(Dial) /\ changes' \in 0..MaxChanges /\ Len(slots') <= changes'
      /\ Pages!ListIsACatalog
  BY <1>1 DEF CatalogInv
<1>4. CASE stage.entries # <<>> /\ resp.rev # stage.rev
  <2>1. stage' = Start /\ pageList' = pageList
    BY <1>1, <1>4
  <2>. QED
    BY <1>1, <1>2, <1>3, <2>1 DEF CatalogInv, Pages!ListIsACatalog
<1>5. CASE ~(stage.entries # <<>> /\ resp.rev # stage.rev)
  <2>1. PICK sl \in Tables :
             /\ resp = Pages!Page(sl, stage.next)
             /\ resp.rev = Pages!Revision(sl)
             /\ \/ /\ stage = Start /\ stage.next = 0
                   /\ stage.entries = SubSeq(Pages!Entries(sl), 1, stage.next)
                \/ stage.entries # <<>> /\ \E t \in Tables : Begun(t)
    BY <1>1, ResponseFits
  <2>2. sl \in Seq(Dial) /\ Len(Pages!Ids(sl)) \in Nat /\ Len(Pages!Ids(sl)) > 0
    BY TablesAreSeq, EntriesListed
  <2>3. /\ stage.next \in 0..(Len(Pages!Ids(sl)) - 1)
        /\ stage.entries = SubSeq(Pages!Entries(sl), 1, stage.next)
    <3>1. CASE stage = Start /\ stage.next = 0
                /\ stage.entries = SubSeq(Pages!Entries(sl), 1, stage.next)
      BY <2>2, <3>1
    <3>2. CASE stage.entries # <<>> /\ \E t \in Tables : Begun(t)
      <4>1. PICK t \in Tables : Begun(t)
        BY <3>2
      <4>2. Pages!Revision(t) = Pages!Revision(sl)
        BY <1>5, <2>1, <3>2, <4>1 DEF Begun
      <4>3. Pages!Entries(t) = Pages!Entries(sl) /\ Pages!Ids(t) = Pages!Ids(sl)
        BY <4>2, RevisionTells
      <4>. QED
        BY <2>2, <4>1, <4>3 DEF Begun
    <3>. QED
      BY <2>1, <3>1, <3>2
  <2>4. PICK m \in 1..Len(Pages!Ids(sl)) :
          /\ joined = SubSeq(Pages!Entries(sl), 1, m)
          /\ \/ resp.next = m /\ m < Len(Pages!Ids(sl))
             \/ resp.next = Pages!Done /\ m = Len(Pages!Ids(sl))
    BY <2>1, <2>2, <2>3, PageContinues
  <2>. HIDE DEF joined
  <2>5. CASE resp.next = Pages!Done
    <3>1. m = Len(Pages!Ids(sl))
      BY <2>2, <2>4, <2>5 DEF Pages!Done
    <3>2. joined = Pages!Entries(sl)
      BY <2>2, <2>4, <3>1, EntriesListed, SubSeqFull
    <3>3. stage' = Pages!Idle /\ pageList' = [rev |-> resp.rev, entries |-> joined]
      BY <1>1, <1>5, <2>5
    <3>4. Pages!Revision(sl) = pageList'.rev /\ Pages!Entries(sl) = pageList'.entries
      BY <2>1, <3>2, <3>3
    <3>5. Pages!ListIsACatalog'
      BY <3>4 DEF Pages!ListIsACatalog, Tables
    <3>. QED
      BY <1>1, <1>2, <1>3, <3>3, <3>5 DEF CatalogInv
  <2>6. CASE resp.next # Pages!Done
    <3>1. resp.next = m /\ m < Len(Pages!Ids(sl))
      BY <2>4, <2>6
    <3>2. /\ stage' = [rev |-> resp.rev, entries |-> joined, next |-> resp.next]
          /\ pageList' = pageList
      BY <1>1, <1>5, <2>6
    <3>3. Begun(sl)'
      <4>1. m \in 1..(Len(Pages!Ids(sl)) - 1)
        BY <2>2, <2>4, <3>1
      <4>. QED
        BY <2>1, <2>4, <3>1, <3>2, <4>1 DEF Begun
    <3>. QED
      BY <1>1, <1>2, <1>3, <3>2, <3>3 DEF CatalogInv, Pages!ListIsACatalog
  <2>. QED
    BY <2>5, <2>6
<1>. QED
  BY <1>4, <1>5

LEMMA InfoKeeps ==
    ASSUME Pages!ConstantsAssumption, CatalogInv, Pages!Info PROVE CatalogInv'
<1>1. /\ stage = Pages!Idle /\ stage' = Start
      /\ UNCHANGED <<slots, request, resp, pageList, ack, changes, losses>>
  BY DEF Pages!Info, Start
<1>2. stage.next = Pages!Done
  BY <1>1 DEF Pages!Idle
<1>3. request = Pages!Done /\ resp = Pages!Nothing
  BY <1>2 DEF CatalogInv
<1>. QED
  BY <1>1, <1>3 DEF CatalogInv, Pages!ListIsACatalog

LEMMA SelectKeeps ==
    ASSUME Pages!ConstantsAssumption, CatalogInv, NEW i, Pages!Select(i)
    PROVE  CatalogInv' /\ Pages!AcceptedAsShown
<1>1. /\ i \in DOMAIN pageList.entries
      /\ ack' = [entry  |-> pageList.entries[i],
                 result |-> Pages!SetResult(slots, pageList.rev, pageList.entries[i].id)]
      /\ UNCHANGED <<slots, request, resp, stage, pageList, changes, losses>>
  BY DEF Pages!Select
<1>2. CatalogInv'
  BY <1>1 DEF CatalogInv, Begun, Pages!ListIsACatalog
<1>3. ASSUME ack'.result = "ok" PROVE ack'.entry \in Pages!ToSet(Pages!Entries(slots))
  <2>1. pageList.rev = Pages!Revision(slots)
    BY <1>1, <1>3 DEF Pages!SetResult
  <2>2. Len(Pages!Ids(slots)) > 0
    BY EntriesListed DEF CatalogInv
  <2>3. Pages!Revision(slots) # <<>>
    BY <2>2 DEF Pages!Revision
  <2>4. PICK sl \in Tables :
          Pages!Revision(sl) = pageList.rev /\ Pages!Entries(sl) = pageList.entries
    BY <2>1, <2>3 DEF CatalogInv, Pages!ListIsACatalog, Tables
  <2>5. Pages!Entries(slots) = pageList.entries
    BY <2>1, <2>4, RevisionTells
  <2>. QED
    BY <1>1, <2>5 DEF Pages!ToSet
<1>. QED
  BY <1>2, <1>3 DEF Pages!AcceptedAsShown

(* A page without entries would be past the end of the table it is of.     *)
LEMMA CatalogTells ==
    ASSUME Pages!ConstantsAssumption, CatalogInv
    PROVE  Pages!ListIsACatalog /\ Pages!EmptyOnlyIfChanged
<1>1. ASSUME resp # Pages!Nothing, resp.entries = <<>>, stage.rev = resp.rev PROVE FALSE
  <2>1. PICK sl \in Tables :
             /\ resp = Pages!Page(sl, stage.next)
             /\ resp.rev = Pages!Revision(sl)
             /\ \/ /\ stage = Start /\ stage.next = 0
                   /\ stage.entries = SubSeq(Pages!Entries(sl), 1, stage.next)
                \/ stage.entries # <<>> /\ \E t \in Tables : Begun(t)
    BY <1>1, ResponseFits
  <2>2. sl \in Seq(Dial) /\ Len(Pages!Ids(sl)) \in Nat /\ Len(Pages!Ids(sl)) > 0
    BY TablesAreSeq, EntriesListed
  <2>3. stage.next \in 0..(Len(Pages!Ids(sl)) - 1)
    <3>1. CASE stage.next = 0
      BY <2>2, <3>1
    <3>2. CASE \E t \in Tables : Begun(t)
      <4>1. PICK t \in Tables : Begun(t)
        BY <3>2
      <4>2. Pages!Ids(t) = Pages!Ids(sl)
        BY <1>1, <2>1, <4>1, RevisionTells DEF Begun
      <4>. QED
        BY <2>2, <4>1, <4>2 DEF Begun
    <3>. QED
      BY <2>1, <3>1, <3>2
  <2>. QED
    BY <1>1, <2>1, <2>2, <2>3, PageContinues
<1>. QED
  BY <1>1 DEF CatalogInv, Pages!EmptyOnlyIfChanged

LEMMA CatalogActs ==
    ASSUME Pages!ConstantsAssumption, CatalogInv, Pages!Next
    PROVE  CatalogInv' /\ Pages!AcceptedAsShown
<1>1. CASE \E i \in 1..(1 + Len(Ext) + MaxChanges) : Pages!Select(i)
  BY <1>1, SelectKeeps
<1>2. CASE Pages!Ask \/ Pages!Serve \/ Pages!Take \/ Pages!Info
  <2>1. CatalogInv'
    BY <1>2, AskKeeps, ServeKeeps, TakeKeeps, InfoKeeps
  <2>2. ack' = ack
    BY <1>2 DEF Pages!Ask, Pages!Serve, Pages!Take, Pages!Info
  <2>. QED
    BY <2>1, <2>2 DEF Pages!AcceptedAsShown
<1>3. CASE (\E d \in Dial : Pages!Bond(d)) \/ \E i \in 1..MaxChanges : Pages!Forget(i)
  <2>1. CatalogInv'
    BY <1>3, BondKeeps, ForgetKeeps
  <2>2. ack' = ack
    BY <1>3 DEF Pages!Bond, Pages!Forget
  <2>. QED
    BY <2>1, <2>2 DEF Pages!AcceptedAsShown
<1>. QED
  BY <1>1, <1>2, <1>3 DEF Pages!Next

CatalogService == scenario = "catalog" => CatalogInv

LEMMA CatalogServiceKept ==
    /\ FormatsInit => CatalogService
    /\ CatalogService /\ [FormatsNext]_formatsVars => CatalogService'
<1>1. Pages!ConstantsAssumption
  BY InstancesAssumption DEF InstancesAssumption
<1>2. FormatsInit => CatalogService
  BY <1>1, CatalogInit DEF FormatsInit, CatalogService
<1>3. CatalogService /\ [FormatsNext]_formatsVars => CatalogService'
  <2>. SUFFICES ASSUME CatalogService, [FormatsNext]_formatsVars, scenario' = "catalog"
                PROVE  CatalogInv'
    BY DEF CatalogService
  <2>1. scenario = "catalog" /\ CatalogInv
    BY DEF FormatsNext, formatsVars, CatalogService
  <2>2. CASE Pages!Next
    BY <1>1, <2>1, <2>2, CatalogActs
  <2>3. CASE UNCHANGED <<slots, request, resp, stage, pageList, ack, changes, losses>>
    BY <2>1, <2>3 DEF CatalogInv, Begun, Pages!ListIsACatalog
  <2>4. Pages!Next \/ UNCHANGED <<slots, request, resp, stage, pageList, ack, changes, losses>>
    BY <2>1 DEF FormatsNext, formatsVars, pages
  <2>. QED
    BY <2>2, <2>3, <2>4
<1>. QED
  BY <1>2, <1>3

(* However the bonds change between the pages, in tables of every size and *)
(* pages of every length, and whatever frames are lost, what a dial shows  *)
(* is the catalog of one moment, a page is empty only if the catalog became*)
(* shorter, and a selection is accepted only under the name it was offered *)
(* under (room_catalog_page, room_catalog_revision_, room_source_set).     *)
THEOREM CatalogsAreOfOneMoment == FormatsSpec => CatalogIsOfOneMoment
<1>. DEFINE A == scenario = "catalog" =>
                   /\ Pages!ListIsACatalog' /\ Pages!EmptyOnlyIfChanged'
                   /\ Pages!AcceptedAsShown
<1>1. Pages!ConstantsAssumption
  BY InstancesAssumption DEF InstancesAssumption
<1>2. CatalogService /\ FormatsNext => A
  <2>. SUFFICES ASSUME CatalogService, FormatsNext, scenario = "catalog"
                PROVE  /\ Pages!ListIsACatalog' /\ Pages!EmptyOnlyIfChanged'
                       /\ Pages!AcceptedAsShown
    OBVIOUS
  <2>1. Pages!Next /\ CatalogInv
    BY DEF FormatsNext, CatalogService
  <2>2. CatalogInv' /\ Pages!AcceptedAsShown
    BY <1>1, <2>1, CatalogActs
  <2>3. Pages!ListIsACatalog' /\ Pages!EmptyOnlyIfChanged'
    BY <1>1, <2>2, CatalogTells, PTL
  <2>. QED
    BY <2>2, <2>3
<1>. HIDE DEF A
<1>3. FormatsSpec => [][A]_formatsVars
  BY <1>2, CatalogServiceKept, PTL DEF FormatsSpec
<1>. QED
  BY <1>3 DEF CatalogIsOfOneMoment, A

----------------------------------------------------------------------------
(* The configuration of the slots. *)

(* Rows there are, or none.                                                *)
Fitting(r) == r = absent \/ r \in 0..MaxDials

(* What validation makes of a configuration.                               *)
Validated(c) ==
    /\ Fitting(c.rows) /\ Fitting(c.sensorRows) /\ Fitting(SlotKeys!Stated(c))
    /\ c.rowScreen => c.screen
    /\ c.devices \notin {absent, 0} => c.rows = c.devices
    /\ SlotKeys!Stated(c) # absent =>
         c.rows = SlotKeys!Stated(c) /\ c.sensorRows \in {absent, SlotKeys!Stated(c)}

(* What to_code makes of that: a limit has its rows, and the dropdown is   *)
(* sized by the limit or by the table.                                     *)
Sized(b) ==
    /\ b.maxLinks # 0 => b.rows = b.maxLinks /\ b.sensorRows \in {0, b.maxLinks}
    /\ b.options # 0 =>
         /\ b.maxLinks # 0 => b.options = 1 + Sources + b.maxLinks
         /\ b.maxLinks = 0 /\ b.rows + b.sensorRows = 0 =>
              b.options = 1 + Sources + MaxDials

(* What validated stays so until it is edited, and what was built from it  *)
(* longer.                                                                 *)
SlotsInv ==
    /\ SlotKeys!TypeOK
    /\ confPhase \in {"valid", "built"} => Validated(conf)
    /\ confPhase = "built" => confBuilt.rows = SlotKeys!Count(conf.rows)
    /\ Sized(confBuilt)
    /\ SlotKeys!ScreenRowsReport

LEMMA AbsentIsNoNumber ==
    ASSUME SlotKeys!ConstantsAssumption
    PROVE  /\ MaxDials \in Nat /\ MaxDials > 0 /\ Sources \in Nat /\ DeviceCounts \subseteq Nat
           /\ absent \notin Int /\ bare \notin Int /\ absent # bare
BY DEF SlotKeys!ConstantsAssumption

LEMMA SlotsInit ==
    ASSUME SlotKeys!ConstantsAssumption, SlotKeys!Init PROVE SlotsInv
BY AbsentIsNoNumber DEF SlotKeys!Init, SlotsInv, SlotKeys!TypeOK, SlotKeys!NotBuilt, Sized,
   SlotKeys!ScreenRowsReport

(* Which fields there are, of every configuration.                         *)
LEMMA ConfigFields ==
    ASSUME SlotKeys!ConstantsAssumption, NEW c \in SlotKeys!Config
    PROVE  /\ c.maxLinks = absent \/ c.maxLinks \in 1..MaxDials
           /\ c.devices = absent \/ c.devices \in DeviceCounts
           /\ c.screen \in BOOLEAN /\ c.rowScreen \in BOOLEAN
           /\ c.linkSensor \in BOOLEAN /\ c.dropdown \in BOOLEAN
           /\ c.rows = absent \/ c.rows \in 0..(MaxDials + 1)
           /\ c.sensorRows \in {absent, bare} \/ c.sensorRows \in 0..(MaxDials + 1)
BY DEF SlotKeys!Config, SlotKeys!Rows

LEMMA ExpandedIsValid ==
    ASSUME SlotKeys!ConstantsAssumption, NEW c \in SlotKeys!Config, SlotKeys!Accepted(c)
    PROVE  SlotKeys!Expanded(c) \in SlotKeys!Config /\ Validated(SlotKeys!Expanded(c))
<1>. DEFINE s == SlotKeys!Stated(c)
            e == SlotKeys!Expanded(c)
            rows == IF c.rows = absent THEN s ELSE c.rows
            sensorRows == IF c.sensorRows = bare THEN s ELSE c.sensorRows
            rowScreen == IF c.rows = absent /\ s \notin {absent, 0} THEN c.screen ELSE c.rowScreen
<1>1. /\ c.maxLinks = absent \/ c.maxLinks \in 1..MaxDials
      /\ c.devices = absent \/ c.devices \in DeviceCounts
      /\ c.screen \in BOOLEAN /\ c.rowScreen \in BOOLEAN
      /\ c.linkSensor \in BOOLEAN /\ c.dropdown \in BOOLEAN
      /\ c.rows = absent \/ c.rows \in 0..(MaxDials + 1)
      /\ c.sensorRows \in {absent, bare} \/ c.sensorRows \in 0..(MaxDials + 1)
  BY ConfigFields
<1>2. /\ MaxDials \in Nat /\ MaxDials > 0 /\ DeviceCounts \subseteq Nat
      /\ absent \notin Int /\ bare \notin Int /\ absent # bare
  BY AbsentIsNoNumber
<1>3. s = absent \/ s \in 0..MaxDials
  <2>1. c.devices # absent /\ c.maxLinks = absent => c.devices <= MaxDials
    BY DEF SlotKeys!Accepted, SlotKeys!DevicesAgree
  <2>2. CASE c.maxLinks # absent
    BY <1>1, <1>2, <2>2 DEF SlotKeys!Stated
  <2>3. CASE c.maxLinks = absent
    <3>1. s = c.devices
      BY <2>3 DEF SlotKeys!Stated
    <3>2. c.devices # absent => c.devices \in Nat /\ c.devices <= MaxDials
      BY <1>1, <1>2, <2>1, <2>3
    <3>. QED
      BY <1>2, <3>1, <3>2
  <2>. QED
    BY <2>2, <2>3
<1>4. /\ c.rows = absent \/ c.rows \in 0..MaxDials
      /\ c.sensorRows \in {absent, bare} \/ c.sensorRows \in 0..MaxDials
  BY <1>1, <1>2 DEF SlotKeys!Accepted, SlotKeys!FitsTable
<1>5. /\ s # absent /\ c.rows # absent => c.rows = s
      /\ s # absent /\ c.sensorRows \notin {absent, bare} => c.sensorRows = s
      /\ c.sensorRows = bare => s # absent
      /\ c.rowScreen => c.screen
      /\ c.devices # absent => s = c.devices
  BY <1>1, <1>2 DEF SlotKeys!Accepted, SlotKeys!RowsAgree, SlotKeys!SensorRowsAgree,
     SlotKeys!ScreenHasSwitch, SlotKeys!DevicesAgree, SlotKeys!Stated
<1>6. e = [c EXCEPT !.sensorRows = sensorRows, !.rows = rows, !.rowScreen = rowScreen]
  BY DEF SlotKeys!Expanded
<1>7. /\ e.maxLinks = c.maxLinks /\ e.devices = c.devices /\ e.screen = c.screen
      /\ e.rows = rows /\ e.sensorRows = sensorRows /\ e.rowScreen = rowScreen
  BY <1>6 DEF SlotKeys!Config
<1>8. /\ rows = absent \/ rows \in 0..MaxDials
      /\ sensorRows = absent \/ sensorRows \in 0..MaxDials
  BY <1>3, <1>4, <1>5
<1>9. rowScreen \in BOOLEAN /\ (rowScreen => c.screen)
  BY <1>1, <1>5
<1>10. SlotKeys!Stated(e) = s
  BY <1>7 DEF SlotKeys!Stated
<1>11. /\ s # absent => rows = s /\ sensorRows \in {absent, s}
       /\ c.devices \notin {absent, 0} => rows = c.devices
  BY <1>5
<1>. HIDE DEF s, rows, sensorRows, rowScreen
<1>12. e \in SlotKeys!Config
  <2>1. rows \in SlotKeys!Rows /\ sensorRows \in SlotKeys!Rows \cup {bare}
    BY <1>2, <1>8 DEF SlotKeys!Rows
  <2>. QED
    BY <1>6, <1>9, <2>1 DEF SlotKeys!Config
<1>. HIDE DEF e
<1>13. Validated(e)
  BY <1>3, <1>7, <1>8, <1>9, <1>10, <1>11 DEF Validated, Fitting
<1>. QED
  BY <1>12, <1>13 DEF e

LEMMA ValidateKeeps ==
    ASSUME SlotKeys!ConstantsAssumption, SlotsInv, SlotKeys!Validate PROVE SlotsInv'
<1>1. /\ IF SlotKeys!Accepted(yaml)
         THEN confPhase' = "valid" /\ conf' = SlotKeys!Expanded(yaml)
         ELSE confPhase' = "rejected" /\ UNCHANGED conf
      /\ UNCHANGED <<yaml, confBuilt, bonded>>
  BY DEF SlotKeys!Validate
<1>2. yaml \in SlotKeys!Config /\ conf \in SlotKeys!Config
  BY DEF SlotsInv, SlotKeys!TypeOK
<1>3. /\ conf' \in SlotKeys!Config /\ confPhase' \in {"valid", "rejected"}
      /\ confPhase' = "valid" => Validated(conf')
  BY <1>1, <1>2, ExpandedIsValid
<1>. QED
  BY <1>1, <1>3 DEF SlotsInv, SlotKeys!TypeOK, SlotKeys!ScreenRowsReport

LEMMA ToCodeKeeps ==
    ASSUME SlotKeys!ConstantsAssumption, SlotsInv, SlotKeys!ToCode PROVE SlotsInv'
<1>. DEFINE b == confBuilt'
            stated == SlotKeys!Stated(conf)
<1>1. /\ confPhase = "valid" /\ confPhase' = "built"
      /\ confBuilt' = [runs       |-> TRUE,
                       maxLinks   |-> SlotKeys!Limit(conf),
                       rows       |-> SlotKeys!Count(conf.rows),
                       sensorRows |-> SlotKeys!Count(conf.sensorRows),
                       screenRows |-> conf.rowScreen,
                       feature    |-> conf.screen,
                       options    |-> SlotKeys!Options(conf)]
      /\ UNCHANGED <<yaml, conf, bonded>>
  BY DEF SlotKeys!ToCode
<1>2. conf \in SlotKeys!Config /\ Validated(conf)
  BY <1>1 DEF SlotsInv, SlotKeys!TypeOK
<1>3. /\ MaxDials \in Nat /\ MaxDials > 0 /\ Sources \in Nat /\ DeviceCounts \subseteq Nat
      /\ absent \notin Int /\ bare \notin Int /\ absent # bare
  BY AbsentIsNoNumber
<1>4. /\ b.runs = TRUE /\ b.maxLinks = SlotKeys!Limit(conf)
      /\ b.rows = SlotKeys!Count(conf.rows) /\ b.sensorRows = SlotKeys!Count(conf.sensorRows)
      /\ b.screenRows = conf.rowScreen /\ b.feature = conf.screen
      /\ b.options = SlotKeys!Options(conf)
  BY <1>1
<1>. HIDE DEF b
<1>5. /\ b.rows \in 0..MaxDials /\ b.sensorRows \in 0..MaxDials /\ b.maxLinks \in 0..MaxDials
      /\ b.maxLinks # 0 => stated = b.maxLinks /\ stated # absent
      /\ b.maxLinks = 0 => stated = absent \/ stated = 0
  BY <1>2, <1>3, <1>4 DEF Validated, Fitting, SlotKeys!Count, SlotKeys!Limit
<1>6. b.maxLinks # 0 => b.rows = b.maxLinks /\ b.sensorRows \in {0, b.maxLinks}
  BY <1>2, <1>3, <1>4, <1>5 DEF Validated, SlotKeys!Count
<1>7. /\ SlotKeys!SlotCount(conf) \in 0..MaxDials
      /\ b.maxLinks # 0 => SlotKeys!SlotCount(conf) = b.maxLinks
      /\ b.maxLinks = 0 /\ b.rows + b.sensorRows = 0 => SlotKeys!SlotCount(conf) = MaxDials
  <2>1. conf.maxLinks = absent \/ conf.maxLinks \in 1..MaxDials
    BY <1>2, ConfigFields
  <2>2. conf.maxLinks # absent => b.maxLinks # 0
    BY <1>3, <1>5, <2>1 DEF SlotKeys!Stated
  <2>3. CASE b.rows # 0
    <3>1. SlotKeys!SlotCount(conf) = conf.rows /\ conf.rows = b.rows
      <4>1. SlotKeys!Count(conf.rows) # 0 /\ SlotKeys!Count(conf.rows) = conf.rows
        BY <1>4, <2>3 DEF SlotKeys!Count
      <4>. QED
        BY <1>4, <4>1 DEF SlotKeys!SlotCount
    <3>. QED
      BY <1>5, <1>6, <2>3, <3>1
  <2>4. CASE b.rows = 0
    <3>1. b.maxLinks = 0 /\ conf.maxLinks = absent
      BY <1>6, <2>2, <2>4
    <3>2. SlotKeys!SlotCount(conf) = IF b.sensorRows # 0 THEN b.sensorRows ELSE MaxDials
      BY <1>4, <2>4, <3>1 DEF SlotKeys!SlotCount, SlotKeys!Count
    <3>. QED
      BY <1>3, <1>5, <2>4, <3>1, <3>2
  <2>. QED
    BY <2>3, <2>4
<1>8. b.options = 0 \/ b.options = 1 + Sources + SlotKeys!SlotCount(conf)
  BY <1>4 DEF SlotKeys!Options
<1>9. b.options \in Nat
  BY <1>3, <1>7, <1>8
<1>10. Sized(b)
  BY <1>6, <1>7, <1>8 DEF Sized
<1>11. conf.rowScreen \in BOOLEAN /\ conf.screen \in BOOLEAN /\ (conf.rowScreen => conf.screen)
  BY <1>2, ConfigFields DEF Validated
<1>12. SlotKeys!TypeOK'
  <2>1. {b.screenRows, b.feature, b.runs} \subseteq BOOLEAN
    BY <1>4, <1>11
  <2>. QED
    BY <1>1, <1>5, <1>9, <2>1 DEF SlotsInv, SlotKeys!TypeOK, b
<1>. QED
  BY <1>1, <1>2, <1>4, <1>10, <1>11, <1>12 DEF SlotsInv, SlotKeys!ScreenRowsReport, b

LEMMA EditKeeps ==
    ASSUME SlotKeys!ConstantsAssumption, SlotsInv, SlotKeys!Edit PROVE SlotsInv'
<1>1. PICK m \in {absent} \cup 1..MaxDials, d \in {absent} \cup DeviceCounts :
         yaml' = [yaml EXCEPT !.maxLinks = m, !.devices = d]
  BY DEF SlotKeys!Edit
<1>2. confPhase' = "written" /\ UNCHANGED <<conf, confBuilt, bonded>>
  BY DEF SlotKeys!Edit
<1>3. yaml' \in SlotKeys!Config
  BY <1>1 DEF SlotsInv, SlotKeys!TypeOK, SlotKeys!Config
<1>. QED
  BY <1>2, <1>3 DEF SlotsInv, SlotKeys!TypeOK, SlotKeys!ScreenRowsReport

(* A Link bonds while there is room below the limit.                       *)
LEMMA BondedFits ==
    ASSUME SlotKeys!ConstantsAssumption, SlotsInv, SlotKeys!Pair \/ SlotKeys!Forget
    PROVE  SlotsInv' /\ SlotKeys!LimitedLinkHasRows /\ SlotKeys!DropdownCoversCatalog
<1>1. /\ MaxDials \in Nat /\ Sources \in Nat /\ bonded \in 0..MaxDials
      /\ confBuilt.maxLinks \in 0..MaxDials
  BY AbsentIsNoNumber DEF SlotsInv, SlotKeys!TypeOK
<1>2. UNCHANGED <<yaml, conf, confPhase, confBuilt>>
  BY DEF SlotKeys!Pair, SlotKeys!Forget
<1>3. /\ bonded' \in 0..MaxDials
      /\ bonded' > bonded => confBuilt.maxLinks = 0 \/ bonded' <= confBuilt.maxLinks
  BY <1>1 DEF SlotKeys!Pair, SlotKeys!Forget
<1>4. SlotsInv'
  BY <1>2, <1>3 DEF SlotsInv, SlotKeys!TypeOK, SlotKeys!ScreenRowsReport
<1>5. SlotKeys!LimitedLinkHasRows
  BY <1>1, <1>3 DEF SlotsInv, Sized, SlotKeys!LimitedLinkHasRows
<1>6. SlotKeys!DropdownCoversCatalog
  BY <1>1, <1>3 DEF SlotsInv, Sized, SlotKeys!DropdownCoversCatalog
<1>. QED
  BY <1>4, <1>5, <1>6

SlotsStep == SlotKeys!LimitedLinkHasRows /\ SlotKeys!DropdownCoversCatalog

LEMMA SlotsAct ==
    ASSUME SlotKeys!ConstantsAssumption, SlotsInv, SlotKeys!Next PROVE SlotsInv' /\ SlotsStep
<1>1. CASE SlotKeys!Pair \/ SlotKeys!Forget
  BY <1>1, BondedFits DEF SlotsStep
<1>2. CASE SlotKeys!Validate \/ SlotKeys!ToCode \/ SlotKeys!Edit
  <2>1. SlotsInv'
    BY <1>2, ValidateKeeps, ToCodeKeeps, EditKeeps
  <2>2. bonded' = bonded /\ bonded \in 0..MaxDials
    BY <1>2 DEF SlotKeys!Validate, SlotKeys!ToCode, SlotKeys!Edit, SlotsInv, SlotKeys!TypeOK
  <2>3. ~(bonded' > bonded)
    BY <2>2, AbsentIsNoNumber
  <2>. QED
    BY <2>1, <2>3 DEF SlotsStep, SlotKeys!LimitedLinkHasRows, SlotKeys!DropdownCoversCatalog
<1>. QED
  BY <1>1, <1>2 DEF SlotKeys!Next

LEMMA SlotsTell ==
    ASSUME SlotKeys!ConstantsAssumption, SlotsInv
    PROVE  SlotKeys!TypeOK /\ SlotKeys!ScreenRowsReport /\ SlotKeys!DevicePerRow
<1>1. ASSUME confPhase = "built", conf.devices \notin {absent, 0}
      PROVE  confBuilt.rows = conf.devices
  <2>1. conf.rows = conf.devices /\ confBuilt.rows = SlotKeys!Count(conf.rows)
    BY <1>1 DEF SlotsInv, Validated
  <2>. QED
    BY <1>1, <2>1 DEF SlotKeys!Count
<1>. QED
  BY <1>1 DEF SlotsInv, SlotKeys!DevicePerRow

----------------------------------------------------------------------------
(* The configuration of the room sources. *)

(* Sources to_code can build: labels that tell them apart, units that are  *)
(* known, and the Fahrenheit sensors among them found.                     *)
Buildable ==
    /\ \A i \in DOMAIN sources :
         /\ sources[i].name \in Label \ (Builtin \cup Long)
         /\ SourceKeys!UnitOf(i) # "other"
         /\ sources[i].sensor \in fahrenheit <=> SourceKeys!UnitOf(i) = "F"
    /\ \A i, j \in DOMAIN sources :
         SourceKeys!Hash(sources[i].name) = SourceKeys!Hash(sources[j].name) => i = j

(* What was built of such sources. *)
Component(b) ==
    /\ \E n \in Nat : DOMAIN b = 1..n
    /\ \A i \in DOMAIN b :
         /\ b[i].unit \in SourceKeys!Unit \ {"other"}
         /\ b[i].name \in Label \ (Builtin \cup Long)
         /\ b[i].fahrenheit = (b[i].unit = "F")
    /\ \A i, j \in DOMAIN b : b[i].id = b[j].id => i = j

SourcesInv ==
    /\ sensors \in [Sensor -> SourceKeys!Decl]
    /\ sources \in Seq(SourceKeys!Entry) /\ Len(sources) <= MaxSources
    /\ srcPhase \in {"written", "valid", "rejected", "built"}
    /\ fahrenheit \subseteq Sensor
    /\ srcPhase = "valid" => Buildable
    /\ Component(srcBuilt)

LEMMA SourcesInit ==
    ASSUME SourceKeys!ConstantsAssumption, SourceKeys!Init PROVE SourcesInv
<1>1. PICK n \in 0..MaxSources : sources \in [1..n -> SourceKeys!Entry]
  BY DEF SourceKeys!Init
<1>2. sources \in Seq(SourceKeys!Entry) /\ Len(sources) <= MaxSources
  BY <1>1 DEF SourceKeys!ConstantsAssumption
<1>3. Component(<<>>)
  <2>1. DOMAIN <<>> = 1..0
    OBVIOUS
  <2>. QED
    BY <2>1 DEF Component
<1>. QED
  BY <1>2, <1>3 DEF SourceKeys!Init, SourcesInv

(* The fields of the sources, and the labels they get.                     *)
LEMMA SourceFields ==
    ASSUME SourcesInv
    PROVE  /\ DOMAIN sources = 1..Len(sources) /\ Len(sources) \in Nat
           /\ \A i \in DOMAIN sources :
                /\ sources[i] \in SourceKeys!Entry
                /\ sources[i].sensor \in Sensor
                /\ SourceKeys!UnitOf(i) \in SourceKeys!Unit
                /\ SourceKeys!Resolved(sources[i]) \in Label \cup OwnLabel \cup {absent}
<1>1. /\ DOMAIN sources = 1..Len(sources) /\ Len(sources) \in Nat
      /\ \A i \in DOMAIN sources : sources[i] \in SourceKeys!Entry
  BY LenProperties, ElementOfSeq DEF SourcesInv
<1>2. ASSUME NEW i \in DOMAIN sources
      PROVE  /\ sources[i].sensor \in Sensor
             /\ SourceKeys!UnitOf(i) \in SourceKeys!Unit
             /\ SourceKeys!Resolved(sources[i]) \in Label \cup OwnLabel \cup {absent}
  <2>1. sources[i].sensor \in Sensor /\ sources[i].name \in Label \cup {absent}
    BY <1>1 DEF SourceKeys!Entry
  <2>2. sensors[sources[i].sensor] \in SourceKeys!Decl
    BY <2>1 DEF SourcesInv
  <2>. QED
    BY <2>1, <2>2 DEF SourceKeys!Decl, SourceKeys!UnitOf, SourceKeys!Resolved
<1>. QED
  BY <1>1, <1>2

(* Sources renamed are sources.                                            *)
LEMMA RenamedAreSources ==
    ASSUME SourcesInv, NEW f,
           \A i \in DOMAIN sources : f[i] \in Label \cup {absent}
    PROVE  LET t == [i \in DOMAIN sources |-> [sources[i] EXCEPT !.name = f[i]]]
           IN  /\ t \in Seq(SourceKeys!Entry) /\ Len(t) = Len(sources) /\ DOMAIN t = DOMAIN sources
               /\ \A i \in DOMAIN sources : t[i].sensor = sources[i].sensor /\ t[i].name = f[i]
<1>. DEFINE t == [i \in DOMAIN sources |-> [sources[i] EXCEPT !.name = f[i]]]
<1>1. ASSUME NEW i \in DOMAIN sources
      PROVE  /\ t[i] \in SourceKeys!Entry
             /\ t[i].sensor = sources[i].sensor /\ t[i].name = f[i]
  <2>1. sources[i] \in [sensor : Sensor, name : Label \cup {absent}]
    BY SourceFields DEF SourceKeys!Entry
  <2>. QED
    BY <2>1 DEF SourceKeys!Entry
<1>2. DOMAIN sources = 1..Len(sources) /\ Len(sources) \in Nat
  BY SourceFields
<1>. QED
  BY <1>1, <1>2

LEMMA ValidateSourcesKeeps ==
    ASSUME SourceKeys!ConstantsAssumption, SourcesInv, SourceKeys!Validate PROVE SourcesInv'
<1>1. /\ IF ~SourceKeys!LabelsUnique
         THEN srcPhase' = "rejected" /\ UNCHANGED <<sources, fahrenheit>>
         ELSE /\ sources' = SourceKeys!Named
              /\ fahrenheit' = SourceKeys!FahrenheitFound
              /\ srcPhase' = IF "other" \in SourceKeys!Units THEN "rejected" ELSE "valid"
      /\ UNCHANGED <<sensors, srcBuilt>>
  BY DEF SourceKeys!Validate
<1>2. CASE ~SourceKeys!LabelsUnique
  BY <1>1, <1>2 DEF SourcesInv
<1>3. CASE SourceKeys!LabelsUnique
  <2>. DEFINE lab == SourceKeys!Labels
  <2>1. /\ DOMAIN sources = 1..Len(sources) /\ Len(sources) \in Nat
        /\ \A i \in DOMAIN sources :
             /\ sources[i] \in SourceKeys!Entry
             /\ sources[i].sensor \in Sensor
             /\ SourceKeys!UnitOf(i) \in SourceKeys!Unit
             /\ SourceKeys!Resolved(sources[i]) \in Label \cup OwnLabel \cup {absent}
    BY SourceFields
  <2>2. /\ DOMAIN lab = DOMAIN sources
        /\ \A i \in DOMAIN sources : lab[i] = SourceKeys!Resolved(sources[i])
    BY DEF SourceKeys!Labels
  <2>. HIDE DEF lab
  <2>3. \A i \in DOMAIN sources : lab[i] \in Label \ (Builtin \cup Long)
    <3>1. SUFFICES ASSUME NEW i \in DOMAIN sources PROVE lab[i] \in Label \ (Builtin \cup Long)
      OBVIOUS
    <3>2. lab[i] \in SourceKeys!ToSet(lab) /\ lab[i] \in Label \cup {absent}
      BY <2>1, <2>2 DEF SourceKeys!ToSet, SourceKeys!ConstantsAssumption
    <3>3. absent \notin SourceKeys!ToSet(lab) /\ SourceKeys!ToSet(lab) \cap (Long \cup Builtin) = {}
      BY <1>3 DEF SourceKeys!LabelsUnique, lab
    <3>. QED
      BY <3>2, <3>3
  <2>4. \A i, j \in DOMAIN sources : SourceKeys!Hash(lab[i]) = SourceKeys!Hash(lab[j]) => i = j
    <3>. DEFINE h == [i \in DOMAIN sources |-> SourceKeys!Hash(lab[i])]
    <3>1. SourceKeys!IsInjective(h)
      BY <1>3 DEF SourceKeys!LabelsUnique, SourceKeys!LabelsDistinct, lab
    <3>2. \A i, j \in DOMAIN h : h[i] = h[j] => i = j
      BY <3>1 DEF SourceKeys!IsInjective
    <3>. QED
      BY <3>2
  <2>5. /\ sources' = [i \in DOMAIN sources |-> [sources[i] EXCEPT !.name = lab[i]]]
        /\ fahrenheit' = SourceKeys!FahrenheitFound
        /\ srcPhase' = IF "other" \in SourceKeys!Units THEN "rejected" ELSE "valid"
    BY <1>1, <1>3 DEF SourceKeys!Named, lab
  <2>6. /\ sources' \in Seq(SourceKeys!Entry) /\ Len(sources') = Len(sources)
        /\ DOMAIN sources' = DOMAIN sources
        /\ \A i \in DOMAIN sources :
             sources'[i].sensor = sources[i].sensor /\ sources'[i].name = lab[i]
    BY <2>3, <2>5, RenamedAreSources
  <2>7. \A i \in DOMAIN sources : SourceKeys!UnitOf(i)' = SourceKeys!UnitOf(i)
    BY <1>1, <2>6 DEF SourceKeys!UnitOf
  <2>8. SourceKeys!FahrenheitFound \subseteq Sensor
    BY <2>1 DEF SourceKeys!FahrenheitFound
  <2>9. ASSUME "other" \notin SourceKeys!Units, NEW i \in DOMAIN sources
        PROVE  /\ SourceKeys!UnitOf(i) # "other"
               /\ sources[i].sensor \in SourceKeys!FahrenheitFound <=> SourceKeys!UnitOf(i) = "F"
    <3>1. \A j \in DOMAIN sources : SourceKeys!UnitOf(j) # "other"
      BY <2>9 DEF SourceKeys!Units
    <3>2. ASSUME SourceKeys!UnitOf(i) = "F" PROVE sources[i].sensor \in SourceKeys!FahrenheitFound
      <4>1. \A j \in 1..(i - 1) : SourceKeys!UnitOf(j) # "other"
        BY <2>1, <3>1
      <4>. QED
        BY <3>2, <4>1 DEF SourceKeys!FahrenheitFound
    <3>3. ASSUME sources[i].sensor \in SourceKeys!FahrenheitFound PROVE SourceKeys!UnitOf(i) = "F"
      <4>1. PICK k \in DOMAIN sources :
                SourceKeys!UnitOf(k) = "F" /\ sources[k].sensor = sources[i].sensor
        BY <3>3 DEF SourceKeys!FahrenheitFound
      <4>. QED
        BY <4>1 DEF SourceKeys!UnitOf
    <3>. QED
      BY <3>1, <3>2, <3>3
  <2>10. srcPhase' = "valid" => Buildable'
    <3>. SUFFICES ASSUME srcPhase' = "valid" PROVE Buildable'
      OBVIOUS
    <3>1. "other" \notin SourceKeys!Units
      BY <2>5
    <3>2. ASSUME NEW i \in DOMAIN sources'
          PROVE  /\ sources'[i].name \in Label \ (Builtin \cup Long)
                 /\ SourceKeys!UnitOf(i)' # "other"
                 /\ sources'[i].sensor \in fahrenheit' <=> SourceKeys!UnitOf(i)' = "F"
      <4>1. i \in DOMAIN sources
        BY <2>6
      <4>2. /\ SourceKeys!UnitOf(i) # "other"
            /\ sources[i].sensor \in SourceKeys!FahrenheitFound <=> SourceKeys!UnitOf(i) = "F"
        BY <2>9, <3>1, <4>1
      <4>. QED
        BY <2>3, <2>5, <2>6, <2>7, <4>1, <4>2
    <3>3. \A i, j \in DOMAIN sources' :
            SourceKeys!Hash(sources'[i].name) = SourceKeys!Hash(sources'[j].name) => i = j
      BY <2>4, <2>6
    <3>. QED
      BY <3>2, <3>3 DEF Buildable
  <2>11. srcPhase' \in {"written", "valid", "rejected", "built"}
    BY <2>5
  <2>. QED
    BY <1>1, <2>5, <2>6, <2>8, <2>10, <2>11 DEF SourcesInv
<1>. QED
  BY <1>2, <1>3

LEMMA BuildSourcesKeeps ==
    ASSUME SourceKeys!ConstantsAssumption, SourcesInv, SourceKeys!ToCode PROVE SourcesInv'
<1>1. /\ srcPhase = "valid" /\ UNCHANGED <<sensors, sources, fahrenheit>>
      /\ IF absent \in {e.name : e \in SourceKeys!ToSet(sources)}
         THEN srcPhase' = "failed" /\ UNCHANGED srcBuilt
         ELSE /\ srcPhase' = "built"
              /\ srcBuilt' = [i \in DOMAIN sources |->
                                [name |-> sources[i].name, id |-> SourceKeys!Hash(sources[i].name),
                                 unit |-> sensors[sources[i].sensor].unit,
                                 fahrenheit |-> sources[i].sensor \in fahrenheit]]
  BY DEF SourceKeys!ToCode
<1>2. Buildable
  BY <1>1 DEF SourcesInv
<1>3. absent \notin {e.name : e \in SourceKeys!ToSet(sources)}
  BY <1>2 DEF Buildable, SourceKeys!ToSet, SourceKeys!ConstantsAssumption
<1>4. DOMAIN sources = 1..Len(sources) /\ Len(sources) \in Nat
  BY SourceFields
<1>5. DOMAIN srcBuilt' = DOMAIN sources
  BY <1>1, <1>3
<1>6. ASSUME NEW i \in DOMAIN sources
      PROVE  /\ srcBuilt'[i].unit = SourceKeys!UnitOf(i)
             /\ srcBuilt'[i].name = sources[i].name
             /\ srcBuilt'[i].id = SourceKeys!Hash(sources[i].name)
             /\ srcBuilt'[i].fahrenheit = (sources[i].sensor \in fahrenheit)
  BY <1>1, <1>3, <1>6 DEF SourceKeys!UnitOf
<1>7. Component(srcBuilt')
  <2>1. \E n \in Nat : DOMAIN srcBuilt' = 1..n
    BY <1>4, <1>5
  <2>2. ASSUME NEW i \in DOMAIN srcBuilt'
        PROVE  /\ srcBuilt'[i].unit \in SourceKeys!Unit \ {"other"}
               /\ srcBuilt'[i].name \in Label \ (Builtin \cup Long)
               /\ srcBuilt'[i].fahrenheit = (srcBuilt'[i].unit = "F")
    <3>1. i \in DOMAIN sources
      BY <1>5
    <3>2. SourceKeys!UnitOf(i) \in SourceKeys!Unit
      BY <3>1, SourceFields
    <3>3. /\ sources[i].name \in Label \ (Builtin \cup Long)
          /\ SourceKeys!UnitOf(i) # "other"
          /\ sources[i].sensor \in fahrenheit <=> SourceKeys!UnitOf(i) = "F"
      BY <1>2, <3>1 DEF Buildable
    <3>. QED
      BY <1>6, <3>1, <3>2, <3>3
  <2>3. \A i, j \in DOMAIN srcBuilt' : srcBuilt'[i].id = srcBuilt'[j].id => i = j
    BY <1>2, <1>5, <1>6 DEF Buildable
  <2>. QED
    BY <2>1, <2>2, <2>3 DEF Component
<1>. QED
  BY <1>1, <1>3, <1>7 DEF SourcesInv

LEMMA EditSourcesKeeps ==
    ASSUME SourceKeys!ConstantsAssumption, SourcesInv, SourceKeys!Edit PROVE SourcesInv'
<1>1. srcPhase' = "written" /\ UNCHANGED <<fahrenheit, srcBuilt>>
  BY DEF SourceKeys!Edit
<1>2. CASE \E s \in Sensor, u \in SourceKeys!Unit :
             sensors' = [sensors EXCEPT ![s].unit = u] /\ UNCHANGED sources
  <2>1. PICK s \in Sensor, u \in SourceKeys!Unit :
             sensors' = [sensors EXCEPT ![s].unit = u] /\ UNCHANGED sources
    BY <1>2
  <2>2. sensors' \in [Sensor -> SourceKeys!Decl]
    BY <2>1 DEF SourcesInv, SourceKeys!Decl
  <2>. QED
    BY <1>1, <2>1, <2>2 DEF SourcesInv
<1>3. CASE /\ sources' = [i \in DOMAIN sources |-> [sources[i] EXCEPT !.name = absent]]
           /\ UNCHANGED sensors
  <2>. DEFINE f == [i \in DOMAIN sources |-> absent]
  <2>1. sources' = [i \in DOMAIN sources |-> [sources[i] EXCEPT !.name = f[i]]]
    BY <1>3
  <2>2. \A i \in DOMAIN sources : f[i] \in Label \cup {absent}
    OBVIOUS
  <2>. HIDE DEF f
  <2>3. sources' \in Seq(SourceKeys!Entry) /\ Len(sources') = Len(sources)
    BY <2>1, <2>2, RenamedAreSources
  <2>. QED
    BY <1>1, <1>3, <2>3 DEF SourcesInv
<1>. QED
  BY <1>2, <1>3 DEF SourceKeys!Edit

LEMMA SourcesAct ==
    ASSUME SourceKeys!ConstantsAssumption, SourcesInv, SourceKeys!Next PROVE SourcesInv'
BY ValidateSourcesKeeps, BuildSourcesKeeps, EditSourcesKeeps DEF SourceKeys!Next

LEMMA SourcesTell ==
    ASSUME SourcesInv
    PROVE  /\ SourceKeys!TypeOK /\ SourceKeys!BuildSucceeds /\ SourceKeys!ChoiceIsItsSource
           /\ SourceKeys!ReadingsAreCelsius
<1>1. SourceKeys!TypeOK /\ SourceKeys!BuildSucceeds
  BY DEF SourcesInv, Component, SourceKeys!TypeOK, SourceKeys!BuildSucceeds
<1>2. ASSUME NEW i \in DOMAIN srcBuilt PROVE SourceKeys!Index(srcBuilt[i].id) = i
  <2>1. \A k, j \in DOMAIN srcBuilt : srcBuilt[k].id = srcBuilt[j].id => k = j
    BY DEF SourcesInv, Component
  <2>2. PICK n \in Nat : DOMAIN srcBuilt = 1..n
    BY DEF SourcesInv, Component
  <2>3. \A j \in 1..(i - 1) : srcBuilt[j].id # srcBuilt[i].id
    <3>1. \A j \in 1..(i - 1) : j \in DOMAIN srcBuilt /\ j # i
      BY <2>2
    <3>. QED
      BY <2>1, <3>1
  <2>. DEFINE Q(k) == srcBuilt[k].id = srcBuilt[i].id
                        /\ \A j \in 1..(k - 1) : srcBuilt[j].id # srcBuilt[i].id
  <2>4. Q(i) /\ \A k \in DOMAIN srcBuilt : Q(k) => k = i
    BY <2>1, <2>3
  <2>. HIDE DEF Q
  <2>5. (CHOOSE k \in DOMAIN srcBuilt : Q(k)) = i
    BY <2>4
  <2>. QED
    BY <2>5 DEF SourceKeys!Index, Q
<1>3. ASSUME NEW i \in DOMAIN srcBuilt, srcBuilt[i].unit # "none"
      PROVE  SourceKeys!Used(srcBuilt[i], srcBuilt[i].unit) = "C"
  <2>1. /\ srcBuilt[i].unit \in SourceKeys!Unit \ {"other"}
        /\ srcBuilt[i].fahrenheit = (srcBuilt[i].unit = "F")
    BY DEF SourcesInv, Component
  <2>2. srcBuilt[i].unit = "F" \/ srcBuilt[i].unit = "C"
    BY <1>3, <2>1 DEF SourceKeys!Unit
  <2>. QED
    BY <2>1, <2>2 DEF SourceKeys!Used
<1>. QED
  BY <1>1, <1>2, <1>3 DEF SourceKeys!ChoiceIsItsSource, SourceKeys!ReadingsAreCelsius

ConfigService ==
    /\ scenario = "slots" => SlotsInv
    /\ scenario = "labels" => SourcesInv

LEMMA ConfigServiceKept ==
    /\ FormatsInit => ConfigService
    /\ ConfigService /\ [FormatsNext]_formatsVars => ConfigService'
<1>1. SlotKeys!ConstantsAssumption /\ SourceKeys!ConstantsAssumption
  BY InstancesAssumption DEF InstancesAssumption
<1>2. FormatsInit => ConfigService
  BY <1>1, SlotsInit, SourcesInit DEF FormatsInit, ConfigService
<1>3. ASSUME ConfigService, [FormatsNext]_formatsVars, scenario' = "slots" PROVE SlotsInv'
  <2>1. scenario = "slots" /\ SlotsInv
    BY <1>3 DEF FormatsNext, formatsVars, ConfigService
  <2>2. SlotKeys!Next \/ UNCHANGED <<yaml, conf, confPhase, confBuilt, bonded>>
    BY <1>3, <2>1 DEF FormatsNext, formatsVars, slotKeys
  <2>3. CASE SlotKeys!Next
    BY <1>1, <2>1, <2>3, SlotsAct
  <2>4. CASE UNCHANGED <<yaml, conf, confPhase, confBuilt, bonded>>
    BY <2>1, <2>4 DEF SlotsInv, SlotKeys!TypeOK, SlotKeys!ScreenRowsReport
  <2>. QED
    BY <2>2, <2>3, <2>4
<1>4. ASSUME ConfigService, [FormatsNext]_formatsVars, scenario' = "labels" PROVE SourcesInv'
  <2>1. scenario = "labels" /\ SourcesInv
    BY <1>4 DEF FormatsNext, formatsVars, ConfigService
  <2>2. SourceKeys!Next \/ UNCHANGED <<sensors, sources, srcPhase, fahrenheit, srcBuilt>>
    BY <1>4, <2>1 DEF FormatsNext, formatsVars, sourceKeys
  <2>3. CASE SourceKeys!Next
    BY <1>1, <2>1, <2>3, SourcesAct
  <2>4. CASE UNCHANGED <<sensors, sources, srcPhase, fahrenheit, srcBuilt>>
    BY <2>1, <2>4 DEF SourcesInv, Buildable, SourceKeys!UnitOf
  <2>. QED
    BY <2>2, <2>3, <2>4
<1>. QED
  BY <1>2, <1>3, <1>4 DEF ConfigService

(* Whatever is written and edited, with tables of every size, what         *)
(* validates can be built: a limit on the Links has their rows, the dropdown*)
(* has their options, and a choice in it is the source it names, whose     *)
(* readings are used in degrees Celsius (__init__.py: FINAL_VALIDATE_SCHEMA,*)
(* slot_count, to_code; serin_link.cpp: ext_index_, ext_state_).           *)
THEOREM BuildsAlwaysFit == FormatsSpec => BuildsFit
<1>. DEFINE A == /\ scenario = "slots" =>
                      /\ SlotKeys!TypeOK' /\ SlotKeys!ScreenRowsReport'
                      /\ SlotKeys!DevicePerRow' /\ SlotKeys!LimitedLinkHasRows
                      /\ SlotKeys!DropdownCoversCatalog
                 /\ scenario = "labels" =>
                      /\ SourceKeys!TypeOK' /\ SourceKeys!BuildSucceeds'
                      /\ SourceKeys!ChoiceIsItsSource' /\ SourceKeys!ReadingsAreCelsius'
<1>1. SlotKeys!ConstantsAssumption /\ SourceKeys!ConstantsAssumption
  BY InstancesAssumption DEF InstancesAssumption
<1>2. ConfigService /\ FormatsNext => A
  <2>1. ASSUME ConfigService, FormatsNext, scenario = "slots"
        PROVE  /\ SlotKeys!TypeOK' /\ SlotKeys!ScreenRowsReport' /\ SlotKeys!DevicePerRow'
               /\ SlotKeys!LimitedLinkHasRows /\ SlotKeys!DropdownCoversCatalog
    <3>1. SlotKeys!Next /\ SlotsInv
      BY <2>1 DEF FormatsNext, ConfigService
    <3>2. SlotsInv' /\ SlotsStep
      BY <1>1, <3>1, SlotsAct
    <3>3. SlotKeys!TypeOK' /\ SlotKeys!ScreenRowsReport' /\ SlotKeys!DevicePerRow'
      BY <1>1, <3>2, SlotsTell, PTL
    <3>. QED
      BY <3>2, <3>3 DEF SlotsStep
  <2>2. ASSUME ConfigService, FormatsNext, scenario = "labels"
        PROVE  /\ SourceKeys!TypeOK' /\ SourceKeys!BuildSucceeds'
               /\ SourceKeys!ChoiceIsItsSource' /\ SourceKeys!ReadingsAreCelsius'
    <3>1. SourceKeys!Next /\ SourcesInv
      BY <2>2 DEF FormatsNext, ConfigService
    <3>2. SourcesInv'
      BY <1>1, <3>1, SourcesAct
    <3>. QED
      BY <3>2, SourcesTell, PTL
  <2>. QED
    BY <2>1, <2>2
<1>. HIDE DEF A
<1>3. FormatsSpec => [][A]_formatsVars
  BY <1>2, ConfigServiceKept, PTL DEF FormatsSpec
<1>. QED
  BY <1>3 DEF BuildsFit, A

----------------------------------------------------------------------------
(* The key derivation. *)

(* Induction: a set of numbers that holds 0 and with each the next has all,*)
(* since there is no least that it lacks.                                  *)
LEMMA Induction ==
    ASSUME NEW T, 0 \in T, \A n \in Nat : n \in T => n + 1 \in T
    PROVE  Nat \subseteq T
<1>1. SUFFICES ASSUME Nat \ T # {} PROVE FALSE
  OBVIOUS
<1>2. \E n \in Nat \ T : \A k \in Nat \ T : ~ (k < n)
  <2>1. PICK n \in Nat \ T : \A k \in Nat \ T : ~ (<<k, n>> \in OpToRel(<, Nat))
    BY <1>1, NatLessThanWellFounded, WFMin
  <2>2. \A k \in Nat \ T : ~ (k < n)
    BY <2>1 DEF OpToRel
  <2>. QED
    BY <2>2
<1>3. PICK n \in Nat \ T : \A k \in Nat \ T : ~ (k < n)
  BY <1>2
<1>4. n # 0 /\ n - 1 \in Nat /\ n - 1 < n
  OBVIOUS
<1>5. n - 1 \in T
  BY <1>3, <1>4
<1>6. (n - 1) + 1 \in T
  BY <1>4, <1>5
<1>. QED
  BY <1>6

(* One step of RFC 5869, of the blocks before. *)
Block5869(f, n) ==
    IF n = 0 THEN <<>> ELSE Keys!HmacRfc(prk, f[n - 1] \o keyInfo \o <<Keys!Octet(n)>>)

Fits(f, k) == \A n \in 0..k : f[n] = Block5869(f, n)

LEMMA BlocksExist == \A k \in Nat : \E f : Fits(f, k)
<1>. DEFINE T == {k \in Nat : \E f : Fits(f, k)}
<1>1. 0 \in T
  <2>1. Fits([n \in {0} |-> <<>>], 0)
    BY DEF Fits, Block5869
  <2>. QED
    BY <2>1
<1>2. ASSUME NEW k \in Nat, k \in T PROVE k + 1 \in T
  <2>1. PICK f : Fits(f, k)
    BY <1>2
  <2>. DEFINE b == Block5869(f, k + 1)
              g == [n \in 0..(k + 1) |-> IF n = k + 1 THEN b ELSE f[n]]
  <2>2. \A n \in 0..k : g[n] = f[n]
    OBVIOUS
  <2>3. \A n \in 0..(k + 1) : Block5869(g, n) = Block5869(f, n)
    <3>. SUFFICES ASSUME NEW n \in 0..(k + 1), n # 0 PROVE g[n - 1] = f[n - 1]
      BY DEF Block5869
    <3>. QED
      BY <2>2
  <2>4. g[k + 1] = b
    OBVIOUS
  <2>. HIDE DEF g
  <2>5. ASSUME NEW n \in 0..(k + 1) PROVE g[n] = Block5869(g, n)
    <3>1. CASE n \in 0..k
      BY <2>1, <2>2, <2>3, <3>1 DEF Fits
    <3>2. CASE n = k + 1
      BY <2>3, <2>4, <3>2
    <3>. QED
      BY <3>1, <3>2
  <2>. QED
    BY <2>5 DEF Fits
<1>. HIDE DEF T
<1>3. Nat \subseteq T
  BY <1>1, <1>2, Induction
<1>. QED
  BY <1>3 DEF T

(* The step to n looks at the block before only. *)
LEMMA BlockBefore ==
    ASSUME NEW f, NEW g, NEW n \in Nat, n # 0 => f[n - 1] = g[n - 1]
    PROVE  Block5869(f, n) = Block5869(g, n)
BY DEF Block5869

LEMMA BlocksAgree ==
    ASSUME NEW f, NEW g, NEW k \in Nat, Fits(f, k), NEW l \in Nat, Fits(g, l)
    PROVE  \A n \in Nat : n <= k /\ n <= l => f[n] = g[n]
<1>. DEFINE T == {n \in Nat : n <= k /\ n <= l => f[n] = g[n]}
<1>1. ASSUME NEW n \in Nat, n # 0 => n - 1 \in T PROVE n \in T
  <2>. SUFFICES ASSUME n <= k, n <= l PROVE f[n] = g[n]
    OBVIOUS
  <2>1. f[n] = Block5869(f, n) /\ g[n] = Block5869(g, n)
    BY DEF Fits
  <2>2. n # 0 => f[n - 1] = g[n - 1]
    BY <1>1
  <2>. QED
    BY <2>1, <2>2, BlockBefore
<1>. HIDE DEF T
<1>2. 0 \in T
  BY <1>1
<1>3. \A n \in Nat : n \in T => n + 1 \in T
  BY <1>1
<1>4. Nat \subseteq T
  BY <1>2, <1>3, Induction
<1>. QED
  BY <1>4 DEF T

(* So the blocks of RFC 5869 are what the recursion says, each of the one  *)
(* before.                                                                 *)
LEMMA RfcUnfolds ==
    \A n \in Nat : Keys!Rfc[n] = Block5869(Keys!Rfc, n)
<1>. DEFINE of(n) == CHOOSE f : Fits(f, n)
            h == [n \in Nat |-> of(n)[n]]
<1>1. \A n \in Nat : Fits(of(n), n)
  BY BlocksExist
<1>. HIDE DEF of
<1>2. ASSUME NEW n \in Nat PROVE h[n] = Block5869(h, n)
  <2>1. h[n] = Block5869(of(n), n)
    BY <1>1 DEF Fits
  <2>2. ASSUME n # 0 PROVE of(n)[n - 1] = h[n - 1]
    <3>1. n - 1 \in Nat /\ n - 1 <= n /\ n - 1 <= n - 1
      BY <2>2
    <3>2. Fits(of(n), n) /\ Fits(of(n - 1), n - 1)
      BY <1>1, <3>1
    <3>3. of(n)[n - 1] = of(n - 1)[n - 1]
      BY <3>1, <3>2, BlocksAgree
    <3>. QED
      BY <3>1, <3>3
  <2>3. Block5869(of(n), n) = Block5869(h, n)
    BY <2>2, BlockBefore
  <2>. QED
    BY <2>1, <2>3
<1>. HIDE DEF h
<1>3. h = [n \in Nat |-> Block5869(h, n)]
  <2>1. h = [n \in Nat |-> h[n]]
    BY DEF h
  <2>. QED
    BY <1>2, <2>1
<1>4. h = [n \in Nat |-> IF n = 0 THEN <<>>
                         ELSE Keys!HmacRfc(prk, h[n - 1] \o keyInfo \o <<Keys!Octet(n)>>)]
  BY <1>3 DEF Block5869
<1>5. Keys!Rfc = [n \in Nat |-> IF n = 0 THEN <<>>
         ELSE Keys!HmacRfc(prk, Keys!Rfc[n - 1] \o keyInfo \o <<Keys!Octet(n)>>)]
  BY <1>4, Zenon DEF Keys!Rfc
<1>6. ASSUME NEW n \in Nat
      PROVE  Keys!Rfc[n] = IF n = 0 THEN <<>>
                ELSE Keys!HmacRfc(prk, Keys!Rfc[n - 1] \o keyInfo \o <<Keys!Octet(n)>>)
  BY <1>5
<1>. QED
  BY <1>6 DEF Block5869

(* The places of a block. *)
LEMMA TextIsSeq ==
    ASSUME NEW name, NEW n \in Nat
    PROVE  /\ Keys!Text(name, n) \in Seq({<<name, i>> : i \in 1..n})
           /\ Len(Keys!Text(name, n)) = n
<1>. DEFINE S == {<<name, i>> : i \in 1..n}
            s == Keys!Text(name, n)
<1>1. s \in [1..n -> S]
  BY DEF Keys!Text
<1>. HIDE DEF S, s
<1>2. s \in Seq(S) /\ Len(s) = n
  BY <1>1
<1>. QED
  BY <1>2 DEF S, s

LEMMA DigestIsSeq ==
    ASSUME NEW kind, NEW of, HashLen \in Nat
    PROVE  /\ Keys!Digest(kind, of) \in Seq({<<kind, of, i>> : i \in 1..HashLen})
           /\ Len(Keys!Digest(kind, of)) = HashLen
<1>. DEFINE S == {<<kind, of, i>> : i \in 1..HashLen}
            s == Keys!Digest(kind, of)
<1>1. s \in [1..HashLen -> S]
  BY DEF Keys!Digest
<1>. HIDE DEF S, s
<1>2. s \in Seq(S) /\ Len(s) = HashLen
  BY <1>1
<1>. QED
  BY <1>2 DEF S, s

(* Filling up a key is appending zeros. *)
LEMMA FillsUp ==
    ASSUME NEW S, NEW k \in Seq(S), HmacBlock \in Nat, Len(k) <= HmacBlock
    PROVE  [i \in 1..HmacBlock |-> IF i <= Len(k) THEN k[i] ELSE Keys!Octet(0)]
             = k \o [i \in 1..(HmacBlock - Len(k)) |-> Keys!Octet(0)]
<1>. DEFINE n == HmacBlock - Len(k)
            z == [i \in 1..n |-> Keys!Octet(0)]
            a == [i \in 1..HmacBlock |-> IF i <= Len(k) THEN k[i] ELSE Keys!Octet(0)]
            R == S \cup {Keys!Octet(0)}
<1>1. n \in Nat
  OBVIOUS
<1>2. z \in [1..n -> R] /\ \A i \in 1..n : z[i] = Keys!Octet(0)
  OBVIOUS
<1>3. z \in Seq(R) /\ Len(z) = n
  BY <1>1, <1>2
<1>4. k \in Seq(R)
  BY SeqMonotonic
<1>5. /\ k \o z \in Seq(R) /\ Len(k \o z) = HmacBlock
      /\ \A i \in 1..HmacBlock : (k \o z)[i] = IF i <= Len(k) THEN k[i] ELSE z[i - Len(k)]
  BY <1>3, <1>4, ConcatProperties
<1>6. a \in [1..HmacBlock -> R] /\ \A i \in 1..HmacBlock :
                                     a[i] = IF i <= Len(k) THEN k[i] ELSE Keys!Octet(0)
  BY ElementOfSeq
<1>7. a \in Seq(R) /\ Len(a) = HmacBlock
  BY <1>6
<1>. HIDE DEF a, z
<1>8. ASSUME NEW i \in 1..HmacBlock PROVE a[i] = (k \o z)[i]
  BY <1>2, <1>5, <1>6
<1>9. a = k \o z
  BY <1>5, <1>7, <1>8, SeqEqual
<1>. QED
  BY <1>9 DEF a, z

LEMMA HmacIsRfc2104 ==
    ASSUME Keys!ConstantsAssumption, NEW S, NEW key \in Seq(S), NEW text
    PROVE  Keys!Hmac(key, text) = Keys!HmacRfc(key, text)
<1>. DEFINE k == IF Len(key) > HmacBlock THEN Keys!Digest("hash", key) ELSE key
<1>1. HmacBlock \in Nat /\ HashLen \in Nat /\ HashLen <= HmacBlock
  BY DEF Keys!ConstantsAssumption
<1>2. \E R : k \in Seq(R) /\ Len(k) <= HmacBlock
  <2>1. CASE Len(key) > HmacBlock
    <3>. DEFINE d == Keys!Digest("hash", key)
                D == {<<"hash", key, i>> : i \in 1..HashLen}
    <3>1. d \in Seq(D) /\ Len(d) = HashLen
      BY <1>1, DigestIsSeq
    <3>2. k = d
      BY <2>1
    <3>. HIDE DEF d, D, k
    <3>. QED
      BY <1>1, <3>1, <3>2
  <2>2. CASE ~(Len(key) > HmacBlock)
    BY <1>1, <2>2
  <2>. QED
    BY <2>1, <2>2
<1>3. k = IF Len(key) <= HmacBlock THEN key ELSE Keys!Digest("hash", key)
  BY <1>1
<1>. HIDE DEF k
<1>4. Keys!KeyBlock(key) = [i \in 1..HmacBlock |-> IF i <= Len(k) THEN k[i] ELSE Keys!Octet(0)]
  BY DEF Keys!KeyBlock, k
<1>5. Keys!KeyBlock(key) = k \o [i \in 1..(HmacBlock - Len(k)) |-> Keys!Octet(0)]
  BY <1>1, <1>2, <1>4, FillsUp
<1>6. Keys!HmacRfc(key, text)
        = Keys!Digest("hmac", <<k \o [i \in 1..(HmacBlock - Len(k)) |-> Keys!Octet(0)], text>>)
  BY <1>3 DEF Keys!HmacRfc
<1>. QED
  BY <1>5, <1>6 DEF Keys!Hmac

(* An absent salt is a key of zeros, as an empty one is filled up. *)
LEMMA ExtractIsRfc5869 ==
    ASSUME Keys!ConstantsAssumption, NEW n \in Nat, NEW ikm
    PROVE  Keys!Extract(Keys!Text("salt", n), ikm) = Keys!HmacRfc(Keys!Text("salt", n), ikm)
<1>. DEFINE salt == Keys!Text("salt", n)
            zeros == [i \in 1..HashLen |-> Keys!Octet(0)]
<1>1. salt \in Seq({<<"salt", i>> : i \in 1..n}) /\ Len(salt) = n
  BY TextIsSeq
<1>2. HmacBlock \in Nat /\ HashLen \in Nat /\ HashLen <= HmacBlock
  BY DEF Keys!ConstantsAssumption
<1>3. Keys!Hmac(salt, ikm) = Keys!HmacRfc(salt, ikm)
  BY <1>1, HmacIsRfc2104
<1>4. CASE salt # <<>>
  BY <1>3, <1>4 DEF Keys!Extract
<1>5. CASE salt = <<>>
  <2>1. zeros \in [1..HashLen -> {Keys!Octet(0)}] /\ \A i \in 1..HashLen : zeros[i] = Keys!Octet(0)
    OBVIOUS
  <2>2. Len(zeros) = HashLen
    BY <1>2, <2>1
  <2>3. Len(<<>>) = 0
    OBVIOUS
  <2>. HIDE DEF zeros
  <2>4. Keys!KeyBlock(zeros) = [i \in 1..HmacBlock |-> Keys!Octet(0)]
    <3>1. Keys!KeyBlock(zeros) = [i \in 1..HmacBlock |-> IF i <= HashLen THEN zeros[i] ELSE Keys!Octet(0)]
      BY <1>2, <2>2 DEF Keys!KeyBlock
    <3>2. ASSUME NEW i \in 1..HmacBlock
          PROVE  (IF i <= HashLen THEN zeros[i] ELSE Keys!Octet(0)) = Keys!Octet(0)
      BY <1>2, <2>1
    <3>. QED
      BY <3>1, <3>2
  <2>5. Keys!KeyBlock(<<>>) = [i \in 1..HmacBlock |-> Keys!Octet(0)]
    <3>1. Keys!KeyBlock(<<>>) = [i \in 1..HmacBlock |-> IF i <= 0 THEN (<<>>)[i] ELSE Keys!Octet(0)]
      BY <1>2, <2>3 DEF Keys!KeyBlock
    <3>. QED
      BY <1>2, <3>1
  <2>6. Keys!Hmac(zeros, ikm) = Keys!Hmac(salt, ikm)
    BY <1>5, <2>4, <2>5 DEF Keys!Hmac
  <2>7. Keys!Extract(salt, ikm) = Keys!Hmac(zeros, ikm)
    BY <1>5 DEF Keys!Extract, zeros
  <2>. QED
    BY <1>3, <2>6, <2>7
<1>. QED
  BY <1>4, <1>5

(* The bytes of T(1), T(2), ... *)
Stream == {Keys!Rfc[n][i] : n \in Nat, i \in 1..HashLen}

LEMMA RfcBlocks ==
    ASSUME Keys!ConstantsAssumption
    PROVE  /\ Keys!Rfc[0] = <<>>
           /\ \A n \in Nat \ {0} : Keys!Rfc[n] \in Seq(Stream) /\ Len(Keys!Rfc[n]) = HashLen
<1>1. HashLen \in Nat
  BY DEF Keys!ConstantsAssumption
<1>2. Keys!Rfc[0] = <<>>
  BY RfcUnfolds DEF Block5869
<1>3. ASSUME NEW n \in Nat \ {0} PROVE Keys!Rfc[n] \in Seq(Stream) /\ Len(Keys!Rfc[n]) = HashLen
  <2>. DEFINE b == Keys!Rfc[n]
  <2>1. \E of : b = Keys!Digest("hmac", of)
    BY RfcUnfolds DEF Block5869, Keys!HmacRfc
  <2>2. PICK of : b = Keys!Digest("hmac", of)
    BY <2>1
  <2>. DEFINE D == {<<"hmac", of, i>> : i \in 1..HashLen}
  <2>3. b \in Seq(D) /\ Len(b) = HashLen
    BY <1>1, <2>2, DigestIsSeq
  <2>4. ASSUME NEW i \in 1..HashLen PROVE b[i] \in Stream
    BY DEF Stream
  <2>. HIDE DEF b, D
  <2>5. b \in [1..HashLen -> Stream]
    BY <2>3, <2>4
  <2>6. b \in Seq(Stream) /\ Len(b) = HashLen
    BY <1>1, <2>5
  <2>. QED
    BY <2>6 DEF b
<1>. QED
  BY <1>2, <1>3

(* After n turns there are n blocks of output, or what was wanted of them, *)
(* the last block is that of RFC 5869, and the counter is at the next.     *)
Turns(n) ==
    /\ keyT = Keys!Rfc[n] /\ ctr = (n + 1) % CtrLimit
    /\ Len(out) = IF keyWant < n * HashLen THEN keyWant ELSE n * HashLen

KeysInv ==
    /\ Keys!Extracted
    /\ keyWant \in 0..MaxOut
    /\ out \in Seq(Stream)
    /\ \E n \in 0..(CtrLimit - 1) : Turns(n)
    /\ Keys!AsOtherAdapters

LEMMA KeysInit ==
    ASSUME Keys!ConstantsAssumption, Keys!Init PROVE KeysInv
<1>1. /\ \E s \in Lengths : prk = Keys!Extract(Keys!Text("salt", s), Keys!Text("secret", 1))
      /\ keyWant \in 0..MaxOut /\ keyT = <<>> /\ out = <<>> /\ ctr = 1
  BY DEF Keys!Init
<1>2. Keys!Extracted
  <2>1. PICK s \in Lengths : prk = Keys!Extract(Keys!Text("salt", s), Keys!Text("secret", 1))
    BY <1>1
  <2>2. s \in Nat
    BY DEF Keys!ConstantsAssumption
  <2>. QED
    BY <2>1, <2>2, ExtractIsRfc5869 DEF Keys!Extracted
<1>3. Turns(0)
  <2>1. keyT = Keys!Rfc[0]
    BY <1>1, RfcBlocks
  <2>2. CtrLimit \in Nat \ {0, 1} /\ HashLen \in Nat /\ MaxOut \in Int
    BY DEF Keys!ConstantsAssumption
  <2>3. (0 * CtrLimit + 1) % CtrLimit = 1
    BY <2>2, RemainderIs
  <2>4. (0 + 1) % CtrLimit = 1 /\ 0 * HashLen = 0
    BY <2>2, <2>3
  <2>5. Len(out) = 0 /\ ~(keyWant < 0)
    BY <1>1
  <2>. QED
    BY <1>1, <2>1, <2>4, <2>5 DEF Turns
<1>4. out \in Seq(Stream) /\ Keys!AsOtherAdapters
  BY <1>1 DEF Keys!AsOtherAdapters
<1>5. 0 \in 0..(CtrLimit - 1)
  BY DEF Keys!ConstantsAssumption
<1>. QED
  BY <1>1, <1>2, <1>3, <1>4, <1>5 DEF KeysInv

LEMMA ExpandKeeps ==
    ASSUME Keys!ConstantsAssumption, KeysInv, Keys!Expand PROVE KeysInv'
<1>1. /\ HashLen \in Nat \ {0} /\ CtrLimit \in Nat \ {0, 1} /\ MaxOut \in Nat
      /\ MaxOut <= (CtrLimit - 1) * HashLen /\ HmacBlock \in Nat
  BY DEF Keys!ConstantsAssumption
<1>2. /\ Len(out) < keyWant /\ keyT' = Keys!Hmac(prk, Keys!Input)
      /\ out' = out \o SubSeq(keyT', 1, IF keyWant - Len(out) < HashLen THEN keyWant - Len(out)
                                        ELSE HashLen)
      /\ ctr' = (ctr + 1) % CtrLimit /\ UNCHANGED <<prk, keyInfo, keyWant>>
  BY DEF Keys!Expand, Keys!Take
<1>3. /\ Keys!Extracted /\ keyWant \in 0..MaxOut /\ out \in Seq(Stream) /\ Keys!AsOtherAdapters
  BY DEF KeysInv
<1>4. PICK n \in 0..(CtrLimit - 1) : Turns(n)
  BY DEF KeysInv
<1>. DEFINE w == n * HashLen
            take == IF keyWant - w < HashLen THEN keyWant - w ELSE HashLen
<1>5. /\ w \in Nat /\ Len(out) = w /\ w < keyWant /\ keyT = Keys!Rfc[n] /\ ctr = (n + 1) % CtrLimit
  BY <1>1, <1>2, <1>3, <1>4 DEF Turns
<1>6. n + 1 \in 0..(CtrLimit - 1) /\ ctr = n + 1
  <2>1. n * HashLen < (CtrLimit - 1) * HashLen
    BY <1>1, <1>3, <1>5
  <2>2. n + 1 <= CtrLimit - 1
    BY <1>1, <2>1, FewerBlocks
  <2>3. (0 * CtrLimit + (n + 1)) % CtrLimit = n + 1
    BY <1>1, <2>2, RemainderIs
  <2>. QED
    BY <1>1, <1>5, <2>2, <2>3
<1>7. keyT' = Keys!Rfc[n + 1]
  <2>1. PICK s \in Lengths : prk = Keys!HmacRfc(Keys!Text("salt", s), Keys!Text("secret", 1))
    BY <1>3 DEF Keys!Extracted
  <2>2. \E of : prk = Keys!Digest("hmac", of)
    BY <2>1 DEF Keys!HmacRfc
  <2>3. \E S : prk \in Seq(S)
    <3>1. PICK of : prk = Keys!Digest("hmac", of)
      BY <2>2
    <3>. DEFINE D == {<<"hmac", of, i>> : i \in 1..HashLen}
    <3>2. prk \in Seq(D)
      BY <1>1, <3>1, DigestIsSeq
    <3>. HIDE DEF D
    <3>. QED
      BY <3>2
  <2>4. Keys!Hmac(prk, Keys!Input) = Keys!HmacRfc(prk, Keys!Input)
    BY <2>3, HmacIsRfc2104
  <2>5. Keys!Input = (Keys!Rfc[n] \o keyInfo) \o <<Keys!Octet(n + 1)>>
    BY <1>5, <1>6 DEF Keys!Input
  <2>6. Keys!Rfc[n + 1] = Block5869(Keys!Rfc, n + 1) /\ n + 1 # 0 /\ (n + 1) - 1 = n
    BY RfcUnfolds
  <2>. QED
    BY <1>2, <2>4, <2>5, <2>6 DEF Block5869
<1>8. Keys!Rfc' = Keys!Rfc /\ Stream' = Stream
  <2>1. Keys!Rfc' = Keys!Rfc
    BY <1>2 DEF Keys!Rfc
  <2>. QED
    BY <2>1 DEF Stream
<1>. DEFINE b == Keys!Rfc[n + 1]
            piece == SubSeq(b, 1, take)
<1>9. b \in Seq(Stream) /\ Len(b) = HashLen /\ take \in 1..HashLen
  BY <1>1, <1>3, <1>5, RfcBlocks
<1>. HIDE DEF b, take, w
<1>10. /\ piece \in Seq(Stream) /\ Len(piece) = take
       /\ \A i \in 1..take : piece[i] = b[i]
  BY <1>1, <1>9, SubSeqProperties
<1>11. out' = out \o piece
  BY <1>2, <1>5, <1>7 DEF b, take
<1>12. /\ out' \in Seq(Stream) /\ Len(out') = w + take
       /\ \A i \in 1..w : out'[i] = out[i]
       /\ \A i \in (w + 1)..(w + take) : out'[i] = b[i - w]
  <2>. HIDE DEF piece
  <2>1. /\ out \o piece \in Seq(Stream) /\ Len(out \o piece) = w + take
        /\ \A i \in 1..(w + take) : (out \o piece)[i] = IF i <= w THEN out[i] ELSE piece[i - w]
    BY <1>3, <1>5, <1>10, ConcatProperties
  <2>. QED
    BY <1>5, <1>9, <1>10, <1>11, <2>1
<1>13. Turns(n + 1)'
  <2>1. (n + 1) * HashLen = w + HashLen
    BY <1>1 DEF w
  <2>2. Len(out') = IF keyWant < (n + 1) * HashLen THEN keyWant ELSE (n + 1) * HashLen
    BY <1>1, <1>3, <1>5, <1>9, <1>12, <2>1 DEF take
  <2>3. ctr' = ((n + 1) + 1) % CtrLimit
    BY <1>2, <1>6
  <2>. QED
    BY <1>2, <1>7, <1>8, <2>2, <2>3 DEF Turns
<1>14. Keys!AsOtherAdapters'
  <2>1. DOMAIN out' = 1..(w + take) /\ DOMAIN out = 1..w
    BY <1>3, <1>5, <1>12
  <2>2. ASSUME NEW i \in 1..(w + take)
        PROVE  out'[i] = Keys!Rfc[((i - 1) \div HashLen) + 1][((i - 1) % HashLen) + 1]
    <3>1. CASE i \in 1..w
      BY <1>3, <1>12, <2>1, <3>1 DEF Keys!AsOtherAdapters
    <3>2. CASE i \in (w + 1)..(w + take)
      <4>1. (i - w) - 1 \in 0..(HashLen - 1) /\ i - 1 = n * HashLen + ((i - w) - 1)
        BY <1>1, <1>5, <1>9, <3>2 DEF w
      <4>2. (i - 1) % HashLen = (i - w) - 1 /\ (i - 1) \div HashLen = n
        <5>. DEFINE r == (i - w) - 1
        <5>1. r \in 0..(HashLen - 1) /\ i - 1 = n * HashLen + r
          BY <4>1
        <5>. HIDE DEF r
        <5>2. (n * HashLen + r) % HashLen = r /\ (n * HashLen + r) \div HashLen = n
          BY <1>1, <5>1, RemainderIs
        <5>3. (i - 1) % HashLen = r /\ (i - 1) \div HashLen = n
          BY <5>1, <5>2
        <5>. QED
          BY <5>3 DEF r
      <4>3. ((i - 1) % HashLen) + 1 = i - w
        BY <1>5, <4>2
      <4>. QED
        BY <1>12, <3>2, <4>2, <4>3 DEF b
    <3>. QED
      BY <1>5, <1>9, <3>1, <3>2
  <2>. QED
    BY <1>8, <2>1, <2>2 DEF Keys!AsOtherAdapters
<1>15. Keys!Extracted'
  BY <1>2, <1>3 DEF Keys!Extracted
<1>. QED
  BY <1>2, <1>3, <1>6, <1>8, <1>12, <1>13, <1>14, <1>15 DEF KeysInv

LEMMA KeysTell ==
    ASSUME Keys!ConstantsAssumption, KeysInv
    PROVE  Keys!TypeOK /\ Keys!AsOtherAdapters /\ Keys!Extracted
<1>1. HashLen \in Nat \ {0} /\ CtrLimit \in Nat \ {0, 1} /\ MaxOut \in Nat
  BY DEF Keys!ConstantsAssumption
<1>2. PICK n \in 0..(CtrLimit - 1) : Turns(n)
  BY DEF KeysInv
<1>3. n * HashLen \in Nat
  BY <1>1
<1>4. ctr \in 0..(CtrLimit - 1)
  BY <1>1, <1>2, Divided DEF Turns
<1>5. Len(keyT) \in {0, HashLen}
  BY <1>2, RfcBlocks, EmptySeq DEF Turns
<1>. QED
  BY <1>2, <1>3, <1>4, <1>5 DEF KeysInv, Turns, Keys!TypeOK

KeyService == scenario = "keys" => KeysInv

LEMMA KeyServiceKept ==
    /\ FormatsInit => KeyService
    /\ KeyService /\ [FormatsNext]_formatsVars => KeyService'
<1>1. Keys!ConstantsAssumption
  BY InstancesAssumption DEF InstancesAssumption
<1>2. FormatsInit => KeyService
  BY <1>1, KeysInit DEF FormatsInit, KeyService
<1>3. ASSUME KeyService, [FormatsNext]_formatsVars, scenario' = "keys" PROVE KeysInv'
  <2>1. scenario = "keys" /\ KeysInv
    BY <1>3 DEF FormatsNext, formatsVars, KeyService
  <2>2. Keys!Next \/ UNCHANGED <<prk, keyInfo, keyWant, keyT, out, ctr>>
    BY <1>3, <2>1 DEF FormatsNext, formatsVars, keys
  <2>3. CASE Keys!Next
    BY <1>1, <2>1, <2>3, ExpandKeeps DEF Keys!Next
  <2>4. CASE UNCHANGED <<prk, keyInfo, keyWant, keyT, out, ctr>>
    <3>1. Keys!Rfc' = Keys!Rfc
      BY <2>4 DEF Keys!Rfc
    <3>2. Stream' = Stream
      BY <3>1 DEF Stream
    <3>. QED
      BY <2>1, <2>4, <3>1, <3>2 DEF KeysInv, Turns, Keys!Extracted, Keys!AsOtherAdapters
  <2>. QED
    BY <2>2, <2>3, <2>4
<1>. QED
  BY <1>2, <1>3 DEF KeyService

(* Padding, keyed hash and derived bytes are those of the standards, for   *)
(* every size of block, digest and counter, every message, and every length*)
(* of salt, info and output (sl2_sha256_final, sl2_hmac_sha256,            *)
(* sl2_hkdf_sha256).                                                       *)
THEOREM KeysAreStandard == FormatsSpec => []AsTheStandards
<1>1. HashInv /\ PadInv /\ [FormatsNext]_formatsVars => PadInv'
  <2>1. [FormatsNext]_formatsVars => [Next]_vars
    BY OnlyTheHash
  <2>. QED
    BY <2>1, PadKept
<1>2. FormatsInit => PadInv
  BY PadInit DEF FormatsInit
<1>3. Keys!ConstantsAssumption
  BY InstancesAssumption DEF InstancesAssumption
<1>4. PadInv /\ KeyService => AsTheStandards
  BY <1>3, PadTells, KeysTell DEF KeyService, AsTheStandards
<1>. QED
  BY <1>1, <1>2, <1>4, HashKept, KeyServiceKept, PTL DEF FormatsSpec
=============================================================================
