--------------------------- MODULE RxQueue_proofs ---------------------------
(***************************************************************************)
(* The ring is a queue, for every number of slots and every width of the   *)
(* positions that is a multiple of it: the two tasks never meet in a slot, *)
(* and every step is one of the bounded queue's, or none.                  *)
(***************************************************************************)
EXTENDS RxQueue, SequenceTheorems, TLAPS

(* Frames published and not yet released. *)
Waiting == (head - tail) % Word

Pushing == push # "idle"
Popping == pop # "idle"

(* A task that is at work knows what it looked up when it began: there was *)
(* a free slot, which only it fills; there was a frame, which only it      *)
(* takes.                                                                  *)
Claims ==
    /\ Waiting \in 0..Slots
    /\ Pushing => Waiting < Slots
    /\ Popping => Waiting > 0

(* Frames come out at most once. *)
Accounted ==
    Len(delivered) + Waiting + (IF Pushing THEN 1 ELSE 0) <= arrived

(* The halves copied so far agree with what they are copies of. *)
Copied ==
    /\ push \in {"data", "publish"} => slot[At(head)].meta = arrived
    /\ push = "publish" => slot[At(head)].data = arrived
    /\ pop \in {"data", "release"} => out.meta = slot[At(tail)].meta
    /\ pop = "release" => out.data = slot[At(tail)].data

Frames == [meta : 0..MaxFrames, data : 0..MaxFrames]

IInv == TypeOK /\ delivered \in Seq(Frames) /\ Claims /\ Accounted /\ Copied

----------------------------------------------------------------------------
(* Arithmetic of positions. *)

(* A remainder is unique. *)
LEMMA RemainderUnique ==
    ASSUME NEW n \in Nat \ {0}, NEW p \in Int, NEW q \in Int,
           NEW r \in 0..(n - 1), NEW s \in 0..(n - 1), p * n + r = q * n + s
    PROVE  r = s
<1>1. (p - q) * n = s - r
  OBVIOUS
<1>2. CASE p - q >= 1
  <2>1. (p - q) * n >= n
    BY <1>2
  <2>2. QED
    BY <1>1, <2>1
<1>3. CASE p - q <= -1
  <2>1. (p - q) * n <= -n
    BY <1>3
  <2>2. QED
    BY <1>1, <2>1
<1>4. CASE p = q
  BY <1>4
<1>5. QED
  BY <1>2, <1>3, <1>4

(* What a remainder is. *)
LEMMA RemainderOf ==
    ASSUME NEW n \in Nat \ {0}, NEW x \in Int
    PROVE  x % n \in 0..(n - 1) /\ x \div n \in Int /\ x = (x \div n) * n + (x % n)
OBVIOUS

LEMMA RemainderIs ==
    ASSUME NEW n \in Nat \ {0}, NEW q \in Int, NEW r \in 0..(n - 1)
    PROVE  (q * n + r) % n = r
<1> DEFINE x == q * n + r
<1>1. x \in Int
  OBVIOUS
<1>2. x % n \in 0..(n - 1) /\ x \div n \in Int /\ x = (x \div n) * n + (x % n)
  BY <1>1, RemainderOf
<1>3. QED
  BY <1>2, RemainderUnique

LEMMA RemainderNear ==
    ASSUME NEW n \in Nat \ {0}, NEW x \in Int
    PROVE  /\ x \in 0..(n - 1) => x % n = x
           /\ x \in (-n)..(-1) => x % n = x + n
           /\ x \in n..(2 * n - 1) => x % n = x - n
<1>1. ASSUME x \in 0..(n - 1) PROVE x % n = x
  <2>1. (0 * n + x) % n = x
    BY <1>1, RemainderIs
  <2>2. QED
    BY <2>1
<1>2. ASSUME x \in (-n)..(-1) PROVE x % n = x + n
  <2>1. x + n \in 0..(n - 1)
    BY <1>2
  <2>2. ((-1) * n + (x + n)) % n = x + n
    BY <2>1, RemainderIs
  <2>3. QED
    BY <2>2
<1>3. ASSUME x \in n..(2 * n - 1) PROVE x % n = x - n
  <2>1. x - n \in 0..(n - 1)
    BY <1>3
  <2>2. (1 * n + (x - n)) % n = x - n
    BY <2>1, RemainderIs
  <2>3. QED
    BY <2>2
<1>4. QED
  BY <1>1, <1>2, <1>3

(* The slot of a position does not change when the position wraps. *)
LEMMA AtWraps ==
    ASSUME NEW x \in Int
    PROVE  At(x + Word) = At(x) /\ At(x - Word) = At(x) /\ At(x) \in 0..(Slots - 1)
<1> DEFINE k == Word \div Slots
           q == x \div Slots
           r == x % Slots
<1>1. Slots \in Nat \ {0} /\ Word \in Int
  BY SizesAssumption
<1>2. k \in Int /\ Word = k * Slots
  <2>1. k \in Int /\ Word = k * Slots + (Word % Slots)
    BY <1>1, RemainderOf
  <2>2. QED
    BY <1>1, <2>1, SizesAssumption
<1>3. r \in 0..(Slots - 1) /\ q \in Int /\ x = q * Slots + r
  BY <1>1, RemainderOf
<1> HIDE DEF k, q, r
<1>4. x + Word = (q + k) * Slots + r /\ x - Word = (q - k) * Slots + r
  BY <1>1, <1>2, <1>3
<1>5. (x + Word) % Slots = r
  <2>1. q + k \in Int
    BY <1>2, <1>3
  <2>2. QED
    BY <1>1, <1>3, <1>4, <2>1, RemainderIs
<1>6. (x - Word) % Slots = r
  <2>1. q - k \in Int
    BY <1>2, <1>3
  <2>2. QED
    BY <1>1, <1>3, <1>4, <2>1, RemainderIs
<1>7. QED
  BY <1>3, <1>5, <1>6 DEF At, r

(* Positions less than a ring apart have slots of their own. *)
LEMMA SlotsApart ==
    ASSUME NEW x \in Int, NEW y \in Int, x < y, y - x < Slots
    PROVE  At(x) # At(y)
<1> DEFINE p == x \div Slots
           q == y \div Slots
           r == x % Slots
<1>1. Slots \in Nat \ {0}
  BY SizesAssumption
<1>2. SUFFICES ASSUME y % Slots = r PROVE FALSE
  BY DEF At
<1>3. /\ r \in 0..(Slots - 1) /\ p \in Int /\ q \in Int
      /\ x = p * Slots + r /\ y = q * Slots + r
  BY <1>1, <1>2, RemainderOf
<1> HIDE DEF p, q, r
<1>4. y - x = (q - p) * Slots
  BY <1>1, <1>3
<1>5. CASE q - p >= 1
  <2>1. (q - p) * Slots >= Slots
    BY <1>1, <1>3, <1>5
  <2>2. QED
    BY <1>1, <1>4, <2>1
<1>6. CASE q - p <= 0
  <2>1. (q - p) * Slots <= 0
    BY <1>1, <1>3, <1>6
  <2>2. QED
    BY <1>4, <2>1
<1>7. QED
  BY <1>3, <1>5, <1>6

(* The distance of two positions, and how a step of either changes it. *)
LEMMA Distance ==
    ASSUME NEW h \in 0..(Word - 1), NEW t \in 0..(Word - 1)
    PROVE  (h - t) % Word = IF h >= t THEN h - t ELSE h - t + Word
<1>1. Word \in Nat \ {0} /\ h - t \in Int
  BY SizesAssumption
<1>2. h >= t => h - t \in 0..(Word - 1)
  BY <1>1
<1>3. h < t => h - t \in (-Word)..(-1)
  BY <1>1
<1>4. CASE h >= t
  BY <1>1, <1>2, <1>4, RemainderNear
<1>5. CASE h < t
  <2>1. (h - t) % Word = h - t + Word
    BY <1>1, <1>3, <1>5, RemainderNear
  <2>2. ~(h >= t)
    BY <1>5
  <2>3. QED
    BY <2>1, <2>2
<1>6. QED
  BY <1>4, <1>5

LEMMA Stepped ==
    ASSUME NEW h \in 0..(Word - 1)
    PROVE  (h + 1) % Word = IF h = Word - 1 THEN 0 ELSE h + 1
<1>1. Word \in Nat \ {0} /\ h + 1 \in Int
  BY SizesAssumption
<1>2. h # Word - 1 => h + 1 \in 0..(Word - 1)
  BY <1>1
<1>3. h = Word - 1 => h + 1 \in Word..(2 * Word - 1)
  BY <1>1
<1>4. QED
  BY <1>1, <1>2, <1>3, RemainderNear

LEMMA HeadSteps ==
    ASSUME NEW h \in 0..(Word - 1), NEW t \in 0..(Word - 1), (h - t) % Word < Slots
    PROVE  /\ (h + 1) % Word \in 0..(Word - 1)
           /\ (((h + 1) % Word) - t) % Word = ((h - t) % Word) + 1
<1>1. Word \in Nat /\ Slots \in Nat /\ Word >= 2 * Slots /\ Slots >= 2
  BY SizesAssumption
<1> DEFINE g == (h + 1) % Word
<1>2. g = (IF h = Word - 1 THEN 0 ELSE h + 1) /\ g \in 0..(Word - 1)
  BY <1>1, Stepped
<1> HIDE DEF g
<1>3. (g - t) % Word = IF g >= t THEN g - t ELSE g - t + Word
  BY <1>2, Distance
<1>4. (h - t) % Word = IF h >= t THEN h - t ELSE h - t + Word
  BY Distance
<1>5. QED
  BY <1>1, <1>2, <1>3, <1>4 DEF g

LEMMA TailSteps ==
    ASSUME NEW h \in 0..(Word - 1), NEW t \in 0..(Word - 1), (h - t) % Word > 0
    PROVE  /\ (t + 1) % Word \in 0..(Word - 1)
           /\ (h - ((t + 1) % Word)) % Word = ((h - t) % Word) - 1
<1>1. Word \in Nat /\ Slots \in Nat /\ Word >= 2 * Slots /\ Slots >= 2
  BY SizesAssumption
<1> DEFINE u == (t + 1) % Word
<1>2. u = (IF t = Word - 1 THEN 0 ELSE t + 1) /\ u \in 0..(Word - 1)
  BY <1>1, Stepped
<1> HIDE DEF u
<1>3. (h - u) % Word = IF h >= u THEN h - u ELSE h - u + Word
  BY <1>2, Distance
<1>4. (h - t) % Word = IF h >= t THEN h - t ELSE h - t + Word
  BY Distance
<1>5. QED
  BY <1>1, <1>2, <1>3, <1>4 DEF u

----------------------------------------------------------------------------
(* The invariant is inductive. *)

LEMMA InitHolds == Init => IInv
<1>1. SUFFICES ASSUME Init PROVE IInv
  OBVIOUS
<1>2. Waiting = 0
  <2>1. 0 \in 0..(Word - 1)
    BY SizesAssumption
  <2>2. QED
    BY <1>1, <2>1, Distance DEF Init, Waiting
<1>3. TypeOK
  BY <1>1, SizesAssumption DEF Init, TypeOK, Blank, Stages
<1>4. delivered \in Seq(Frames) /\ Claims /\ Accounted /\ Copied
  BY <1>1, <1>2, SizesAssumption DEF Init, Claims, Accounted, Copied, Pushing, Popping
<1>5. QED
  BY <1>3, <1>4 DEF IInv

(* What every step may rely on. *)
LEMMA Facts ==
    ASSUME TypeOK
    PROVE  /\ head \in 0..(Word - 1) /\ tail \in 0..(Word - 1)
           /\ At(head) \in 0..(Slots - 1) /\ At(tail) \in 0..(Slots - 1)
           /\ arrived \in Nat /\ Waiting \in 0..(Word - 1)
<1>1. Word \in Nat
  BY SizesAssumption
<1>2. head \in 0..(Word - 1) /\ tail \in 0..(Word - 1) /\ arrived \in Nat
  BY SizesAssumption DEF TypeOK
<1>3. head \in Int /\ tail \in Int
  BY <1>1, <1>2
<1>4. Waiting \in 0..(Word - 1)
  BY <1>1, <1>2, Distance DEF Waiting
<1>5. QED
  BY <1>2, <1>3, <1>4, AtWraps

(* A frame that arrives leaves the numbers of the earlier ones in range. *)
LEMMA MoreFrames ==
    ASSUME TypeOK, arrived' = arrived + 1, UNCHANGED <<slot, out>>
    PROVE  /\ slot' \in [0..(Slots - 1) -> [meta : 0..arrived', data : 0..arrived']]
           /\ out' \in [meta : 0..arrived', data : 0..arrived']
BY DEF TypeOK

LEMMA PushFullKeeps ==
    ASSUME IInv, PushFull
    PROVE  IInv'
<1>1. /\ push = "idle" /\ arrived < MaxFrames /\ arrived' = arrived + 1
      /\ dropped' = (dropped + 1) % Word
      /\ UNCHANGED <<head, tail, slot, push, pop, out, delivered>>
  BY DEF PushFull, consumer
<1>2. TypeOK /\ delivered \in Seq(Frames) /\ Claims /\ Accounted /\ Copied
  BY DEF IInv
<1>3. TypeOK'
  <2>1. dropped' \in 0..(Word - 1)
    BY <1>1, <1>2, SizesAssumption, Stepped DEF TypeOK
  <2>2. QED
    BY <1>1, <1>2, <2>1, MoreFrames, SizesAssumption DEF TypeOK
<1>4. Claims' /\ Copied'
  BY <1>1, <1>2 DEF Claims, Copied, Waiting, Pushing, Popping, At
<1>5. Accounted'
  BY <1>1, <1>2, Facts DEF Accounted, Waiting, Pushing, Popping
<1>6. QED
  BY <1>1, <1>2, <1>3, <1>4, <1>5 DEF IInv

LEMMA PushBeginKeeps ==
    ASSUME IInv, PushBegin
    PROVE  IInv'
<1>1. /\ push = "idle" /\ arrived < MaxFrames /\ arrived' = arrived + 1
      /\ push' = "meta" /\ ~((head - tail) % Word >= Slots)
      /\ UNCHANGED <<head, tail, slot, dropped, pop, out, delivered>>
  BY DEF PushBegin, consumer, Full
<1>2. TypeOK /\ delivered \in Seq(Frames) /\ Claims /\ Accounted /\ Copied
  BY DEF IInv
<1>3. TypeOK'
  BY <1>1, <1>2, MoreFrames, SizesAssumption DEF TypeOK, Stages
<1>4. Claims'
  <2>1. Waiting < Slots /\ UNCHANGED Waiting
    BY <1>1, <1>2, Facts, SizesAssumption DEF Waiting
  <2>2. QED
    BY <1>1, <1>2, <2>1 DEF Claims, Pushing, Popping
<1>5. Copied'
  BY <1>1, <1>2 DEF Copied, At
<1>6. Accounted'
  BY <1>1, <1>2, Facts DEF Accounted, Waiting, Pushing, Popping
<1>7. QED
  BY <1>1, <1>2, <1>3, <1>4, <1>5, <1>6 DEF IInv

(* While a frame is written, its slot is not the one being read. *)
LEMMA Apart ==
    ASSUME IInv, Pushing, Popping
    PROVE  At(head) # At(tail)
<1>1. Waiting \in 1..(Slots - 1)
  BY SizesAssumption DEF IInv, Claims
<1>2. /\ head \in 0..(Word - 1) /\ tail \in 0..(Word - 1)
      /\ Waiting = IF head >= tail THEN head - tail ELSE head - tail + Word
  BY Facts, Distance DEF IInv, Waiting
<1>3. head \in Int /\ tail \in Int /\ Word \in Int /\ Slots \in Int
  BY <1>2, SizesAssumption
<1>4. CASE head >= tail
  BY <1>1, <1>2, <1>3, <1>4, SlotsApart
<1>5. CASE head < tail
  <2>1. At(tail) # At(head + Word)
    BY <1>1, <1>2, <1>3, <1>5, SlotsApart
  <2>2. QED
    BY <1>3, <2>1, AtWraps
<1>6. QED
  BY <1>3, <1>4, <1>5

(* Writing a half of a slot changes that half alone. *)
LEMMA Written ==
    ASSUME TypeOK, NEW i \in 0..(Slots - 1)
    PROVE  /\ [slot EXCEPT ![i].meta = arrived]
                \in [0..(Slots - 1) -> [meta : 0..arrived, data : 0..arrived]]
           /\ [slot EXCEPT ![i].data = arrived]
                \in [0..(Slots - 1) -> [meta : 0..arrived, data : 0..arrived]]
           /\ [slot EXCEPT ![i].meta = arrived][i] = [slot[i] EXCEPT !.meta = arrived]
           /\ [slot EXCEPT ![i].data = arrived][i] = [slot[i] EXCEPT !.data = arrived]
           /\ \A j \in 0..(Slots - 1) : j # i =>
                /\ [slot EXCEPT ![i].meta = arrived][j] = slot[j]
                /\ [slot EXCEPT ![i].data = arrived][j] = slot[j]
           /\ slot[i] \in [meta : 0..arrived, data : 0..arrived]
<1>1. arrived \in 0..arrived
  BY SizesAssumption DEF TypeOK
<1>2. QED
  BY <1>1 DEF TypeOK

LEMMA PushMetaKeeps ==
    ASSUME IInv, PushMeta
    PROVE  IInv'
<1>1. /\ push = "meta" /\ push' = "data"
      /\ slot' = [slot EXCEPT ![At(head)].meta = arrived]
      /\ UNCHANGED <<head, tail, arrived, dropped, pop, out, delivered>>
  BY DEF PushMeta, consumer
<1>2. TypeOK /\ delivered \in Seq(Frames) /\ Claims /\ Accounted /\ Copied
  BY DEF IInv
<1>3. At(head) \in 0..(Slots - 1) /\ At(tail) \in 0..(Slots - 1)
  BY <1>2, Facts
<1>4. TypeOK'
  BY <1>1, <1>2, <1>3, Written, SizesAssumption DEF TypeOK, Stages
<1>5. Claims' /\ Accounted'
  BY <1>1, <1>2 DEF Claims, Accounted, Waiting, Pushing, Popping
<1>6. Copied'
  <2>1. slot'[At(head)].meta = arrived
    BY <1>1, <1>2, <1>3, Written
  <2>2. Popping => slot'[At(tail)] = slot[At(tail)]
    BY <1>1, <1>2, <1>3, Written, Apart DEF Pushing
  <2>3. QED
    BY <1>1, <1>2, <2>1, <2>2 DEF Copied, Popping, At
<1>7. QED
  BY <1>1, <1>2, <1>4, <1>5, <1>6 DEF IInv

LEMMA PushDataKeeps ==
    ASSUME IInv, PushData
    PROVE  IInv'
<1>1. /\ push = "data" /\ push' = "publish"
      /\ slot' = [slot EXCEPT ![At(head)].data = arrived]
      /\ UNCHANGED <<head, tail, arrived, dropped, pop, out, delivered>>
  BY DEF PushData, consumer
<1>2. TypeOK /\ delivered \in Seq(Frames) /\ Claims /\ Accounted /\ Copied
  BY DEF IInv
<1>3. At(head) \in 0..(Slots - 1) /\ At(tail) \in 0..(Slots - 1)
  BY <1>2, Facts
<1>4. TypeOK'
  BY <1>1, <1>2, <1>3, Written, SizesAssumption DEF TypeOK, Stages
<1>5. Claims' /\ Accounted'
  BY <1>1, <1>2 DEF Claims, Accounted, Waiting, Pushing, Popping
<1>6. Copied'
  <2>1. slot'[At(head)].meta = arrived /\ slot'[At(head)].data = arrived
    <3>1. slot[At(head)].meta = arrived
      BY <1>1, <1>2 DEF Copied
    <3>2. QED
      BY <1>1, <1>2, <1>3, <3>1, Written
  <2>2. Popping => slot'[At(tail)] = slot[At(tail)]
    BY <1>1, <1>2, <1>3, Written, Apart DEF Pushing
  <2>3. QED
    BY <1>1, <1>2, <2>1, <2>2 DEF Copied, Popping, At
<1>7. QED
  BY <1>1, <1>2, <1>4, <1>5, <1>6 DEF IInv

LEMMA PushPublishKeeps ==
    ASSUME IInv, PushPublish
    PROVE  IInv' /\ Waiting' = Waiting + 1
<1>1. /\ push = "publish" /\ push' = "idle" /\ head' = (head + 1) % Word
      /\ UNCHANGED <<tail, slot, arrived, dropped, pop, out, delivered>>
  BY DEF PushPublish, consumer
<1>2. TypeOK /\ delivered \in Seq(Frames) /\ Claims /\ Accounted /\ Copied
  BY DEF IInv
<1>3. Waiting \in 0..Slots /\ Waiting < Slots
  BY <1>1, <1>2 DEF Claims, Pushing
<1>4. head' \in 0..(Word - 1) /\ Waiting' = Waiting + 1
  BY <1>1, <1>2, <1>3, Facts, HeadSteps DEF Waiting
<1>5. TypeOK'
  BY <1>1, <1>2, <1>4 DEF TypeOK, Stages
<1>6. Claims'
  BY <1>1, <1>2, <1>3, <1>4, SizesAssumption DEF Claims, Pushing, Popping
<1>7. Accounted'
  <2>1. Len(delivered) \in Nat /\ arrived \in Nat
    BY <1>2, Facts
  <2>2. Len(delivered) + Waiting + 1 <= arrived
    BY <1>1, <1>2 DEF Accounted, Pushing
  <2>3. QED
    BY <1>1, <1>3, <1>4, <2>1, <2>2 DEF Accounted, Pushing
<1>8. Copied'
  BY <1>1, <1>2 DEF Copied, At
<1>9. QED
  BY <1>1, <1>2, <1>4, <1>5, <1>6, <1>7, <1>8 DEF IInv

LEMMA PopBeginKeeps ==
    ASSUME IInv, PopBegin
    PROVE  IInv'
<1>1. /\ pop = "idle" /\ tail # head /\ pop' = "meta"
      /\ UNCHANGED <<head, tail, slot, arrived, push, dropped, out, delivered>>
  BY DEF PopBegin, producer
<1>2. TypeOK /\ delivered \in Seq(Frames) /\ Claims /\ Accounted /\ Copied
  BY DEF IInv
<1>3. Waiting > 0
  <2>1. /\ Word \in Nat /\ head \in 0..(Word - 1) /\ tail \in 0..(Word - 1)
        /\ Waiting = IF head >= tail THEN head - tail ELSE head - tail + Word
    BY <1>2, Facts, Distance, SizesAssumption DEF Waiting
  <2>2. QED
    BY <1>1, <2>1
<1>4. TypeOK'
  BY <1>1, <1>2 DEF TypeOK, Stages
<1>5. Claims' /\ Accounted'
  BY <1>1, <1>2, <1>3 DEF Claims, Accounted, Waiting, Pushing, Popping
<1>6. Copied'
  BY <1>1, <1>2 DEF Copied, At
<1>7. QED
  BY <1>1, <1>2, <1>4, <1>5, <1>6 DEF IInv

LEMMA PopMetaKeeps ==
    ASSUME IInv, PopMeta
    PROVE  IInv'
<1>1. /\ pop = "meta" /\ pop' = "data"
      /\ out' = [out EXCEPT !.meta = slot[At(tail)].meta]
      /\ UNCHANGED <<head, tail, slot, arrived, push, dropped, delivered>>
  BY DEF PopMeta, producer
<1>2. TypeOK /\ delivered \in Seq(Frames) /\ Claims /\ Accounted /\ Copied
  BY DEF IInv
<1>3. At(tail) \in 0..(Slots - 1)
  BY <1>2, Facts
<1>4. slot[At(tail)] \in [meta : 0..arrived, data : 0..arrived]
  BY <1>2, <1>3 DEF TypeOK
<1>5. out' \in [meta : 0..arrived, data : 0..arrived] /\ out'.meta = slot[At(tail)].meta
  BY <1>1, <1>2, <1>4 DEF TypeOK
<1>6. TypeOK'
  BY <1>1, <1>2, <1>5 DEF TypeOK, Stages
<1>7. Claims' /\ Accounted'
  BY <1>1, <1>2 DEF Claims, Accounted, Waiting, Pushing, Popping
<1>8. Copied'
  BY <1>1, <1>2, <1>5 DEF Copied, At
<1>9. QED
  BY <1>1, <1>2, <1>6, <1>7, <1>8 DEF IInv

LEMMA PopDataKeeps ==
    ASSUME IInv, PopData
    PROVE  IInv'
<1>1. /\ pop = "data" /\ pop' = "release"
      /\ out' = [out EXCEPT !.data = slot[At(tail)].data]
      /\ UNCHANGED <<head, tail, slot, arrived, push, dropped, delivered>>
  BY DEF PopData, producer
<1>2. TypeOK /\ delivered \in Seq(Frames) /\ Claims /\ Accounted /\ Copied
  BY DEF IInv
<1>3. At(tail) \in 0..(Slots - 1)
  BY <1>2, Facts
<1>4. slot[At(tail)] \in [meta : 0..arrived, data : 0..arrived]
  BY <1>2, <1>3 DEF TypeOK
<1>5. /\ out' \in [meta : 0..arrived, data : 0..arrived]
      /\ out'.data = slot[At(tail)].data /\ out'.meta = slot[At(tail)].meta
  BY <1>1, <1>2, <1>4 DEF TypeOK, Copied
<1>6. TypeOK'
  BY <1>1, <1>2, <1>5 DEF TypeOK, Stages
<1>7. Claims' /\ Accounted'
  BY <1>1, <1>2 DEF Claims, Accounted, Waiting, Pushing, Popping
<1>8. Copied'
  BY <1>1, <1>2, <1>5 DEF Copied, At
<1>9. QED
  BY <1>1, <1>2, <1>6, <1>7, <1>8 DEF IInv

LEMMA PopReleaseKeeps ==
    ASSUME IInv, PopRelease
    PROVE  IInv' /\ Waiting' = Waiting - 1 /\ Waiting > 0
<1>1. /\ pop = "release" /\ pop' = "idle" /\ tail' = (tail + 1) % Word
      /\ delivered' = Append(delivered, out)
      /\ UNCHANGED <<head, slot, arrived, push, dropped, out>>
  BY DEF PopRelease, producer
<1>2. TypeOK /\ delivered \in Seq(Frames) /\ Claims /\ Accounted /\ Copied
  BY DEF IInv
<1>3. Waiting \in 0..Slots /\ Waiting > 0
  BY <1>1, <1>2 DEF Claims, Popping
<1>4. tail' \in 0..(Word - 1) /\ Waiting' = Waiting - 1
  BY <1>1, <1>2, <1>3, Facts, TailSteps DEF Waiting
<1>5. delivered' \in Seq(Frames) /\ Len(delivered') = Len(delivered) + 1
  <2>1. out \in Frames
    BY <1>2, SizesAssumption DEF TypeOK, Frames
  <2>2. QED
    BY <1>1, <1>2, <2>1
<1>6. Accounted'
  <2>1. Len(delivered) \in Nat /\ arrived \in Nat
    BY <1>2, Facts
  <2>2. QED
    BY <1>1, <1>2, <1>3, <1>4, <1>5, <2>1 DEF Accounted, Pushing
<1>7. TypeOK'
  <2>1. Len(delivered') <= arrived'
    BY <1>3, <1>4, <1>5, <1>6, <1>1, <1>2, Facts, SizesAssumption DEF Accounted
  <2>2. QED
    BY <1>1, <1>2, <1>4, <2>1 DEF TypeOK, Stages
<1>8. Claims'
  BY <1>1, <1>2, <1>3, <1>4, SizesAssumption DEF Claims, Pushing, Popping
<1>9. Copied'
  BY <1>1, <1>2 DEF Copied, At
<1>10. QED
  BY <1>3, <1>4, <1>5, <1>6, <1>7, <1>8, <1>9 DEF IInv

LEMMA StutterKeeps ==
    ASSUME IInv, UNCHANGED vars
    PROVE  IInv'
BY DEF vars, producer, consumer, IInv, TypeOK, Claims, Accounted, Copied,
       Waiting, Pushing, Popping, At

LEMMA StepKeeps == IInv /\ [Next]_vars => IInv'
BY PushFullKeeps, PushBeginKeeps, PushMetaKeeps, PushDataKeeps, PushPublishKeeps,
   PopBeginKeeps, PopMetaKeeps, PopDataKeeps, PopReleaseKeeps, StutterKeeps
   DEF Next, Push, Pop

THEOREM Inductive == Spec => []IInv
BY InitHolds, StepKeeps, PTL DEF Spec

(* Every variable keeps its type: the positions stay within their width,   *)
(* and no more frames come out than went in.                               *)
THEOREM TypesAreKept == Spec => []TypeOK
BY Inductive, PTL DEF IInv

(* sl2_rxq_push and sl2_rxq_pop never copy into and out of the same slot   *)
(* at a time, whatever their interleaving and however often the positions  *)
(* have wrapped.                                                           *)
THEOREM SlotsAreNotShared == Spec => []SlotHasOneUser
<1>1. IInv => SlotHasOneUser
  BY Apart DEF SlotHasOneUser, Pushing, Popping
<1>2. QED
  BY Inductive, <1>1, PTL

(* The difference of the positions is at most the number of slots: no      *)
(* frame is overwritten before it is read.                                 *)
THEOREM RingNeverOverfull == Spec => []NeverOverfull
<1>1. IInv => NeverOverfull
  BY SizesAssumption DEF IInv, Claims, Waiting, NeverOverfull
<1>2. QED
  BY Inductive, <1>1, PTL

----------------------------------------------------------------------------
(* The ring implements the bounded queue, step by step. *)

Accepted == IF push = "idle" THEN arrived ELSE arrived - 1
Queue    == [i \in 1..Waiting |-> FrameOf(slot[At(tail + i - 1)])]
Returned == [i \in DOMAIN delivered |-> FrameOf(delivered[i])]

(* Two ways to know a sequence by its elements. *)
LEMMA AppendIs ==
    ASSUME NEW s \in Seq(Int), NEW t \in Seq(Int), NEW x \in Int,
           Len(t) = Len(s) + 1, t[Len(s) + 1] = x,
           \A i \in 1..Len(s) : t[i] = s[i]
    PROVE  t = Append(s, x)
<1>1. /\ Append(s, x) \in Seq(Int) /\ Len(Append(s, x)) = Len(s) + 1
      /\ \A i \in 1..Len(s) : Append(s, x)[i] = s[i]
      /\ Append(s, x)[Len(s) + 1] = x
  BY AppendProperties
<1>2. Len(s) \in Nat
  OBVIOUS
<1>3. \A i \in 1..Len(t) : t[i] = Append(s, x)[i]
  BY <1>1, <1>2
<1>4. QED
  BY <1>1, <1>3, SeqEqual

LEMMA TailIs ==
    ASSUME NEW s \in Seq(Int), NEW t \in Seq(Int), s # <<>>,
           Len(t) = Len(s) - 1, \A i \in 1..(Len(s) - 1) : t[i] = s[i + 1]
    PROVE  t = Tail(s)
<1>1. Tail(s) \in Seq(Int) /\ Len(Tail(s)) = Len(s) - 1
  BY HeadTailProperties
<1>2. \A i \in 1..(Len(s) - 1) : Tail(s)[i] = s[i + 1]
  BY HeadTailProperties
<1>3. QED
  BY <1>1, <1>2, SeqEqual

LEMMA QueueFacts ==
    ASSUME TypeOK
    PROVE  Queue \in Seq(Int) /\ Len(Queue) = Waiting
<1>1. Waiting \in Nat /\ tail \in Int
  BY Facts, SizesAssumption
<1>2. ASSUME NEW i \in 1..Waiting PROVE FrameOf(slot[At(tail + i - 1)]) \in Int
  <2>1. At(tail + i - 1) \in 0..(Slots - 1)
    BY <1>1, AtWraps
  <2>2. QED
    BY <2>1, SizesAssumption DEF TypeOK, FrameOf
<1>3. QED
  BY <1>1, <1>2 DEF Queue

(* The slot that is being written holds no frame of the queue. *)
LEMMA HeadIsFree ==
    ASSUME IInv, Pushing, NEW i \in 1..Waiting
    PROVE  At(tail + i - 1) # At(head)
<1>1. Waiting \in 0..(Slots - 1)
  BY SizesAssumption DEF IInv, Claims
<1>2. /\ head \in 0..(Word - 1) /\ tail \in 0..(Word - 1)
      /\ Waiting = IF head >= tail THEN head - tail ELSE head - tail + Word
  BY Facts, Distance DEF IInv, Waiting
<1>3. /\ head \in Int /\ tail \in Int /\ Word \in Int /\ Slots \in Int
      /\ tail + i - 1 \in Int
  BY <1>1, <1>2, SizesAssumption
<1>4. CASE head >= tail
  BY <1>1, <1>2, <1>3, <1>4, SlotsApart
<1>5. CASE head < tail
  <2>1. At(tail + i - 1) # At(head + Word)
    BY <1>1, <1>2, <1>3, <1>5, SlotsApart
  <2>2. QED
    BY <1>3, <2>1, AtWraps
<1>6. QED
  BY <1>3, <1>4, <1>5

(* A position so many frames after the tail has the slot of the head. *)
LEMMA HeadIsNext ==
    ASSUME TypeOK
    PROVE  At(tail + Waiting) = At(head)
<1>1. /\ head \in 0..(Word - 1) /\ tail \in 0..(Word - 1) /\ Word \in Nat
      /\ Waiting = IF head >= tail THEN head - tail ELSE head - tail + Word
  BY Facts, Distance, SizesAssumption DEF Waiting
<1>2. tail + Waiting = head \/ tail + Waiting = head + Word
  BY <1>1
<1>3. QED
  BY <1>1, <1>2, AtWraps

LEMMA InitIsFifos == Init => Fifo!Init
<1>1. SUFFICES ASSUME Init PROVE Fifo!Init
  OBVIOUS
<1>2. (head - tail) % Word = 0
  <2>1. 0 \in 0..(Word - 1)
    BY SizesAssumption
  <2>2. QED
    BY <1>1, <2>1, Distance DEF Init
<1>3. QED
  BY <1>1, <1>2 DEF Init, Fifo!Init

LEMMA PushFullLoses ==
    ASSUME IInv, PushFull
    PROVE  Fifo!Lose
<1>1. Waiting = Slots
  <2>1. Waiting >= Slots /\ Waiting \in 0..Slots
    BY DEF PushFull, Full, Waiting, IInv, Claims
  <2>2. QED
    BY <2>1, SizesAssumption
<1>2. Len(Queue) = Slots
  BY <1>1, QueueFacts DEF IInv
<1>3. /\ push = "idle" /\ push' = push /\ arrived' = arrived + 1
      /\ dropped' = (dropped + 1) % Word
      /\ UNCHANGED <<head, tail, slot, delivered>>
  BY DEF PushFull, consumer
<1>4. QED
  BY <1>2, <1>3 DEF Fifo!Lose, Queue, Waiting, At

LEMMA PushPublishAccepts ==
    ASSUME IInv, PushPublish
    PROVE  Fifo!Accept
<1>1. /\ push = "publish" /\ push' = "idle" /\ head' = (head + 1) % Word
      /\ UNCHANGED <<tail, slot, arrived, dropped, delivered>>
  BY DEF PushPublish, consumer
<1>2. TypeOK /\ TypeOK' /\ Waiting' = Waiting + 1 /\ Waiting \in 0..(Slots - 1)
  BY <1>1, PushPublishKeeps, SizesAssumption DEF IInv, Claims, Pushing
<1>3. Queue \in Seq(Int) /\ Len(Queue) = Waiting /\ Waiting \in Nat /\ arrived \in Nat
  BY <1>2, QueueFacts, Facts, SizesAssumption
<1>4. tail \in Int
  BY <1>2, Facts, SizesAssumption
<1>5. FrameOf(slot[At(tail + (Waiting + 1) - 1)]) = arrived
  <2>1. tail + (Waiting + 1) - 1 = tail + Waiting
    BY <1>3, <1>4
  <2>2. At(tail + (Waiting + 1) - 1) = At(head)
    BY <1>2, <2>1, HeadIsNext
  <2>3. slot[At(head)].meta = arrived /\ slot[At(head)].data = arrived
    BY <1>1 DEF IInv, Copied
  <2>4. QED
    BY <2>2, <2>3 DEF FrameOf
<1>6. Queue' = [i \in 1..(Waiting + 1) |-> FrameOf(slot[At(tail + i - 1)])]
  BY <1>1, <1>2 DEF Queue, At, FrameOf
<1>7. Queue' = Append(Queue, arrived)
  <2>1. \A i \in 1..Waiting : Queue'[i] = Queue[i]
    <3>1. Queue = [i \in 1..Waiting |-> FrameOf(slot[At(tail + i - 1)])]
      BY DEF Queue
    <3>2. QED
      BY <1>3, <1>6, <3>1
  <2>2. Queue'[Waiting + 1] = arrived
    BY <1>3, <1>5, <1>6
  <2>3. Queue' \in Seq(Int) /\ Len(Queue') = Waiting + 1
    <3>1. \A i \in 1..(Waiting + 1) : Queue'[i] \in Int
      BY <1>3, <2>1, <2>2
    <3>2. QED
      BY <1>3, <1>6, <3>1
  <2>4. QED
    BY <1>3, <2>1, <2>2, <2>3, AppendIs
<1>8. Accepted' = Accepted + 1 /\ Accepted' = arrived
  BY <1>1, <1>3 DEF Accepted
<1>9. QED
  BY <1>1, <1>2, <1>3, <1>7, <1>8, SizesAssumption
     DEF Fifo!Accept, Queue, Waiting, Accepted, Returned

LEMMA PopReleaseDelivers ==
    ASSUME IInv, PopRelease
    PROVE  Fifo!Deliver
<1>1. /\ pop = "release" /\ tail' = (tail + 1) % Word
      /\ delivered' = Append(delivered, out)
      /\ UNCHANGED <<head, slot, arrived, push, dropped, out>>
  BY DEF PopRelease, producer
<1>2. /\ TypeOK /\ TypeOK' /\ Waiting' = Waiting - 1 /\ Waiting > 0
      /\ delivered \in Seq(Frames)
  BY PopReleaseKeeps DEF IInv
<1>3. Queue \in Seq(Int) /\ Len(Queue) = Waiting /\ Waiting \in Nat \ {0}
  BY <1>2, QueueFacts, Facts, SizesAssumption
<1>4. tail \in 0..(Word - 1) /\ tail \in Int /\ Word \in Int
  BY <1>2, Facts, SizesAssumption
<1>5. Queue[1] = FrameOf(out)
  <2>1. tail + 1 - 1 = tail
    BY <1>4
  <2>2. Queue[1] = FrameOf(slot[At(tail)])
    BY <1>3, <2>1 DEF Queue
  <2>3. out.meta = slot[At(tail)].meta /\ out.data = slot[At(tail)].data
    BY <1>1 DEF IInv, Copied
  <2>4. QED
    BY <2>2, <2>3 DEF FrameOf
<1>6. ASSUME NEW i \in 1..(Waiting - 1)
      PROVE  At(tail' + i - 1) = At(tail + (i + 1) - 1)
  <2>1. i \in Int
    OBVIOUS
  <2>2. tail' = tail + 1 \/ tail' = tail + 1 - Word
    BY <1>1, <1>4, Stepped
  <2>3. tail' + i - 1 = tail + (i + 1) - 1 \/ tail' + i - 1 = (tail + (i + 1) - 1) - Word
    BY <1>4, <2>1, <2>2
  <2>4. tail + (i + 1) - 1 \in Int
    BY <1>4, <2>1
  <2>5. QED
    BY <2>3, <2>4, AtWraps
<1>7. Queue' = [i \in 1..(Waiting - 1) |-> Queue[i + 1]]
  <2>1. Queue' = [i \in 1..(Waiting - 1) |-> FrameOf(slot[At(tail' + i - 1)])]
    BY <1>1, <1>2 DEF Queue, At, FrameOf
  <2>2. ASSUME NEW i \in 1..(Waiting - 1)
        PROVE  FrameOf(slot[At(tail' + i - 1)]) = Queue[i + 1]
    BY <1>3, <1>6 DEF Queue
  <2>3. QED
    BY <2>1, <2>2
<1>8. Queue' = Tail(Queue) /\ Head(Queue) = FrameOf(out) /\ Queue # <<>>
  <2>1. Queue # <<>> /\ Head(Queue) = Queue[1]
    BY <1>3
  <2>2. Queue' \in Seq(Int) /\ Len(Queue') = Waiting - 1
    BY <1>3, <1>7
  <2>3. \A i \in 1..(Waiting - 1) : Queue'[i] = Queue[i + 1]
    BY <1>7
  <2>4. QED
    BY <1>3, <1>5, <2>1, <2>2, <2>3, TailIs
<1>9. Returned' = Append(Returned, FrameOf(out))
  BY <1>1, <1>2, SizesAssumption DEF Returned
<1>10. QED
  BY <1>1, <1>8, <1>9 DEF Fifo!Deliver, Queue, Waiting, Accepted, Returned

(* The other steps are none of the queue's: a frame is the queue's only    *)
(* once its position is published, and until its slot is released.         *)
LEMMA OthersStutter ==
    ASSUME IInv,
           PushBegin \/ PushMeta \/ PushData \/ PopBegin \/ PopMeta \/ PopData
             \/ UNCHANGED vars
    PROVE  UNCHANGED <<Accepted, Queue, dropped, Returned>>
<1>1. UNCHANGED <<head, tail, dropped, delivered>>
  BY DEF PushBegin, PushMeta, PushData, PopBegin, PopMeta, PopData, vars, producer, consumer
<1>2. TypeOK /\ Waiting' = Waiting /\ tail \in Int
  BY <1>1, Facts, SizesAssumption DEF IInv, Waiting
<1>3. UNCHANGED Accepted
  <2>1. arrived \in Nat
    BY <1>2, Facts
  <2>2. CASE PushBegin
    BY <2>1, <2>2 DEF PushBegin, Accepted
  <2>3. CASE PushMeta \/ PushData
    BY <2>3 DEF PushMeta, PushData, Accepted
  <2>4. CASE PopBegin \/ PopMeta \/ PopData \/ UNCHANGED vars
    BY <2>4 DEF PopBegin, PopMeta, PopData, vars, producer, Accepted
  <2>5. QED
    BY <2>2, <2>3, <2>4
<1>4. ASSUME NEW i \in 1..Waiting
      PROVE  slot'[At(tail + i - 1)] = slot[At(tail + i - 1)]
  <2>1. At(tail + i - 1) \in 0..(Slots - 1) /\ At(head) \in 0..(Slots - 1)
    BY <1>2, Facts, AtWraps
  <2>2. CASE PushMeta \/ PushData
    <3>1. At(tail + i - 1) # At(head)
      BY <2>2, HeadIsFree DEF PushMeta, PushData, Pushing
    <3>2. QED
      BY <1>2, <2>1, <2>2, <3>1, Written DEF PushMeta, PushData
  <2>3. CASE ~(PushMeta \/ PushData)
    BY <2>3 DEF PushBegin, PopBegin, PopMeta, PopData, vars
  <2>4. QED
    BY <2>2, <2>3
<1>5. UNCHANGED Queue
  <2>1. Queue' = [i \in 1..Waiting |-> FrameOf(slot'[At(tail + i - 1)])]
    BY <1>1, <1>2 DEF Queue, At, FrameOf
  <2>2. Queue = [i \in 1..Waiting |-> FrameOf(slot[At(tail + i - 1)])]
    BY DEF Queue
  <2>3. QED
    BY <1>4, <2>1, <2>2
<1>6. QED
  BY <1>1, <1>3, <1>5 DEF Returned

LEMMA StepIsFifos == IInv /\ [Next]_vars => [Fifo!Next]_(Fifo!vars)
<1>1. SUFFICES ASSUME IInv, [Next]_vars PROVE [Fifo!Next]_(Fifo!vars)
  OBVIOUS
<1>2. CASE PushFull
  BY <1>1, <1>2, PushFullLoses DEF Fifo!Next
<1>3. CASE PushPublish
  BY <1>1, <1>3, PushPublishAccepts DEF Fifo!Next
<1>4. CASE PopRelease
  BY <1>1, <1>4, PopReleaseDelivers DEF Fifo!Next
<1>5. CASE PushBegin \/ PushMeta \/ PushData \/ PopBegin \/ PopMeta \/ PopData
             \/ UNCHANGED vars
  BY <1>1, <1>5, OthersStutter DEF Fifo!vars, Accepted, Queue, Waiting, Returned
<1>6. QED
  BY <1>1, <1>2, <1>3, <1>4, <1>5 DEF Next, Push, Pop

(* Every frame is delivered whole, once and in the order of its arrival,   *)
(* or was counted as lost on a full ring: the safety part of               *)
(* ImplementsFifo, for every ring.  That frames are delivered at last is   *)
(* left to the model checker.                                              *)
THEOREM RingIsAQueue == Spec => Fifo!Init /\ [][Fifo!Next]_(Fifo!vars)
BY Inductive, InitIsFifos, StepIsFifos, PTL DEF Spec
=============================================================================
