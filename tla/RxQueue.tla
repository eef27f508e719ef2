------------------------------ MODULE RxQueue ------------------------------
(***************************************************************************)
(* The single-producer single-consumer frame ring (sl2_rxq.h): the radio   *)
(* callback pushes in the Wi-Fi task, loop() pops in its own.  Each shared *)
(* access is a step of its own, and a frame is copied in two parts, so the *)
(* two tasks meet half-written and half-read slots.  The acquire/release   *)
(* pairs are what lets the steps be interleaved in one order.  head and    *)
(* tail run freely and wrap at Word, 2^32 in the code.                     *)
(*                                                                         *)
(* Frames are numbered by arrival.  Those of an impossible length are      *)
(* refused before anything is read: a stuttering step.                     *)
(***************************************************************************)
EXTENDS Integers, Sequences

CONSTANTS
    Slots,     \* SL2_RXQ_SLOTS
    Word,      \* 2^32
    MaxFrames  \* bound: frames that ever arrive

ASSUME SizesAssumption ==
    /\ Slots \in Nat /\ Slots >= 2
    /\ Word \in Nat /\ Word >= 2 * Slots /\ Word % Slots = 0
    /\ MaxFrames \in Nat

VARIABLES
    head, tail,  \* free-running positions, written by one task each
    dropped,
    slot,        \* the frames' storage: [meta, data], two copies of a number
    arrived,     \* frames so far; the last one is being pushed, if any is
    push,        \* where the callback is: "idle", "meta", "data", "publish"
    pop,         \* where the consumer is: "idle", "meta", "data", "release"
    out,         \* the consumer's copy
    delivered    \* history: the frames pop has returned

producer == <<arrived, push, dropped>>
consumer == <<pop, out, delivered>>
vars == <<head, tail, slot, producer, consumer>>

Stages == {"idle", "meta", "data"}

Blank == [meta |-> 0, data |-> 0]

At(position) == position % Slots

(* Mutant: off by one. *)
FullLate(h, t) == (h - t) % Word > Slots

(* Unsigned subtraction. *)
Full(h, t) == (h - t) % Word >= Slots

Init ==
    /\ head = 0 /\ tail = 0 /\ dropped = 0
    /\ slot = [i \in 0..(Slots - 1) |-> Blank]
    /\ arrived = 0 /\ push = "idle"
    /\ pop = "idle" /\ out = Blank /\ delivered = <<>>

----------------------------------------------------------------------------
(* sl2_rxq_push *)

PushFull ==
    /\ push = "idle" /\ arrived < MaxFrames
    /\ Full(head, tail)
    /\ arrived' = arrived + 1
    /\ dropped' = (dropped + 1) % Word
    /\ UNCHANGED <<head, tail, slot, push, consumer>>

PushBegin ==
    /\ push = "idle" /\ arrived < MaxFrames
    /\ ~Full(head, tail)
    /\ arrived' = arrived + 1
    /\ push' = "meta"
    /\ UNCHANGED <<head, tail, slot, dropped, consumer>>

PushMeta ==
    /\ push = "meta" /\ push' = "data"
    /\ slot' = [slot EXCEPT ![At(head)].meta = arrived]
    /\ UNCHANGED <<head, tail, arrived, dropped, consumer>>

PushData ==
    /\ push = "data" /\ push' = "publish"
    /\ slot' = [slot EXCEPT ![At(head)].data = arrived]
    /\ UNCHANGED <<head, tail, arrived, dropped, consumer>>

PushPublish ==
    /\ push = "publish" /\ push' = "idle"
    /\ head' = (head + 1) % Word
    /\ UNCHANGED <<tail, slot, arrived, dropped, consumer>>

----------------------------------------------------------------------------
(* sl2_rxq_pop.  On an empty ring it returns false: a stuttering step. *)

PopBegin ==
    /\ pop = "idle" /\ tail # head
    /\ pop' = "meta"
    /\ UNCHANGED <<head, tail, slot, producer, out, delivered>>

PopMeta ==
    /\ pop = "meta" /\ pop' = "data"
    /\ out' = [out EXCEPT !.meta = slot[At(tail)].meta]
    /\ UNCHANGED <<head, tail, slot, producer, delivered>>

PopData ==
    /\ pop = "data" /\ pop' = "release"
    /\ out' = [out EXCEPT !.data = slot[At(tail)].data]
    /\ UNCHANGED <<head, tail, slot, producer, delivered>>

(* Mutant: the slot is not released. *)
PopKeepsSlot ==
    /\ pop = "release" /\ pop' = "idle"
    /\ delivered' = Append(delivered, out)
    /\ UNCHANGED <<head, tail, slot, producer, out>>

PopRelease ==
    /\ pop = "release" /\ pop' = "idle"
    /\ tail' = (tail + 1) % Word
    /\ delivered' = Append(delivered, out)
    /\ UNCHANGED <<head, slot, producer, out>>

(* Mutant: the head is published before the frame's last bytes are written. *)
PushPublishingEarly ==
    \/ PushFull \/ PushBegin \/ PushMeta
    \/ /\ push = "data" /\ push' = "publish"
       /\ head' = (head + 1) % Word
       /\ UNCHANGED <<tail, slot, arrived, dropped, consumer>>
    \/ /\ push = "publish" /\ push' = "idle"
       /\ slot' = [slot EXCEPT ![At(head - 1)].data = arrived]
       /\ UNCHANGED <<head, tail, arrived, dropped, consumer>>

Push == PushFull \/ PushBegin \/ PushMeta \/ PushData \/ PushPublish
Pop  == PopBegin \/ PopMeta \/ PopData \/ PopRelease

Next == Push \/ Pop

(* loop() drains the ring on every tick and the tick never stops; a        *)
(* callback that has begun is finished by the Wi-Fi task.                  *)
Spec == Init /\ [][Next]_vars /\ WF_vars(Pop)

----------------------------------------------------------------------------
(* Every variable keeps its type; a position wraps like the code's         *)
(* uint32_t, and no more frames come out than went in.                     *)
TypeOK ==
    /\ head \in 0..(Word - 1) /\ tail \in 0..(Word - 1)
    /\ dropped \in 0..(Word - 1)
    /\ slot \in [0..(Slots - 1) -> [meta : 0..arrived, data : 0..arrived]]
    /\ arrived \in 0..MaxFrames
    /\ push \in Stages \cup {"publish"} /\ pop \in Stages \cup {"release"}
    /\ out \in [meta : 0..arrived, data : 0..arrived]
    /\ Len(delivered) <= arrived

(* While the consumer copies a frame out, the producer is never writing    *)
(* the slot it copies: neither a ring that looks empty nor one that looks  *)
(* full, nor the wrap of the positions, brings the two together.           *)
SlotHasOneUser ==
    (push \in {"meta", "data"} /\ pop \in {"meta", "data"}) =>
      At(head) # At(tail)

(* The positions never drift apart by more than the ring holds, so their   *)
(* difference is the number of frames waiting, also after a wrap.          *)
NeverOverfull == (head - tail) % Word <= Slots

(* The ring implements the bounded queue.  A frame is accepted when it is  *)
(* published and delivered when its slot is released; the frame whose      *)
(* halves disagree would be no frame of the queue.                         *)
FrameOf(f) == IF f.meta = f.data THEN f.meta ELSE -1

Fifo == INSTANCE BoundedFifo WITH
    Capacity  <- Slots,
    arrived   <- IF push = "idle" THEN arrived ELSE arrived - 1,
    queue     <- [i \in 1..((head - tail) % Word) |->
                    FrameOf(slot[At(tail + i - 1)])],
    lost      <- dropped,
    delivered <- [i \in DOMAIN delivered |-> FrameOf(delivered[i])]

ImplementsFifo == Fifo!Spec
=============================================================================
