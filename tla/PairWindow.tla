---------------------------- MODULE PairWindow ----------------------------
(***************************************************************************)
(* The two deadlines of pairing (src/src/sl2_link.c: pair_start, on_pair_  *)
(* req, pair_end, the head of loop) in a millisecond clock that wraps.     *)
(* Who pairs, and with what keys, is SerinCore's subject.                  *)
(***************************************************************************)
EXTENDS Integers

CONSTANTS
    Word,         \* 2^32, the range of now_ms
    Windows,      \* the window_ms that buttons and actions ask for
    ConfirmTime,  \* SL2_PAIR_CONFIRM_MS
    MaxStall,     \* the longest time between two passes of loop
    MaxStarts     \* calls of pair_start

ConstantsAssumption ==
    /\ Word \in Nat /\ Word > 0 /\ Word % 2 = 0
    /\ Windows \subseteq 1..(Word \div 2 - 1)
    /\ ConfirmTime \in 1..(Word \div 2 - 1)
    /\ MaxStall \in 1..(Word \div 2 - 1)
    /\ MaxStarts \in Nat

VARIABLES
    now,              \* now_ms
    pair,             \* pair
    deadline,         \* pair_deadline_ms
    confirmDeadline,  \* confirm_deadline_ms
    result,           \* pair_result
    stall,            \* time since loop last ran
    starts,           \* calls of pair_start so far
    left,             \* history: what is left of the last window asked for
    confirming        \* history: time since the candidate was taken

clock == <<now, stall>>
vars == <<clock, pair, deadline, confirmDeadline, result, starts, left, confirming>>

Result == {"idle", "listening", "confirming", "full", "pin-mismatch",
           "paired", "cancelled", "timeout", "storage-error"}

Later(time) == (now + time) % Word

----------------------------------------------------------------------------
(* pair_start, which an open window only takes as an extension. *)

PairStart(w) ==
    /\ starts < MaxStarts /\ starts' = starts + 1
    /\ deadline' = Later(w) /\ left' = w
    /\ IF pair # "off" THEN UNCHANGED <<pair, result>>
       ELSE pair' = "window" /\ result' = "listening"
    /\ UNCHANGED <<clock, confirmDeadline, confirming>>

(* No entropy, or no broadcast peer. *)
PairStartFails ==
    /\ pair = "off" /\ result' = "idle"
    /\ UNCHANGED <<clock, pair, deadline, confirmDeadline, starts, left, confirming>>

(* on_pair_req: refused, taken as the candidate, or answered once more.    *)
Refuse ==
    /\ pair # "off" /\ result' \in {"full", "pin-mismatch"}
    /\ UNCHANGED <<clock, pair, deadline, confirmDeadline, starts, left, confirming>>

Candidate ==
    /\ pair = "window" /\ pair' = "confirm"
    /\ confirmDeadline' = Later(ConfirmTime)
    /\ result' = "confirming"
    /\ confirming' = 0
    /\ UNCHANGED <<clock, deadline, starts, left>>

(* Mutant: a repeated request gets its confirmation time anew. *)
AgainExtended == Later(ConfirmTime)

Again == confirmDeadline

Repeat ==
    /\ pair = "confirm" /\ confirmDeadline' = Again
    /\ UNCHANGED <<clock, pair, deadline, result, starts, left, confirming>>

(* pair_end, for every reason but a timeout. *)
PairEnd ==
    /\ pair # "off" /\ pair' = "off"
    /\ result' \in IF pair = "confirm" THEN {"paired", "storage-error", "cancelled"}
                   ELSE {"cancelled"}
    /\ UNCHANGED <<clock, deadline, confirmDeadline, starts, left, confirming>>

----------------------------------------------------------------------------
(* loop. *)

(* Mutant: the stamps are compared as they stand. *)
ReachedAbsolute(stamp) == now >= stamp

(* (int32_t)(now - stamp) >= 0 *)
Reached(stamp) == (now - stamp + Word) % Word < Word \div 2

Over ==
    \/ pair = "window" /\ Reached(deadline)
    \/ pair = "confirm" /\ (Reached(confirmDeadline) \/ Reached(deadline))

Loop ==
    /\ stall' = 0
    /\ IF Over
       THEN /\ pair' = "off"
            /\ result' = IF pair = "window" /\ result = "full" THEN "full" ELSE "timeout"
       ELSE UNCHANGED <<pair, result>>
    /\ UNCHANGED <<now, deadline, confirmDeadline, starts, left, confirming>>

Millisecond ==
    /\ stall < MaxStall /\ stall' = stall + 1
    /\ now' = (now + 1) % Word
    /\ left' = IF left > 0 THEN left - 1 ELSE 0
    /\ confirming' = IF confirming < ConfirmTime THEN confirming + 1 ELSE confirming
    /\ UNCHANGED <<pair, deadline, confirmDeadline, result, starts>>

(* Mutant: the difference is taken as unsigned. *)
SecondsLeftUnsigned == IF pair = "off" THEN 0 ELSE (deadline - now + Word) % Word

(* pair_seconds_left, one second being one millisecond here. *)
SecondsLeft ==
    LET ahead == (deadline - now + Word) % Word
    IN  IF pair = "off" \/ ahead >= Word \div 2 THEN 0 ELSE ahead

Init ==
    /\ now \in 0..Word-1 /\ stall = 0
    /\ pair = "off" /\ deadline = 0 /\ confirmDeadline = 0 /\ result = "idle"
    /\ starts = 0 /\ left = 0 /\ confirming = ConfirmTime

Next ==
    \/ \E w \in Windows : PairStart(w)
    \/ PairStartFails \/ Refuse \/ Candidate \/ Repeat \/ PairEnd
    \/ Loop \/ Millisecond

Spec == Init /\ [][Next]_vars

----------------------------------------------------------------------------
(* Properties; the primed ones are of every step. *)

(* Every variable keeps its type. *)
TypeOK ==
    /\ now \in 0..Word-1 /\ stall \in 0..MaxStall
    /\ pair \in {"off", "window", "confirm"} /\ result \in Result
    /\ deadline \in 0..Word-1 /\ confirmDeadline \in 0..Word-1
    /\ starts \in 0..MaxStarts
    /\ left \in 0..Word-1 /\ confirming \in 0..ConfirmTime

(* Pairing does not outstay its deadlines, however often the dial repeats  *)
(* its request, the window is extended, or the clock wraps: right after a  *)
(* pass of loop there is time left in the last window asked for and, for a *)
(* candidate, in its confirmation.                                         *)
NoOverstay ==
    pair # "off" /\ stall = 0 =>
        left > 0 /\ (pair = "confirm" => confirming < ConfirmTime)

(* A timeout is never early: it comes when the last window asked for, or   *)
(* the confirmation of the present candidate, is really over.              *)
TimeoutIsDue ==
    pair # "off" /\ pair' = "off" /\ result' \in {"timeout", "full"} =>
      left = 0 \/ (pair = "confirm" /\ confirming = ConfirmTime)

(* What Home Assistant counts down is what is left of the window.          *)
CountdownIsTrue == pair # "off" => SecondsLeft = left
=============================================================================
