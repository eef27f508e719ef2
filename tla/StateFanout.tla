---------------------------- MODULE StateFanout ----------------------------
(***************************************************************************)
(* How STATE reaches the dials (src/src/sl2_link.c: loop, build_state,     *)
(* send_state_to, echo_state_all, dial_live_at): change detection against  *)
(* the last state sent, a rate floor, a heartbeat, pulls, and the liveness *)
(* window of a dial, all in a millisecond clock that wraps.                *)
(*                                                                         *)
(* One tick stands for SL2_STATE_MIN_INTERVAL_MS / MinInterval.  Pairing,  *)
(* commands and refused frames appear only with what they do to this       *)
(* state.  A STATE that is sent may still be lost: the dial asks again.    *)
(***************************************************************************)
EXTENDS Integers

CONSTANTS
    Dial,
    Content,       \* what get_state, caps_seq and epoch make of a STATE
    Nothing,       \* no STATE yet
    Word,          \* 2^32, the range of now_ms
    MinInterval,   \* SL2_STATE_MIN_INTERVAL_MS
    Heartbeat,     \* SL2_STATE_HEARTBEAT_MS
    LiveTime,      \* SL2_DIAL_LIVE_MS
    Punctual       \* the adapter's loop runs at least once a tick

ConstantsAssumption ==
    /\ Nothing \notin Content
    /\ MinInterval \in Nat /\ Heartbeat \in Nat /\ LiveTime \in Nat
    /\ Word \in Nat
    /\ 0 < MinInterval /\ MinInterval < Heartbeat
    /\ Heartbeat < LiveTime /\ LiveTime < Word
    /\ Punctual \in BOOLEAN

VARIABLES
    now,       \* now_ms
    ran,       \* loop has run in this tick
    hvac,      \* what build_state would build
    last,      \* last_state, or Nothing before have_last_state
    bonded,
    dial,      \* the sl2_dial_rt_t of each MAC, as far as it matters here
    sent,      \* history: the last STATE sent to each dial by this boot
    quiet,     \* history: ticks since its last STATE, up to MinInterval
    floored    \* history: the dials this step's loop sent to, not as first

vars == <<now, ran, hvac, last, bonded, dial, sent, quiet, floored>>

Runtime == [probe : 0..Word-1,    \* last_probe_ms, 0: never
            tx    : 0..Word-1,    \* last_state_tx_ms
            pull  : BOOLEAN,      \* SL2_WANT_STATE of want
            pend  : BOOLEAN,      \* pend_state
            live  : BOOLEAN]      \* was_live

Blank == [probe |-> 0, tx |-> 0, pull |-> FALSE, pend |-> FALSE, live |-> FALSE]

(* uint32_t subtraction *)
Since(stamp) == (now - stamp + Word) % Word

(* dial_live_at *)
Live(d) == dial[d].probe # 0 /\ Since(dial[d].probe) < LiveTime

----------------------------------------------------------------------------
(* send_state_to, to a set of dials. *)

SendTo(D, state) ==
    /\ sent' = [d \in Dial |-> IF d \in D THEN state ELSE sent[d]]
    /\ quiet' = [d \in Dial |-> IF d \in D THEN 0 ELSE quiet[d]]

Served(r) == [r EXCEPT !.tx = now, !.pend = FALSE, !.pull = FALSE]

(* Frames from a bonded dial.  Any accepted one proves liveness. *)
Heard(d, r) ==
    /\ dial' = [dial EXCEPT ![d] = r]
    /\ floored' = {}
    /\ UNCHANGED <<now, ran, hvac, last, bonded, sent, quiet>>

Probe(d) ==
    /\ d \in bonded
    /\ \E p \in BOOLEAN :
         Heard(d, [dial[d] EXCEPT !.probe = now, !.pull = p])

OtherFrame(d) ==
    /\ d \in bonded
    /\ Heard(d, [dial[d] EXCEPT !.probe = now])

(* A frame the replay guard refuses is no sign of life, but answered. *)
RefusedFrame(d) ==
    /\ d \in bonded
    /\ dial' = [dial EXCEPT ![d].pend = TRUE]
    /\ floored' = {}
    /\ UNCHANGED <<now, ran, hvac, last, bonded, sent, quiet>>

(* echo_state_all: dials that live get the STATE now, the others later. *)
Echoed(d, r) ==
    IF r.probe # 0 /\ Since(r.probe) < LiveTime THEN Served(r)
    ELSE [r EXCEPT !.pend = TRUE]

(* A CMD that the adapter applied.  state: what the adapter reports then.  *)
Command(d) ==
    /\ d \in bonded
    /\ \E state \in Content :
       LET heardNow == [dial EXCEPT ![d].probe = now]
       IN /\ hvac' = state /\ last' = state
          /\ dial' = [e \in Dial |-> IF e \in bonded THEN Echoed(e, heardNow[e])
                                     ELSE heardNow[e]]
          /\ SendTo({e \in bonded :
                       /\ heardNow[e].probe # 0
                       /\ Since(heardNow[e].probe) < LiveTime}, state)
    /\ floored' = {}
    /\ UNCHANGED <<now, ran, bonded>>

----------------------------------------------------------------------------
(* loop. *)

(* Mutant: only dials that live are marked when the state changes. *)
MarkedLive(changed, r) ==
    IF changed /\ r.live THEN [r EXCEPT !.pend = TRUE] ELSE r

(* mark_all_state_pending *)
Marked(changed, r) == IF changed THEN [r EXCEPT !.pend = TRUE] ELSE r

(* Mutant: a pull is answered without the rate floor. *)
DuePulled(r) ==
    \/ ~r.live
    \/ r.pend /\ Since(r.tx) >= MinInterval
    \/ r.pull
    \/ Since(r.tx) >= Heartbeat

(* Mutant: only the heartbeat counts. *)
DueHeartbeatOnly(r) == ~r.live \/ Since(r.tx) >= Word

Due(r) ==
    \/ ~r.live                                          \* first
    \/ (r.pend \/ r.pull) /\ Since(r.tx) >= MinInterval
    \/ Since(r.tx) >= Heartbeat

Loop ==
    /\ ran' = TRUE
    /\ IF \E d \in bonded : Live(d)
       THEN LET changed == last # hvac
                marked  == [d \in Dial |-> IF d \in bonded
                                           THEN Marked(changed, dial[d]) ELSE dial[d]]
                due     == {d \in bonded : Live(d) /\ Due(marked[d])}
            IN /\ last' = hvac
               /\ dial' = [d \in Dial |->
                    IF d \notin bonded THEN dial[d]
                    ELSE [IF d \in due THEN Served(marked[d]) ELSE marked[d]
                            EXCEPT !.live = Live(d)]]
               /\ SendTo(due, hvac)
               /\ floored' = {d \in due : dial[d].live}
       ELSE /\ dial' = [d \in Dial |-> IF d \in bonded
                                       THEN [dial[d] EXCEPT !.live = FALSE]
                                       ELSE dial[d]]
            /\ floored' = {}
            /\ UNCHANGED <<last, sent, quiet>>
    /\ UNCHANGED <<now, hvac, bonded>>

----------------------------------------------------------------------------
(* The rest of the world. *)

HvacChange ==
    /\ hvac' \in Content
    /\ floored' = {}
    /\ UNCHANGED <<now, ran, last, bonded, dial, sent, quiet>>

(* caps_changed, a verdict of wifi_cancel: everyone is told again. *)
MarkAll ==
    /\ hvac' \in Content
    /\ dial' = [d \in Dial |-> IF d \in bonded THEN [dial[d] EXCEPT !.pend = TRUE]
                               ELSE dial[d]]
    /\ floored' = {}
    /\ UNCHANGED <<now, ran, last, bonded, sent, quiet>>

(* pair_commit and the proof of life after it.  A re-paired dial keeps its *)
(* slot, with the stamps in it.                                            *)
Commit(d) ==
    /\ bonded' = bonded \cup {d}
    /\ dial' = [dial EXCEPT ![d] = [@ EXCEPT !.pend = TRUE, !.probe = now]]
    /\ floored' = {}
    /\ UNCHANGED <<now, ran, hvac, last, sent, quiet>>

Forget(d) ==
    /\ d \in bonded /\ bonded' = bonded \ {d}
    /\ dial' = [dial EXCEPT ![d] = Blank]
    /\ sent' = [sent EXCEPT ![d] = Nothing]
    /\ floored' = {}
    /\ UNCHANGED <<now, ran, hvac, last, quiet>>

Tick ==
    /\ Punctual => ran
    /\ now' = (now + 1) % Word
    /\ ran' = FALSE
    /\ quiet' = [d \in Dial |-> IF quiet[d] < MinInterval THEN quiet[d] + 1 ELSE quiet[d]]
    /\ floored' = {}
    /\ UNCHANGED <<hvac, last, bonded, dial, sent>>

(* A boot loads some bonds; the clock starts near 0 but not always at it.  *)
Init ==
    /\ now \in 0..Word-1 /\ ran = FALSE
    /\ hvac \in Content /\ last = Nothing
    /\ bonded \in SUBSET Dial
    /\ dial = [d \in Dial |-> Blank]
    /\ sent = [d \in Dial |-> Nothing]
    /\ quiet = [d \in Dial |-> MinInterval]
    /\ floored = {}

Next ==
    \/ \E d \in Dial : \/ Probe(d) \/ OtherFrame(d) \/ RefusedFrame(d)
                       \/ Command(d) \/ Commit(d) \/ Forget(d)
    \/ HvacChange \/ MarkAll
    \/ Loop
    \/ Tick

Spec == Init /\ [][Next]_vars

(* The adapter's loop and the clock never stop. *)
Fairness == WF_vars(Loop) /\ WF_vars(Tick)

----------------------------------------------------------------------------
(* Properties; the primed ones are of every step. *)

(* Every variable keeps its type. *)
TypeOK ==
    /\ now \in 0..Word-1 /\ ran \in BOOLEAN
    /\ hvac \in Content /\ last \in Content \cup {Nothing}
    /\ bonded \subseteq Dial
    /\ dial \in [Dial -> Runtime]
    /\ sent \in [Dial -> Content \cup {Nothing}]
    /\ quiet \in [Dial -> 0..MinInterval]
    /\ floored \subseteq bonded

(* No head shows an old state for ever: a dial that has no STATE pending   *)
(* was last sent exactly the state the controller compares changes with,   *)
(* or will be sent one as soon as it lives -- also after it was away while *)
(* the state changed, was re-paired, or another head's command was echoed. *)
FreshOrPending ==
    \A d \in bonded :
      ~dial[d].pend => \/ sent[d] = last
                       \/ sent[d] = Nothing /\ ~dial[d].live

(* The radio is not flooded: what loop sends to a dial it has been sending *)
(* to keeps MinInterval from the dial's previous STATE, however changes,   *)
(* pulls, heartbeats and the clock's wrap combine.                         *)
RateFloor == \A d \in floored' : quiet[d] >= MinInterval

(* A dial that lives and has a STATE coming gets it, unless it goes away   *)
(* first: the rate floor delays, it does not starve.                       *)
PendingGoesOut ==
    \A d \in Dial :
      []<>~(d \in bonded /\ Live(d) /\ (dial[d].pend \/ dial[d].pull))
=============================================================================
