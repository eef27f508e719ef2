---------------------------- MODULE PullService ----------------------------
(***************************************************************************)
(* What a dial asks for and what the core answers (src/src/sl2_link.c:     *)
(* on_recv, serve_pulls, mark_other_info_pending, dial_cert_apply), apart  *)
(* from STATE and the Wi-Fi session, which have modules of their own.      *)
(*                                                                         *)
(* Requests latch in the dial's slot and are served by a later loop, one   *)
(* dial after the other.  A dial's pinned identity is the dial itself.     *)
(***************************************************************************)
EXTENDS Integers

CONSTANTS
    Dial,
    Source,     \* room sources
    Unknown,    \* what a dial knows before it is told a source
    Throttle,   \* SL2_PULL_THROTTLE_MS
    Pulls,      \* the pulls a dial may ask for in its PROBE
    Asks,       \* the other requests it may send
    Certs       \* the certificates it may present

ConstantsAssumption ==
    /\ Unknown \notin Source
    /\ Throttle \in Nat /\ Throttle > 0
    /\ Pulls \subseteq {"caps", "info"}    \* SL2_WANT_CAPS, SL2_WANT_INFO
    /\ Asks \subseteq {"creds", "catalog", "set"}
    /\ Certs \subseteq {"own", "forged", "other", "malformed"}

(* Device certificates: signed by the root for this dial, not signed,      *)
(* signed for another dial, or not a certificate at all.                   *)
Cert == {"own", "forged", "other", "malformed"}
NoCert == "none"

VARIABLES
    bonded,
    rt,         \* sl2_dial_rt_t, what is asked of each dial
    root,       \* root_pub is set
    selected,   \* what room_source_get reports
    told,       \* history: the source each dial was last told
    byHa,       \* history: dials that Home Assistant's own choices went past
    presented   \* history: the last certificate of each dial

vars == <<bonded, rt, root, selected, told, byHa, presented>>

Runtime == [want   : SUBSET Pulls,
            capsIn : 0..Throttle,     \* time until CAPS may be sent again
            infoIn : 0..Throttle,     \* time until INFO may; 0 also if never
            asks   : SUBSET Asks,
            source : Source,          \* room_source_id
            cert   : {"none", "present", "invalid", "ok"},   \* cert_state
            bytes  : Cert \cup {NoCert}]                     \* cert

Blank(s) == [want |-> {}, capsIn |-> 0, infoIn |-> 0, asks |-> {}, source |-> s,
             cert |-> "none", bytes |-> NoCert]

----------------------------------------------------------------------------
(* Frames. *)

Frame(d, r) ==
    /\ d \in bonded
    /\ rt' = [rt EXCEPT ![d] = r]
    /\ UNCHANGED <<bonded, root, selected, told, byHa>>

Probe(d) ==
    /\ \E want \in SUBSET Pulls : Frame(d, [rt[d] EXCEPT !.want = want])
    /\ UNCHANGED presented

(* WIFI_REQ, ROOM_CATALOG_REQ, ROOM_SOURCE_SET.  The latest set counts.    *)
Ask(d, what) ==
    /\ \E s \in Source :
         Frame(d, [rt[d] EXCEPT !.asks = @ \cup {what},
                                !.source = IF what = "set" THEN s ELSE @])
    /\ UNCHANGED presented

(* Mutant: any certificate with the root's signature is the dial's.        *)
AssessedUnpinned(c) == IF c = "forged" THEN "invalid" ELSE "ok"

(* The root's signature, and the bond's pinned identity. *)
Assessed(c) == IF c = "own" THEN "ok" ELSE "invalid"

(* dial_cert_apply *)
DialInfo(d, c) ==
    /\ Frame(d, [rt[d] EXCEPT
         !.bytes = IF c = "malformed" THEN @ ELSE c,
         !.cert  = IF c = "malformed" THEN "invalid"
                   ELSE IF ~root THEN "present"
                   ELSE Assessed(c)])
    /\ presented' = [presented EXCEPT ![d] = c]

----------------------------------------------------------------------------
(* serve_pulls: CAPS, INFO, then what was asked for. *)

(* Mutant: only the next pull of the asking dial is hurried. *)
HurriedSelf(d) == {d}

(* mark_other_info_pending *)
Hurried(d) == Dial \ {d}

(* Mutant: the throttle is compared the wrong way round. *)
SentReversed(want, in) == want /\ in > 0

Sent(want, in) == want /\ in = 0

Pulled(r) ==
    [r EXCEPT !.capsIn = IF Sent("caps" \in r.want, @) THEN Throttle ELSE @,
              !.infoIn = IF Sent("info" \in r.want, @) THEN Throttle ELSE @,
              !.asks = {}]

(* ok: room_source_set took the source and has selected it. *)
Serve(d, ok) ==
    /\ d \in bonded
    /\ ok => "set" \in rt[d].asks
    /\ selected' = IF ok THEN rt[d].source ELSE selected
    /\ rt' = [e \in Dial |->
               LET r == IF e = d THEN Pulled(rt[d]) ELSE rt[e]
               IN  IF ok /\ e \in bonded \cap Hurried(d)
                   THEN [r EXCEPT !.infoIn = 0] ELSE r]
    /\ IF "set" \in rt[d].asks \/ Sent("info" \in rt[d].want, rt[d].infoIn)
       THEN /\ told' = [told EXCEPT ![d] = selected']    \* the ACK, or INFO
            /\ byHa' = byHa \ {d}
       ELSE UNCHANGED <<told, byHa>>
    /\ UNCHANGED <<bonded, root, presented>>

----------------------------------------------------------------------------
(* The rest. *)

(* A choice in Home Assistant, or a selected source that disappears.       *)
AdapterSelects ==
    /\ selected' \in Source /\ byHa' = bonded
    /\ UNCHANGED <<bonded, rt, root, told, presented>>

Less(n) == IF n > 0 THEN n - 1 ELSE 0

Tick ==
    /\ rt' = [d \in Dial |->
               [rt[d] EXCEPT !.capsIn = Less(@), !.infoIn = Less(@)]]
    /\ UNCHANGED <<bonded, root, selected, told, byHa, presented>>

SetRoot ==
    /\ ~root /\ root' = TRUE
    /\ UNCHANGED <<bonded, rt, selected, told, byHa, presented>>

Bond(d) ==
    /\ d \notin bonded /\ bonded' = bonded \cup {d}
    /\ UNCHANGED <<rt, root, selected, told, byHa, presented>>

Forget(d) ==
    /\ d \in bonded /\ bonded' = bonded \ {d}
    /\ rt' = [rt EXCEPT ![d] = Blank(rt[d].source)]
    /\ told' = [told EXCEPT ![d] = Unknown]
    /\ byHa' = byHa \ {d}
    /\ presented' = [presented EXCEPT ![d] = NoCert]
    /\ UNCHANGED <<root, selected>>

Init ==
    /\ bonded \in SUBSET Dial
    /\ selected \in Source
    /\ rt = [d \in Dial |-> Blank(selected)]
    /\ root \in BOOLEAN
    /\ told = [d \in Dial |-> Unknown] /\ byHa = {}
    /\ presented = [d \in Dial |-> NoCert]

Next ==
    \/ \E d \in Dial :
         \/ Probe(d) \/ Bond(d) \/ Forget(d)
         \/ \E what \in Asks : Ask(d, what)
         \/ \E c \in Certs : DialInfo(d, c)
         \/ \E ok \in BOOLEAN : Serve(d, ok)
    \/ AdapterSelects \/ Tick \/ SetRoot

Spec == Init /\ [][Next]_vars

(* loop serves every dial that lives, and time passes. *)
Fairness == /\ WF_vars(Tick)
            /\ \A d \in Dial : WF_vars(\E ok \in BOOLEAN : Serve(d, ok))

----------------------------------------------------------------------------
(* Properties; the primed ones are of every step. *)

(* Every variable keeps its type. *)
TypeOK ==
    /\ bonded \subseteq Dial /\ rt \in [Dial -> Runtime] /\ root \in BOOLEAN
    /\ selected \in Source /\ told \in [Dial -> Source \cup {Unknown}]
    /\ byHa \subseteq bonded /\ presented \in [Dial -> Cert \cup {NoCert}]

(* A room source that one head chose is not kept from the others: a dial   *)
(* was last told the selected source, or INFO is not throttled for it --   *)
(* unless Home Assistant chose since, of which heads learn by their pulls. *)
KnowsOrMayPull ==
    \A d \in bonded : \/ told[d] = selected
                      \/ rt[d].infoIn = 0
                      \/ d \in byHa

(* A dial that keeps wanting INFO is told the selected source. *)
PullIsAnswered ==
    \A d \in Dial :
      []<>~(d \in bonded /\ "info" \in rt[d].want /\ told[d] # selected)

(* A dial reads as genuine only on a certificate that is its own, however  *)
(* certificates, bonds, and a root configured later follow one another.    *)
GenuineIsOwn ==
    \A d \in bonded : rt[d].cert = "ok" => presented[d] = "own"
=============================================================================
