----------------------------- MODULE WifiSetup -----------------------------
(***************************************************************************)
(* The Wi-Fi setup session of src/src/sl2_link.c: dials ask the controller *)
(* to raise its setup access point (AP) and may cancel what they asked     *)
(* for.  The last accepted start owns the AP; every dial has a ring of     *)
(* sessions that are over, so that a late repeat of one is refused.        *)
(*                                                                         *)
(* Any start or cancel of any session may arrive at any time, any number   *)
(* of times: frames are lost, late and repeated.  A frame reaches these    *)
(* handlers only with this boot's epoch (wifi_epoch_ok, module SerinCore), *)
(* so a boot is the whole history.  The adapter's hooks and the AP itself  *)
(* are external; the core sees them through wifi_setup, wifi_cancel and    *)
(* get_state only.                                                         *)
(***************************************************************************)
EXTENDS Integers, FiniteSets

CONSTANTS
    Dial,
    Session,     \* the dials' nonzero tokens
    Legacy,      \* the session of a start that carries none: 0 in the code
    NoOwner,
    History      \* SL2_WIFI_SESSION_HISTORY

Verdict == {"closed", "waiting", "recovery", "stale", "unsupported"}
Tokens  == Session \cup {Legacy}

(* wifi_owner_*: the verdict is "none" until the owner is cancelled.       *)
Owner == [mac : Dial, session : Tokens, started : BOOLEAN,
          verdict : Verdict \cup {"none"}]

ConstantsAssumption ==
    /\ IsFiniteSet(Session) /\ Legacy \notin Session
    /\ History \in Nat \ {0}
    /\ NoOwner \notin Owner

(* wifi_retired and wifi_retired_status; an empty slot holds Legacy.       *)
Slot == [session : Tokens, verdict : Verdict]
Free == [session |-> Legacy, verdict |-> "closed"]
Ring == [slot : [0..History-1 -> Slot], next : 0..History-1]
EmptyRing == [slot |-> [i \in 0..History-1 |-> Free], next |-> 0]

VARIABLES
    bonded,   \* the dials with a bond
    req,      \* the dials whose wifi_setup_req is set
    owner,    \* an Owner, or NoOwner
    ring,     \* per dial
    ap,       \* external: a setup or recovery AP is up
    hook,     \* the adapter has a wifi_cancel hook
    window,   \* history: the dial and session whose start opened the window
              \* that is still its to close, or NoOwner
    since,    \* history: per dial and session, the sessions retired since
              \* this one was, or {Legacy} if it is not retired
    out       \* history: what the last step did to the outside

vars == <<bonded, req, owner, ring, ap, hook, window, since, out>>

Silent == [kind |-> "none"]

----------------------------------------------------------------------------
(* The history of a dial. *)

Retired(d, s) == \E i \in 0..History-1 : ring[d].slot[i].session = s

(* wifi_retire: a session keeps its slot, a new one takes the oldest. *)
Retire(r, s, v) ==
    IF s = Legacy THEN r
    ELSE IF \E i \in 0..History-1 : r.slot[i].session = s
    THEN [r EXCEPT !.slot = [i \in 0..History-1 |->
              IF r.slot[i].session = s THEN [session |-> s, verdict |-> v]
                                       ELSE r.slot[i]]]
    ELSE [slot |-> [r.slot EXCEPT ![r.next] = [session |-> s, verdict |-> v]],
          next |-> (r.next + 1) % History]

(* The history variable that goes with a retirement. *)
Outdated(f, r, s) ==
    IF s = Legacy \/ \E i \in 0..History-1 : r.slot[i].session = s THEN f
    ELSE [t \in Session |-> IF t = s THEN {}
                            ELSE IF f[t] = {Legacy} THEN f[t] ELSE f[t] \cup {s}]

IsOwner(d, s) == owner # NoOwner /\ owner.session = s /\ owner.mac = d

Cancelled(o) == o.verdict # "none"

----------------------------------------------------------------------------
(* wifi_observe_ap_closed: the owner's AP went down by itself.  What it    *)
(* does to owner, ring, window and since is needed inside other handlers,  *)
(* so it is a value here, and assigned there.                              *)
Now == [owner |-> owner, ring |-> ring, window |-> window, since |-> since]

(* Mutant: the owner keeps its authority when its AP closes by itself. *)
ObservedKeepsOwner(closed) ==
    IF /\ closed /\ owner # NoOwner /\ owner.started
       /\ ~Cancelled(owner) /\ owner.mac \notin req
    THEN [Now EXCEPT !.window = NoOwner] ELSE Now

Observed(closed) ==
    IF /\ closed /\ owner # NoOwner /\ owner.started
       /\ ~Cancelled(owner) /\ owner.mac \notin req
    THEN LET d == owner.mac
             s == owner.session
         IN [owner  |-> [owner EXCEPT !.started = FALSE, !.verdict = "closed"],
             ring   |-> [ring EXCEPT ![d] = Retire(@, s, "closed")],
             window |-> NoOwner,
             since  |-> [since EXCEPT ![d] = Outdated(@, ring[d], s)]]
    ELSE Now

Become(v) ==
    /\ owner' = v.owner /\ ring' = v.ring
    /\ window' = v.window /\ since' = v.since

----------------------------------------------------------------------------
(* WIFI_SETUP. *)

(* Mutant: the check for a retired session is made only for the owner. *)
OverOnlyIfOwner(d, s) == s # Legacy /\ IsOwner(d, s) /\ Cancelled(owner)

(* The early return of wifi_queue_setup. *)
Over(d, s) ==
    /\ s # Legacy
    /\ Retired(d, s) \/ (IsOwner(d, s) /\ Cancelled(owner))

TakesOver(d, s) ==
    ~IsOwner(d, s) \/ (s = Legacy /\ Cancelled(owner))

(* Mutant: the requests of the other dials stay queued. *)
QueueKeepsOthers(d, s) == req \cup {d}

Queue(d, s) == IF TakesOver(d, s) THEN {d} ELSE req \cup {d}

Setup(d, s) ==
    /\ d \in bonded
    /\ ~Over(d, s)
    /\ req' = Queue(d, s)
    /\ IF TakesOver(d, s)
       THEN /\ owner' = [mac |-> d, session |-> s, started |-> FALSE,
                         verdict |-> "none"]
            /\ IF owner = NoOwner THEN UNCHANGED <<ring, since>>
               ELSE /\ ring' = [ring EXCEPT ![owner.mac] =
                                   Retire(@, owner.session, "stale")]
                    /\ since' = [since EXCEPT ![owner.mac] =
                                   Outdated(@, ring[owner.mac], owner.session)]
       ELSE UNCHANGED <<owner, ring, since>>
    /\ out' = Silent
    /\ UNCHANGED <<bonded, ap, hook, window>>

----------------------------------------------------------------------------
(* WIFI_CANCEL. *)

(* Mutant: a repeated cancel is told what the first one was. *)
TerminalCached(cached, apStatus) == cached

(* wifi_terminal_status: the AP may have changed since the verdict.        *)
Terminal(cached, apStatus) ==
    IF cached \in {"closed", "recovery"} THEN apStatus ELSE cached

(* wifi_cancel up to the adapter's hook: the verdict the core reaches by   *)
(* itself, or "ask" when the hook must tell.  v: after the observation.    *)
OwnVerdict(d, s, v, apStatus) ==
    LET mine == v.owner # NoOwner /\ v.owner.mac = d /\ v.owner.session = s
        hits == {i \in 0..History-1 : v.ring[d].slot[i].session = s}
        kept == IF hits = {} THEN "waiting"
                ELSE v.ring[d].slot[CHOOSE i \in hits : TRUE].verdict
    IN CASE ~hook -> "unsupported"
         [] /\ hook /\ v.owner # NoOwner /\ ~mine
            /\ v.owner.verdict \in {"none", "waiting"} -> "stale"
         [] hook /\ mine /\ v.owner.verdict \notin {"none", "waiting"} ->
              Terminal(v.owner.verdict, apStatus)
         [] OTHER ->
              IF kept # "waiting" THEN Terminal(kept, apStatus)
              ELSE IF mine /\ v.owner.started THEN "ask" ELSE apStatus

(* The rest of it: owner, queue, history and the ACK. *)
Close(d, s, v, verdict, asked) ==
    LET mine == v.owner # NoOwner /\ v.owner.mac = d /\ v.owner.session = s IN
    /\ owner' = IF mine THEN [v.owner EXCEPT !.verdict = verdict] ELSE v.owner
    /\ req' = IF mine THEN req \ {d} ELSE req
    /\ ring' = [v.ring EXCEPT ![d] = Retire(@, s, verdict)]
    /\ since' = [v.since EXCEPT ![d] = Outdated(@, v.ring[d], s)]
    /\ window' = IF asked /\ verdict # "waiting" THEN NoOwner ELSE v.window
    /\ out' = [kind |-> "ack", dial |-> d, session |-> s, verdict |-> verdict,
               asked |-> asked]
    /\ UNCHANGED <<bonded, hook>>

(* readable: get_state of wifi_without_start succeeded. *)
Cancel(d, s) ==
    /\ d \in bonded /\ s \in Session
    /\ \E readable \in BOOLEAN :
       LET apStatus == IF ~readable \/ ap THEN "recovery" ELSE "closed"
           v        == Observed(apStatus = "closed")
           own      == OwnVerdict(d, s, v, apStatus)
       IN \/ /\ own # "ask"
             /\ Close(d, s, v, own, FALSE)
             /\ UNCHANGED ap
          \/ /\ own = "ask"                           \* hvac->wifi_cancel
             /\ \E told \in Verdict :
                  /\ Close(d, s, v, told, TRUE)
                  /\ ap' = (ap /\ told # "closed")

----------------------------------------------------------------------------
(* loop and the echo after a command read the adapter's state.  In loop,   *)
(* serve_pulls then passes queued starts of live dials to the adapter;     *)
(* ok: those the adapter took.                                             *)

BuildState == \E closed \in BOOLEAN : (closed => ~ap) /\ Become(Observed(closed))

Echo ==
    /\ bonded # {}
    /\ BuildState
    /\ out' = Silent
    /\ UNCHANGED <<bonded, req, ap, hook>>

Loop(live) ==
    /\ live # {} /\ live \subseteq bonded
    /\ \E closed \in BOOLEAN, ok \in SUBSET (req \cap live) :
       LET v == Observed(closed) IN
       /\ closed => ~ap
       /\ owner' = IF ok # {} /\ v.owner # NoOwner
                   THEN [v.owner EXCEPT !.started = TRUE] ELSE v.owner
       /\ window' = IF ok # {} /\ v.owner # NoOwner
                    THEN [mac |-> v.owner.mac, session |-> v.owner.session]
                    ELSE v.window
       /\ ap' = (ap \/ ok # {})
       /\ out' = IF req \cap live = {} THEN Silent
                 ELSE [kind |-> "setup", dials |-> req \cap live]
       /\ ring' = v.ring /\ since' = v.since
    /\ req' = req \ live
    /\ UNCHANGED <<bonded, hook>>

----------------------------------------------------------------------------
(* Bonds that come, are replaced and go: pair_commit, forget_dial and      *)
(* forget_all, as far as they touch this state.                            *)

Unretired == [s \in Session |-> {Legacy}]

Disown(D) ==
    /\ owner' = IF owner # NoOwner /\ owner.mac \in D THEN NoOwner ELSE owner
    /\ window' = IF window # NoOwner /\ window.mac \in D THEN NoOwner ELSE window

Reset(D) ==
    /\ Disown(D)
    /\ req' = req \ D
    /\ ring' = [d \in Dial |-> IF d \in D THEN EmptyRing ELSE ring[d]]
    /\ since' = [d \in Dial |-> IF d \in D THEN Unretired ELSE since[d]]
    /\ out' = Silent
    /\ UNCHANGED <<ap, hook>>

Commit(d)  == bonded' = bonded \cup {d} /\ Reset({d})
Forget(d)  == d \in bonded /\ bonded' = bonded \ {d} /\ Reset({d})
ForgetAll  == bonded # {} /\ bonded' = {} /\ Reset(Dial)

(* External: a window expires, setup succeeds, or the network is lost and  *)
(* the recovery AP opens.                                                  *)
ApChanges ==
    /\ ap' = ~ap
    /\ out' = Silent
    /\ UNCHANGED <<bonded, req, owner, ring, hook, window, since>>

----------------------------------------------------------------------------
Init ==
    /\ bonded = {} /\ req = {} /\ owner = NoOwner
    /\ ring = [d \in Dial |-> EmptyRing]
    /\ ap \in BOOLEAN /\ hook \in BOOLEAN
    /\ window = NoOwner
    /\ since = [d \in Dial |-> Unretired]
    /\ out = Silent

Next ==
    \/ \E d \in Dial, s \in Tokens : Setup(d, s)
    \/ \E d \in Dial, s \in Session : Cancel(d, s)
    \/ Echo
    \/ \E live \in SUBSET Dial : Loop(live)
    \/ \E d \in Dial : Commit(d) \/ Forget(d)
    \/ ForgetAll
    \/ ApChanges

Spec == Init /\ [][Next]_vars

----------------------------------------------------------------------------
(* Properties; the primed ones are of every step. *)

Acks == [kind : {"ack"}, dial : Dial, session : Session, verdict : Verdict,
         asked : BOOLEAN]

(* Every variable keeps its type. *)
TypeOK ==
    /\ bonded \subseteq Dial /\ req \subseteq bonded
    /\ owner \in Owner \cup {NoOwner}
    /\ ring \in [Dial -> Ring]
    /\ ap \in BOOLEAN /\ hook \in BOOLEAN
    /\ window \in [mac : Dial, session : Tokens] \cup {NoOwner}
    /\ since \in [Dial -> [Session -> SUBSET Tokens]]
    /\ out \in {Silent} \cup Acks \cup [kind : {"setup"}, dials : SUBSET Dial]

(* The AP is never raised for somebody else: what waits for serve_pulls is *)
(* a start of the present owner, whose bond exists and whose session is    *)
(* neither cancelled nor retired -- whatever starts, cancels, takeovers,   *)
(* re-pairs and removals came in between.                                  *)
QueueIsOwners ==
    /\ Cardinality(req) <= 1
    /\ \A d \in req :
         /\ owner # NoOwner /\ owner.mac = d
         /\ ~Cancelled(owner)
         /\ owner.session # Legacy => ~Retired(d, owner.session)
    /\ owner # NoOwner => owner.mac \in bonded

(* docs/serin-link-wire-spec.md:782: late starts of a retired session      *)
(* cannot reopen setup.  Only after History later retirements of the same  *)
(* dial, or a new bond, may its token act as a new one.                    *)
RetiredStartsRefused ==
    \A d \in Dial :
        (out'.kind = "setup" /\ d \in out'.dials /\ owner.session # Legacy)
        => \/ since[d][owner.session] = {Legacy}
           \/ Cardinality(since[d][owner.session]) >= History

(* A cancel closes the window its own session opened and no other: the     *)
(* adapter is asked only for the session whose start was the last to open  *)
(* the AP -- with the same bond, not yet told a final verdict and not seen *)
(* closed since -- and the AP goes down in no other way.                   *)
CancelTouchesOwnWindow ==
    out'.kind = "ack" =>
      /\ out'.asked => window = [mac |-> out'.dial, session |-> out'.session]
      /\ ~out'.asked => ap' = ap

(* The ACK is what the dial shows its user, also the repeated one after    *)
(* the AP has changed: "closed" is said only while no AP is up, "waiting"  *)
(* only when the adapter has just said so.                                 *)
VerdictIsTrue ==
    out'.kind = "ack" =>
      /\ out'.verdict = "closed" => ~ap'
      /\ out'.verdict = "waiting" => out'.asked
=============================================================================
