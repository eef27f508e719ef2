----------------------------- MODULE Controller -----------------------------
(***************************************************************************)
(* The services of the protocol core (sl2_link.c), with what the adapter   *)
(* keeps for them, and its receive handler over frames of any version and  *)
(* length, of which WireFormat is taken as it is. Each service is a module *)
(* of its own and shares no state with the others here, so they are not    *)
(* interleaved: a behaviour is a scenario of one of them, in an instance of*)
(* its own size, while the others rest and their variables are none.  The  *)
(* states are the sum of theirs.                                           *)
(***************************************************************************)
EXTENDS WireFormat, FiniteSets, TLC

CONSTANTS
    d1, d2,      \* dials
    v1, v2,      \* what dials are told, in each service
    s1, s2, s3,  \* Wi-Fi setup sessions
    c1, c2,      \* controllers of one home
    none

VARIABLES
    scenario,
    wifiBonded, req, owner, ring, ap, hook, window, since, wifiOut,
    stateNow, ran, hvac, stateLast, stateBonded, stateDial, sent, quiet,
    floored,
    pairingNow, pair, deadline, confirmDeadline, result, stall, starts, left,
    confirming,
    pullBonded, rt, root, selected, told, byHa, presented,
    content, started, id, capsSeq, kvId, kvSeq, fp, fpFlash, capsDial, nextId,
    changes, errors, lostSeq, lostId, lostFp,
    ctrl, queue, peerDial, air, committed, derived, parted

wifi == <<wifiBonded, req, owner, ring, ap, hook, window, since, wifiOut>>
state == <<stateNow, ran, hvac, stateLast, stateBonded, stateDial, sent, quiet,
           floored>>
pairing == <<pairingNow, pair, deadline, confirmDeadline, result, stall,
             starts, left, confirming>>
pulls == <<pullBonded, rt, root, selected, told, byHa, presented>>
caps == <<content, started, id, capsSeq, kvId, kvSeq, fp, fpFlash, capsDial,
          nextId, changes, errors, lostSeq, lostId, lostFp>>
hands == <<ctrl, queue, peerDial, air, committed, derived, parted>>
controllerVars == <<scenario, wifi, state, pairing, pulls, caps, hands, vars>>

Dials  == {d1, d2}
Values == {v1, v2}
One    == {d1}

(* Versions around each floor, two epochs of one low byte. *)
MCFrames == FramesOf({0, 2, 3, 4, 5, 6}, Epoch)

(* Two dials and a history of one session; one dial and a history of two. *)
Owner == INSTANCE WifiSetup WITH
    bonded <- wifiBonded, out <- wifiOut, Dial <- Dials, Session <- {s1, s2},
    Legacy <- "legacy", NoOwner <- none, History <- 1
Past == INSTANCE WifiSetup WITH
    bonded <- wifiBonded, out <- wifiOut, Dial <- One, Session <- {s1, s2, s3},
    Legacy <- "legacy", NoOwner <- none, History <- 2

Fan(x) == INSTANCE StateFanout WITH
    now <- stateNow, last <- stateLast, bonded <- stateBonded,
    dial <- stateDial, Dial <- x.dial, Content <- Values, Nothing <- none,
    Word <- x.word, MinInterval <- x.interval, Heartbeat <- x.heartbeat,
    LiveTime <- x.live, Punctual <- x.punctual
(* Two dials and a loop that runs each tick; one dial, a loop that may be  *)
(* late and a clock that wraps at 11.                                      *)
HeadsSize == [dial |-> Dials, word |-> 4, interval |-> 1, heartbeat |-> 2,
              live |-> 3, punctual |-> TRUE]
FloorSize == [dial |-> One, word |-> 11, interval |-> 2, heartbeat |-> 4,
              live |-> 5, punctual |-> FALSE]

Window(x) == INSTANCE PairWindow WITH
    now <- pairingNow, Word <- x.word, Windows <- x.windows,
    ConfirmTime <- x.confirm, MaxStall <- x.stall, MaxStarts <- x.starts
WindowSize == [word |-> 12, windows |-> {2, 3, 5}, confirm |-> 3, stall |-> 5,
               starts |-> 2]

(* What dials pull and choose; which certificates they present. *)
Sources == INSTANCE PullService WITH
    bonded <- pullBonded, Dial <- Dials, Source <- Values, Unknown <- none,
    Throttle <- 1, Pulls <- {"info", "caps"}, Asks <- {"set"}, Certs <- {}
Vouchers == INSTANCE PullService WITH
    bonded <- pullBonded, Dial <- Dials, Source <- {v1}, Unknown <- none,
    Throttle <- 1, Pulls <- {}, Asks <- {"creds", "catalog"},
    Certs <- {"own", "forged", "other", "malformed"}

Caps(x) == INSTANCE CapsSync WITH
    seq <- capsSeq, dial <- capsDial, Dial <- One, Content <- Values,
    Nothing <- none, SeqWord <- x.word, MaxContents <- x.contents,
    MaxErrors <- x.errors
CapsSize == [word |-> 6, contents |-> 3, errors |-> 2]

(* A dial that pairs again and again; two dials between two controllers. *)
Rekey == INSTANCE PairHandshake WITH
    dial <- peerDial, None <- none, Dial <- One, Ctrl <- {c1},
    QueueLength <- 2, MaxWindows <- 3, MaxAttempts <- 3, Lossy <- FALSE
Rivals == INSTANCE PairHandshake WITH
    dial <- peerDial, None <- none, Dial <- Dials, Ctrl <- {c1, c2},
    QueueLength <- 1, MaxWindows <- 1, MaxAttempts <- 2, Lossy <- FALSE

ASSUME InstancesAssumption ==
    /\ Owner!ConstantsAssumption /\ Past!ConstantsAssumption
    /\ Fan(HeadsSize)!ConstantsAssumption /\ Fan(FloorSize)!ConstantsAssumption
    /\ Window(WindowSize)!ConstantsAssumption /\ Sources!ConstantsAssumption
    /\ Vouchers!ConstantsAssumption /\ Caps(CapsSize)!ConstantsAssumption
    /\ Rekey!ConstantsAssumption /\ Rivals!ConstantsAssumption

Scenarios == {"frames", "owner", "past", "heads", "floor", "window",
              "sources", "vouchers", "caps", "rekey", "rivals"}

ControllerInit ==
    /\ scenario \in Scenarios
    /\ Init
    /\ scenario # "frames" => epoch = 0
    /\ \/ scenario = "owner" /\ Owner!Init
       \/ scenario = "past" /\ Past!Init
       \/ /\ scenario \notin {"owner", "past"}
          /\ wifiBonded = none /\ req = none /\ owner = none /\ ring = none
          /\ ap = none /\ hook = none /\ window = none /\ since = none
          /\ wifiOut = none
    /\ \/ scenario = "heads" /\ Fan(HeadsSize)!Init
       \/ scenario = "floor" /\ Fan(FloorSize)!Init
       \/ /\ scenario \notin {"heads", "floor"}
          /\ stateNow = none /\ ran = none /\ hvac = none /\ stateLast = none
          /\ stateBonded = none /\ stateDial = none /\ sent = none
          /\ quiet = none /\ floored = none
    /\ \/ scenario = "window" /\ Window(WindowSize)!Init
       \/ /\ scenario # "window"
          /\ pairingNow = none /\ pair = none /\ deadline = none
          /\ confirmDeadline = none /\ result = none /\ stall = none
          /\ starts = none /\ left = none /\ confirming = none
    /\ \/ scenario = "sources" /\ Sources!Init
       \/ scenario = "vouchers" /\ Vouchers!Init
       \/ /\ scenario \notin {"sources", "vouchers"}
          /\ pullBonded = none /\ rt = none /\ root = none /\ selected = none
          /\ told = none /\ byHa = none /\ presented = none
    /\ \/ scenario = "caps" /\ Caps(CapsSize)!Init
       \/ /\ scenario # "caps"
          /\ content = none /\ started = none /\ id = none /\ capsSeq = none
          /\ kvId = none /\ kvSeq = none /\ fp = none /\ fpFlash = none
          /\ capsDial = none /\ nextId = none /\ changes = none
          /\ errors = none /\ lostSeq = none /\ lostId = none /\ lostFp = none
    /\ \/ scenario = "rekey" /\ Rekey!Init
       \/ scenario = "rivals" /\ Rivals!Init
       \/ /\ scenario \notin {"rekey", "rivals"}
          /\ ctrl = none /\ queue = none /\ peerDial = none /\ air = none
          /\ committed = none /\ derived = none /\ parted = none

(* The parts that do not run in this behaviour stay as they are. *)
OthersRest ==
    /\ IF scenario = "frames" THEN TRUE ELSE UNCHANGED vars
    /\ IF scenario \in {"owner", "past"} THEN TRUE ELSE UNCHANGED wifi
    /\ IF scenario \in {"heads", "floor"} THEN TRUE ELSE UNCHANGED state
    /\ IF scenario = "window" THEN TRUE ELSE UNCHANGED pairing
    /\ IF scenario \in {"sources", "vouchers"} THEN TRUE ELSE UNCHANGED pulls
    /\ IF scenario = "caps" THEN TRUE ELSE UNCHANGED caps
    /\ IF scenario \in {"rekey", "rivals"} THEN TRUE ELSE UNCHANGED hands

ControllerNext ==
    /\ UNCHANGED scenario
    /\ OthersRest
    /\ \/ scenario = "frames" /\ Next
       \/ scenario = "owner" /\ Owner!Next
       \/ scenario = "past" /\ Past!Next
       \/ scenario = "heads" /\ Fan(HeadsSize)!Next
       \/ scenario = "floor" /\ Fan(FloorSize)!Next
       \/ scenario = "window" /\ Window(WindowSize)!Next
       \/ scenario = "sources" /\ Sources!Next
       \/ scenario = "vouchers" /\ Vouchers!Next
       \/ scenario = "caps" /\ Caps(CapsSize)!Next
       \/ scenario = "rekey" /\ Rekey!Next
       \/ scenario = "rivals" /\ Rivals!Next

ControllerSpec == ControllerInit /\ [][ControllerNext]_controllerVars

(* Dials are alike in every service, and so is what they are told. *)
Symmetry == Permutations(Dials) \cup Permutations(Values)

-----------------------------------------------------------------------------
(* Properties, explained in the modules of the parts. *)

(* Wi-Fi setup: what waits to raise the AP is a start of the present owner;*)
(* a late start of a retired session does not open setup again; a cancel   *)
(* closes the window of its own session and no other, and its              *)
(* acknowledgement tells the truth about the AP.                           *)
SessionsKeepApart ==
    [][/\ scenario = "owner" =>
            /\ Owner!TypeOK' /\ Owner!QueueIsOwners'
            /\ Owner!RetiredStartsRefused /\ Owner!CancelTouchesOwnWindow
            /\ Owner!VerdictIsTrue
       /\ scenario = "past" =>
            /\ Past!TypeOK' /\ Past!QueueIsOwners'
            /\ Past!RetiredStartsRefused /\ Past!CancelTouchesOwnWindow
            /\ Past!VerdictIsTrue]_controllerVars

(* STATE: a dial with none pending was sent the latest one, and what loop  *)
(* sends to one dial keeps the minimum interval.                           *)
HeadsAreCurrent ==
    [][/\ scenario = "heads" =>
            /\ Fan(HeadsSize)!TypeOK' /\ Fan(HeadsSize)!FreshOrPending'
            /\ Fan(HeadsSize)!RateFloor
       /\ scenario = "floor" =>
            /\ Fan(FloorSize)!TypeOK' /\ Fan(FloorSize)!FreshOrPending'
            /\ Fan(FloorSize)!RateFloor]_controllerVars

(* Pairing does not outstay its deadlines, a timeout is never early, and   *)
(* what Home Assistant counts down is what is left.                        *)
PairingIsTimely ==
    [][scenario = "window" =>
            /\ Window(WindowSize)!TypeOK' /\ Window(WindowSize)!NoOverstay'
            /\ Window(WindowSize)!TimeoutIsDue
            /\ Window(WindowSize)!CountdownIsTrue']_controllerVars

(* A dial was told the selected room source or may pull it; it reads as    *)
(* genuine only on a certificate of its own.                               *)
PullsTellTheTruth ==
    /\ scenario = "sources" => Sources!TypeOK /\ Sources!KnowsOrMayPull
    /\ scenario = "vouchers" => Vouchers!TypeOK /\ Vouchers!GenuineIsOwn

(* The identity in use is the one of the next boot, and is replaced only   *)
(* after it could not be read; a dial that caches the announced number has *)
(* the announced capabilities.                                             *)
NumbersSurviveBoots ==
    [][scenario = "caps" =>
            /\ Caps(CapsSize)!TypeOK' /\ Caps(CapsSize)!IdentityIsDurable'
            /\ Caps(CapsSize)!IdentityIsKept
            /\ Caps(CapsSize)!NumberNamesContent']_controllerVars

(* A bond is saved only under a key the dial has derived, and taken by the *)
(* dial only after that; the two ends and the radio hold one key; of the   *)
(* controllers that answer a request only the chosen one commits.          *)
KeysAgree ==
    /\ scenario = "rekey" =>
         /\ Rekey!TypeOK /\ Rekey!CommittedIsDerived /\ Rekey!AckedIsCommitted
         /\ Rekey!EndsAgree
    /\ scenario = "rivals" =>
         /\ Rivals!TypeOK /\ Rivals!AckedIsCommitted /\ Rivals!EndsAgree
         /\ Rivals!OneWinner

(* No frame is acted on for a field it does not hold whole, nor without the*)
(* echo its version owes; dials of every released version keep working, in *)
(* their own unit; what is shown of a dial is its latest report, and what  *)
(* is sent fits the radio.                                                 *)
FramesAreReadWhole ==
    [][/\ scenario = "frames" =>
            /\ TypeOK' /\ NothingTorn /\ EchoWasWhole /\ OldDialsWork
            /\ OneUnit' /\ ShownIsLatest' /\ ReportIsShown /\ FitsRadio']_controllerVars
=============================================================================
