------------------------- MODULE Controller_proofs -------------------------
(***************************************************************************)
(* Theorems about the services of the protocol core, composed.  What is    *)
(* proved of a service in its own module, for any constants, holds of each *)
(* instance of it: a behaviour of the controller is one of the service that*)
(* runs.                                                                   *)
(***************************************************************************)
EXTENDS Controller, TLAPS

(* The instances of Controller, with the theorems about them. *)
OwnerP == INSTANCE WifiSetup_proofs WITH
    bonded <- wifiBonded, out <- wifiOut, Dial <- Dials, Session <- {s1, s2},
    Legacy <- "legacy", NoOwner <- none, History <- 1
PastP == INSTANCE WifiSetup_proofs WITH
    bonded <- wifiBonded, out <- wifiOut, Dial <- One, Session <- {s1, s2, s3},
    Legacy <- "legacy", NoOwner <- none, History <- 2
RekeyP == INSTANCE PairHandshake_proofs WITH
    dial <- peerDial, None <- none, Dial <- One, Ctrl <- {c1},
    QueueLength <- 2, MaxWindows <- 3, MaxAttempts <- 3, Lossy <- FALSE
RivalsP == INSTANCE PairHandshake_proofs WITH
    dial <- peerDial, None <- none, Dial <- Dials, Ctrl <- {c1, c2},
    QueueLength <- 1, MaxWindows <- 1, MaxAttempts <- 2, Lossy <- FALSE
SourcesP == INSTANCE PullService_proofs WITH
    bonded <- pullBonded, Dial <- Dials, Source <- Values, Unknown <- none,
    Throttle <- 1, Pulls <- {"info", "caps"}, Asks <- {"set"}, Certs <- {}
VouchersP == INSTANCE PullService_proofs WITH
    bonded <- pullBonded, Dial <- Dials, Source <- {v1}, Unknown <- none,
    Throttle <- 1, Pulls <- {}, Asks <- {"creds", "catalog"},
    Certs <- {"own", "forged", "other", "malformed"}

----------------------------------------------------------------------------
(* The same definitions, instantiated twice. *)

(* The session with an owner is the one of the theorems.                   *)
LEMMA OwnerIsProved ==
    /\ Owner!ConstantsAssumption => OwnerP!ConstantsAssumption
    /\ Owner!Init => OwnerP!Init
    /\ Owner!Next => OwnerP!Next
    /\ OwnerP!TypeOK => Owner!TypeOK
    /\ OwnerP!QueueIsOwners => Owner!QueueIsOwners
    /\ OwnerP!RetiredStartsRefused => Owner!RetiredStartsRefused
    /\ OwnerP!CancelTouchesOwnWindow => Owner!CancelTouchesOwnWindow
    /\ OwnerP!VerdictIsTrue => Owner!VerdictIsTrue
<1>1. Owner!ConstantsAssumption => OwnerP!ConstantsAssumption
  BY DEF Owner!ConstantsAssumption, Owner!Owner, Owner!Tokens, Owner!Verdict,
         Owner!IsFiniteSet, OwnerP!ConstantsAssumption, OwnerP!Owner,
         OwnerP!Tokens, OwnerP!Verdict, OwnerP!IsFiniteSet
<1>2. Owner!Init => OwnerP!Init
  BY DEF Owner!Init, Owner!EmptyRing, Owner!Unretired, Owner!Silent,
         Owner!Free, OwnerP!Init, OwnerP!EmptyRing, OwnerP!Unretired,
         OwnerP!Silent, OwnerP!Free
<1>3. Owner!Next => OwnerP!Next
  BY DEF Owner!Next, Owner!Tokens, Owner!Setup, Owner!Cancel, Owner!Echo,
         Owner!Loop, Owner!Commit, Owner!Forget, Owner!ForgetAll,
         Owner!ApChanges, Owner!Over, Owner!Queue, Owner!TakesOver,
         Owner!Retire, Owner!Outdated, Owner!Silent, Owner!Observed,
         Owner!OwnVerdict, Owner!Close, Owner!Verdict, Owner!BuildState,
         Owner!Reset, Owner!Retired, Owner!IsOwner, Owner!Cancelled, Owner!Now,
         Owner!Terminal, Owner!Become, Owner!Disown, Owner!EmptyRing,
         Owner!Unretired, Owner!Free, OwnerP!Next, OwnerP!Tokens, OwnerP!Setup,
         OwnerP!Cancel, OwnerP!Echo, OwnerP!Loop, OwnerP!Commit, OwnerP!Forget,
         OwnerP!ForgetAll, OwnerP!ApChanges, OwnerP!Over, OwnerP!Queue,
         OwnerP!TakesOver, OwnerP!Retire, OwnerP!Outdated, OwnerP!Silent,
         OwnerP!Observed, OwnerP!OwnVerdict, OwnerP!Close, OwnerP!Verdict,
         OwnerP!BuildState, OwnerP!Reset, OwnerP!Retired, OwnerP!IsOwner,
         OwnerP!Cancelled, OwnerP!Now, OwnerP!Terminal, OwnerP!Become,
         OwnerP!Disown, OwnerP!EmptyRing, OwnerP!Unretired, OwnerP!Free
<1>4. OwnerP!TypeOK => Owner!TypeOK
  BY DEF Owner!TypeOK, Owner!Owner, Owner!Ring, Owner!Tokens, Owner!Silent,
         Owner!Acks, Owner!Verdict, Owner!Slot, OwnerP!TypeOK, OwnerP!Owner,
         OwnerP!Ring, OwnerP!Tokens, OwnerP!Silent, OwnerP!Acks,
         OwnerP!Verdict, OwnerP!Slot
<1>5. OwnerP!QueueIsOwners => Owner!QueueIsOwners
  BY DEF Owner!QueueIsOwners, Owner!Cancelled, Owner!Retired,
         Owner!Cardinality, OwnerP!QueueIsOwners, OwnerP!Cancelled,
         OwnerP!Retired, OwnerP!Cardinality
<1>6. OwnerP!RetiredStartsRefused => Owner!RetiredStartsRefused
  BY DEF Owner!RetiredStartsRefused, Owner!Cardinality,
         OwnerP!RetiredStartsRefused, OwnerP!Cardinality
<1>7. OwnerP!CancelTouchesOwnWindow => Owner!CancelTouchesOwnWindow
  BY DEF Owner!CancelTouchesOwnWindow, OwnerP!CancelTouchesOwnWindow
<1>8. OwnerP!VerdictIsTrue => Owner!VerdictIsTrue
  BY DEF Owner!VerdictIsTrue, OwnerP!VerdictIsTrue
<1>. QED
  BY <1>1, <1>2, <1>3, <1>4, <1>5, <1>6, <1>7, <1>8

(* So is the one with a history.                                           *)
LEMMA PastIsProved ==
    /\ Past!ConstantsAssumption => PastP!ConstantsAssumption
    /\ Past!Init => PastP!Init
    /\ Past!Next => PastP!Next
    /\ PastP!TypeOK => Past!TypeOK
    /\ PastP!QueueIsOwners => Past!QueueIsOwners
    /\ PastP!RetiredStartsRefused => Past!RetiredStartsRefused
    /\ PastP!CancelTouchesOwnWindow => Past!CancelTouchesOwnWindow
    /\ PastP!VerdictIsTrue => Past!VerdictIsTrue
<1>1. Past!ConstantsAssumption => PastP!ConstantsAssumption
  BY DEF Past!ConstantsAssumption, Past!Owner, Past!Tokens,
         Past!Verdict, Past!IsFiniteSet, PastP!ConstantsAssumption,
         PastP!Owner, PastP!Tokens, PastP!Verdict,
         PastP!IsFiniteSet
<1>2. Past!Init => PastP!Init
  BY DEF Past!Init, Past!EmptyRing, Past!Unretired, Past!Silent,
         Past!Free, PastP!Init, PastP!EmptyRing, PastP!Unretired,
         PastP!Silent, PastP!Free
<1>3. Past!Next => PastP!Next
  BY DEF Past!Next, Past!Tokens, Past!Setup, Past!Cancel,
         Past!Echo, Past!Loop, Past!Commit, Past!Forget,
         Past!ForgetAll, Past!ApChanges, Past!Over, Past!Queue,
         Past!TakesOver, Past!Retire, Past!Outdated, Past!Silent,
         Past!Observed, Past!OwnVerdict, Past!Close, Past!Verdict,
         Past!BuildState, Past!Reset, Past!Retired, Past!IsOwner,
         Past!Cancelled, Past!Now, Past!Terminal, Past!Become,
         Past!Disown, Past!EmptyRing, Past!Unretired, Past!Free,
         PastP!Next, PastP!Tokens, PastP!Setup, PastP!Cancel,
         PastP!Echo, PastP!Loop, PastP!Commit, PastP!Forget,
         PastP!ForgetAll, PastP!ApChanges, PastP!Over, PastP!Queue,
         PastP!TakesOver, PastP!Retire, PastP!Outdated,
         PastP!Silent, PastP!Observed, PastP!OwnVerdict,
         PastP!Close, PastP!Verdict, PastP!BuildState, PastP!Reset,
         PastP!Retired, PastP!IsOwner, PastP!Cancelled, PastP!Now,
         PastP!Terminal, PastP!Become, PastP!Disown,
         PastP!EmptyRing, PastP!Unretired, PastP!Free
<1>4. PastP!TypeOK => Past!TypeOK
  BY DEF Past!TypeOK, Past!Owner, Past!Ring, Past!Tokens,
         Past!Silent, Past!Acks, Past!Verdict, Past!Slot,
         PastP!TypeOK, PastP!Owner, PastP!Ring, PastP!Tokens,
         PastP!Silent, PastP!Acks, PastP!Verdict, PastP!Slot
<1>5. PastP!QueueIsOwners => Past!QueueIsOwners
  BY DEF Past!QueueIsOwners, Past!Cancelled, Past!Retired,
         Past!Cardinality, PastP!QueueIsOwners, PastP!Cancelled,
         PastP!Retired, PastP!Cardinality
<1>6. PastP!RetiredStartsRefused => Past!RetiredStartsRefused
  BY DEF Past!RetiredStartsRefused, Past!Cardinality,
         PastP!RetiredStartsRefused, PastP!Cardinality
<1>7. PastP!CancelTouchesOwnWindow => Past!CancelTouchesOwnWindow
  BY DEF Past!CancelTouchesOwnWindow, PastP!CancelTouchesOwnWindow
<1>8. PastP!VerdictIsTrue => Past!VerdictIsTrue
  BY DEF Past!VerdictIsTrue, PastP!VerdictIsTrue
<1>. QED
  BY <1>1, <1>2, <1>3, <1>4, <1>5, <1>6, <1>7, <1>8

(* The dial that pairs again and again is the one of the theorems.         *)
LEMMA RekeyIsProved ==
    /\ Rekey!ConstantsAssumption => RekeyP!ConstantsAssumption
    /\ Rekey!Init => RekeyP!Init
    /\ Rekey!Next => RekeyP!Next
    /\ RekeyP!TypeOK => Rekey!TypeOK
    /\ RekeyP!CommittedIsDerived => Rekey!CommittedIsDerived
    /\ RekeyP!AckedIsCommitted => Rekey!AckedIsCommitted
    /\ RekeyP!EndsAgree => Rekey!EndsAgree
<1>1. Rekey!ConstantsAssumption => RekeyP!ConstantsAssumption
  BY DEF Rekey!ConstantsAssumption, Rekey!Key, RekeyP!ConstantsAssumption,
         RekeyP!Key
<1>2. Rekey!Init => RekeyP!Init
  BY DEF Rekey!Init, RekeyP!Init
<1>3. Rekey!Next => RekeyP!Next
  BY DEF Rekey!Next, Rekey!PairStart, Rekey!PairEnds, Rekey!Drain,
         Rekey!Receive, Rekey!Forget, Rekey!Command, Rekey!Ask, Rekey!AskAgain,
         Rekey!Prove, Rekey!HearAck, Rekey!GiveUp, Rekey!HearResp, Rekey!Lose,
         Rekey!Cleaned, Rekey!Admitted, Rekey!Confirms, Rekey!Commit,
         Rekey!CommitFails, Rekey!Repeats, Rekey!Ack, Rekey!Room, Rekey!Cmd,
         Rekey!Req, Rekey!Proof, Rekey!Derive, Rekey!Resp, Rekey!Matches,
         RekeyP!Next, RekeyP!PairStart, RekeyP!PairEnds, RekeyP!Drain,
         RekeyP!Receive, RekeyP!Forget, RekeyP!Command, RekeyP!Ask,
         RekeyP!AskAgain, RekeyP!Prove, RekeyP!HearAck, RekeyP!GiveUp,
         RekeyP!HearResp, RekeyP!Lose, RekeyP!Cleaned, RekeyP!Admitted,
         RekeyP!Confirms, RekeyP!Commit, RekeyP!CommitFails, RekeyP!Repeats,
         RekeyP!Ack, RekeyP!Room, RekeyP!Cmd, RekeyP!Req, RekeyP!Proof,
         RekeyP!Derive, RekeyP!Resp, RekeyP!Matches
<1>4. RekeyP!TypeOK => Rekey!TypeOK
  BY DEF Rekey!TypeOK, Rekey!Controller, Rekey!ADial, Rekey!Key, RekeyP!TypeOK,
         RekeyP!Controller, RekeyP!ADial, RekeyP!Key
<1>5. RekeyP!CommittedIsDerived => Rekey!CommittedIsDerived
  BY DEF Rekey!CommittedIsDerived, RekeyP!CommittedIsDerived
<1>6. RekeyP!AckedIsCommitted => Rekey!AckedIsCommitted
  BY DEF Rekey!AckedIsCommitted, RekeyP!AckedIsCommitted
<1>7. RekeyP!EndsAgree => Rekey!EndsAgree
  BY DEF Rekey!EndsAgree, RekeyP!EndsAgree
<1>. QED
  BY <1>1, <1>2, <1>3, <1>4, <1>5, <1>6, <1>7

(* So are the controllers of one home.                                     *)
LEMMA RivalsAreProved ==
    /\ Rivals!ConstantsAssumption => RivalsP!ConstantsAssumption
    /\ Rivals!Init => RivalsP!Init
    /\ Rivals!Next => RivalsP!Next
    /\ RivalsP!TypeOK => Rivals!TypeOK
    /\ RivalsP!AckedIsCommitted => Rivals!AckedIsCommitted
    /\ RivalsP!EndsAgree => Rivals!EndsAgree
    /\ RivalsP!OneWinner => Rivals!OneWinner
<1>1. Rivals!ConstantsAssumption => RivalsP!ConstantsAssumption
  BY DEF Rivals!ConstantsAssumption, Rivals!Key, RivalsP!ConstantsAssumption,
         RivalsP!Key
<1>2. Rivals!Init => RivalsP!Init
  BY DEF Rivals!Init, RivalsP!Init
<1>3. Rivals!Next => RivalsP!Next
  BY DEF Rivals!Next, Rivals!PairStart, Rivals!PairEnds, Rivals!Drain,
         Rivals!Receive, Rivals!Forget, Rivals!Command, Rivals!Ask,
         Rivals!AskAgain, Rivals!Prove, Rivals!HearAck, Rivals!GiveUp,
         Rivals!HearResp, Rivals!Lose, Rivals!Cleaned, Rivals!Admitted,
         Rivals!Confirms, Rivals!Commit, Rivals!CommitFails, Rivals!Repeats,
         Rivals!Ack, Rivals!Room, Rivals!Cmd, Rivals!Req, Rivals!Proof,
         Rivals!Derive, Rivals!Resp, Rivals!Matches, RivalsP!Next,
         RivalsP!PairStart, RivalsP!PairEnds, RivalsP!Drain, RivalsP!Receive,
         RivalsP!Forget, RivalsP!Command, RivalsP!Ask, RivalsP!AskAgain,
         RivalsP!Prove, RivalsP!HearAck, RivalsP!GiveUp, RivalsP!HearResp,
         RivalsP!Lose, RivalsP!Cleaned, RivalsP!Admitted, RivalsP!Confirms,
         RivalsP!Commit, RivalsP!CommitFails, RivalsP!Repeats, RivalsP!Ack,
         RivalsP!Room, RivalsP!Cmd, RivalsP!Req, RivalsP!Proof, RivalsP!Derive,
         RivalsP!Resp, RivalsP!Matches
<1>4. RivalsP!TypeOK => Rivals!TypeOK
  BY DEF Rivals!TypeOK, Rivals!Controller, Rivals!ADial, Rivals!Key,
         RivalsP!TypeOK, RivalsP!Controller, RivalsP!ADial, RivalsP!Key
<1>5. RivalsP!AckedIsCommitted => Rivals!AckedIsCommitted
  BY DEF Rivals!AckedIsCommitted, RivalsP!AckedIsCommitted
<1>6. RivalsP!EndsAgree => Rivals!EndsAgree
  BY DEF Rivals!EndsAgree, RivalsP!EndsAgree
<1>7. RivalsP!OneWinner => Rivals!OneWinner
  BY DEF Rivals!OneWinner, RivalsP!OneWinner
<1>. QED
  BY <1>1, <1>2, <1>3, <1>4, <1>5, <1>6, <1>7

(* The dials that pull and choose are those of the theorems.               *)
LEMMA SourcesAreProved ==
    /\ Sources!ConstantsAssumption => SourcesP!ConstantsAssumption
    /\ Sources!Init => SourcesP!Init
    /\ Sources!Next => SourcesP!Next
    /\ SourcesP!TypeOK => Sources!TypeOK
    /\ SourcesP!KnowsOrMayPull => Sources!KnowsOrMayPull
<1>1. Sources!ConstantsAssumption => SourcesP!ConstantsAssumption
  BY DEF Sources!ConstantsAssumption, SourcesP!ConstantsAssumption
<1>2. Sources!Init => SourcesP!Init
  BY DEF Sources!Init, Sources!Blank, Sources!NoCert, SourcesP!Init,
         SourcesP!Blank, SourcesP!NoCert
<1>3. Sources!Next => SourcesP!Next
  BY DEF Sources!Next, Sources!Probe, Sources!Bond, Sources!Forget,
         Sources!Ask, Sources!DialInfo, Sources!Serve, Sources!AdapterSelects,
         Sources!Tick, Sources!SetRoot, Sources!Frame, Sources!Blank,
         Sources!NoCert, Sources!Assessed, Sources!Pulled, Sources!Hurried,
         Sources!Sent, Sources!Less, SourcesP!Next, SourcesP!Probe,
         SourcesP!Bond, SourcesP!Forget, SourcesP!Ask, SourcesP!DialInfo,
         SourcesP!Serve, SourcesP!AdapterSelects, SourcesP!Tick,
         SourcesP!SetRoot, SourcesP!Frame, SourcesP!Blank, SourcesP!NoCert,
         SourcesP!Assessed, SourcesP!Pulled, SourcesP!Hurried, SourcesP!Sent,
         SourcesP!Less
<1>4. SourcesP!TypeOK => Sources!TypeOK
  BY DEF Sources!TypeOK, Sources!Runtime, Sources!Cert, Sources!NoCert,
         SourcesP!TypeOK, SourcesP!Runtime, SourcesP!Cert, SourcesP!NoCert
<1>5. SourcesP!KnowsOrMayPull => Sources!KnowsOrMayPull
  BY DEF Sources!KnowsOrMayPull, SourcesP!KnowsOrMayPull
<1>. QED
  BY <1>1, <1>2, <1>3, <1>4, <1>5

(* So are those that present certificates.                                 *)
LEMMA VouchersAreProved ==
    /\ Vouchers!ConstantsAssumption => VouchersP!ConstantsAssumption
    /\ Vouchers!Init => VouchersP!Init
    /\ Vouchers!Next => VouchersP!Next
    /\ VouchersP!TypeOK => Vouchers!TypeOK
    /\ VouchersP!GenuineIsOwn => Vouchers!GenuineIsOwn
<1>1. Vouchers!ConstantsAssumption => VouchersP!ConstantsAssumption
  BY DEF Vouchers!ConstantsAssumption, VouchersP!ConstantsAssumption
<1>2. Vouchers!Init => VouchersP!Init
  BY DEF Vouchers!Init, Vouchers!Blank, Vouchers!NoCert, VouchersP!Init,
     VouchersP!Blank,
         VouchersP!NoCert
<1>3. Vouchers!Next => VouchersP!Next
  BY DEF Vouchers!Next, Vouchers!Probe, Vouchers!Bond, Vouchers!Forget,
     Vouchers!Ask,
         Vouchers!DialInfo, Vouchers!Serve, Vouchers!AdapterSelects,
         Vouchers!Tick,
         Vouchers!SetRoot, Vouchers!Frame, Vouchers!Blank, Vouchers!NoCert,
         Vouchers!Assessed,
         Vouchers!Pulled, Vouchers!Hurried, Vouchers!Sent, Vouchers!Less,
         VouchersP!Next,
         VouchersP!Probe, VouchersP!Bond, VouchersP!Forget, VouchersP!Ask,
         VouchersP!DialInfo,
         VouchersP!Serve, VouchersP!AdapterSelects, VouchersP!Tick,
         VouchersP!SetRoot,
         VouchersP!Frame, VouchersP!Blank, VouchersP!NoCert,
         VouchersP!Assessed,
         VouchersP!Pulled, VouchersP!Hurried, VouchersP!Sent, VouchersP!Less
<1>4. VouchersP!TypeOK => Vouchers!TypeOK
  BY DEF Vouchers!TypeOK, Vouchers!Runtime, Vouchers!Cert, Vouchers!NoCert,
     VouchersP!TypeOK,
         VouchersP!Runtime, VouchersP!Cert, VouchersP!NoCert
<1>5. VouchersP!GenuineIsOwn => Vouchers!GenuineIsOwn
  BY DEF Vouchers!GenuineIsOwn, VouchersP!GenuineIsOwn
<1>. QED
  BY <1>1, <1>2, <1>3, <1>4, <1>5

----------------------------------------------------------------------------
(* A behaviour is one of the service that runs. *)

(* A scenario never changes. *)
LEMMA ScenarioStays == [ControllerNext]_controllerVars => scenario' = scenario
BY DEF ControllerNext, controllerVars

(* Where a behaviour starts. *)
LEMMA ServiceStarts ==
    ASSUME ControllerInit
    PROVE  /\ scenario = "owner" => Owner!Init
           /\ scenario = "past" => Past!Init
           /\ scenario = "rekey" => Rekey!Init
           /\ scenario = "rivals" => Rivals!Init
           /\ scenario = "sources" => Sources!Init
           /\ scenario = "vouchers" => Vouchers!Init
BY DEF ControllerInit

(* What a step is. *)
LEMMA ServiceSteps ==
    ASSUME ControllerNext
    PROVE  /\ scenario = "owner" => Owner!Next
           /\ scenario = "past" => Past!Next
           /\ scenario = "rekey" => Rekey!Next
           /\ scenario = "rivals" => Rivals!Next
           /\ scenario = "sources" => Sources!Next
           /\ scenario = "vouchers" => Vouchers!Next
BY DEF ControllerNext

(* Nothing of a service changes when nothing of the controller does. *)
LEMMA ServiceRests ==
    ASSUME UNCHANGED controllerVars
    PROVE  UNCHANGED OwnerP!vars /\ UNCHANGED PastP!vars
           /\ UNCHANGED RekeyP!vars /\ UNCHANGED RivalsP!vars
           /\ UNCHANGED SourcesP!vars /\ UNCHANGED VouchersP!vars
BY DEF controllerVars, wifi, hands, pulls, OwnerP!vars, PastP!vars,
   RekeyP!vars,
       RivalsP!vars, SourcesP!vars, VouchersP!vars

----------------------------------------------------------------------------
(* Wi-Fi setup. *)

WifiIsSound ==
    /\ scenario = "owner" => OwnerP!IInv
    /\ scenario = "past" => PastP!IInv

LEMMA WifiStart == ControllerInit => WifiIsSound
<1>1. ASSUME ControllerInit, scenario = "owner" PROVE OwnerP!IInv
  BY <1>1, ServiceStarts, OwnerIsProved, OwnerP!InitHolds, InstancesAssumption
  DEF InstancesAssumption
<1>2. ASSUME ControllerInit, scenario = "past" PROVE PastP!IInv
  BY <1>2, ServiceStarts, PastIsProved, PastP!InitHolds, InstancesAssumption
  DEF InstancesAssumption
<1>. QED
  BY <1>1, <1>2 DEF WifiIsSound

LEMMA WifiKept ==
    WifiIsSound /\ [ControllerNext]_controllerVars => WifiIsSound'
<1>. SUFFICES ASSUME WifiIsSound, [ControllerNext]_controllerVars
              PROVE  WifiIsSound'
  OBVIOUS
<1>1. ASSUME scenario = "owner" PROVE OwnerP!IInv'
  <2>1. [OwnerP!Next]_(OwnerP!vars)
    BY <1>1, ServiceSteps, ServiceRests, OwnerIsProved
  <2>. QED
    BY <1>1, <2>1, OwnerIsProved, OwnerP!NextKeeps, InstancesAssumption
    DEF InstancesAssumption, WifiIsSound
<1>2. ASSUME scenario = "past" PROVE PastP!IInv'
  <2>1. [PastP!Next]_(PastP!vars)
    BY <1>2, ServiceSteps, ServiceRests, PastIsProved
  <2>. QED
    BY <1>2, <2>1, PastIsProved, PastP!NextKeeps, InstancesAssumption
    DEF InstancesAssumption, WifiIsSound
<1>. QED
  BY <1>1, <1>2, ScenarioStays DEF WifiIsSound

(* What is so in every state, and in every step. *)
WifiHolds ==
    /\ scenario = "owner" => Owner!TypeOK /\ Owner!QueueIsOwners
    /\ scenario = "past" => Past!TypeOK /\ Past!QueueIsOwners

WifiStep ==
    /\ scenario = "owner" =>
         /\ Owner!RetiredStartsRefused /\ Owner!CancelTouchesOwnWindow
         /\ Owner!VerdictIsTrue
    /\ scenario = "past" =>
         /\ Past!RetiredStartsRefused /\ Past!CancelTouchesOwnWindow
         /\ Past!VerdictIsTrue

LEMMA WifiStateFacts == WifiIsSound => WifiHolds
<1>1. ASSUME OwnerP!IInv PROVE Owner!TypeOK /\ Owner!QueueIsOwners
  BY <1>1, OwnerIsProved, OwnerP!SoundTypes, OwnerP!SoundQueue,
     InstancesAssumption
  DEF InstancesAssumption
<1>2. ASSUME PastP!IInv PROVE Past!TypeOK /\ Past!QueueIsOwners
  BY <1>2, PastIsProved, PastP!SoundTypes, PastP!SoundQueue,
     InstancesAssumption
  DEF InstancesAssumption
<1>. QED
  BY <1>1, <1>2 DEF WifiIsSound, WifiHolds

LEMMA WifiStepFacts == WifiIsSound /\ ControllerNext => WifiStep
<1>. SUFFICES ASSUME WifiIsSound, ControllerNext PROVE WifiStep
  OBVIOUS
<1>1. ASSUME scenario = "owner"
      PROVE  /\ Owner!RetiredStartsRefused /\ Owner!CancelTouchesOwnWindow
             /\ Owner!VerdictIsTrue
  <2>1. OwnerP!IInv /\ OwnerP!Next /\ OwnerP!ConstantsAssumption
    BY <1>1, ServiceSteps, OwnerIsProved, InstancesAssumption
    DEF InstancesAssumption, WifiIsSound
  <2>. QED
    BY <2>1, OwnerIsProved, OwnerP!RetiredStep, OwnerP!CancelStep,
       OwnerP!VerdictStep
<1>2. ASSUME scenario = "past"
      PROVE  /\ Past!RetiredStartsRefused /\ Past!CancelTouchesOwnWindow
             /\ Past!VerdictIsTrue
  <2>1. PastP!IInv /\ PastP!Next /\ PastP!ConstantsAssumption
    BY <1>2, ServiceSteps, PastIsProved, InstancesAssumption
    DEF InstancesAssumption, WifiIsSound
  <2>. QED
    BY <2>1, PastIsProved, PastP!RetiredStep, PastP!CancelStep,
       PastP!VerdictStep
<1>. QED
  BY <1>1, <1>2 DEF WifiStep

(* A cancelled or outlived setup session never raises or closes the AP of  *)
(* another (wifi_queue_setup, wifi_cancel, wifi_retire), in both sessions. *)
THEOREM SetupsKeepApart == ControllerSpec => SessionsKeepApart
<1>. DEFINE A ==
    /\ scenario = "owner" =>
            /\ Owner!TypeOK' /\ Owner!QueueIsOwners'
            /\ Owner!RetiredStartsRefused /\ Owner!CancelTouchesOwnWindow
            /\ Owner!VerdictIsTrue
    /\ scenario = "past" =>
            /\ Past!TypeOK' /\ Past!QueueIsOwners'
            /\ Past!RetiredStartsRefused /\ Past!CancelTouchesOwnWindow
            /\ Past!VerdictIsTrue
<1>1. ASSUME WifiHolds', WifiStep, ControllerNext PROVE A
  BY <1>1 DEF WifiHolds, WifiStep, ControllerNext
<1>2. WifiHolds' /\ WifiStep /\ ControllerNext => A
  BY <1>1
<1>. HIDE DEF A
<1>3. ControllerSpec => [][A]_controllerVars
  BY <1>2, WifiStart, WifiKept, WifiStateFacts, WifiStepFacts, PTL
  DEF ControllerSpec
<1>. QED
  BY <1>3 DEF SessionsKeepApart, A

----------------------------------------------------------------------------
(* Pairing across the air. *)

HandsAreSound ==
    /\ scenario = "rekey" => RekeyP!IInv
    /\ scenario = "rivals" => RivalsP!IInv

LEMMA HandsStart == ControllerInit => HandsAreSound
<1>1. ASSUME ControllerInit, scenario = "rekey" PROVE RekeyP!IInv
  BY <1>1, ServiceStarts, RekeyIsProved, RekeyP!InitIsSound,
     InstancesAssumption
  DEF InstancesAssumption
<1>2. ASSUME ControllerInit, scenario = "rivals" PROVE RivalsP!IInv
  BY <1>2, ServiceStarts, RivalsAreProved, RivalsP!InitIsSound,
     InstancesAssumption
  DEF InstancesAssumption
<1>. QED
  BY <1>1, <1>2 DEF HandsAreSound

LEMMA HandsKept ==
    HandsAreSound /\ [ControllerNext]_controllerVars => HandsAreSound'
<1>. SUFFICES ASSUME HandsAreSound, [ControllerNext]_controllerVars
              PROVE  HandsAreSound'
  OBVIOUS
<1>1. ASSUME scenario = "rekey" PROVE RekeyP!IInv'
  <2>1. [RekeyP!Next]_(RekeyP!vars)
    BY <1>1, ServiceSteps, ServiceRests, RekeyIsProved
  <2>. QED
    BY <1>1, <2>1, RekeyIsProved, RekeyP!NextKeeps, InstancesAssumption
    DEF InstancesAssumption, HandsAreSound
<1>2. ASSUME scenario = "rivals" PROVE RivalsP!IInv'
  <2>1. [RivalsP!Next]_(RivalsP!vars)
    BY <1>2, ServiceSteps, ServiceRests, RivalsAreProved
  <2>. QED
    BY <1>2, <2>1, RivalsAreProved, RivalsP!NextKeeps, InstancesAssumption
    DEF InstancesAssumption, HandsAreSound
<1>. QED
  BY <1>1, <1>2, ScenarioStays DEF HandsAreSound

LEMMA HandsFacts == HandsAreSound => KeysAgree
<1>1. ASSUME RekeyP!IInv
      PROVE  /\ Rekey!TypeOK /\ Rekey!CommittedIsDerived
             /\ Rekey!AckedIsCommitted /\ Rekey!EndsAgree
  <2>1. RekeyP!TypeOK
    BY <1>1 DEF RekeyP!IInv
  <2>. QED
    BY <1>1, <2>1, RekeyIsProved, RekeyP!SoundAgrees, InstancesAssumption
    DEF InstancesAssumption
<1>2. ASSUME RivalsP!IInv
      PROVE  /\ Rivals!TypeOK /\ Rivals!AckedIsCommitted /\ Rivals!EndsAgree
             /\ Rivals!OneWinner
  <2>1. RivalsP!TypeOK
    BY <1>2 DEF RivalsP!IInv
  <2>. QED
    BY <1>2, <2>1, RivalsAreProved, RivalsP!SoundAgrees, InstancesAssumption
    DEF InstancesAssumption
<1>. QED
  BY <1>1, <1>2 DEF HandsAreSound, KeysAgree

(* Keys agree across the air between a dial that pairs again and again and *)
(* its controller, and between two dials and two rival controllers         *)
(* (on_pair_req, pair_commit, the PAIR_CONFIRM branch of sl2_link_on_recv).*)
THEOREM KeysAlwaysAgree == ControllerSpec => []KeysAgree
  BY HandsStart, HandsKept, HandsFacts, PTL DEF ControllerSpec

----------------------------------------------------------------------------
(* What dials pull, and the certificates they present. *)

PullsAreSound ==
    /\ scenario = "sources" => SourcesP!IInv
    /\ scenario = "vouchers" => VouchersP!IInv

LEMMA PullsStart == ControllerInit => PullsAreSound
<1>1. ASSUME ControllerInit, scenario = "sources" PROVE SourcesP!IInv
  BY <1>1, ServiceStarts, SourcesAreProved, SourcesP!InitKeeps,
     InstancesAssumption
  DEF InstancesAssumption
<1>2. ASSUME ControllerInit, scenario = "vouchers" PROVE VouchersP!IInv
  BY <1>2, ServiceStarts, VouchersAreProved, VouchersP!InitKeeps,
     InstancesAssumption
  DEF InstancesAssumption
<1>. QED
  BY <1>1, <1>2 DEF PullsAreSound

LEMMA PullsKept ==
    PullsAreSound /\ [ControllerNext]_controllerVars => PullsAreSound'
<1>. SUFFICES ASSUME PullsAreSound, [ControllerNext]_controllerVars
              PROVE  PullsAreSound'
  OBVIOUS
<1>1. ASSUME scenario = "sources" PROVE SourcesP!IInv'
  <2>1. [SourcesP!Next]_(SourcesP!vars)
    BY <1>1, ServiceSteps, ServiceRests, SourcesAreProved
  <2>. QED
    BY <1>1, <2>1, SourcesAreProved, SourcesP!NextKeeps, InstancesAssumption
    DEF InstancesAssumption, PullsAreSound
<1>2. ASSUME scenario = "vouchers" PROVE VouchersP!IInv'
  <2>1. [VouchersP!Next]_(VouchersP!vars)
    BY <1>2, ServiceSteps, ServiceRests, VouchersAreProved
  <2>. QED
    BY <1>2, <2>1, VouchersAreProved, VouchersP!NextKeeps, InstancesAssumption
    DEF InstancesAssumption, PullsAreSound
<1>. QED
  BY <1>1, <1>2, ScenarioStays DEF PullsAreSound

LEMMA PullsFacts == PullsAreSound => PullsTellTheTruth
<1>1. ASSUME SourcesP!IInv PROVE Sources!TypeOK /\ Sources!KnowsOrMayPull
  BY <1>1, SourcesAreProved DEF SourcesP!IInv
<1>2. ASSUME VouchersP!IInv PROVE Vouchers!TypeOK /\ Vouchers!GenuineIsOwn
  BY <1>2, VouchersAreProved DEF VouchersP!IInv
<1>. QED
  BY <1>1, <1>2 DEF PullsAreSound, PullsTellTheTruth

(* A dial was told the selected room source or may pull it, however        *)
(* choices, pulls and failures to send overlap (serve_pulls); a            *)
(* dial reads as genuine only on a certificate of its own (dial_cert_apply)*)
THEOREM PullsAreTrue == ControllerSpec => []PullsTellTheTruth
  BY PullsStart, PullsKept, PullsFacts, PTL DEF ControllerSpec

----------------------------------------------------------------------------
(* How STATE reaches the dials, for services of any sizes. *)

(* While the floor holds a dial back, its stamp says so: the time since it *)
(* is the time since its last STATE.                                       *)
StampsAreTrue(x) ==
    \A d \in x.dial : stateDial[d].live /\ quiet[d] < x.interval =>
                    Fan(x)!Since(stateDial[d].tx) = quiet[d]

FanInv(x) == Fan(x)!TypeOK /\ Fan(x)!FreshOrPending /\ StampsAreTrue(x)

(* A difference of stamps, and what a tick makes of it. *)
LEMMA SinceFacts ==
    ASSUME NEW x, Fan(x)!ConstantsAssumption, Fan(x)!TypeOK,
           NEW t \in 0..x.word-1
    PROVE  /\ Fan(x)!Since(t) \in 0..x.word-1
           /\ t = stateNow => Fan(x)!Since(t) = 0
           /\ stateNow' = (stateNow + 1) % x.word /\ Fan(x)!Since(t) + 1 < x.word =>
                Fan(x)!Since(t)' = Fan(x)!Since(t) + 1
<1>. DEFINE D(a) == (a - t + x.word) % x.word
<1>1. x.word \in Nat \ {0} /\ stateNow \in 0..x.word-1
  BY DEF Fan!ConstantsAssumption, Fan!TypeOK
<1>2. \A a \in 0..x.word-1 : D(a) = IF a >= t THEN a - t ELSE a - t + x.word
  BY <1>1
<1>3. (stateNow + 1) % x.word = IF stateNow + 1 = x.word THEN 0 ELSE stateNow + 1
  BY <1>1
<1>4. Fan(x)!Since(t) = D(stateNow) /\ (Fan(x)!Since(t))' = D(stateNow')
  BY DEF Fan!Since
<1>. HIDE DEF D
<1>5. Fan(x)!Since(t) \in 0..x.word-1 /\ (t = stateNow => Fan(x)!Since(t) = 0)
  BY <1>1, <1>2, <1>4
<1>6. ASSUME stateNow' = (stateNow + 1) % x.word, Fan(x)!Since(t) + 1 < x.word
      PROVE  (Fan(x)!Since(t))' = Fan(x)!Since(t) + 1
  <2>1. stateNow' \in 0..x.word-1
    BY <1>1, <1>3, <1>6
  <2>2. D(stateNow') = IF stateNow' >= t THEN stateNow' - t
                       ELSE stateNow' - t + x.word
    BY <1>2, <2>1
  <2>3. D(stateNow) = IF stateNow >= t THEN stateNow - t ELSE stateNow - t + x.word
    BY <1>1, <1>2
  <2>. QED
    BY <1>1, <1>3, <1>4, <1>6, <2>1, <2>2, <2>3
<1>. QED
  BY <1>5, <1>6

LEMMA FanInit ==
    ASSUME NEW x, Fan(x)!ConstantsAssumption, Fan(x)!Init
    PROVE  FanInv(x)
<1>1. Fan(x)!Blank \in Fan(x)!Runtime /\ x.interval \in 0..x.interval
  BY DEF Fan!ConstantsAssumption, Fan!Blank, Fan!Runtime
<1>2. Fan(x)!TypeOK
  BY <1>1 DEF Fan!Init, Fan!TypeOK
<1>3. Fan(x)!FreshOrPending /\ StampsAreTrue(x)
  BY DEF Fan!Init, Fan!FreshOrPending, StampsAreTrue, Fan!Blank
<1>. QED
  BY <1>2, <1>3 DEF FanInv

(* What is made of the entry of a dial. *)
LEMMA EntryFacts ==
    ASSUME NEW x, Fan(x)!TypeOK, NEW r \in Fan(x)!Runtime
    PROVE  /\ [r EXCEPT !.probe = stateNow] \in Fan(x)!Runtime
           /\ [r EXCEPT !.probe = stateNow].tx = r.tx
           /\ [r EXCEPT !.probe = stateNow].pend = r.pend
           /\ [r EXCEPT !.probe = stateNow].live = r.live
           /\ [r EXCEPT !.pend = TRUE] \in Fan(x)!Runtime
           /\ [r EXCEPT !.pend = TRUE].tx = r.tx
           /\ [r EXCEPT !.pend = TRUE].pend
           /\ [r EXCEPT !.pend = TRUE].live = r.live
           /\ [r EXCEPT !.pend = TRUE, !.probe = stateNow] \in Fan(x)!Runtime
           /\ [r EXCEPT !.pend = TRUE, !.probe = stateNow].tx = r.tx
           /\ [r EXCEPT !.pend = TRUE, !.probe = stateNow].pend
           /\ [r EXCEPT !.pend = TRUE, !.probe = stateNow].live = r.live
<1>. stateNow \in 0..x.word-1
  BY DEF Fan!TypeOK
<1>. QED
  BY DEF Fan!Runtime

LEMMA ProbeFacts ==
    ASSUME NEW x, Fan(x)!TypeOK, NEW r \in Fan(x)!Runtime, NEW p \in BOOLEAN
    PROVE  LET q == [r EXCEPT !.probe = stateNow, !.pull = p]
           IN  q \in Fan(x)!Runtime /\ q.tx = r.tx /\ q.pend = r.pend
                   /\ q.live = r.live
<1>. stateNow \in 0..x.word-1
  BY DEF Fan!TypeOK
<1>. QED
  BY DEF Fan!Runtime

LEMMA LiveFacts ==
    ASSUME NEW x, NEW r \in Fan(x)!Runtime, NEW p \in BOOLEAN
    PROVE  LET q == [r EXCEPT !.live = p]
           IN  q \in Fan(x)!Runtime /\ q.tx = r.tx /\ q.pend = r.pend /\ q.live = p
BY DEF Fan!Runtime

LEMMA ServedFacts ==
    ASSUME NEW x, Fan(x)!TypeOK, NEW r \in Fan(x)!Runtime
    PROVE  /\ Fan(x)!Served(r) \in Fan(x)!Runtime
           /\ Fan(x)!Served(r).tx = stateNow
           /\ ~Fan(x)!Served(r).pend
           /\ Fan(x)!Served(r).live = r.live
<1>. stateNow \in 0..x.word-1
  BY DEF Fan!TypeOK
<1>. QED
  BY DEF Fan!Runtime, Fan!Served

(* Nothing but the entries changed, and each still says when its dial was  *)
(* last sent to, and pends if it did.                                      *)
LEMMA EntriesKeep ==
    ASSUME NEW x, Fan(x)!ConstantsAssumption, FanInv(x),
           stateDial' \in [x.dial -> Fan(x)!Runtime], hvac' \in Values,
           floored' = {}, UNCHANGED <<stateNow, ran, stateLast, sent, quiet>>,
           stateBonded' \subseteq x.dial,
           \A d \in x.dial : stateDial'[d].tx = stateDial[d].tx
                   /\ stateDial'[d].live = stateDial[d].live,
           \A d \in stateBonded' : \/ stateDial'[d].pend
                                   \/ d \in stateBonded
                                           /\ stateDial'[d].pend = stateDial[d].pend
    PROVE  FanInv(x)' /\ Fan(x)!RateFloor
<1>1. Fan(x)!TypeOK' /\ Fan(x)!RateFloor
  BY DEF FanInv, Fan!TypeOK, Fan!RateFloor
<1>2. Fan(x)!FreshOrPending'
  BY DEF FanInv, Fan!FreshOrPending, Fan!TypeOK
<1>3. StampsAreTrue(x)'
  BY DEF FanInv, StampsAreTrue, Fan!Since
<1>. QED
  BY <1>1, <1>2, <1>3 DEF FanInv

LEMMA FanFrames ==
    ASSUME NEW x, Fan(x)!ConstantsAssumption, FanInv(x), NEW d \in x.dial,
           Fan(x)!Probe(d) \/ Fan(x)!OtherFrame(d) \/ Fan(x)!RefusedFrame(d) \/ Fan(x)!Commit(d)
    PROVE  FanInv(x)' /\ Fan(x)!RateFloor
<1>1. stateDial \in [x.dial -> Fan(x)!Runtime] /\ Fan(x)!TypeOK
        /\ stateDial[d] \in Fan(x)!Runtime
  BY DEF FanInv, Fan!TypeOK
<1>2. CASE Fan(x)!Probe(d)
  <2>1. PICK p \in BOOLEAN : Fan(x)!Heard(d, [stateDial[d] EXCEPT !.probe = stateNow, !.pull = p])
    BY <1>2 DEF Fan!Probe
  <2>. QED
    <3>. DEFINE r == [stateDial[d] EXCEPT !.probe = stateNow, !.pull = p]
    <3>1. r \in Fan(x)!Runtime /\ r.tx = stateDial[d].tx
            /\ r.pend = stateDial[d].pend
          /\ r.live = stateDial[d].live
      BY <1>1, ProbeFacts
    <3>2. Fan(x)!Heard(d, r) /\ d \in stateBonded
      BY <1>2, <2>1 DEF Fan!Probe
    <3>. HIDE DEF r
    <3>. QED
      BY <1>1, <3>1, <3>2, EntriesKeep DEF Fan!Heard, Fan!TypeOK
<1>3. CASE Fan(x)!OtherFrame(d)
  <2>. DEFINE r == [stateDial[d] EXCEPT !.probe = stateNow]
  <2>1. r \in Fan(x)!Runtime /\ r.tx = stateDial[d].tx /\ r.pend = stateDial[d].pend
        /\ r.live = stateDial[d].live
    BY <1>1, EntryFacts
  <2>2. Fan(x)!Heard(d, r)
    BY <1>3 DEF Fan!OtherFrame
  <2>. HIDE DEF r
  <2>. QED
    BY <1>1, <2>1, <2>2, EntriesKeep DEF Fan!Heard, Fan!TypeOK
<1>4. CASE Fan(x)!RefusedFrame(d)
  <2>. DEFINE r == [stateDial[d] EXCEPT !.pend = TRUE]
  <2>1. r \in Fan(x)!Runtime /\ r.tx = stateDial[d].tx /\ r.pend
          /\ r.live = stateDial[d].live
    BY <1>1, EntryFacts
  <2>2. /\ stateDial' = [stateDial EXCEPT ![d] = r] /\ floored' = {}
        /\ UNCHANGED <<stateNow, ran, hvac, stateLast, stateBonded, sent, quiet>>
    BY <1>4 DEF Fan!RefusedFrame
  <2>. HIDE DEF r
  <2>. QED
    BY <1>1, <2>1, <2>2, EntriesKeep DEF Fan!TypeOK
<1>5. CASE Fan(x)!Commit(d)
  <2>. DEFINE r == [stateDial[d] EXCEPT !.pend = TRUE, !.probe = stateNow]
  <2>1. r \in Fan(x)!Runtime /\ r.tx = stateDial[d].tx /\ r.pend
          /\ r.live = stateDial[d].live
    BY <1>1, EntryFacts
  <2>2. /\ stateDial' = [stateDial EXCEPT ![d] = r] /\ floored' = {}
        /\ stateBonded' = stateBonded \cup {d}
        /\ UNCHANGED <<stateNow, ran, hvac, stateLast, sent, quiet>>
    BY <1>5 DEF Fan!Commit
  <2>. HIDE DEF r
  <2>. QED
    BY <1>1, <2>1, <2>2, EntriesKeep DEF Fan!TypeOK
<1>. QED
  BY <1>2, <1>3, <1>4, <1>5

LEMMA FanChanges ==
    ASSUME NEW x, Fan(x)!ConstantsAssumption, FanInv(x),
           Fan(x)!HvacChange \/ Fan(x)!MarkAll
    PROVE  FanInv(x)' /\ Fan(x)!RateFloor
<1>1. stateDial \in [x.dial -> Fan(x)!Runtime] /\ Fan(x)!TypeOK
  BY DEF FanInv, Fan!TypeOK
<1>2. CASE Fan(x)!HvacChange
  BY <1>1, <1>2, EntriesKeep DEF Fan!HvacChange, Fan!TypeOK
<1>3. CASE Fan(x)!MarkAll
  BY <1>1, <1>3, EntryFacts, EntriesKeep DEF Fan!MarkAll, Fan!TypeOK
<1>. QED
  BY <1>2, <1>3

LEMMA FanForget ==
    ASSUME NEW x, Fan(x)!ConstantsAssumption, FanInv(x), NEW d \in x.dial,
           Fan(x)!Forget(d)
    PROVE  FanInv(x)' /\ Fan(x)!RateFloor
<1>1. Fan(x)!Blank \in Fan(x)!Runtime /\ ~Fan(x)!Blank.live
  BY DEF Fan!Blank, Fan!Runtime, Fan!ConstantsAssumption
<1>2. Fan(x)!TypeOK' /\ Fan(x)!RateFloor
  BY <1>1 DEF FanInv, Fan!TypeOK, Fan!RateFloor, Fan!Forget
<1>3. \A e \in x.dial \ {d} : stateDial'[e] = stateDial[e] /\ sent'[e] = sent[e]
  BY DEF Fan!Forget, FanInv, Fan!TypeOK
<1>4. stateDial'[d] = Fan(x)!Blank /\ d \notin stateBonded'
        /\ stateBonded' \subseteq stateBonded
  BY DEF Fan!Forget, FanInv, Fan!TypeOK
<1>5. Fan(x)!FreshOrPending'
  BY <1>3, <1>4 DEF FanInv, Fan!FreshOrPending, Fan!Forget, Fan!TypeOK
<1>6. StampsAreTrue(x)'
  BY <1>1, <1>3, <1>4 DEF FanInv, StampsAreTrue, Fan!Forget, Fan!Since
<1>. QED
  BY <1>2, <1>5, <1>6 DEF FanInv

(* To some of the bonded dials the state is sent, and the entry of no other*)
(* one is stamped.                                                         *)
LEMMA SendingKeeps ==
    ASSUME NEW x, Fan(x)!ConstantsAssumption, FanInv(x), NEW D,
           D \subseteq stateBonded,
           NEW st, st \in Values,
           Fan(x)!SendTo(D, st), stateDial' \in [x.dial -> Fan(x)!Runtime], stateLast' = st,
           UNCHANGED <<stateNow, stateBonded>>, hvac' \in Values, ran' \in BOOLEAN,
           floored' \subseteq stateBonded,
           \A d \in D : stateDial'[d].tx = stateNow,
           \A d \in x.dial \ D : stateDial'[d].tx = stateDial[d].tx
                   /\ (stateDial'[d].live => stateDial[d].live),
           \A d \in stateBonded \ D : ~stateDial'[d].pend =>
                stateLast = st /\ ~stateDial[d].pend
    PROVE  FanInv(x)'
<1>1. /\ \A d \in D : sent'[d] = st /\ quiet'[d] = 0
      /\ \A d \in x.dial \ D : sent'[d] = sent[d] /\ quiet'[d] = quiet[d]
      /\ sent' \in [x.dial -> Values \cup {none}]
      /\ quiet' \in [x.dial -> 0..x.interval]
  BY DEF Fan!SendTo, FanInv, Fan!TypeOK, Fan!ConstantsAssumption
<1>2. Fan(x)!TypeOK'
  BY <1>1 DEF FanInv, Fan!TypeOK
<1>3. Fan(x)!FreshOrPending'
  <2>. SUFFICES ASSUME NEW d \in stateBonded, ~stateDial'[d].pend
                PROVE  sent'[d] = st \/ (sent'[d] = none /\ ~stateDial'[d].live)
    BY DEF Fan!FreshOrPending
  <2>1. d \in x.dial
    BY DEF FanInv, Fan!TypeOK
  <2>2. CASE d \in D
    BY <1>1, <2>2
  <2>3. CASE d \notin D
    BY <1>1, <2>1, <2>3 DEF FanInv, Fan!FreshOrPending
  <2>. QED
    BY <2>2, <2>3
<1>4. StampsAreTrue(x)'
  <2>. SUFFICES ASSUME NEW d \in x.dial, stateDial'[d].live,
                       quiet'[d] < x.interval
                PROVE  (Fan(x)!Since(stateDial[d].tx))' = quiet'[d]
    BY DEF StampsAreTrue
  <2>1. CASE d \in D
    <3>1. stateDial'[d].tx = stateNow /\ stateNow \in 0..x.word-1
      BY <2>1 DEF FanInv, Fan!TypeOK
    <3>2. Fan(x)!Since(stateNow) = 0
      BY <3>1, SinceFacts DEF FanInv
    <3>. QED
      BY <1>1, <2>1, <3>1, <3>2 DEF Fan!Since
  <2>2. CASE d \notin D
    BY <1>1, <2>2 DEF FanInv, StampsAreTrue, Fan!Since
  <2>. QED
    BY <2>1, <2>2
<1>. QED
  BY <1>2, <1>3, <1>4 DEF FanInv

LEMMA FanCommand ==
    ASSUME NEW x, Fan(x)!ConstantsAssumption, FanInv(x), NEW c \in x.dial,
           Fan(x)!Command(c)
    PROVE  FanInv(x)' /\ Fan(x)!RateFloor
<1>. DEFINE heard == [stateDial EXCEPT ![c].probe = stateNow]
            D == {e \in stateBonded : heard[e].probe # 0
                    /\ Fan(x)!Since(heard[e].probe) < x.live}
<1>1. PICK st \in Values :
        /\ hvac' = st /\ stateLast' = st
        /\ stateDial' = [e \in x.dial |-> IF e \in stateBonded THEN Fan(x)!Echoed(e, heard[e]) ELSE heard[e]]
        /\ Fan(x)!SendTo(D, st)
  BY DEF Fan!Command
<1>2. floored' = {} /\ UNCHANGED <<stateNow, ran, stateBonded>>
  BY DEF Fan!Command
<1>3. Fan(x)!TypeOK /\ stateDial \in [x.dial -> Fan(x)!Runtime]
        /\ stateBonded \subseteq x.dial
  BY DEF FanInv, Fan!TypeOK
<1>4. \A e \in x.dial : heard[e] \in Fan(x)!Runtime /\ heard[e].tx = stateDial[e].tx
                      /\ heard[e].live = stateDial[e].live
  <2>. DEFINE q == [stateDial[c] EXCEPT !.probe = stateNow]
  <2>1. stateDial[c] \in Fan(x)!Runtime
    BY <1>3
  <2>2. q \in Fan(x)!Runtime /\ q.tx = stateDial[c].tx
        /\ q.live = stateDial[c].live
    BY <1>3, <2>1, EntryFacts
  <2>3. \A e \in x.dial : heard[e] = IF e = c THEN q ELSE stateDial[e]
    BY <1>3
  <2>. HIDE DEF q, heard
  <2>. QED
    BY <1>3, <2>2, <2>3
<1>5. /\ \A e \in D : stateDial'[e] = Fan(x)!Served(heard[e])
      /\ \A e \in stateBonded \ D : stateDial'[e] = [heard[e] EXCEPT !.pend = TRUE]
      /\ \A e \in x.dial \ stateBonded : stateDial'[e] = heard[e]
  BY <1>1, <1>3 DEF Fan!Echoed
<1>6. D \subseteq stateBonded
  OBVIOUS
<1>. HIDE DEF heard, D
<1>7. \A e \in D : stateDial'[e] \in Fan(x)!Runtime /\ stateDial'[e].tx = stateNow
  <2>. SUFFICES ASSUME NEW e \in D
                PROVE  stateDial'[e] \in Fan(x)!Runtime
                         /\ stateDial'[e].tx = stateNow
    OBVIOUS
  <2>1. heard[e] \in Fan(x)!Runtime /\ stateDial'[e] = Fan(x)!Served(heard[e])
    BY <1>3, <1>4, <1>5, <1>6
  <2>. QED
    BY <1>3, <2>1, ServedFacts
<1>8. \A e \in stateBonded \ D : /\ stateDial'[e] \in Fan(x)!Runtime
                                 /\ stateDial'[e].tx = stateDial[e].tx
                                 /\ stateDial'[e].live = stateDial[e].live
                                 /\ stateDial'[e].pend
  <2>. SUFFICES ASSUME NEW e \in stateBonded \ D
                PROVE  /\ stateDial'[e] \in Fan(x)!Runtime
                       /\ stateDial'[e].tx = stateDial[e].tx
                       /\ stateDial'[e].live = stateDial[e].live
                       /\ stateDial'[e].pend
    OBVIOUS
  <2>1. /\ heard[e] \in Fan(x)!Runtime /\ heard[e].tx = stateDial[e].tx
        /\ heard[e].live = stateDial[e].live
        /\ stateDial'[e] = [heard[e] EXCEPT !.pend = TRUE]
    BY <1>3, <1>4, <1>5
  <2>. DEFINE h == heard[e]
              r == [h EXCEPT !.pend = TRUE]
  <2>2. h \in Fan(x)!Runtime /\ stateDial'[e] = r
    BY <2>1
  <2>. HIDE DEF h
  <2>3. r \in Fan(x)!Runtime /\ r.tx = h.tx /\ r.live = h.live /\ r.pend
    BY <1>3, <2>2, EntryFacts
  <2>. USE DEF h
  <2>. HIDE DEF r
  <2>. QED
    BY <2>1, <2>2, <2>3
<1>9. /\ stateDial' \in [x.dial -> Fan(x)!Runtime]
      /\ \A e \in x.dial \ D : stateDial'[e].tx = stateDial[e].tx
         /\ (stateDial'[e].live => stateDial[e].live)
  <2>1. \A e \in x.dial : stateDial'[e] \in Fan(x)!Runtime
    BY <1>4, <1>5, <1>7, <1>8
  <2>2. stateDial' \in [x.dial -> Fan(x)!Runtime]
    BY <1>1, <2>1
  <2>. QED
    BY <1>4, <1>5, <1>8, <2>2
<1>10. FanInv(x)'
  <2>1. Fan(x)!SendTo(D, st) /\ stateLast' = st /\ hvac' \in Values
    BY <1>1
  <2>2. ran' \in BOOLEAN /\ floored' \subseteq stateBonded
    BY <1>2, <1>3 DEF Fan!TypeOK
  <2>. QED
    BY <1>2, <1>6, <1>7, <1>8, <1>9, <2>1, <2>2, SendingKeeps
<1>. QED
  BY <1>2, <1>10 DEF Fan!RateFloor

LEMMA FanLoop ==
    ASSUME NEW x, Fan(x)!ConstantsAssumption, FanInv(x), Fan(x)!Loop
    PROVE  FanInv(x)' /\ Fan(x)!RateFloor
<1>1. Fan(x)!TypeOK /\ stateDial \in [x.dial -> Fan(x)!Runtime]
        /\ stateBonded \subseteq x.dial
  BY DEF FanInv, Fan!TypeOK
<1>2. CASE ~\E d \in stateBonded : Fan(x)!Live(d)
  <2>1. /\ stateDial' = [d \in x.dial |-> IF d \in stateBonded THEN [stateDial[d] EXCEPT !.live = FALSE]
                                   ELSE stateDial[d]]
        /\ floored' = {} /\ ran' = TRUE
        /\ UNCHANGED <<stateLast, sent, quiet, stateNow, hvac, stateBonded>>
    BY <1>2 DEF Fan!Loop
  <2>2. \A d \in x.dial : stateDial'[d] \in Fan(x)!Runtime
          /\ stateDial'[d].tx = stateDial[d].tx
                        /\ stateDial'[d].pend = stateDial[d].pend
                        /\ (stateDial'[d].live => stateDial[d].live)
    BY <1>1, <2>1, LiveFacts
  <2>3. Fan(x)!TypeOK' /\ Fan(x)!RateFloor
    BY <1>1, <2>1, <2>2 DEF Fan!TypeOK, Fan!RateFloor
  <2>4. Fan(x)!FreshOrPending'
    BY <1>1, <2>1, <2>2 DEF FanInv, Fan!FreshOrPending
  <2>5. StampsAreTrue(x)'
    BY <2>1, <2>2 DEF FanInv, StampsAreTrue, Fan!Since
  <2>. QED
    BY <2>3, <2>4, <2>5 DEF FanInv
<1>3. CASE \E d \in stateBonded : Fan(x)!Live(d)
  <2>. DEFINE changed == stateLast # hvac
              marked  == [d \in x.dial |-> IF d \in stateBonded THEN Fan(x)!Marked(changed, stateDial[d])
                                         ELSE stateDial[d]]
              due     == {d \in stateBonded : Fan(x)!Live(d)
                      /\ Fan(x)!Due(marked[d])}
  <2>1. /\ stateLast' = hvac
        /\ stateDial' = [d \in x.dial |->
                      IF d \notin stateBonded THEN stateDial[d]
                      ELSE [IF d \in due THEN Fan(x)!Served(marked[d])
                            ELSE marked[d]
                              EXCEPT !.live = Fan(x)!Live(d)]]
        /\ Fan(x)!SendTo(due, hvac)
        /\ floored' = {d \in due : stateDial[d].live}
        /\ ran' = TRUE /\ UNCHANGED <<stateNow, hvac, stateBonded>>
    BY <1>3 DEF Fan!Loop
  <2>2. \A d \in x.dial : /\ marked[d] \in Fan(x)!Runtime
                          /\ marked[d].tx = stateDial[d].tx
                          /\ marked[d].live = stateDial[d].live
                          /\ d \in stateBonded /\ ~marked[d].pend => ~changed
                             /\ ~stateDial[d].pend
    BY <1>1, EntryFacts DEF Fan!Marked
  <2>3. /\ due \subseteq stateBonded
        /\ \A d \in due : Fan(x)!Live(d) /\ Fan(x)!Due(marked[d])
        /\ \A d \in stateBonded \ due : Fan(x)!Live(d) => ~Fan(x)!Due(marked[d])
    OBVIOUS
  <2>4. \A d \in x.dial : Fan(x)!Live(d) \in BOOLEAN
    BY DEF Fan!Live
  <2>5. ~changed => stateLast = hvac
    OBVIOUS
  <2>. HIDE DEF changed, marked, due
  <2>6. \A d \in due : stateDial'[d] \in Fan(x)!Runtime
          /\ stateDial'[d].tx = stateNow
    <3>. SUFFICES ASSUME NEW d \in due
                  PROVE  stateDial'[d] \in Fan(x)!Runtime
                           /\ stateDial'[d].tx = stateNow
      OBVIOUS
    <3>1. d \in x.dial
            /\ stateDial'[d] = [Fan(x)!Served(marked[d]) EXCEPT !.live = Fan(x)!Live(d)]
      BY <1>1, <2>1, <2>3
    <3>2. Fan(x)!Served(marked[d]) \in Fan(x)!Runtime
            /\ Fan(x)!Served(marked[d]).tx = stateNow
      BY <1>1, <2>2, <3>1, ServedFacts
    <3>. QED
      BY <1>1, <2>4, <3>1, <3>2, LiveFacts
  <2>7. \A d \in stateBonded \ due : /\ stateDial'[d] \in Fan(x)!Runtime
                                     /\ stateDial'[d].tx = stateDial[d].tx
                                     /\ stateDial'[d].live => stateDial[d].live
                                     /\ ~stateDial'[d].pend
                                        => stateLast = hvac /\ ~stateDial[d].pend
    <3>. SUFFICES ASSUME NEW d \in stateBonded \ due
                  PROVE  /\ stateDial'[d] \in Fan(x)!Runtime
                         /\ stateDial'[d].tx = stateDial[d].tx
                         /\ stateDial'[d].live => stateDial[d].live
                         /\ ~stateDial'[d].pend => stateLast = hvac
                            /\ ~stateDial[d].pend
      OBVIOUS
    <3>1. d \in x.dial /\ stateDial'[d] = [marked[d] EXCEPT !.live = Fan(x)!Live(d)]
      BY <1>1, <2>1
    <3>2. /\ stateDial'[d] \in Fan(x)!Runtime /\ stateDial'[d].tx = marked[d].tx
          /\ stateDial'[d].pend = marked[d].pend
          /\ stateDial'[d].live = Fan(x)!Live(d)
      BY <1>1, <2>2, <2>4, <3>1, LiveFacts
    <3>3. Fan(x)!Live(d) => marked[d].live
      BY <2>3 DEF Fan!Due
    <3>. QED
      BY <2>2, <2>5, <3>1, <3>2, <3>3
  <2>8. \A d \in x.dial \ stateBonded : stateDial'[d] = stateDial[d]
    BY <2>1
  <2>9. stateDial' \in [x.dial -> Fan(x)!Runtime]
    <3>1. \A d \in x.dial : stateDial'[d] \in Fan(x)!Runtime
      BY <1>1, <2>6, <2>7, <2>8
    <3>. QED
      BY <2>1, <3>1
  <2>10. FanInv(x)'
    <3>1. hvac \in Values /\ hvac' \in Values /\ ran' \in BOOLEAN
      BY <1>1, <2>1 DEF Fan!TypeOK
    <3>2. floored' \subseteq stateBonded
      BY <2>1, <2>3
    <3>3. \A d \in x.dial \ due : stateDial'[d].tx = stateDial[d].tx
            /\ (stateDial'[d].live => stateDial[d].live)
      BY <2>7, <2>8
    <3>4. Fan(x)!SendTo(due, hvac) /\ stateLast' = hvac
            /\ UNCHANGED <<stateNow, stateBonded>>
      BY <2>1
    <3>. QED
      BY <2>3, <2>6, <2>7, <2>9, <3>1, <3>2, <3>3, <3>4, SendingKeeps
  <2>11. Fan(x)!RateFloor
    <3>. SUFFICES ASSUME NEW d \in due, stateDial[d].live
                  PROVE  quiet[d] >= x.interval
      BY <2>1 DEF Fan!RateFloor
    <3>1. d \in x.dial /\ stateDial[d] \in Fan(x)!Runtime
            /\ stateDial[d].tx \in 0..x.word-1
      BY <1>1, <2>3 DEF Fan!Runtime
    <3>2. Fan(x)!Since(stateDial[d].tx) \in Int /\ quiet[d] \in Int
      BY <1>1, <3>1, SinceFacts DEF Fan!TypeOK
    <3>3. Fan(x)!Since(stateDial[d].tx) >= x.interval
      BY <2>2, <2>3, <3>1, <3>2 DEF Fan!Due, Fan!ConstantsAssumption
    <3>. QED
      BY <3>1, <3>2, <3>3 DEF FanInv, StampsAreTrue, Fan!ConstantsAssumption
  <2>. QED
    BY <2>10, <2>11
<1>. QED
  BY <1>2, <1>3

LEMMA FanTick ==
    ASSUME NEW x, Fan(x)!ConstantsAssumption, FanInv(x), Fan(x)!Tick
    PROVE  FanInv(x)' /\ Fan(x)!RateFloor
<1>1. Fan(x)!TypeOK /\ stateDial \in [x.dial -> Fan(x)!Runtime]
        /\ quiet \in [x.dial -> 0..x.interval]
  BY DEF FanInv, Fan!TypeOK
<1>2. stateNow' \in 0..x.word-1
  BY <1>1 DEF Fan!TypeOK, Fan!Tick, Fan!ConstantsAssumption
<1>3. /\ quiet' \in [x.dial -> 0..x.interval]
      /\ \A d \in x.dial : quiet'[d] = IF quiet[d] < x.interval THEN quiet[d] + 1 ELSE quiet[d]
  BY <1>1 DEF Fan!Tick, Fan!ConstantsAssumption
<1>4. Fan(x)!TypeOK' /\ Fan(x)!RateFloor
  BY <1>1, <1>2, <1>3 DEF Fan!TypeOK, Fan!Tick, Fan!RateFloor
<1>5. Fan(x)!FreshOrPending'
  BY DEF FanInv, Fan!FreshOrPending, Fan!Tick
<1>6. StampsAreTrue(x)'
  <2>. SUFFICES ASSUME NEW d \in x.dial, stateDial[d].live,
                       quiet'[d] < x.interval
                PROVE  (Fan(x)!Since(stateDial[d].tx))' = quiet'[d]
    BY DEF StampsAreTrue, Fan!Tick
  <2>1. /\ stateDial[d].tx \in 0..x.word-1 /\ quiet[d] \in 0..x.interval
        /\ x.interval \in Nat /\ x.interval < x.word /\ x.word \in Nat
    BY <1>1 DEF Fan!Runtime, Fan!ConstantsAssumption
  <2>2. quiet[d] < x.interval /\ quiet'[d] = quiet[d] + 1
    BY <1>3, <2>1
  <2>3. Fan(x)!Since(stateDial[d].tx) = quiet[d]
    BY <2>2 DEF FanInv, StampsAreTrue
  <2>4. stateNow' = (stateNow + 1) % x.word /\ stateDial' = stateDial
    BY DEF Fan!Tick
  <2>5. (Fan(x)!Since(stateDial[d].tx))' = Fan(x)!Since(stateDial[d].tx) + 1
    <3>. DEFINE t == stateDial[d].tx
    <3>1. t \in 0..x.word-1 /\ Fan(x)!Since(t) + 1 < x.word
      BY <2>1, <2>2, <2>3
    <3>2. (stateNow' - t + x.word) % x.word = Fan(x)!Since(t) + 1
      <4>. HIDE DEF t
      <4>. QED
        BY <1>1, <2>4, <3>1, SinceFacts DEF Fan!Since
    <3>. QED
      BY <2>4, <3>2 DEF Fan!Since
  <2>. QED
    BY <2>2, <2>3, <2>5
<1>. QED
  BY <1>4, <1>5, <1>6 DEF FanInv

LEMMA FanRest ==
    ASSUME NEW x, FanInv(x), UNCHANGED Fan(x)!vars
    PROVE  FanInv(x)'
BY DEF FanInv, Fan!TypeOK, Fan!FreshOrPending, StampsAreTrue, Fan!Since,
   Fan!vars

LEMMA FanStep ==
    ASSUME NEW x, Fan(x)!ConstantsAssumption, FanInv(x), Fan(x)!Next
    PROVE  FanInv(x)' /\ Fan(x)!RateFloor
BY FanFrames, FanChanges, FanForget, FanCommand, FanLoop, FanTick DEF Fan!Next

----------------------------------------------------------------------------
(* ... and for those of the controller. *)
FanIsSound ==
    /\ scenario = "heads" => FanInv(HeadsSize)
    /\ scenario = "floor" => FanInv(FloorSize)

LEMMA FanStart == ControllerInit => FanIsSound
<1>1. ASSUME ControllerInit, scenario = "heads" PROVE FanInv(HeadsSize)
  BY <1>1, FanInit, InstancesAssumption DEF InstancesAssumption, ControllerInit
<1>2. ASSUME ControllerInit, scenario = "floor" PROVE FanInv(FloorSize)
  BY <1>2, FanInit, InstancesAssumption DEF InstancesAssumption, ControllerInit
<1>. QED
  BY <1>1, <1>2 DEF FanIsSound

LEMMA FanKept == FanIsSound /\ [ControllerNext]_controllerVars => FanIsSound'
<1>. SUFFICES ASSUME FanIsSound, [ControllerNext]_controllerVars
              PROVE  FanIsSound'
  OBVIOUS
<1>1. ASSUME scenario = "heads" PROVE FanInv(HeadsSize)'
  <2>1. FanInv(HeadsSize) /\ Fan(HeadsSize)!ConstantsAssumption
    BY <1>1, InstancesAssumption DEF FanIsSound, InstancesAssumption
  <2>2. CASE ControllerNext
    BY <1>1, <2>1, <2>2, FanStep DEF ControllerNext
  <2>3. CASE UNCHANGED controllerVars
    BY <2>1, <2>3, FanRest DEF controllerVars, state, Fan!vars
  <2>. QED
    BY <2>2, <2>3
<1>2. ASSUME scenario = "floor" PROVE FanInv(FloorSize)'
  <2>1. FanInv(FloorSize) /\ Fan(FloorSize)!ConstantsAssumption
    BY <1>2, InstancesAssumption DEF FanIsSound, InstancesAssumption
  <2>2. CASE ControllerNext
    BY <1>2, <2>1, <2>2, FanStep DEF ControllerNext
  <2>3. CASE UNCHANGED controllerVars
    BY <2>1, <2>3, FanRest DEF controllerVars, state, Fan!vars
  <2>. QED
    BY <2>2, <2>3
<1>. QED
  BY <1>1, <1>2, ScenarioStays DEF FanIsSound

(* What a step of the fan-out does. *)
FanHolds ==
    /\ scenario = "heads" =>
         Fan(HeadsSize)!TypeOK /\ Fan(HeadsSize)!FreshOrPending
    /\ scenario = "floor" =>
         Fan(FloorSize)!TypeOK /\ Fan(FloorSize)!FreshOrPending

FanSteps ==
    /\ scenario = "heads" => Fan(HeadsSize)!RateFloor
    /\ scenario = "floor" => Fan(FloorSize)!RateFloor

LEMMA FanStateFacts == FanIsSound => FanHolds
BY DEF FanIsSound, FanHolds, FanInv

LEMMA FanStepFacts == FanIsSound /\ ControllerNext => FanSteps
<1>. SUFFICES ASSUME FanIsSound, ControllerNext PROVE FanSteps
  OBVIOUS
<1>1. ASSUME scenario = "heads" PROVE Fan(HeadsSize)!RateFloor
  BY <1>1, FanStep, InstancesAssumption
  DEF InstancesAssumption, FanIsSound, ControllerNext
<1>2. ASSUME scenario = "floor" PROVE Fan(FloorSize)!RateFloor
  BY <1>2, FanStep, InstancesAssumption
  DEF InstancesAssumption, FanIsSound, ControllerNext
<1>. QED
  BY <1>1, <1>2 DEF FanSteps

(* A dial with no STATE pending was sent the latest one, and what loop     *)
(* sends to one dial keeps the minimum interval, across the wrap of the    *)
(* clock (sl2_link_loop, echo_state_all, send_state_to).                   *)
THEOREM HeadsStayCurrent == ControllerSpec => HeadsAreCurrent
<1>. DEFINE A ==
    /\ scenario = "heads" =>
            /\ Fan(HeadsSize)!TypeOK' /\ Fan(HeadsSize)!FreshOrPending'
            /\ Fan(HeadsSize)!RateFloor
    /\ scenario = "floor" =>
            /\ Fan(FloorSize)!TypeOK' /\ Fan(FloorSize)!FreshOrPending'
            /\ Fan(FloorSize)!RateFloor
<1>1. ASSUME FanHolds', FanSteps, ControllerNext PROVE A
  BY <1>1 DEF FanHolds, FanSteps, ControllerNext
<1>2. FanHolds' /\ FanSteps /\ ControllerNext => A
  BY <1>1
<1>. HIDE DEF A
<1>3. ControllerSpec => [][A]_controllerVars
  BY <1>2, FanStart, FanKept, FanStateFacts, FanStepFacts, PTL
  DEF ControllerSpec
<1>. QED
  BY <1>3 DEF HeadsAreCurrent, A

----------------------------------------------------------------------------
(* The deadlines of pairing, for clocks and windows of any size. *)

Ahead(x, stamp)  == (stamp - pairingNow + x.word) % x.word
Behind(x, stamp) == (pairingNow - stamp + x.word) % x.word

(* A deadline agrees with the time that is left of it; one that has passed *)
(* did so since loop last ran.                                             *)
AgreesWith(x, stamp, rest) ==
    IF rest > 0 THEN Ahead(x, stamp) = rest ELSE Behind(x, stamp) < stall

WindowInv(x) ==
    /\ Window(x)!TypeOK
    /\ left < x.word \div 2
    /\ pair # "off" => AgreesWith(x, deadline, left)
    /\ pair = "confirm" => AgreesWith(x, confirmDeadline, x.confirm - confirming)

(* Differences on the clock. *)
LEMMA WordFacts ==
    ASSUME NEW x, Window(x)!ConstantsAssumption
    PROVE  /\ x.word \in Nat \ {0} /\ x.word \div 2 \in Nat \ {0}
           /\ x.word = 2 * (x.word \div 2)
           /\ \A w \in x.windows : w \in 1..(x.word \div 2 - 1)
           /\ x.confirm \in 1..(x.word \div 2 - 1)
           /\ x.stall \in 1..(x.word \div 2 - 1)
           /\ x.starts \in Nat
<1>. QED
  BY DEF Window!ConstantsAssumption

LEMMA ClockFacts ==
    ASSUME NEW x, NEW n \in Nat \ {0}, NEW a \in 0..n-1
    PROVE  /\ \A b \in 0..n-1 :
                (a - b + n) % n = IF a >= b THEN a - b ELSE a - b + n
           /\ \A w \in 0..n-1 :
                (a + w) % n = IF a + w >= n THEN a + w - n ELSE a + w
OBVIOUS

(* What the comparison with a deadline tells. *)
LEMMA DeadlineFacts ==
    ASSUME NEW x, Window(x)!ConstantsAssumption, Window(x)!TypeOK,
           NEW s \in 0..x.word-1,
           NEW r \in 0..(x.word \div 2 - 1), AgreesWith(x, s, r)
    PROVE  /\ Window(x)!Reached(s) <=> r = 0
           /\ r = 0 => stall > 0
           /\ r = (IF Ahead(x, s) >= x.word \div 2 THEN 0 ELSE Ahead(x, s))
<1>. DEFINE W == x.word
            H == x.word \div 2
<1>1. W \in Nat \ {0} /\ H \in Nat /\ W = 2 * H /\ x.stall < H /\ x.stall \in Nat
  BY WordFacts
<1>2. pairingNow \in 0..W-1 /\ stall \in 0..x.stall
  BY DEF Window!TypeOK
<1>. HIDE DEF W, H
<1>3. (pairingNow - s + W) % W = IF pairingNow >= s THEN pairingNow - s
                                 ELSE pairingNow - s + W
  BY <1>1, <1>2, ClockFacts DEF W
<1>4. (s - pairingNow + W) % W = IF s >= pairingNow THEN s - pairingNow
                                 ELSE s - pairingNow + W
  BY <1>1, <1>2, ClockFacts DEF W
<1>5. IF r > 0 THEN (s - pairingNow + W) % W = r
      ELSE (pairingNow - s + W) % W < stall
  BY DEF AgreesWith, Ahead, Behind, W
<1>6. s \in 0..W-1 /\ r \in 0..H-1
  BY DEF W, H
<1>7. /\ (pairingNow - s + W) % W < H <=> r = 0
      /\ r = 0 => stall > 0
      /\ r = (IF (s - pairingNow + W) % W >= H THEN 0 ELSE (s - pairingNow + W) % W)
  BY <1>1, <1>2, <1>3, <1>4, <1>5, <1>6
<1>. QED
  BY <1>7 DEF Window!Reached, Ahead, W, H

(* A deadline that is set agrees with the time it was set to. *)
LEMMA SetFacts ==
    ASSUME NEW x, Window(x)!ConstantsAssumption, Window(x)!TypeOK,
           NEW w \in 1..(x.word \div 2 - 1)
    PROVE  Window(x)!Later(w) \in 0..x.word-1 /\ Ahead(x, Window(x)!Later(w)) = w
<1>. DEFINE W == x.word
            H == x.word \div 2
<1>1. W \in Nat \ {0} /\ H \in Nat /\ W = 2 * H
  BY WordFacts
<1>2. pairingNow \in 0..W-1 /\ w \in 1..(H - 1)
  BY DEF Window!TypeOK
<1>. HIDE DEF W, H
<1>3. (pairingNow + w) % W = IF pairingNow + w >= W THEN pairingNow + w - W
                             ELSE pairingNow + w
  BY <1>1, <1>2, ClockFacts
<1>4. (pairingNow + w) % W \in 0..W-1
  BY <1>1, <1>2, <1>3
<1>5. (((pairingNow + w) % W) - pairingNow + W) % W =
         IF (pairingNow + w) % W >= pairingNow THEN ((pairingNow + w) % W) - pairingNow
         ELSE ((pairingNow + w) % W) - pairingNow + W
  BY <1>1, <1>2, <1>4, ClockFacts
<1>6. (((pairingNow + w) % W) - pairingNow + W) % W = w
  BY <1>1, <1>2, <1>3, <1>5
<1>. QED
  BY <1>4, <1>6 DEF Window!Later, Ahead, W

(* A millisecond later there is one less. *)
LEMMA TickFacts ==
    ASSUME NEW x, Window(x)!ConstantsAssumption, Window(x)!TypeOK,
           NEW s \in 0..x.word-1,
           NEW r \in 0..(x.word \div 2 - 1), AgreesWith(x, s, r), Window(x)!Millisecond
    PROVE  LET q == IF r > 0 THEN r - 1 ELSE 0
           IN  IF q > 0 THEN (s - pairingNow' + x.word) % x.word = q
               ELSE (pairingNow' - s + x.word) % x.word < stall'
<1>. DEFINE W == x.word
            H == x.word \div 2
            q == IF r > 0 THEN r - 1 ELSE 0
<1>1. W \in Nat \ {0} /\ H \in Nat /\ W = 2 * H /\ x.stall < H /\ x.stall \in Nat
  BY WordFacts
<1>2. pairingNow \in 0..W-1 /\ stall \in 0..x.stall /\ s \in 0..W-1 /\ r \in 0..H-1
  BY DEF Window!TypeOK
<1>3. pairingNow' = (pairingNow + 1) % W /\ stall' = stall + 1 /\ stall < x.stall
  BY DEF Window!Millisecond
<1>4. IF r > 0 THEN (s - pairingNow + W) % W = r
      ELSE (pairingNow - s + W) % W < stall
  BY DEF AgreesWith, Ahead, Behind
<1>. HIDE DEF W, H
<1>5. W > 1
  BY <1>1, <1>2, <1>3
<1>6. (pairingNow + 1) % W = IF pairingNow + 1 >= W THEN pairingNow + 1 - W
                             ELSE pairingNow + 1
  BY <1>1, <1>2, <1>5, ClockFacts
<1>7. pairingNow' \in 0..W-1
  BY <1>1, <1>2, <1>3, <1>6
<1>8. /\ (pairingNow - s + W) % W = IF pairingNow >= s THEN pairingNow - s
                                    ELSE pairingNow - s + W
      /\ (s - pairingNow + W) % W = IF s >= pairingNow THEN s - pairingNow
                                    ELSE s - pairingNow + W
      /\ (pairingNow' - s + W) % W = IF pairingNow' >= s THEN pairingNow' - s
                                     ELSE pairingNow' - s + W
      /\ (s - pairingNow' + W) % W = IF s >= pairingNow' THEN s - pairingNow'
                                     ELSE s - pairingNow' + W
  BY <1>1, <1>2, <1>7, ClockFacts
<1>9. IF q > 0 THEN (s - pairingNow' + W) % W = q
      ELSE (pairingNow' - s + W) % W < stall'
  <2>1. CASE r = 0
    BY <1>1, <1>2, <1>3, <1>4, <1>6, <1>8, <2>1
  <2>2. CASE r = 1
    BY <1>1, <1>2, <1>3, <1>4, <1>6, <1>8, <2>2
  <2>3. CASE r > 1
    BY <1>1, <1>2, <1>3, <1>4, <1>6, <1>8, <2>3
  <2>. QED
    BY <1>2, <2>1, <2>2, <2>3
<1>. QED
  BY <1>9 DEF W

LEMMA WindowInit ==
    ASSUME NEW x, Window(x)!ConstantsAssumption, Window(x)!Init
    PROVE  WindowInv(x)
BY WordFacts DEF Window!Init, WindowInv, Window!TypeOK, Window!Result

LEMMA WindowStart ==
    ASSUME NEW x, Window(x)!ConstantsAssumption, WindowInv(x),
           NEW w \in x.windows, Window(x)!PairStart(w)
    PROVE  WindowInv(x)' /\ Window(x)!TimeoutIsDue
<1>1. w \in 1..(x.word \div 2 - 1) /\ Window(x)!TypeOK
  BY WordFacts DEF WindowInv
<1>2. deadline' = Window(x)!Later(w) /\ left' = w
  BY DEF Window!PairStart
<1>3. Window(x)!Later(w) \in 0..x.word-1 /\ Ahead(x, Window(x)!Later(w)) = w
  BY <1>1, SetFacts
<1>4. pairingNow' = pairingNow /\ stall' = stall /\ confirming' = confirming
      /\ confirmDeadline' = confirmDeadline
  BY DEF Window!PairStart, Window!clock
<1>5. pair' \in {"off", "window", "confirm"} /\ pair' # "off"
      /\ result' \in Window(x)!Result /\ (pair' = "confirm" => pair = "confirm")
      /\ starts' \in 0..x.starts
  BY WordFacts DEF Window!PairStart, WindowInv, Window!TypeOK, Window!Result
<1>6. Window(x)!TypeOK' /\ left' < x.word \div 2
  BY <1>1, <1>2, <1>3, <1>4, <1>5, WordFacts DEF Window!TypeOK
<1>7. AgreesWith(x, deadline, left)'
  BY <1>1, <1>2, <1>3, <1>4 DEF AgreesWith, Ahead
<1>8. pair' = "confirm" => AgreesWith(x, confirmDeadline, x.confirm - confirming)'
  BY <1>4, <1>5 DEF WindowInv, AgreesWith, Ahead, Behind
<1>. QED
  BY <1>5, <1>6, <1>7, <1>8 DEF WindowInv, Window!TimeoutIsDue

LEMMA WindowCandidate ==
    ASSUME NEW x, Window(x)!ConstantsAssumption, WindowInv(x),
           Window(x)!Candidate
    PROVE  WindowInv(x)' /\ Window(x)!TimeoutIsDue
<1>1. x.confirm \in 1..(x.word \div 2 - 1) /\ Window(x)!TypeOK
  BY WordFacts DEF WindowInv
<1>2. Window(x)!Later(x.confirm) \in 0..x.word-1
        /\ Ahead(x, Window(x)!Later(x.confirm)) = x.confirm
  BY <1>1, SetFacts
<1>3. /\ confirmDeadline' = Window(x)!Later(x.confirm) /\ confirming' = 0
      /\ pair = "window" /\ pair' = "confirm" /\ result' = "confirming"
      /\ UNCHANGED <<pairingNow, stall, deadline, starts, left>>
  BY DEF Window!Candidate, Window!clock
<1>4. Window(x)!TypeOK' /\ left' < x.word \div 2
  BY <1>1, <1>2, <1>3 DEF Window!TypeOK, WindowInv, Window!Result
<1>5. AgreesWith(x, deadline, left)'
  BY <1>3 DEF WindowInv, AgreesWith, Ahead, Behind
<1>6. AgreesWith(x, confirmDeadline, x.confirm - confirming)'
  BY <1>1, <1>2, <1>3 DEF AgreesWith, Ahead
<1>. QED
  BY <1>3, <1>4, <1>5, <1>6 DEF WindowInv, Window!TimeoutIsDue

(* Nothing of the deadlines and the clock changes. *)
LEMMA WindowEvents ==
    ASSUME NEW x, Window(x)!ConstantsAssumption, WindowInv(x),
           Window(x)!PairStartFails \/ Window(x)!Refuse \/ Window(x)!Repeat \/ Window(x)!PairEnd
    PROVE  WindowInv(x)' /\ Window(x)!TimeoutIsDue
<1>1. /\ UNCHANGED <<pairingNow, stall, deadline, confirmDeadline, starts, left, confirming>>
      /\ pair' \in {"off", pair}
      /\ result' \in Window(x)!Result
  BY DEF Window!PairStartFails, Window!Refuse, Window!Repeat, Window!PairEnd,
     Window!Again, Window!clock, Window!Result, WindowInv, Window!TypeOK
<1>2. Window(x)!TypeOK'
  BY <1>1 DEF WindowInv, Window!TypeOK
<1>3. Window(x)!TimeoutIsDue
  BY DEF Window!PairStartFails, Window!Refuse, Window!Repeat, Window!PairEnd,
     Window!TimeoutIsDue
<1>. QED
  BY <1>1, <1>2, <1>3 DEF WindowInv, AgreesWith, Ahead, Behind

LEMMA WindowLoop ==
    ASSUME NEW x, Window(x)!ConstantsAssumption, WindowInv(x), Window(x)!Loop
    PROVE  WindowInv(x)' /\ Window(x)!TimeoutIsDue
<1>1. /\ Window(x)!TypeOK /\ left \in 0..(x.word \div 2 - 1)
      /\ x.confirm - confirming \in 0..(x.word \div 2 - 1)
      /\ deadline \in 0..x.word-1 /\ confirmDeadline \in 0..x.word-1
  BY WordFacts DEF WindowInv, Window!TypeOK
<1>2. pair # "off" => /\ AgreesWith(x, deadline, left)
                      /\ Window(x)!Reached(deadline) <=> left = 0
  BY <1>1, DeadlineFacts DEF WindowInv
<1>3. pair = "confirm" =>
         /\ AgreesWith(x, confirmDeadline, x.confirm - confirming)
         /\ Window(x)!Reached(confirmDeadline) <=> x.confirm - confirming = 0
  BY <1>1, DeadlineFacts DEF WindowInv
<1>4. stall' = 0
        /\ UNCHANGED <<pairingNow, deadline, confirmDeadline, starts, left, confirming>>
  BY DEF Window!Loop
<1>5. Window(x)!TypeOK' /\ left' < x.word \div 2
  BY <1>1, <1>4, WordFacts DEF Window!Loop, Window!TypeOK, Window!Result
<1>6. CASE Window(x)!Over
  <2>1. pair' = "off"
          /\ (left = 0 \/ (pair = "confirm" /\ x.confirm - confirming = 0))
    BY <1>2, <1>3, <1>6 DEF Window!Loop, Window!Over
  <2>2. Window(x)!TimeoutIsDue
    BY <1>1, <2>1, WordFacts DEF Window!TimeoutIsDue, Window!TypeOK
  <2>. QED
    BY <1>5, <2>1, <2>2 DEF WindowInv
<1>7. CASE ~Window(x)!Over
  <2>1. pair' = pair
    BY <1>7 DEF Window!Loop
  <2>2. pair # "off" => left > 0 /\ Ahead(x, deadline) = left
    BY <1>1, <1>2, <1>7 DEF Window!Over, Window!TypeOK, AgreesWith
  <2>3. pair = "confirm" => /\ x.confirm - confirming > 0
                            /\ Ahead(x, confirmDeadline) = x.confirm - confirming
    BY <1>1, <1>3, <1>7 DEF Window!Over, AgreesWith
  <2>4. pair' # "off" => AgreesWith(x, deadline, left)'
    BY <1>4, <2>1, <2>2 DEF AgreesWith, Ahead
  <2>5. pair' = "confirm" => AgreesWith(x, confirmDeadline, x.confirm - confirming)'
    BY <1>4, <2>1, <2>3 DEF AgreesWith, Ahead
  <2>. QED
    BY <1>5, <2>1, <2>4, <2>5 DEF WindowInv, Window!TimeoutIsDue
<1>. QED
  BY <1>6, <1>7

LEMMA WindowTick ==
    ASSUME NEW x, Window(x)!ConstantsAssumption, WindowInv(x),
           Window(x)!Millisecond
    PROVE  WindowInv(x)' /\ Window(x)!TimeoutIsDue
<1>1. /\ Window(x)!TypeOK /\ left \in 0..(x.word \div 2 - 1)
      /\ x.confirm - confirming \in 0..(x.word \div 2 - 1)
      /\ deadline \in 0..x.word-1 /\ confirmDeadline \in 0..x.word-1
      /\ confirming \in 0..x.confirm /\ x.confirm \in Nat
  BY WordFacts DEF WindowInv, Window!TypeOK
<1>2. /\ left' = IF left > 0 THEN left - 1 ELSE 0
      /\ confirming' = IF confirming < x.confirm THEN confirming + 1 ELSE confirming
      /\ UNCHANGED <<pair, deadline, confirmDeadline, result, starts>>
  BY DEF Window!Millisecond
<1>3. pairingNow' \in 0..x.word-1 /\ stall' \in 0..x.stall
  BY <1>1, WordFacts DEF Window!Millisecond, Window!TypeOK
<1>4. Window(x)!TypeOK' /\ left' < x.word \div 2
  BY <1>1, <1>2, <1>3, WordFacts DEF Window!TypeOK
<1>5. pair # "off" => AgreesWith(x, deadline, left)'
  <2>. SUFFICES ASSUME pair # "off" PROVE AgreesWith(x, deadline, left)'
    OBVIOUS
  <2>1. AgreesWith(x, deadline, left)
    BY DEF WindowInv
  <2>. QED
    BY <1>1, <1>2, <2>1, TickFacts DEF AgreesWith, Ahead, Behind
<1>6. pair = "confirm" => AgreesWith(x, confirmDeadline, x.confirm - confirming)'
  <2>. SUFFICES ASSUME pair = "confirm"
                PROVE  AgreesWith(x, confirmDeadline, x.confirm - confirming)'
    OBVIOUS
  <2>. DEFINE r == x.confirm - confirming
  <2>1. AgreesWith(x, confirmDeadline, r)
    BY DEF WindowInv
  <2>2. x.confirm - confirming' = IF r > 0 THEN r - 1 ELSE 0
    BY <1>1, <1>2
  <2>3. r \in 0..(x.word \div 2 - 1)
    BY <1>1
  <2>. HIDE DEF r
  <2>4. LET q == IF r > 0 THEN r - 1 ELSE 0
        IN  IF q > 0 THEN (confirmDeadline - pairingNow' + x.word) % x.word = q
            ELSE (pairingNow' - confirmDeadline + x.word) % x.word < stall'
    BY <1>1, <2>1, <2>3, TickFacts
  <2>. QED
    BY <1>2, <2>2, <2>4 DEF AgreesWith, Ahead, Behind
<1>. QED
  BY <1>2, <1>4, <1>5, <1>6 DEF WindowInv, Window!TimeoutIsDue

LEMMA WindowRest ==
    ASSUME NEW x, WindowInv(x), UNCHANGED Window(x)!vars
    PROVE  WindowInv(x)'
BY DEF WindowInv, Window!TypeOK, AgreesWith, Ahead, Behind, Window!vars,
   Window!clock

LEMMA WindowStep ==
    ASSUME NEW x, Window(x)!ConstantsAssumption, WindowInv(x), Window(x)!Next
    PROVE  WindowInv(x)' /\ Window(x)!TimeoutIsDue
BY WindowStart, WindowCandidate, WindowEvents, WindowLoop, WindowTick DEF
   Window!Next

LEMMA WindowTells ==
    ASSUME NEW x, Window(x)!ConstantsAssumption, WindowInv(x)
    PROVE  Window(x)!TypeOK /\ Window(x)!NoOverstay /\ Window(x)!CountdownIsTrue
<1>1. /\ Window(x)!TypeOK /\ left \in 0..(x.word \div 2 - 1)
      /\ x.confirm - confirming \in 0..(x.word \div 2 - 1)
      /\ deadline \in 0..x.word-1 /\ confirmDeadline \in 0..x.word-1
      /\ confirming \in 0..x.confirm /\ x.confirm \in Nat /\ stall \in Nat
  BY WordFacts DEF WindowInv, Window!TypeOK
<1>2. pair # "off" =>
        /\ left = 0 => stall > 0
        /\ left = (IF Ahead(x, deadline) >= x.word \div 2 THEN 0
                   ELSE Ahead(x, deadline))
  BY <1>1, DeadlineFacts DEF WindowInv
<1>3. pair = "confirm" => (x.confirm - confirming = 0 => stall > 0)
  BY <1>1, DeadlineFacts DEF WindowInv
<1>. QED
  BY <1>1, <1>2, <1>3 DEF Window!NoOverstay, Window!CountdownIsTrue,
     Window!SecondsLeft, Ahead

----------------------------------------------------------------------------
(* ... and for those of the controller. *)
WindowIsSound == scenario = "window" => WindowInv(WindowSize)

LEMMA WindowBegins == ControllerInit => WindowIsSound
BY WindowInit, InstancesAssumption DEF InstancesAssumption, ControllerInit,
   WindowIsSound

LEMMA WindowKept ==
    WindowIsSound /\ [ControllerNext]_controllerVars => WindowIsSound'
<1>. SUFFICES ASSUME WindowIsSound, [ControllerNext]_controllerVars,
                     scenario = "window"
              PROVE  WindowInv(WindowSize)'
  BY ScenarioStays DEF WindowIsSound
<1>1. WindowInv(WindowSize) /\ Window(WindowSize)!ConstantsAssumption
  BY InstancesAssumption DEF WindowIsSound, InstancesAssumption
<1>2. CASE ControllerNext
  BY <1>1, <1>2, WindowStep DEF ControllerNext
<1>3. CASE UNCHANGED controllerVars
  BY <1>1, <1>3, WindowRest DEF controllerVars, pairing, Window!vars,
     Window!clock
<1>. QED
  BY <1>2, <1>3

WindowHolds ==
    scenario = "window" =>
      /\ Window(WindowSize)!TypeOK
      /\ Window(WindowSize)!NoOverstay
      /\ Window(WindowSize)!CountdownIsTrue

LEMMA WindowStateFacts == WindowIsSound => WindowHolds
BY WindowTells, InstancesAssumption DEF InstancesAssumption, WindowIsSound,
   WindowHolds

LEMMA WindowStepFacts ==
    WindowIsSound /\ ControllerNext
            => (scenario = "window" => Window(WindowSize)!TimeoutIsDue)
BY WindowStep, InstancesAssumption DEF InstancesAssumption, WindowIsSound,
   ControllerNext

(* Pairing does not outstay its deadlines, a timeout is never early, and   *)
(* what Home Assistant counts down is what is left, across the wrap of the *)
(* clock (sl2_link_pair_start, on_pair_req, sl2_link_loop,                 *)
(* sl2_link_pair_seconds_left).                                            *)
THEOREM PairingStaysTimely == ControllerSpec => PairingIsTimely
<1>. DEFINE A ==
    scenario = "window" =>
            /\ Window(WindowSize)!TypeOK' /\ Window(WindowSize)!NoOverstay'
            /\ Window(WindowSize)!TimeoutIsDue
            /\ Window(WindowSize)!CountdownIsTrue'
            B == scenario = "window" => Window(WindowSize)!TimeoutIsDue
<1>1. ASSUME WindowHolds', B, ControllerNext PROVE A
  BY <1>1 DEF WindowHolds, ControllerNext
<1>2. WindowHolds' /\ B /\ ControllerNext => A
  BY <1>1
<1>3. WindowIsSound /\ ControllerNext => B
  BY WindowStepFacts
<1>. HIDE DEF A, B
<1>4. ControllerSpec => [][A]_controllerVars
  BY <1>2, <1>3, WindowBegins, WindowKept, WindowStateFacts, PTL
  DEF ControllerSpec
<1>. QED
  BY <1>4 DEF PairingIsTimely, A

----------------------------------------------------------------------------
(* The number of the capabilities, for words and bounds of any size. *)

(* While no number and no fingerprint was lost, each number was announced  *)
(* for one content: there are no more of them than changes of it, and one, *)
(* so they do not wrap, and a dial that has the newest has its content.    *)
NumbersCount(x) ==
    /\ fp = content => kvSeq <= changes + 1
    /\ fp # content => kvSeq <= changes

NoneReused(x) ==
    \A d \in One : /\ capsDial[d].seq <= kvSeq
                   /\ capsDial[d].seq = kvSeq => capsDial[d].content = fp

CapsInv(x) ==
    /\ Caps(x)!TypeOK
    /\ Caps(x)!IdentityIsDurable
    /\ ~lostSeq /\ ~lostFp =>
         NumbersCount(x) /\ NoneReused(x)
                 /\ (started => fp = content /\ capsSeq = kvSeq)

(* What a caps_seq becomes. *)
LEMMA BumpFacts ==
    ASSUME NEW x, Caps(x)!ConstantsAssumption, NEW old, NEW new,
           NEW n \in 0..x.word-1
    PROVE  /\ Caps(x)!Bumped(old, new, n) \in 0..x.word-1
           /\ old = new => Caps(x)!Bumped(old, new, n) = n
           /\ old # new /\ n + 1 < x.word => Caps(x)!Bumped(old, new, n) = n + 1
<1>1. (n + 1) % x.word \in 0..x.word-1
        /\ (n + 1 < x.word => (n + 1) % x.word = n + 1)
  BY DEF Caps!ConstantsAssumption
<1>. QED
  BY <1>1 DEF Caps!Bumped

LEMMA CapsInit ==
    ASSUME NEW x, Caps(x)!ConstantsAssumption, Caps(x)!Init
    PROVE  CapsInv(x)
<1>1. 0 \in 0..x.word-1 /\ 0 \in 0..x.contents /\ 0 \in 0..x.errors
  BY DEF Caps!ConstantsAssumption
<1>2. capsDial \in [One -> [seq : -1..x.word-1, content : Values \cup {none}]]
  <2>1. [seq |-> -1, content |-> none]
           \in [seq : -1..x.word-1, content : Values \cup {none}]
    BY <1>1 DEF Caps!ConstantsAssumption
  <2>. QED
    BY <2>1 DEF Caps!Init
<1>3. Caps(x)!TypeOK
  <2>1. id \in 0..nextId /\ kvId \in 0..nextId /\ nextId \in Nat
    BY DEF Caps!Init
  <2>2. /\ content \in Values /\ started \in BOOLEAN
        /\ fp \in Values \cup {none} /\ fpFlash \in Values \cup {none}
        /\ lostSeq \in BOOLEAN /\ lostId \in BOOLEAN /\ lostFp \in BOOLEAN
    BY DEF Caps!Init
  <2>. QED
    BY <1>1, <1>2, <2>1, <2>2 DEF Caps!Init, Caps!TypeOK
<1>4. NumbersCount(x) /\ NoneReused(x)
  BY DEF Caps!ConstantsAssumption, Caps!Init, NumbersCount, NoneReused
<1>. QED
  BY <1>3, <1>4 DEF Caps!Init, CapsInv, Caps!IdentityIsDurable

(* The identity that a start finds or makes is the stored one when it is   *)
(* used; one that is replaced could not be read.                           *)
LEMMA StartIdentityFacts ==
    ASSUME NEW x, CapsInv(x), NEW read \in BOOLEAN, NEW write \in BOOLEAN,
           Caps(x)!StartIdentity(read, write)
    PROVE  /\ id' \in 0..nextId' /\ kvId' \in 0..nextId' /\ nextId' \in Nat
           /\ lostId' \in BOOLEAN
           /\ Caps(x)!Found(read) \/ Caps(x)!StoresIdentity(write) => id' = kvId'
           /\ kvId # 0 /\ kvId' # kvId => lostId'
<1>1. nextId \in Nat /\ kvId \in 0..nextId /\ lostId \in BOOLEAN
  BY DEF CapsInv, Caps!TypeOK
<1>2. CASE Caps(x)!Found(read)
  BY <1>1, <1>2 DEF Caps!StartIdentity
<1>3. CASE ~Caps(x)!Found(read)
  <2>1. /\ nextId' = nextId + 1 /\ id' = nextId'
        /\ kvId' = IF write THEN id' ELSE kvId
        /\ lostId' = (lostId \/ ~read)
    BY <1>3 DEF Caps!StartIdentity
  <2>2. kvId # 0 => lostId'
    BY <1>3, <2>1 DEF Caps!Found
  <2>3. lostId' \in BOOLEAN
    BY <1>1, <2>1
  <2>. QED
    BY <1>1, <1>3, <2>1, <2>2, <2>3 DEF Caps!StoresIdentity
<1>. QED
  BY <1>2, <1>3

LEMMA CapsStart ==
    ASSUME NEW x, Caps(x)!ConstantsAssumption, CapsInv(x), Caps(x)!Start
    PROVE  CapsInv(x)' /\ Caps(x)!IdentityIsKept
<1>. PICK readId \in Caps(x)!Outcome, writeId \in Caps(x)!Outcome, readSeq \in Caps(x)!Outcome,
          writeSeq \in Caps(x)!Outcome :
       LET made == ~Caps(x)!Found(readId)
           loaded == IF readSeq THEN kvSeq ELSE 0
       IN  /\ Caps(x)!StartIdentity(readId, writeId)
           /\ errors' = Caps(x)!Count({readId, readSeq, writeSeq}
                              \cup IF made THEN {writeId} ELSE {})
           /\ IF made /\ ~Caps(x)!StoresIdentity(writeId)
              THEN UNCHANGED <<started, capsSeq, kvSeq, fp, lostSeq>>
              ELSE /\ started' = TRUE
                   /\ capsSeq' = Caps(x)!Bumped(fp, content, loaded)
                   /\ kvSeq' = IF capsSeq' # loaded /\ writeSeq THEN capsSeq'
                               ELSE kvSeq
                   /\ fp' = content
                   /\ lostSeq' = (lostSeq \/ ~readSeq \/ ~writeSeq)
  BY DEF Caps!Start
<1>. DEFINE loaded == IF readSeq THEN kvSeq ELSE 0
<1>1. /\ readId \in BOOLEAN /\ writeId \in BOOLEAN
      /\ readSeq \in BOOLEAN /\ writeSeq \in BOOLEAN
  BY DEF Caps!Outcome
<1>2. Caps(x)!StartIdentity(readId, writeId)
  OBVIOUS
<1>3. /\ id' \in 0..nextId' /\ kvId' \in 0..nextId' /\ nextId' \in Nat
      /\ lostId' \in BOOLEAN
      /\ Caps(x)!Found(readId) \/ Caps(x)!StoresIdentity(writeId) => id' = kvId'
      /\ kvId # 0 /\ kvId' # kvId => lostId'
  BY <1>1, <1>2, StartIdentityFacts
<1>4. ~started /\ UNCHANGED <<content, fpFlash, capsDial, changes, lostFp>>
  BY DEF Caps!Start
<1>5. errors' \in 0..x.errors
  <2>. DEFINE oks == {readId, readSeq, writeSeq}
                       \cup IF ~Caps(x)!Found(readId) THEN {writeId} ELSE {}
  <2>1. errors' = errors + (IF FALSE \in oks THEN 1 ELSE 0)
    BY DEF Caps!Count
  <2>2. FALSE \in oks => errors < x.errors
    BY DEF Caps!Outcome
  <2>. HIDE DEF oks
  <2>. QED
    <3>1. errors \in 0..x.errors /\ x.errors \in Nat
      BY DEF CapsInv, Caps!TypeOK, Caps!ConstantsAssumption
    <3>2. CASE FALSE \in oks
      BY <2>1, <2>2, <3>1, <3>2
    <3>3. CASE FALSE \notin oks
      BY <2>1, <3>1, <3>3
    <3>. QED
      BY <3>2, <3>3
<1>6. loaded \in 0..x.word-1 /\ (readSeq => loaded = kvSeq)
  BY DEF CapsInv, Caps!TypeOK, Caps!ConstantsAssumption
<1>. HIDE DEF loaded
<1>7. CASE ~Caps(x)!Found(readId) /\ ~Caps(x)!StoresIdentity(writeId)
  <2>1. UNCHANGED <<started, capsSeq, kvSeq, fp, lostSeq>>
    BY <1>7
  <2>. QED
    BY <1>3, <1>4, <1>5, <2>1
    DEF CapsInv, Caps!TypeOK, Caps!IdentityIsDurable, Caps!IdentityIsKept,
       NumbersCount, NoneReused
<1>8. CASE Caps(x)!Found(readId) \/ Caps(x)!StoresIdentity(writeId)
  <2>1. /\ started' = TRUE
        /\ capsSeq' = Caps(x)!Bumped(fp, content, loaded)
        /\ kvSeq' = IF capsSeq' # loaded /\ writeSeq THEN capsSeq' ELSE kvSeq
        /\ fp' = content
        /\ lostSeq' = (lostSeq \/ ~readSeq \/ ~writeSeq)
    BY <1>8 DEF loaded
  <2>2. /\ capsSeq' \in 0..x.word-1
        /\ fp = content => capsSeq' = loaded
        /\ fp # content /\ loaded + 1 < x.word => capsSeq' = loaded + 1
    BY <1>6, <2>1, BumpFacts
  <2>3. Caps(x)!TypeOK' /\ Caps(x)!IdentityIsDurable' /\ Caps(x)!IdentityIsKept
    BY <1>1, <1>3, <1>4, <1>5, <1>8, <2>1, <2>2
    DEF CapsInv, Caps!TypeOK, Caps!IdentityIsDurable, Caps!IdentityIsKept
  <2>4. ASSUME ~lostSeq', ~lostFp'
        PROVE  NumbersCount(x)' /\ NoneReused(x)'
                 /\ (started' => fp' = content' /\ capsSeq' = kvSeq')
    <3>1. ~lostSeq /\ ~lostFp /\ readSeq /\ writeSeq /\ loaded = kvSeq
      BY <1>4, <1>6, <2>1, <2>4 DEF CapsInv, Caps!TypeOK
    <3>2. NumbersCount(x) /\ NoneReused(x)
      BY <3>1 DEF CapsInv
    <3>3. kvSeq \in Nat /\ changes \in 0..x.contents
      BY DEF CapsInv, Caps!TypeOK, Caps!ConstantsAssumption
    <3>4. /\ kvSeq' = capsSeq'
          /\ fp = content => kvSeq' = kvSeq
          /\ fp # content => kvSeq' = kvSeq + 1
      BY <2>1, <2>2, <3>1, <3>2, <3>3 DEF NumbersCount,
         Caps!ConstantsAssumption
    <3>5. NumbersCount(x)'
      BY <1>4, <2>1, <3>2, <3>3, <3>4 DEF NumbersCount
    <3>6. NoneReused(x)'
      <4>1. \A d \in One : capsDial[d].seq \in Int
        BY DEF CapsInv, Caps!TypeOK, Caps!ConstantsAssumption
      <4>. QED
        BY <1>4, <2>1, <3>2, <3>3, <3>4, <4>1 DEF NoneReused
    <3>. QED
      BY <1>4, <2>1, <3>4, <3>5, <3>6
  <2>. QED
    BY <2>3, <2>4 DEF CapsInv
<1>. QED
  BY <1>7, <1>8

LEMMA CapsSaved == ASSUME NEW x, CapsInv(x), Caps(x)!Sync PROVE CapsInv(x)'
BY DEF CapsInv, Caps!Sync, Caps!TypeOK, Caps!IdentityIsDurable, NumbersCount,
   NoneReused, Caps!ram, Caps!hist

LEMMA CapsReboot ==
    ASSUME NEW x, Caps(x)!ConstantsAssumption, CapsInv(x), Caps(x)!Reboot
    PROVE  CapsInv(x)'
<1>1. Caps(x)!TypeOK' /\ Caps(x)!IdentityIsDurable'
  <2>1. lostFp' \in BOOLEAN
    BY DEF Caps!Reboot
  <2>2. changes' \in 0..x.contents
    BY DEF Caps!Reboot, CapsInv, Caps!TypeOK, Caps!ConstantsAssumption
  <2>3. content' \in Values /\ id' \in 0..nextId' /\ capsSeq' \in 0..x.word-1
    BY DEF Caps!Reboot, CapsInv, Caps!TypeOK, Caps!ConstantsAssumption
  <2>. QED
    BY <2>1, <2>2, <2>3 DEF CapsInv, Caps!Reboot, Caps!TypeOK,
       Caps!IdentityIsDurable
<1>2. ASSUME ~lostSeq', ~lostFp'
      PROVE  NumbersCount(x)' /\ NoneReused(x)'
               /\ (started' => fp' = content' /\ capsSeq' = kvSeq')
  <2>1. ~lostSeq /\ ~lostFp /\ fp' = fp /\ ~started'
    BY <1>2 DEF Caps!Reboot, CapsInv, Caps!TypeOK
  <2>2. NumbersCount(x) /\ NoneReused(x)
    BY <2>1 DEF CapsInv
  <2>3. kvSeq \in Nat /\ changes \in Nat
    BY DEF CapsInv, Caps!TypeOK, Caps!ConstantsAssumption
  <2>4. NumbersCount(x)'
    BY <2>1, <2>2, <2>3 DEF NumbersCount, Caps!Reboot
  <2>. QED
    BY <2>1, <2>2, <2>4 DEF NoneReused, Caps!Reboot
<1>. QED
  BY <1>1, <1>2 DEF CapsInv

(* What a dial caches, or no longer does. *)
LEMMA CapsDials ==
    ASSUME NEW x, Caps(x)!ConstantsAssumption, CapsInv(x), NEW d \in One,
           Caps(x)!Pull(d) \/ Caps(x)!DialRestart(d)
    PROVE  CapsInv(x)'
<1>1. UNCHANGED <<content, Caps(x)!ram, Caps(x)!kv, Caps(x)!hist>>
  BY DEF Caps!Pull, Caps!DialRestart
<1>2. PICK r \in [seq : -1..x.word-1, content : Values \cup {none}] :
         /\ capsDial' = [capsDial EXCEPT ![d] = r]
         /\ r.seq = -1 \/ (started /\ r = [seq |-> capsSeq, content |-> content])
  BY DEF Caps!Pull, Caps!DialRestart, CapsInv, Caps!TypeOK,
     Caps!ConstantsAssumption
<1>3. Caps(x)!TypeOK' /\ Caps(x)!IdentityIsDurable'
  BY <1>1, <1>2 DEF CapsInv, Caps!TypeOK, Caps!IdentityIsDurable, Caps!ram,
     Caps!kv, Caps!hist
<1>4. ASSUME ~lostSeq, ~lostFp, NoneReused(x),
             started => fp = content /\ capsSeq = kvSeq
      PROVE  NoneReused(x)'
  <2>1. kvSeq \in Nat /\ \A e \in One : capsDial'[e] = IF e = d THEN r
                                                       ELSE capsDial[e]
    BY <1>2 DEF CapsInv, Caps!TypeOK, Caps!ConstantsAssumption
  <2>2. r.seq <= kvSeq /\ (r.seq = kvSeq => r.content = fp)
    BY <1>2, <1>4, <2>1
  <2>. QED
    BY <1>1, <1>4, <2>1, <2>2 DEF NoneReused, Caps!kv
<1>. QED
  BY <1>1, <1>3, <1>4 DEF CapsInv, NumbersCount, Caps!ram, Caps!kv, Caps!hist

LEMMA CapsRest ==
    ASSUME NEW x, CapsInv(x), UNCHANGED Caps(x)!vars
    PROVE  CapsInv(x)'
BY DEF CapsInv, Caps!TypeOK, Caps!IdentityIsDurable, NumbersCount, NoneReused,
   Caps!vars, Caps!ram, Caps!kv, Caps!hist

LEMMA CapsNext ==
    ASSUME NEW x, Caps(x)!ConstantsAssumption, CapsInv(x),
           [Caps(x)!Next]_(Caps(x)!vars)
    PROVE  CapsInv(x)'
BY CapsStart, CapsSaved, CapsReboot, CapsDials, CapsRest DEF Caps!Next

(* Only a start stores an identity. *)
LEMMA CapsStep ==
    ASSUME NEW x, Caps(x)!ConstantsAssumption, CapsInv(x), Caps(x)!Next
    PROVE  Caps(x)!IdentityIsKept
<1>1. CASE Caps(x)!Start
  BY <1>1, CapsStart
<1>2. CASE ~Caps(x)!Start
  BY <1>2 DEF Caps!Next, Caps!Sync, Caps!Reboot, Caps!Pull, Caps!DialRestart,
     Caps!kv, Caps!IdentityIsKept
<1>. QED
  BY <1>1, <1>2

LEMMA CapsTell ==
    ASSUME NEW x, CapsInv(x)
    PROVE  Caps(x)!TypeOK /\ Caps(x)!IdentityIsDurable /\ Caps(x)!NumberNamesContent
BY DEF CapsInv, Caps!TypeOK, NoneReused, Caps!NumberNamesContent

----------------------------------------------------------------------------
(* ... and for those of the controller. *)
CapsIsSound == scenario = "caps" => CapsInv(CapsSize)

LEMMA CapsBegins == ControllerInit => CapsIsSound
BY CapsInit, InstancesAssumption DEF InstancesAssumption, ControllerInit,
   CapsIsSound

LEMMA CapsKept ==
    CapsIsSound /\ [ControllerNext]_controllerVars => CapsIsSound'
<1>. SUFFICES ASSUME CapsIsSound, [ControllerNext]_controllerVars,
                     scenario = "caps"
              PROVE  CapsInv(CapsSize)'
  BY ScenarioStays DEF CapsIsSound
<1>1. CapsInv(CapsSize) /\ Caps(CapsSize)!ConstantsAssumption
  BY InstancesAssumption DEF CapsIsSound, InstancesAssumption
<1>2. CASE ControllerNext
  BY <1>1, <1>2, CapsNext DEF ControllerNext
<1>3. CASE UNCHANGED controllerVars
  BY <1>1, <1>3, CapsRest DEF controllerVars, caps, Caps!vars, Caps!ram,
     Caps!kv, Caps!hist
<1>. QED
  BY <1>2, <1>3

CapsHolds ==
    scenario = "caps" =>
      /\ Caps(CapsSize)!TypeOK
      /\ Caps(CapsSize)!IdentityIsDurable
      /\ Caps(CapsSize)!NumberNamesContent

LEMMA CapsStateFacts == CapsIsSound => CapsHolds
BY CapsTell, InstancesAssumption DEF InstancesAssumption, CapsIsSound,
   CapsHolds

LEMMA CapsStepFacts ==
    CapsIsSound /\ ControllerNext
            => (scenario = "caps" => Caps(CapsSize)!IdentityIsKept)
BY CapsStep, InstancesAssumption DEF InstancesAssumption, CapsIsSound,
   ControllerNext

(* The identity in use is the one of the next boot, replaced only after it *)
(* could not be read, and a dial that caches the announced number has the  *)
(* announced capabilities (sl2_link_start, serve_pulls).                   *)
THEOREM NumbersOutliveBoots == ControllerSpec => NumbersSurviveBoots
<1>. DEFINE A ==
    scenario = "caps" =>
            /\ Caps(CapsSize)!TypeOK' /\ Caps(CapsSize)!IdentityIsDurable'
            /\ Caps(CapsSize)!IdentityIsKept
            /\ Caps(CapsSize)!NumberNamesContent'
            B == scenario = "caps" => Caps(CapsSize)!IdentityIsKept
<1>1. ASSUME CapsHolds', B, ControllerNext PROVE A
  BY <1>1 DEF CapsHolds, ControllerNext
<1>2. CapsHolds' /\ B /\ ControllerNext => A
  BY <1>1
<1>3. CapsIsSound /\ ControllerNext => B
  BY CapsStepFacts
<1>. HIDE DEF A, B
<1>4. ControllerSpec => [][A]_controllerVars
  BY <1>2, <1>3, CapsBegins, CapsKept, CapsStateFacts, PTL DEF ControllerSpec
<1>. QED
  BY <1>4 DEF NumbersSurviveBoots, A

----------------------------------------------------------------------------
(* Frames of any version and length. *)

FramesInv == TypeOK /\ OneUnit /\ ShownIsLatest /\ FitsRadio

FramesStep == NothingTorn /\ EchoWasWhole /\ OldDialsWork /\ ReportIsShown

(* The outcome of a guard: what it leaves is typed, and no mark is made by *)
(* a boot without an epoch.                                                *)
LEMMA EpochOkFacts ==
    ASSUME TypeOK, NEW e, NEW saved \in BOOLEAN
    PROVE  LET g == EpochOk(e, saved)
           IN  /\ g.ok \in BOOLEAN /\ g.latched \in BOOLEAN /\ g.seen \in BOOLEAN
               /\ g.seen => epoch # 0
               /\ ~latched /\ ~seen /\ e # epoch => g.ok
BY DEF EpochOk, TypeOK

LEMMA RefuseFacts ==
    ASSUME TypeOK
    PROVE  /\ Refuse.ok = FALSE /\ Refuse.latched \in BOOLEAN
           /\ Refuse.seen \in BOOLEAN
           /\ Accept.ok = TRUE /\ Accept.latched \in BOOLEAN
           /\ Accept.seen \in BOOLEAN
           /\ Refuse.seen => epoch # 0
           /\ Accept.seen => epoch # 0
BY DEF Refuse, Accept, TypeOK

(* A room frame that passes has a whole echo from version 5 on.            *)
LEMMA RoomEpochOkFacts ==
    ASSUME TypeOK, NEW ver \in Nat, NEW whole \in BOOLEAN, NEW e,
           NEW saved \in BOOLEAN
    PROVE  LET g == RoomEpochOk(ver, whole, e, saved)
           IN  /\ g.ok \in BOOLEAN /\ g.latched \in BOOLEAN /\ g.seen \in BOOLEAN
               /\ g.seen => epoch # 0
               /\ g.ok /\ ver >= 5 => whole /\ e = epoch /\ epoch # 0
               /\ ~latched /\ ~seen /\ epoch # 0 /\ ver < 5 => g.ok
<1>1. CASE epoch = 0 \/ (ver >= RoomEpochVer /\ (~whole \/ e = 0 \/ e # epoch))
  <2>1. RoomEpochOk(ver, whole, e, saved) = Refuse
    BY <1>1 DEF RoomEpochOk
  <2>2. Refuse.ok = FALSE /\ Refuse.latched \in BOOLEAN /\ Refuse.seen \in BOOLEAN
        /\ (Refuse.seen => epoch # 0)
    BY RefuseFacts
  <2>3. epoch # 0 => ~(ver < 5)
    BY <1>1 DEF RoomEpochVer
  <2>. QED
    BY <2>1, <2>2, <2>3
<1>2. CASE ~(epoch = 0 \/ (ver >= RoomEpochVer /\ (~whole \/ e = 0 \/ e # epoch)))
  <2>. DEFINE a == IF ver >= RoomEpochVer /\ whole THEN e ELSE 0
  <2>1. RoomEpochOk(ver, whole, e, saved) = EpochOk(a, saved)
    BY <1>2 DEF RoomEpochOk
  <2>2. ver < 5 => a # epoch
    BY <1>2 DEF RoomEpochVer
  <2>. HIDE DEF a
  <2>. QED
    BY <1>2, <2>1, <2>2, EpochOkFacts DEF RoomEpochVer
<1>. QED
  BY <1>1, <1>2

LEMMA WifiEpochOkFacts ==
    ASSUME TypeOK, NEW e, NEW saved \in BOOLEAN
    PROVE  LET g == WifiEpochOk(e, saved)
           IN  /\ g.ok \in BOOLEAN /\ g.latched \in BOOLEAN /\ g.seen \in BOOLEAN
               /\ g.seen => epoch # 0
BY EpochOkFacts, RefuseFacts DEF WifiEpochOk

(* What the sizes are. *)
LEMMA SizeFacts ==
    /\ MinLen.probe = 3 /\ MinLen.cmd = 19 /\ MinLen.sensor = 7 /\ MinLen.creds = 4
    /\ MinLen.setup = 4 /\ MinLen.cancel = 8 /\ MinLen.dialinfo = 3
    /\ MinLen.catalog = 8 /\ MinLen.set = 16
    /\ Size(StateL) = 26 /\ Size(PairL) = 137 /\ Size(CapsL) = 68
    /\ Size(EntryL) = 34 /\ Size(CatRespH) = 12 /\ Size(AckL) = 20
    /\ Size(CredL) = 103 /\ Size(CancelAckL) = 7 /\ Size(SessionL) = 8
<1>. USE LayoutAssumption DEF SizesAsGuarded
<1>1. MinLen = [probe |-> 3, cmd |-> 19, sensor |-> 7, creds |-> 4, setup |-> 4,
                 cancel |-> 8, dialinfo |-> 3, catalog |-> 8, set |-> 16]
  OBVIOUS
<1>2. <<Size(StateL), Size(CmdL), Size(ProbeL), Size(PairL), Size(CapsL)>> = <<26, 19, 4, 137, 68>>
  OBVIOUS
<1>3. <<Size(CredReqL), Size(CredL), Size(SessionL), Size(CancelAckL)>> = <<4, 103, 8, 7>>
  OBVIOUS
<1>4. <<Size(DialL), Size(SensorL), Size(SetL), Size(AckL)>> = <<43, 11, 18, 20>>
  OBVIOUS
<1>5. Size(EntryL) = 34 /\ Size(CatRespH) = 12
  OBVIOUS
<1>. HIDE LayoutAssumption DEF SizesAsGuarded
<1>. QED
  BY <1>1, <1>2, <1>3, <1>4, <1>5

LEMMA TypeNames ==
    DOMAIN Layout = {"probe", "cmd", "sensor", "creds", "setup", "cancel", "dialinfo",
                     "catalog", "set"}
BY DEF Layout

(* What the assumption says of a frame, of the radio and of no epoch. *)
LEMMA FrameFacts ==
    ASSUME ConstantsAssumption
    PROVE  /\ \A f \in Frames : /\ f.type \in DOMAIN Layout /\ f.len \in Nat
                                 /\ f.ver \in Nat /\ f.echo \in Nat
                                 /\ f.echo \in Epoch
           /\ MTU \in Nat /\ MTU >= 250 /\ 0 \in Epoch
BY DEF ConstantsAssumption

LEMMA GuardFacts ==
    ASSUME ConstantsAssumption, TypeOK, NEW f \in Frames, NEW saved \in BOOLEAN
    PROVE  LET g == IF Admits(f) THEN GuardOf(f, saved) ELSE Refuse
           IN  /\ g.ok \in BOOLEAN /\ g.latched \in BOOLEAN /\ g.seen \in BOOLEAN
               /\ g.seen => epoch # 0
               /\ g.ok => Admits(f)
               /\ g.ok /\ f.type \in {"sensor", "set"} /\ f.ver >= 5 =>
                    Whole(f, "epoch") /\ f.echo = epoch /\ epoch # 0
               /\ epoch # 0 /\ ~latched /\ ~seen /\ Released(f) => g.ok
<1>. DEFINE g == IF Admits(f) THEN GuardOf(f, saved) ELSE Refuse
<1>1. f.type \in DOMAIN Layout /\ f.len \in Nat /\ f.ver \in Nat /\ f.echo \in Nat
  BY FrameFacts
<1>2. Released(f) => Admits(f)
  BY <1>1, SizeFacts, TypeNames
  DEF Released, Admits, MinCompat, SensorVer, CatalogVer
<1>3. CASE ~Admits(f)
  BY <1>2, <1>3, RefuseFacts
<1>4. CASE Admits(f)
  <2>. SUFFICES /\ GuardOf(f, saved).ok \in BOOLEAN
                  /\ GuardOf(f, saved).latched \in BOOLEAN
                /\ GuardOf(f, saved).seen \in BOOLEAN
                /\ GuardOf(f, saved).seen => epoch # 0
                /\ GuardOf(f, saved).ok /\ f.type \in {"sensor", "set"}
                   /\ f.ver >= 5 =>
                     Whole(f, "epoch") /\ f.echo = epoch /\ epoch # 0
                /\ epoch # 0 /\ ~latched /\ ~seen /\ Released(f)
                   => GuardOf(f, saved).ok
    BY <1>4
  <2>1. CASE f.type \in {"sensor", "set"}
    <3>1. GuardOf(f, saved) = RoomEpochOk(f.ver, Whole(f, "epoch"), Decoded(f), saved)
      BY <2>1 DEF GuardOf
    <3>2. Whole(f, "epoch") => Decoded(f) = f.echo
      BY DEF Decoded
    <3>3. Whole(f, "epoch") \in BOOLEAN
      BY DEF Whole
    <3>4. Released(f) => f.ver < 5
      BY <1>1, <2>1 DEF Released
    <3>. QED
      BY <1>1, <3>1, <3>2, <3>3, <3>4, RoomEpochOkFacts
  <2>2. CASE f.type = "cmd" \/ (f.type = "setup" /\ f.len = MinLen.setup)
    <3>1. GuardOf(f, saved) = EpochOk(Decoded(f), saved)
      BY <2>2 DEF GuardOf
    <3>2. Released(f) => Decoded(f) = 0
      <4>1. Released(f) => f.echo = 0
        BY <2>2 DEF Released
      <4>2. 0 % 256 = 0
        OBVIOUS
      <4>. QED
        BY <4>1, <4>2 DEF Decoded
    <3>. QED
      BY <2>2, <3>1, <3>2, EpochOkFacts
  <2>3. CASE (f.type = "setup" /\ f.len # MinLen.setup) \/ f.type = "cancel"
    <3>1. GuardOf(f, saved) = WifiEpochOk(Decoded(f), saved)
      BY <2>3 DEF GuardOf
    <3>2. ~Released(f)
      BY <2>3, SizeFacts DEF Released
    <3>. QED
      BY <2>3, <3>1, <3>2, WifiEpochOkFacts
  <2>4. CASE f.type \notin {"sensor", "set", "cmd", "setup", "cancel"}
    <3>1. GuardOf(f, saved) = Accept
      BY <2>4 DEF GuardOf
    <3>. QED
      BY <2>4, <3>1, RefuseFacts
  <2>. QED
    BY <2>1, <2>2, <2>3, <2>4
<1>. QED
  BY <1>3, <1>4

(* What is read of a frame that is admitted is in it whole, but for texts. *)
LEMMA ReadsWhole ==
    ASSUME ConstantsAssumption, NEW f \in Frames, Admits(f),
           NEW n \in Reads(f) \ Texts
    PROVE  Whole(f, n)
<1>1. f.type \in DOMAIN Layout /\ f.len \in Nat
  BY FrameFacts
<1>2. n \in Required[f.type] => Extent[f.type][n].end \in 0..MinLen[f.type]
  BY <1>1, LayoutAssumption DEF FieldsAsRequired
<1>3. n \in Required[f.type] /\ f.len >= MinLen[f.type]
        /\ MinLen[f.type] \in Nat => Whole(f, n)
  BY <1>1, <1>2 DEF Whole
<1>4. MinLen[f.type] \in Nat
  BY <1>1, SizeFacts, TypeNames
<1>5. CASE f.type = "setup"
  <2>1. n = "session" /\ f.len >= Size(SessionL)
    BY <1>5 DEF Reads, Admits
  <2>2. Extent["setup"]["session"].end \in 0..Size(SessionL)
    BY LayoutAssumption DEF FieldsAsRequired
  <2>. QED
    BY <1>1, <1>5, <2>1, <2>2, SizeFacts DEF Whole
<1>6. CASE f.type = "sensor"
  <2>1. n \in Required["sensor"] \/ (n = "want_src" /\ IsEdit(f))
    BY <1>6 DEF Reads
  <2>2. f.len >= MinLen["sensor"]
    BY <1>6 DEF Admits
  <2>. QED
    BY <1>3, <1>4, <1>6, <2>1, <2>2 DEF IsEdit
<1>7. CASE f.type \notin {"setup", "sensor"}
  <2>1. n \in Required[f.type] /\ f.len >= MinLen[f.type]
    BY <1>7 DEF Reads, Admits
  <2>. QED
    BY <1>3, <1>4, <2>1
<1>. QED
  BY <1>5, <1>6, <1>7

LEMMA ReportsSay ==
    ASSUME ConstantsAssumption, NEW f \in Frames, f.type = "dialinfo"
    PROVE  f.says # "nothing"
BY DEF ConstantsAssumption

LEMMA NotIsFalse == \A p : ~p /\ p \in BOOLEAN => p = FALSE
BY Zenon

(* What is kept of the texts of a report: theirs, or nothing.              *)
LEMMA TextFacts ==
    ASSUME ConstantsAssumption, NEW f \in Frames, f.type = "dialinfo",
           NEW model, model = Text(f, "model"), NEW fw, fw = Text(f, "fw")
    PROVE  /\ model # NoText => model.of = f.says
           /\ fw # NoText => fw.of = f.says
           /\ fw # NoText => model # NoText /\ model.cut = FALSE
           /\ f.len >= Size(DialL) => /\ model = [of |-> f.says, cut |-> FALSE]
                                      /\ fw = [of |-> f.says, cut |-> FALSE]
<1>1. f.len \in Nat /\ f.says # "nothing"
  BY FrameFacts, ReportsSay
<1>2. Size(DialL) = 43
  BY LayoutAssumption DEF SizesAsGuarded
<1>3. /\ Extent.dialinfo["model"].start = 3 /\ Extent.dialinfo["model"].end = 27
      /\ Extent.dialinfo["fw"].start = 27 /\ Extent.dialinfo["fw"].end = 43
  BY <1>2, LayoutAssumption DEF FieldsAsRequired
<1>4. /\ model = IF f.len <= 3 THEN NoText ELSE [of |-> f.says, cut |-> f.len < 26]
      /\ fw = IF f.len <= 27 THEN NoText ELSE [of |-> f.says, cut |-> f.len < 42]
  <2>1. 27 - 1 = 26 /\ 43 - 1 = 42
    OBVIOUS
  <2>2. /\ model = IF f.len <= 3 THEN NoText ELSE [of |-> f.says, cut |-> f.len < 27 - 1]
        /\ fw = IF f.len <= 27 THEN NoText ELSE [of |-> f.says, cut |-> f.len < 43 - 1]
    BY <1>3, Zenon DEF Text
  <2>. QED
    BY <2>1, <2>2
<1>5. CASE f.len <= 27
  <2>1. fw = NoText
    BY <1>4, <1>5
  <2>2. model # NoText => model.of = f.says
    BY <1>4
  <2>. QED
    BY <1>1, <1>2, <1>5, <2>1, <2>2
<1>6. CASE f.len > 27
  <2>1. ~(f.len <= 27) /\ ~(f.len <= 3) /\ ~(f.len < 26)
    BY <1>1, <1>6
  <2>2. model = [of |-> f.says, cut |-> FALSE]
    <3>1. (f.len < 26) = FALSE
      BY <2>1, NotIsFalse
    <3>2. model = [of |-> f.says, cut |-> f.len < 26]
      BY <1>4, <2>1, Zenon
    <3>. QED
      BY <3>1, <3>2, Zenon
  <2>3. fw.of = f.says
    BY <1>4, <2>1
  <2>4. model # NoText
    BY <1>1, <2>2 DEF NoText
  <2>5. f.len >= 43 => fw = [of |-> f.says, cut |-> FALSE]
    <3>1. f.len >= 43 => ~(f.len < 42)
      BY <1>1
    <3>2. f.len >= 43 => (f.len < 42) = FALSE
      BY <3>1, NotIsFalse
    <3>3. fw = [of |-> f.says, cut |-> f.len < 42]
      BY <1>4, <2>1, Zenon
    <3>. QED
      BY <3>2, <3>3, Zenon
  <2>. QED
    BY <1>2, <2>2, <2>3, <2>4, <2>5
<1>7. f.len <= 27 \/ f.len > 27
  BY <1>1
<1>. QED
  BY <1>5, <1>6, <1>7, Zenon

LEMMA NothingFacts ==
    ASSUME ConstantsAssumption
    PROVE  /\ Nothing.step = "idle" /\ Nothing.frame = Blank
           /\ Nothing.acted = FALSE
           /\ Nothing.reads = {} /\ Nothing.sent = 0
           /\ Blank.type \in DOMAIN Layout /\ Blank.echo \in Epoch
           /\ NoInfo.have = FALSE /\ NoInfo.model = NoText /\ NoInfo.fw = NoText
BY TypeNames, FrameFacts DEF Nothing, Blank, NoInfo

(* A boot shows nothing yet. *)
LEMMA NoInfoShown ==
    ASSUME ConstantsAssumption, info = NoInfo, said = "nothing"
    PROVE  info.have \in BOOLEAN /\ ShownIsLatest
<1>1. info.have = FALSE /\ info["model"] = NoText /\ info["fw"] = NoText
      /\ info.model = NoText /\ info.fw = NoText
  BY NothingFacts DEF NoInfo
<1>. QED
  BY <1>1, Zenon DEF ShownIsLatest, Texts

LEMMA FramesInit == ASSUME ConstantsAssumption, Init PROVE FramesInv
<1>0. out = Nothing /\ units = "none" /\ latched = FALSE /\ seen = FALSE
        /\ epoch \in Epoch /\ info = NoInfo /\ said = "nothing"
  BY DEF Init
<1>3. info.have \in BOOLEAN /\ ShownIsLatest
  BY <1>0, NoInfoShown
<1>1. TypeOK
  <2>1. out.frame = Blank /\ out.acted = FALSE /\ out.sent = 0
    BY <1>0, NothingFacts
  <2>2. out.frame.type \in DOMAIN Layout /\ out.frame.echo \in Epoch
    BY <2>1, NothingFacts
  <2>3. out.acted \in BOOLEAN
    BY <2>1, Zenon
  <2>6. out.sent \in Nat
    BY <2>1
  <2>4. latched \in BOOLEAN /\ seen \in BOOLEAN
          /\ units \in {"none", "centi", "deci"}
    BY <1>0
  <2>5. seen => epoch # 0
    BY <1>0
  <2>. QED
    BY <1>0, <1>3, <2>2, <2>3, <2>4, <2>5, <2>6, Zenon DEF TypeOK
<1>2. FitsRadio
  BY <1>0, NothingFacts, FrameFacts DEF FitsRadio
<1>. QED
  BY <1>0, <1>1, <1>2, <1>3 DEF FramesInv, OneUnit

LEMMA FramesReceive ==
    ASSUME ConstantsAssumption, FramesInv, NEW f \in Frames,
           NEW saved \in BOOLEAN,
           Receive(f, saved)
    PROVE  FramesInv' /\ FramesStep
<1>. DEFINE g == IF Admits(f) THEN GuardOf(f, saved) ELSE Refuse
<1>1. /\ latched' = g.latched /\ seen' = g.seen /\ epoch' = epoch
      /\ units' = IF g.ok /\ f.type = "sensor"
                  THEN IF f.ver < 3 THEN "deci" ELSE "centi" ELSE units
      /\ out' = [step |-> "receive", frame |-> f, acted |-> g.ok,
                 reads |-> IF g.ok THEN Reads(f) ELSE {}, sent |-> 0]
      /\ g.ok /\ f.type = "dialinfo" =>
           /\ info' = [have |-> TRUE, model |-> Text(f, "model"), fw |-> Text(f, "fw")]
           /\ said' = f.says
      /\ ~(g.ok /\ f.type = "dialinfo") => info' = info /\ said' = said
  BY DEF Receive
<1>2. TypeOK /\ OneUnit /\ ShownIsLatest
  BY DEF FramesInv
<1>3. f.type \in DOMAIN Layout /\ f.echo \in Epoch /\ f.ver \in Nat
  BY FrameFacts
<1>4. /\ g.ok \in BOOLEAN /\ g.latched \in BOOLEAN /\ g.seen \in BOOLEAN
      /\ g.seen => epoch # 0
      /\ g.ok => Admits(f)
      /\ g.ok /\ f.type \in {"sensor", "set"} /\ f.ver >= 5 =>
           Whole(f, "epoch") /\ f.echo = epoch /\ epoch # 0
      /\ epoch # 0 /\ ~latched /\ ~seen /\ Released(f) => g.ok
  BY <1>2, GuardFacts
<1>. HIDE DEF g
<1>5. /\ out'.step = "receive" /\ out'.frame = f /\ out'.acted = g.ok
      /\ out'.sent = 0
      /\ out'.reads = IF g.ok THEN Reads(f) ELSE {}
  BY <1>1
<1>6. g.ok /\ f.type = "sensor" => f.ver >= 3
  BY <1>3, <1>4 DEF Admits, SensorVer
<1>11. info'.have \in BOOLEAN /\ ShownIsLatest' /\ ReportIsShown
  <2>1. CASE ~(g.ok /\ f.type = "dialinfo")
    <3>1. info' = info /\ said' = said
      BY <1>1, <2>1
    <3>2. info'.have \in BOOLEAN
      BY <1>2, <3>1 DEF TypeOK
    <3>3. ShownIsLatest'
      BY <1>2, <3>1 DEF ShownIsLatest
    <3>4. ReportIsShown
      BY <1>5, <2>1 DEF ReportIsShown
    <3>. QED
      BY <3>2, <3>3, <3>4
  <2>2. CASE g.ok /\ f.type = "dialinfo"
    <3>. DEFINE model == Text(f, "model")
                fw    == Text(f, "fw")
    <3>1. /\ info' = [have |-> TRUE, model |-> model, fw |-> fw]
          /\ said' = f.says
      BY <1>1, <2>2
    <3>2. /\ model # NoText => model.of = f.says
          /\ fw # NoText => fw.of = f.says
          /\ fw # NoText => model # NoText /\ model.cut = FALSE
          /\ f.len >= Size(DialL) => /\ model = [of |-> f.says, cut |-> FALSE]
                                     /\ fw = [of |-> f.says, cut |-> FALSE]
      BY <2>2, TextFacts
    <3>3. f.says # "nothing"
      BY <2>2, ReportsSay
    <3>. HIDE DEF model, fw
    <3>4. /\ info'.have = TRUE /\ info'.model = model /\ info'.fw = fw
          /\ info'["model"] = model /\ info'["fw"] = fw
      BY <3>1
    <3>5. info'.have \in BOOLEAN
      BY <3>4, Zenon
    <3>6. ShownIsLatest'
      <4>1. info'.have <=> said' # "nothing"
        BY <3>1, <3>3, <3>4, Zenon
      <4>2. \A n \in Texts : info'[n] # NoText => info'[n].of = said'
        BY <3>1, <3>2, <3>4, Zenon DEF Texts
      <4>3. info'.fw # NoText => info'.model # NoText /\ ~info'.model.cut
        BY <3>2, <3>4, Zenon
      <4>. QED
        BY <4>1, <4>2, <4>3, Zenon DEF ShownIsLatest
    <3>7. ReportIsShown
      <4>1. f.len >= Size(DialL) =>
               \A n \in Texts : info'[n] = [of |-> f.says, cut |-> FALSE]
        BY <3>2, <3>4, Zenon DEF Texts
      <4>2. out'.frame.len = f.len /\ out'.frame.says = f.says
        BY <1>5, Zenon
      <4>. QED
        BY <3>4, <4>1, <4>2, Zenon DEF ReportIsShown
    <3>. QED
      BY <3>5, <3>6, <3>7
  <2>. QED
    BY <2>1, <2>2
<1>7. TypeOK' /\ OneUnit'
  BY <1>1, <1>2, <1>3, <1>4, <1>5, <1>6, <1>11 DEF TypeOK, OneUnit
<1>8. FitsRadio'
  BY <1>5, FrameFacts DEF FitsRadio
<1>9. NothingTorn
  BY <1>4, <1>5, ReadsWhole DEF NothingTorn
<1>10. EchoWasWhole /\ OldDialsWork
  BY <1>4, <1>5 DEF EchoWasWhole, OldDialsWork
<1>. QED
  BY <1>7, <1>8, <1>9, <1>10, <1>11 DEF FramesInv, FramesStep

(* A full page is the longest of what is sent.                             *)
LEMMA SendFits ==
    ASSUME NEW n \in 0..PageMax, NEW t \in DOMAIN SendLen(n)
    PROVE  SendLen(n)[t] \in 0..250
<1>. DEFINE m == Size(CatRespH) + n * Size(EntryL)
<1>1. n * 34 \in 0..238
  BY DEF PageMax
<1>2. m = 12 + n * 34
  BY SizeFacts
<1>3. m \in 0..250
  BY <1>1, <1>2
<1>. HIDE DEF m
<1>4. SendLen(n) = [state |-> 26, pair |-> 137, caps |-> 68, catalog |-> m, ack |-> 20,
                    creds |-> 103, cancelled |-> 7]
  BY SizeFacts DEF SendLen, m
<1>. QED
  BY <1>3, <1>4

LEMMA FramesSend ==
    ASSUME ConstantsAssumption, FramesInv, Send \/ Reboot \/ Return
    PROVE  FramesInv' /\ FramesStep
<1>1. TypeOK /\ OneUnit /\ ShownIsLatest
  BY DEF FramesInv
<1>7. info'.have \in BOOLEAN /\ ShownIsLatest'
  <2>1. CASE Send \/ Return
    <3>1. info' = info /\ said' = said
      BY <2>1 DEF Send, Return
    <3>. QED
      BY <1>1, <3>1 DEF TypeOK, ShownIsLatest
  <2>2. CASE Reboot
    <3>1. info' = NoInfo /\ said' = "nothing"
      BY <2>2 DEF Reboot
    <3>2. info'.have = FALSE /\ info'["model"] = NoText /\ info'["fw"] = NoText
          /\ info'.model = NoText /\ info'.fw = NoText
      BY <3>1, NothingFacts DEF NoInfo
    <3>. QED
      BY <3>1, <3>2, Zenon DEF ShownIsLatest, Texts
  <2>. QED
    BY <2>1, <2>2
<1>2. /\ epoch' \in Epoch /\ latched' = latched /\ units' = units
      /\ seen' \in BOOLEAN /\ (seen' => epoch' # 0)
  <2>1. CASE Send \/ Return
    <3>1. UNCHANGED <<epoch, latched, seen, units>>
      BY <2>1, Zenon DEF Send, Return
    <3>2. epoch' = epoch /\ seen' = seen /\ latched' = latched /\ units' = units
      BY <3>1
    <3>. QED
      BY <1>1, <3>2, Zenon DEF TypeOK
  <2>2. CASE Reboot
    <3>1. epoch' \in Epoch /\ seen' = FALSE /\ latched' = latched /\ units' = units
      BY <2>2 DEF Reboot
    <3>2. seen' \in BOOLEAN
      BY <3>1, Zenon
    <3>3. seen' => epoch' # 0
      BY <3>1
    <3>. QED
      BY <3>1, <3>2, <3>3, Zenon
  <2>. QED
    BY <2>1, <2>2
<1>3. /\ out'.frame = Blank /\ out'.acted = FALSE /\ out'.reads = {}
      /\ out'.step # "receive" /\ out'.sent \in 0..250
  <2>1. CASE Send
    <3>1. PICK n \in 0..PageMax : \E t \in DOMAIN SendLen(n) :
            out' = [Nothing EXCEPT !.step = "send", !.sent = SendLen(n)[t]]
      BY <2>1, Zenon DEF Send
    <3>2. PICK t \in DOMAIN SendLen(n) :
            out' = [Nothing EXCEPT !.step = "send", !.sent = SendLen(n)[t]]
      BY <3>1, Zenon
    <3>3. SendLen(n)[t] \in 0..250
      BY SendFits
    <3>. QED
      BY <3>2, <3>3 DEF Nothing
  <2>2. CASE Reboot \/ Return
    <3>1. out' = Nothing
      BY <2>2 DEF Reboot, Return
    <3>2. 0 \in 0..250 /\ "idle" # "receive"
      OBVIOUS
    <3>. QED
      BY <3>1, <3>2, NothingFacts, Zenon
  <2>. QED
    BY <2>1, <2>2
<1>4. out'.frame.type \in DOMAIN Layout /\ out'.frame.echo \in Epoch
  BY <1>3, NothingFacts
<1>5. TypeOK'
  <2>1. out'.acted \in BOOLEAN
    BY <1>3, Zenon
  <2>2. out'.sent \in Nat
    BY <1>3
  <2>. QED
    BY <1>1, <1>2, <1>4, <1>7, <2>1, <2>2, Zenon DEF TypeOK
<1>6. OneUnit' /\ FitsRadio'
  BY <1>1, <1>2, <1>3, FrameFacts DEF OneUnit, FitsRadio
<1>. QED
  BY <1>3, <1>5, <1>6, <1>7 DEF FramesInv, FramesStep, NothingTorn, EchoWasWhole,
     OldDialsWork, ReportIsShown

LEMMA FramesRest == ASSUME FramesInv, UNCHANGED vars PROVE FramesInv'
BY DEF FramesInv, TypeOK, OneUnit, ShownIsLatest, FitsRadio, vars

LEMMA FramesNext ==
    ASSUME ConstantsAssumption, FramesInv, Next
    PROVE  FramesInv' /\ FramesStep
BY FramesReceive, FramesSend DEF Next

----------------------------------------------------------------------------
(* ... as the controller receives them. *)
FramesAreSound == scenario = "frames" => FramesInv

LEMMA FramesBegin == ControllerInit => FramesAreSound
BY FramesInit, FramesAssumption DEF ControllerInit, FramesAreSound

LEMMA FramesKept ==
    FramesAreSound /\ [ControllerNext]_controllerVars => FramesAreSound'
<1>. SUFFICES ASSUME FramesAreSound, [ControllerNext]_controllerVars,
                     scenario = "frames"
              PROVE  FramesInv'
  BY ScenarioStays DEF FramesAreSound
<1>1. FramesInv
  BY DEF FramesAreSound
<1>2. CASE ControllerNext
  BY <1>1, <1>2, FramesNext, FramesAssumption DEF ControllerNext
<1>3. CASE UNCHANGED controllerVars
  BY <1>1, <1>3, FramesRest DEF controllerVars
<1>. QED
  BY <1>2, <1>3

(* No frame is acted on for a field it does not hold whole, nor without    *)
(* the echo its version owes; a report of any length is shown as its own   *)
(* and never mixed with an earlier one's texts; dials of every released    *)
(* version keep working, in one unit; what is sent fits the radio          *)
(* (sl2_link_on_recv, epoch_ok, room_epoch_ok, serve_pulls).               *)
THEOREM FramesStayWhole == ControllerSpec => FramesAreReadWhole
<1>. DEFINE A ==
    /\ scenario = "frames" =>
            /\ TypeOK' /\ NothingTorn /\ EchoWasWhole /\ OldDialsWork
            /\ OneUnit' /\ ShownIsLatest' /\ ReportIsShown /\ FitsRadio'
            B == scenario = "frames" => FramesInv' /\ FramesStep
<1>1. FramesAreSound /\ ControllerNext => B
  BY FramesNext, FramesAssumption DEF FramesAreSound, ControllerNext
<1>2. B => A
  BY DEF FramesInv, FramesStep
<1>. HIDE DEF A, B
<1>3. ControllerSpec => [][A]_controllerVars
  BY <1>1, <1>2, FramesBegin, FramesKept, PTL DEF ControllerSpec
<1>. QED
  BY <1>3 DEF FramesAreReadWhole, A
=============================================================================
