--------------------------- MODULE Adapter_proofs ---------------------------
(***************************************************************************)
(* Theorems about the services of the ESPHome adapter.  A behaviour is one *)
(* of the service that runs, so each service has an inductive invariant of *)
(* its own, which holds in its scenario whatever the constants are.        *)
(***************************************************************************)
EXTENDS Adapter, FiniteSetTheorems, SequenceTheorems, TLAPS

(* A table of bonds as it is when the one at k is forgotten.               *)
HoleClosed(s, k) == SubSeq(s, 1, k - 1) \o SubSeq(s, k + 1, Len(s))

LEMMA HoleFacts ==
    ASSUME NEW D, NEW s \in Seq(D), NEW k \in DOMAIN s
    PROVE  /\ HoleClosed(s, k) \in Seq(D)
           /\ Len(HoleClosed(s, k)) = Len(s) - 1
           /\ \A j \in 1..Len(s)-1 :
                HoleClosed(s, k)[j] = IF j < k THEN s[j] ELSE s[j + 1]
<1>. DEFINE f == SubSeq(s, 1, k - 1)
            g == SubSeq(s, k + 1, Len(s))
<1>1. Len(s) \in Nat /\ k \in 1..Len(s) /\ \A j \in 1..Len(s) : s[j] \in D
  OBVIOUS
<1>2. /\ f \in Seq(D) /\ Len(f) = k - 1
      /\ \A j \in 1..k-1 : f[j] = s[j]
  BY <1>1
<1>3. /\ g \in Seq(D) /\ Len(g) = Len(s) - k
      /\ \A j \in 1..Len(s)-k : g[j] = s[k + j]
  BY <1>1
<1>4. HoleClosed(s, k) = f \o g
  BY DEF HoleClosed
<1>. HIDE DEF f, g
<1>5. /\ f \o g \in Seq(D) /\ Len(f \o g) = Len(s) - 1
      /\ \A j \in 1..Len(s)-1 : (f \o g)[j] = IF j < k THEN f[j] ELSE g[j - (k - 1)]
  <2>1. f \o g \in Seq(D)
    BY <1>2, <1>3, ConcatProperties
  <2>2. Len(f \o g) = Len(f) + Len(g)
    BY <1>2, <1>3, ConcatProperties
  <2>3. \A j \in 1..Len(f)+Len(g) :
          (f \o g)[j] = IF j <= Len(f) THEN f[j] ELSE g[j - Len(f)]
    BY <1>2, <1>3, ConcatProperties
  <2>4. Len(f) + Len(g) = Len(s) - 1 /\ \A j \in Nat : j <= Len(f) <=> j < k
    BY <1>1, <1>2, <1>3
  <2>5. ASSUME NEW j \in 1..Len(s)-1
        PROVE  (f \o g)[j] = IF j < k THEN f[j] ELSE g[j - (k - 1)]
    <3>1. (f \o g)[j] = IF j <= Len(f) THEN f[j] ELSE g[j - Len(f)]
      BY <2>3, <2>4
    <3>2. j <= Len(f) <=> j < k
      BY <2>4
    <3>. QED
      BY <1>2, <3>1, <3>2
  <2>. QED
    BY <2>1, <2>2, <2>4, <2>5
<1>6. ASSUME NEW j \in 1..Len(s)-1
      PROVE  (f \o g)[j] = IF j < k THEN s[j] ELSE s[j + 1]
  <2>1. CASE j < k
    BY <1>1, <1>2, <1>5, <2>1
  <2>2. CASE ~(j < k)
    <3>1. j - (k - 1) \in 1..Len(s)-k /\ k + (j - (k - 1)) = j + 1
      BY <1>1, <2>2
    <3>2. g[j - (k - 1)] = s[j + 1]
      BY <1>3, <3>1
    <3>. QED
      BY <1>5, <2>2, <3>2
  <2>. QED
    BY <2>1, <2>2
<1>. QED
  BY <1>4, <1>5, <1>6

----------------------------------------------------------------------------
(* The transport. *)

(* A loss of the callback that nobody will notice, with the driver like r. *)
Known(r) == r.up /\ ~r.recv /\ r.configured => r.refresh \/ Radio!Started \in radioEvents

(* The attempts of a burst are counted in attempts_ too, which is 0 when   *)
(* no repair is pending.                                                   *)
BurstCounted ==
    /\ burst <= attempts
    /\ radioStarted /\ ~radioPending => attempts = 0
    /\ ~radioStarted => ~radioPending

RadioInv ==
    /\ Radio!TypeOK
    /\ BurstCounted
    /\ Radio!WarningIsCurrent
    /\ radioStarted => Known(radio) /\ radio.handler

LEMMA RadioSizes ==
    ASSUME Radio!ConstantsAssumption
    PROVE  /\ MaxAttempts \in Nat /\ Radio!MaxBackoff \in Nat /\ CheckEvery \in Nat
           /\ 0 \in 0..MaxAttempts /\ 0 \in 0..Radio!MaxBackoff /\ 0 \in 0..CheckEvery
           /\ 0 \in 0..MaxAttempts + 1
BY DEF Radio!ConstantsAssumption

Untouched == UNCHANGED <<radioPending, attempts, radioStarted, warning, burst>>

LEMMA AwakeFacts ==
    ASSUME NEW r \in Radio!Radio
    PROVE  /\ Radio!Awake(r) \in Radio!Radio /\ Radio!Awake(r).handler = r.handler
           /\ Known(r) => Known(Radio!Awake(r))
BY DEF Radio!Awake, Radio!Radio, Known

LEMMA HandledFacts ==
    ASSUME NEW r \in Radio!Radio
    PROVE  /\ Radio!Handled(r) \in Radio!Radio /\ Radio!Handled(r).handler
           /\ Radio!Handled(r).configured = r.configured
BY DEF Radio!Handled, Radio!Radio

LEMMA InitialisedFacts ==
    ASSUME NEW r \in Radio!Radio
    PROVE  /\ Radio!Initialised(r) \in Radio!Radio /\ Radio!Initialised(r).handler
           /\ Radio!Initialised(r).configured = r.configured
BY HandledFacts DEF Radio!Initialised, Radio!Radio

LEMMA RegisteredFacts ==
    ASSUME NEW r \in Radio!Radio
    PROVE  /\ Radio!Registered(r) \in Radio!Radio /\ Radio!Registered(r).handler = r.handler
           /\ Radio!Registered(r).recv
BY DEF Radio!Registered, Radio!Radio

LEMMA SetUpFacts ==
    ASSUME NEW r \in Radio!Radio
    PROVE  Radio!SetUp(r) \in Radio!Radio /\ Radio!SetUp(r).handler /\ Radio!SetUp(r).recv
<1>. DEFINE q == Radio!Registered(Radio!Awake(Radio!Initialised(r)))
<1>1. q \in Radio!Radio /\ q.handler /\ q.recv
  BY InitialisedFacts, AwakeFacts, RegisteredFacts
<1>2. Radio!SetUp(r) = [q EXCEPT !.configured = TRUE]
  BY DEF Radio!SetUp
<1>. HIDE DEF q
<1>. QED
  BY <1>1, <1>2 DEF Radio!Radio

LEMMA AskedFacts ==
    ASSUME NEW r \in Radio!Radio
    PROVE  /\ Radio!Asked(r) \in Radio!Radio /\ Radio!Asked(r).handler = r.handler
           /\ Known(r) => Known(Radio!Asked(r))
BY DEF Radio!Asked, Radio!Radio, Known

LEMMA SetUpFailedFacts ==
    ASSUME NEW r \in Radio!Radio, NEW s \in Radio!SetUpFailed(r)
    PROVE  /\ s \in Radio!Radio /\ (r.handler => s.handler)
           /\ s.configured = r.configured
<1>1. [Radio!Handled(r) EXCEPT !.inited = @ /\ r.up] \in Radio!Radio
      /\ [Radio!Handled(r) EXCEPT !.inited = @ /\ r.up].handler
      /\ [Radio!Handled(r) EXCEPT !.inited = @ /\ r.up].configured = r.configured
  BY HandledFacts DEF Radio!Radio
<1>2. /\ Radio!Awake(Radio!Initialised(r)) \in Radio!Radio /\ Radio!Awake(Radio!Initialised(r)).handler
      /\ Radio!Awake(Radio!Initialised(r)).configured = r.configured
  BY InitialisedFacts DEF Radio!Awake, Radio!Radio
<1>. QED
  BY <1>1, <1>2, HandledFacts, InitialisedFacts DEF Radio!SetUpFailed

(* With other peers installed. *)
LEMMA PeersFacts ==
    ASSUME NEW r \in Radio!Radio, NEW P \in SUBSET RadioBonded
    PROVE  /\ [r EXCEPT !.peers = P] \in Radio!Radio
           /\ [r EXCEPT !.peers = P].handler = r.handler
           /\ [r EXCEPT !.peers = P].recv = r.recv
           /\ Known(r) => Known([r EXCEPT !.peers = P])
BY DEF Radio!Radio, Known

(* A start that succeeds leaves the callback registered. *)
LEMMA StartFacts ==
    ASSUME NEW r \in Radio!Radio, NEW bad \in BOOLEAN, NEW res \in Radio!StartResults(r, bad)
    PROVE  /\ res.ok \in BOOLEAN /\ res.radio \in Radio!Radio
           /\ res.ok => res.radio.recv /\ res.radio.handler
<1>1. CASE res \in Radio!Done([Radio!SetUp(r) EXCEPT !.peers = RadioBonded])
  <2>1. res = [ok |-> TRUE, radio |-> [Radio!SetUp(r) EXCEPT !.peers = RadioBonded]]
    BY <1>1 DEF Radio!Done
  <2>. QED
    BY <2>1, SetUpFacts, PeersFacts
<1>2. CASE res \in Radio!Failed(Radio!SetUpFailed(r)
                     \cup {[Radio!SetUp(r) EXCEPT !.peers = P] : P \in SUBSET RadioBonded})
  <2>1. PICK s \in Radio!SetUpFailed(r)
                     \cup {[Radio!SetUp(r) EXCEPT !.peers = P] : P \in SUBSET RadioBonded} :
          res = [ok |-> FALSE, radio |-> s]
    BY <1>2 DEF Radio!Failed
  <2>2. s \in Radio!Radio
    BY SetUpFacts, PeersFacts, SetUpFailedFacts
  <2>. QED
    BY <2>1, <2>2
<1>. QED
  BY <1>1, <1>2 DEF Radio!StartResults

(* Whatever a repair achieves, a lost callback stays known. *)
LEMMA RepairFacts ==
    ASSUME NEW r \in Radio!Radio, NEW bad \in BOOLEAN, NEW res \in Radio!RepairResults(r, bad),
           Known(r), r.handler
    PROVE  /\ res.ok \in BOOLEAN /\ res.radio \in Radio!Radio
           /\ Known(res.radio) /\ res.radio.handler
<1>. DEFINE q     == Radio!Asked(r)
            ready == Radio!Awake(IF q.configured THEN q ELSE Radio!SetUp(q))
            heard == IF ready.refresh THEN Radio!Registered(ready) ELSE ready
            Fails == {r, q, ready, heard}
                         \cup (IF q.configured THEN {} ELSE Radio!SetUpFailed(q))
                         \cup {[heard EXCEPT !.peers = P] : P \in SUBSET RadioBonded}
            Good(s) == s \in Radio!Radio /\ Known(s) /\ s.handler
<1>1. Good(q)
  BY AskedFacts
<1>2. Good(ready)
  <2>1. Good(Radio!SetUp(q))
    BY <1>1, SetUpFacts DEF Known
  <2>. QED
    BY <1>1, <2>1, AwakeFacts
<1>3. Good(heard)
  BY <1>2, RegisteredFacts DEF Known
<1>4. \A P \in SUBSET RadioBonded : Good([heard EXCEPT !.peers = P])
  BY <1>3, PeersFacts
<1>5. ASSUME ~q.configured, NEW s \in Radio!SetUpFailed(q) PROVE Good(s)
  BY <1>1, <1>5, SetUpFailedFacts DEF Known
<1>6. \/ res \in Radio!Done([heard EXCEPT !.peers = RadioBonded])
      \/ res \in Radio!Failed(Fails)
  BY DEF Radio!RepairResults
<1>. HIDE DEF ready, heard, q
<1>7. CASE res \in Radio!Done([heard EXCEPT !.peers = RadioBonded])
  <2>1. res = [ok |-> TRUE, radio |-> [heard EXCEPT !.peers = RadioBonded]]
    BY <1>7 DEF Radio!Done
  <2>. QED
    BY <2>1, <1>4
<1>8. CASE res \in Radio!Failed(Fails)
  <2>1. PICK s \in Fails : res = [ok |-> FALSE, radio |-> s]
    BY <1>8 DEF Radio!Failed
  <2>2. Good(s)
    BY <1>1, <1>2, <1>3, <1>4, <1>5
  <2>. QED
    BY <2>1, <2>2
<1>. QED
  BY <1>6, <1>7, <1>8

(* Two things of the state change with a step that starts, counts and      *)
(* warns of nothing: the driver, and what was latched.                     *)
LEMMA UntouchedKeeps ==
    ASSUME RadioInv, Untouched, Radio!TypeOK', radioStarted => Known(radio)' /\ radio'.handler
    PROVE  RadioInv'
BY DEF RadioInv, Untouched, BurstCounted, Radio!WarningIsCurrent

LEMMA LoopEventsKeeps ==
    ASSUME Radio!ConstantsAssumption, RadioInv, Radio!LoopEvents
    PROVE  RadioInv'
<1>1. PICK awake \in {TRUE, bounds.trouble = 0} :
        radio' = [radio EXCEPT !.ps = @ /\ ~(Radio!Connected \in radioEvents /\ awake),
                               !.refresh = @ \/ Radio!Refresh]
  BY DEF Radio!LoopEvents
<1>2. /\ radio' \in Radio!Radio /\ radio'.handler = radio.handler
      /\ radio'.refresh = (radio.refresh \/ radioEvents # {})
      /\ radio'.up = radio.up /\ radio'.recv = radio.recv
      /\ radio'.configured = radio.configured
  BY <1>1 DEF RadioInv, Radio!TypeOK, Radio!Radio, Radio!Refresh
<1>3. Radio!TypeOK'
  BY <1>2 DEF Radio!LoopEvents, RadioInv, Radio!TypeOK, Radio!Rearmed,
     Radio!timers, Radio!ConstantsAssumption
<1>4. radioStarted => Known(radio)' /\ radio'.handler
  BY <1>2 DEF RadioInv, Known
<1>5. BurstCounted'
  BY DEF Radio!LoopEvents, RadioInv, Radio!TypeOK, BurstCounted, Radio!Rearmed,
     Radio!Refresh, Radio!ConnectEdge,
         Radio!ConstantsAssumption
<1>. QED
  BY <1>3, <1>4, <1>5 DEF Radio!LoopEvents, RadioInv, Radio!WarningIsCurrent

LEMMA TryStartKeeps ==
    ASSUME Radio!ConstantsAssumption, RadioInv, NEW bad \in BOOLEAN, NEW r \in Radio!Radio,
           Radio!TryStart(r, bad), UNCHANGED <<Radio!wifi, radioPairing>>, inLoop' \in BOOLEAN,
           bounds' \in [trouble : Nat, damage : Nat, windows : Nat]
    PROVE  RadioInv'
<1>0. ~radioStarted /\ ~radioPending /\ UNCHANGED radioPending
  BY DEF Radio!TryStart, RadioInv, BurstCounted
<1>1. CASE Radio!MayTry(attempts)
  <2>1. PICK res \in Radio!StartResults(r, bad) :
              /\ radio' = res.radio
              /\ radioStarted' = res.ok
              /\ warning' = ~res.ok
              /\ attempts' = IF res.ok THEN 0 ELSE attempts + 1
              /\ burst' = IF res.ok THEN 0 ELSE burst + 1
              /\ sinceAttempt' = 0
              /\ sinceCheck' = IF res.ok THEN 0 ELSE sinceCheck
              /\ sincePs' = IF res.ok \/ connected THEN 0 ELSE sincePs
    BY <1>1 DEF Radio!TryStart
  <2>2. /\ res.ok \in BOOLEAN /\ res.radio \in Radio!Radio
        /\ res.ok => res.radio.recv /\ res.radio.handler
    BY StartFacts
  <2>3. attempts < MaxAttempts
    BY <1>1 DEF Radio!MayTry
  <2>4. Radio!TypeOK'
    BY <1>0, <2>1, <2>2, <2>3 DEF RadioInv, Radio!TypeOK, BurstCounted,
       Radio!wifi, Radio!ConstantsAssumption
  <2>5. BurstCounted'
    BY <1>0, <2>1, <2>2 DEF RadioInv, Radio!TypeOK, BurstCounted
  <2>. QED
    BY <1>0, <2>1, <2>2, <2>4, <2>5 DEF RadioInv, Radio!WarningIsCurrent, Known
<1>2. CASE ~Radio!MayTry(attempts)
  <2>1. /\ radio' = r /\ sincePs' \in {0, sincePs}
        /\ UNCHANGED <<radioStarted, warning, attempts, burst, sinceAttempt, sinceCheck>>
    BY <1>2 DEF Radio!TryStart
  <2>. QED
    BY <1>0, <2>1 DEF RadioInv, Radio!TypeOK, BurstCounted,
       Radio!WarningIsCurrent, Radio!wifi
<1>. QED
  BY <1>1, <1>2

(* A repair after `tries' attempts, of a transport that has been started.  *)
LEMMA RepairKeeps ==
    ASSUME Radio!ConstantsAssumption, RadioInv, radioStarted, NEW bad \in BOOLEAN, NEW r \in Radio!Radio,
           NEW open \in BOOLEAN, NEW tries \in 0..MaxAttempts,
           Known(r), r.handler, burst <= tries, (~open => tries = 0 /\ ~radioPending),
           radioPending => open,
           Radio!Repair(r, open, tries, bad)
    PROVE  /\ radio' \in Radio!Radio /\ radioPending' \in BOOLEAN /\ warning' \in BOOLEAN
           /\ attempts' \in 0..MaxAttempts /\ sinceAttempt' \in 0..Radio!MaxBackoff
           /\ burst' \in 0..MaxAttempts + 1
           /\ burst' <= attempts' /\ (~radioPending' => attempts' = 0)
           /\ warning' => radioPending'
           /\ radio'.handler
           /\ radio'.up /\ ~radio'.recv /\ radio'.configured
              => radio'.refresh \/ Radio!Started \in radioEvents
<1>1. CASE open /\ Radio!MayTry(tries)
  <2>1. PICK res \in Radio!RepairResults(r, bad) :
           /\ radio' = res.radio
           /\ radioPending' = ~res.ok
           /\ warning' = ~res.ok
           /\ attempts' = IF res.ok THEN 0 ELSE tries + 1
           /\ burst' = IF res.ok THEN 0 ELSE burst + 1
           /\ sinceAttempt' = 0
    BY <1>1 DEF Radio!Repair
  <2>2. /\ res.ok \in BOOLEAN /\ res.radio \in Radio!Radio
        /\ Known(res.radio) /\ res.radio.handler
    BY RepairFacts
  <2>3. tries < MaxAttempts
    BY <1>1 DEF Radio!MayTry
  <2>4. /\ radio' \in Radio!Radio /\ radio'.handler /\ radioPending' \in BOOLEAN
        /\ warning' = radioPending'
    BY <2>1, <2>2
  <2>5. Known(res.radio) => (radio'.up /\ ~radio'.recv /\ radio'.configured
                             => radio'.refresh \/ Radio!Started \in radioEvents)
    BY <2>1 DEF Known
  <2>6. /\ attempts' \in 0..MaxAttempts /\ sinceAttempt' \in 0..Radio!MaxBackoff
        /\ burst' \in 0..MaxAttempts + 1
        /\ burst' <= attempts' /\ (~radioPending' => attempts' = 0)
    <3>1. MaxAttempts \in Nat /\ burst \in Nat /\ tries \in Nat
      BY RadioSizes DEF RadioInv, Radio!TypeOK
    <3>2. sinceAttempt' \in 0..Radio!MaxBackoff
      BY <2>1, RadioSizes
    <3>3. CASE res.ok
      BY <2>1, <3>1, <3>2, <3>3, RadioSizes
    <3>4. CASE ~res.ok
      <4>1. attempts' = tries + 1 /\ burst' = burst + 1 /\ radioPending'
        BY <2>1, <3>4
      <4>. QED
        BY <2>3, <3>1, <3>2, <4>1
    <3>. QED
      BY <3>3, <3>4
  <2>. QED
    BY <2>2, <2>4, <2>5, <2>6
<1>2. CASE ~(open /\ Radio!MayTry(tries))
  <2>1. /\ radio' = r /\ radioPending' = open /\ attempts' = tries
        /\ UNCHANGED <<warning, burst, sinceAttempt>>
    BY <1>2 DEF Radio!Repair
  <2>. QED
    BY <2>1 DEF RadioInv, Radio!TypeOK, Known, Radio!WarningIsCurrent
<1>. QED
  BY <1>1, <1>2

LEMMA MaintainKeeps ==
    ASSUME Radio!ConstantsAssumption, RadioInv, NEW bad \in BOOLEAN, NEW r \in Radio!Radio,
           Known(r), radioStarted => r.handler,
           Radio!Maintain(r, bad), UNCHANGED <<Radio!wifi, radioPairing>>, inLoop' \in BOOLEAN,
           bounds' \in [trouble : Nat, damage : Nat, windows : Nat]
    PROVE  RadioInv'
<1>0. /\ radioStarted /\ UNCHANGED <<radioStarted, radioEvents, wasConnected, connected, radioPairing>>
      /\ sincePs' \in {0, sincePs} /\ r.handler
  BY DEF Radio!Maintain, Radio!wifi
<1>. DEFINE Kept == /\ radio' \in Radio!Radio /\ radioPending' \in BOOLEAN /\ warning' \in BOOLEAN
                    /\ attempts' \in 0..MaxAttempts /\ sinceAttempt' \in 0..Radio!MaxBackoff
                    /\ burst' \in 0..MaxAttempts + 1
                    /\ burst' <= attempts' /\ (~radioPending' => attempts' = 0)
                    /\ warning' => radioPending'
                    /\ radio'.handler
                    /\ radio'.up /\ ~radio'.recv /\ radio'.configured
                       => radio'.refresh \/ Radio!Started \in radioEvents
<1>1. CASE radioPairing /\ radio' = r
           /\ UNCHANGED <<radioPending, attempts, warning, burst, sinceAttempt, sinceCheck>>
  <2>1. Kept /\ sinceCheck' \in 0..CheckEvery
    BY <1>0, <1>1 DEF RadioInv, Radio!TypeOK, BurstCounted,
       Radio!WarningIsCurrent, Known
  <2>. QED
    BY <2>1, <1>0 DEF RadioInv, Radio!TypeOK, BurstCounted,
       Radio!WarningIsCurrent, Known
<1>2. CASE ~radioPairing /\ Radio!AuditClean(r)
  <2>1. /\ radio' = r /\ sinceCheck' = 0 /\ radioPending' = FALSE
        /\ attempts' = IF radioPending THEN 0 ELSE attempts
        /\ warning' = IF radioPending THEN FALSE ELSE warning
        /\ burst' = 0 /\ UNCHANGED sinceAttempt
    BY <1>2 DEF Radio!AuditClean, Radio!Cleared
  <2>2. /\ attempts' = 0 /\ warning' = FALSE
        /\ sinceAttempt' \in 0..Radio!MaxBackoff /\ sinceCheck' \in 0..CheckEvery
        /\ burst' \in 0..MaxAttempts + 1
    BY <1>0, <2>1 DEF RadioInv, Radio!TypeOK, BurstCounted,
       Radio!WarningIsCurrent, Radio!ConstantsAssumption
  <2>3. Kept /\ sinceCheck' \in 0..CheckEvery
    <3>1. radio' \in Radio!Radio /\ radio'.handler
      BY <1>0, <2>1
    <3>2. Known(r) => (radio'.up /\ ~radio'.recv /\ radio'.configured
                       => radio'.refresh \/ Radio!Started \in radioEvents)
      BY <2>1 DEF Known
    <3>3. attempts' \in 0..MaxAttempts /\ burst' <= attempts'
      BY <2>1, <2>2, RadioSizes
    <3>. QED
      BY <2>1, <2>2, <3>1, <3>2, <3>3
  <2>. QED
    BY <2>3, <1>0 DEF RadioInv, Radio!TypeOK, BurstCounted,
       Radio!WarningIsCurrent, Known
<1>3. CASE /\ sinceCheck' = 0
           /\ \E q \in {Radio!Asked(r)} \cup (IF bad THEN {r} ELSE {}) :
                Radio!Repair(q, TRUE, IF radioPending THEN attempts ELSE 0, bad)
  <2>1. PICK q \in {Radio!Asked(r)} \cup (IF bad THEN {r} ELSE {}) :
          Radio!Repair(q, TRUE, IF radioPending THEN attempts ELSE 0, bad)
    BY <1>3
  <2>2. q \in Radio!Radio /\ Known(q) /\ q.handler
    BY <1>0, AskedFacts
  <2>. DEFINE tries == IF radioPending THEN attempts ELSE 0
  <2>3. tries \in 0..MaxAttempts /\ burst <= tries
    BY <1>0 DEF RadioInv, Radio!TypeOK, BurstCounted, Radio!ConstantsAssumption
  <2>4. Radio!Repair(q, TRUE, tries, bad)
    BY <2>1
  <2>. HIDE DEF tries
  <2>5. Kept /\ sinceCheck' \in 0..CheckEvery
    <3>1. sinceCheck' \in 0..CheckEvery
      BY <1>3 DEF Radio!ConstantsAssumption
    <3>. QED
      BY <1>0, <2>2, <2>3, <2>4, <3>1, RepairKeeps
  <2>. QED
    BY <2>5, <1>0 DEF RadioInv, Radio!TypeOK, BurstCounted,
       Radio!WarningIsCurrent, Known
<1>4. CASE UNCHANGED sinceCheck /\ Radio!Repair(r, radioPending, attempts, bad)
  <2>1. /\ attempts \in 0..MaxAttempts /\ burst <= attempts /\ radioPending \in BOOLEAN
        /\ ~radioPending => attempts = 0
    BY <1>0 DEF RadioInv, Radio!TypeOK, BurstCounted
  <2>2. Kept /\ sinceCheck' \in 0..CheckEvery
    <3>1. sinceCheck' \in 0..CheckEvery
      BY <1>4 DEF RadioInv, Radio!TypeOK
    <3>. QED
      BY <1>0, <1>4, <2>1, <3>1, RepairKeeps
  <2>. QED
    BY <2>2, <1>0 DEF RadioInv, Radio!TypeOK, BurstCounted,
       Radio!WarningIsCurrent, Known
<1>. QED
  BY <1>1, <1>2, <1>3, <1>4 DEF Radio!Maintain

LEMMA LoopRestKeeps ==
    ASSUME Radio!ConstantsAssumption, RadioInv, Radio!LoopRest
    PROVE  RadioInv'
<1>1. PICK bad \in {FALSE, bounds.trouble > 0} :
         /\ bounds' = [bounds EXCEPT !.trouble = IF bad THEN @ - 1 ELSE @]
         /\ \E r \in Radio!PsChecked(bad) : Radio!TryStart(r, bad) \/ Radio!Maintain(r, bad)
  BY DEF Radio!LoopRest
<1>2. PICK r \in Radio!PsChecked(bad) : Radio!TryStart(r, bad) \/ Radio!Maintain(r, bad)
  BY <1>1
<1>3. bad \in BOOLEAN /\ (bad => bounds.trouble > 0)
  <2>1. bounds.trouble \in Nat
    BY DEF RadioInv, Radio!TypeOK
  <2>2. bad = FALSE \/ bad = (bounds.trouble > 0)
    BY <1>1
  <2>3. (bounds.trouble > 0) \in BOOLEAN
    BY <2>1
  <2>4. CASE bad = FALSE
    BY <2>4
  <2>5. CASE bad = (bounds.trouble > 0)
    BY <2>3, <2>5, Zenon
  <2>. QED
    BY <2>2, <2>4, <2>5
<1>4. bounds' \in [trouble : Nat, damage : Nat, windows : Nat]
  <2>1. bounds \in [trouble : Nat, damage : Nat, windows : Nat]
    BY DEF RadioInv, Radio!TypeOK
  <2>2. bounds' = [bounds EXCEPT !.trouble = IF bad THEN bounds.trouble - 1
                                                    ELSE bounds.trouble]
    BY <1>1
  <2>3. (IF bad THEN bounds.trouble - 1 ELSE bounds.trouble) \in Nat
    BY <1>3, <2>1
  <2>. QED
    BY <2>1, <2>2, <2>3
<1>5. r \in {radio, Radio!Awake(radio)}
  BY DEF Radio!PsChecked
<1>6. r \in Radio!Radio /\ r.handler = radio.handler /\ (radioStarted => Known(r))
  BY <1>5, AwakeFacts DEF RadioInv, Radio!TypeOK
<1>7. UNCHANGED <<Radio!wifi, radioPairing>> /\ inLoop' \in BOOLEAN
  BY DEF Radio!LoopRest
<1>8. CASE Radio!TryStart(r, bad)
  BY <1>3, <1>4, <1>6, <1>7, <1>8, TryStartKeeps
<1>9. CASE Radio!Maintain(r, bad)
  <2>1. radioStarted /\ radio.handler
    BY <1>9 DEF Radio!Maintain, RadioInv
  <2>. QED
    BY <1>3, <1>4, <1>6, <1>7, <1>9, <2>1, MaintainKeeps
<1>. QED
  BY <1>2, <1>8, <1>9

LEMMA SecondKeeps ==
    ASSUME Radio!ConstantsAssumption, RadioInv, Radio!Second
    PROVE  RadioInv'
<1>1. Radio!TypeOK'
  BY DEF Radio!Second, RadioInv, Radio!TypeOK, Radio!wifi,
     Radio!ConstantsAssumption
<1>2. Untouched /\ UNCHANGED <<radio, radioEvents>>
  BY DEF Radio!Second, Untouched, Radio!wifi
<1>. QED
  BY <1>1, <1>2, UntouchedKeeps DEF RadioInv, Known

LEMMA WifiKeeps ==
    ASSUME RadioInv, Radio!WifiConnected \/ Radio!WifiDisconnected
    PROVE  RadioInv'
<1>1. /\ Untouched /\ UNCHANGED <<radio, Radio!timers, wasConnected, radioPairing, inLoop, bounds>>
      /\ connected' \in BOOLEAN
      /\ radioEvents \subseteq radioEvents' /\ radioEvents' \subseteq radioEvents \cup {Radio!Connected}
  BY DEF Radio!WifiConnected, Radio!WifiDisconnected, Radio!Latched, Untouched
<1>2. Radio!TypeOK'
  BY <1>1 DEF RadioInv, Radio!TypeOK, Untouched, Radio!timers
<1>3. radioStarted => Known(radio)' /\ radio'.handler
  BY <1>1 DEF RadioInv, Known
<1>. QED
  BY <1>1, <1>2, <1>3, UntouchedKeeps

(* The driver is harmed: a callback that goes leaves its event behind.     *)
LEMMA HarmedKeeps ==
    ASSUME RadioInv, NEW r \in Radio!Radio, Radio!Harmed(r), connected' \in BOOLEAN,
           radioEvents' \subseteq {Radio!Started, Radio!Connected},
           radioStarted => r.handler /\ (r.up /\ ~r.recv /\ r.configured
                                         => r.refresh \/ Radio!Started \in radioEvents')
    PROVE  RadioInv'
<1>1. /\ Untouched /\ UNCHANGED <<Radio!timers, wasConnected, radioPairing, inLoop>>
      /\ bounds' \in [trouble : Nat, damage : Nat, windows : Nat] /\ radio' = r
  BY DEF Radio!Harmed, Untouched, RadioInv, Radio!TypeOK
<1>2. Radio!TypeOK'
  BY <1>1 DEF RadioInv, Radio!TypeOK, Untouched, Radio!timers
<1>. QED
  BY <1>1, <1>2, UntouchedKeeps DEF Known

LEMMA StaRestartKeeps ==
    ASSUME RadioInv, Radio!StaRestart
    PROVE  RadioInv'
<1>1. PICK keep \in BOOLEAN, P \in SUBSET radio.peers :
        /\ Radio!Harmed([radio EXCEPT !.ps = TRUE, !.recv = @ /\ keep, !.peers = P])
        /\ radioEvents' = Radio!Latched(Radio!Started) /\ connected' = FALSE
  BY DEF Radio!StaRestart
<1>. DEFINE r == [radio EXCEPT !.ps = TRUE, !.recv = @ /\ keep, !.peers = P]
<1>2. r \in Radio!Radio /\ r.handler = radio.handler
  BY DEF RadioInv, Radio!TypeOK, Radio!Radio
<1>3. radioEvents' \subseteq {Radio!Started, Radio!Connected} /\ (radio.handler => Radio!Started \in radioEvents')
  BY <1>1 DEF Radio!Latched, RadioInv, Radio!TypeOK
<1>4. Radio!Harmed(r)
  BY <1>1
<1>. HIDE DEF r
<1>. QED
  BY <1>1, <1>2, <1>3, <1>4, HarmedKeeps DEF RadioInv

LEMMA DriverHarmedKeeps ==
    ASSUME RadioInv, Radio!DriverHarmed
    PROVE  RadioInv'
<1>0. UNCHANGED <<radioEvents, connected>> /\ radio \in Radio!Radio
      /\ connected \in BOOLEAN /\ radioEvents \subseteq {Radio!Started, Radio!Connected}
  BY DEF Radio!DriverHarmed, RadioInv, Radio!TypeOK
<1>. DEFINE Same(r) == /\ r \in Radio!Radio /\ r.handler = radio.handler
                       /\ Known(radio) => Known(r)
<1>1. ASSUME NEW r, Same(r), Radio!Harmed(r) PROVE RadioInv'
  BY <1>0, <1>1, HarmedKeeps DEF RadioInv, Known
<1>2. Same([radio EXCEPT !.ps = TRUE])
  BY <1>0 DEF Radio!Radio, Known
<1>3. Same([radio EXCEPT !.up = FALSE, !.recv = FALSE, !.peers = {}])
  BY <1>0 DEF Radio!Radio, Known
<1>4. ASSUME NEW b \in radio.peers PROVE Same([radio EXCEPT !.peers = @ \ {b}])
  BY <1>0 DEF Radio!Radio, Known
<1>. HIDE DEF Same
<1>. QED
  BY <1>1, <1>2, <1>3, <1>4 DEF Radio!DriverHarmed

LEMMA PairingKeeps ==
    ASSUME RadioInv, Radio!PairStart \/ Radio!PairEnd
    PROVE  RadioInv'
<1>0. radio \in Radio!Radio
  BY DEF RadioInv, Radio!TypeOK
<1>1. \E P \in SUBSET RadioBonded : radio' = [radio EXCEPT !.peers = P]
  <2>1. CASE Radio!PairStart
    BY <1>0, <2>1 DEF Radio!PairStart, Radio!Radio
  <2>2. CASE Radio!PairEnd
    <3>1. PICK P \in {radio.peers, RadioBonded} :
            radio' = [radio EXCEPT !.peers = IF radio.up THEN P ELSE @]
      BY <2>2 DEF Radio!PairEnd
    <3>. QED
      BY <1>0, <3>1 DEF Radio!Radio
  <2>. QED
    BY <2>1, <2>2
<1>2. radio' \in Radio!Radio /\ radio'.handler = radio.handler
      /\ (Known(radio) => Known(radio'))
  BY <1>0, <1>1, PeersFacts
<1>3. /\ Untouched /\ UNCHANGED <<Radio!timers, Radio!wifi, inLoop>> /\ radioPairing' \in BOOLEAN
      /\ bounds' \in [trouble : Nat, damage : Nat, windows : Nat]
  <2>1. Untouched /\ UNCHANGED <<Radio!timers, Radio!wifi, inLoop>> /\ radioPairing' \in BOOLEAN
    BY DEF Radio!PairStart, Radio!PairEnd, Untouched
  <2>2. bounds \in [trouble : Nat, damage : Nat, windows : Nat]
    BY DEF RadioInv, Radio!TypeOK
  <2>3. CASE Radio!PairStart
    BY <2>1, <2>2, <2>3 DEF Radio!PairStart
  <2>4. CASE Radio!PairEnd
    BY <2>1, <2>2, <2>4 DEF Radio!PairEnd
  <2>. QED
    BY <2>3, <2>4
<1>4. Radio!TypeOK'
  BY <1>2, <1>3 DEF RadioInv, Radio!TypeOK, Untouched, Radio!timers, Radio!wifi
<1>. QED
  BY <1>2, <1>3, <1>4, UntouchedKeeps DEF RadioInv, Known, Radio!wifi

LEMMA RadioInit == ASSUME Radio!ConstantsAssumption, Radio!Init PROVE RadioInv
<1>1. radio \in Radio!Radio
  BY DEF Radio!Init, Radio!Radio
<1>2. bounds \in [trouble : Nat, damage : Nat, windows : Nat]
  BY DEF Radio!Init, Radio!ConstantsAssumption
<1>3. Radio!TypeOK
  <2>1. /\ attempts \in 0..MaxAttempts /\ sinceAttempt \in 0..Radio!MaxBackoff
        /\ sinceCheck \in 0..CheckEvery /\ sincePs \in 0..1
        /\ burst \in 0..MaxAttempts + 1
    BY RadioSizes DEF Radio!Init
  <2>2. /\ radioPending \in BOOLEAN /\ radioStarted \in BOOLEAN /\ warning \in BOOLEAN
        /\ connected \in BOOLEAN /\ wasConnected \in BOOLEAN /\ radioPairing \in BOOLEAN
        /\ inLoop \in BOOLEAN /\ radioEvents \subseteq {Radio!Started, Radio!Connected}
    BY DEF Radio!Init
  <2>. QED
    BY <1>1, <1>2, <2>1, <2>2 DEF Radio!TypeOK
<1>. QED
  BY <1>3 DEF Radio!Init, RadioInv, BurstCounted, Radio!WarningIsCurrent

LEMMA RadioNext == ASSUME Radio!ConstantsAssumption, RadioInv, [Radio!Next]_(Radio!vars) PROVE RadioInv'
<1>1. CASE UNCHANGED Radio!vars
  BY <1>1 DEF Radio!vars, Radio!timers, Radio!wifi, RadioInv, Radio!TypeOK,
     BurstCounted, Radio!WarningIsCurrent, Known
<1>. QED
  BY <1>1, LoopEventsKeeps, LoopRestKeeps, SecondKeeps, WifiKeeps,
     StaRestartKeeps,
     DriverHarmedKeeps, PairingKeeps DEF Radio!Next

LEMMA RadioFacts ==
    ASSUME Radio!ConstantsAssumption, RadioInv
    PROVE  Radio!TypeOK /\ Radio!LostCallbackKnown /\ Radio!BoundedBurst /\ Radio!WarningIsCurrent
BY DEF RadioInv, Radio!TypeOK, BurstCounted, Radio!LostCallbackKnown,
   Radio!BoundedBurst, Known,
       Radio!ConstantsAssumption

RadioService == scenario = "transport" => RadioInv

LEMMA RadioServiceKept ==
    /\ Init => RadioService
    /\ RadioService /\ [Next]_vars => RadioService'
<1>1. Radio!ConstantsAssumption
  BY InstancesAssumption
<1>2. Init => RadioService
  BY <1>1, RadioInit DEF Init, RadioService
<1>3. RadioService /\ [Next]_vars => RadioService'
  <2>. SUFFICES ASSUME RadioService, [Next]_vars, scenario' = "transport"
                PROVE  RadioInv'
    BY DEF RadioService
  <2>1. scenario = "transport"
    BY DEF Next, vars
  <2>2. [Radio!Next]_(Radio!vars)
    BY <2>1 DEF Next, vars, transport, Radio!vars, Radio!timers, Radio!wifi
  <2>. QED
    BY <1>1, <2>1, <2>2, RadioNext DEF RadioService
<1>. QED
  BY <1>2, <1>3

(* A receive callback that the driver lost is going to be registered       *)
(* again, a driver that stays broken is not hammered, and the warning is   *)
(* there only while a repair is pending, whatever happens to the driver    *)
(* between and within passes of loop (setup_transport_, try_start_,        *)
(* maintain_transport_).                                                   *)
THEOREM RadioIsKept == Spec => []RadioIsLookedAfter
<1>1. RadioService => RadioIsLookedAfter
  BY RadioFacts, InstancesAssumption
  DEF InstancesAssumption, RadioService, RadioIsLookedAfter
<1>. QED
  BY <1>1, RadioServiceKept, PTL DEF Spec

----------------------------------------------------------------------------
(* The screen and night switches. *)

(* What a gate that is restored is set to by the next start. *)
Kept(g) == IF flash[g] = "none" THEN Gate!ByMode(mode[g]) ELSE flash[g]

(* A gate that is restored is as some later restart would find it: what    *)
(* flash gives, and what is set, is what may be; only a change waits to be *)
(* written.                                                                *)
Restorable(g) ==
    /\ Kept(g) \in mayBe[g]
    /\ g \in up => /\ g \in seen /\ gate[g] \in mayBe[g]
                   /\ cached[g] \in {"none", gate[g]}
                   /\ cached[g] = "none" => flash[g] = gate[g]
    /\ g \notin up => cached[g] = "none"

(* What nobody asked for is nowhere. *)
Unasked(g, v) ==
    v \in told[g] \/ /\ Kept(g) # v /\ cached[g] # v
                     /\ g \in up => gate[g] # v

GatesInv ==
    /\ Gate!TypeOK /\ Gate!UntouchedIsAsBefore
    /\ mayBe \in [Gate!Gate -> SUBSET {"on", "off"}] /\ told \in [Gate!Gate -> SUBSET {"on", "off"}]
    /\ \A g \in unset : mode[g] = Gate!DefaultMode[g]
    /\ "link" \in up => Gate!Declared \subseteq up
    /\ \A g \in Gate!Declared : Gate!Persistent(g) => Restorable(g)
    /\ "screen" \in unset => Unasked("screen", "off")
    /\ "night" \in unset => Unasked("night", "on")

LEMMA BootsBound == Gate!ConstantsAssumption => MaxBoots \in Nat \ {0}
BY DEF Gate!ConstantsAssumption

LEMMA UnsetPersist ==
    ASSUME GatesInv, NEW g \in unset
    PROVE  g \in Gate!Declared /\ Gate!Persistent(g) /\ Restorable(g)
<1>1. g \in Gate!Declared /\ mode[g] = Gate!DefaultMode[g]
  BY DEF GatesInv, Gate!TypeOK
<1>2. g \in Gate!Gate
  BY <1>1 DEF Gate!Declared
<1>3. Gate!Persistent(g)
  BY <1>1, <1>2 DEF Gate!DefaultMode, Gate!Persistent, Gate!Gate
<1>. QED
  BY <1>1, <1>3 DEF GatesInv

LEMMA GatesInit == ASSUME Gate!ConstantsAssumption, Gate!Init PROVE GatesInv
<1>1. \A g \in Gate!Gate : Gate!ByMode(mode[g]) \in {"on", "off"}
  BY DEF Gate!ByMode
<1>2. /\ mode \in [Gate!Gate -> Gate!Modes \cup {"no mode"}] /\ unset \subseteq Gate!Gate
      /\ \A g \in unset : mode[g] = Gate!DefaultMode[g]
  BY DEF Gate!Init
<1>3. unset \subseteq Gate!Declared
  BY <1>2 DEF Gate!Declared, Gate!DefaultMode, Gate!ConstantsAssumption,
     Gate!Modes, Gate!Gate
<1>4. Gate!TypeOK
  <2>1. /\ up \subseteq Gate!Component /\ seen \subseteq Gate!Declared \cap up
        /\ gate \in [Gate!Gate -> {"on", "off"}]
        /\ cached \in [Gate!Gate -> {"on", "off", "none"}]
        /\ flash \in [Gate!Gate -> {"on", "off", "none"}]
    BY DEF Gate!Init
  <2>2. boots \in 1..MaxBoots
    <3>1. boots = 1
      BY DEF Gate!Init
    <3>. QED
      BY <3>1, BootsBound
  <2>. QED
    BY <1>2, <1>3, <2>1, <2>2 DEF Gate!TypeOK
<1>5. mayBe \in [Gate!Gate -> SUBSET {"on", "off"}] /\ told \in [Gate!Gate -> SUBSET {"on", "off"}]
  BY <1>1 DEF Gate!Init
<1>6. \A g \in Gate!Gate : /\ Kept(g) = Gate!ByMode(mode[g]) /\ Kept(g) \in mayBe[g]
                           /\ cached[g] = "none" /\ g \notin up
  BY DEF Gate!Init, Kept
<1>7. \A g \in Gate!Declared : Gate!Persistent(g) => Restorable(g)
  BY <1>6 DEF Restorable, Gate!Declared
<1>8. "screen" \in unset => Unasked("screen", "off")
  BY <1>2, <1>6 DEF Unasked, Gate!Gate, Gate!ByMode, Gate!DefaultMode
<1>9. "night" \in unset => Unasked("night", "on")
  BY <1>2, <1>6 DEF Unasked, Gate!Gate, Gate!ByMode, Gate!DefaultMode
<1>. QED
  BY <1>2, <1>4, <1>5, <1>7, <1>8, <1>9 DEF Gate!Init, GatesInv,
     Gate!UntouchedIsAsBefore

(* A gate is published, by its setup or by Home Assistant. *)
LEMMA PublishedKeeps ==
    ASSUME GatesInv, NEW g \in Gate!Declared, NEW v \in {"on", "off"}, Gate!Published(g, v),
           UNCHANGED <<mode, unset, flash>>,
           up' \in {up, up \cup {g}}, g \in up', up' = up => mayBe'[g] = mayBe[g] \cup {v},
           mayBe' \in [Gate!Gate -> SUBSET {"on", "off"}], told' \in [Gate!Gate -> SUBSET {"on", "off"}],
           \A h \in Gate!Gate : mayBe[h] \subseteq mayBe'[h] /\ told[h] \subseteq told'[h],
           v \in mayBe'[g] \/ ~Gate!Persistent(g), g \in up \/ g \notin seen
    PROVE  /\ gate' \in [Gate!Gate -> {"on", "off"}] /\ seen' \subseteq Gate!Declared \cap up'
           /\ cached' \in [Gate!Gate -> {"on", "off", "none"}]
           /\ \A h \in Gate!Declared : Gate!Persistent(h) => Restorable(h)'
           /\ \A h \in unset : \A w \in {"on", "off"} :
                Unasked(h, w) /\ (h = g => w \in told'[g] \/ v # w) => Unasked(h, w)'
<1>0. /\ gate \in [Gate!Gate -> {"on", "off"}] /\ seen \subseteq Gate!Declared \cap up
      /\ cached \in [Gate!Gate -> {"on", "off", "none"}] /\ Gate!Declared \subseteq Gate!Gate
      /\ unset \subseteq Gate!Declared
  BY DEF GatesInv, Gate!TypeOK, Gate!Declared
<1>1. /\ gate' = [gate EXCEPT ![g] = v]
      /\ seen' = seen \cup {g}
      /\ cached' = IF Gate!Persistent(g) /\ (g \notin seen \/ gate[g] # v)
                   THEN [cached EXCEPT ![g] = v] ELSE cached
  BY DEF Gate!Published
<1>2. /\ gate' \in [Gate!Gate -> {"on", "off"}] /\ seen' \subseteq Gate!Declared \cap up'
      /\ cached' \in [Gate!Gate -> {"on", "off", "none"}]
  BY <1>0, <1>1
<1>3. \A h \in Gate!Gate \ {g} : gate'[h] = gate[h] /\ cached'[h] = cached[h]
  BY <1>0, <1>1
<1>4. \A h \in Gate!Gate : Kept(h)' = Kept(h)
  BY DEF Kept
<1>5. ASSUME NEW h \in Gate!Declared, Gate!Persistent(h) PROVE Restorable(h)'
  <2>1. Restorable(h)
    BY <1>5 DEF GatesInv
  <2>2. CASE h # g
    BY <1>0, <1>1, <1>3, <1>4, <2>1, <2>2 DEF Restorable
  <2>3. CASE h = g
    <3>1. gate'[g] = v /\ v \in mayBe'[g] /\ g \in seen'
      BY <1>0, <1>1, <1>5, <2>3
    <3>2. CASE g \notin seen \/ gate[g] # v
      BY <1>0, <1>1, <1>4, <1>5, <2>1, <2>3, <3>1, <3>2 DEF Restorable
    <3>3. CASE g \in seen /\ gate[g] = v
      BY <1>0, <1>1, <1>4, <1>5, <2>1, <2>3, <3>1, <3>3 DEF Restorable
    <3>. QED
      BY <3>2, <3>3
  <2>. QED
    BY <2>2, <2>3
<1>6. ASSUME NEW h \in unset, NEW w \in {"on", "off"}, Unasked(h, w),
             h = g => w \in told'[g] \/ v # w
      PROVE  Unasked(h, w)'
  <2>1. h \in Gate!Gate
    BY <1>0
  <2>2. CASE h # g
    BY <1>0, <1>3, <1>4, <1>6, <2>1, <2>2 DEF Unasked
  <2>3. CASE h = g
    <3>1. gate'[g] = v /\ cached'[g] \in {cached[g], v}
      BY <1>0, <1>1
    <3>. QED
      BY <1>0, <1>4, <1>6, <2>1, <2>3, <3>1 DEF Unasked
  <2>. QED
    BY <2>2, <2>3
<1>. QED
  BY <1>2, <1>5, <1>6

LEMMA InitialFacts ==
    ASSUME GatesInv, NEW g \in Gate!Declared
    PROVE  /\ Gate!Initial(g) \in {"on", "off"}
           /\ Gate!Persistent(g) => Gate!Initial(g) = Kept(g)
BY DEF GatesInv, Gate!TypeOK, Gate!Initial, Kept, Gate!ByMode, Gate!Declared

LEMMA SetupKeeps ==
    ASSUME Gate!ConstantsAssumption, GatesInv, NEW c \in Gate!Gate \cup {"link"}, Gate!Setup(c)
    PROVE  GatesInv'
<1>0. /\ c \in Gate!Component \ up /\ up' = up \cup {c}
      /\ \A d \in Gate!Component \ up : Gate!Priority(d) <= Gate!Priority(c)
      /\ UNCHANGED <<unset, mode, flash, sent, mayBe, told, boots>>
      /\ Gate!Declared' = Gate!Declared /\ Gate!Component' = Gate!Component /\ Gate!Declared \subseteq Gate!Gate
  BY DEF Gate!Setup, Gate!Declared, Gate!Component
<1>9. /\ gate \in [Gate!Gate -> {"on", "off"}] /\ seen \subseteq Gate!Declared \cap up
      /\ cached \in [Gate!Gate -> {"on", "off", "none"}] /\ unset \subseteq Gate!Declared
      /\ \A h \in Gate!Declared : Gate!Persistent(h) => Restorable(h)
      /\ "link" \in up => Gate!Declared \subseteq up
      /\ "screen" \in unset => Unasked("screen", "off")
      /\ "night" \in unset => Unasked("night", "on")
  BY DEF GatesInv, Gate!TypeOK
<1>. DEFINE Rest == /\ gate' \in [Gate!Gate -> {"on", "off"}] /\ seen' \subseteq Gate!Declared \cap up'
                    /\ cached' \in [Gate!Gate -> {"on", "off", "none"}]
                    /\ \A h \in Gate!Declared : Gate!Persistent(h) => Restorable(h)'
                    /\ "link" \in up' => Gate!Declared \subseteq up'
                    /\ "screen" \in unset => Unasked("screen", "off")'
                    /\ "night" \in unset => Unasked("night", "on")'
<1>1. ASSUME c = "link" PROVE Rest
  <2>1. UNCHANGED <<gate, seen, cached>> /\ "link" \notin Gate!Gate
    BY <1>1 DEF Gate!Setup, Gate!Gate
  <2>2. Gate!Declared \subseteq up
    <3>1. ASSUME NEW g \in Gate!Declared, g \notin up PROVE FALSE
      BY <1>0, <1>1, <2>1, <3>1 DEF Gate!Component, Gate!Priority
    <3>. QED
      BY <3>1
  <2>3. \A h \in Gate!Gate : Kept(h)' = Kept(h)
    BY <1>0 DEF Kept
  <2>4. \A h \in Gate!Gate : h \in up' <=> h \in up
    BY <1>0, <1>1, <2>1
  <2>5. \A h \in Gate!Gate : (Restorable(h) => Restorable(h)')
    BY <1>0, <2>1, <2>3, <2>4 DEF Restorable
  <2>6. \A h \in Gate!Gate : \A w \in {"on", "off"} : Unasked(h, w) => Unasked(h, w)'
    BY <1>0, <2>1, <2>3, <2>4 DEF Unasked
  <2>. QED
    BY <1>0, <1>9, <2>1, <2>2, <2>5, <2>6
<1>2. ASSUME c \in Gate!Gate PROVE Rest
  <2>0. c \in Gate!Declared /\ c # "link" /\ c \notin up /\ "link" \notin Gate!Gate
    BY <1>0, <1>2 DEF Gate!Component, Gate!Gate
  <2>1. CASE mode[c] = "RESTORE_DISABLED"
    <3>1. UNCHANGED <<gate, seen, cached>> /\ ~Gate!Persistent(c)
      BY <1>2, <2>1 DEF Gate!Setup, Gate!SetupSwitch, Gate!Persistent
    <3>2. c \notin unset
      BY <3>1, UnsetPersist
    <3>3. \A h \in Gate!Gate : Kept(h)' = Kept(h)
      BY <1>0 DEF Kept
    <3>4. \A h \in Gate!Gate \ {c} : (Restorable(h) => Restorable(h)')
      BY <1>0, <3>1, <3>3 DEF Restorable
    <3>5. \A h \in Gate!Gate \ {c} : \A w \in {"on", "off"} : Unasked(h, w) => Unasked(h, w)'
      BY <1>0, <3>1, <3>3 DEF Unasked
    <3>. QED
      BY <1>0, <1>9, <2>0, <3>1, <3>2, <3>4, <3>5
  <2>2. CASE mode[c] # "RESTORE_DISABLED"
    <3>1. Gate!Published(c, Gate!Initial(c))
      BY <1>2, <2>2 DEF Gate!Setup, Gate!SetupSwitch
    <3>2. /\ Gate!Initial(c) \in {"on", "off"}
          /\ Gate!Persistent(c) => Gate!Initial(c) = Kept(c) /\ Gate!Initial(c) \in mayBe[c]
      BY <2>0, InitialFacts DEF GatesInv, Restorable
    <3>3. /\ mayBe' \in [Gate!Gate -> SUBSET {"on", "off"}] /\ mayBe' = mayBe
          /\ told' \in [Gate!Gate -> SUBSET {"on", "off"}] /\ told' = told
          /\ c \notin seen /\ up' # up
      BY <1>0, <2>0 DEF GatesInv, Gate!TypeOK
    <3>4. /\ gate' \in [Gate!Gate -> {"on", "off"}] /\ seen' \subseteq Gate!Declared \cap up'
          /\ cached' \in [Gate!Gate -> {"on", "off", "none"}]
          /\ \A h \in Gate!Declared : Gate!Persistent(h) => Restorable(h)'
          /\ \A h \in unset : \A w \in {"on", "off"} :
               Unasked(h, w) /\ (h = c => w \in told'[c] \/ Gate!Initial(c) # w)
               => Unasked(h, w)'
      BY <1>0, <2>0, <3>1, <3>2, <3>3, PublishedKeeps
    <3>5. \A h \in unset : \A w \in {"on", "off"} : Unasked(h, w) => Unasked(h, w)'
      BY <3>2, <3>3, <3>4, UnsetPersist DEF Unasked
    <3>. QED
      BY <1>0, <1>9, <2>0, <3>4, <3>5
  <2>. QED
    BY <2>1, <2>2
<1>3. Rest
  BY <1>0, <1>1, <1>2
<1>4. Gate!TypeOK'
  BY <1>0, <1>3 DEF GatesInv, Gate!TypeOK
<1>5. \A h \in Gate!Declared' : Gate!Persistent(h)' => Restorable(h)'
  BY <1>0, <1>3 DEF Gate!Persistent
<1>. QED
  BY <1>0, <1>3, <1>4, <1>5 DEF GatesInv, Gate!UntouchedIsAsBefore

LEMMA ToggleKeeps ==
    ASSUME GatesInv, NEW g \in Gate!Gate, NEW v \in {"on", "off"}, Gate!Toggle(g, v)
    PROVE  GatesInv'
<1>0. /\ g \in Gate!Declared \cap up /\ Gate!Published(g, v)
      /\ mayBe' = [mayBe EXCEPT ![g] = @ \cup {v}]
      /\ told' = [told EXCEPT ![g] = @ \cup {v}]
      /\ UNCHANGED <<unset, mode, up, flash, sent, boots>>
      /\ Gate!Declared' = Gate!Declared /\ Gate!Component' = Gate!Component
  BY DEF Gate!Toggle, Gate!Declared, Gate!Component
<1>1. /\ mayBe \in [Gate!Gate -> SUBSET {"on", "off"}] /\ told \in [Gate!Gate -> SUBSET {"on", "off"}]
      /\ unset \subseteq Gate!Declared
  BY DEF GatesInv, Gate!TypeOK
<1>2. /\ mayBe' \in [Gate!Gate -> SUBSET {"on", "off"}] /\ told' \in [Gate!Gate -> SUBSET {"on", "off"}]
      /\ mayBe'[g] = mayBe[g] \cup {v} /\ told'[g] = told[g] \cup {v}
      /\ \A h \in Gate!Gate : mayBe[h] \subseteq mayBe'[h] /\ told[h] \subseteq told'[h]
  BY <1>0, <1>1
<1>3. /\ gate' \in [Gate!Gate -> {"on", "off"}] /\ seen' \subseteq Gate!Declared \cap up'
      /\ cached' \in [Gate!Gate -> {"on", "off", "none"}]
      /\ \A h \in Gate!Declared : Gate!Persistent(h) => Restorable(h)'
      /\ \A h \in unset : \A w \in {"on", "off"} :
           Unasked(h, w) /\ (h = g => w \in told'[g] \/ v # w) => Unasked(h, w)'
  BY <1>0, <1>2, PublishedKeeps
<1>4. \A h \in unset : \A w \in {"on", "off"} : Unasked(h, w) => Unasked(h, w)'
  BY <1>2, <1>3
<1>5. Gate!TypeOK'
  BY <1>0, <1>3 DEF GatesInv, Gate!TypeOK
<1>6. \A h \in Gate!Declared' : Gate!Persistent(h)' => Restorable(h)'
  BY <1>0, <1>3 DEF Gate!Persistent
<1>7. Gate!UntouchedIsAsBefore'
  BY <1>0, <1>2 DEF GatesInv, Gate!UntouchedIsAsBefore, Gate!Gate
<1>8. /\ \A h \in unset' : mode'[h] = Gate!DefaultMode[h]
      /\ "link" \in up' => Gate!Declared' \subseteq up'
      /\ "screen" \in unset' => Unasked("screen", "off")'
      /\ "night" \in unset' => Unasked("night", "on")'
  BY <1>0, <1>4 DEF GatesInv
<1>. QED
  BY <1>2, <1>5, <1>6, <1>7, <1>8 DEF GatesInv

(* The preferences are written, and the node may restart then.             *)
LEMMA FlushedFacts ==
    ASSUME GatesInv, flash' = Gate!Flushed, UNCHANGED mode,
           cached' = [g \in Gate!Gate |-> "none"],
           mayBe' = [g \in Gate!Gate |-> IF Gate!Persistent(g) /\ g \in up THEN {gate[g]} ELSE mayBe[g]]
    PROVE  /\ flash' \in [Gate!Gate -> {"on", "off", "none"}]
           /\ cached' \in [Gate!Gate -> {"on", "off", "none"}]
           /\ mayBe' \in [Gate!Gate -> SUBSET {"on", "off"}]
           /\ \A g \in Gate!Declared : Gate!Persistent(g) =>
                /\ Kept(g)' \in mayBe'[g]
                /\ g \in up => flash'[g] = gate[g] /\ gate[g] \in mayBe'[g]
           /\ \A g \in Gate!Gate : Kept(g)' \in {Kept(g), cached[g]}
<1>0. /\ gate \in [Gate!Gate -> {"on", "off"}] /\ Gate!Declared \subseteq Gate!Gate
      /\ cached \in [Gate!Gate -> {"on", "off", "none"}]
      /\ flash \in [Gate!Gate -> {"on", "off", "none"}]
      /\ mayBe \in [Gate!Gate -> SUBSET {"on", "off"}]
  BY DEF GatesInv, Gate!TypeOK, Gate!Declared
<1>1. \A g \in Gate!Gate : /\ flash'[g] = IF cached[g] # "none" THEN cached[g] ELSE flash[g]
                           /\ cached'[g] = "none"
                           /\ mayBe'[g] = IF Gate!Persistent(g) /\ g \in up THEN {gate[g]} ELSE mayBe[g]
  BY DEF Gate!Flushed
<1>2. /\ flash' \in [Gate!Gate -> {"on", "off", "none"}]
      /\ cached' \in [Gate!Gate -> {"on", "off", "none"}]
      /\ mayBe' \in [Gate!Gate -> SUBSET {"on", "off"}]
  BY <1>0 DEF Gate!Flushed
<1>3. \A g \in Gate!Gate : /\ cached[g] # "none" => Kept(g)' = cached[g]
                           /\ cached[g] = "none" => Kept(g)' = Kept(g)
  BY <1>1 DEF Kept
<1>4. ASSUME NEW g \in Gate!Declared, Gate!Persistent(g)
      PROVE  /\ Kept(g)' \in mayBe'[g]
             /\ g \in up => flash'[g] = gate[g] /\ gate[g] \in mayBe'[g]
  <2>1. Restorable(g)
    BY <1>4 DEF GatesInv
  <2>2. CASE g \in up
    <3>1. flash'[g] = gate[g] /\ mayBe'[g] = {gate[g]} /\ gate[g] # "none"
      BY <1>0, <1>1, <1>4, <2>1, <2>2 DEF Restorable
    <3>. QED
      BY <3>1 DEF Kept
  <2>3. CASE g \notin up
    BY <1>0, <1>1, <1>3, <2>1, <2>3 DEF Restorable
  <2>. QED
    BY <2>2, <2>3
<1>5. ASSUME NEW g \in Gate!Gate PROVE Kept(g)' \in {Kept(g), cached[g]}
  <2>1. CASE cached[g] = "none"
    BY <1>3, <2>1
  <2>2. CASE cached[g] # "none"
    <3>1. Kept(g)' = cached[g]
      BY <1>3, <2>2
    <3>. QED
      BY <3>1
  <2>. QED
    BY <2>1, <2>2
<1>. QED
  BY <1>2, <1>4, <1>5

LEMMA FlushKeeps ==
    ASSUME GatesInv, Gate!Flush
    PROVE  GatesInv'
<1>0. /\ flash' = Gate!Flushed /\ cached' = [g \in Gate!Gate |-> "none"]
      /\ mayBe' = [g \in Gate!Gate |-> IF Gate!Persistent(g) /\ g \in up THEN {gate[g]} ELSE mayBe[g]]
      /\ UNCHANGED <<unset, mode, up, gate, seen, sent, told, boots>>
      /\ Gate!Declared' = Gate!Declared /\ Gate!Component' = Gate!Component /\ Gate!Declared \subseteq Gate!Gate
      /\ unset \subseteq Gate!Declared
  BY DEF Gate!Flush, Gate!Declared, Gate!Component, GatesInv, Gate!TypeOK
<1>1. /\ flash' \in [Gate!Gate -> {"on", "off", "none"}]
      /\ cached' \in [Gate!Gate -> {"on", "off", "none"}]
      /\ mayBe' \in [Gate!Gate -> SUBSET {"on", "off"}]
      /\ \A g \in Gate!Declared : Gate!Persistent(g) =>
           /\ Kept(g)' \in mayBe'[g]
           /\ g \in up => flash'[g] = gate[g] /\ gate[g] \in mayBe'[g]
      /\ \A g \in Gate!Gate : Kept(g)' \in {Kept(g), cached[g]}
  BY <1>0, FlushedFacts
<1>2. \A g \in Gate!Gate : cached'[g] = "none"
  BY <1>0
<1>3. ASSUME NEW g \in Gate!Declared, Gate!Persistent(g) PROVE Restorable(g)'
  <2>1. Restorable(g)
    BY <1>3 DEF GatesInv
  <2>. QED
    BY <1>0, <1>1, <1>2, <1>3, <2>1 DEF Restorable
<1>4. \A g \in Gate!Gate : \A w \in {"on", "off"} : Unasked(g, w) => Unasked(g, w)'
  BY <1>0, <1>1, <1>2 DEF Unasked
<1>5. Gate!TypeOK'
  BY <1>0, <1>1 DEF GatesInv, Gate!TypeOK
<1>6. \A h \in Gate!Declared' : Gate!Persistent(h)' => Restorable(h)'
  BY <1>0, <1>3 DEF Gate!Persistent
<1>7. /\ \A h \in unset' : mode'[h] = Gate!DefaultMode[h]
      /\ "link" \in up' => Gate!Declared' \subseteq up'
      /\ "screen" \in unset' => Unasked("screen", "off")'
      /\ "night" \in unset' => Unasked("night", "on")'
      /\ Gate!UntouchedIsAsBefore' /\ told' \in [Gate!Gate -> SUBSET {"on", "off"}]
  BY <1>0, <1>4 DEF GatesInv, Gate!UntouchedIsAsBefore, Gate!Gate
<1>. QED
  BY <1>1, <1>5, <1>6, <1>7 DEF GatesInv

LEMMA StartKeeps ==
    ASSUME Gate!ConstantsAssumption, GatesInv, Gate!Reboot \/ Gate!PowerLoss
    PROVE  GatesInv'
<1>a. /\ up' = {} /\ sent' = {"none"} /\ seen' = {} /\ boots < MaxBoots /\ boots' = boots + 1
      /\ gate' = [g \in Gate!Gate |-> "off"] /\ cached' = [g \in Gate!Gate |-> "none"]
      /\ UNCHANGED <<unset, mode, told>>
  BY DEF Gate!Reboot, Gate!PowerLoss, Gate!Start
<1>b. /\ Gate!Declared' = Gate!Declared /\ Gate!Component' = Gate!Component /\ Gate!Declared \subseteq Gate!Gate
      /\ unset \subseteq Gate!Declared
  BY <1>a DEF Gate!Declared, Gate!Component, GatesInv, Gate!TypeOK
<1>0. /\ up' = {} /\ sent' = {"none"} /\ seen' = {} /\ boots < MaxBoots /\ boots' = boots + 1
      /\ gate' = [g \in Gate!Gate |-> "off"] /\ cached' = [g \in Gate!Gate |-> "none"]
      /\ UNCHANGED <<unset, mode, told>>
      /\ Gate!Declared' = Gate!Declared /\ Gate!Component' = Gate!Component /\ Gate!Declared \subseteq Gate!Gate
      /\ unset \subseteq Gate!Declared
  BY <1>a, <1>b
<1>1. /\ flash' \in [Gate!Gate -> {"on", "off", "none"}]
      /\ mayBe' \in [Gate!Gate -> SUBSET {"on", "off"}]
      /\ \A g \in Gate!Declared : Gate!Persistent(g) => Kept(g)' \in mayBe'[g]
      /\ \A g \in Gate!Gate : Kept(g)' \in {Kept(g), cached[g]}
  <2>1. CASE Gate!Reboot
    BY <1>0, <2>1, FlushedFacts DEF Gate!Reboot
  <2>2. CASE Gate!PowerLoss
    <3>1. UNCHANGED <<flash, mayBe>>
      BY <2>2 DEF Gate!PowerLoss
    <3>2. \A g \in Gate!Gate : Kept(g)' = Kept(g)
      BY <1>0, <3>1 DEF Kept
    <3>3. \A g \in Gate!Declared : Gate!Persistent(g) => Kept(g) \in mayBe[g]
      BY DEF GatesInv, Restorable
    <3>. QED
      BY <1>0, <3>1, <3>2, <3>3 DEF GatesInv, Gate!TypeOK
  <2>. QED
    BY <2>1, <2>2
<1>2. \A g \in Gate!Gate : cached'[g] = "none" /\ g \notin up'
  BY <1>0
<1>3. \A g \in Gate!Declared : Gate!Persistent(g) => Restorable(g)'
  BY <1>0, <1>1, <1>2 DEF Restorable
<1>4. \A g \in Gate!Gate : \A w \in {"on", "off"} : Unasked(g, w) => Unasked(g, w)'
  BY <1>0, <1>1, <1>2 DEF Unasked
<1>5. Gate!TypeOK'
  <2>1. boots' \in 1..MaxBoots
    <3>1. boots \in 1..MaxBoots
      BY DEF GatesInv, Gate!TypeOK
    <3>. QED
      BY <1>0, <3>1, BootsBound
  <2>2. gate' \in [Gate!Gate -> {"on", "off"}] /\ cached' \in [Gate!Gate -> {"on", "off", "none"}]
    BY <1>0
  <2>3. unset' \subseteq Gate!Declared' /\ mode' \in [Gate!Gate -> Gate!Modes \cup {"no mode"}]
    BY <1>0 DEF GatesInv, Gate!TypeOK
  <2>. QED
    BY <1>0, <1>1, <2>1, <2>2, <2>3 DEF Gate!TypeOK
<1>6. \A h \in Gate!Declared' : Gate!Persistent(h)' => Restorable(h)'
  BY <1>0, <1>3 DEF Gate!Persistent
<1>7. /\ \A h \in unset' : mode'[h] = Gate!DefaultMode[h]
      /\ "link" \in up' => Gate!Declared' \subseteq up'
      /\ "screen" \in unset' => Unasked("screen", "off")'
      /\ "night" \in unset' => Unasked("night", "on")'
      /\ Gate!UntouchedIsAsBefore' /\ told' \in [Gate!Gate -> SUBSET {"on", "off"}]
  BY <1>0, <1>4 DEF GatesInv, Gate!UntouchedIsAsBefore, Gate!Gate
<1>. QED
  BY <1>1, <1>5, <1>6, <1>7 DEF GatesInv

(* STATE carries the gates as they are set. *)
LEMMA FlagsFacts ==
    ASSUME GatesInv
    PROVE  /\ "SCREEN_OFF" \in Gate!Flags <=> "screen" \in Gate!Declared /\ gate["screen"] = "off"
           /\ "NIGHT" \in Gate!Flags <=> "night" \in Gate!Declared /\ gate["night"] = "on"
           /\ \A g \in Gate!Declared : Gate!Heard(Gate!Flags, g) = gate[g]
<1>1. "SCREEN_OFF" \in Gate!Flags <=> "screen" \in Gate!Declared /\ gate["screen"] = "off"
  BY DEF Gate!Flags
<1>2. "NIGHT" \in Gate!Flags <=> "night" \in Gate!Declared /\ gate["night"] = "on"
  BY DEF Gate!Flags
<1>3. gate \in [Gate!Gate -> {"on", "off"}]
  BY DEF GatesInv, Gate!TypeOK
<1>4. ASSUME NEW g \in Gate!Declared PROVE Gate!Heard(Gate!Flags, g) = gate[g]
  BY <1>1, <1>2, <1>3 DEF Gate!Heard, Gate!Declared, Gate!Gate
<1>. QED
  BY <1>1, <1>2, <1>4

LEMMA SendKeeps ==
    ASSUME GatesInv, Gate!SendState
    PROVE  GatesInv' /\ Gate!GateOutlivesReboot
<1>0. /\ "link" \in up /\ sent' = Gate!Flags
      /\ UNCHANGED <<unset, mode, up, gate, seen, cached, flash, mayBe, told, boots>>
      /\ Gate!Declared' = Gate!Declared /\ Gate!Component' = Gate!Component /\ Gate!Declared \subseteq up
      /\ unset \subseteq Gate!Declared
  BY DEF Gate!SendState, Gate!Declared, Gate!Component, GatesInv, Gate!TypeOK
<1>1. Gate!UntouchedIsAsBefore'
  <2>1. ASSUME "screen" \in unset, "SCREEN_OFF" \in Gate!Flags PROVE "off" \in told["screen"]
    BY <1>0, <2>1, FlagsFacts DEF GatesInv, Unasked
  <2>2. ASSUME "night" \in unset, "NIGHT" \in Gate!Flags PROVE "on" \in told["night"]
    BY <1>0, <2>2, FlagsFacts DEF GatesInv, Unasked
  <2>. QED
    BY <1>0, <2>1, <2>2 DEF Gate!UntouchedIsAsBefore
<1>2. Gate!GateOutlivesReboot
  <2>1. ASSUME NEW g \in Gate!Declared, Gate!Persistent(g) PROVE Gate!Heard(Gate!Flags, g) \in mayBe[g]
    <3>1. Restorable(g) /\ g \in up
      BY <1>0, <2>1 DEF GatesInv
    <3>. QED
      BY <3>1, FlagsFacts DEF Restorable
  <2>. QED
    BY <1>0, <2>1 DEF Gate!GateOutlivesReboot
<1>3. Gate!TypeOK'
  BY <1>0 DEF GatesInv, Gate!TypeOK
<1>4. \A h \in Gate!Declared' : Gate!Persistent(h)' => Restorable(h)'
  BY <1>0 DEF GatesInv, Gate!Persistent, Restorable, Kept
<1>5. /\ "screen" \in unset' => Unasked("screen", "off")'
      /\ "night" \in unset' => Unasked("night", "on")'
  BY <1>0 DEF GatesInv, Unasked, Kept
<1>. QED
  BY <1>0, <1>1, <1>2, <1>3, <1>4, <1>5 DEF GatesInv

LEMMA GatesRest == ASSUME GatesInv, UNCHANGED Gate!vars PROVE GatesInv'
<1>1. Gate!Declared' = Gate!Declared /\ Gate!Component' = Gate!Component
  BY DEF Gate!vars, Gate!Declared, Gate!Component
<1>2. Gate!TypeOK' /\ Gate!UntouchedIsAsBefore'
  BY <1>1 DEF Gate!vars, GatesInv, Gate!TypeOK, Gate!UntouchedIsAsBefore
<1>3. \A h \in Gate!Declared' : Gate!Persistent(h)' => Restorable(h)'
  BY <1>1 DEF Gate!vars, GatesInv, Gate!Persistent, Restorable, Kept
<1>4. /\ "screen" \in unset' => Unasked("screen", "off")'
      /\ "night" \in unset' => Unasked("night", "on")'
  BY DEF Gate!vars, GatesInv, Unasked, Kept
<1>. QED
  BY <1>1, <1>2, <1>3, <1>4 DEF Gate!vars, GatesInv

LEMMA GatesNext ==
    ASSUME Gate!ConstantsAssumption, GatesInv, [Gate!Next]_(Gate!vars)
    PROVE  GatesInv' /\ (Gate!Next => Gate!GateOutlivesReboot)
<1>1. ASSUME UNCHANGED sent \/ sent' = {"none"} PROVE Gate!GateOutlivesReboot
  BY <1>1 DEF Gate!GateOutlivesReboot
<1>2. ASSUME NEW c \in Gate!Gate \cup {"link"}, Gate!Setup(c) PROVE GatesInv' /\ Gate!GateOutlivesReboot
  <2>1. UNCHANGED sent
    BY <1>2 DEF Gate!Setup
  <2>. QED
    BY <1>1, <1>2, <2>1, SetupKeeps
<1>3. ASSUME NEW g \in Gate!Gate, NEW v \in {"on", "off"}, Gate!Toggle(g, v)
      PROVE  GatesInv' /\ Gate!GateOutlivesReboot
  <2>1. UNCHANGED sent
    BY <1>3 DEF Gate!Toggle
  <2>. QED
    BY <1>1, <1>3, <2>1, ToggleKeeps
<1>4. ASSUME Gate!Flush PROVE GatesInv' /\ Gate!GateOutlivesReboot
  <2>1. UNCHANGED sent
    BY <1>4 DEF Gate!Flush
  <2>. QED
    BY <1>1, <1>4, <2>1, FlushKeeps
<1>5. ASSUME Gate!Reboot \/ Gate!PowerLoss PROVE GatesInv' /\ Gate!GateOutlivesReboot
  <2>1. sent' = {"none"}
    BY <1>5 DEF Gate!Reboot, Gate!PowerLoss, Gate!Start
  <2>. QED
    BY <1>1, <1>5, <2>1, StartKeeps
<1>. QED
  BY <1>2, <1>3, <1>4, <1>5, SendKeeps, GatesRest DEF Gate!Next

GatesService == scenario = "gates" => GatesInv

LEMMA GatesServiceKept ==
    /\ Init => GatesService
    /\ GatesService /\ [Next]_vars => GatesService'
<1>1. Gate!ConstantsAssumption
  BY InstancesAssumption
<1>2. Init => GatesService
  BY <1>1, GatesInit DEF Init, GatesService
<1>3. GatesService /\ [Next]_vars => GatesService'
  <2>. SUFFICES ASSUME GatesService, [Next]_vars, scenario' = "gates"
                PROVE  GatesInv'
    BY DEF GatesService
  <2>1. scenario = "gates"
    BY DEF Next, vars
  <2>2. [Gate!Next]_(Gate!vars)
    BY <2>1 DEF Next, vars, gates, Gate!vars
  <2>. QED
    BY <1>1, <2>1, <2>2, GatesNext DEF GatesService
<1>. QED
  BY <1>2, <1>3

(* A gate that is restored is as it was left, through any restart and loss *)
(* of power, and one that nobody touched puts no Link to sleep             *)
(* (ScreenSwitch, NightSwitch, hvac_get_state).                            *)
THEOREM GatesAreKept == Spec => GatesEndure
<1>. DEFINE A == scenario = "gates" =>
                   /\ Gate!TypeOK' /\ Gate!GateOutlivesReboot
                   /\ Gate!UntouchedIsAsBefore'
<1>1. ASSUME GatesService, Next PROVE A
  <2>. SUFFICES ASSUME scenario = "gates"
                PROVE  /\ Gate!TypeOK' /\ Gate!GateOutlivesReboot
                       /\ Gate!UntouchedIsAsBefore'
    OBVIOUS
  <2>1. Gate!Next
    BY <1>1 DEF Next
  <2>. QED
    BY <1>1, <2>1, GatesNext, InstancesAssumption
    DEF InstancesAssumption, GatesService, GatesInv
<1>2. GatesService /\ Next => A
  BY <1>1
<1>. HIDE DEF A
<1>3. Spec => [][A]_vars
  BY <1>2, GatesServiceKept, PTL DEF Spec
<1>. QED
  BY <1>3 DEF GatesEndure, A

----------------------------------------------------------------------------
(* Commands of dials. *)

(* What the entity may be asked for: values of some parts. *)
Call == UNION {[S -> Values] : S \in SUBSET Band!Part}

(* The latest command of a part waits, with the value commanded. *)
Waits(p) == Band!BitOf(p) \in cmdPending /\ cmdHold[p] # none

(* A value is shown in place of the device's. *)
Held(p) == Band!BitOf(p) \in overlay /\ cmdHold[p] # none

(* LatestIsSent of one part. *)
Sent(p) ==
    cmdWant[p] = none \/ why[p] \cap {"denied", "halved"} # {}
        \/ IF Waits(p) THEN cmdHold[p] = cmdWant[p] ELSE Band!Coming(p) = cmdWant[p]

(* Nothing but the last value of a part is shown, reported or under way.   *)
OnlyLatest(p) ==
    cmdWant[p] = none \/ why[p] # {}
        \/ /\ IF Held(p) THEN cmdHold[p] = cmdWant[p] ELSE device[p] = cmdWant[p]
           /\ \A i \in DOMAIN flight : p \in DOMAIN flight[i] => flight[i][p] = cmdWant[p]

(* A part that is in some call is in a last one. *)
HasLast(p) ==
    (\E i \in DOMAIN flight : p \in DOMAIN flight[i])
        => \E i \in DOMAIN flight : Band!IsLast(i, p)

BandInv ==
    /\ Band!TypeOK /\ flight \in Seq(Call)
    /\ age > EchoHold => overlay = {}
    /\ \A p \in Band!Part : Sent(p) /\ OnlyLatest(p) /\ HasLast(p)

LEMMA BandSizes ==
    ASSUME Band!ConstantsAssumption
    PROVE  /\ none \notin Values /\ Debounce \in Nat /\ EchoHold \in Nat
           /\ EchoHold > 0 /\ MaxCmds \in Nat /\ MaxEvents \in Nat
BY DEF Band!ConstantsAssumption

LEMMA CallFacts ==
    ASSUME NEW c \in Call
    PROVE  DOMAIN c \subseteq Band!Part /\ \A p \in DOMAIN c : c[p] \in Values
BY DEF Call

(* Coming, IsLast and HasLast of a queue q and a device with value v.      *)
LastIn(q, i, p) ==
    p \in DOMAIN q[i] /\ \A j \in i+1..Len(q) : p \notin DOMAIN q[j]

NowhereIn(q, p) == \A i \in DOMAIN q : p \notin DOMAIN q[i]

ComingIn(q, v, p) ==
    IF NowhereIn(q, p) THEN v ELSE q[CHOOSE i \in DOMAIN q : LastIn(q, i, p)][p]

SomeLast(q, p) == NowhereIn(q, p) \/ \E i \in DOMAIN q : LastIn(q, i, p)

LEMMA InTheQueue ==
    ASSUME NEW p \in Band!Part
    PROVE  /\ Band!Coming(p) = ComingIn(flight, device[p], p)
           /\ Band!Coming(p)' = ComingIn(flight', device'[p], p)
           /\ HasLast(p) <=> SomeLast(flight, p)
           /\ HasLast(p)' <=> SomeLast(flight', p)
<1>1. /\ Band!Coming(p) = ComingIn(flight, device[p], p)
      /\ Band!Coming(p)' = ComingIn(flight', device'[p], p)
  BY DEF Band!Coming, ComingIn, Band!IsLast, LastIn, NowhereIn
<1>2. /\ HasLast(p) <=> SomeLast(flight, p)
      /\ HasLast(p)' <=> SomeLast(flight', p)
  BY DEF HasLast, SomeLast, Band!IsLast, LastIn, NowhereIn
<1>. QED
  BY <1>1, <1>2

(* There is only one last. *)
LEMMA OneLast ==
    ASSUME NEW p \in Band!Part, NEW q \in Seq(Call), NEW v,
           NEW i \in DOMAIN q, LastIn(q, i, p)
    PROVE  ComingIn(q, v, p) = q[i][p]
<1>. DEFINE l == CHOOSE j \in DOMAIN q : LastIn(q, j, p)
<1>1. l \in DOMAIN q /\ LastIn(q, l, p)
  OBVIOUS
<1>2. i \in 1..Len(q) /\ l \in 1..Len(q) /\ Len(q) \in Nat
  BY <1>1
<1>3. ~(i < l) /\ ~(l < i)
  BY <1>1, <1>2 DEF LastIn
<1>4. i = l
  BY <1>2, <1>3
<1>5. ~NowhereIn(q, p)
  BY DEF LastIn, NowhereIn
<1>. QED
  BY <1>4, <1>5 DEF ComingIn

(* A call is made. *)
LEMMA AppendComing ==
    ASSUME NEW p \in Band!Part, NEW q \in Seq(Call), NEW v, NEW c \in Call, SomeLast(q, p)
    PROVE  /\ SomeLast(Append(q, c), p)
           /\ ComingIn(Append(q, c), v, p) = IF p \in DOMAIN c THEN c[p] ELSE ComingIn(q, v, p)
<1>. DEFINE r == Append(q, c)
<1>1. /\ r \in Seq(Call) /\ Len(q) \in Nat /\ Len(r) = Len(q) + 1
      /\ DOMAIN q = 1..Len(q) /\ DOMAIN r = 1..Len(q)+1
      /\ \A i \in 1..Len(q) : r[i] = q[i]
      /\ r[Len(q) + 1] = c
  OBVIOUS
<1>. HIDE DEF r
<1>2. CASE p \in DOMAIN c
  <2>1. Len(q) + 1 \in DOMAIN r /\ LastIn(r, Len(q) + 1, p)
    BY <1>1, <1>2 DEF LastIn
  <2>2. SomeLast(r, p) /\ ComingIn(r, v, p) = r[Len(q) + 1][p]
    BY <1>1, <2>1, OneLast DEF SomeLast
  <2>. QED
    BY <1>1, <1>2, <2>2 DEF r
<1>3. CASE p \notin DOMAIN c
  <2>1. CASE NowhereIn(q, p)
    <3>1. NowhereIn(r, p)
      <4>1. ASSUME NEW i \in DOMAIN r PROVE p \notin DOMAIN r[i]
        <5>1. i \in 1..Len(q) \/ i = Len(q) + 1
          BY <1>1
        <5>. QED
          BY <1>1, <1>3, <2>1, <5>1 DEF NowhereIn
      <4>. QED
        BY <4>1 DEF NowhereIn
    <3>. QED
      BY <1>3, <2>1, <3>1 DEF ComingIn, SomeLast, r
  <2>2. CASE \E i \in DOMAIN q : LastIn(q, i, p)
    <3>1. PICK i \in DOMAIN q : LastIn(q, i, p)
      BY <2>2
    <3>2. i \in DOMAIN r /\ r[i] = q[i]
      BY <1>1
    <3>3. LastIn(r, i, p)
      <4>1. ASSUME NEW j \in i+1..Len(r) PROVE p \notin DOMAIN r[j]
        <5>1. j \in i+1..Len(q) \/ j = Len(q) + 1
          BY <1>1
        <5>2. j \in i+1..Len(q) => j \in 1..Len(q)
          BY <1>1
        <5>. QED
          BY <1>1, <1>3, <3>1, <5>1, <5>2 DEF LastIn
      <4>. QED
        BY <3>1, <3>2, <4>1 DEF LastIn
    <3>4. ComingIn(r, v, p) = q[i][p] /\ ComingIn(q, v, p) = q[i][p]
      BY <1>1, <3>1, <3>2, <3>3, OneLast
    <3>. QED
      BY <1>3, <3>2, <3>3, <3>4 DEF SomeLast, r
  <2>. QED
    BY <2>1, <2>2 DEF SomeLast
<1>. QED
  BY <1>2, <1>3

(* A call leaves the head of the queue, and a device that may take its     *)
(* value.                                                                  *)
LEMMA TailComing ==
    ASSUME NEW p \in Band!Part, NEW q \in Seq(Call), q # <<>>, NEW v, NEW w, SomeLast(q, p),
           w = IF p \in DOMAIN Head(q) THEN Head(q)[p] ELSE v
    PROVE  SomeLast(Tail(q), p) /\ ComingIn(Tail(q), w, p) = ComingIn(q, v, p)
<1>. DEFINE r == Tail(q)
<1>1. /\ r \in Seq(Call) /\ Len(q) \in Nat /\ Len(r) = Len(q) - 1
      /\ DOMAIN q = 1..Len(q) /\ DOMAIN r = 1..Len(q)-1
      /\ Len(q) >= 1
      /\ \A i \in 1..Len(q)-1 : r[i] = q[i + 1]
      /\ Head(q) = q[1]
  OBVIOUS
<1>. HIDE DEF r
<1>2. CASE NowhereIn(q, p)
  <2>1. NowhereIn(r, p)
    <3>1. ASSUME NEW i \in DOMAIN r PROVE p \notin DOMAIN r[i]
      <4>1. i + 1 \in DOMAIN q /\ r[i] = q[i + 1]
        BY <1>1
      <4>. QED
        BY <1>2, <4>1 DEF NowhereIn
    <3>. QED
      BY <3>1 DEF NowhereIn
  <2>2. w = v
    BY <1>1, <1>2 DEF NowhereIn
  <2>. QED
    BY <1>2, <2>1, <2>2 DEF SomeLast, ComingIn, r
<1>3. CASE \E i \in DOMAIN q : LastIn(q, i, p)
  <2>1. PICK i \in DOMAIN q : LastIn(q, i, p)
    BY <1>3
  <2>2. ComingIn(q, v, p) = q[i][p]
    BY <2>1, OneLast
  <2>3. CASE i = 1
    <3>1. NowhereIn(r, p)
      <4>1. ASSUME NEW j \in DOMAIN r PROVE p \notin DOMAIN r[j]
        <5>1. j + 1 \in 1+1..Len(q) /\ r[j] = q[j + 1]
          BY <1>1
        <5>. QED
          BY <2>1, <2>3, <5>1 DEF LastIn
      <4>. QED
        BY <4>1 DEF NowhereIn
    <3>2. w = q[1][p]
      BY <1>1, <2>1, <2>3 DEF LastIn
    <3>. QED
      BY <2>2, <2>3, <3>1, <3>2 DEF SomeLast, ComingIn, r
  <2>4. CASE i # 1
    <3>1. i - 1 \in DOMAIN r /\ r[i - 1] = q[i]
      BY <1>1, <2>4
    <3>2. LastIn(r, i - 1, p)
      <4>1. ASSUME NEW j \in (i - 1)+1..Len(r) PROVE p \notin DOMAIN r[j]
        <5>1. j + 1 \in i+1..Len(q) /\ r[j] = q[j + 1]
          BY <1>1
        <5>. QED
          BY <2>1, <5>1 DEF LastIn
      <4>. QED
        BY <2>1, <3>1, <4>1 DEF LastIn
    <3>3. ComingIn(r, w, p) = q[i][p]
      BY <1>1, <3>1, <3>2, OneLast
    <3>. QED
      BY <2>2, <3>1, <3>2, <3>3 DEF SomeLast, r
  <2>. QED
    BY <2>3, <2>4
<1>. QED
  BY <1>2, <1>3 DEF SomeLast

(* A bit leaves the overlay when the hold ends or its parts are confirmed. *)
LEMMA LeftFacts ==
    ASSUME NEW p \in Band!Part, NEW ov, NEW h, NEW a
    PROVE  /\ Band!LeftOf(ov, h, a) \subseteq ov
           /\ Band!Expired(a) => Band!LeftOf(ov, h, a) = {}
           /\ Band!BitOf(p) \in ov /\ Band!BitOf(p) \notin Band!LeftOf(ov, h, a) /\ ~Band!Expired(a)
                => h[p] \in {none, device[p]}
<1>1. p \in Band!PartsOf({Band!BitOf(p)})
  BY DEF Band!PartsOf
<1>. QED
  BY <1>1 DEF Band!LeftOf, Band!Confirmed

LEMMA BitOfPart == \A p \in Band!Part : Band!BitOf(p) \in Band!Bit
BY DEF Band!Part, Band!Bit, Band!BitOf

LEMMA BandInit == ASSUME Band!ConstantsAssumption, Band!Init PROVE BandInv
<1>1. Band!TypeOK
  BY BandSizes DEF Band!Init, Band!TypeOK
<1>2. flight \in Seq(Call) /\ (age > EchoHold => overlay = {})
  BY BandSizes DEF Band!Init
<1>3. ASSUME NEW p \in Band!Part PROVE Sent(p) /\ OnlyLatest(p) /\ HasLast(p)
  BY <1>3 DEF Band!Init, Sent, OnlyLatest, HasLast
<1>. QED
  BY <1>1, <1>2, <1>3 DEF BandInv

(* A step that leaves the queue alone. *)
LEMMA QueueSame ==
    ASSUME NEW p \in Band!Part, flight' = flight, device' = device, HasLast(p)
    PROVE  HasLast(p)' /\ Band!Coming(p)' = Band!Coming(p)
<1>1. SomeLast(flight, p)
  BY InTheQueue
<1>. QED
  BY <1>1, InTheQueue

LEMMA BandCmd == ASSUME Band!ConstantsAssumption, BandInv, Band!Cmd PROVE BandInv'
<1>. USE BandSizes
<1>1. PICK B \in SUBSET Band!Bit : \E v \in [Band!PartsOf(B) -> Values \cup {none}] :
         LET h == Band!Over(v, cmdHold)
             ov == overlay \cup B
             a == IF B # {} THEN 0 ELSE age
         IN  /\ \A p \in Band!PartsOf(B) \cap Field : v[p] # none
             /\ cmdHold' = h
             /\ cmdPending' = Band!Merged(B)
             /\ timer' = Band!Rearmed(cmdPending')
             /\ overlay' = Band!LeftOf(ov, h, a) /\ age' = a
             /\ cmdWant' = [p \in Band!Part |-> IF p \in DOMAIN v /\ v[p] # none
                                        THEN v[p] ELSE cmdWant[p]]
             /\ why' = [p \in Band!Part |->
                   IF p \notin DOMAIN v THEN why[p]
                   ELSE IF v[p] = none
                   THEN why[p] \cup IF "band" \in cmdPending \cup overlay /\ cmdHold[p] # none
                                    THEN {"halved"} ELSE {}
                   ELSE IF \E i \in DOMAIN flight :
                             p \in DOMAIN flight[i] /\ flight[i][p] # v[p]
                   THEN {"crossed"} ELSE {}]
  BY DEF Band!Cmd
<1>2. PICK v \in [Band!PartsOf(B) -> Values \cup {none}] :
         LET h == Band!Over(v, cmdHold)
             ov == overlay \cup B
             a == IF B # {} THEN 0 ELSE age
         IN  /\ \A p \in Band!PartsOf(B) \cap Field : v[p] # none
             /\ cmdHold' = h
             /\ cmdPending' = Band!Merged(B)
             /\ timer' = Band!Rearmed(cmdPending')
             /\ overlay' = Band!LeftOf(ov, h, a) /\ age' = a
             /\ cmdWant' = [p \in Band!Part |-> IF p \in DOMAIN v /\ v[p] # none
                                        THEN v[p] ELSE cmdWant[p]]
             /\ why' = [p \in Band!Part |->
                   IF p \notin DOMAIN v THEN why[p]
                   ELSE IF v[p] = none
                   THEN why[p] \cup IF "band" \in cmdPending \cup overlay /\ cmdHold[p] # none
                                    THEN {"halved"} ELSE {}
                   ELSE IF \E i \in DOMAIN flight :
                             p \in DOMAIN flight[i] /\ flight[i][p] # v[p]
                   THEN {"crossed"} ELSE {}]
  BY <1>1
<1>. DEFINE a == IF B # {} THEN 0 ELSE age
<1>3. /\ cmdHold' = Band!Over(v, cmdHold) /\ cmdPending' = cmdPending \cup B
      /\ timer' \in {Debounce, timer}
      /\ overlay' = Band!LeftOf(overlay \cup B, cmdHold', a) /\ age' = a
      /\ cmds < MaxCmds /\ cmds' = cmds + 1
      /\ device' = device /\ flight' = flight /\ cmdEvents' = cmdEvents
  BY <1>2 DEF Band!Merged, Band!Rearmed, Band!Cmd
<1>4. Band!TypeOK /\ flight \in Seq(Call) /\ (age > EchoHold => overlay = {})
  BY DEF BandInv
<1>5. Band!PartsOf(B) \subseteq Band!Part /\ DOMAIN v = Band!PartsOf(B)
  BY DEF Band!PartsOf
<1>6. /\ cmdHold' \in [Band!Part -> Values \cup {none}]
      /\ \A p \in Band!Part : cmdHold'[p] = IF p \in DOMAIN v THEN v[p] ELSE cmdHold[p]
  <2>1. cmdHold \in [Band!Part -> Values \cup {none}] /\ \A p \in DOMAIN v : v[p] \in Values \cup {none}
    BY <1>4 DEF Band!TypeOK
  <2>2. cmdHold' = [p \in Band!Part |-> IF p \in DOMAIN v THEN v[p] ELSE cmdHold[p]]
    BY <1>3 DEF Band!Over
  <2>. QED
    BY <2>1, <2>2
<1>7. overlay' \subseteq overlay \cup B
  BY <1>3 DEF Band!LeftOf
<1>8. a \in 0..EchoHold+1 /\ (a > EchoHold => B = {} /\ overlay = {})
  BY <1>4 DEF Band!TypeOK
<1>9. cmdWant' \in [Band!Part -> Values \cup {none}]
  <2>1. \A p \in Band!Part : (IF p \in DOMAIN v /\ v[p] # none THEN v[p] ELSE cmdWant[p])
                          \in Values \cup {none}
    BY <1>4 DEF Band!TypeOK
  <2>. QED
    BY <1>2, <2>1
<1>10. ASSUME NEW p \in Band!Part
       PROVE  /\ cmdWant'[p] = IF p \in DOMAIN v /\ v[p] # none THEN v[p] ELSE cmdWant[p]
              /\ why'[p] = IF p \notin DOMAIN v THEN why[p]
                   ELSE IF v[p] = none
                   THEN why[p] \cup IF "band" \in cmdPending \cup overlay /\ cmdHold[p] # none
                                    THEN {"halved"} ELSE {}
                   ELSE IF \E i \in DOMAIN flight :
                             p \in DOMAIN flight[i] /\ flight[i][p] # v[p]
                   THEN {"crossed"} ELSE {}
  BY <1>2
<1>11. why' \in [Band!Part -> SUBSET {"denied", "crossed", "expired", "halved"}]
  <2>1. \A p \in Band!Part : why'[p] \in SUBSET {"denied", "crossed", "expired", "halved"}
    BY <1>4, <1>10 DEF Band!TypeOK
  <2>2. \E f : why' = [p \in Band!Part |-> f[p]]
    <3>1. why' = [p \in Band!Part |-> why'[p]]
      BY <1>2
    <3>. QED
      BY <3>1
  <2>. QED
    BY <2>1, <2>2
<1>12. Band!TypeOK'
  <2>1. overlay' \subseteq Band!Bit /\ cmdPending' \subseteq Band!Bit
    BY <1>3, <1>4, <1>7 DEF Band!TypeOK
  <2>2. age' \in 0..EchoHold+1 /\ timer' \in -1..Debounce /\ cmds' \in 0..MaxCmds
    BY <1>3, <1>4, <1>8 DEF Band!TypeOK
  <2>. QED
    BY <1>3, <1>4, <1>6, <1>9, <1>11, <2>1, <2>2 DEF Band!TypeOK
<1>13. age' > EchoHold => overlay' = {}
  BY <1>3, <1>7, <1>8
<1>14. ASSUME NEW p \in Band!Part PROVE (Sent(p) /\ OnlyLatest(p) /\ HasLast(p))'
  <2>. DEFINE b == Band!BitOf(p)
  <2>1. Sent(p) /\ OnlyLatest(p) /\ HasLast(p)
    BY DEF BandInv
  <2>2. HasLast(p)' /\ Band!Coming(p)' = Band!Coming(p)
    BY <1>3, <2>1, QueueSame
  <2>3. /\ overlay' \subseteq overlay \cup B
        /\ b \in overlay \cup B /\ b \notin overlay' /\ a <= EchoHold
             => cmdHold'[p] = none \/ cmdHold'[p] = device[p]
    <3>1. a <= EchoHold => ~Band!Expired(a)
      BY <1>8 DEF Band!Expired
    <3>. QED
      BY <1>3, <3>1, LeftFacts
  <2>4. b \in B <=> p \in DOMAIN v
    BY <1>5 DEF Band!PartsOf
  <2>. HIDE DEF a, b
  <2>5. CASE p \in DOMAIN v /\ v[p] # none
    <3>1. cmdHold'[p] = v[p] /\ cmdWant'[p] = v[p]
      BY <1>6, <1>10, <2>5
    <3>2. Sent(p)'
      BY <1>3, <2>4, <2>5, <3>1 DEF Sent, Waits, b
    <3>3. a <= EchoHold /\ b \in B
      BY <2>4, <2>5 DEF a
    <3>4. OnlyLatest(p)'
      <4>1. CASE \E i \in DOMAIN flight : p \in DOMAIN flight[i] /\ flight[i][p] # v[p]
        <5>1. why'[p] # {}
          BY <1>10, <2>5, <4>1
        <5>. QED
          BY <5>1 DEF OnlyLatest
      <4>2. CASE \A i \in DOMAIN flight : p \in DOMAIN flight[i] => flight[i][p] = v[p]
        <5>1. IF Held(p)' THEN cmdHold'[p] = cmdWant'[p] ELSE device'[p] = cmdWant'[p]
          BY <1>3, <2>3, <2>5, <3>1, <3>3 DEF Held, b
        <5>. QED
          BY <1>3, <3>1, <4>2, <5>1 DEF OnlyLatest
      <4>. QED
        BY <4>1, <4>2
    <3>. QED
      BY <2>2, <3>2, <3>4
  <2>6. CASE p \in DOMAIN v /\ v[p] = none
    <3>1. b = "band"
      BY <1>2, <1>5, <2>6 DEF b, Band!BitOf, Band!Part
    <3>2. cmdHold'[p] = none /\ cmdWant'[p] = cmdWant[p]
      BY <1>6, <1>10, <2>6
    <3>3. CASE "band" \in cmdPending \cup overlay /\ cmdHold[p] # none
      <4>1. "halved" \in why'[p]
        BY <1>10, <2>6, <3>3
      <4>. QED
        BY <2>2, <4>1 DEF Sent, OnlyLatest
    <3>4. CASE ~("band" \in cmdPending \cup overlay /\ cmdHold[p] # none)
      <4>1. why'[p] = why[p]
        BY <1>10, <2>6, <3>4
      <4>2. ~Waits(p) /\ ~Held(p) /\ ~Waits(p)' /\ ~Held(p)'
        BY <3>1, <3>2, <3>4 DEF Waits, Held, b
      <4>3. Sent(p)'
        BY <2>1, <2>2, <3>2, <4>1, <4>2 DEF Sent
      <4>4. OnlyLatest(p)'
        BY <1>3, <2>1, <3>2, <4>1, <4>2 DEF OnlyLatest
      <4>. QED
        BY <2>2, <4>3, <4>4
    <3>. QED
      BY <3>3, <3>4
  <2>7. CASE p \notin DOMAIN v
    <3>1. cmdHold'[p] = cmdHold[p] /\ cmdWant'[p] = cmdWant[p] /\ why'[p] = why[p]
      BY <1>6, <1>10, <2>7
    <3>2. Waits(p)' <=> Waits(p)
      BY <1>3, <2>4, <2>7, <3>1 DEF Waits, b
    <3>3. /\ Held(p)' => Held(p)
          /\ Held(p) /\ ~Held(p)' => cmdHold[p] = device[p]
      <4>1. b \notin B
        BY <2>4, <2>7
      <4>2. Held(p) => a <= EchoHold
        BY <1>4, <1>8 DEF Held, b
      <4>. QED
        BY <2>3, <3>1, <4>1, <4>2 DEF Held, b
    <3>4. Sent(p)'
      BY <2>1, <2>2, <3>1, <3>2 DEF Sent
    <3>5. OnlyLatest(p)'
      BY <1>3, <2>1, <3>1, <3>3 DEF OnlyLatest
    <3>. QED
      BY <2>2, <3>4, <3>5
  <2>. QED
    BY <2>5, <2>6, <2>7
<1>. QED
  BY <1>3, <1>4, <1>12, <1>13, <1>14 DEF BandInv

LEMMA BandApply == ASSUME Band!ConstantsAssumption, BandInv, Band!ApplyPending PROVE BandInv'
<1>. USE BandSizes
<1>. DEFINE S == {q \in Band!PartsOf(cmdPending) : cmdHold[q] # none}
            c == [p \in S |-> cmdHold[p]]
<1>1. /\ timer' = -1 /\ cmdPending' = {} /\ flight' = Append(flight, c)
      /\ UNCHANGED <<cmdHold, overlay, age, device, cmdWant, why, cmds, cmdEvents>>
  BY DEF Band!ApplyPending
<1>2. Band!TypeOK /\ flight \in Seq(Call) /\ (age > EchoHold => overlay = {})
  BY DEF BandInv
<1>3. \A p \in Band!Part : p \in S <=> Waits(p)
  BY DEF Band!PartsOf, Waits
<1>4. c \in Call /\ DOMAIN c = S /\ \A p \in S : c[p] = cmdHold[p]
  <2>1. S \subseteq Band!Part /\ \A p \in S : cmdHold[p] \in Values
    BY <1>2 DEF Band!PartsOf, Band!TypeOK
  <2>2. c \in [S -> Values]
    BY <2>1
  <2>. QED
    BY <2>1, <2>2 DEF Call
<1>. HIDE DEF S, c
<1>5. flight' \in Seq(Call) /\ DOMAIN flight' = 1..Len(flight')
  BY <1>1, <1>2, <1>4
<1>6. Band!TypeOK'
  BY <1>1, <1>2, <1>5 DEF Band!TypeOK
<1>7. ASSUME NEW p \in Band!Part PROVE (Sent(p) /\ OnlyLatest(p) /\ HasLast(p))'
  <2>1. Sent(p) /\ OnlyLatest(p) /\ HasLast(p)
    BY DEF BandInv
  <2>2. /\ HasLast(p)'
        /\ Band!Coming(p)' = IF p \in DOMAIN c THEN c[p] ELSE Band!Coming(p)
    <3>1. SomeLast(flight, p) /\ Band!Coming(p) = ComingIn(flight, device[p], p)
      BY <2>1, InTheQueue
    <3>2. /\ SomeLast(flight', p)
          /\ ComingIn(flight', device[p], p)
               = IF p \in DOMAIN c THEN c[p] ELSE ComingIn(flight, device[p], p)
      BY <1>1, <1>2, <1>4, <3>1, AppendComing
    <3>. QED
      BY <1>1, <3>1, <3>2, InTheQueue
  <2>3. ~Waits(p)'
    BY <1>1 DEF Waits
  <2>4. Sent(p)'
    BY <1>1, <1>3, <1>4, <2>1, <2>2, <2>3 DEF Sent
  <2>5. Held(p)' <=> Held(p)
    BY <1>1 DEF Held
  <2>6. OnlyLatest(p)'
    <3>1. CASE cmdWant[p] = none \/ why[p] # {}
      BY <1>1, <3>1 DEF OnlyLatest
    <3>2. CASE cmdWant[p] # none /\ why[p] = {}
      <4>1. ASSUME NEW i \in DOMAIN flight', p \in DOMAIN flight'[i]
            PROVE  flight'[i][p] = cmdWant[p]
        <5>1. CASE i = Len(flight) + 1
          <6>1. flight'[i] = c
            BY <1>1, <1>2, <5>1
          <6>. QED
            BY <1>3, <1>4, <2>1, <3>2, <4>1, <6>1 DEF Sent
        <5>2. CASE i # Len(flight) + 1
          <6>1. i \in DOMAIN flight /\ flight'[i] = flight[i]
            BY <1>1, <1>2, <4>1, <5>2
          <6>. QED
            BY <2>1, <3>2, <4>1, <6>1 DEF OnlyLatest
        <5>. QED
          BY <5>1, <5>2
      <4>. QED
        BY <1>1, <2>1, <2>5, <3>2, <4>1 DEF OnlyLatest
    <3>. QED
      BY <3>1, <3>2
  <2>. QED
    BY <2>2, <2>4, <2>6
<1>. QED
  BY <1>1, <1>2, <1>5, <1>6, <1>7 DEF BandInv

LEMMA BandLoop ==
    ASSUME Band!ConstantsAssumption, BandInv, NEW dt \in 0..1, Band!Loop(dt) PROVE BandInv'
<1>. USE BandSizes
<1>1. /\ dt > 0 => timer # 0
      /\ age' = IF age + dt > EchoHold THEN EchoHold + 1 ELSE age + dt
      /\ timer' = IF timer = -1 THEN -1 ELSE timer - dt
      /\ overlay' = Band!LeftOf(overlay, cmdHold, age')
      /\ UNCHANGED <<cmdHold, cmdPending, device, flight, cmdWant, cmds, cmdEvents>>
  BY DEF Band!Loop
<1>2. Band!TypeOK /\ flight \in Seq(Call) /\ (age > EchoHold => overlay = {})
  BY DEF BandInv
<1>3. ASSUME NEW p \in Band!Part
      PROVE  why'[p] = IF Band!Expired(age') /\ Band!BitOf(p) \in overlay
                       THEN why[p] \cup {"expired"} ELSE why[p]
  BY DEF Band!Loop
<1>4. why' \in [Band!Part -> SUBSET {"denied", "crossed", "expired", "halved"}]
  <2>1. \A p \in Band!Part : why'[p] \in SUBSET {"denied", "crossed", "expired", "halved"}
    BY <1>2, <1>3 DEF Band!TypeOK
  <2>2. why' = [p \in Band!Part |-> why'[p]]
    BY DEF Band!Loop
  <2>. QED
    BY <2>1, <2>2
<1>5. overlay' \subseteq overlay
  BY <1>1 DEF Band!LeftOf
<1>6. Band!TypeOK'
  BY <1>1, <1>2, <1>4, <1>5 DEF Band!TypeOK
<1>7. age' > EchoHold => overlay' = {}
  BY <1>1 DEF Band!LeftOf, Band!Expired
<1>8. ASSUME NEW p \in Band!Part PROVE (Sent(p) /\ OnlyLatest(p) /\ HasLast(p))'
  <2>1. Sent(p) /\ OnlyLatest(p) /\ HasLast(p)
    BY DEF BandInv
  <2>2. HasLast(p)' /\ Band!Coming(p)' = Band!Coming(p)
    BY <1>1, <2>1, QueueSame
  <2>3. Waits(p)' <=> Waits(p)
    BY <1>1 DEF Waits
  <2>4. Sent(p)'
    BY <1>1, <1>3, <2>1, <2>2, <2>3 DEF Sent
  <2>5. CASE Band!Expired(age') /\ Band!BitOf(p) \in overlay
    <3>1. why'[p] # {}
      BY <1>3, <2>5
    <3>. QED
      BY <2>2, <2>4, <3>1 DEF OnlyLatest
  <2>6. CASE ~(Band!Expired(age') /\ Band!BitOf(p) \in overlay)
    <3>1. why'[p] = why[p]
      BY <1>3, <2>6
    <3>2. /\ Held(p)' => Held(p)
          /\ Held(p) /\ ~Held(p)' => cmdHold[p] = device[p]
      <4>1. Band!BitOf(p) \in overlay /\ Band!BitOf(p) \notin overlay' /\ ~Band!Expired(age')
              => cmdHold[p] \in {none, device[p]}
        BY <1>1, LeftFacts
      <4>. QED
        BY <1>1, <1>5, <2>6, <4>1 DEF Held
    <3>3. OnlyLatest(p)'
      BY <1>1, <2>1, <3>1, <3>2 DEF OnlyLatest
    <3>. QED
      BY <2>2, <2>4, <3>3
  <2>. QED
    BY <2>5, <2>6
<1>. QED
  BY <1>1, <1>2, <1>6, <1>7, <1>8 DEF BandInv

(* The head of the queue is carried out or refused. *)
LEMMA HeadFacts ==
    ASSUME NEW q \in Seq(Call), q # <<>>
    PROVE  /\ Tail(q) \in Seq(Call) /\ DOMAIN Tail(q) = 1..Len(Tail(q))
           /\ Head(q) \in Call /\ 1 \in DOMAIN q /\ Head(q) = q[1]
           /\ \A i \in DOMAIN Tail(q) : i + 1 \in DOMAIN q /\ Tail(q)[i] = q[i + 1]
OBVIOUS

LEMMA BandCarry == ASSUME Band!ConstantsAssumption, BandInv, Band!Carry PROVE BandInv'
<1>. DEFINE c == Head(flight)
<1>1. /\ flight # <<>> /\ flight' = Tail(flight) /\ device' = Band!Over(c, device)
      /\ UNCHANGED <<cmdHold, cmdPending, overlay, age, timer, cmdWant, why, cmds, cmdEvents>>
  BY DEF Band!Carry, Band!ours
<1>2. Band!TypeOK /\ flight \in Seq(Call) /\ (age > EchoHold => overlay = {})
  BY DEF BandInv
<1>3. /\ flight' \in Seq(Call) /\ DOMAIN flight' = 1..Len(flight')
      /\ c \in Call /\ 1 \in DOMAIN flight /\ c = flight[1]
      /\ \A i \in DOMAIN flight' : i + 1 \in DOMAIN flight /\ flight'[i] = flight[i + 1]
  BY <1>1, <1>2, HeadFacts
<1>. HIDE DEF c
<1>4. /\ device' \in [Band!Part -> Values]
      /\ \A p \in Band!Part : device'[p] = IF p \in DOMAIN c THEN c[p] ELSE device[p]
  <2>1. device \in [Band!Part -> Values] /\ \A p \in DOMAIN c : c[p] \in Values
    BY <1>2, <1>3, CallFacts DEF Band!TypeOK
  <2>2. device' = [p \in Band!Part |-> IF p \in DOMAIN c THEN c[p] ELSE device[p]]
    BY <1>1 DEF Band!Over
  <2>. QED
    BY <2>1, <2>2
<1>5. Band!TypeOK'
  BY <1>1, <1>2, <1>3, <1>4 DEF Band!TypeOK
<1>6. ASSUME NEW p \in Band!Part PROVE (Sent(p) /\ OnlyLatest(p) /\ HasLast(p))'
  <2>1. Sent(p) /\ OnlyLatest(p) /\ HasLast(p)
    BY DEF BandInv
  <2>2. HasLast(p)' /\ Band!Coming(p)' = Band!Coming(p)
    <3>1. SomeLast(flight, p) /\ Band!Coming(p) = ComingIn(flight, device[p], p)
      BY <2>1, InTheQueue
    <3>2. device'[p] = IF p \in DOMAIN Head(flight) THEN Head(flight)[p] ELSE device[p]
      BY <1>4 DEF c
    <3>3. /\ SomeLast(flight', p)
          /\ ComingIn(flight', device'[p], p) = ComingIn(flight, device[p], p)
      BY <1>1, <1>2, <3>1, <3>2, TailComing
    <3>. QED
      BY <3>1, <3>3, InTheQueue
  <2>3. /\ Waits(p)' <=> Waits(p)
        /\ Held(p)' <=> Held(p)
    BY <1>1 DEF Waits, Held
  <2>4. Sent(p)'
    BY <1>1, <2>1, <2>2, <2>3 DEF Sent
  <2>5. OnlyLatest(p)'
    <3>1. CASE cmdWant[p] = none \/ why[p] # {}
      BY <1>1, <3>1 DEF OnlyLatest
    <3>2. CASE cmdWant[p] # none /\ why[p] = {}
      <4>1. \A i \in DOMAIN flight' : p \in DOMAIN flight'[i] => flight'[i][p] = cmdWant[p]
        BY <1>3, <2>1, <3>2 DEF OnlyLatest
      <4>2. p \in DOMAIN c => c[p] = cmdWant[p]
        BY <1>3, <2>1, <3>2 DEF OnlyLatest
      <4>3. IF Held(p) THEN cmdHold[p] = cmdWant[p] ELSE device[p] = cmdWant[p]
        BY <2>1, <3>2 DEF OnlyLatest
      <4>4. IF Held(p)' THEN cmdHold'[p] = cmdWant'[p] ELSE device'[p] = cmdWant'[p]
        BY <1>1, <1>4, <2>3, <4>2, <4>3
      <4>. QED
        BY <1>1, <4>1, <4>4 DEF OnlyLatest
    <3>. QED
      BY <3>1, <3>2
  <2>. QED
    BY <2>2, <2>4, <2>5
<1>. QED
  BY <1>1, <1>2, <1>3, <1>5, <1>6 DEF BandInv

LEMMA BandReject == ASSUME Band!ConstantsAssumption, BandInv, Band!Reject PROVE BandInv'
<1>. USE BandSizes
<1>1. /\ flight # <<>> /\ flight' = Tail(flight)
      /\ cmdEvents < MaxEvents /\ cmdEvents' = cmdEvents + 1
      /\ UNCHANGED <<cmdHold, cmdPending, overlay, age, timer, device, cmdWant, cmds>>
  BY DEF Band!Reject, Band!ours
<1>2. Band!TypeOK /\ flight \in Seq(Call) /\ (age > EchoHold => overlay = {})
  BY DEF BandInv
<1>3. /\ flight' \in Seq(Call) /\ DOMAIN flight' = 1..Len(flight')
      /\ \A i \in DOMAIN flight' : i + 1 \in DOMAIN flight /\ flight'[i] = flight[i + 1]
  BY <1>1, <1>2, HeadFacts
<1>4. ASSUME NEW p \in Band!Part
      PROVE  why'[p] = IF p \in DOMAIN Head(flight) THEN why[p] \cup {"denied"} ELSE why[p]
  BY DEF Band!Reject
<1>5. why' \in [Band!Part -> SUBSET {"denied", "crossed", "expired", "halved"}]
  <2>1. \A p \in Band!Part : why'[p] \in SUBSET {"denied", "crossed", "expired", "halved"}
    BY <1>2, <1>4 DEF Band!TypeOK
  <2>2. why' = [p \in Band!Part |-> why'[p]]
    BY DEF Band!Reject
  <2>. QED
    BY <2>1, <2>2
<1>6. Band!TypeOK'
  BY <1>1, <1>2, <1>3, <1>5 DEF Band!TypeOK
<1>7. ASSUME NEW p \in Band!Part PROVE (Sent(p) /\ OnlyLatest(p) /\ HasLast(p))'
  <2>1. Sent(p) /\ OnlyLatest(p) /\ HasLast(p)
    BY DEF BandInv
  <2>2. /\ Waits(p)' <=> Waits(p)
        /\ Held(p)' <=> Held(p)
    BY <1>1 DEF Waits, Held
  <2>. DEFINE w == IF p \in DOMAIN Head(flight) THEN Head(flight)[p] ELSE device[p]
  <2>3. SomeLast(flight, p) /\ Band!Coming(p) = ComingIn(flight, device[p], p)
    BY <2>1, InTheQueue
  <2>4. /\ SomeLast(flight', p)
        /\ ComingIn(flight', w, p) = ComingIn(flight, device[p], p)
    BY <1>1, <1>2, <2>3, TailComing
  <2>5. CASE p \in DOMAIN Head(flight)
    <3>1. "denied" \in why'[p]
      BY <1>4, <2>5
    <3>. QED
      BY <2>4, <3>1, InTheQueue DEF Sent, OnlyLatest
  <2>6. CASE p \notin DOMAIN Head(flight)
    <3>1. why'[p] = why[p] /\ w = device[p]
      BY <1>4, <2>6
    <3>2. HasLast(p)' /\ Band!Coming(p)' = Band!Coming(p)
      BY <1>1, <2>3, <2>4, <3>1, InTheQueue
    <3>3. Sent(p)'
      BY <1>1, <2>1, <2>2, <3>1, <3>2 DEF Sent
    <3>4. OnlyLatest(p)'
      BY <1>1, <1>3, <2>1, <2>2, <3>1 DEF OnlyLatest
    <3>. QED
      BY <3>2, <3>3, <3>4
  <2>. QED
    BY <2>5, <2>6
<1>. QED
  BY <1>1, <1>2, <1>3, <1>6, <1>7 DEF BandInv

LEMMA BandElsewhere ==
    ASSUME Band!ConstantsAssumption, BandInv, NEW e \in Band!Part, Band!Elsewhere(e) PROVE BandInv'
<1>. USE BandSizes
<1>1. PICK v \in Values : device' = [device EXCEPT ![e] = v]
  BY DEF Band!Elsewhere
<1>2. /\ cmdEvents < MaxEvents /\ cmdEvents' = cmdEvents + 1
      /\ UNCHANGED <<cmdHold, cmdPending, overlay, age, timer, flight, cmdWant, cmds>>
  BY DEF Band!Elsewhere, Band!ours
<1>3. Band!TypeOK /\ flight \in Seq(Call) /\ (age > EchoHold => overlay = {})
  BY DEF BandInv
<1>4. device' \in [Band!Part -> Values] /\ \A p \in Band!Part : p # e => device'[p] = device[p]
  BY <1>1, <1>3 DEF Band!TypeOK
<1>5. /\ why' \in [Band!Part -> SUBSET {"denied", "crossed", "expired", "halved"}]
      /\ "denied" \in why'[e] /\ \A p \in Band!Part : p # e => why'[p] = why[p]
  BY <1>3 DEF Band!Elsewhere, Band!TypeOK
<1>6. Band!TypeOK'
  BY <1>2, <1>3, <1>4, <1>5 DEF Band!TypeOK
<1>7. ASSUME NEW p \in Band!Part PROVE (Sent(p) /\ OnlyLatest(p) /\ HasLast(p))'
  <2>1. Sent(p) /\ OnlyLatest(p) /\ HasLast(p)
    BY DEF BandInv
  <2>2. /\ Waits(p)' <=> Waits(p)
        /\ Held(p)' <=> Held(p)
    BY <1>2 DEF Waits, Held
  <2>3. HasLast(p)'
    <3>1. SomeLast(flight, p)
      BY <2>1, InTheQueue
    <3>. QED
      BY <1>2, <3>1, InTheQueue
  <2>4. CASE p = e
    BY <1>5, <2>3, <2>4 DEF Sent, OnlyLatest
  <2>5. CASE p # e
    <3>1. why'[p] = why[p] /\ device'[p] = device[p]
      BY <1>4, <1>5, <2>5
    <3>2. Band!Coming(p)' = Band!Coming(p)
      BY <1>2, <3>1, InTheQueue
    <3>3. Sent(p)'
      BY <1>2, <2>1, <2>2, <3>1, <3>2 DEF Sent
    <3>4. OnlyLatest(p)'
      BY <1>2, <2>1, <2>2, <3>1 DEF OnlyLatest
    <3>. QED
      BY <2>3, <3>3, <3>4
  <2>. QED
    BY <2>4, <2>5
<1>. QED
  BY <1>2, <1>3, <1>6, <1>7 DEF BandInv

LEMMA BandNext ==
    ASSUME Band!ConstantsAssumption, BandInv, [Band!Next]_(Band!vars) PROVE BandInv'
<1>1. CASE Band!Cmd
  BY <1>1, BandCmd
<1>2. CASE Band!ApplyPending
  BY <1>2, BandApply
<1>3. CASE \E dt \in 0..1 : Band!Loop(dt)
  BY <1>3, BandLoop
<1>4. CASE Band!Carry
  BY <1>4, BandCarry
<1>5. CASE Band!Reject
  BY <1>5, BandReject
<1>6. CASE \E p \in Band!Part : Band!Elsewhere(p)
  BY <1>6, BandElsewhere
<1>7. CASE UNCHANGED Band!vars
  <2>1. Band!TypeOK' /\ (flight \in Seq(Call))' /\ (age > EchoHold => overlay = {})'
    BY <1>7 DEF BandInv, Band!TypeOK, Band!vars, Band!ours
  <2>2. ASSUME NEW p \in Band!Part PROVE (Sent(p) /\ OnlyLatest(p) /\ HasLast(p))'
    <3>1. Sent(p) /\ OnlyLatest(p) /\ HasLast(p)
      BY DEF BandInv
    <3>2. /\ Waits(p)' <=> Waits(p)
          /\ Held(p)' <=> Held(p)
      BY <1>7 DEF Waits, Held, Band!vars, Band!ours
    <3>3. HasLast(p)' /\ Band!Coming(p)' = Band!Coming(p)
      BY <1>7, <3>1, QueueSame DEF Band!vars
    <3>. QED
      <4>1. /\ cmdHold' = cmdHold /\ cmdWant' = cmdWant /\ why' = why
            /\ device' = device /\ flight' = flight
        BY <1>7 DEF Band!vars, Band!ours
      <4>2. Sent(p)'
        BY <3>1, <3>2, <3>3, <4>1 DEF Sent
      <4>3. OnlyLatest(p)'
        BY <3>1, <3>2, <4>1 DEF OnlyLatest
      <4>. QED
        BY <3>3, <4>2, <4>3
  <2>. QED
    BY <2>1, <2>2 DEF BandInv
<1>. QED
  BY <1>1, <1>2, <1>3, <1>4, <1>5, <1>6, <1>7 DEF Band!Next

LEMMA BandTells ==
    ASSUME Band!ConstantsAssumption, BandInv PROVE Band!TypeOK /\ Band!LatestIsSent /\ Band!ShownIsLatest
<1>1. Band!LatestIsSent
  <2>1. ASSUME NEW p \in Band!Part
        PROVE  \/ cmdWant[p] = none \/ why[p] \cap {"denied", "halved"} # {}
               \/ IF Band!BitOf(p) \in cmdPending /\ cmdHold[p] # none THEN cmdHold[p] = cmdWant[p]
                  ELSE Band!Coming(p) = cmdWant[p]
    BY DEF BandInv, Sent, Waits
  <2>. QED
    BY <2>1 DEF Band!LatestIsSent
<1>2. Band!ShownIsLatest
  <2>1. ASSUME NEW p \in Band!Part
        PROVE  cmdWant[p] = none \/ why[p] # {} \/ Band!Shown(p) = cmdWant[p]
    <3>1. OnlyLatest(p) /\ (age > EchoHold => overlay = {})
      BY DEF BandInv
    <3>2. Held(p) => ~Band!Expired(age)
      BY <3>1 DEF Held, Band!Expired
    <3>. QED
      BY <3>1, <3>2 DEF OnlyLatest, Band!Shown, Held
  <2>. QED
    BY <2>1 DEF Band!ShownIsLatest
<1>. QED
  BY <1>1, <1>2 DEF BandInv

BandService == scenario = "band" => BandInv

LEMMA BandServiceKept ==
    /\ Init => BandService
    /\ BandService /\ [Next]_vars => BandService'
<1>1. Band!ConstantsAssumption
  BY InstancesAssumption
<1>2. Init => BandService
  BY <1>1, BandInit DEF Init, BandService
<1>3. BandService /\ [Next]_vars => BandService'
  <2>. SUFFICES ASSUME BandService, [Next]_vars, scenario' = "band"
                PROVE  BandInv'
    BY DEF BandService
  <2>1. scenario = "band"
    BY DEF Next, vars
  <2>2. [Band!Next]_(Band!vars)
    BY <2>1 DEF Next, vars, commands, Band!vars, Band!ours
  <2>. QED
    BY <1>1, <2>1, <2>2, BandNext DEF BandService
<1>. QED
  BY <1>2, <1>3

(* However commands of several dials overlap, the last value commanded of  *)
(* each part is waiting to be sent, on its way or in force, and is what    *)
(* dials are shown (hvac_apply, apply_pending_, apply_overlay_).           *)
THEOREM LastCommandIsKept == Spec => []LastCommandCounts
<1>1. BandService => LastCommandCounts
  BY BandTells, InstancesAssumption
  DEF InstancesAssumption, BandService, LastCommandCounts
<1>. QED
  BY <1>1, BandServiceKept, PTL DEF Spec

----------------------------------------------------------------------------
(* Pairing and forgetting from automations. *)

(* What an automation has decided to do. *)
LinkAction == [how : {"slot", "mac"}, slot : Int, mac : LinkDials \cup {none}, time : 0..MaxTime]

(* A row of the diagnostics. *)
SeenRow == [mac : LinkDials, time : 0..MaxTime]

(* In table b, no Link at i or behind it was bonded before time t. *)
NewerIn(b, at, i, t) == \A j \in DOMAIN b : j >= i => at[b[j]] >= t

(* The Link in a slot of table b. *)
MacAt(b, i) == IF i \in 0..(Len(b) - 1) THEN b[i + 1] ELSE none

(* The table is in the order of bonding.                                   *)
InOrder ==
    \A i, j \in DOMAIN linkBonds : i < j => bondedAt[linkBonds[i]] < bondedAt[linkBonds[j]]

LinkTypes ==
    /\ linkBonds \in Seq(LinkDials) /\ Len(linkBonds) <= LinkSlots
    /\ bondedAt \in [LinkDials -> 0..MaxTime] /\ clock \in 0..MaxTime
    /\ source \in LinkDials \cup {none}
    /\ rows \in Seq(SeenRow)
    /\ cand \in LinkDials \cup {none} /\ (cand # none => linkPairing)
    /\ plan \in Seq(LinkAction) /\ linkList \in Seq(LinkAction)

Bonding ==
    /\ InOrder
    /\ \A d \in LinkDials : bondedAt[d] <= clock

SeenInTime ==
    /\ \A i \in DOMAIN rows : NewerIn(linkBonds, bondedAt, i, rows[i].time) /\ rows[i].time <= clock
    /\ \A i \in DOMAIN plan :
         plan[i].mac # none =>
           NewerIn(linkBonds, bondedAt, plan[i].slot + 1, plan[i].time) /\ plan[i].time <= clock
    /\ \A i \in DOMAIN linkList :
         linkList[i].mac # none =>
           NewerIn(linkBonds, bondedAt, linkList[i].slot + 1, linkList[i].time) /\ linkList[i].time <= clock

(* The Links to forget are still in the slots where they were seen. *)
StillThere ==
    asSeen =>
      /\ Links!Descending(linkList)
      /\ \A i \in DOMAIN linkList : MacAt(linkBonds, linkList[i].slot) = linkList[i].mac

(* A candidate that is not bonded yet has a slot to go to. *)
SlotForCand ==
    cand # none /\ cand \notin Links!Range(linkBonds) => Len(linkBonds) < LinkSlots

LinkInv ==
    LinkTypes /\ Bonding /\ SeenInTime /\ StillThere /\ SlotForCand /\ Links!ShownIsSource

LEMMA LinkSizes ==
    ASSUME Links!ConstantsAssumption
    PROVE  /\ none \notin LinkDials /\ LinkSlots \in Nat /\ LinkSlots > 0 /\ MaxTime \in Nat
           /\ Lists \subseteq Seq(Int)
BY DEF Links!ConstantsAssumption

LEMMA NoTwice == ASSUME LinkTypes, InOrder PROVE Links!IsInjective(linkBonds)
<1>1. ASSUME NEW i \in DOMAIN linkBonds, NEW j \in DOMAIN linkBonds, linkBonds[i] = linkBonds[j]
      PROVE  i = j
  <2>1. /\ i \in Nat /\ j \in Nat /\ linkBonds[i] \in LinkDials
        /\ bondedAt[linkBonds[i]] \in Int
    BY DEF LinkTypes
  <2>2. ~(i < j) /\ ~(j < i)
    BY <1>1, <2>1 DEF InOrder
  <2>. QED
    BY <2>1, <2>2
<1>. QED
  BY <1>1 DEF Links!IsInjective

(* Position in a table that has no Link twice. *)
LEMMA PositionFacts ==
    ASSUME NEW s \in Seq(LinkDials), \A i, j \in DOMAIN s : s[i] = s[j] => i = j,
           NEW id
    PROVE  /\ id \notin Links!Range(s) => Links!Position(id, s) = 0
           /\ id \in Links!Range(s) => Links!Position(id, s) \in DOMAIN s /\ s[Links!Position(id, s)] = id
           /\ \A i \in DOMAIN s : s[i] = id => Links!Position(id, s) = i
<1>1. id \in Links!Range(s) => \E i \in DOMAIN s : s[i] = id
  BY DEF Links!Range
<1>2. ASSUME NEW i \in DOMAIN s, s[i] = id PROVE Links!Position(id, s) = i
  <2>1. id \in Links!Range(s)
    BY <1>2 DEF Links!Range
  <2>. QED
    BY <1>2, <2>1 DEF Links!Position
<1>. QED
  BY <1>1, <1>2 DEF Links!Position

LEMMA LinkInit == ASSUME Links!ConstantsAssumption, Links!Init PROVE LinkInv
<1>1. LinkTypes
  BY LinkSizes DEF Links!Init, LinkTypes
<1>2. Bonding /\ SeenInTime /\ StillThere /\ SlotForCand
  BY LinkSizes DEF Links!Init, Bonding, InOrder, SeenInTime, StillThere,
     Links!Descending, SlotForCand
<1>3. Links!ShownIsSource
  BY DEF Links!Init, Links!ShownIsSource, Links!Position, Links!Range
<1>. QED
  BY <1>1, <1>2, <1>3 DEF LinkInv

(* What forgetting the Link at k does to the rest of the table. *)
LEMMA LinkRemoved ==
    ASSUME Links!ConstantsAssumption, LinkInv, NEW k \in DOMAIN linkBonds, linkBonds' = Links!Removed(linkBonds, k)
    PROVE  /\ linkBonds' \in Seq(LinkDials) /\ Len(linkBonds') = Len(linkBonds) - 1
           /\ \A j \in DOMAIN linkBonds' : linkBonds'[j] = IF j < k THEN linkBonds[j] ELSE linkBonds[j + 1]
           /\ Links!Range(linkBonds') = Links!Range(linkBonds) \ {linkBonds[k]}
<1>. DEFINE n == Len(linkBonds)
<1>1. linkBonds \in Seq(LinkDials) /\ n \in Nat /\ DOMAIN linkBonds = 1..n
  BY DEF LinkInv, LinkTypes
<1>2. /\ linkBonds' \in Seq(LinkDials) /\ Len(linkBonds') = n - 1 /\ DOMAIN linkBonds' = 1..n-1
      /\ \A j \in 1..n-1 : linkBonds'[j] = IF j < k THEN linkBonds[j] ELSE linkBonds[j + 1]
  <2>1. linkBonds' = HoleClosed(linkBonds, k)
    BY DEF Links!Removed, Links!Without, HoleClosed
  <2>2. /\ HoleClosed(linkBonds, k) \in Seq(LinkDials)
        /\ Len(HoleClosed(linkBonds, k)) = Len(linkBonds) - 1
        /\ \A j \in 1..Len(linkBonds)-1 :
             HoleClosed(linkBonds, k)[j] = IF j < k THEN linkBonds[j] ELSE linkBonds[j + 1]
    BY <1>1, HoleFacts
  <2>. QED
    BY <1>1, <2>1, <2>2
<1>3. \A i, j \in DOMAIN linkBonds : linkBonds[i] = linkBonds[j] => i = j
  BY NoTwice DEF LinkInv, Bonding, Links!IsInjective
<1>. HIDE DEF n
<1>4. ASSUME NEW x \in Links!Range(linkBonds') PROVE x \in Links!Range(linkBonds) \ {linkBonds[k]}
  <2>1. PICK j \in 1..n-1 : linkBonds'[j] = x
    BY <1>2, <1>4 DEF Links!Range
  <2>2. PICK i \in 1..n : x = linkBonds[i] /\ i # k
    <3>1. CASE j < k
      BY <1>1, <1>2, <2>1, <3>1
    <3>2. CASE ~(j < k)
      <4>1. j + 1 \in 1..n /\ j + 1 # k
        BY <1>1, <3>2
      <4>. QED
        BY <1>2, <2>1, <3>2, <4>1
    <3>. QED
      BY <3>1, <3>2
  <2>. QED
    BY <1>1, <1>3, <2>2 DEF Links!Range
<1>5. ASSUME NEW x \in Links!Range(linkBonds) \ {linkBonds[k]} PROVE x \in Links!Range(linkBonds')
  <2>1. PICK i \in 1..n : linkBonds[i] = x /\ i # k
    BY <1>1, <1>5 DEF Links!Range
  <2>2. CASE i < k
    <3>1. i \in 1..n-1 /\ linkBonds'[i] = x
      BY <1>1, <1>2, <2>1, <2>2
    <3>. QED
      BY <1>2, <3>1 DEF Links!Range
  <2>3. CASE ~(i < k)
    <3>1. i - 1 \in 1..n-1 /\ ~(i - 1 < k) /\ (i - 1) + 1 = i
      BY <1>1, <2>1, <2>3
    <3>2. linkBonds'[i - 1] = x
      BY <1>2, <2>1, <3>1
    <3>. QED
      BY <1>2, <3>1, <3>2 DEF Links!Range
  <2>. QED
    BY <2>2, <2>3
<1>. QED
  BY <1>2, <1>4, <1>5 DEF n

(* The source is reconciled with a table that has no Link twice. *)
LEMMA SourceShown ==
    ASSUME LinkInv, Links!Reconciled(linkBonds')
    PROVE  Links!ShownIsSource' /\ source' \in LinkDials \cup {none}
<1>1. source' = IF source \in Links!Range(linkBonds') THEN source ELSE none
  BY DEF Links!Reconciled
<1>2. linkShown' = Links!Position(source', linkBonds')
  BY DEF Links!Reconciled
<1>3. source \in LinkDials \cup {none}
  BY DEF LinkInv, LinkTypes
<1>. QED
  BY <1>1, <1>2, <1>3 DEF Links!ShownIsSource

(* A Link is forgotten: the rest keeps its order and what was seen.        *)
LEMMA LinkOut ==
    ASSUME Links!ConstantsAssumption, LinkInv, NEW k \in DOMAIN linkBonds,
           linkBonds' = Links!Removed(linkBonds, k), bondedAt' = bondedAt
    PROVE  InOrder' /\ \A i, t \in Int : NewerIn(linkBonds, bondedAt, i, t) => NewerIn(linkBonds', bondedAt', i, t)
<1>. DEFINE n == Len(linkBonds)
<1>1. /\ n \in Nat /\ DOMAIN linkBonds = 1..n /\ k \in 1..n
      /\ \A j \in 1..n : linkBonds[j] \in LinkDials /\ bondedAt[linkBonds[j]] \in Int
  BY DEF LinkInv, LinkTypes
<1>2. /\ DOMAIN linkBonds' = 1..n-1
      /\ \A j \in 1..n-1 : linkBonds'[j] = IF j < k THEN linkBonds[j] ELSE linkBonds[j + 1]
  BY LinkRemoved
<1>3. \A i, j \in 1..n : i < j => bondedAt[linkBonds[i]] < bondedAt[linkBonds[j]]
  BY <1>1 DEF LinkInv, Bonding, InOrder
<1>. HIDE DEF n
<1>4. InOrder'
  <2>1. ASSUME NEW i \in 1..n-1, NEW j \in 1..n-1, i < j
        PROVE  bondedAt[linkBonds'[i]] < bondedAt[linkBonds'[j]]
    <3>1. /\ i \in 1..n /\ j \in 1..n /\ i + 1 \in 1..n /\ j + 1 \in 1..n
          /\ i < j + 1 /\ i + 1 < j + 1
      BY <1>1, <2>1
    <3>2. CASE j < k
      BY <1>1, <1>2, <1>3, <2>1, <3>1, <3>2
    <3>3. CASE ~(j < k)
      <4>1. linkBonds'[j] = linkBonds[j + 1] /\ linkBonds'[i] \in {linkBonds[i], linkBonds[i + 1]}
        BY <1>2, <3>3
      <4>. QED
        BY <1>3, <3>1, <4>1
    <3>. QED
      BY <3>2, <3>3
  <2>. QED
    BY <1>2, <2>1 DEF InOrder
<1>5. ASSUME NEW i \in Int, NEW t \in Int, NewerIn(linkBonds, bondedAt, i, t) PROVE NewerIn(linkBonds', bondedAt', i, t)
  <2>1. ASSUME NEW j \in 1..n-1, j >= i PROVE bondedAt[linkBonds'[j]] >= t
    <3>1. j \in 1..n /\ j + 1 \in 1..n /\ j + 1 >= i
      BY <1>1, <2>1
    <3>. QED
      BY <1>1, <1>2, <1>5, <2>1, <3>1 DEF NewerIn
  <2>. QED
    BY <1>2, <2>1 DEF NewerIn
<1>. QED
  BY <1>4, <1>5

(* An action of the running list. *)
LEMMA LinkPlay ==
    ASSUME Links!ConstantsAssumption, LinkInv, Links!Play
    PROVE  /\ LinkInv' /\ Links!NeverAnOlderLink /\ Links!ListHitsSeen
<1>. USE LinkSizes
<1>. DEFINE t == Head(linkList)
            d == Links!Played(t)
<1>1. /\ linkList # <<>> /\ Links!ForgetMac(d) /\ linkList' = Tail(linkList)
      /\ UNCHANGED <<bondedAt, clock, rows, plan, asSeen>>
  BY DEF Links!Play
<1>2. /\ LinkTypes /\ Bonding /\ InOrder /\ SeenInTime /\ StillThere
      /\ SlotForCand /\ Links!ShownIsSource
  BY DEF LinkInv, Bonding
<1>3. /\ t \in LinkAction /\ 1 \in DOMAIN linkList /\ t = linkList[1]
      /\ linkList' \in Seq(LinkAction)
      /\ \A i \in DOMAIN linkList' : i + 1 \in DOMAIN linkList /\ linkList'[i] = linkList[i + 1]
  BY <1>1, <1>2 DEF LinkTypes
<1>4. \A i, j \in DOMAIN linkBonds : linkBonds[i] = linkBonds[j] => i = j
  BY <1>2, NoTwice DEF Links!IsInjective
<1>5. linkBonds \in Seq(LinkDials) /\ DOMAIN linkBonds = 1..Len(linkBonds) /\ Len(linkBonds) \in Nat
  BY <1>2 DEF LinkTypes
<1>6. d \in Links!Range(linkBonds) => d # none
  BY <1>5 DEF Links!Range
<1>. HIDE DEF d, t
<1>7. /\ \/ UNCHANGED <<linkPairing, cand>>
         \/ linkPairing' = FALSE /\ cand' = none
      /\ linkBonds' # linkBonds => cand' = none \/ (cand' = cand /\ cand # d)
      /\ \/ Links!Reconciled(linkBonds')
         \/ linkBonds' = linkBonds /\ source' = source /\ linkShown' = linkShown
      /\ \/ /\ d \in Links!Range(linkBonds)
            /\ linkBonds' = Links!Removed(linkBonds, Links!Position(d, linkBonds))
         \/ linkBonds' = linkBonds
  <2>1. CASE /\ d \in Links!Range(linkBonds)
             /\ linkBonds' = Links!Removed(linkBonds, Links!Position(d, linkBonds))
             /\ IF cand = d THEN linkPairing' = FALSE /\ cand' = none
                ELSE UNCHANGED <<linkPairing, cand>>
             /\ Links!Reconciled(linkBonds')
    <3>1. CASE cand = d
      BY <2>1, <3>1
    <3>2. CASE cand # d
      <4>1. linkPairing' = linkPairing /\ cand' = cand
        BY <2>1, <3>2
      <4>. QED
        BY <2>1, <3>2, <4>1
    <3>. QED
      BY <3>1, <3>2
  <2>2. CASE /\ linkPairing' = FALSE /\ cand' = none
             /\ Links!Reconciled(linkBonds) /\ UNCHANGED linkBonds
    <3>1. Links!Reconciled(linkBonds')
      BY <2>2 DEF Links!Reconciled
    <3>. QED
      BY <2>2, <3>1
  <2>3. CASE Links!Unchanged
    BY <2>3 DEF Links!Unchanged
  <2>. QED
    BY <1>1, <2>1, <2>2, <2>3 DEF Links!ForgetMac
<1>8. Links!ShownIsSource' /\ source' \in LinkDials \cup {none}
  <2>1. CASE Links!Reconciled(linkBonds')
    BY <2>1, SourceShown
  <2>2. CASE linkBonds' = linkBonds /\ source' = source /\ linkShown' = linkShown
    <3>1. Links!ShownIsSource'
      BY <1>2, <2>2 DEF Links!ShownIsSource
    <3>. QED
      BY <1>2, <2>2, <3>1 DEF LinkTypes
  <2>. QED
    BY <1>7, <2>1, <2>2
<1>9. /\ linkBonds' \in Seq(LinkDials) /\ Len(linkBonds') <= LinkSlots /\ InOrder'
      /\ \A i, u \in Int : NewerIn(linkBonds, bondedAt, i, u) => NewerIn(linkBonds', bondedAt', i, u)
  <2>1. CASE d \in Links!Range(linkBonds) /\ linkBonds' = Links!Removed(linkBonds, Links!Position(d, linkBonds))
    <3>1. Links!Position(d, linkBonds) \in DOMAIN linkBonds
      BY <1>4, <1>5, <2>1, PositionFacts
    <3>2. linkBonds' \in Seq(LinkDials) /\ Len(linkBonds') = Len(linkBonds) - 1
      BY <2>1, <3>1, LinkRemoved
    <3>3. InOrder' /\ \A i, u \in Int : NewerIn(linkBonds, bondedAt, i, u) => NewerIn(linkBonds', bondedAt', i, u)
      BY <1>1, <2>1, <3>1, LinkOut
    <3>4. Len(linkBonds') <= LinkSlots
      BY <1>2, <1>5, <3>2 DEF LinkTypes
    <3>. QED
      BY <3>2, <3>3, <3>4
  <2>2. CASE linkBonds' = linkBonds
    <3>1. InOrder' /\ \A i, u : NewerIn(linkBonds, bondedAt, i, u) => NewerIn(linkBonds', bondedAt', i, u)
      BY <1>1, <1>2, <2>2 DEF InOrder
    <3>. QED
      BY <1>2, <2>2, <3>1 DEF LinkTypes
  <2>. QED
    BY <1>7, <2>1, <2>2
<1>10. LinkTypes'
  BY <1>1, <1>2, <1>3, <1>7, <1>8, <1>9 DEF LinkTypes
<1>11. Bonding'
  BY <1>1, <1>2, <1>9 DEF Bonding
<1>12. SeenInTime'
  <2>1. ASSUME NEW i \in DOMAIN rows
        PROVE  NewerIn(linkBonds', bondedAt', i, rows[i].time) /\ rows[i].time <= clock
    <3>1. i \in Int /\ rows[i] \in SeenRow
      BY <1>2 DEF LinkTypes
    <3>2. rows[i].time \in Int
      BY <3>1 DEF SeenRow
    <3>. QED
      BY <1>1, <1>2, <1>9, <3>1, <3>2 DEF SeenInTime
  <2>2. ASSUME NEW i \in DOMAIN plan, plan[i].mac # none
        PROVE  NewerIn(linkBonds', bondedAt', plan[i].slot + 1, plan[i].time) /\ plan[i].time <= clock
    <3>1. plan[i].slot + 1 \in Int /\ plan[i].time \in Int
      <4>1. plan[i] \in LinkAction
        BY <1>2 DEF LinkTypes
      <4>. QED
        BY <4>1 DEF LinkAction
    <3>. QED
      BY <1>1, <1>2, <1>9, <2>2, <3>1 DEF SeenInTime
  <2>3. ASSUME NEW i \in DOMAIN linkList, linkList[i].mac # none
        PROVE  NewerIn(linkBonds', bondedAt', linkList[i].slot + 1, linkList[i].time) /\ linkList[i].time <= clock
    <3>1. linkList[i].slot + 1 \in Int /\ linkList[i].time \in Int
      <4>1. linkList[i] \in LinkAction
        BY <1>2 DEF LinkTypes
      <4>. QED
        BY <4>1 DEF LinkAction
    <3>2. NewerIn(linkBonds, bondedAt, linkList[i].slot + 1, linkList[i].time) /\ linkList[i].time <= clock
      BY <1>2, <2>3 DEF SeenInTime
    <3>. QED
      BY <1>1, <1>9, <3>1, <3>2
  <2>. QED
    BY <1>1, <1>3, <2>1, <2>2, <2>3 DEF SeenInTime
<1>13. asSeen => Links!SlotMac(t.slot) = t.mac
  BY <1>2, <1>3 DEF StillThere, Links!SlotMac, MacAt
<1>14. asSeen => d = t.mac
  BY <1>13 DEF d, Links!Played
<1>15. ASSUME d \in Links!Range(linkBonds), linkBonds' = Links!Removed(linkBonds, Links!Position(d, linkBonds))
       PROVE  /\ Links!Position(d, linkBonds) \in 1..Len(linkBonds) /\ linkBonds[Links!Position(d, linkBonds)] = d
              /\ t.how = "slot" => Links!Position(d, linkBonds) = t.slot + 1
              /\ asSeen => Links!Position(d, linkBonds) = t.slot + 1
              /\ Links!Range(linkBonds) \ Links!Range(linkBonds') = {d}
              /\ Len(linkBonds') = Len(linkBonds) - 1
              /\ \A j \in 1..Len(linkBonds)-1 : j < Links!Position(d, linkBonds) => linkBonds'[j] = linkBonds[j]
  <2>1. Links!Position(d, linkBonds) \in 1..Len(linkBonds) /\ linkBonds[Links!Position(d, linkBonds)] = d
    BY <1>4, <1>5, <1>15, PositionFacts
  <2>2. Links!SlotMac(t.slot) = d => Links!Position(d, linkBonds) = t.slot + 1
    <3>1. SUFFICES ASSUME Links!SlotMac(t.slot) = d PROVE Links!Position(d, linkBonds) = t.slot + 1
      OBVIOUS
    <3>2. t.slot \in Int
      BY <1>3 DEF LinkAction
    <3>3. t.slot + 1 \in DOMAIN linkBonds /\ linkBonds[t.slot + 1] = d
      BY <1>5, <1>6, <1>15, <3>1, <3>2 DEF Links!SlotMac
    <3>. QED
      BY <1>4, <1>5, <3>3, PositionFacts
  <2>3. t.how = "slot" => Links!SlotMac(t.slot) = d
    BY DEF d, Links!Played
  <2>4. /\ Len(linkBonds') = Len(linkBonds) - 1 /\ DOMAIN linkBonds' = 1..Len(linkBonds)-1
        /\ \A j \in DOMAIN linkBonds' :
             linkBonds'[j] = IF j < Links!Position(d, linkBonds) THEN linkBonds[j] ELSE linkBonds[j + 1]
        /\ Links!Range(linkBonds') = Links!Range(linkBonds) \ {d}
    <3>1. /\ linkBonds' \in Seq(LinkDials) /\ Len(linkBonds') = Len(linkBonds) - 1
          /\ \A j \in DOMAIN linkBonds' :
               linkBonds'[j] = IF j < Links!Position(d, linkBonds) THEN linkBonds[j] ELSE linkBonds[j + 1]
          /\ Links!Range(linkBonds') = Links!Range(linkBonds) \ {linkBonds[Links!Position(d, linkBonds)]}
      BY <1>5, <1>15, <2>1, LinkRemoved
    <3>. QED
      BY <2>1, <3>1
  <2>. QED
    BY <1>13, <1>14, <1>15, <2>1, <2>2, <2>3, <2>4
<1>16. StillThere'
  <2>1. SUFFICES ASSUME asSeen
                 PROVE  /\ Links!Descending(linkList')
                        /\ \A i \in DOMAIN linkList' : MacAt(linkBonds', linkList'[i].slot) = linkList'[i].mac
    BY <1>1 DEF StillThere, Links!Descending
  <2>2. \A i, j \in DOMAIN linkList : i < j => linkList[i].slot > linkList[j].slot
    BY <1>2, <2>1 DEF StillThere, Links!Descending
  <2>3. \A i \in DOMAIN linkList' : i \in Nat /\ 1 < i + 1
    BY <1>3
  <2>4. Links!Descending(linkList')
    <3>1. ASSUME NEW i \in DOMAIN linkList', NEW j \in DOMAIN linkList', i < j
          PROVE  linkList'[i].slot > linkList'[j].slot
      <4>1. i + 1 < j + 1
        BY <2>3, <3>1
      <4>. QED
        BY <1>3, <2>2, <4>1
    <3>. QED
      BY <3>1 DEF Links!Descending
  <2>5. ASSUME NEW i \in DOMAIN linkList' PROVE MacAt(linkBonds', linkList'[i].slot) = linkList'[i].mac
    <3>1. /\ linkList'[i] = linkList[i + 1] /\ i + 1 \in DOMAIN linkList
          /\ MacAt(linkBonds, linkList[i + 1].slot) = linkList[i + 1].mac
      BY <1>2, <1>3, <2>1 DEF StillThere
    <3>2. CASE linkBonds' = linkBonds
      BY <3>1, <3>2
    <3>3. CASE d \in Links!Range(linkBonds) /\ linkBonds' = Links!Removed(linkBonds, Links!Position(d, linkBonds))
      <4>. DEFINE s == linkList[i + 1].slot
      <4>1. s \in Int /\ t.slot \in Int /\ s < t.slot
        <5>1. t.slot > s
          BY <1>3, <2>2, <2>3, <3>1
        <5>2. linkList[i + 1] \in LinkAction
          BY <1>2, <3>1 DEF LinkTypes
        <5>. QED
          BY <1>3, <5>1, <5>2 DEF LinkAction
      <4>2. /\ Links!Position(d, linkBonds) = t.slot + 1 /\ t.slot + 1 \in 1..Len(linkBonds)
            /\ Len(linkBonds') = Len(linkBonds) - 1
            /\ \A j \in 1..Len(linkBonds)-1 : j < t.slot + 1 => linkBonds'[j] = linkBonds[j]
        BY <1>15, <2>1, <3>3
      <4>. HIDE DEF s
      <4>3. s \in 0..(Len(linkBonds) - 1) <=> s \in 0..(Len(linkBonds') - 1)
        BY <1>5, <4>1, <4>2
      <4>4. s \in 0..(Len(linkBonds) - 1) => linkBonds'[s + 1] = linkBonds[s + 1]
        BY <1>5, <4>1, <4>2
      <4>5. MacAt(linkBonds', s) = MacAt(linkBonds, s)
        BY <4>3, <4>4 DEF MacAt
      <4>. QED
        BY <3>1, <4>5 DEF s
    <3>. QED
      BY <1>7, <3>2, <3>3
  <2>. QED
    BY <2>4, <2>5
<1>17. Links!NeverAnOlderLink
  <2>1. CASE linkBonds' = linkBonds
    BY <2>1 DEF Links!NeverAnOlderLink
  <2>2. CASE d \in Links!Range(linkBonds) /\ linkBonds' = Links!Removed(linkBonds, Links!Position(d, linkBonds))
    <3>1. (CHOOSE x \in Links!Range(linkBonds) \ Links!Range(linkBonds') : TRUE) = d
      BY <1>15, <2>2
    <3>2. t.how = "slot" /\ t.mac # none => bondedAt[d] >= t.time
      <4>1. SUFFICES ASSUME t.how = "slot", t.mac # none PROVE bondedAt[d] >= t.time
        OBVIOUS
      <4>2. NewerIn(linkBonds, bondedAt, t.slot + 1, t.time)
        BY <1>2, <1>3, <4>1 DEF SeenInTime
      <4>3. t.slot + 1 \in DOMAIN linkBonds /\ linkBonds[t.slot + 1] = d /\ t.slot + 1 \in Int
        BY <1>5, <1>15, <2>2, <4>1
      <4>. QED
        BY <4>2, <4>3 DEF NewerIn
    <3>3. t.how = "mac" => d = t.mac
      BY DEF d, Links!Played
    <3>. QED
      BY <3>1, <3>2, <3>3 DEF Links!NeverAnOlderLink, t
  <2>. QED
    BY <1>7, <2>1, <2>2
<1>18. Links!ListHitsSeen
  <2>1. CASE linkBonds' = linkBonds
    BY <2>1 DEF Links!ListHitsSeen
  <2>2. CASE d \in Links!Range(linkBonds) /\ linkBonds' = Links!Removed(linkBonds, Links!Position(d, linkBonds))
    BY <1>14, <1>15, <2>2 DEF Links!ListHitsSeen, t
  <2>. QED
    BY <1>7, <2>1, <2>2
<1>19. SlotForCand'
  <2>1. CASE linkBonds' = linkBonds
    BY <1>2, <1>7, <2>1 DEF SlotForCand
  <2>2. CASE linkBonds' # linkBonds
    <3>1. d \in Links!Range(linkBonds) /\ linkBonds' = Links!Removed(linkBonds, Links!Position(d, linkBonds))
      BY <1>7, <2>2
    <3>2. Len(linkBonds') = Len(linkBonds) - 1 /\ Len(linkBonds) <= LinkSlots
      BY <1>2, <1>15, <3>1 DEF LinkTypes
    <3>. QED
      BY <1>5, <3>2 DEF SlotForCand
  <2>. QED
    BY <2>1, <2>2
<1>. QED
  BY <1>2, <1>8, <1>10, <1>11, <1>12, <1>16, <1>17, <1>18, <1>19 DEF LinkInv

(* What happens between lists and leaves the table and what was seen alone. *)
LEMMA LinkAtRest ==
    ASSUME LinkInv, UNCHANGED <<linkBonds, bondedAt, clock, rows, plan,
    linkList, asSeen>>,
           source' \in LinkDials \cup {none}, linkShown' = Links!Position(source', linkBonds),
           source' \in Links!Range(linkBonds) \cup {none},
           cand' \in LinkDials \cup {none}, cand' # none => linkPairing',
           cand' # none /\ cand' \notin Links!Range(linkBonds) => Len(linkBonds) < LinkSlots
    PROVE  LinkInv'
<1>1. LinkTypes'
  BY DEF LinkInv, LinkTypes
<1>2. Bonding' /\ SeenInTime'
  BY DEF LinkInv, Bonding, InOrder, SeenInTime
<1>3. StillThere'
  BY DEF LinkInv, StillThere, Links!Descending
<1>4. Links!ShownIsSource' /\ SlotForCand'
  BY DEF Links!ShownIsSource, SlotForCand
<1>. QED
  BY <1>1, <1>2, <1>3, <1>4 DEF LinkInv

LEMMA LinkForgetAll ==
    ASSUME Links!ConstantsAssumption, LinkInv, Links!ForgetAll PROVE LinkInv'
<1>1. /\ linkList = <<>> /\ UNCHANGED <<bondedAt, clock, rows, plan, linkList, asSeen>>
  BY DEF Links!ForgetAll, Links!AtRest
<1>2. CASE linkBonds' = <<>> /\ linkPairing' = FALSE /\ cand' = none /\ Links!Reconciled(<<>>)
  <2>1. Links!ShownIsSource' /\ source' \in LinkDials \cup {none}
    BY <1>2, SourceShown
  <2>2. LinkTypes'
    BY <1>1, <1>2, <2>1, LinkSizes DEF LinkInv, LinkTypes
  <2>3. Bonding' /\ SeenInTime'
    BY <1>1, <1>2 DEF LinkInv, Bonding, InOrder, SeenInTime, NewerIn
  <2>4. StillThere' /\ SlotForCand'
    BY <1>1, <1>2 DEF StillThere, Links!Descending, SlotForCand
  <2>. QED
    BY <2>1, <2>2, <2>3, <2>4 DEF LinkInv
<1>3. CASE Links!Unchanged
  BY <1>1, <1>3, LinkAtRest DEF LinkInv, LinkTypes, Links!ShownIsSource,
     SlotForCand, Links!Unchanged
<1>. QED
  BY <1>2, <1>3 DEF Links!ForgetAll

LEMMA LinkConfirm ==
    ASSUME Links!ConstantsAssumption, LinkInv, Links!PairConfirm PROVE LinkInv'
<1>. USE LinkSizes
<1>1. /\ linkList = <<>> /\ cand # none /\ clock < MaxTime
      /\ clock' = clock + 1 /\ linkPairing' = FALSE /\ cand' = none
      /\ UNCHANGED <<source, linkShown, rows, plan, linkList, asSeen>>
  BY DEF Links!PairConfirm, Links!AtRest
<1>2. LinkTypes /\ Bonding /\ SeenInTime /\ Links!ShownIsSource
  BY DEF LinkInv
<1>3. /\ linkBonds \in Seq(LinkDials) /\ DOMAIN linkBonds = 1..Len(linkBonds) /\ Len(linkBonds) \in Nat
      /\ clock \in Nat /\ cand \in LinkDials
      /\ \A d \in LinkDials : bondedAt[d] \in Nat /\ bondedAt[d] <= clock
      /\ \A i \in DOMAIN linkBonds : linkBonds[i] \in LinkDials
  BY <1>1, <1>2 DEF LinkTypes, Bonding
<1>4. \A i, j \in DOMAIN linkBonds : linkBonds[i] = linkBonds[j] => i = j
  BY <1>2, NoTwice DEF Bonding, Links!IsInjective
<1>5. CASE cand \in Links!Range(linkBonds)
  <2>1. linkBonds' = linkBonds /\ bondedAt' = bondedAt
    BY <1>5 DEF Links!PairConfirm
  <2>2. LinkTypes'
    BY <1>1, <1>2, <2>1 DEF LinkTypes
  <2>3. Bonding' /\ SeenInTime'
    <3>1. \A x \in Int : x <= clock => x <= clock'
      BY <1>1, <1>3
    <3>2. Bonding'
      BY <1>1, <1>2, <1>3, <2>1, <3>1 DEF Bonding, InOrder
    <3>3. SeenInTime'
      <4>1. \A i \in DOMAIN rows : rows[i].time \in Int
        <5>1. \A i \in DOMAIN rows : rows[i] \in SeenRow
          BY <1>2 DEF LinkTypes
        <5>. QED
          BY <5>1 DEF SeenRow
      <4>2. \A i \in DOMAIN plan : plan[i].time \in Int
        <5>1. \A i \in DOMAIN plan : plan[i] \in LinkAction
          BY <1>2 DEF LinkTypes
        <5>. QED
          BY <5>1 DEF LinkAction
      <4>. QED
        BY <1>1, <1>2, <2>1, <3>1, <4>1, <4>2 DEF SeenInTime
    <3>. QED
      BY <3>2, <3>3
  <2>4. StillThere' /\ Links!ShownIsSource' /\ SlotForCand'
    BY <1>1, <1>2, <2>1 DEF StillThere, Links!Descending, Links!ShownIsSource,
       SlotForCand
  <2>. QED
    BY <2>2, <2>3, <2>4 DEF LinkInv
<1>6. CASE cand \notin Links!Range(linkBonds)
  <2>. DEFINE n == Len(linkBonds)
  <2>1. linkBonds' = Append(linkBonds, cand) /\ bondedAt' = [bondedAt EXCEPT ![cand] = clock + 1]
    BY <1>1, <1>6 DEF Links!PairConfirm
  <2>2. /\ linkBonds' \in Seq(LinkDials) /\ Len(linkBonds') = n + 1 /\ DOMAIN linkBonds' = 1..n+1
        /\ \A i \in 1..n : linkBonds'[i] = linkBonds[i]
        /\ linkBonds'[n + 1] = cand
    BY <1>3, <2>1
  <2>3. \A i \in 1..n : linkBonds[i] # cand
    BY <1>3, <1>6 DEF Links!Range
  <2>4. /\ bondedAt' \in [LinkDials -> 0..MaxTime]
        /\ bondedAt'[cand] = clock + 1
        /\ \A d \in LinkDials : d # cand => bondedAt'[d] = bondedAt[d]
    BY <1>1, <1>2, <1>3, <2>1 DEF LinkTypes
  <2>5. /\ \A i \in 1..n : bondedAt'[linkBonds'[i]] = bondedAt[linkBonds[i]]
        /\ bondedAt'[linkBonds'[n + 1]] = clock + 1
    BY <1>3, <2>2, <2>3, <2>4
  <2>6. n \in Nat /\ n < LinkSlots
    BY <1>1, <1>3, <1>6 DEF LinkInv, SlotForCand
  <2>7. LinkTypes'
    BY <1>1, <1>2, <2>2, <2>4, <2>6 DEF LinkTypes
  <2>. HIDE DEF n
  <2>8. Bonding'
    <3>1. ASSUME NEW i \in 1..n+1, NEW j \in 1..n+1, i < j
          PROVE  bondedAt'[linkBonds'[i]] < bondedAt'[linkBonds'[j]]
      <4>1. i \in 1..n /\ bondedAt[linkBonds[i]] \in Nat /\ bondedAt[linkBonds[i]] <= clock
        BY <1>3, <2>6, <3>1 DEF n
      <4>2. CASE j = n + 1
        BY <1>3, <2>5, <4>1, <4>2
      <4>3. CASE j # n + 1
        <5>1. j \in 1..n
          BY <2>6, <4>3
        <5>. QED
          BY <1>2, <1>3, <2>5, <3>1, <4>1, <5>1 DEF Bonding, InOrder, n
      <4>. QED
        BY <4>2, <4>3
    <3>2. \A d \in LinkDials : bondedAt'[d] <= clock + 1
      BY <1>3, <2>4
    <3>. QED
      BY <1>1, <2>2, <3>1, <3>2 DEF Bonding, InOrder
  <2>9. ASSUME NEW i \in Int, NEW t \in Int, NewerIn(linkBonds, bondedAt, i, t), t <= clock
        PROVE  NewerIn(linkBonds', bondedAt', i, t) /\ t <= clock'
    <3>1. ASSUME NEW j \in 1..n+1, j >= i PROVE bondedAt'[linkBonds'[j]] >= t
      <4>1. CASE j = n + 1
        BY <1>3, <2>5, <2>9, <4>1
      <4>2. CASE j # n + 1
        <5>1. j \in 1..n
          BY <2>6, <4>2
        <5>. QED
          BY <1>3, <2>5, <2>9, <3>1, <5>1 DEF NewerIn, n
      <4>. QED
        BY <4>1, <4>2
    <3>. QED
      BY <1>1, <1>3, <2>2, <2>9, <3>1 DEF NewerIn
  <2>10. SeenInTime'
    <3>1. \A i \in DOMAIN rows : i \in Int /\ rows[i].time \in Int
      <4>1. \A i \in DOMAIN rows : i \in Int /\ rows[i] \in SeenRow
        BY <1>2 DEF LinkTypes
      <4>. QED
        BY <4>1 DEF SeenRow
    <3>2. \A i \in DOMAIN plan : plan[i].slot + 1 \in Int /\ plan[i].time \in Int
      <4>1. \A i \in DOMAIN plan : plan[i] \in LinkAction
        BY <1>2 DEF LinkTypes
      <4>. QED
        BY <4>1 DEF LinkAction
    <3>. QED
      BY <1>1, <1>2, <2>9, <3>1, <3>2 DEF SeenInTime
  <2>11. StillThere' /\ SlotForCand'
    BY <1>1 DEF StillThere, Links!Descending, SlotForCand
  <2>12. Links!ShownIsSource'
    <3>1. \A i, j \in DOMAIN linkBonds' : linkBonds'[i] = linkBonds'[j] => i = j
      <4>1. Links!IsInjective(linkBonds)'
        BY <2>7, <2>8, NoTwice, PTL DEF Bonding
      <4>. QED
        BY <4>1 DEF Links!IsInjective
    <3>2. CASE source \in Links!Range(linkBonds)
      <4>1. /\ Links!Position(source, linkBonds) \in DOMAIN linkBonds
            /\ linkBonds[Links!Position(source, linkBonds)] = source
        BY <1>3, <1>4, <3>2, PositionFacts
      <4>2. /\ Links!Position(source, linkBonds) \in DOMAIN linkBonds'
            /\ linkBonds'[Links!Position(source, linkBonds)] = source
        BY <1>3, <2>2, <2>6, <4>1 DEF n
      <4>3. Links!Position(source, linkBonds') = Links!Position(source, linkBonds)
        BY <2>2, <3>1, <4>2, PositionFacts
      <4>4. source \in Links!Range(linkBonds')
        BY <4>2 DEF Links!Range
      <4>. QED
        BY <1>1, <1>2, <4>3, <4>4 DEF Links!ShownIsSource
    <3>3. CASE source \notin Links!Range(linkBonds)
      <4>1. source = none /\ linkShown = Links!Position(none, linkBonds)
        BY <1>2, <3>3 DEF Links!ShownIsSource
      <4>2. none \notin Links!Range(linkBonds) /\ none \notin Links!Range(linkBonds')
        BY <1>3, <2>2 DEF Links!Range
      <4>3. Links!Position(none, linkBonds) = 0 /\ Links!Position(none, linkBonds') = 0
        BY <4>2 DEF Links!Position
      <4>. QED
        BY <1>1, <4>1, <4>3 DEF Links!ShownIsSource
    <3>. QED
      BY <3>2, <3>3
  <2>. QED
    BY <2>7, <2>8, <2>10, <2>11, <2>12 DEF LinkInv
<1>. QED
  BY <1>5, <1>6

LEMMA LinkShowRows ==
    ASSUME Links!ConstantsAssumption, LinkInv, Links!ShowRows PROVE LinkInv'
<1>1. /\ linkList = <<>>
      /\ rows' = [i \in DOMAIN linkBonds |-> [mac |-> linkBonds[i], time |-> bondedAt[linkBonds[i]]]]
      /\ UNCHANGED <<linkBonds, bondedAt, clock, linkPairing, cand, source, linkShown, plan, linkList, asSeen>>
  BY DEF Links!ShowRows, Links!AtRest
<1>2. LinkTypes /\ Bonding /\ SeenInTime
  BY DEF LinkInv
<1>3. /\ DOMAIN linkBonds = 1..Len(linkBonds) /\ Len(linkBonds) \in Nat
      /\ \A i \in DOMAIN linkBonds : linkBonds[i] \in LinkDials /\ bondedAt[linkBonds[i]] \in 0..MaxTime
  BY <1>2 DEF LinkTypes
<1>4. rows' \in Seq(SeenRow)
  <2>1. \A i \in 1..Len(linkBonds) : [mac |-> linkBonds[i], time |-> bondedAt[linkBonds[i]]] \in SeenRow
    BY <1>3 DEF SeenRow
  <2>. QED
    BY <1>1, <1>3, <2>1
<1>5. LinkTypes' /\ Bonding'
  BY <1>1, <1>2, <1>4 DEF LinkTypes, Bonding, InOrder
<1>6. ASSUME NEW i \in DOMAIN rows'
      PROVE  NewerIn(linkBonds', bondedAt', i, rows'[i].time) /\ rows'[i].time <= clock'
  <2>1. i \in DOMAIN linkBonds /\ rows'[i].time = bondedAt[linkBonds[i]]
    BY <1>1
  <2>2. ASSUME NEW j \in DOMAIN linkBonds, j >= i PROVE bondedAt[linkBonds[j]] >= bondedAt[linkBonds[i]]
    <3>1. bondedAt[linkBonds[j]] \in Int /\ bondedAt[linkBonds[i]] \in Int /\ i \in Int /\ j \in Int
      BY <1>3, <2>1, LinkSizes
    <3>2. i < j \/ i = j
      BY <2>2, <3>1
    <3>. QED
      BY <1>2, <2>1, <3>1, <3>2 DEF Bonding, InOrder
  <2>. QED
    BY <1>1, <1>2, <1>3, <2>1, <2>2 DEF NewerIn, Bonding
<1>7. SeenInTime'
  BY <1>1, <1>2, <1>6 DEF SeenInTime
<1>8. StillThere' /\ Links!ShownIsSource' /\ SlotForCand'
  BY <1>1 DEF LinkInv, StillThere, Links!Descending, Links!ShownIsSource,
     SlotForCand
<1>. QED
  BY <1>5, <1>7, <1>8 DEF LinkInv

LEMMA LinkDecide ==
    ASSUME Links!ConstantsAssumption, LinkInv, NEW how \in {"slot", "mac"},
           NEW acts \in Lists, Links!Decide(how, acts)
    PROVE  LinkInv'
<1>1. /\ linkList = <<>> /\ plan' = [i \in DOMAIN acts |-> Links!Seen(how, acts[i])]
      /\ UNCHANGED <<linkBonds, bondedAt, clock, linkPairing, cand, source, linkShown, rows, linkList, asSeen>>
  BY DEF Links!Decide, Links!AtRest
<1>2. LinkTypes /\ SeenInTime
  BY DEF LinkInv
<1>3. /\ acts \in Seq(Int) /\ DOMAIN acts = 1..Len(acts) /\ Len(acts) \in Nat
      /\ \A i \in DOMAIN acts : acts[i] \in Int
  BY LinkSizes
<1>4. ASSUME NEW s \in Int
      PROVE  /\ Links!Seen(how, s) \in LinkAction /\ Links!Seen(how, s).slot = s
             /\ Links!Seen(how, s).mac # none =>
                  /\ NewerIn(linkBonds, bondedAt, s + 1, Links!Seen(how, s).time)
                  /\ Links!Seen(how, s).time <= clock
  <2>. DEFINE row == IF s + 1 \in DOMAIN rows THEN rows[s + 1] ELSE [mac |-> none, time |-> 0]
  <2>1. Links!Seen(how, s) = [how |-> how, slot |-> s, mac |-> row.mac, time |-> row.time]
    BY DEF Links!Seen
  <2>2. row.mac \in LinkDials \cup {none} /\ row.time \in 0..MaxTime
    <3>1. CASE s + 1 \in DOMAIN rows
      <4>1. rows[s + 1] \in SeenRow
        BY <1>2, <3>1 DEF LinkTypes
      <4>. QED
        BY <3>1, <4>1 DEF SeenRow
    <3>2. CASE s + 1 \notin DOMAIN rows
      BY <3>2, LinkSizes
    <3>. QED
      BY <3>1, <3>2
  <2>3. row.mac # none => s + 1 \in DOMAIN rows /\ row = rows[s + 1]
    OBVIOUS
  <2>. HIDE DEF row
  <2>4. Links!Seen(how, s) \in LinkAction
    BY <2>1, <2>2 DEF LinkAction
  <2>. QED
    BY <1>2, <2>1, <2>3, <2>4 DEF SeenInTime
<1>5. plan' \in Seq(LinkAction)
  <2>1. \A i \in 1..Len(acts) : Links!Seen(how, acts[i]) \in LinkAction
    BY <1>3, <1>4
  <2>. QED
    BY <1>1, <1>3, <2>1
<1>6. LinkTypes'
  BY <1>1, <1>2, <1>5 DEF LinkTypes
<1>7. Bonding'
  BY <1>1 DEF LinkInv, Bonding, InOrder
<1>8. ASSUME NEW i \in DOMAIN plan', plan'[i].mac # none
      PROVE  /\ NewerIn(linkBonds', bondedAt', plan'[i].slot + 1, plan'[i].time)
             /\ plan'[i].time <= clock'
  <2>1. i \in DOMAIN acts /\ plan'[i] = Links!Seen(how, acts[i]) /\ acts[i] \in Int
    BY <1>1, <1>3
  <2>. QED
    BY <1>1, <1>4, <1>8, <2>1
<1>9. SeenInTime'
  BY <1>1, <1>2, <1>8 DEF SeenInTime
<1>10. StillThere' /\ Links!ShownIsSource' /\ SlotForCand'
  BY <1>1 DEF LinkInv, StillThere, Links!Descending, Links!ShownIsSource,
     SlotForCand
<1>. QED
  BY <1>6, <1>7, <1>9, <1>10 DEF LinkInv

LEMMA LinkRun == ASSUME Links!ConstantsAssumption, LinkInv, Links!Run PROVE LinkInv'
<1>1. /\ linkList' = plan /\ plan' = <<>>
      /\ asSeen' = (Links!Descending(plan) /\ \A i \in DOMAIN plan : Links!SlotMac(plan[i].slot) = plan[i].mac)
      /\ UNCHANGED <<linkBonds, bondedAt, clock, linkPairing, cand, source, linkShown, rows>>
  BY DEF Links!Run
<1>2. LinkTypes'
  BY <1>1 DEF LinkInv, LinkTypes
<1>3. Bonding'
  BY <1>1 DEF LinkInv, Bonding, InOrder
<1>4. SeenInTime'
  BY <1>1 DEF LinkInv, SeenInTime
<1>5. StillThere'
  <2>1. SUFFICES ASSUME asSeen'
                 PROVE  /\ Links!Descending(plan)
                        /\ \A i \in DOMAIN plan : MacAt(linkBonds, plan[i].slot) = plan[i].mac
    BY <1>1 DEF StillThere, Links!Descending
  <2>. QED
    BY <1>1, <2>1 DEF MacAt, Links!SlotMac
<1>6. Links!ShownIsSource' /\ SlotForCand'
  BY <1>1 DEF LinkInv, Links!ShownIsSource, SlotForCand
<1>. QED
  BY <1>2, <1>3, <1>4, <1>5, <1>6 DEF LinkInv

LEMMA LinkNext ==
    ASSUME Links!ConstantsAssumption, LinkInv, [Links!Next]_(Links!vars) PROVE LinkInv'
<1>. USE LinkAtRest DEF LinkInv, LinkTypes, Links!ShownIsSource, SlotForCand
<1>1. CASE Links!Play
  BY <1>1, LinkPlay
<1>2. CASE Links!ForgetAll
  BY <1>2, LinkForgetAll
<1>3. CASE Links!PairStart
  BY <1>3 DEF Links!PairStart
<1>4. CASE Links!PairCancel
  BY <1>4 DEF Links!PairCancel
<1>5. CASE Links!PairConfirm
  BY <1>5, LinkConfirm
<1>6. CASE Links!ShowRows
  BY <1>6, LinkShowRows
<1>7. CASE Links!Run
  BY <1>7, LinkRun
<1>8. CASE \E d \in LinkDials : Links!PairReq(d)
  BY <1>8 DEF Links!PairReq
<1>9. CASE \E id \in LinkDials \cup {none} : Links!Select(id)
  <2>1. PICK id \in LinkDials \cup {none} : Links!Select(id)
    BY <1>9
  <2>2. /\ source' = id /\ linkShown' = Links!Position(id, linkBonds) /\ id \in Links!Range(linkBonds) \cup {none}
        /\ UNCHANGED <<linkBonds, bondedAt, clock, linkPairing, cand, rows, plan, linkList, asSeen>>
    BY <2>1 DEF Links!Select
  <2>. QED
    BY <2>2
<1>10. CASE \E how \in {"slot", "mac"}, acts \in Lists : Links!Decide(how, acts)
  BY <1>10, LinkDecide
<1>11. CASE UNCHANGED Links!vars
  BY <1>11 DEF Links!vars
<1>. QED
  BY <1>1, <1>2, <1>3, <1>4, <1>5, <1>6, <1>7, <1>8, <1>9, <1>10, <1>11 DEF
     Links!Next

LEMMA LinkHits ==
    ASSUME Links!ConstantsAssumption, LinkInv, [Links!Next]_(Links!vars)
    PROVE  Links!NeverAnOlderLink /\ Links!ListHitsSeen
<1>1. CASE Links!Play
  BY <1>1, LinkPlay
<1>2. CASE linkList = <<>> \/ linkBonds' = linkBonds
  BY <1>2 DEF Links!NeverAnOlderLink, Links!ListHitsSeen
<1>. QED
  BY <1>1, <1>2
  DEF Links!Next, Links!vars, Links!AtRest, Links!ForgetAll, Links!PairStart,
     Links!PairCancel, Links!PairConfirm, Links!ShowRows,
      Links!Run, Links!PairReq, Links!Select, Links!Decide

LEMMA LinkTells == ASSUME Links!ConstantsAssumption, LinkInv PROVE Links!TypeOK /\ Links!ShownIsSource
<1>1. Links!IsInjective(linkBonds)
  BY NoTwice DEF LinkInv, Bonding
<1>2. linkShown \in 0..LinkSlots
  <2>1. /\ linkBonds \in Seq(LinkDials) /\ \A i, j \in DOMAIN linkBonds : linkBonds[i] = linkBonds[j] => i = j
        /\ DOMAIN linkBonds = 1..Len(linkBonds) /\ Len(linkBonds) \in Nat /\ Len(linkBonds) <= LinkSlots
    BY <1>1 DEF LinkInv, LinkTypes, Links!IsInjective
  <2>2. Links!Position(source, linkBonds) \in DOMAIN linkBonds \/ Links!Position(source, linkBonds) = 0
    BY <2>1, PositionFacts
  <2>. QED
    BY <2>1, <2>2, LinkSizes DEF LinkInv, Links!ShownIsSource
<1>. QED
  BY <1>1, <1>2 DEF LinkInv, LinkTypes, Links!TypeOK, SeenRow

LinkService == scenario = "links" => LinkInv

LEMMA LinkServiceKept ==
    /\ Init => LinkService
    /\ LinkService /\ [Next]_vars => LinkService'
<1>1. Links!ConstantsAssumption
  BY InstancesAssumption
<1>2. Init => LinkService
  BY <1>1, LinkInit DEF Init, LinkService
<1>3. LinkService /\ [Next]_vars => LinkService'
  <2>. SUFFICES ASSUME LinkService, [Next]_vars, scenario' = "links"
                PROVE  LinkInv'
    BY DEF LinkService
  <2>1. scenario = "links"
    BY DEF Next, vars
  <2>2. [Links!Next]_(Links!vars)
    BY <2>1 DEF Next, vars, links, Links!vars
  <2>. QED
    BY <1>1, <2>1, <2>2, LinkNext DEF LinkService
<1>. QED
  BY <1>2, <1>3

(* A late forget never removes an older Link than the one it was decided   *)
(* on, a list of them removes the Links that were seen, and the room source*)
(* is shown at its present slot (forget_dial_mac, ForgetDialAction,        *)
(* room_source_reconcile_).                                                *)
THEOREM ForgetsAreKept == Spec => ForgetsHitTheirLink
<1>. DEFINE P == scenario = "links" => Links!TypeOK /\ Links!ShownIsSource
            B == /\ scenario' = scenario
                 /\ scenario = "links" => Links!NeverAnOlderLink /\ Links!ListHitsSeen
            A == scenario = "links" =>
                   /\ Links!TypeOK' /\ Links!ShownIsSource' /\ Links!NeverAnOlderLink
                   /\ Links!ListHitsSeen
<1>1. Links!ConstantsAssumption
  BY InstancesAssumption DEF InstancesAssumption
<1>2. LinkService => P
  BY <1>1, LinkTells DEF LinkService
<1>3. LinkService /\ Next => B
  <2>. SUFFICES ASSUME LinkService, Next PROVE B
    OBVIOUS
  <2>1. scenario' = scenario
    BY DEF Next
  <2>2. ASSUME scenario = "links" PROVE Links!NeverAnOlderLink /\ Links!ListHitsSeen
    <3>1. Links!Next
      BY <2>2 DEF Next
    <3>. QED
      BY <1>1, <2>2, <3>1, LinkHits DEF LinkService
  <2>. QED
    BY <2>1, <2>2
<1>4. P' /\ B => A
  OBVIOUS
<1>. HIDE DEF P, B, A
<1>5. Spec => [][A]_vars
  BY <1>2, <1>3, <1>4, LinkServiceKept, PTL DEF Spec
<1>. QED
  BY <1>5 DEF ForgetsHitTheirLink, A

----------------------------------------------------------------------------
(* The rows of readings. *)

(* The two readings of a slot. *)
Readings == [temp : Rows!Reading, hum : Rows!Reading]

(* What a slot's row r has to do with what Home Assistant shows, s: the    *)
(* latest temperature while it is fresh, nothing otherwise, and what was   *)
(* published last of the dial the row is about is what is shown.           *)
RowFits(r, s) ==
    /\ r \in Rows!Row /\ s \in Readings
    /\ r.temp = Rows!None <=> r.age = -1
    /\ r.mac = none => r.temp = Rows!None
    /\ r.hum.of \in {none, r.mac}
    /\ r.stale => r.age \in {-1, StaleAfter}
    /\ r.age = StaleAfter => r.stale
    /\ s.temp # Rows!None <=> r.age \in 0..StaleAfter-1
    /\ r.age \in 0..StaleAfter-1 => s.temp = r.temp
    /\ r.mac # none /\ r.pub # none /\ ~r.stale => s.temp = [val |-> r.pub, of |-> r.mac]

RowsInv ==
    /\ sensorBonds \in Seq(Dials) /\ Len(sensorBonds) <= MaxDials
    /\ checked \in BOOLEAN
    /\ sensorRow \in [1..MaxDials -> Rows!Row]
    /\ sensorShown \in [1..MaxDials -> Readings]
    /\ \A i \in 1..MaxDials :
         /\ RowFits(sensorRow[i], sensorShown[i])
         /\ i \in RowSlots /\ checked => sensorRow[i].mac \in {none, Rows!Occupant(sensorBonds, i)}

LEMMA RowSizes ==
    ASSUME Rows!ConstantsAssumption
    PROVE  /\ none \notin Dials /\ none \notin Values /\ MaxDials \in Nat /\ MaxDials > 0
           /\ RowSlots \subseteq 1..MaxDials /\ RowRepeat \in Nat /\ RowRepeat > 0
           /\ StaleAfter \in Nat /\ StaleAfter > 1
BY DEF Rows!ConstantsAssumption

LEMMA ReadingFacts ==
    ASSUME Rows!ConstantsAssumption
    PROVE  /\ Rows!None \in Rows!Reading /\ Rows!None.val = none /\ Rows!None.of = none
           /\ \A t \in Values, d \in Dials :
                [val |-> t, of |-> d] \in Rows!Reading /\ [val |-> t, of |-> d] # Rows!None
<1>1. Rows!None \in Rows!Reading /\ Rows!None.val = none /\ Rows!None.of = none
  BY DEF Rows!None, Rows!Reading
<1>2. ASSUME NEW t \in Values, NEW d \in Dials
      PROVE  [val |-> t, of |-> d] \in Rows!Reading /\ [val |-> t, of |-> d] # Rows!None
  <2>1. t # none
    BY RowSizes
  <2>2. [val |-> t, of |-> d].val # Rows!None.val
    BY <1>1, <2>1
  <2>. QED
    BY <2>2 DEF Rows!Reading
<1>. QED
  BY <1>1, <1>2

(* The parts of a row, and of the rows the code makes from it. *)
LEMMA RowParts ==
    ASSUME NEW r \in Rows!Row
    PROVE  /\ r.mac \in Dials \cup {none} /\ r.temp \in Rows!Reading /\ r.hum \in Rows!Reading
           /\ r.age \in 0..StaleAfter \cup {-1} /\ r.pub \in Values \cup {none}
           /\ r.pubAge \in 0..RowRepeat \cup {-1} /\ r.stale \in BOOLEAN
BY DEF Rows!Row

LEMMA AdoptedParts ==
    ASSUME NEW r \in Rows!Row, NEW d \in Dials, Rows!None \in Rows!Reading, NEW a,
           r.mac # d, a = Rows!Adopted(r, d)
    PROVE  /\ a \in Rows!Row /\ a.mac = d /\ a.temp = r.temp /\ a.hum = Rows!None
           /\ a.age = r.age /\ a.pub = none /\ a.stale = r.stale
BY DEF Rows!Row, Rows!Adopted

(* feed_sensor_row_: the readings t and g of a frame, h is the humidity's value. *)
Filled(a, t, g, h) == [a EXCEPT !.temp = t, !.age = 0, !.hum = IF h = none THEN @ ELSE g]

LEMMA FedParts ==
    ASSUME NEW a \in Rows!Row, NEW t \in Rows!Reading, NEW g \in Rows!Reading, NEW h, NEW n, 0 \in 0..StaleAfter,
           n = Filled(a, t, g, h)
    PROVE  /\ n \in Rows!Row /\ n.mac = a.mac /\ n.temp = t
           /\ n.hum = IF h = none THEN a.hum ELSE g
           /\ n.age = 0 /\ n.pub = a.pub /\ n.pubAge = a.pubAge /\ n.stale = a.stale
<1>1. n \in Rows!Row
  <2>1. CASE h = none
    BY <2>1 DEF Rows!Row, Filled
  <2>2. CASE h # none
    BY <2>2 DEF Rows!Row, Filled
  <2>. QED
    BY <2>1, <2>2
<1>2. /\ n.mac = a.mac /\ n.temp = t
      /\ n.hum = IF h = none THEN a.hum ELSE g
      /\ n.age = 0 /\ n.pub = a.pub /\ n.pubAge = a.pubAge /\ n.stale = a.stale
  BY DEF Rows!Row, Filled
<1>. QED
  BY <1>1, <1>2

LEMMA PublishedParts ==
    ASSUME NEW n \in Rows!Row, NEW s \in Readings, n.temp.val \in Values,
           0 \in 0..RowRepeat, NEW x, x = Rows!Published(n, s)
    PROVE  /\ x.row \in Rows!Row /\ x.row.mac = n.mac /\ x.row.temp = n.temp
           /\ x.row.hum = n.hum /\ x.row.age = n.age /\ x.row.pub = n.temp.val
           /\ x.row.stale = FALSE
           /\ x.shown \in Readings /\ x.shown.temp = n.temp
<1>. DEFINE q == [n EXCEPT !.stale = FALSE, !.pub = n.temp.val, !.pubAge = 0]
            z == [temp |-> n.temp, hum |-> IF n.hum # Rows!None THEN n.hum ELSE s.hum]
<1>1. x.row = q /\ x.shown = z
  BY DEF Rows!Published
<1>2. /\ q \in Rows!Row /\ q.mac = n.mac /\ q.temp = n.temp
      /\ q.hum = n.hum /\ q.age = n.age /\ q.pub = n.temp.val /\ q.stale = FALSE
  BY DEF Rows!Row
<1>3. n.temp \in Rows!Reading /\ n.hum \in Rows!Reading /\ s.hum \in Rows!Reading
  BY DEF Rows!Row, Readings
<1>4. z \in Readings /\ z.temp = n.temp
  BY <1>3 DEF Readings
<1>. QED
  BY <1>1, <1>2, <1>4

LEMMA AgedParts ==
    ASSUME NEW r \in Rows!Row, NEW o, o = Rows!Aged(r),
           Rows!Older(r.age, StaleAfter) \in 0..StaleAfter \cup {-1},
           Rows!Older(r.pubAge, RowRepeat) \in 0..RowRepeat \cup {-1}
    PROVE  /\ o \in Rows!Row /\ o.mac = r.mac /\ o.temp = r.temp /\ o.hum = r.hum
           /\ o.age = Rows!Older(r.age, StaleAfter) /\ o.pub = r.pub /\ o.stale = r.stale
BY DEF Rows!Row, Rows!Aged

LEMMA ClearedParts ==
    ASSUME NEW o \in Rows!Row, Rows!None \in Rows!Reading, NEW c,
           c = [o EXCEPT !.mac = none, !.temp = Rows!None, !.hum = Rows!None, !.age = -1]
    PROVE  /\ c \in Rows!Row /\ c.mac = none /\ c.temp = Rows!None /\ c.hum = Rows!None
           /\ c.age = -1 /\ c.stale = o.stale
BY DEF Rows!Row

LEMMA RetractedParts ==
    ASSUME NEW o \in Rows!Row, NEW s, Rows!None \in Rows!Reading, NEW x, x = Rows!Retracted(o)
    PROVE  /\ x.row \in Rows!Row /\ x.row.mac = o.mac /\ x.row.temp = o.temp /\ x.row.hum = o.hum
           /\ x.row.age = o.age /\ x.row.stale = TRUE
           /\ x.shown \in Readings /\ x.shown.temp = Rows!None
BY DEF Rows!Row, Rows!Retracted, Readings

(* A frame. *)
LEMMA FedFits ==
    ASSUME Rows!ConstantsAssumption, NEW r, NEW s, RowFits(r, s), NEW d \in Dials,
           NEW t \in Values \cup {none}, NEW h \in Values \cup {none}
    PROVE  /\ RowFits(Rows!Fed(r, s, d, t, h).row, Rows!Fed(r, s, d, t, h).shown)
           /\ Rows!Fed(r, s, d, t, h).row.mac = d
<1>. DEFINE a == Rows!Adopted(r, d)
            g == [val |-> h, of |-> d]
            v == [val |-> t, of |-> d]
            n == [a EXCEPT !.temp = v, !.age = 0, !.hum = IF h = none THEN @ ELSE g]
            x == Rows!Fed(r, s, d, t, h)
<1>1. /\ r \in Rows!Row /\ s \in Readings
      /\ r.pub \in Values \cup {none} /\ r.stale \in BOOLEAN /\ d # none
  BY RowParts, RowSizes DEF RowFits
<1>2. /\ a \in Rows!Row /\ a.mac = d /\ a.temp = r.temp /\ a.age = r.age /\ a.stale = r.stale
      /\ a.hum.of \in {none, d}
      /\ a.pub # none => r.mac = d /\ a.pub = r.pub
  <2>1. CASE r.mac = d
    BY <1>1, <2>1 DEF Rows!Adopted, RowFits
  <2>2. CASE r.mac # d
    <3>1. a = Rows!Adopted(r, d)
      OBVIOUS
    <3>. HIDE DEF a
    <3>2. /\ a \in Rows!Row /\ a.mac = d /\ a.temp = r.temp /\ a.hum = Rows!None
          /\ a.age = r.age /\ a.pub = none /\ a.stale = r.stale
      BY <1>1, <2>2, <3>1, ReadingFacts, AdoptedParts
    <3>. QED
      BY <3>2, ReadingFacts
  <2>. QED
    BY <2>1, <2>2
<1>3. x = IF t = none THEN Rows!Unchanged(a, s)
          ELSE IF Rows!Publishes(n) THEN Rows!Published(n, s) ELSE Rows!Unchanged(n, s)
  BY DEF Rows!Fed
<1>. HIDE DEF a, x
<1>4. RowFits(a, s)
  BY <1>1, <1>2 DEF RowFits
<1>5. CASE t = none
  <2>1. x.row = a /\ x.shown = s
    BY <1>3, <1>5 DEF Rows!Unchanged
  <2>. QED
    BY <1>2, <1>4, <2>1 DEF x
<1>6. CASE t # none
  <2>1. t \in Values /\ v \in Rows!Reading /\ v # Rows!None /\ v.val = t /\ g.of = d
    BY <1>6, ReadingFacts
  <2>2. h # none => g \in Rows!Reading
    BY ReadingFacts
  <2>3. a.hum \in Rows!Reading
    BY <1>2, RowParts
  <2>. HIDE DEF v
  <2>4. /\ n \in Rows!Row /\ n.mac = a.mac /\ n.temp = v
        /\ n.hum = IF h = none THEN a.hum ELSE g
        /\ n.age = 0 /\ n.pub = a.pub /\ n.pubAge = a.pubAge /\ n.stale = a.stale
    <3>1. 0 \in 0..StaleAfter
      BY RowSizes
    <3>2. CASE h = none
      <4>1. n = Filled(a, v, a.hum, h)
        BY <3>2 DEF Filled
      <4>. HIDE DEF n
      <4>. QED
        BY <1>2, <2>1, <2>3, <3>1, <3>2, <4>1, FedParts
    <3>3. CASE h # none
      <4>1. g \in Rows!Reading /\ n = Filled(a, v, g, h)
        BY <2>2, <3>3 DEF Filled
      <4>. HIDE DEF g, n
      <4>. QED
        BY <1>2, <2>1, <3>1, <4>1, FedParts
    <3>. QED
      BY <3>2, <3>3
  <2>. HIDE DEF n
  <2>5. n.mac = d /\ n.hum.of \in {none, d}
    BY <1>2, <2>1, <2>4
  <2>6. CASE Rows!Publishes(n)
    <3>1. x = Rows!Published(n, s)
      BY <1>3, <1>6, <2>6
    <3>2. /\ x.row \in Rows!Row /\ x.row.mac = n.mac /\ x.row.temp = n.temp
          /\ x.row.hum = n.hum /\ x.row.age = n.age /\ x.row.pub = n.temp.val
          /\ x.row.stale = FALSE
          /\ x.shown \in Readings /\ x.shown.temp = n.temp
      <4>1. 0 \in 0..RowRepeat /\ n.temp.val \in Values
        BY <2>1, <2>4, RowSizes
      <4>. QED
        BY <1>1, <2>4, <3>1, <4>1, PublishedParts
    <3>3. /\ x.row.age \in 0..StaleAfter-1 /\ x.row.age # -1 /\ x.row.age # StaleAfter
          /\ v = [val |-> x.row.pub, of |-> x.row.mac]
      BY <1>2, <2>1, <2>4, <3>2, RowSizes DEF v
    <3>4. RowFits(x.row, x.shown)
      BY <1>1, <2>1, <2>4, <2>5, <3>2, <3>3 DEF RowFits
    <3>. QED
      BY <2>5, <3>2, <3>4 DEF x
  <2>7. CASE ~Rows!Publishes(n)
    <3>1. x.row = n /\ x.shown = s
      BY <1>3, <1>6, <2>7 DEF Rows!Unchanged
    <3>2. a.pub = t /\ r.stale = FALSE
      BY <1>1, <1>2, <2>1, <2>4, <2>7 DEF Rows!Publishes
    <3>3. s.temp = v
      BY <1>1, <1>2, <1>6, <3>2 DEF RowFits, v
    <3>4. /\ n.age \in 0..StaleAfter-1 /\ n.age # -1 /\ n.age # StaleAfter
          /\ v = [val |-> n.pub, of |-> n.mac] /\ n.stale = FALSE
      BY <1>2, <2>4, <3>2, RowSizes DEF v
    <3>5. RowFits(n, s)
      BY <1>1, <2>1, <2>4, <2>5, <3>3, <3>4 DEF RowFits
    <3>. QED
      BY <2>5, <3>1, <3>5 DEF x
  <2>. QED
    BY <2>6, <2>7
<1>. QED
  BY <1>5, <1>6

(* A second, over slot i. *)
LEMMA WalkedFits ==
    ASSUME Rows!ConstantsAssumption, NEW r, NEW s, RowFits(r, s), NEW i \in 1..MaxDials
    PROVE  /\ RowFits(Rows!Walked(Rows!Aged(r), s, i).row, Rows!Walked(Rows!Aged(r), s, i).shown)
           /\ Rows!Walked(Rows!Aged(r), s, i).row.mac \in {none, Rows!Occupant(sensorBonds, i)}
<1>. DEFINE o == Rows!Aged(r)
            c == [o EXCEPT !.mac = none, !.temp = Rows!None, !.hum = Rows!None, !.age = -1]
            x == Rows!Walked(o, s, i)
<1>1. /\ r \in Rows!Row /\ s \in Readings
      /\ r.age \in 0..StaleAfter \cup {-1}
      /\ r.pubAge \in 0..RowRepeat \cup {-1} /\ r.stale \in BOOLEAN
      /\ StaleAfter \in Nat /\ RowRepeat \in Nat /\ Rows!None \in Rows!Reading /\ Rows!None.of = none
      /\ r.temp = Rows!None <=> r.age = -1
      /\ r.stale => r.age \in {-1, StaleAfter}
      /\ s.temp # Rows!None <=> r.age \in 0..StaleAfter-1
      /\ r.age \in 0..StaleAfter-1 => s.temp = r.temp
  BY RowParts, RowSizes, ReadingFacts DEF RowFits
<1>2. /\ Rows!Older(r.age, StaleAfter) \in 0..StaleAfter \cup {-1}
      /\ Rows!Older(r.age, StaleAfter) = -1 <=> r.age = -1
      /\ r.age = StaleAfter => Rows!Older(r.age, StaleAfter) = StaleAfter
      /\ Rows!Older(r.age, StaleAfter) \in 0..StaleAfter-1 => r.age \in 0..StaleAfter-1
      /\ r.age \in 0..StaleAfter-1 =>
           Rows!Older(r.age, StaleAfter) \in 0..StaleAfter-1 \/ Rows!Older(r.age, StaleAfter) = StaleAfter
      /\ Rows!Older(r.pubAge, RowRepeat) \in 0..RowRepeat \cup {-1}
  BY <1>1 DEF Rows!Older
<1>3. /\ o \in Rows!Row /\ o.mac = r.mac /\ o.temp = r.temp /\ o.hum = r.hum
      /\ o.age = Rows!Older(r.age, StaleAfter) /\ o.pub = r.pub /\ o.stale = r.stale
  BY <1>1, <1>2, AgedParts
<1>4. x = IF Rows!Left(o, i)
          THEN IF o.age # -1 /\ ~o.stale THEN Rows!Retracted(c) ELSE Rows!Unchanged(c, s)
          ELSE IF Rows!Stale(o) THEN Rows!Retracted(o) ELSE Rows!Unchanged(o, s)
  BY DEF Rows!Walked
<1>. HIDE DEF o, x
<1>5. /\ c \in Rows!Row /\ c.mac = none /\ c.temp = Rows!None /\ c.hum = Rows!None
      /\ c.age = -1 /\ c.stale = o.stale
  BY <1>1, <1>3, ClearedParts
<1>. HIDE DEF c
<1>6. CASE Rows!Left(o, i) /\ o.age # -1 /\ ~o.stale
  <2>1. x = Rows!Retracted(c)
    BY <1>4, <1>6
  <2>2. /\ x.row \in Rows!Row /\ x.row.mac = c.mac /\ x.row.temp = c.temp /\ x.row.hum = c.hum
        /\ x.row.age = c.age /\ x.row.stale = TRUE
        /\ x.shown \in Readings /\ x.shown.temp = Rows!None
    BY <1>1, <1>5, <2>1, RetractedParts
  <2>3. RowFits(x.row, x.shown)
    BY <1>1, <1>5, <2>2 DEF RowFits
  <2>. QED
    BY <1>5, <2>2, <2>3 DEF x, o
<1>7. CASE Rows!Left(o, i) /\ ~(o.age # -1 /\ ~o.stale)
  <2>1. x.row = c /\ x.shown = s
    BY <1>4, <1>7 DEF Rows!Unchanged
  <2>2. s.temp = Rows!None
    BY <1>1, <1>2, <1>3, <1>7
  <2>3. RowFits(c, s)
    BY <1>1, <1>5, <2>2 DEF RowFits
  <2>. QED
    BY <1>5, <2>1, <2>3 DEF x, o
<1>8. CASE ~Rows!Left(o, i) /\ Rows!Stale(o)
  <2>1. x = Rows!Retracted(o)
    BY <1>4, <1>8
  <2>2. /\ x.row \in Rows!Row /\ x.row.mac = o.mac /\ x.row.temp = o.temp /\ x.row.hum = o.hum
        /\ x.row.age = o.age /\ x.row.stale = TRUE
        /\ x.shown \in Readings /\ x.shown.temp = Rows!None
    BY <1>1, <1>3, <2>1, RetractedParts
  <2>3. o.age = StaleAfter /\ StaleAfter # -1 /\ o.mac \in {none, Rows!Occupant(sensorBonds, i)}
    BY <1>1, <1>8 DEF Rows!Stale, Rows!Left
  <2>4. r.temp # Rows!None /\ (r.mac = none => r.temp = Rows!None) /\ r.hum.of \in {none, r.mac}
    BY <1>1, <1>2, <1>3, <2>3 DEF RowFits
  <2>5. RowFits(x.row, x.shown)
    BY <1>1, <1>3, <2>2, <2>3, <2>4 DEF RowFits
  <2>. QED
    BY <2>2, <2>3, <2>5 DEF x, o
<1>9. CASE ~Rows!Left(o, i) /\ ~Rows!Stale(o)
  <2>1. x.row = o /\ x.shown = s
    BY <1>4, <1>9 DEF Rows!Unchanged
  <2>2. o.mac \in {none, Rows!Occupant(sensorBonds, i)}
    BY <1>9 DEF Rows!Left
  <2>3. o.age = StaleAfter => o.stale
    BY <1>9 DEF Rows!Stale
  <2>4. /\ o.temp = Rows!None <=> o.age = -1
        /\ s.temp # Rows!None <=> o.age \in 0..StaleAfter-1
        /\ o.age \in 0..StaleAfter-1 => s.temp = o.temp
        /\ o.stale => o.age \in {-1, StaleAfter}
    BY <1>1, <1>2, <1>3, <2>3
  <2>5. /\ o.mac = none => o.temp = Rows!None
        /\ o.hum.of \in {none, o.mac}
        /\ o.mac # none /\ o.pub # none /\ ~o.stale => s.temp = [val |-> o.pub, of |-> o.mac]
    BY <1>3 DEF RowFits
  <2>6. RowFits(o, s)
    BY <1>1, <1>3, <2>3, <2>4, <2>5 DEF RowFits
  <2>. QED
    BY <2>1, <2>2, <2>6 DEF x, o
<1>. QED
  BY <1>6, <1>7, <1>8, <1>9

LEMMA RowsInit == ASSUME Rows!ConstantsAssumption, Rows!Init PROVE RowsInv
<1>. DEFINE r == [mac |-> none, temp |-> Rows!None, hum |-> Rows!None, age |-> -1,
                  pub |-> none, pubAge |-> -1, stale |-> FALSE]
            s == [temp |-> Rows!None, hum |-> Rows!None]
<1>1. r \in Rows!Row /\ s \in Readings
  BY ReadingFacts DEF Rows!Row, Readings
<1>2. /\ r.mac = none /\ r.temp = Rows!None /\ r.hum.of = none /\ r.age = -1 /\ r.stale = FALSE
      /\ s.temp = Rows!None /\ -1 \notin 0..StaleAfter-1 /\ r.age # StaleAfter
  BY ReadingFacts, RowSizes
<1>3. /\ sensorRow = [i \in 1..MaxDials |-> r] /\ sensorShown = [i \in 1..MaxDials |-> s]
      /\ sensorBonds = <<>> /\ checked = TRUE
  BY DEF Rows!Init
<1>. HIDE DEF r, s
<1>4. RowFits(r, s)
  BY <1>1, <1>2 DEF RowFits
<1>. QED
  BY <1>1, <1>2, <1>3, <1>4, RowSizes DEF RowsInv, Readings

LEMMA RowsFrame ==
    ASSUME Rows!ConstantsAssumption, RowsInv, NEW d \in Dials, Rows!Frame(d) PROVE RowsInv'
<1>. DEFINE i == Rows!SlotOf(d)
<1>1. d \in Rows!Range(sensorBonds) /\ UNCHANGED <<sensorBonds, checked>>
  BY DEF Rows!Frame
<1>2. /\ sensorBonds \in Seq(Dials) /\ Len(sensorBonds) <= MaxDials /\ checked \in BOOLEAN
      /\ sensorRow \in [1..MaxDials -> Rows!Row] /\ sensorShown \in [1..MaxDials -> Readings]
  BY DEF RowsInv, Readings
<1>3. i \in DOMAIN sensorBonds /\ sensorBonds[i] = d
  BY <1>1 DEF Rows!Range, Rows!SlotOf
<1>4. i \in 1..MaxDials
  BY <1>2, <1>3, RowSizes
<1>. HIDE DEF i
<1>5. PICK t \in Values \cup {none} : \E h \in Values \cup {none} :
         LET to == Rows!Fed(sensorRow[i], sensorShown[i], d, t, h)
         IN  /\ sensorRow' = IF i \in RowSlots THEN [sensorRow EXCEPT ![i] = to.row] ELSE sensorRow
             /\ sensorShown' = IF i \in RowSlots THEN [sensorShown EXCEPT ![i] = to.shown] ELSE sensorShown
  BY DEF Rows!Frame, i
<1>6. PICK h \in Values \cup {none} :
         LET to == Rows!Fed(sensorRow[i], sensorShown[i], d, t, h)
         IN  /\ sensorRow' = IF i \in RowSlots THEN [sensorRow EXCEPT ![i] = to.row] ELSE sensorRow
             /\ sensorShown' = IF i \in RowSlots THEN [sensorShown EXCEPT ![i] = to.shown] ELSE sensorShown
  BY <1>5
<1>. DEFINE r == Rows!Fed(sensorRow[i], sensorShown[i], d, t, h).row
            s == Rows!Fed(sensorRow[i], sensorShown[i], d, t, h).shown
<1>7. /\ sensorRow' = IF i \in RowSlots THEN [sensorRow EXCEPT ![i] = r] ELSE sensorRow
      /\ sensorShown' = IF i \in RowSlots THEN [sensorShown EXCEPT ![i] = s] ELSE sensorShown
  BY <1>6
<1>8. RowFits(r, s) /\ r.mac = d
  <2>1. RowFits(sensorRow[i], sensorShown[i])
    BY <1>4 DEF RowsInv
  <2>. QED
    BY <2>1, FedFits
<1>9. r \in Rows!Row /\ s \in Readings
  BY <1>8 DEF RowFits
<1>. HIDE DEF r, s
<1>10. sensorRow' \in [1..MaxDials -> Rows!Row] /\ sensorShown' \in [1..MaxDials -> Readings]
  BY <1>2, <1>4, <1>7, <1>9
<1>11. ASSUME NEW j \in 1..MaxDials
       PROVE  /\ RowFits(sensorRow'[j], sensorShown'[j])
              /\ j \in RowSlots /\ checked' => sensorRow'[j].mac \in {none, Rows!Occupant(sensorBonds', j)}
  <2>1. /\ RowFits(sensorRow[j], sensorShown[j])
        /\ j \in RowSlots /\ checked => sensorRow[j].mac \in {none, Rows!Occupant(sensorBonds, j)}
    BY DEF RowsInv
  <2>2. CASE j = i /\ i \in RowSlots
    <3>1. sensorRow'[j] = r /\ sensorShown'[j] = s
      BY <1>2, <1>4, <1>7, <2>2
    <3>. QED
      BY <1>1, <1>3, <1>8, <2>2, <3>1 DEF Rows!Occupant
  <2>3. CASE ~(j = i /\ i \in RowSlots)
    <3>1. sensorRow'[j] = sensorRow[j] /\ sensorShown'[j] = sensorShown[j]
      BY <1>2, <1>4, <1>7, <2>3
    <3>. QED
      BY <1>1, <2>1, <3>1
  <2>. QED
    BY <2>2, <2>3
<1>. QED
  BY <1>1, <1>2, <1>10, <1>11 DEF RowsInv, Readings

LEMMA RowsSecond ==
    ASSUME Rows!ConstantsAssumption, RowsInv, Rows!Second PROVE RowsInv'
<1>. DEFINE to(i) == IF i \in RowSlots THEN Rows!Walked(Rows!Aged(sensorRow[i]), sensorShown[i], i)
                     ELSE Rows!Unchanged(sensorRow[i], sensorShown[i])
<1>1. /\ sensorRow' = [i \in 1..MaxDials |-> to(i).row]
      /\ sensorShown' = [i \in 1..MaxDials |-> to(i).shown]
      /\ checked' = TRUE /\ sensorBonds' = sensorBonds
  BY DEF Rows!Second
<1>2. ASSUME NEW i \in 1..MaxDials
      PROVE  /\ RowFits(to(i).row, to(i).shown)
             /\ i \in RowSlots => to(i).row.mac \in {none, Rows!Occupant(sensorBonds, i)}
  <2>1. RowFits(sensorRow[i], sensorShown[i])
    BY DEF RowsInv
  <2>2. CASE i \in RowSlots
    <3>1. to(i) = Rows!Walked(Rows!Aged(sensorRow[i]), sensorShown[i], i)
      BY <2>2
    <3>. HIDE DEF to
    <3>. QED
      BY <2>1, <3>1, WalkedFits
  <2>3. CASE i \notin RowSlots
    <3>1. to(i).row = sensorRow[i] /\ to(i).shown = sensorShown[i]
      BY <2>3 DEF Rows!Unchanged
    <3>. HIDE DEF to
    <3>. QED
      BY <2>1, <2>3, <3>1
  <2>. QED
    BY <2>2, <2>3
<1>. HIDE DEF to
<1>3. \A i \in 1..MaxDials : to(i).row \in Rows!Row /\ to(i).shown \in Readings
  BY <1>2 DEF RowFits
<1>4. sensorRow' \in [1..MaxDials -> Rows!Row] /\ sensorShown' \in [1..MaxDials -> Readings]
  BY <1>1, <1>3
<1>5. ASSUME NEW i \in 1..MaxDials
      PROVE  /\ RowFits(sensorRow'[i], sensorShown'[i])
             /\ i \in RowSlots /\ checked' => sensorRow'[i].mac \in {none, Rows!Occupant(sensorBonds', i)}
  <2>1. sensorRow'[i] = to(i).row /\ sensorShown'[i] = to(i).shown
    BY <1>1
  <2>. QED
    BY <1>1, <1>2, <2>1
<1>. QED
  BY <1>1, <1>4, <1>5 DEF RowsInv, Readings

LEMMA RowsNext ==
    ASSUME Rows!ConstantsAssumption, RowsInv, [Rows!Next]_(Rows!vars) PROVE RowsInv'
<1>1. CASE \E d \in Dials : Rows!Frame(d)
  BY <1>1, RowsFrame
<1>2. CASE Rows!Second
  BY <1>2, RowsSecond
<1>3. ASSUME UNCHANGED <<sensorRow, sensorShown>>, checked' = FALSE,
             sensorBonds' \in Seq(Dials), Len(sensorBonds') <= MaxDials
      PROVE  RowsInv'
  BY <1>3 DEF RowsInv
<1>4. CASE \E d \in Dials : Rows!Bond(d)
  <2>1. PICK d \in Dials : Rows!Bond(d)
    BY <1>4
  <2>2. /\ sensorBonds' = Append(sensorBonds, d) /\ Len(sensorBonds) < MaxDials /\ checked' = FALSE
        /\ UNCHANGED <<sensorRow, sensorShown>>
    BY <2>1 DEF Rows!Bond
  <2>3. sensorBonds' \in Seq(Dials) /\ Len(sensorBonds') <= MaxDials
    BY <2>2, RowSizes DEF RowsInv
  <2>. QED
    BY <1>3, <2>2, <2>3
<1>5. CASE \E d \in Dials : Rows!Forget(d)
  <2>1. PICK d \in Dials : Rows!Forget(d)
    BY <1>5
  <2>2. /\ sensorBonds' = Rows!Without(sensorBonds, Rows!SlotOf(d)) /\ checked' = FALSE /\ d \in Rows!Range(sensorBonds)
        /\ UNCHANGED <<sensorRow, sensorShown>>
    BY <2>1 DEF Rows!Forget
  <2>3. Rows!SlotOf(d) \in DOMAIN sensorBonds /\ sensorBonds \in Seq(Dials) /\ Len(sensorBonds) <= MaxDials
    BY <2>2 DEF Rows!Range, Rows!SlotOf, RowsInv
  <2>4. sensorBonds' = HoleClosed(sensorBonds, Rows!SlotOf(d))
    BY <2>2 DEF Rows!Without, HoleClosed
  <2>5. sensorBonds' \in Seq(Dials) /\ Len(sensorBonds') = Len(sensorBonds) - 1
    BY <2>3, <2>4, HoleFacts
  <2>6. Len(sensorBonds') <= MaxDials
    BY <2>3, <2>5, RowSizes
  <2>. QED
    BY <1>3, <2>2, <2>5, <2>6
<1>6. CASE UNCHANGED Rows!vars
  BY <1>6 DEF Rows!vars, RowsInv
<1>. QED
  BY <1>1, <1>2, <1>4, <1>5, <1>6 DEF Rows!Next

LEMMA RowsTell ==
    ASSUME Rows!ConstantsAssumption, RowsInv
    PROVE  Rows!TypeOK /\ Rows!MovedIsRetracted /\ Rows!HumidityIsOwn /\ Rows!ShowsLatest /\ Rows!FreshIsShown
<1>1. Rows!TypeOK
  <2>1. sensorBonds \in [1..Len(sensorBonds) -> Dials] /\ Len(sensorBonds) \in 0..MaxDials
    BY RowSizes DEF RowsInv
  <2>2. sensorBonds \in UNION {[1..n -> Dials] : n \in 0..MaxDials}
    BY <2>1
  <2>3. /\ sensorRow \in [1..MaxDials -> Rows!Row] /\ checked \in BOOLEAN
        /\ sensorShown \in [1..MaxDials -> Readings]
    BY DEF RowsInv, Readings
  <2>. QED
    BY <2>2, <2>3, Zenon DEF Rows!TypeOK, Readings
<1>2. ASSUME NEW i \in RowSlots
      PROVE  /\ RowFits(sensorRow[i], sensorShown[i])
             /\ checked => sensorRow[i].mac \in {none, Rows!Occupant(sensorBonds, i)}
  BY RowSizes DEF RowsInv
<1>3. ASSUME NEW i \in RowSlots
      PROVE  /\ sensorRow[i].age \in 0..StaleAfter \cup {-1}
             /\ sensorRow[i].temp \in Rows!Reading /\ Rows!None.of = none /\ Rows!None \in Rows!Reading
  BY <1>2, RowParts, ReadingFacts DEF RowFits
<1>4. Rows!FreshIsShown
  <2>1. ASSUME NEW i \in RowSlots
        PROVE  (sensorShown[i].temp # Rows!None) = (sensorRow[i].age \in 0..StaleAfter-1)
    <3>1. (sensorShown[i].temp # Rows!None) <=> (sensorRow[i].age \in 0..StaleAfter-1)
      BY <1>2 DEF RowFits
    <3>. QED
      BY <3>1
  <2>. QED
    BY <2>1 DEF Rows!FreshIsShown
<1>5. Rows!HumidityIsOwn
  BY <1>2 DEF Rows!HumidityIsOwn, RowFits
<1>6. Rows!ShowsLatest
  BY <1>2 DEF Rows!ShowsLatest, RowFits
<1>7. Rows!MovedIsRetracted
  <2>1. ASSUME checked, NEW i \in RowSlots
        PROVE  \/ sensorShown[i].temp.of \in {none, Rows!Occupant(sensorBonds, i)}
               \/ sensorRow[i].temp.of # sensorRow[i].mac /\ sensorRow[i].mac = Rows!Occupant(sensorBonds, i)
    <3>1. CASE sensorShown[i].temp = Rows!None
      BY <1>3, <3>1
    <3>2. CASE sensorShown[i].temp # Rows!None
      <4>1. sensorShown[i].temp = sensorRow[i].temp /\ sensorRow[i].temp # Rows!None
        BY <1>2, <3>2 DEF RowFits
      <4>2. sensorRow[i].mac = Rows!Occupant(sensorBonds, i)
        BY <1>2, <2>1, <4>1 DEF RowFits
      <4>. QED
        BY <4>1, <4>2
    <3>. QED
      BY <3>1, <3>2
  <2>. QED
    BY <2>1 DEF Rows!MovedIsRetracted
<1>. QED
  BY <1>1, <1>4, <1>5, <1>6, <1>7

RowsService == scenario = "rows" => RowsInv

LEMMA RowsServiceKept ==
    /\ Init => RowsService
    /\ RowsService /\ [Next]_vars => RowsService'
<1>1. Rows!ConstantsAssumption
  BY InstancesAssumption
<1>2. Init => RowsService
  BY <1>1, RowsInit DEF Init, RowsService
<1>3. RowsService /\ [Next]_vars => RowsService'
  <2>. SUFFICES ASSUME RowsService, [Next]_vars, scenario' = "rows"
                PROVE  RowsInv'
    BY DEF RowsService
  <2>1. scenario = "rows"
    BY DEF Next, vars
  <2>2. [Rows!Next]_(Rows!vars)
    BY <2>1 DEF Next, vars, sensors, Rows!vars
  <2>. QED
    BY <1>1, <2>1, <2>2, RowsNext DEF RowsService
<1>. QED
  BY <1>2, <1>3



----------------------------------------------------------------------------
(* The rows of diagnostics. *)

DiagTypes ==
    /\ diagBonds \in Seq(Dials) /\ Len(diagBonds) <= MaxDials
    /\ \A i, j \in DOMAIN diagBonds : diagBonds[i] = diagBonds[j] => i = j
    /\ rt \in [Dials -> Diagnosis!Runtime] /\ diagRow \in [Diagnosis!Slots -> Diagnosis!Row]
    /\ primed \in BOOLEAN /\ walked \in BOOLEAN
    /\ settled \in [Diagnosis!Slots -> 0..Renewal]

(* What is in a row's caches was published. *)
Cached(r, s) ==
    /\ r.linkedValid /\ r.screenValid
    /\ s.mac = r.mac /\ s.fw = r.fw /\ s.linked = r.linked /\ s.screen = r.screen
    /\ s.seen # none
    /\ r.linked <=> s.seen \in 0..LiveFor-1

(* A number of seconds that was published at time k before now, when the   *)
(* occupant was there already, was its silence then -- unless it has been  *)
(* heard since.                                                            *)
OwnNumber(num, k, since, silence) ==
    k < Renewal /\ since >= k /\ k <= silence /\ silence < Wrap \div 2
        => num = silence - k

DiagInv ==
    /\ DiagTypes
    /\ primed => \A i \in Diagnosis!Slots : Cached(diagRow[i], diagShown[i])
    /\ ~walked => \A i \in Diagnosis!Slots : diagRow[i].seenPub >= 1
    /\ \A i \in DOMAIN diagBonds :
         OwnNumber(diagShown[i].seen, diagRow[i].seenPub, settled[i], rt[diagBonds[i]].silence)
    /\ walked => primed /\ Diagnosis!RowsAreTheSlots /\ Diagnosis!OutageGrows

LEMMA DiagSizes ==
    ASSUME Diagnosis!ConstantsAssumption
    PROVE  /\ blank \notin Int /\ none \notin Int /\ blank # none
           /\ MaxDials \in Nat /\ MaxDials > 0
           /\ LiveFor \in Nat /\ LiveFor > 0 /\ Renewal \in Nat /\ Renewal > 0
           /\ Wrap \in Nat /\ Wrap > 0 /\ Wrap \div 2 \in Nat /\ Wrap \div 2 <= Wrap
           /\ LiveFor < Wrap \div 2 /\ Renewal < Wrap \div 2
<1>1. Wrap \in Nat /\ Wrap > 0
  BY DEF Diagnosis!ConstantsAssumption
<1>2. Wrap \div 2 \in Nat /\ Wrap \div 2 <= Wrap
  BY <1>1
<1>. QED
  BY <1>1, <1>2 DEF Diagnosis!ConstantsAssumption

LEMMA RuntimeParts ==
    ASSUME NEW r \in Diagnosis!Runtime
    PROVE  /\ r.silence \in 0..(Wrap - 1) \cup {-1} /\ r.fw \in Firmware \cup {blank}
           /\ r.screen \in BOOLEAN
BY DEF Diagnosis!Runtime, Diagnosis!Silence

LEMMA DiagRowParts ==
    ASSUME NEW r \in Diagnosis!Row
    PROVE  /\ r.mac \in Dials \cup {blank} /\ r.fw \in Firmware \cup {blank}
           /\ r.linked \in BOOLEAN /\ r.screen \in BOOLEAN /\ r.seenPub \in 0..Renewal
BY DEF Diagnosis!Row

LEMMA NewParts ==
    /\ Diagnosis!NewRuntime \in Diagnosis!Runtime /\ Diagnosis!NewRuntime.silence = -1
    /\ Diagnosis!ConstantsAssumption => Diagnosis!BootRow \in Diagnosis!Row /\ Diagnosis!BootRow.seenPub = Renewal
<1>1. Diagnosis!NewRuntime \in Diagnosis!Runtime /\ Diagnosis!NewRuntime.silence = -1
  BY DEF Diagnosis!NewRuntime, Diagnosis!Runtime, Diagnosis!Silence
<1>2. ASSUME Diagnosis!ConstantsAssumption PROVE Diagnosis!BootRow \in Diagnosis!Row /\ Diagnosis!BootRow.seenPub = Renewal
  <2>1. Renewal \in 0..Renewal
    BY <1>2, DiagSizes
  <2>. QED
    BY <2>1 DEF Diagnosis!BootRow, Diagnosis!Row
<1>. QED
  BY <1>1, <1>2

LEMMA DiagInit == ASSUME Diagnosis!ConstantsAssumption, Diagnosis!Init PROVE DiagInv
<1>1. DiagTypes
  <2>1. rt \in [Dials -> Diagnosis!Runtime] /\ diagRow \in [Diagnosis!Slots -> Diagnosis!Row]
    BY NewParts DEF Diagnosis!Init
  <2>2. settled \in [Diagnosis!Slots -> 0..Renewal]
    <3>1. Renewal \in 0..Renewal
      BY DiagSizes
    <3>. QED
      BY <3>1 DEF Diagnosis!Init
  <2>3. diagBonds \in Seq(Dials) /\ Len(diagBonds) = 0 /\ DOMAIN diagBonds = {}
    BY DEF Diagnosis!Init
  <2>4. primed \in BOOLEAN /\ walked \in BOOLEAN
    BY DEF Diagnosis!Init
  <2>. QED
    BY <2>1, <2>2, <2>3, <2>4, DiagSizes DEF DiagTypes
<1>2. ~walked => \A i \in Diagnosis!Slots : diagRow[i].seenPub >= 1
  BY NewParts, DiagSizes DEF Diagnosis!Init
<1>. QED
  BY <1>1, <1>2 DEF Diagnosis!Init, DiagInv

(* What the core tells of a slot. *)
LEMMA ViewFacts ==
    ASSUME Diagnosis!ConstantsAssumption, DiagTypes, NEW i \in Diagnosis!Slots
    PROVE  /\ Diagnosis!View(i).mac \in Dials \cup {blank} /\ Diagnosis!View(i).fw \in Firmware \cup {blank}
           /\ Diagnosis!View(i).linked \in BOOLEAN /\ Diagnosis!View(i).screen \in BOOLEAN
           /\ Diagnosis!View(i).seen # none
           /\ Diagnosis!View(i).linked <=> Diagnosis!View(i).seen \in 0..LiveFor-1
           /\ i \in DOMAIN diagBonds /\ rt[diagBonds[i]].silence \in 0..(Wrap \div 2) - 1
                => Diagnosis!View(i).seen = rt[diagBonds[i]].silence
<1>1. CASE i \notin DOMAIN diagBonds
  <2>1. /\ Diagnosis!View(i).mac = blank /\ Diagnosis!View(i).fw = blank /\ Diagnosis!View(i).linked = FALSE
        /\ Diagnosis!View(i).seen = blank /\ Diagnosis!View(i).screen = FALSE
    BY <1>1 DEF Diagnosis!View, Diagnosis!EmptyView
  <2>. QED
    <3>1. blank \notin 0..LiveFor-1 /\ blank # none
      BY DiagSizes
    <3>. QED
      BY <1>1, <2>1, <3>1
<1>2. CASE i \in DOMAIN diagBonds
  <2>. DEFINE d == diagBonds[i]
              s == rt[d].silence
  <2>1. d \in Dials /\ rt[d] \in Diagnosis!Runtime
    BY <1>2 DEF DiagTypes
  <2>2. s \in 0..(Wrap - 1) \cup {-1} /\ rt[d].fw \in Firmware \cup {blank} /\ rt[d].screen \in BOOLEAN
    BY <2>1, RuntimeParts
  <2>3. /\ Diagnosis!View(i).mac = d /\ Diagnosis!View(i).fw = rt[d].fw /\ Diagnosis!View(i).linked = (s \in 0..(LiveFor - 1))
        /\ Diagnosis!View(i).seen = Diagnosis!LastSeen(d) /\ Diagnosis!View(i).screen = rt[d].screen
    BY <1>2 DEF Diagnosis!View, Diagnosis!Live
  <2>4. Diagnosis!LastSeen(d) = IF s \in 0..(Wrap \div 2) - 1 THEN s ELSE blank
    BY <2>2, DiagSizes DEF Diagnosis!LastSeen, Diagnosis!Signed
  <2>. HIDE DEF d, s
  <2>5. s \in 0..(LiveFor - 1) <=> Diagnosis!LastSeen(d) \in 0..LiveFor-1
    BY <2>2, <2>4, DiagSizes
  <2>6. Diagnosis!LastSeen(d) # none
    BY <2>2, <2>4, DiagSizes
  <2>7. /\ Diagnosis!View(i).mac \in Dials \cup {blank} /\ Diagnosis!View(i).fw \in Firmware \cup {blank}
        /\ Diagnosis!View(i).linked \in BOOLEAN /\ Diagnosis!View(i).screen \in BOOLEAN
    BY <2>1, <2>2, <2>3
  <2>8. Diagnosis!View(i).seen # none
    BY <2>3, <2>6
  <2>9. Diagnosis!View(i).linked <=> Diagnosis!View(i).seen \in 0..LiveFor-1
    BY <2>3, <2>5
  <2>10. rt[diagBonds[i]].silence \in 0..(Wrap \div 2) - 1 => Diagnosis!View(i).seen = rt[diagBonds[i]].silence
    BY <2>3, <2>4 DEF s, d
  <2>. QED
    BY <2>7, <2>8, <2>9, <2>10
<1>. QED
  BY <1>1, <1>2

LEMMA ViewSame ==
    ASSUME diagBonds' = diagBonds, rt' = rt
    PROVE  Diagnosis!AnyLive' = Diagnosis!AnyLive /\ \A i : Diagnosis!View(i)' = Diagnosis!View(i)
BY DEF Diagnosis!AnyLive, Diagnosis!View, Diagnosis!Live, Diagnosis!LastSeen,
   Diagnosis!Signed

(* The walk over one row. *)
LEMMA WalkedRow ==
    ASSUME Diagnosis!ConstantsAssumption, DiagTypes, NEW i \in Diagnosis!Slots,
           primed => Cached(diagRow[i], diagShown[i]), NEW w, w = Diagnosis!Walked(diagRow[i], diagShown[i], Diagnosis!View(i))
    PROVE  /\ w.row \in Diagnosis!Row /\ w.row.seenPub < Renewal
           /\ Cached(w.row, w.shown)
           /\ w.shown.mac = Diagnosis!View(i).mac /\ w.shown.fw = Diagnosis!View(i).fw
           /\ w.shown.linked = Diagnosis!View(i).linked /\ w.shown.screen = Diagnosis!View(i).screen
           /\ \/ w.row.seenPub = 0 /\ w.shown.seen = Diagnosis!View(i).seen
              \/ w.row.seenPub = diagRow[i].seenPub /\ w.shown.seen = diagShown[i].seen
<1>. DEFINE r == diagRow[i]
            s == diagShown[i]
            v == Diagnosis!View(i)
            edge == ~r.linkedValid \/ v.linked # r.linked
            due  == Diagnosis!SeenIsDue(r, edge)
            q == [mac |-> v.mac, fw |-> IF Diagnosis!FwChanged(r, v) THEN v.fw ELSE r.fw,
                  linked |-> v.linked, linkedValid |-> TRUE,
                  screen |-> v.screen, screenValid |-> TRUE,
                  seenPub |-> IF due THEN 0 ELSE r.seenPub]
            z == [mac    |-> IF Diagnosis!Prime \/ v.mac # r.mac THEN v.mac ELSE s.mac,
                  fw     |-> IF Diagnosis!FwChanged(r, v) THEN v.fw ELSE s.fw,
                  linked |-> IF Diagnosis!Prime \/ edge THEN v.linked ELSE s.linked,
                  seen   |-> IF due THEN v.seen ELSE s.seen,
                  screen |-> IF Diagnosis!Prime \/ ~r.screenValid \/ v.screen # r.screen
                             THEN v.screen ELSE s.screen]
<1>1. w.row = q /\ w.shown = z
  BY DEF Diagnosis!Walked
<1>2. /\ r \in Diagnosis!Row /\ r.mac \in Dials \cup {blank} /\ r.fw \in Firmware \cup {blank}
      /\ r.linked \in BOOLEAN /\ r.screen \in BOOLEAN /\ r.seenPub \in 0..Renewal
  BY DiagRowParts DEF DiagTypes
<1>3. /\ v.mac \in Dials \cup {blank} /\ v.fw \in Firmware \cup {blank}
      /\ v.linked \in BOOLEAN /\ v.screen \in BOOLEAN
      /\ v.seen # none /\ (v.linked <=> v.seen \in 0..LiveFor-1)
  BY ViewFacts
<1>4. primed => Cached(r, s)
  OBVIOUS
<1>5. /\ q.mac = v.mac /\ q.fw = IF Diagnosis!FwChanged(r, v) THEN v.fw ELSE r.fw
      /\ q.linked = v.linked /\ q.linkedValid = TRUE
      /\ q.screen = v.screen /\ q.screenValid = TRUE
      /\ q.seenPub = IF due THEN 0 ELSE r.seenPub
      /\ z.mac = IF Diagnosis!Prime \/ v.mac # r.mac THEN v.mac ELSE s.mac
      /\ z.fw = IF Diagnosis!FwChanged(r, v) THEN v.fw ELSE s.fw
      /\ z.linked = IF Diagnosis!Prime \/ edge THEN v.linked ELSE s.linked
      /\ z.seen = IF due THEN v.seen ELSE s.seen
      /\ z.screen = IF Diagnosis!Prime \/ ~r.screenValid \/ v.screen # r.screen
                    THEN v.screen ELSE s.screen
  OBVIOUS
<1>6. q \in Diagnosis!Row
  <2>1. (IF Diagnosis!FwChanged(r, v) THEN v.fw ELSE r.fw) \in Firmware \cup {blank}
    BY <1>2, <1>3
  <2>2. (IF due THEN 0 ELSE r.seenPub) \in 0..Renewal
    BY <1>2, DiagSizes
  <2>. HIDE DEF v, r, due
  <2>. QED
    BY <1>3, <2>1, <2>2 DEF Diagnosis!Row
<1>. HIDE DEF r, s, v, q, z
<1>7. q.fw = v.fw /\ z.mac = v.mac /\ z.fw = v.fw
  BY <1>4, <1>5 DEF Diagnosis!FwChanged, Diagnosis!Prime, Cached
<1>8. z.linked = v.linked
  BY <1>4, <1>5 DEF Diagnosis!Prime, Cached
<1>9. z.screen = v.screen
  BY <1>4, <1>5 DEF Diagnosis!Prime, Cached
<1>10. ASSUME ~due PROVE primed /\ r.linkedValid /\ v.linked = r.linked /\ r.seenPub # Renewal
  BY <1>10 DEF Diagnosis!SeenIsDue, Diagnosis!Prime
<1>11. /\ z.seen # none
       /\ v.linked <=> z.seen \in 0..LiveFor-1
  <2>1. CASE due
    BY <1>3, <1>5, <2>1
  <2>2. CASE ~due
    BY <1>4, <1>5, <1>10, <2>2 DEF Cached
  <2>. QED
    BY <2>1, <2>2
<1>12. q.seenPub < Renewal
  <2>1. CASE due
    BY <1>5, <2>1, DiagSizes
  <2>2. CASE ~due
    BY <1>2, <1>5, <1>10, <2>2, DiagSizes
  <2>. QED
    BY <2>1, <2>2
<1>13. Cached(q, z)
  BY <1>5, <1>7, <1>8, <1>9, <1>11 DEF Cached
<1>14. \/ q.seenPub = 0 /\ z.seen = v.seen
       \/ q.seenPub = r.seenPub /\ z.seen = s.seen
  BY <1>5
<1>. HIDE DEF due
<1>. QED
  BY <1>1, <1>6, <1>7, <1>8, <1>9, <1>12, <1>13, <1>14 DEF v, r, s

LEMMA DiagWalk == ASSUME Diagnosis!ConstantsAssumption, DiagInv, Diagnosis!Walk PROVE DiagInv'
<1>. DEFINE to(i) == Diagnosis!Walked(diagRow[i], diagShown[i], Diagnosis!View(i))
<1>1. /\ diagRow' = [i \in Diagnosis!Slots |-> to(i).row] /\ diagShown' = [i \in Diagnosis!Slots |-> to(i).shown]
      /\ total' = [connected |-> Diagnosis!AnyLive, count |-> Len(diagBonds)]
      /\ primed' = TRUE /\ walked' = TRUE
      /\ diagBonds' = diagBonds /\ rt' = rt /\ settled' = settled
  BY DEF Diagnosis!Walk
<1>2. DiagTypes /\ (primed => \A i \in Diagnosis!Slots : Cached(diagRow[i], diagShown[i]))
  BY DEF DiagInv
<1>3. ASSUME NEW i \in Diagnosis!Slots
      PROVE  /\ to(i).row \in Diagnosis!Row /\ to(i).row.seenPub < Renewal
             /\ Cached(to(i).row, to(i).shown)
             /\ to(i).shown.mac = Diagnosis!View(i).mac /\ to(i).shown.fw = Diagnosis!View(i).fw
             /\ to(i).shown.linked = Diagnosis!View(i).linked /\ to(i).shown.screen = Diagnosis!View(i).screen
             /\ \/ to(i).row.seenPub = 0 /\ to(i).shown.seen = Diagnosis!View(i).seen
                \/ to(i).row.seenPub = diagRow[i].seenPub /\ to(i).shown.seen = diagShown[i].seen
  BY <1>2, WalkedRow
<1>. HIDE DEF to
<1>4. \A i \in Diagnosis!Slots : diagRow'[i] = to(i).row /\ diagShown'[i] = to(i).shown
  BY <1>1
<1>5. DiagTypes'
  <2>1. diagRow' \in [Diagnosis!Slots -> Diagnosis!Row]
    BY <1>1, <1>3
  <2>. QED
    BY <1>1, <1>2, <2>1 DEF DiagTypes
<1>6. \A i \in Diagnosis!Slots : Cached(diagRow'[i], diagShown'[i])
  BY <1>3, <1>4
<1>7. DOMAIN diagBonds \subseteq Diagnosis!Slots
  BY <1>2, DiagSizes DEF DiagTypes, Diagnosis!Slots
<1>8. ASSUME NEW i \in DOMAIN diagBonds
      PROVE  OwnNumber(diagShown'[i].seen, diagRow'[i].seenPub, settled[i], rt[diagBonds[i]].silence)
  <2>. DEFINE si == rt[diagBonds[i]].silence
  <2>1. i \in Diagnosis!Slots /\ OwnNumber(diagShown[i].seen, diagRow[i].seenPub, settled[i], si)
    BY <1>7 DEF DiagInv
  <2>2. si \in Int
    <3>1. rt[diagBonds[i]] \in Diagnosis!Runtime
      BY <1>2 DEF DiagTypes
    <3>. QED
      BY <3>1, RuntimeParts, DiagSizes
  <2>3. CASE diagRow'[i].seenPub = 0 /\ diagShown'[i].seen = Diagnosis!View(i).seen
    <3>1. 0 <= si /\ si < Wrap \div 2 => si \in 0..(Wrap \div 2) - 1
      BY <2>2, DiagSizes
    <3>2. 0 <= si /\ si < Wrap \div 2 => Diagnosis!View(i).seen = si
      BY <1>2, <2>1, <3>1, ViewFacts
    <3>. HIDE DEF si
    <3>. QED
      BY <2>2, <2>3, <3>2 DEF OwnNumber, si
  <2>4. CASE diagRow'[i].seenPub = diagRow[i].seenPub /\ diagShown'[i].seen = diagShown[i].seen
    BY <2>1, <2>4
  <2>. QED
    BY <1>3, <1>4, <2>1, <2>3, <2>4
<1>9. Diagnosis!RowsAreTheSlots'
  <2>1. Diagnosis!AnyLive' = Diagnosis!AnyLive /\ \A i : Diagnosis!View(i)' = Diagnosis!View(i)
    BY <1>1, ViewSame
  <2>2. ASSUME NEW i \in Diagnosis!Slots
        PROVE  /\ diagShown'[i].mac = Diagnosis!View(i)'.mac /\ diagShown'[i].fw = Diagnosis!View(i)'.fw
               /\ diagShown'[i].linked = Diagnosis!View(i)'.linked
               /\ diagShown'[i].screen = Diagnosis!View(i)'.screen
               /\ diagShown'[i].seen # none
    <3>1. Diagnosis!View(i)' = Diagnosis!View(i)
      BY <2>1
    <3>2. diagShown'[i].seen # none
      BY <1>6 DEF Cached
    <3>. QED
      BY <1>3, <1>4, <3>1, <3>2
  <2>. QED
    BY <1>1, <2>1, <2>2 DEF Diagnosis!RowsAreTheSlots
<1>10. Diagnosis!OutageGrows'
  <2>1. ASSUME NEW i \in DOMAIN diagBonds, settled[i] = Renewal,
               rt[diagBonds[i]].silence >= LiveFor + Renewal,
               rt[diagBonds[i]].silence < Wrap \div 2
        PROVE  diagShown'[i].seen \in (rt[diagBonds[i]].silence - Renewal + 1)..rt[diagBonds[i]].silence
    <3>. DEFINE si == rt[diagBonds[i]].silence
                k  == diagRow'[i].seenPub
    <3>1. si \in Int
      <4>1. rt[diagBonds[i]] \in Diagnosis!Runtime
        BY <1>2 DEF DiagTypes
      <4>. QED
        BY <4>1, RuntimeParts, DiagSizes
    <3>2. k \in 0..Renewal /\ k < Renewal
      <4>1. i \in Diagnosis!Slots /\ diagRow'[i] \in Diagnosis!Row /\ diagRow'[i].seenPub < Renewal
        BY <1>3, <1>4, <1>7
      <4>. QED
        BY <4>1, DiagRowParts
    <3>3. OwnNumber(diagShown'[i].seen, k, Renewal, si)
      BY <1>8, <2>1
    <3>4. si >= LiveFor + Renewal /\ si < Wrap \div 2
      BY <2>1
    <3>. HIDE DEF si, k
    <3>5. diagShown'[i].seen = si - k
      BY <3>1, <3>2, <3>3, <3>4, DiagSizes DEF OwnNumber
    <3>6. si - k \in (si - Renewal + 1)..si
      BY <3>1, <3>2, DiagSizes
    <3>. QED
      BY <3>5, <3>6 DEF si
  <2>. QED
    BY <1>1, <2>1 DEF Diagnosis!OutageGrows
<1>. QED
  BY <1>1, <1>5, <1>6, <1>8, <1>9, <1>10 DEF DiagInv

LEMMA DiagSecond == ASSUME Diagnosis!ConstantsAssumption, DiagInv, Diagnosis!Second PROVE DiagInv'
<1>1. /\ rt' = [d \in Dials |-> [rt[d] EXCEPT !.silence = Diagnosis!OneOlder(@)]]
      /\ diagRow' = [i \in Diagnosis!Slots |->
                   [diagRow[i] EXCEPT !.seenPub = IF @ = Renewal THEN Renewal ELSE @ + 1]]
      /\ settled' = [i \in Diagnosis!Slots |-> IF settled[i] = Renewal THEN Renewal ELSE settled[i] + 1]
      /\ walked' = FALSE
      /\ UNCHANGED <<diagBonds, primed, total, diagShown>>
  BY DEF Diagnosis!Second
<1>2. DiagTypes /\ (primed => \A i \in Diagnosis!Slots : Cached(diagRow[i], diagShown[i]))
  BY DEF DiagInv
<1>3. ASSUME NEW d \in Dials
      PROVE  /\ rt'[d] \in Diagnosis!Runtime /\ rt[d].silence \in 0..(Wrap - 1) \cup {-1}
             /\ rt'[d].silence = Diagnosis!OneOlder(rt[d].silence)
  <2>1. rt[d] \in Diagnosis!Runtime /\ rt[d].silence \in 0..(Wrap - 1) \cup {-1}
    BY <1>2, RuntimeParts DEF DiagTypes
  <2>2. Diagnosis!OneOlder(rt[d].silence) \in Diagnosis!Silence
    BY <2>1, DiagSizes DEF Diagnosis!OneOlder, Diagnosis!Silence
  <2>3. rt'[d] = [rt[d] EXCEPT !.silence = Diagnosis!OneOlder(@)]
    BY <1>1
  <2>. QED
    BY <2>1, <2>2, <2>3 DEF Diagnosis!Runtime
<1>4. ASSUME NEW i \in Diagnosis!Slots
      PROVE  /\ diagRow'[i] \in Diagnosis!Row /\ diagRow[i].seenPub \in 0..Renewal
             /\ diagRow'[i].seenPub = IF diagRow[i].seenPub = Renewal THEN Renewal
                                  ELSE diagRow[i].seenPub + 1
             /\ diagRow'[i].mac = diagRow[i].mac /\ diagRow'[i].fw = diagRow[i].fw
             /\ diagRow'[i].linked = diagRow[i].linked /\ diagRow'[i].linkedValid = diagRow[i].linkedValid
             /\ diagRow'[i].screen = diagRow[i].screen /\ diagRow'[i].screenValid = diagRow[i].screenValid
             /\ settled[i] \in 0..Renewal /\ settled'[i] \in 0..Renewal
             /\ settled'[i] = IF settled[i] = Renewal THEN Renewal ELSE settled[i] + 1
  <2>1. diagRow[i] \in Diagnosis!Row /\ diagRow[i].seenPub \in 0..Renewal
    BY <1>2, DiagRowParts DEF DiagTypes
  <2>. DEFINE k == IF diagRow[i].seenPub = Renewal THEN Renewal ELSE diagRow[i].seenPub + 1
  <2>2. k \in 0..Renewal
    BY <2>1, DiagSizes
  <2>3. diagRow'[i] = [diagRow[i] EXCEPT !.seenPub = k]
    BY <1>1
  <2>. HIDE DEF k
  <2>4. /\ diagRow'[i] \in Diagnosis!Row /\ diagRow'[i].seenPub = k
        /\ diagRow'[i].mac = diagRow[i].mac /\ diagRow'[i].fw = diagRow[i].fw
        /\ diagRow'[i].linked = diagRow[i].linked /\ diagRow'[i].linkedValid = diagRow[i].linkedValid
        /\ diagRow'[i].screen = diagRow[i].screen /\ diagRow'[i].screenValid = diagRow[i].screenValid
    BY <2>1, <2>2, <2>3 DEF Diagnosis!Row
  <2>5. settled[i] \in 0..Renewal
    BY <1>2 DEF DiagTypes
  <2>6. settled'[i] = IF settled[i] = Renewal THEN Renewal ELSE settled[i] + 1
    BY <1>1
  <2>7. settled'[i] \in 0..Renewal
    BY <2>5, <2>6, DiagSizes
  <2>. QED
    BY <2>1, <2>4, <2>5, <2>6, <2>7 DEF k
<1>5. DiagTypes'
  <2>1. rt' \in [Dials -> Diagnosis!Runtime]
    <3>1. rt' = [d \in Dials |-> rt'[d]]
      BY <1>1
    <3>. QED
      BY <1>3, <3>1
  <2>2. diagRow' \in [Diagnosis!Slots -> Diagnosis!Row] /\ settled' \in [Diagnosis!Slots -> 0..Renewal]
    <3>1. diagRow' = [i \in Diagnosis!Slots |-> diagRow'[i]] /\ settled' = [i \in Diagnosis!Slots |-> settled'[i]]
      BY <1>1
    <3>. QED
      BY <1>4, <3>1
  <2>. QED
    BY <1>1, <1>2, <2>1, <2>2 DEF DiagTypes
<1>6. primed' => \A i \in Diagnosis!Slots : Cached(diagRow'[i], diagShown'[i])
  BY <1>1, <1>2, <1>4 DEF Cached
<1>7. \A i \in Diagnosis!Slots : diagRow'[i].seenPub >= 1
  BY <1>4, DiagSizes
<1>8. ASSUME NEW i \in DOMAIN diagBonds
      PROVE  OwnNumber(diagShown[i].seen, diagRow'[i].seenPub, settled'[i], rt'[diagBonds[i]].silence)
  <2>. DEFINE d == diagBonds[i]
              si == rt[d].silence
              sj == rt'[d].silence
              k == diagRow[i].seenPub
              kj == diagRow'[i].seenPub
  <2>1. i \in Diagnosis!Slots /\ d \in Dials
    BY <1>2, DiagSizes DEF DiagTypes, Diagnosis!Slots
  <2>2. OwnNumber(diagShown[i].seen, k, settled[i], si)
    BY DEF DiagInv
  <2>3. /\ si \in 0..(Wrap - 1) \cup {-1} /\ sj = Diagnosis!OneOlder(si)
        /\ k \in 0..Renewal /\ kj = IF k = Renewal THEN Renewal ELSE k + 1
        /\ settled[i] \in 0..Renewal
        /\ settled'[i] = IF settled[i] = Renewal THEN Renewal ELSE settled[i] + 1
    BY <1>3, <1>4, <2>1
  <2>. HIDE DEF si, sj, k, kj
  <2>4. sj >= 1 => si >= 0 /\ sj = si + 1
    BY <2>3, DiagSizes DEF Diagnosis!OneOlder
  <2>5. SUFFICES ASSUME kj < Renewal, settled'[i] >= kj, kj <= sj, sj < Wrap \div 2
                 PROVE  diagShown[i].seen = sj - kj
    BY DEF OwnNumber, kj, sj
  <2>6. k < Renewal /\ kj = k + 1
    BY <2>3, <2>5, DiagSizes
  <2>7. settled[i] >= k
    BY <2>3, <2>5, <2>6, DiagSizes
  <2>8. sj = si + 1 /\ si >= k /\ si < Wrap \div 2 /\ si \in Int
    BY <2>3, <2>4, <2>5, <2>6, DiagSizes DEF Diagnosis!OneOlder
  <2>9. diagShown[i].seen = si - k
    BY <2>2, <2>6, <2>7, <2>8 DEF OwnNumber
  <2>. QED
    BY <2>3, <2>6, <2>8, <2>9
<1>. QED
  BY <1>1, <1>5, <1>6, <1>7, <1>8 DEF DiagInv

LEMMA DiagFrame ==
    ASSUME Diagnosis!ConstantsAssumption, DiagInv, NEW d \in Dials, Diagnosis!Frame(d) PROVE DiagInv'
<1>1. /\ ~walked
      /\ UNCHANGED <<diagBonds, diagRow, primed, total, diagShown, walked, settled>>
  BY DEF Diagnosis!Frame
<1>2. DiagTypes /\ rt[d] \in Diagnosis!Runtime
  BY DEF DiagInv, DiagTypes
<1>3. /\ rt' \in [Dials -> Diagnosis!Runtime] /\ rt'[d].silence = 0
      /\ \A e \in Dials : e # d => rt'[e] = rt[e]
  <2>1. ASSUME NEW n \in Diagnosis!Runtime, rt' = [rt EXCEPT ![d] = n], n.silence = 0
        PROVE  /\ rt' \in [Dials -> Diagnosis!Runtime] /\ rt'[d].silence = 0
               /\ \A e \in Dials : e # d => rt'[e] = rt[e]
    BY <1>2, <2>1 DEF DiagTypes
  <2>2. 0 \in Diagnosis!Silence
    BY DiagSizes DEF Diagnosis!Silence
  <2>3. CASE rt' = [rt EXCEPT ![d].silence = 0]
    <3>. DEFINE n == [rt[d] EXCEPT !.silence = 0]
    <3>1. n \in Diagnosis!Runtime /\ n.silence = 0
      BY <1>2, <2>2 DEF Diagnosis!Runtime
    <3>2. rt' = [rt EXCEPT ![d] = n]
      BY <2>3
    <3>. HIDE DEF n
    <3>. QED
      BY <2>1, <3>1, <3>2
  <2>4. CASE \E f \in Firmware : rt' = [rt EXCEPT ![d].silence = 0, ![d].fw = f]
    <3>1. PICK f \in Firmware : rt' = [rt EXCEPT ![d].silence = 0, ![d].fw = f]
      BY <2>4
    <3>. DEFINE n == [rt[d] EXCEPT !.silence = 0, !.fw = f]
    <3>2. n \in Diagnosis!Runtime /\ n.silence = 0
      BY <1>2, <2>2 DEF Diagnosis!Runtime
    <3>3. rt' = [rt EXCEPT ![d] = n]
      BY <1>2, <3>1 DEF DiagTypes
    <3>. HIDE DEF n
    <3>. QED
      BY <2>1, <3>2, <3>3
  <2>5. CASE \E s \in BOOLEAN : rt' = [rt EXCEPT ![d].silence = 0, ![d].screen = s]
    <3>1. PICK s \in BOOLEAN : rt' = [rt EXCEPT ![d].silence = 0, ![d].screen = s]
      BY <2>5
    <3>. DEFINE n == [rt[d] EXCEPT !.silence = 0, !.screen = s]
    <3>2. n \in Diagnosis!Runtime /\ n.silence = 0
      BY <1>2, <2>2 DEF Diagnosis!Runtime
    <3>3. rt' = [rt EXCEPT ![d] = n]
      BY <1>2, <3>1 DEF DiagTypes
    <3>. HIDE DEF n
    <3>. QED
      BY <2>1, <3>2, <3>3
  <2>. QED
    BY <2>3, <2>4, <2>5 DEF Diagnosis!Frame
<1>4. DiagTypes'
  BY <1>1, <1>2, <1>3 DEF DiagTypes
<1>5. \A i \in Diagnosis!Slots : diagRow[i].seenPub >= 1
  BY <1>1 DEF DiagInv
<1>6. ASSUME NEW i \in DOMAIN diagBonds
      PROVE  OwnNumber(diagShown[i].seen, diagRow[i].seenPub, settled[i], rt'[diagBonds[i]].silence)
  <2>1. /\ i \in Diagnosis!Slots /\ diagBonds[i] \in Dials
        /\ OwnNumber(diagShown[i].seen, diagRow[i].seenPub, settled[i], rt[diagBonds[i]].silence)
    BY <1>2, DiagSizes DEF DiagInv, DiagTypes, Diagnosis!Slots
  <2>2. CASE diagBonds[i] = d
    <3>1. diagRow[i].seenPub >= 1 /\ diagRow[i].seenPub \in 0..Renewal
      BY <1>2, <1>5, <2>1, DiagRowParts DEF DiagTypes
    <3>2. ~(diagRow[i].seenPub <= 0)
      BY <3>1, DiagSizes
    <3>. QED
      BY <1>3, <2>2, <3>2 DEF OwnNumber
  <2>3. CASE diagBonds[i] # d
    BY <1>3, <2>1, <2>3
  <2>. QED
    BY <2>2, <2>3
<1>. QED
  BY <1>1, <1>4, <1>6 DEF DiagInv

(* The table changes: a slot with another occupant starts anew, and the    *)
(* one who came or went has not been heard.                                *)
LEMMA DiagMoved ==
    ASSUME Diagnosis!ConstantsAssumption, DiagInv, ~walked, NEW d \in Dials,
           diagBonds' \in Seq(Dials), Len(diagBonds') <= MaxDials,
           \A i, j \in DOMAIN diagBonds' : diagBonds'[i] = diagBonds'[j] => i = j,
           rt' = [rt EXCEPT ![d] = Diagnosis!NewRuntime], settled' = Diagnosis!Moved(diagBonds'),
           UNCHANGED <<diagRow, primed, total, diagShown, walked>>
    PROVE  DiagInv'
<1>1. DiagTypes
  BY DEF DiagInv
<1>2. ASSUME NEW i \in Diagnosis!Slots
      PROVE  /\ settled'[i] \in {0, settled[i]}
             /\ settled[i] \in 0..Renewal
             /\ i \in DOMAIN diagBonds' /\ settled'[i] # 0 => i \in DOMAIN diagBonds /\ diagBonds'[i] = diagBonds[i]
  <2>1. settled[i] \in 0..Renewal
    BY <1>1 DEF DiagTypes
  <2>2. settled'[i] = IF i \in DOMAIN diagBonds' /\ i \in DOMAIN diagBonds
                      THEN IF diagBonds'[i] = diagBonds[i] THEN settled[i] ELSE 0
                      ELSE IF i \in DOMAIN diagBonds' \/ i \in DOMAIN diagBonds THEN 0 ELSE settled[i]
    BY DEF Diagnosis!Moved
  <2>. QED
    BY <2>1, <2>2
<1>3. settled' \in [Diagnosis!Slots -> 0..Renewal]
  <2>1. settled' = [i \in Diagnosis!Slots |-> settled'[i]]
    BY DEF Diagnosis!Moved
  <2>2. \A i \in Diagnosis!Slots : settled'[i] \in 0..Renewal
    BY <1>2, DiagSizes
  <2>. QED
    BY <2>1, <2>2
<1>4. /\ rt' \in [Dials -> Diagnosis!Runtime] /\ rt'[d].silence = -1
      /\ \A e \in Dials : e # d => rt'[e] = rt[e]
  BY <1>1, NewParts DEF DiagTypes
<1>5. DiagTypes'
  BY <1>1, <1>3, <1>4 DEF DiagTypes
<1>6. \A i \in Diagnosis!Slots : diagRow[i].seenPub >= 1 /\ diagRow[i].seenPub \in 0..Renewal
  BY <1>1, DiagRowParts DEF DiagInv, DiagTypes
<1>7. ASSUME NEW i \in DOMAIN diagBonds'
      PROVE  OwnNumber(diagShown[i].seen, diagRow[i].seenPub, settled'[i], rt'[diagBonds'[i]].silence)
  <2>1. i \in Diagnosis!Slots /\ diagBonds'[i] \in Dials
    BY DiagSizes DEF Diagnosis!Slots
  <2>2. diagRow[i].seenPub >= 1 /\ diagRow[i].seenPub \in Int
    BY <1>6, <2>1, DiagSizes
  <2>3. CASE settled'[i] = 0
    <3>1. ~(0 >= diagRow[i].seenPub)
      BY <2>2
    <3>. QED
      BY <2>3, <3>1 DEF OwnNumber
  <2>4. CASE diagBonds'[i] = d
    <3>1. ~(diagRow[i].seenPub <= -1)
      BY <2>2
    <3>. QED
      BY <1>4, <2>4, <3>1 DEF OwnNumber
  <2>5. CASE settled'[i] # 0 /\ diagBonds'[i] # d
    <3>1. i \in DOMAIN diagBonds /\ diagBonds'[i] = diagBonds[i] /\ settled'[i] = settled[i]
      BY <1>2, <2>1, <2>5
    <3>2. OwnNumber(diagShown[i].seen, diagRow[i].seenPub, settled[i], rt[diagBonds[i]].silence)
      BY <3>1 DEF DiagInv
    <3>3. rt'[diagBonds[i]] = rt[diagBonds[i]]
      BY <1>4, <2>1, <2>5, <3>1
    <3>. QED
      BY <3>1, <3>2, <3>3
  <2>. QED
    BY <2>3, <2>4, <2>5
<1>. QED
  BY <1>5, <1>7 DEF DiagInv

LEMMA DiagBond ==
    ASSUME Diagnosis!ConstantsAssumption, DiagInv, NEW d \in Dials, Diagnosis!Bond(d) PROVE DiagInv'
<1>. DEFINE n == Len(diagBonds)
<1>1. /\ d \notin Diagnosis!Range(diagBonds) /\ n < MaxDials /\ ~walked /\ diagBonds' = Append(diagBonds, d)
      /\ rt' = [rt EXCEPT ![d] = Diagnosis!NewRuntime] /\ settled' = Diagnosis!Moved(diagBonds')
      /\ UNCHANGED <<diagRow, primed, total, diagShown, walked>>
  BY DEF Diagnosis!Bond
<1>2. /\ diagBonds \in Seq(Dials) /\ n \in Nat /\ DOMAIN diagBonds = 1..n
      /\ \A i, j \in DOMAIN diagBonds : diagBonds[i] = diagBonds[j] => i = j
  BY DEF DiagInv, DiagTypes
<1>3. /\ diagBonds' \in Seq(Dials) /\ Len(diagBonds') = n + 1 /\ DOMAIN diagBonds' = 1..n+1
      /\ \A i \in 1..n : diagBonds'[i] = diagBonds[i]
      /\ diagBonds'[n + 1] = d
  BY <1>1, <1>2
<1>4. \A i \in 1..n : diagBonds[i] # d
  BY <1>1, <1>2 DEF Diagnosis!Range
<1>. HIDE DEF n
<1>5. ASSUME NEW i \in 1..n+1, NEW j \in 1..n+1, diagBonds'[i] = diagBonds'[j] PROVE i = j
  <2>1. i \in 1..n \/ i = n + 1
    BY <1>2
  <2>2. j \in 1..n \/ j = n + 1
    BY <1>2
  <2>. QED
    BY <1>2, <1>3, <1>4, <1>5, <2>1, <2>2
<1>6. Len(diagBonds') <= MaxDials
  BY <1>1, <1>2, <1>3, DiagSizes
<1>. QED
  BY <1>1, <1>3, <1>5, <1>6, DiagMoved

LEMMA DiagForget ==
    ASSUME Diagnosis!ConstantsAssumption, DiagInv, NEW d \in Dials, Diagnosis!Forget(d) PROVE DiagInv'
<1>. DEFINE n == Len(diagBonds)
<1>1. PICK k \in DOMAIN diagBonds : diagBonds[k] = d /\ diagBonds' = Diagnosis!Without(diagBonds, k)
  BY DEF Diagnosis!Forget
<1>2. /\ ~walked /\ rt' = [rt EXCEPT ![d] = Diagnosis!NewRuntime] /\ settled' = Diagnosis!Moved(diagBonds')
      /\ UNCHANGED <<diagRow, primed, total, diagShown, walked>>
  BY DEF Diagnosis!Forget
<1>3. /\ diagBonds \in Seq(Dials) /\ n \in Nat /\ n <= MaxDials /\ DOMAIN diagBonds = 1..n
      /\ \A i, j \in DOMAIN diagBonds : diagBonds[i] = diagBonds[j] => i = j
  BY DEF DiagInv, DiagTypes
<1>4. /\ diagBonds' \in Seq(Dials) /\ Len(diagBonds') = n - 1 /\ DOMAIN diagBonds' = 1..n-1
      /\ \A j \in 1..n-1 : diagBonds'[j] = IF j < k THEN diagBonds[j] ELSE diagBonds[j + 1]
  <2>1. diagBonds' = HoleClosed(diagBonds, k)
    BY <1>1 DEF Diagnosis!Without, HoleClosed
  <2>2. /\ HoleClosed(diagBonds, k) \in Seq(Dials) /\ Len(HoleClosed(diagBonds, k)) = Len(diagBonds) - 1
        /\ \A j \in 1..Len(diagBonds)-1 :
             HoleClosed(diagBonds, k)[j] = IF j < k THEN diagBonds[j] ELSE diagBonds[j + 1]
    <3>1. diagBonds \in Seq(Dials) /\ k \in DOMAIN diagBonds
      BY <1>1, <1>3
    <3>. HIDE DEF n
    <3>. QED
      BY <3>1, HoleFacts
  <2>. QED
    BY <2>1, <2>2
<1>. HIDE DEF n
<1>5. ASSUME NEW i \in 1..n-1, NEW j \in 1..n-1, diagBonds'[i] = diagBonds'[j] PROVE i = j
  <2>1. /\ i \in 1..n /\ j \in 1..n /\ i + 1 \in 1..n /\ j + 1 \in 1..n /\ k \in Int
    BY <1>1, <1>3
  <2>2. CASE i < k /\ j < k
    BY <1>3, <1>4, <1>5, <2>1, <2>2
  <2>3. CASE i < k /\ ~(j < k)
    <3>1. diagBonds[i] = diagBonds[j + 1]
      BY <1>4, <1>5, <2>3
    <3>2. i = j + 1
      BY <1>3, <2>1, <3>1
    <3>. QED
      BY <2>1, <2>3, <3>2
  <2>4. CASE ~(i < k) /\ j < k
    <3>1. diagBonds[i + 1] = diagBonds[j]
      BY <1>4, <1>5, <2>4
    <3>2. i + 1 = j
      BY <1>3, <2>1, <3>1
    <3>. QED
      BY <2>1, <2>4, <3>2
  <2>5. CASE ~(i < k) /\ ~(j < k)
    <3>1. diagBonds[i + 1] = diagBonds[j + 1]
      BY <1>4, <1>5, <2>5
    <3>2. i + 1 = j + 1
      BY <1>3, <2>1, <3>1
    <3>. QED
      BY <2>1, <3>2
  <2>. QED
    BY <2>2, <2>3, <2>4, <2>5
<1>6. Len(diagBonds') <= MaxDials
  BY <1>3, <1>4, DiagSizes
<1>. QED
  BY <1>2, <1>4, <1>5, <1>6, DiagMoved

LEMMA DiagReboot == ASSUME Diagnosis!ConstantsAssumption, DiagInv, Diagnosis!Reboot PROVE DiagInv'
<1>1. /\ ~walked /\ rt' = [d \in Dials |-> Diagnosis!NewRuntime] /\ diagRow' = [i \in Diagnosis!Slots |-> Diagnosis!BootRow]
      /\ primed' = FALSE /\ UNCHANGED <<diagBonds, walked, settled>>
  BY DEF Diagnosis!Reboot
<1>2. DiagTypes
  BY DEF DiagInv
<1>3. rt' \in [Dials -> Diagnosis!Runtime] /\ diagRow' \in [Diagnosis!Slots -> Diagnosis!Row]
  BY <1>1, NewParts
<1>4. DiagTypes'
  BY <1>1, <1>2, <1>3 DEF DiagTypes
<1>5. \A i \in Diagnosis!Slots : diagRow'[i].seenPub = Renewal
  BY <1>1, NewParts
<1>6. DOMAIN diagBonds \subseteq Diagnosis!Slots
  BY <1>2, DiagSizes DEF DiagTypes, Diagnosis!Slots
<1>7. \A i \in DOMAIN diagBonds' :
        OwnNumber(diagShown'[i].seen, diagRow'[i].seenPub, settled'[i], rt'[diagBonds'[i]].silence)
  BY <1>1, <1>5, <1>6, DiagSizes DEF OwnNumber
<1>8. \A i \in Diagnosis!Slots : diagRow'[i].seenPub >= 1
  BY <1>5, DiagSizes
<1>. QED
  BY <1>1, <1>4, <1>7, <1>8 DEF DiagInv

LEMMA DiagNext ==
    ASSUME Diagnosis!ConstantsAssumption, DiagInv, [Diagnosis!Next]_(Diagnosis!vars) PROVE DiagInv'
<1>1. CASE Diagnosis!Walk
  BY <1>1, DiagWalk
<1>2. CASE Diagnosis!Second
  BY <1>2, DiagSecond
<1>3. CASE Diagnosis!Reboot
  BY <1>3, DiagReboot
<1>4. CASE \E d \in Dials : Diagnosis!Frame(d)
  BY <1>4, DiagFrame
<1>5. CASE \E d \in Dials : Diagnosis!Bond(d)
  BY <1>5, DiagBond
<1>6. CASE \E d \in Dials : Diagnosis!Forget(d)
  BY <1>6, DiagForget
<1>7. CASE UNCHANGED Diagnosis!vars
  <2>1. Diagnosis!AnyLive' = Diagnosis!AnyLive /\ \A i : Diagnosis!View(i)' = Diagnosis!View(i)
    BY <1>7, ViewSame DEF Diagnosis!vars
  <2>2. Diagnosis!RowsAreTheSlots => Diagnosis!RowsAreTheSlots'
    BY <1>7, <2>1 DEF Diagnosis!RowsAreTheSlots, Diagnosis!vars
  <2>3. Diagnosis!OutageGrows => Diagnosis!OutageGrows'
    BY <1>7 DEF Diagnosis!OutageGrows, Diagnosis!vars
  <2>4. DiagTypes'
    BY <1>7 DEF DiagInv, DiagTypes, Diagnosis!vars
  <2>. QED
    BY <1>7, <2>2, <2>3, <2>4 DEF DiagInv, Diagnosis!vars
<1>. QED
  BY <1>1, <1>2, <1>3, <1>4, <1>5, <1>6, <1>7 DEF Diagnosis!Next

LEMMA DiagTells ==
    ASSUME Diagnosis!ConstantsAssumption, DiagInv
    PROVE  Diagnosis!TypeOK /\ Diagnosis!RowsAreTheSlots /\ Diagnosis!LinkedAgreesWithLastSeen /\ Diagnosis!OutageGrows
<1>1. Diagnosis!TypeOK
  BY DEF DiagInv, DiagTypes, Diagnosis!TypeOK, Diagnosis!IsInjective
<1>2. Diagnosis!RowsAreTheSlots /\ Diagnosis!OutageGrows
  BY DEF DiagInv, Diagnosis!RowsAreTheSlots, Diagnosis!OutageGrows
<1>3. Diagnosis!LinkedAgreesWithLastSeen
  <2>1. ASSUME walked, NEW i \in Diagnosis!Slots
        PROVE  diagShown[i].linked <=> diagShown[i].seen \in 0..(LiveFor - 1)
    <3>1. Cached(diagRow[i], diagShown[i])
      BY <2>1 DEF DiagInv
    <3>. QED
      BY <3>1 DEF Cached
  <2>. QED
    BY <2>1 DEF Diagnosis!LinkedAgreesWithLastSeen
<1>. QED
  BY <1>1, <1>2, <1>3

DiagService == scenario = "diagnostics" => DiagInv

LEMMA DiagServiceKept ==
    /\ Init => DiagService
    /\ DiagService /\ [Next]_vars => DiagService'
<1>1. Diagnosis!ConstantsAssumption
  BY InstancesAssumption
<1>2. Init => DiagService
  BY <1>1, DiagInit DEF Init, DiagService
<1>3. DiagService /\ [Next]_vars => DiagService'
  <2>. SUFFICES ASSUME DiagService, [Next]_vars, scenario' = "diagnostics"
                PROVE  DiagInv'
    BY DEF DiagService
  <2>1. scenario = "diagnostics"
    BY DEF Next, vars
  <2>2. [Diagnosis!Next]_(Diagnosis!vars)
    BY <2>1 DEF Next, vars, diagnosis, Diagnosis!vars
  <2>. QED
    BY <1>1, <2>1, <2>2, DiagNext DEF DiagService
<1>. QED
  BY <1>2, <1>3

(* A row of readings shows the latest of the dial in its slot exactly as   *)
(* long as they are repeated, and a row of diagnostics is about the dial in*)
(* its slot, with a number of seconds that agrees with its linked state and*)
(* grows while it stays away, however slots move and whatever happens      *)
(* between the walks (feed_sensor_row_, check_sensor_rows_,                *)
(* publish_diagnostics_).                                                  *)
THEOREM RowsAreKept == Spec => []RowsShowTheirDial
<1>1. Rows!ConstantsAssumption /\ Diagnosis!ConstantsAssumption
  BY InstancesAssumption DEF InstancesAssumption
<1>2. RowsService =>
        (scenario = "rows" =>
           /\ Rows!TypeOK /\ Rows!MovedIsRetracted /\ Rows!HumidityIsOwn
           /\ Rows!ShowsLatest /\ Rows!FreshIsShown)
  BY <1>1, RowsTell DEF RowsService
<1>3. DiagService =>
        (scenario = "diagnostics" =>
           /\ Diagnosis!TypeOK /\ Diagnosis!RowsAreTheSlots
           /\ Diagnosis!LinkedAgreesWithLastSeen /\ Diagnosis!OutageGrows)
  BY <1>1, DiagTells DEF DiagService
<1>4. RowsService /\ DiagService => RowsShowTheirDial
  BY <1>2, <1>3 DEF RowsShowTheirDial
<1>. QED
  BY <1>4, RowsServiceKept, DiagServiceKept, PTL DEF Spec

----------------------------------------------------------------------------
(* The source of the room temperature. *)

(* What is kept beside the id is a projection of it, unless it is BLE.     *)
Follows(r) ==
    /\ r.ext = (IF r.id \in Ext THEN r.id ELSE none)
    /\ r.primary = (IF r.id \in Dials THEN r.id ELSE none)
    /\ r.src # "ble" => r.src = (IF r.id \in Dials THEN "link" ELSE "internal")

(* A temperature on display is fresh, and of a Link that may be selected.  *)
Shows(r) ==
    r.shown # none => r.has /\ ~r.stale /\ r.primary \in {none, r.shown}

(* Before the start a v3 pin may stand beside the id, but nothing that can *)
(* feed the pump.                                                          *)
Hears(r) ==
    /\ r.ext = (IF r.id \in Ext THEN r.id ELSE none)
    /\ r.ext # none => r.src # "link"

(* Two states of the fields that differ in the id and its projection.      *)
SameReading(q, r) ==
    /\ q.dial = r.dial /\ q.has = r.has /\ q.stale = r.stale /\ q.shown = r.shown

SameSource(q, r) ==
    /\ q.id = r.id /\ q.src = r.src /\ q.primary = r.primary /\ q.ext = r.ext

LEMMA RoomSizes ==
    ASSUME Room!ConstantsAssumption
    PROVE  /\ Ext \subseteq Room!Source /\ Dials \subseteq Room!Source
           /\ "internal" \in Room!Source /\ "auto" \in Room!Source
           /\ none \notin Room!Source /\ "internal" \notin Ext /\ "internal" \notin Dials
           /\ "auto" \notin Ext /\ "auto" \notin Dials /\ "internal" # "auto"
           /\ \A x \in Ext : x \notin Dials
BY DEF Room!ConstantsAssumption, Room!Source

(* A service counts as we do.                                              *)
LEMMA RoomCardinality == ASSUME NEW S PROVE Room!Cardinality(S) = Cardinality(S)
BY DEF Room!Cardinality, Cardinality

LEMMA FewSources ==
    ASSUME Room!ConstantsAssumption PROVE IsFiniteSet(Ext) /\ IsFiniteSet(Dials)
BY DEF Room!ConstantsAssumption, Room!IsFiniteSet, IsFiniteSet

LEMMA ExternalsChosen ==
    Room!Externals = CHOOSE f \in [1..Cardinality(Ext) -> Ext] : IsInjective(f)
BY RoomCardinality DEF Room!Externals, Room!SetToSeq, Room!IsInjective,
   IsInjective

LEMMA OrderFacts ==
    ASSUME NEW S, NEW s \in Room!SetToSeqs(S)
    PROVE  s \in [1..Cardinality(S) -> S]
           /\ \A i, j \in 1..Cardinality(S) : i # j => s[i] # s[j]
BY RoomCardinality DEF Room!SetToSeqs

(* The external sources are listed once each.                              *)
LEMMA ExternalsListed ==
    ASSUME Room!ConstantsAssumption
    PROVE  Room!Externals \in Seq(Ext) /\ \A e \in Ext : \E i \in DOMAIN Room!Externals : Room!Externals[i] = e
<1>. DEFINE n == Cardinality(Ext)
<1>1. n \in Nat /\ ExistsBijection(1..n, Ext) /\ IsFiniteSet(Ext)
  BY FewSources, FS_CardinalityType
<1>2. \E f \in [1..n -> Ext] : IsInjective(f)
  BY <1>1 DEF ExistsBijection, Bijection, Injection
<1>3. Room!Externals \in [1..n -> Ext] /\ IsInjective(Room!Externals)
  BY <1>2, ExternalsChosen
<1>4. Room!Externals \in Injection(1..n, Ext)
  BY <1>3 DEF Injection
<1>5. Cardinality(1..n) = n
  BY <1>1, FS_Interval
<1>6. Room!Externals \in Surjection(1..n, Ext)
  BY <1>1, <1>4, <1>5, FS_Injection
<1>. QED
  BY <1>1, <1>3, <1>6 DEF Surjection

LEMMA IndexIsNumber ==
    ASSUME Room!ConstantsAssumption, NEW r \in Room!Room, NEW sl \in Seq(Dials)
    PROVE  Room!Index(r, sl) \in Int
<1>1. CASE r.ext # none
  <2>1. r.ext \in Ext
    BY <1>1 DEF Room!Room
  <2>2. \E i \in DOMAIN Room!Externals : Room!Externals[i] = r.ext
    BY <2>1, ExternalsListed
  <2>3. Room!Index(r, sl) = CHOOSE i \in DOMAIN Room!Externals : Room!Externals[i] = r.ext
    BY <1>1 DEF Room!Index
  <2>4. (CHOOSE i \in DOMAIN Room!Externals : Room!Externals[i] = r.ext) \in DOMAIN Room!Externals
    BY <2>2
  <2>. QED
    BY <2>3, <2>4, ExternalsListed
<1>2. CASE r.ext = none /\ r.id \in Room!ToSet(sl)
  <2>1. \E i \in DOMAIN sl : sl[i] = r.id
    BY <1>2 DEF Room!ToSet
  <2>2. Room!Index(r, sl) = Len(Room!Externals) + CHOOSE i \in DOMAIN sl : sl[i] = r.id
    BY <1>2 DEF Room!Index
  <2>3. (CHOOSE i \in DOMAIN sl : sl[i] = r.id) \in DOMAIN sl
    BY <2>1
  <2>4. Len(Room!Externals) \in Nat /\ DOMAIN sl \subseteq Int
    BY ExternalsListed
  <2>. QED
    BY <2>2, <2>3, <2>4
<1>3. CASE r.ext = none /\ r.id \notin Room!ToSet(sl)
  BY <1>3 DEF Room!Index
<1>. QED
  BY <1>1, <1>2, <1>3

LEMMA IndexOfSame ==
    ASSUME NEW q, NEW r, NEW sl, q.ext = r.ext, q.id = r.id
    PROVE  Room!Index(q, sl) = Room!Index(r, sl)
BY DEF Room!Index

LEMMA ProjectFacts ==
    ASSUME Room!ConstantsAssumption, NEW r \in Room!Room, NEW q, q = Room!Project(r)
    PROVE  /\ q \in Room!Room /\ SameReading(q, r) /\ q.sent = r.sent /\ q.index = r.index
           /\ q.id = r.id /\ q.ext = (IF r.id \in Ext THEN r.id ELSE none)
           /\ q.primary = (IF r.id \in Dials THEN r.id ELSE none)
           /\ q.src = (IF r.id \in Dials THEN "link" ELSE "internal")
BY DEF Room!Room, Room!Project, SameReading

LEMMA RetractFacts ==
    ASSUME NEW r \in Room!Room, NEW q, q = Room!Retract(r)
    PROVE  /\ q \in Room!Room /\ SameSource(q, r) /\ q.sent = r.sent /\ q.index = r.index
           /\ q.has = FALSE /\ q.stale = FALSE /\ q.dial = none
           /\ q.shown = (IF r.has /\ ~r.stale THEN none ELSE r.shown)
BY DEF Room!Room, Room!Retract, SameSource

LEMMA ForgottenFacts ==
    ASSUME NEW r \in Room!Room, NEW q, q = Room!Forgotten(r)
    PROVE  /\ q \in Room!Room /\ SameSource(q, r) /\ q.sent = FALSE /\ q.index = r.index
           /\ q.has = FALSE /\ q.stale = FALSE /\ q.dial = none
           /\ q.shown = (IF r.has /\ ~r.stale THEN none ELSE r.shown)
<1>. DEFINE p == Room!Retract(r)
<1>1. /\ p \in Room!Room /\ SameSource(p, r) /\ p.index = r.index
      /\ p.has = FALSE /\ p.stale = FALSE /\ p.dial = none
      /\ p.shown = (IF r.has /\ ~r.stale THEN none ELSE r.shown)
  BY RetractFacts
<1>2. q = [p EXCEPT !.sent = FALSE]
  BY DEF Room!Forgotten
<1>. HIDE DEF p
<1>3. /\ q \in Room!Room /\ SameSource(q, p) /\ q.index = p.index /\ q.sent = FALSE
      /\ q.has = p.has /\ q.stale = p.stale /\ q.dial = p.dial /\ q.shown = p.shown
  BY <1>1, <1>2 DEF Room!Room, SameSource
<1>. QED
  BY <1>1, <1>3 DEF SameSource

LEMMA RefreshedFacts ==
    ASSUME Room!ConstantsAssumption, NEW r \in Room!Room, NEW sl \in Seq(Dials),
           NEW q, q = Room!Refreshed(r, sl)
    PROVE  /\ q \in Room!Room /\ SameSource(q, r) /\ SameReading(q, r) /\ q.sent = r.sent
           /\ q.index = Room!Index(q, sl)
<1>. DEFINE k == Room!Index(r, sl)
<1>1. k \in Int
  BY IndexIsNumber
<1>2. q = [r EXCEPT !.index = k]
  BY DEF Room!Refreshed
<1>. HIDE DEF k
<1>3. /\ q \in Room!Room /\ SameSource(q, r) /\ SameReading(q, r) /\ q.sent = r.sent
      /\ q.index = k
  BY <1>1, <1>2 DEF Room!Room, SameSource, SameReading
<1>4. Room!Index(q, sl) = k
  BY <1>3, IndexOfSame DEF SameSource, k
<1>. QED
  BY <1>3, <1>4

LEMMA WithId ==
    ASSUME NEW r \in Room!Room, NEW new \in Room!Source, NEW q, q = [r EXCEPT !.id = new]
    PROVE  q \in Room!Room /\ q.id = new /\ SameReading(q, r) /\ q.sent = r.sent
           /\ q.src = r.src /\ q.primary = r.primary /\ q.ext = r.ext
BY DEF Room!Room, SameReading

LEMMA WithSent ==
    ASSUME NEW r \in Room!Room, NEW b \in BOOLEAN, NEW q, q = [r EXCEPT !.sent = @ \/ b]
    PROVE  /\ q \in Room!Room /\ SameSource(q, r) /\ SameReading(q, r)
           /\ q.index = r.index /\ (q.sent <=> r.sent \/ b)
BY DEF Room!Room, SameSource, SameReading

(* The sources that are heard of a selection: at most the selected one, and *)
(* the heat pump's own at once.                                            *)
LEMMA AnnouncedFacts ==
    ASSUME Room!ConstantsAssumption, NEW r \in Room!Room, Follows(r), r.id # "auto", r.src # "ble"
    PROVE  /\ \A x \in Room!Announced(r) : x = r.id
           /\ r.id = "internal" => "internal" \in Room!Announced(r)
           /\ r.ext # none /\ Room!Announced(r) \cap Ext # {} => r.ext \in Room!Announced(r)
<1>1. /\ none \notin Room!Source /\ "internal" \notin Ext /\ "internal" \notin Dials
      /\ r.id \in Room!Source /\ Room!Source = {"internal", "auto"} \cup Ext \cup Dials
      /\ \A x \in Ext : x \notin Dials
  BY RoomSizes DEF Room!Room, Room!Source
<1>2. CASE r.ext # none
  <2>1. r.ext = r.id /\ r.id \in Ext
    BY <1>2 DEF Follows
  <2>2. Room!Announced(r) = IF Room!Healthy(r) THEN {r.ext} ELSE {}
    BY <1>2 DEF Room!Announced
  <2>. QED
    BY <1>1, <2>1, <2>2
<1>3. CASE r.ext = none /\ r.primary # none
  <2>1. r.primary = r.id /\ r.id \in Dials
    BY <1>3 DEF Follows
  <2>2. Room!Announced(r) = IF Room!Healthy(r) THEN {r.primary} ELSE {}
    BY <1>3 DEF Room!Announced
  <2>. QED
    BY <1>1, <1>3, <2>1, <2>2
<1>4. CASE r.ext = none /\ r.primary = none
  <2>1. r.id = "internal"
    BY <1>1, <1>4 DEF Follows
  <2>2. Room!Announced(r) = {"internal"}
    BY <1>4 DEF Room!Announced
  <2>. QED
    BY <1>1, <1>4, <2>1, <2>2
<1>. QED
  BY <1>2, <1>3, <1>4

(* room_source_apply_: the selection is new, the rest follows, a reading   *)
(* on display goes with the source it was of, and only the new source is   *)
(* announced.                                                              *)
LEMMA AppliedFacts ==
    ASSUME Room!ConstantsAssumption, NEW r \in Room!Room, NEW new \in Room!Source, new # "auto",
           NEW fire \in BOOLEAN, NEW sl \in Seq(Dials),
           Shows(r), Follows(r) \/ r.shown = none
    PROVE  LET q == Room!Applied(r, new, fire, sl).room
               out == Room!Applied(r, new, fire, sl).fed
           IN
           /\ q \in Room!Room /\ q.id = new /\ Follows(q) /\ q.src # "ble"
           /\ Shows(q) /\ (r.shown = none => q.shown = none)
           /\ q.index = Room!Index(q, sl)
           /\ \A x \in out : x = new
           /\ (Room!Changed(r, new) /\ roomStarted /\ fire /\ new = "internal" => "internal" \in out)
           /\ (Room!Changed(r, new) /\ q.ext # none /\ q.sent => q.ext \in out)
<1>. DEFINE q == Room!Applied(r, new, fire, sl).room
            out == Room!Applied(r, new, fire, sl).fed
            base == IF Room!Changed(r, new) THEN Room!Forgotten(r) ELSE r
            moved == [base EXCEPT !.id = new]
            proj == Room!Project(moved)
            next == Room!Refreshed(proj, sl)
            heard == IF Room!Changed(r, new) /\ roomStarted /\ fire THEN Room!Announced(next) ELSE {}
<1>1. q = [next EXCEPT !.sent = @ \/ (heard \cap Ext # {})] /\ out = heard
  BY DEF Room!Applied
<1>. HIDE DEF q, out
<1>2. /\ base \in Room!Room /\ (Room!Changed(r, new) => ~base.sent)
      /\ Room!Changed(r, new) => base.shown = none
      /\ ~Room!Changed(r, new) => base = r
      /\ r.shown = none => base.shown = none
  <2>1. CASE Room!Changed(r, new)
    <3>1. base = Room!Forgotten(r)
      BY <2>1
    <3>. HIDE DEF base
    <3>2. base \in Room!Room /\ base.sent = FALSE
          /\ base.shown = (IF r.has /\ ~r.stale THEN none ELSE r.shown)
      BY <3>1, ForgottenFacts
    <3>. QED
      BY <2>1, <3>2 DEF Shows
  <2>2. CASE ~Room!Changed(r, new)
    BY <2>2
  <2>. QED
    BY <2>1, <2>2
<1>. HIDE DEF base
<1>3. /\ moved \in Room!Room /\ moved.id = new /\ SameReading(moved, base) /\ moved.sent = base.sent
  BY <1>2, WithId
<1>. HIDE DEF moved
<1>4. /\ proj \in Room!Room /\ SameReading(proj, moved) /\ proj.sent = moved.sent
      /\ proj.id = new /\ proj.ext = (IF new \in Ext THEN new ELSE none)
      /\ proj.primary = (IF new \in Dials THEN new ELSE none)
      /\ proj.src = (IF new \in Dials THEN "link" ELSE "internal")
  BY <1>3, ProjectFacts
<1>. HIDE DEF proj
<1>5. /\ next \in Room!Room /\ SameSource(next, proj) /\ SameReading(next, proj)
      /\ next.sent = proj.sent /\ next.index = Room!Index(next, sl)
  BY <1>4, RefreshedFacts
<1>. HIDE DEF next, heard
<1>6. /\ q \in Room!Room /\ SameSource(q, next) /\ SameReading(q, next)
      /\ q.index = next.index /\ (q.sent <=> next.sent \/ (heard \cap Ext # {}))
  <2>. DEFINE fires == heard \cap Ext # {}
  <2>1. fires \in BOOLEAN /\ q = [next EXCEPT !.sent = @ \/ fires]
    BY <1>1
  <2>. HIDE DEF fires
  <2>2. /\ q \in Room!Room /\ SameSource(q, next) /\ SameReading(q, next)
        /\ q.index = next.index /\ (q.sent <=> next.sent \/ fires)
    BY <1>5, <2>1, WithSent
  <2>. QED
    BY <2>2 DEF fires
<1>7. q.index = Room!Index(q, sl)
  BY <1>5, <1>6, IndexOfSame DEF SameSource
<1>8. /\ q.id = new /\ Follows(q) /\ q.src # "ble"
      /\ next.id = new /\ Follows(next) /\ next.src # "ble"
  BY <1>4, <1>5, <1>6 DEF SameSource, Follows
<1>9. Shows(q) /\ (r.shown = none => q.shown = none)
  <2>1. q.shown = base.shown /\ q.has = base.has /\ q.stale = base.stale
    BY <1>3, <1>4, <1>5, <1>6 DEF SameReading
  <2>2. CASE q.shown = none
    BY <2>2 DEF Shows
  <2>3. CASE q.shown # none
    <3>1. ~Room!Changed(r, new) /\ base = r /\ Follows(r)
      BY <1>2, <2>1, <2>3
    <3>2. r.id = new
      BY <3>1 DEF Room!Changed
    <3>3. q.primary = r.primary
      BY <1>8, <3>1, <3>2 DEF Follows
    <3>. QED
      BY <1>2, <2>1, <3>1, <3>3 DEF Shows
  <2>. QED
    BY <2>2, <2>3
<1>10. /\ \A x \in heard : x = new
       /\ (Room!Changed(r, new) /\ roomStarted /\ fire /\ new = "internal" => "internal" \in heard)
       /\ next.ext # none /\ heard \cap Ext # {} => next.ext \in heard
  BY <1>5, <1>8, AnnouncedFacts DEF heard
<1>11. Room!Changed(r, new) /\ q.ext # none /\ q.sent => q.ext \in heard
  <2>1. Room!Changed(r, new) => ~next.sent
    BY <1>2, <1>3, <1>4, <1>5
  <2>. QED
    BY <1>6, <1>10, <2>1 DEF SameSource
<1>. QED
  BY <1>1, <1>6, <1>7, <1>8, <1>9, <1>10, <1>11 DEF q, out

LEMMA ReconciledFacts ==
    ASSUME Room!ConstantsAssumption, NEW id \in Room!Source, NEW sl \in Seq(Dials),
           NEW new, new = Room!Reconciled(id, sl)
    PROVE  /\ new \in Room!Catalog(sl) /\ new \in Room!Source /\ new # "auto"
           /\ id = "auto" => new \in Dials \cup {"internal"}
           /\ id # "auto" => new = id \/ (new = "internal" /\ id \notin Room!Catalog(sl))
<1>1. Room!ToSet(sl) \subseteq Dials /\ (Len(sl) = 1 => sl[1] \in Room!ToSet(sl))
  BY DEF Room!ToSet
<1>2. "auto" \notin Ext /\ "auto" \notin Dials /\ "internal" # "auto" /\ "internal" \in Room!Source
      /\ Dials \subseteq Room!Source /\ Ext \subseteq Room!Source
  BY RoomSizes
<1>3. CASE id = "auto"
  <2>1. new = IF Len(sl) = 1 THEN sl[1] ELSE "internal"
    BY <1>3 DEF Room!Reconciled
  <2>. QED
    BY <1>1, <1>2, <1>3, <2>1 DEF Room!Catalog
<1>4. CASE id # "auto"
  <2>1. new = IF id \in Room!Catalog(sl) THEN id ELSE "internal"
    BY <1>4 DEF Room!Reconciled
  <2>. QED
    BY <1>1, <1>2, <1>4, <2>1 DEF Room!Catalog
<1>. QED
  BY <1>3, <1>4

(* No Link is in a table twice.                                            *)
Once(s) == \A i, j \in DOMAIN s : s[i] = s[j] => i = j

(* BLE has no source beside it, in a choice that is not mixed of two.      *)
Fits(p, mixed) == p.src = "ble" => p.id \in {"internal", none} \/ mixed

Unmixed ==
    /\ Fits(room, "room" \in torn) /\ Fits(saved, "room" \in torn)
    /\ Fits(stored, "flash" \in torn)

(* Of a step from r to q that fires the readings of out: they are of the   *)
(* selected source, and what the heartbeat repeats has been sent.          *)
Honest(r, q, out) ==
    /\ \A x \in out : x = q.id /\ (q.src = "ble" => x \in Ext)
    /\ q.ext \notin {r.ext, none} /\ q.sent => q.ext \in out

(* ... and the heat pump's own sensor is announced when it takes over.     *)
Releases(r, q, out) ==
    r.id # "internal" /\ q.id = "internal" => "internal" \in out \/ q.src = "ble"

AtRest ==
    /\ roomStarted => Follows(room) /\ (gone \/ choice \in Room!Catalog(slots))
    /\ ~roomStarted => room.shown = none /\ room.id = choice /\ loose

RoomInv ==
    /\ Room!TypeOK /\ Once(roomBonds) /\ Once(slots) /\ Unmixed
    /\ Hears(room) /\ Shows(room) /\ AtRest
    /\ Room!DropdownTracks /\ Room!SelectionIsTheUsers

LEMMA FollowsHears ==
    ASSUME Room!ConstantsAssumption, NEW r \in Room!Room, Follows(r) PROVE Hears(r)
<1>1. none \notin Ext /\ "internal" \notin Ext /\ \A x \in Ext : x \notin Dials
  BY RoomSizes
<1>. QED
  BY <1>1 DEF Follows, Hears

LEMMA PrefersFits ==
    ASSUME NEW r \in Room!Room
    PROVE  /\ Room!Prefers(r) \in Room!Prefs
           /\ Room!Prefers(r).src = r.src /\ Room!Prefers(r).id = r.id
BY DEF Room!Prefers, Room!Prefs, Room!Room

(* A user's choice, whatever makes it.                                     *)
LEMMA ApplyFacts ==
    ASSUME Room!ConstantsAssumption, RoomInv, NEW new \in Room!Source, new # "auto",
           NEW sl \in Seq(Dials), Room!Apply(new, sl)
    PROVE  /\ room' \in Room!Room /\ room'.id = new /\ choice' = new /\ ~gone' /\ gone' \in BOOLEAN
           /\ Follows(room') /\ Hears(room') /\ Shows(room')
           /\ room.shown = none => room'.shown = none
           /\ room'.index = Room!Index(room', sl)
           /\ saved' \in Room!Prefs /\ saved'.src # "ble" /\ room'.src # "ble"
           /\ torn' = torn \ {"room"}
           /\ Honest(room, room', fed')
           /\ roomStarted => Releases(room, room', fed')
<1>. DEFINE q == Room!Applied(room, new, TRUE, sl).room
            out == Room!Applied(room, new, TRUE, sl).fed
<1>1. /\ room' = q /\ fed' = out /\ saved' = Room!Prefers(q)
      /\ choice' = new /\ gone' = FALSE /\ torn' = torn \ {"room"}
  BY DEF Room!Apply
<1>2. room \in Room!Room /\ Shows(room) /\ (Follows(room) \/ room.shown = none) /\ Hears(room)
  BY DEF RoomInv, Room!TypeOK, AtRest
<1>3. /\ q \in Room!Room /\ q.id = new /\ Follows(q) /\ q.src # "ble"
      /\ Shows(q) /\ (room.shown = none => q.shown = none)
      /\ q.index = Room!Index(q, sl)
      /\ \A z \in out : z = new
      /\ (Room!Changed(room, new) /\ roomStarted /\ new = "internal" => "internal" \in out)
      /\ (Room!Changed(room, new) /\ q.ext # none /\ q.sent => q.ext \in out)
  <2>1. ASSUME NEW fire \in BOOLEAN
        PROVE  LET x == Room!Applied(room, new, fire, sl).room
                   y == Room!Applied(room, new, fire, sl).fed
               IN  /\ x \in Room!Room /\ x.id = new /\ Follows(x) /\ x.src # "ble"
                   /\ Shows(x) /\ (room.shown = none => x.shown = none)
                   /\ x.index = Room!Index(x, sl)
                   /\ \A z \in y : z = new
                   /\ (Room!Changed(room, new) /\ roomStarted /\ fire /\ new = "internal" => "internal" \in y)
                   /\ (Room!Changed(room, new) /\ x.ext # none /\ x.sent => x.ext \in y)
    BY <1>2, AppliedFacts
  <2>. QED
    BY <2>1
<1>. HIDE DEF q, out
<1>4. Hears(q)
  BY <1>3, FollowsHears
<1>5. Room!Prefers(q) \in Room!Prefs /\ Room!Prefers(q).src # "ble"
  BY <1>3, PrefersFits
<1>6. Honest(room, q, out)
  <2>1. ~Room!Changed(room, new) => q.ext = room.ext
    BY <1>2, <1>3, <1>4 DEF Room!Changed, Hears
  <2>. QED
    BY <1>3, <2>1 DEF Honest
<1>7. roomStarted => Releases(room, q, out)
  BY <1>3 DEF Releases, Room!Changed
<1>. QED
  BY <1>1, <1>3, <1>4, <1>5, <1>6, <1>7

LEMMA WithSrc ==
    ASSUME NEW p \in Room!Room, NEW b \in {"internal", "ble", "link"},
           NEW q, q = [p EXCEPT !.src = b]
    PROVE  /\ q \in Room!Room /\ SameReading(q, p) /\ q.id = p.id /\ q.ext = p.ext
           /\ q.primary = p.primary /\ q.src = b /\ q.sent = p.sent
BY DEF Room!Room, SameReading

(* room_source_reconcile_ *)
LEMMA ReconcileFacts ==
    ASSUME Room!ConstantsAssumption, RoomInv, NEW fire \in BOOLEAN, NEW refresh \in BOOLEAN,
           NEW sl \in Seq(Dials), Room!Reconcile(fire, refresh, sl)
    PROVE  /\ room' \in Room!Room /\ room'.id = Room!Reconciled(room.id, sl)
           /\ Follows(room') /\ Hears(room') /\ Shows(room')
           /\ room.shown = none => room'.shown = none
           /\ refresh => room'.index = Room!Index(room', sl)
           /\ saved' \in Room!Prefs /\ Fits(saved', "room" \in torn')
           /\ Fits(room', "room" \in torn')
           /\ torn' \subseteq {"room", "flash"}
           /\ "flash" \in torn' <=> "flash" \in torn
           /\ Honest(room, room', fed')
           /\ roomStarted /\ fire => Releases(room, room', fed')
<1>. DEFINE new == Room!Reconciled(room.id, sl)
            q == Room!Applied(room, new, fire, sl).room
            out == Room!Applied(room, new, fire, sl).fed
            p == [Room!Project(room) EXCEPT !.src = IF room.src = "ble" THEN "ble" ELSE @]
            r == IF new # room.id THEN q ELSE p
            heard == IF new # room.id THEN out ELSE {}
<1>1. /\ room' = (IF refresh THEN Room!Refreshed(r, sl) ELSE r)
      /\ fed' = heard
      /\ saved' = (IF new # room.id THEN Room!Prefers(r) ELSE saved)
      /\ torn' = (IF new # room.id THEN torn \ {"room"} ELSE torn)
  BY DEF Room!Reconcile
<1>2. /\ room \in Room!Room /\ Shows(room) /\ (Follows(room) \/ room.shown = none)
      /\ Hears(room) /\ saved \in Room!Prefs /\ torn \subseteq {"room", "flash"}
      /\ Fits(saved, "room" \in torn) /\ Fits(room, "room" \in torn)
  BY DEF RoomInv, Room!TypeOK, AtRest, Unmixed
<1>3. new \in Room!Source /\ new # "auto"
  <2>1. room.id \in Room!Source
    BY <1>2 DEF Room!Room
  <2>. QED
    BY <2>1, ReconciledFacts
<1>. HIDE DEF new
<1>4. /\ q \in Room!Room /\ q.id = new /\ Follows(q) /\ q.src # "ble"
      /\ Shows(q) /\ (room.shown = none => q.shown = none)
      /\ \A x \in out : x = new
      /\ (Room!Changed(room, new) /\ roomStarted /\ fire /\ new = "internal" => "internal" \in out)
      /\ (Room!Changed(room, new) /\ q.ext # none /\ q.sent => q.ext \in out)
  BY <1>2, <1>3, AppliedFacts
<1>5. /\ p \in Room!Room /\ p.id = room.id /\ Follows(p) /\ Shows(p)
      /\ (room.shown = none => p.shown = none) /\ p.ext = room.ext
      /\ (p.src = "ble" => room.src = "ble")
  <2>. DEFINE j == Room!Project(room)
              b == IF room.src = "ble" THEN "ble" ELSE j.src
  <2>1. /\ j \in Room!Room /\ SameReading(j, room)
        /\ j.id = room.id /\ j.ext = (IF room.id \in Ext THEN room.id ELSE none)
        /\ j.primary = (IF room.id \in Dials THEN room.id ELSE none)
        /\ j.src = (IF room.id \in Dials THEN "link" ELSE "internal")
    BY <1>2, ProjectFacts
  <2>2. p = [j EXCEPT !.src = b]
    OBVIOUS
  <2>. HIDE DEF j
  <2>3. b \in {"internal", "ble", "link"}
    BY <2>1 DEF Room!Room
  <2>. HIDE DEF b, p
  <2>4. /\ p \in Room!Room /\ SameReading(p, j) /\ p.id = j.id /\ p.ext = j.ext
        /\ p.primary = j.primary /\ p.src = b
    BY <2>1, <2>2, <2>3, WithSrc
  <2>5. Follows(p)
    BY <1>2, <2>1, <2>4 DEF Follows, Hears, b
  <2>6. Shows(p) /\ (room.shown = none => p.shown = none)
    <3>1. p.shown = room.shown /\ p.has = room.has /\ p.stale = room.stale
      BY <2>1, <2>4 DEF SameReading
    <3>2. Follows(room) => p.primary = room.primary
      BY <2>1, <2>4 DEF Follows
    <3>. QED
      BY <1>2, <3>1, <3>2 DEF Shows
  <2>. QED
    BY <1>2, <2>1, <2>4, <2>5, <2>6 DEF Hears, b
<1>. HIDE DEF q, p, out
<1>6. /\ r \in Room!Room /\ r.id = new /\ Follows(r) /\ Shows(r)
      /\ room.shown = none => r.shown = none
  BY <1>4, <1>5
<1>7. Hears(r)
  BY <1>6, FollowsHears
<1>8. Honest(room, r, heard) /\ (roomStarted /\ fire => Releases(room, r, heard))
  <2>1. CASE new # room.id
    <3>1. r = q /\ heard = out
      BY <2>1
    <3>. QED
      BY <1>4, <2>1, <3>1 DEF Honest, Releases, Room!Changed
  <2>2. CASE new = room.id
    <3>1. r = p /\ heard = {}
      BY <2>2
    <3>. QED
      BY <1>5, <2>2, <3>1 DEF Honest, Releases
  <2>. QED
    BY <2>1, <2>2
<1>9. /\ Room!Prefers(r) \in Room!Prefs /\ Room!Prefers(r).src = r.src
      /\ Room!Prefers(r).id = r.id
  BY <1>6, PrefersFits
<1>14. /\ new # room.id => r.src # "ble"
       /\ new = room.id /\ r.src = "ble" => room.src = "ble"
  BY <1>4, <1>5
<1>. HIDE DEF r, heard
<1>10. /\ room' \in Room!Room /\ SameSource(room', r) /\ SameReading(room', r)
       /\ room'.sent = r.sent /\ (refresh => room'.index = Room!Index(room', sl))
  <2>1. CASE refresh
    <3>1. room' = Room!Refreshed(r, sl)
      BY <1>1, <2>1
    <3>. QED
      BY <1>6, <3>1, RefreshedFacts
  <2>2. CASE ~refresh
    BY <1>1, <1>6, <2>2 DEF SameSource, SameReading
  <2>. QED
    BY <2>1, <2>2
<1>11. /\ Follows(room') /\ Hears(room') /\ Shows(room')
       /\ (room.shown = none => room'.shown = none)
       /\ Honest(room, room', heard) /\ (roomStarted /\ fire => Releases(room, room', heard))
  BY <1>6, <1>7, <1>8, <1>10
     DEF Follows, Hears, Shows, Honest, Releases, SameSource, SameReading
<1>12. saved' \in Room!Prefs /\ Fits(saved', "room" \in torn')
  <2>1. CASE new # room.id
    BY <1>1, <1>9, <1>14, <2>1 DEF Fits
  <2>2. CASE new = room.id
    BY <1>1, <1>2, <2>2
  <2>. QED
    BY <2>1, <2>2
<1>15. Fits(room', "room" \in torn')
  <2>1. room'.src = r.src /\ room'.id = r.id
    BY <1>10 DEF SameSource
  <2>2. CASE new # room.id
    BY <1>14, <2>1, <2>2 DEF Fits
  <2>3. CASE new = room.id
    BY <1>1, <1>2, <1>6, <1>14, <2>1, <2>3 DEF Fits
  <2>. QED
    BY <2>2, <2>3
<1>16. torn' \subseteq {"room", "flash"} /\ ("flash" \in torn' <=> "flash" \in torn)
  BY <1>1, <1>2
<1>13. room'.id = new
  BY <1>6, <1>10 DEF SameSource
<1>. QED
  BY <1>1, <1>10, <1>11, <1>12, <1>13, <1>15, <1>16 DEF new

(* What every step promises.                                               *)
RoomStep == Room!FeedIsSelected /\ Room!PumpIsReleased /\ Room!HeartbeatRepeats

LEMMA HonestSteps ==
    ASSUME Room!ConstantsAssumption, Unmixed', Honest(room, room', fed'),
           roomStarted /\ roomStarted' => Releases(room, room', fed')
    PROVE  RoomStep
<1>1. "internal" \notin Ext /\ none \notin Ext
  BY RoomSizes DEF Room!ConstantsAssumption
<1>. QED
  BY <1>1 DEF Unmixed, Fits, Honest, Releases, RoomStep, Room!FeedIsSelected,
     Room!PumpIsReleased, Room!HeartbeatRepeats

LEMMA CatalogFacts ==
    ASSUME Room!ConstantsAssumption, NEW sl \in Seq(Dials)
    PROVE  /\ Room!Catalog(sl) \subseteq Room!Source /\ "auto" \notin Room!Catalog(sl)
           /\ "internal" \in Room!Catalog(sl) /\ Room!ToSet(sl) \subseteq Dials
           /\ Room!ToSet(sl) \subseteq Room!Catalog(sl)
<1>1. Room!ToSet(sl) \subseteq Dials
  BY DEF Room!ToSet
<1>. QED
  BY <1>1, RoomSizes DEF Room!Catalog

LEMMA HonestFed ==
    ASSUME NEW r \in Room!Room, NEW q \in Room!Room, NEW out, Honest(r, q, out)
    PROVE  out \subseteq Room!Source
<1>1. q.id \in Room!Source
  BY DEF Room!Room
<1>. QED
  BY <1>1 DEF Honest

(* A selection that is applied, with the Links of the table on offer.      *)
LEMMA ChosenStep ==
    ASSUME Room!ConstantsAssumption, RoomInv, NEW new \in Room!Catalog(slots), Room!Apply(new, slots),
           UNCHANGED <<roomBonds, slots, roomStarted, stored, pin, extHas, api,
           loose>>
    PROVE  RoomInv' /\ RoomStep
<1>1. slots \in Seq(Dials) /\ Room!TypeOK
  BY DEF RoomInv, Room!TypeOK
<1>2. new \in Room!Source /\ new # "auto"
  BY <1>1, CatalogFacts
<1>3. /\ room' \in Room!Room /\ room'.id = new /\ choice' = new /\ ~gone' /\ gone' \in BOOLEAN
      /\ Follows(room') /\ Hears(room') /\ Shows(room')
      /\ room.shown = none => room'.shown = none
      /\ room'.index = Room!Index(room', slots)
      /\ saved' \in Room!Prefs /\ saved'.src # "ble" /\ room'.src # "ble"
      /\ torn' = torn \ {"room"}
      /\ Honest(room, room', fed')
      /\ roomStarted => Releases(room, room', fed')
  BY <1>1, <1>2, ApplyFacts
<1>4. fed' \subseteq Room!Source
  BY <1>1, <1>3, HonestFed DEF Room!TypeOK
<1>5. Room!TypeOK'
  BY <1>1, <1>2, <1>3, <1>4 DEF Room!TypeOK
<1>6. Once(roomBonds)' /\ Once(slots)' /\ Unmixed'
  BY <1>3 DEF RoomInv, Unmixed, Fits
<1>7. AtRest' /\ Room!DropdownTracks' /\ Room!SelectionIsTheUsers'
  BY <1>3 DEF RoomInv, AtRest, Room!DropdownTracks, Room!SelectionIsTheUsers
<1>. QED
  BY <1>3, <1>5, <1>6, <1>7, HonestSteps DEF RoomInv

LEMMA CatalogSetStep ==
    ASSUME Room!ConstantsAssumption, RoomInv, NEW new, NEW sl, Room!CatalogSet(sl, new)
    PROVE  RoomInv' /\ RoomStep
BY ChosenStep DEF Room!CatalogSet

(* The dropdown lists the catalog.                                         *)
LEMMA ListedFacts ==
    ASSUME Room!ConstantsAssumption, NEW sl \in Seq(Dials),
           NEW k \in DOMAIN (<<"internal">> \o Room!Externals \o sl)
    PROVE  (<<"internal">> \o Room!Externals \o sl)[k] \in Room!Catalog(sl)
<1>. DEFINE a == <<"internal">> \o Room!Externals
            all == a \o sl
<1>1. Room!Externals \in Seq(Room!Catalog(sl)) /\ <<"internal">> \in Seq(Room!Catalog(sl))
  <2>1. Room!Externals \in Seq(Ext)
    BY ExternalsListed
  <2>2. Ext \subseteq Room!Catalog(sl) /\ "internal" \in Room!Catalog(sl)
    BY DEF Room!Catalog
  <2>. QED
    BY <2>1, <2>2
<1>2. sl \in Seq(Room!Catalog(sl))
  BY DEF Room!Catalog, Room!ToSet
<1>3. a \in Seq(Room!Catalog(sl))
  BY <1>1, ConcatProperties
<1>. HIDE DEF a
<1>4. all \in Seq(Room!Catalog(sl))
  BY <1>2, <1>3, ConcatProperties
<1>5. k \in DOMAIN all
  BY DEF a
<1>. HIDE DEF all
<1>6. all[k] \in Room!Catalog(sl)
  BY <1>4, <1>5
<1>. QED
  BY <1>6 DEF all, a

LEMMA DropdownStep ==
    ASSUME Room!ConstantsAssumption, RoomInv, NEW position \in Nat, Room!DropdownControl(position)
    PROVE  RoomInv' /\ RoomStep
<1>. DEFINE all == <<"internal">> \o Room!Externals \o slots
<1>1. /\ position + 1 \in DOMAIN all /\ Room!Apply(all[position + 1], slots)
      /\ UNCHANGED <<roomBonds, slots, roomStarted, stored, pin, extHas, api, loose>>
  BY DEF Room!DropdownControl
<1>2. slots \in Seq(Dials)
  BY DEF RoomInv, Room!TypeOK
<1>3. all[position + 1] \in Room!Catalog(slots)
  BY <1>1, <1>2, ListedFacts
<1>. HIDE DEF all
<1>. QED
  BY <1>1, <1>3, ChosenStep

(* Steps that leave the selection alone and feed nothing.                  *)
LEMMA QuietStep ==
    ASSUME Room!ConstantsAssumption, RoomInv, Room!TypeOK', fed' = {},
           UNCHANGED <<roomBonds, slots, roomStarted, room, saved, choice,
           gone, loose>>,
           Unmixed'
    PROVE  RoomInv' /\ RoomStep
<1>1. Honest(room, room', fed') /\ Releases(room, room', fed')
  BY DEF Honest, Releases
<1>2. AtRest' /\ Room!DropdownTracks' /\ Room!SelectionIsTheUsers'
  BY DEF RoomInv, AtRest, Room!DropdownTracks, Room!SelectionIsTheUsers
<1>3. Once(roomBonds)' /\ Once(slots)' /\ Hears(room)' /\ Shows(room)'
  BY DEF RoomInv
<1>. QED
  BY <1>1, <1>2, <1>3, HonestSteps DEF RoomInv

LEMMA ApiStep == ASSUME Room!ConstantsAssumption, RoomInv, Room!ApiChanges PROVE RoomInv' /\ RoomStep
<1>1. Room!TypeOK' /\ Unmixed'
  BY DEF Room!ApiChanges, RoomInv, Room!TypeOK, Unmixed
<1>. QED
  BY <1>1, QuietStep DEF Room!ApiChanges

LEMMA SyncStep == ASSUME Room!ConstantsAssumption, RoomInv, Room!Sync PROVE RoomInv' /\ RoomStep
<1>1. Room!TypeOK'
  BY DEF Room!Sync, Room!Reached, Room!Pinned, RoomInv, Room!TypeOK
<1>2. Unmixed'
  BY DEF Room!Sync, Room!Reached, RoomInv, Unmixed, Fits
<1>. QED
  BY <1>1, <1>2, QuietStep DEF Room!Sync

(* Steps that change the reading or what was sent, not the source.         *)
LEMMA SameSourceStep ==
    ASSUME Room!ConstantsAssumption, RoomInv, Room!TypeOK', SameSource(room', room),
           room'.index = room.index,
           room'.shown # none => roomStarted /\ Shows(room'), Honest(room, room', fed'),
           UNCHANGED <<roomBonds, slots, roomStarted, saved, stored, choice,
           gone, loose, torn>>
    PROVE  RoomInv' /\ RoomStep
<1>1. Room!Index(room', slots) = Room!Index(room, slots)
  BY IndexOfSame DEF SameSource
<1>2. AtRest' /\ Room!DropdownTracks' /\ Room!SelectionIsTheUsers'
  BY <1>1 DEF RoomInv, AtRest, Room!DropdownTracks, Room!SelectionIsTheUsers,
     SameSource, Follows
<1>3. Once(roomBonds)' /\ Once(slots)' /\ Unmixed'
  BY DEF RoomInv, Unmixed, Fits, SameSource
<1>4. Hears(room)' /\ Shows(room)'
  BY DEF RoomInv, Hears, Shows, SameSource
<1>5. Releases(room, room', fed')
  BY DEF Releases, SameSource
<1>. QED
  BY <1>2, <1>3, <1>4, <1>5, HonestSteps DEF RoomInv

LEMMA StaleFacts ==
    ASSUME NEW r \in Room!Room, NEW q, q = Room!Staled(r)
    PROVE  q \in Room!Room /\ SameSource(q, r) /\ q.index = r.index /\ q.shown = none
BY DEF Room!Staled, Room!Room, SameSource

LEMMA StaleStep == ASSUME Room!ConstantsAssumption, RoomInv, Room!GoesStale PROVE RoomInv' /\ RoomStep
<1>1. /\ room' \in Room!Room /\ SameSource(room', room) /\ room'.index = room.index
      /\ room'.shown = none
  BY StaleFacts DEF Room!GoesStale, RoomInv, Room!TypeOK
<1>2. Room!TypeOK'
  BY <1>1 DEF Room!GoesStale, RoomInv, Room!TypeOK
<1>3. Honest(room, room', fed')
  BY <1>1 DEF Room!GoesStale, Honest, SameSource
<1>. QED
  BY <1>1, <1>2, <1>3, SameSourceStep DEF Room!GoesStale

LEMMA HeartbeatStep == ASSUME Room!ConstantsAssumption, RoomInv, Room!Heartbeat PROVE RoomInv' /\ RoomStep
<1>1. /\ room' = room /\ fed' = {room.ext} /\ room.ext # none
      /\ room \in Room!Room /\ Hears(room) /\ Room!TypeOK /\ Shows(room) /\ AtRest
      /\ UNCHANGED <<roomBonds, slots, roomStarted, room, saved, stored, pin, extHas, api,
                     choice, gone, loose, torn>>
  BY DEF Room!Heartbeat, RoomInv, Room!TypeOK
<1>2. room.ext = room.id /\ room.id \in Ext /\ room.id \in Room!Source
  BY <1>1 DEF Hears, Room!Room
<1>3. Honest(room, room', fed')
  BY <1>1, <1>2 DEF Honest
<1>4. Room!TypeOK'
  BY <1>1, <1>2 DEF Room!TypeOK
<1>. QED
  BY <1>1, <1>3, <1>4, SameSourceStep DEF SameSource, AtRest

LEMMA ExtStep ==
    ASSUME Room!ConstantsAssumption, RoomInv, NEW e \in Ext, NEW value \in BOOLEAN,
           Room!ExtState(e, value)
    PROVE  RoomInv' /\ RoomStep
<1>. DEFINE sel == value /\ room.ext = e
<1>1. /\ room \in Room!Room /\ Hears(room) /\ Room!TypeOK /\ Shows(room) /\ AtRest
      /\ fed' = (IF sel THEN {e} ELSE {})
      /\ room' = [room EXCEPT !.sent = @ \/ sel]
      /\ extHas' = [extHas EXCEPT ![e] = value]
      /\ UNCHANGED <<roomBonds, slots, roomStarted, saved, stored, pin, api,
                     choice, gone, loose, torn>>
  BY DEF Room!ExtState, RoomInv, Room!TypeOK
<1>2. sel => room.ext = e /\ e = room.id /\ e # none
  BY <1>1, RoomSizes DEF Hears
<1>3. e \in Room!Source
  BY RoomSizes
<1>4. sel \in BOOLEAN
  OBVIOUS
<1>. HIDE DEF sel
<1>5. /\ room' \in Room!Room /\ SameSource(room', room) /\ SameReading(room', room)
      /\ room'.index = room.index
  BY <1>1, <1>4, WithSent
<1>6. Honest(room, room', fed')
  BY <1>1, <1>2, <1>5 DEF Honest, SameSource
<1>7. Room!TypeOK'
  BY <1>1, <1>3, <1>5 DEF Room!TypeOK
<1>8. room'.shown # none => roomStarted /\ Shows(room')
  BY <1>1, <1>5 DEF AtRest, Shows, SameReading, SameSource
<1>. QED
  BY <1>1, <1>5, <1>6, <1>7, <1>8, SameSourceStep

----------------------------------------------------------------------------
(* room_sensor_feed: the edit of a pre-catalog dial ...                    *)
LEMMA BleFacts ==
    ASSUME Room!ConstantsAssumption, NEW r \in Room!Room, Shows(r), NEW sl \in Seq(Dials),
           NEW q, q = Room!Refreshed([Room!Retract(r) EXCEPT !.src = "ble", !.id = "internal",
                                   !.primary = none, !.ext = none], sl)
    PROVE  /\ q \in Room!Room /\ q.id = "internal" /\ q.src = "ble" /\ q.ext = none
           /\ q.index = Room!Index(q, sl) /\ Follows(q) /\ q.shown = none
<1>. DEFINE p == Room!Retract(r)
            j == [p EXCEPT !.src = "ble", !.id = "internal", !.primary = none, !.ext = none]
<1>1. p \in Room!Room /\ p.shown = (IF r.has /\ ~r.stale THEN none ELSE r.shown)
  BY RetractFacts
<1>2. p.shown = none
  BY <1>1 DEF Shows
<1>. HIDE DEF p
<1>3. /\ j \in Room!Room /\ j.id = "internal" /\ j.src = "ble" /\ j.ext = none
      /\ j.primary = none /\ j.shown = none
  BY <1>1, <1>2 DEF Room!Room, Room!Source
<1>4. q = Room!Refreshed(j, sl)
  BY DEF p
<1>. HIDE DEF j
<1>5. /\ q \in Room!Room /\ SameSource(q, j) /\ SameReading(q, j) /\ q.index = Room!Index(q, sl)
  BY <1>3, <1>4, RefreshedFacts
<1>6. "internal" \notin Ext /\ "internal" \notin Dials
  BY RoomSizes
<1>. QED
  BY <1>3, <1>5, <1>6 DEF SameSource, SameReading, Follows

(* An edit is announced like any choice.                                   *)
Chosen(r, new, sl) == Room!Applied(r, new, TRUE, sl)

LEMMA EditAppliedFacts ==
    ASSUME Room!ConstantsAssumption, NEW r \in Room!Room, Shows(r), Follows(r), roomStarted,
           NEW new \in Room!Source, new # "auto", NEW sl \in Seq(Dials),
           NEW q, q = Chosen(r, new, sl).room, NEW out, out = Chosen(r, new, sl).fed
    PROVE  /\ q \in Room!Room /\ Follows(q) /\ Shows(q) /\ q.id = new
           /\ q.index = Room!Index(q, sl) /\ q.src # "ble"
           /\ Honest(r, q, out) /\ Releases(r, q, out)
<1>1. /\ q \in Room!Room /\ q.id = new /\ Follows(q) /\ q.src # "ble"
      /\ Shows(q) /\ q.index = Room!Index(q, sl)
      /\ \A x \in out : x = new
      /\ (Room!Changed(r, new) /\ new = "internal" => "internal" \in out)
      /\ (Room!Changed(r, new) /\ q.ext # none /\ q.sent => q.ext \in out)
  <2>1. ASSUME NEW fire \in BOOLEAN
        PROVE  LET x == Room!Applied(r, new, fire, sl).room
                   y == Room!Applied(r, new, fire, sl).fed
               IN  /\ x \in Room!Room /\ x.id = new /\ Follows(x) /\ x.src # "ble"
                   /\ Shows(x) /\ x.index = Room!Index(x, sl)
                   /\ \A z \in y : z = new
                   /\ (Room!Changed(r, new) /\ roomStarted /\ fire /\ new = "internal" => "internal" \in y)
                   /\ (Room!Changed(r, new) /\ x.ext # none /\ x.sent => x.ext \in y)
    BY AppliedFacts
  <2>. QED
    BY <2>1 DEF Chosen
<1>2. Honest(r, q, out)
  <2>1. ~Room!Changed(r, new) => q.ext = r.ext
    BY <1>1 DEF Room!Changed, Follows
  <2>. QED
    BY <1>1, <2>1 DEF Honest
<1>3. Releases(r, q, out)
  BY <1>1 DEF Releases, Room!Changed
<1>. QED
  BY <1>1, <1>2, <1>3

LEMMA EditedFacts ==
    ASSUME Room!ConstantsAssumption, NEW d \in Dials, NEW want,
           room \in Room!Room, slots \in Seq(Dials), roomStarted, Shows(room), Follows(room),
           NEW r, r = Room!Edited(d, want).room, NEW out, out = Room!Edited(d, want).fed
    PROVE  /\ r \in Room!Room /\ Follows(r) /\ Shows(r)
           /\ Honest(room, r, out) /\ Releases(room, r, out)
           /\ Room!Edits(want) => r.id \in {"internal", d} /\ r.index = Room!Index(r, slots)
           /\ Room!Edits(want) /\ r.src = "ble" => r.id = "internal"
           /\ ~Room!Edits(want) => r = room
<1>1. /\ "internal" \in Room!Source /\ d \in Room!Source /\ "internal" # "auto" /\ d # "auto"
  BY RoomSizes
<1>2. CASE ~Room!Edits(want)
  <2>1. r = room /\ out = {}
    BY <1>2 DEF Room!Edited
  <2>. QED
    BY <1>2, <2>1 DEF Honest, Releases
<1>3. CASE Room!Edits(want) /\ want = "ble"
  <2>1. /\ r = Room!Refreshed([Room!Retract(room) EXCEPT !.src = "ble", !.id = "internal",
                            !.primary = none, !.ext = none], slots)
        /\ out = {}
    BY <1>3 DEF Room!Edited
  <2>2. /\ r \in Room!Room /\ r.id = "internal" /\ r.src = "ble" /\ r.ext = none
        /\ r.index = Room!Index(r, slots) /\ Follows(r) /\ r.shown = none
    BY <2>1, BleFacts
  <2>. QED
    BY <1>3, <2>1, <2>2 DEF Honest, Releases, Shows
<1>4. CASE Room!Edits(want) /\ want = "internal"
  <2>1. /\ r = Chosen(room, "internal", slots).room
        /\ out = Chosen(room, "internal", slots).fed
    BY <1>4 DEF Room!Edited, Chosen
  <2>. QED
    BY <1>1, <1>4, <2>1, EditAppliedFacts
<1>5. CASE Room!Edits(want) /\ want = "link"
  <2>1. /\ r = Chosen(room, d, slots).room
        /\ out = Chosen(room, d, slots).fed
    BY <1>5 DEF Room!Edited, Chosen
  <2>. QED
    BY <1>1, <1>5, <2>1, EditAppliedFacts
<1>. QED
  BY <1>2, <1>3, <1>4, <1>5 DEF Room!Edits

(* ... and its reading.                                                    *)
LEMMA OwnFacts ==
    ASSUME NEW r \in Room!Room, Shows(r), NEW d \in Dials,
           NEW own, own = (IF r.dial # d THEN [Room!Retract(r) EXCEPT !.dial = d] ELSE r)
    PROVE  /\ own \in Room!Room /\ SameSource(own, r) /\ Shows(own)
           /\ own.index = r.index /\ own.sent = r.sent
<1>1. CASE r.dial = d
  <2>1. own = r
    BY <1>1
  <2>. QED
    BY <2>1 DEF SameSource
<1>2. CASE r.dial # d
  <2>. DEFINE p == Room!Retract(r)
  <2>1. /\ p \in Room!Room /\ SameSource(p, r) /\ p.sent = r.sent /\ p.index = r.index
        /\ p.shown = (IF r.has /\ ~r.stale THEN none ELSE r.shown)
    BY RetractFacts
  <2>2. p.shown = none
    BY <2>1 DEF Shows
  <2>3. own = [p EXCEPT !.dial = d]
    BY <1>2
  <2>. HIDE DEF p
  <2>4. /\ own \in Room!Room /\ SameSource(own, p) /\ own.sent = p.sent /\ own.index = p.index
        /\ own.shown = p.shown
    BY <2>1, <2>3 DEF Room!Room, SameSource
  <2>. QED
    BY <2>1, <2>2, <2>4 DEF Shows, SameSource
<1>. QED
  BY <1>1, <1>2

LEMMA ShowingFacts ==
    ASSUME NEW r \in Room!Room, NEW d \in Dials, r.primary \in {none, d},
           NEW q, q = Room!Showing(r, d)
    PROVE  /\ q \in Room!Room /\ SameSource(q, r) /\ Shows(q)
           /\ q.index = r.index /\ q.sent = r.sent
BY DEF Room!Showing, Room!Room, SameSource, Shows

LEMMA HeldFacts ==
    ASSUME NEW r \in Room!Room, Shows(r), NEW q, q = [r EXCEPT !.has = TRUE]
    PROVE  /\ q \in Room!Room /\ SameSource(q, r) /\ Shows(q)
           /\ q.index = r.index /\ q.sent = r.sent
BY DEF Room!Room, SameSource, Shows

LEMMA SensorStep ==
    ASSUME Room!ConstantsAssumption, RoomInv, NEW d \in Dials, NEW want,
           NEW temp \in BOOLEAN, NEW publish \in BOOLEAN,
           Room!SensorFrame(d, want, temp, publish)
    PROVE  RoomInv' /\ RoomStep
<1>. DEFINE r == Room!Edited(d, want).room
            out == Room!Edited(d, want).fed
            own == IF r.dial # d THEN [Room!Retract(r) EXCEPT !.dial = d] ELSE r
            shows == Room!Heard(r, d, temp) /\ ((~own.has \/ own.stale) \/ publish)
<1>1. /\ roomStarted /\ d \in Room!ToSet(slots)
      /\ UNCHANGED <<roomBonds, slots, roomStarted, stored, pin, extHas, api, loose>>
      /\ room' = (IF shows THEN Room!Showing(own, d)
                  ELSE IF Room!Heard(r, d, temp) THEN [own EXCEPT !.has = TRUE] ELSE r)
      /\ fed' = (IF shows THEN out \cup Room!Feeds(r, d) ELSE out)
      /\ saved' = (IF Room!Edits(want) THEN Room!Prefers(r) ELSE saved)
      /\ choice' = (IF Room!Edits(want) THEN r.id ELSE choice)
      /\ gone' = (gone /\ ~Room!Edits(want))
      /\ torn' = (IF Room!Edits(want) THEN torn \ {"room"} ELSE torn)
  BY DEF Room!SensorFrame
<1>. HIDE DEF shows
<1>2. /\ Room!TypeOK /\ room \in Room!Room /\ slots \in Seq(Dials) /\ Shows(room) /\ Follows(room)
      /\ saved \in Room!Prefs /\ choice \in Room!Source /\ gone \in BOOLEAN
      /\ torn \subseteq {"room", "flash"} /\ Unmixed
  BY <1>1 DEF RoomInv, Room!TypeOK, AtRest
<1>3. /\ r \in Room!Room /\ Follows(r) /\ Shows(r)
      /\ Honest(room, r, out) /\ Releases(room, r, out)
      /\ Room!Edits(want) => r.id \in {"internal", d} /\ r.index = Room!Index(r, slots)
      /\ Room!Edits(want) /\ r.src = "ble" => r.id = "internal"
      /\ ~Room!Edits(want) => r = room
  BY <1>1, <1>2, EditedFacts
<1>. HIDE DEF r, out
<1>4. /\ own \in Room!Room /\ SameSource(own, r) /\ Shows(own)
      /\ own.index = r.index /\ own.sent = r.sent
  BY <1>3, OwnFacts
<1>. HIDE DEF own
<1>5. /\ room' \in Room!Room /\ SameSource(room', r) /\ Shows(room')
      /\ room'.index = r.index /\ room'.sent = r.sent
  <2>1. CASE shows
    <3>1. own.primary \in {none, d}
      BY <1>4, <2>1 DEF shows, Room!Heard, SameSource
    <3>2. room' = Room!Showing(own, d)
      BY <1>1, <2>1
    <3>. QED
      BY <1>4, <3>1, <3>2, ShowingFacts DEF SameSource
  <2>2. CASE ~shows /\ Room!Heard(r, d, temp)
    <3>1. room' = [own EXCEPT !.has = TRUE]
      BY <1>1, <2>2
    <3>. QED
      BY <1>4, <3>1, HeldFacts DEF SameSource
  <2>3. CASE ~shows /\ ~Room!Heard(r, d, temp)
    <3>1. room' = r
      BY <1>1, <2>3
    <3>. QED
      BY <1>3, <3>1 DEF SameSource
  <2>. QED
    BY <2>1, <2>2, <2>3
<1>6. Follows(room') /\ Hears(room')
  BY <1>3, <1>5, FollowsHears DEF Follows, SameSource
<1>7. Honest(room, room', fed') /\ Releases(room, room', fed')
  <2>1. Honest(room, room', out)
    BY <1>3, <1>5 DEF Honest, SameSource
  <2>2. shows => \A x \in Room!Feeds(r, d) : x = room'.id /\ room'.src # "ble"
    <3>1. r.src = "link" => r.id \in Dials /\ r.primary = r.id
      BY <1>3 DEF Follows
    <3>2. none \notin Dials
      BY DEF Room!ConstantsAssumption
    <3>3. shows => r.primary \in {none, d}
      BY DEF shows, Room!Heard
    <3>. QED
      BY <1>5, <3>1, <3>2, <3>3 DEF Room!Feeds, SameSource
  <2>3. Releases(room, room', out)
    BY <1>3, <1>5 DEF Releases, SameSource
  <2>. QED
    BY <1>1, <2>1, <2>2, <2>3 DEF Honest, Releases
<1>8. saved' \in Room!Prefs /\ Unmixed'
  <2>1. /\ Room!Prefers(r) \in Room!Prefs
        /\ Room!Prefers(r).src = r.src /\ Room!Prefers(r).id = r.id
    BY <1>3, PrefersFits
  <2>2. room'.src = r.src /\ room'.id = r.id
    BY <1>5 DEF SameSource
  <2>3. CASE Room!Edits(want)
    <3>1. Fits(room', FALSE) /\ Fits(saved', FALSE)
      BY <1>1, <1>3, <2>1, <2>2, <2>3 DEF Fits
    <3>. QED
      BY <1>1, <1>2, <2>1, <2>3, <3>1 DEF Unmixed, Fits
  <2>4. CASE ~Room!Edits(want)
    BY <1>1, <1>2, <1>3, <2>2, <2>4 DEF Unmixed, Fits
  <2>. QED
    BY <2>3, <2>4
<1>9. Room!TypeOK'
  <2>1. fed' \subseteq Room!Source
    BY <1>2, <1>5, <1>7, HonestFed
  <2>2. r.id \in Room!Source
    BY <1>3 DEF Room!Room
  <2>. QED
    BY <1>1, <1>2, <1>5, <1>8, <2>1, <2>2 DEF Room!TypeOK
<1>10. Once(roomBonds)' /\ Once(slots)'
  BY <1>1 DEF RoomInv
<1>11. AtRest' /\ Room!DropdownTracks' /\ Room!SelectionIsTheUsers'
  <2>1. d \in Room!Catalog(slots) /\ "internal" \in Room!Catalog(slots)
    BY <1>1, <1>2, CatalogFacts
  <2>2. CASE Room!Edits(want)
    <3>1. /\ room'.id = r.id /\ room'.ext = r.ext /\ r.id \in Room!Catalog(slots)
          /\ room'.index = Room!Index(r, slots) /\ choice' = r.id
      BY <1>1, <1>3, <1>5, <2>1, <2>2 DEF SameSource
    <3>2. Room!Index(room', slots) = Room!Index(r, slots)
      BY <3>1, IndexOfSame
    <3>. QED
      BY <1>1, <1>6, <3>1, <3>2 DEF AtRest, Room!DropdownTracks,
         Room!SelectionIsTheUsers
  <2>3. CASE ~Room!Edits(want)
    <3>1. /\ room'.id = room.id /\ room'.ext = room.ext
          /\ room'.index = room.index /\ choice' = choice /\ gone' = gone
      BY <1>1, <1>2, <1>3, <1>5, <2>3 DEF SameSource
    <3>2. Room!Index(room', slots) = Room!Index(room, slots)
      BY <3>1, IndexOfSame
    <3>. QED
      BY <1>1, <1>6, <3>1, <3>2
         DEF RoomInv, AtRest, Room!DropdownTracks, Room!SelectionIsTheUsers
  <2>. QED
    BY <2>2, <2>3
<1>. QED
  BY <1>5, <1>6, <1>7, <1>8, <1>9, <1>10, <1>11, HonestSteps DEF RoomInv

----------------------------------------------------------------------------
(* Bonds, time and power.                                                  *)
LEMMA RemovedFacts ==
    ASSUME slots \in Seq(Dials), Once(slots), NEW d, Room!Removed(d)
    PROVE  slots' \in Seq(Dials) /\ Once(slots') /\ roomBonds' = slots'
<1>1. PICK k \in DOMAIN slots : slots' = HoleClosed(slots, k)
  BY DEF Room!Removed, Room!Without, HoleClosed
<1>. DEFINE n == Len(slots)
<1>2. n \in Nat /\ DOMAIN slots = 1..n
  OBVIOUS
<1>3. /\ slots' \in Seq(Dials) /\ Len(slots') = n - 1
      /\ \A j \in 1..n-1 : slots'[j] = IF j < k THEN slots[j] ELSE slots[j + 1]
  BY <1>1, HoleFacts
<1>. HIDE DEF n
<1>4. DOMAIN slots' = 1..n-1
  BY <1>2, <1>3
<1>. DEFINE At(j) == IF j < k THEN j ELSE j + 1
<1>5. \A j \in 1..n-1 : At(j) \in 1..n /\ slots'[j] = slots[At(j)]
  BY <1>2, <1>3
<1>6. \A i, j \in 1..n-1 : At(i) = At(j) => i = j
  BY <1>2
<1>. HIDE DEF At
<1>7. Once(slots')
  <2>1. ASSUME NEW i \in 1..n-1, NEW j \in 1..n-1, slots'[i] = slots'[j] PROVE i = j
    <3>1. slots[At(i)] = slots[At(j)]
      BY <1>5, <2>1
    <3>2. At(i) = At(j)
      BY <1>2, <1>5, <3>1 DEF Once
    <3>. QED
      BY <1>6, <3>2
  <2>. QED
    BY <1>4, <2>1 DEF Once
<1>. QED
  BY <1>3, <1>7 DEF Room!Removed

(* The same source still has the same place when a Link is appended.       *)
LEMMA AppendedFacts ==
    ASSUME NEW sl \in Seq(Dials), Once(sl), NEW d \in Dials, d \notin Room!ToSet(sl),
           NEW tl, tl = Append(sl, d)
    PROVE  /\ tl \in Seq(Dials) /\ Once(tl)
           /\ Room!Catalog(sl) \subseteq Room!Catalog(tl)
           /\ \A r : r.ext # none \/ r.id \in Room!ToSet(sl) \/ r.id \notin Dials
                       => Room!Index(r, tl) = Room!Index(r, sl)
<1>. DEFINE n == Len(sl)
<1>1. /\ tl \in Seq(Dials) /\ Len(tl) = n + 1 /\ n \in Nat /\ DOMAIN sl = 1..n
      /\ DOMAIN tl = 1..n+1 /\ tl[n + 1] = d /\ \A i \in 1..n : tl[i] = sl[i]
  OBVIOUS
<1>. HIDE DEF n
<1>2. \A i \in 1..n : sl[i] # d
  BY <1>1 DEF Room!ToSet
<1>3. Once(tl)
  <2>1. ASSUME NEW i \in 1..n+1, NEW j \in 1..n+1, tl[i] = tl[j] PROVE i = j
    <3>1. CASE i = n + 1 /\ j = n + 1
      BY <3>1
    <3>2. CASE i = n + 1 /\ j # n + 1
      <4>1. j \in 1..n
        BY <1>1, <3>2
      <4>. QED
        BY <1>1, <1>2, <2>1, <3>2, <4>1
    <3>3. CASE i # n + 1 /\ j = n + 1
      <4>1. i \in 1..n
        BY <1>1, <3>3
      <4>. QED
        BY <1>1, <1>2, <2>1, <3>3, <4>1
    <3>4. CASE i # n + 1 /\ j # n + 1
      <4>1. i \in 1..n /\ j \in 1..n
        BY <1>1, <3>4
      <4>. QED
        BY <1>1, <2>1, <4>1 DEF Once
    <3>. QED
      BY <3>1, <3>2, <3>3, <3>4
  <2>. QED
    BY <1>1, <2>1 DEF Once
<1>4. Room!ToSet(tl) = Room!ToSet(sl) \cup {d}
  <2>1. ASSUME NEW x \in Room!ToSet(tl) PROVE x \in Room!ToSet(sl) \cup {d}
    <3>1. PICK i \in 1..n+1 : tl[i] = x
      BY <1>1, <2>1 DEF Room!ToSet
    <3>2. CASE i = n + 1
      BY <1>1, <3>1, <3>2
    <3>3. CASE i # n + 1
      <4>1. i \in 1..n
        BY <1>1, <3>3
      <4>. QED
        BY <1>1, <3>1, <4>1 DEF Room!ToSet
    <3>. QED
      BY <3>2, <3>3
  <2>2. ASSUME NEW x \in Room!ToSet(sl) PROVE x \in Room!ToSet(tl)
    <3>1. PICK i \in 1..n : sl[i] = x
      BY <1>1, <2>2 DEF Room!ToSet
    <3>2. i \in 1..n+1 /\ tl[i] = x
      BY <1>1, <3>1
    <3>. QED
      BY <1>1, <3>2 DEF Room!ToSet
  <2>3. n + 1 \in 1..n+1 /\ d \in Room!ToSet(tl)
    BY <1>1 DEF Room!ToSet
  <2>. QED
    BY <2>1, <2>2, <2>3
<1>5. ASSUME NEW r, r.ext # none \/ r.id \in Room!ToSet(sl) \/ r.id \notin Dials
      PROVE  Room!Index(r, tl) = Room!Index(r, sl)
  <2>1. CASE r.ext # none
    BY <2>1 DEF Room!Index
  <2>2. CASE r.ext = none /\ r.id \in Room!ToSet(sl)
    <3>1. PICK i \in 1..n : sl[i] = r.id
      BY <1>1, <2>2 DEF Room!ToSet
    <3>2. \A j \in DOMAIN sl : sl[j] = r.id <=> j = i
      BY <1>1, <3>1 DEF Once
    <3>3. \A j \in DOMAIN tl : tl[j] = r.id <=> j = i
      <4>1. i \in DOMAIN tl /\ tl[i] = r.id
        BY <1>1, <3>1
      <4>. QED
        BY <1>3, <4>1 DEF Once
    <3>4. (CHOOSE j \in DOMAIN sl : sl[j] = r.id) = i
      BY <1>1, <3>2
    <3>5. (CHOOSE j \in DOMAIN tl : tl[j] = r.id) = i
      <4>1. i \in DOMAIN tl
        BY <1>1
      <4>. QED
        BY <3>3, <4>1
    <3>6. r.id \in Room!ToSet(tl)
      BY <1>4, <2>2
    <3>7. Room!Index(r, sl) = Len(Room!Externals) + CHOOSE j \in DOMAIN sl : sl[j] = r.id
      BY <2>2 DEF Room!Index
    <3>8. Room!Index(r, tl) = Len(Room!Externals) + CHOOSE j \in DOMAIN tl : tl[j] = r.id
      BY <2>2, <3>6 DEF Room!Index
    <3>. QED
      BY <3>4, <3>5, <3>7, <3>8
  <2>3. CASE r.ext = none /\ r.id \notin Room!ToSet(sl) /\ r.id \notin Dials
    <3>1. r.id \notin Room!ToSet(tl)
      BY <1>4, <2>3
    <3>. QED
      BY <2>3, <3>1 DEF Room!Index
  <2>. QED
    BY <1>5, <2>1, <2>2, <2>3
<1>. QED
  BY <1>1, <1>3, <1>4, <1>5 DEF Room!Catalog

LEMMA BondStep ==
    ASSUME Room!ConstantsAssumption, RoomInv, NEW d \in Dials, Room!Bond(d)
    PROVE  RoomInv' /\ RoomStep
<1>1. /\ roomStarted /\ d \notin Room!ToSet(slots) /\ slots' = Append(slots, d) /\ roomBonds' = slots'
      /\ fed' = {}
      /\ UNCHANGED <<roomStarted, room, saved, stored, pin, extHas, api, choice, gone, loose,
                     torn>>
  BY DEF Room!Bond
<1>2. Room!TypeOK /\ slots \in Seq(Dials) /\ Once(slots) /\ Hears(room)
  BY DEF RoomInv, Room!TypeOK
<1>3. /\ slots' \in Seq(Dials) /\ Once(slots') /\ Room!Catalog(slots) \subseteq Room!Catalog(slots')
      /\ room.ext # none \/ room.id \in Room!ToSet(slots) \/ room.id \notin Dials
           => Room!Index(room, slots') = Room!Index(room, slots)
  BY <1>1, <1>2, AppendedFacts
<1>4. room.id \in Room!Catalog(slots) => Room!Index(room, slots') = Room!Index(room, slots)
  <2>1. room.id \in Ext => room.ext # none
    BY <1>2, RoomSizes DEF Hears
  <2>2. "internal" \notin Dials
    BY RoomSizes
  <2>. QED
    BY <1>3, <2>1, <2>2 DEF Room!Catalog
<1>5. Room!TypeOK'
  BY <1>1, <1>2, <1>3 DEF Room!TypeOK
<1>6. AtRest' /\ Room!DropdownTracks' /\ Room!SelectionIsTheUsers'
  BY <1>1, <1>3, <1>4 DEF RoomInv, AtRest, Room!DropdownTracks,
     Room!SelectionIsTheUsers
<1>7. Honest(room, room', fed') /\ Releases(room, room', fed')
  BY <1>1 DEF Honest, Releases
<1>8. /\ Once(roomBonds') /\ Once(slots') /\ Unmixed'
      /\ Hears(room') /\ Shows(room')
  BY <1>1, <1>3 DEF RoomInv, Unmixed
<1>. QED
  BY <1>5, <1>6, <1>7, <1>8, HonestSteps DEF RoomInv

(* The adapter reconciles with a table, and refreshes the dropdown.        *)
LEMMA SettledStep ==
    ASSUME Room!ConstantsAssumption, RoomInv, roomStarted,
           slots' \in Seq(Dials), Once(slots'), roomBonds' \in Seq(Dials), Once(roomBonds'),
           Room!Reconcile(TRUE, TRUE, slots'), gone' \in BOOLEAN, gone => gone',
           gone' \/ choice \in Room!Catalog(slots'), loose' = FALSE,
           UNCHANGED <<roomStarted, stored, pin, extHas, api, choice>>
    PROVE  RoomInv' /\ RoomStep
<1>1. Room!TypeOK /\ room \in Room!Room /\ gone \in BOOLEAN
  BY DEF RoomInv, Room!TypeOK
<1>2. /\ room' \in Room!Room /\ room'.id = Room!Reconciled(room.id, slots')
      /\ Follows(room') /\ Hears(room') /\ Shows(room')
      /\ room'.index = Room!Index(room', slots')
      /\ saved' \in Room!Prefs /\ Fits(saved', "room" \in torn')
      /\ Fits(room', "room" \in torn') /\ torn' \subseteq {"room", "flash"}
      /\ "flash" \in torn' <=> "flash" \in torn
      /\ Honest(room, room', fed') /\ Releases(room, room', fed')
  <2>1. ASSUME NEW fire \in BOOLEAN, NEW refresh \in BOOLEAN, Room!Reconcile(fire, refresh, slots')
        PROVE  /\ room' \in Room!Room /\ room'.id = Room!Reconciled(room.id, slots')
               /\ Follows(room') /\ Hears(room') /\ Shows(room')
               /\ refresh => room'.index = Room!Index(room', slots')
               /\ saved' \in Room!Prefs /\ Fits(saved', "room" \in torn')
               /\ Fits(room', "room" \in torn') /\ torn' \subseteq {"room", "flash"}
               /\ "flash" \in torn' <=> "flash" \in torn
               /\ Honest(room, room', fed')
               /\ roomStarted /\ fire => Releases(room, room', fed')
    BY <2>1, ReconcileFacts
  <2>. QED
    BY <2>1
<1>3. room.id \in Room!Source
  BY <1>1 DEF Room!Room
<1>4. room'.id \in Room!Catalog(slots')
  BY <1>2, <1>3, ReconciledFacts
<1>5. fed' \subseteq Room!Source
  BY <1>1, <1>2, HonestFed
<1>6. Room!TypeOK'
  BY <1>1, <1>2, <1>5 DEF Room!TypeOK
<1>7. Room!SelectionIsTheUsers'
  <2>1. room.id # choice => (choice = "auto" /\ room.id \in Dials \cup {"internal"})
                              \/ (gone /\ room.id = "internal")
    BY DEF RoomInv, Room!SelectionIsTheUsers
  <2>2. "internal" # "auto" /\ "auto" \notin Dials
    BY RoomSizes
  <2>3. /\ room.id = "auto" => room'.id \in Dials \cup {"internal"}
        /\ room.id # "auto" => \/ room'.id = room.id
                               \/ room'.id = "internal" /\ room.id \notin Room!Catalog(slots')
    BY <1>2, <1>3, ReconciledFacts
  <2>4. CASE room.id = choice
    BY <2>3, <2>4 DEF Room!SelectionIsTheUsers
  <2>5. CASE room.id # choice
    BY <2>1, <2>2, <2>3, <2>5 DEF Room!SelectionIsTheUsers
  <2>. QED
    BY <2>4, <2>5
<1>8. AtRest' /\ Room!DropdownTracks'
  BY <1>2, <1>4 DEF AtRest, Room!DropdownTracks
<1>9. Unmixed'
  BY <1>2 DEF RoomInv, Unmixed
<1>. QED
  BY <1>2, <1>6, <1>7, <1>8, <1>9, HonestSteps DEF RoomInv

LEMMA ForgetStep ==
    ASSUME Room!ConstantsAssumption, RoomInv, NEW d, Room!Forget(d)
    PROVE  RoomInv' /\ RoomStep
<1>1. /\ roomStarted /\ Room!Removed(d) /\ Room!Reconcile(TRUE, TRUE, slots')
      /\ gone' = Room!Missing(slots') /\ loose' = FALSE
      /\ UNCHANGED <<roomStarted, stored, pin, extHas, api, choice>>
  BY DEF Room!Forget
<1>2. slots \in Seq(Dials) /\ Once(slots) /\ gone \in BOOLEAN
  BY DEF RoomInv, Room!TypeOK
<1>3. slots' \in Seq(Dials) /\ Once(slots') /\ roomBonds' = slots'
  BY <1>1, <1>2, RemovedFacts
<1>4. /\ gone' \in BOOLEAN /\ (gone => gone')
      /\ gone' \/ choice \in Room!Catalog(slots')
  BY <1>1, <1>2 DEF Room!Missing
<1>. QED
  BY <1>1, <1>3, <1>4, SettledStep

LEMMA SecondStep ==
    ASSUME Room!ConstantsAssumption, RoomInv, Room!Second PROVE RoomInv' /\ RoomStep
<1>1. /\ roomStarted /\ slots' = slots /\ roomBonds' = roomBonds /\ Room!Reconcile(TRUE, TRUE, slots')
      /\ gone' = gone /\ loose' = FALSE
      /\ UNCHANGED <<roomStarted, stored, pin, extHas, api, choice>>
  BY DEF Room!Second
<1>2. /\ slots \in Seq(Dials) /\ Once(slots) /\ roomBonds \in Seq(Dials) /\ Once(roomBonds)
      /\ gone \in BOOLEAN /\ (gone \/ choice \in Room!Catalog(slots))
  BY <1>1 DEF RoomInv, Room!TypeOK, AtRest
<1>. QED
  BY <1>1, <1>2, SettledStep

LEMMA CoreForgetStep ==
    ASSUME Room!ConstantsAssumption, RoomInv, NEW d, Room!CoreForget(d)
    PROVE  RoomInv' /\ RoomStep
<1>1. /\ roomStarted /\ Room!Removed(d) /\ gone' = Room!Missing(slots') /\ loose' = TRUE /\ fed' = {}
      /\ UNCHANGED <<roomStarted, room, saved, stored, pin, extHas, api, choice, torn>>
  BY DEF Room!CoreForget
<1>2. Room!TypeOK /\ slots \in Seq(Dials) /\ Once(slots) /\ gone \in BOOLEAN
  BY DEF RoomInv, Room!TypeOK
<1>3. slots' \in Seq(Dials) /\ Once(slots') /\ roomBonds' = slots'
  BY <1>1, <1>2, RemovedFacts
<1>4. gone' \in BOOLEAN /\ (gone => gone') /\ (gone' \/ choice \in Room!Catalog(slots'))
  BY <1>1, <1>2 DEF Room!Missing
<1>5. Room!TypeOK'
  BY <1>1, <1>2, <1>3, <1>4 DEF Room!TypeOK
<1>6. AtRest' /\ Room!DropdownTracks' /\ Room!SelectionIsTheUsers'
  BY <1>1, <1>4 DEF RoomInv, AtRest, Room!DropdownTracks,
     Room!SelectionIsTheUsers
<1>7. Honest(room, room', fed') /\ Releases(room, room', fed')
  BY <1>1 DEF Honest, Releases
<1>8. /\ Once(roomBonds') /\ Once(slots') /\ Unmixed'
      /\ Hears(room') /\ Shows(room')
  BY <1>1, <1>3 DEF RoomInv, Unmixed
<1>. QED
  BY <1>5, <1>6, <1>7, <1>8, HonestSteps DEF RoomInv

(* setup: what is made of the preferences.                                 *)
LEMMA LoadedFacts ==
    ASSUME Room!ConstantsAssumption, pin \in Dials \cup {none},
           NEW p \in Room!Prefs, NEW q, q = Room!Loaded(p)
    PROVE  /\ q \in Room!Room /\ Hears(q) /\ Shows(q) /\ q.shown = none /\ ~q.sent
           /\ q.src = "ble" => p.src = "ble"
           /\ p.src = "ble" => q.id = p.id \/ q.id = "internal"
<1>1. /\ Room!Blank \in Room!Room /\ Room!Blank.shown = none /\ Room!Blank.sent = FALSE
      /\ Room!Blank.primary = none /\ Room!Blank.ext = none
  BY RoomSizes DEF Room!Blank, Room!Room
<1>2. /\ none \notin Room!Source /\ "internal" \notin Ext /\ "internal" \notin Dials
      /\ "auto" \notin Ext /\ \A x \in Dials : x \notin Ext
      /\ "internal" \in Room!Source /\ "auto" \in Room!Source /\ Dials \subseteq Room!Source
  BY RoomSizes
<1>3. CASE p.id # none
  <2>. DEFINE b == [Room!Blank EXCEPT !.id = p.id]
              j == Room!Project(b)
              src == IF p.src = "ble" THEN "ble" ELSE j.src
  <2>1. p.id \in Room!Source
    BY <1>3 DEF Room!Prefs
  <2>2. b \in Room!Room /\ b.id = p.id /\ b.shown = none /\ b.sent = FALSE
    BY <1>1, <2>1, WithId DEF SameReading
  <2>3. q = [j EXCEPT !.src = src]
    BY <1>3 DEF Room!Loaded
  <2>. HIDE DEF b
  <2>4. /\ j \in Room!Room /\ SameReading(j, b) /\ j.sent = b.sent
        /\ j.id = p.id /\ j.ext = (IF p.id \in Ext THEN p.id ELSE none)
        /\ j.primary = (IF p.id \in Dials THEN p.id ELSE none)
        /\ j.src = (IF p.id \in Dials THEN "link" ELSE "internal")
    BY <2>2, ProjectFacts
  <2>. HIDE DEF j
  <2>5. src \in {"internal", "ble", "link"}
    BY <2>4
  <2>. HIDE DEF src
  <2>6. /\ q \in Room!Room /\ SameReading(q, j) /\ q.id = j.id /\ q.ext = j.ext
        /\ q.src = src /\ q.sent = j.sent
    BY <2>3, <2>4, <2>5, WithSrc
  <2>7. q.src = "ble" => p.src = "ble"
    BY <2>4, <2>6 DEF src
  <2>8. Hears(q)
    BY <1>2, <2>4, <2>6 DEF Hears, src
  <2>. QED
    BY <2>2, <2>4, <2>6, <2>7, <2>8 DEF SameReading, Shows
<1>4. CASE p.id = none
  <2>1. q = [Room!Blank EXCEPT !.src = p.src, !.primary = pin, !.id = Room!Folded(p)]
    BY <1>4 DEF Room!Loaded
  <2>2. /\ p.src \in {"internal", "ble", "link"} /\ Room!Folded(p) \in Room!Source
        /\ Room!Folded(p) \notin Ext /\ (p.src = "ble" => Room!Folded(p) = "internal")
    BY <1>2 DEF Room!Folded, Room!Prefs
  <2>3. /\ q \in Room!Room /\ q.id = Room!Folded(p) /\ q.src = p.src /\ q.ext = none
        /\ q.shown = none /\ q.sent = FALSE
    BY <1>1, <2>1, <2>2 DEF Room!Room
  <2>. QED
    BY <2>2, <2>3 DEF Hears, Shows
<1>. QED
  BY <1>3, <1>4

LEMMA PowerStep ==
    ASSUME Room!ConstantsAssumption, RoomInv, Room!PowerLoss PROVE RoomInv' /\ RoomStep
<1>1. /\ Room!TypeOK /\ stored \in Room!Prefs /\ saved \in Room!Prefs /\ Unmixed
      /\ pin \in Dials \cup {none}
      /\ roomBonds \in Seq(Dials) /\ Once(roomBonds)
  BY DEF RoomInv, Room!TypeOK
<1>2. PICK prefs \in Room!Survivors :
      /\ stored' = prefs /\ pin' = Room!Pinned(prefs)
      /\ room' = Room!Loaded(prefs) /\ saved' = [id |-> Room!Loaded(prefs).id, src |-> prefs.src]
      /\ choice' = Room!Loaded(prefs).id
      /\ slots' = <<>> /\ roomStarted' = FALSE
      /\ extHas' = [e \in Ext |-> FALSE] /\ api' = FALSE
      /\ fed' = {} /\ gone' = FALSE /\ loose' = TRUE
      /\ torn' = CASE prefs = stored -> IF "flash" \in torn THEN {"room", "flash"} ELSE {}
                   [] prefs # stored /\ prefs = saved -> Room!Reached
                   [] OTHER -> {"room", "flash"}
      /\ UNCHANGED roomBonds
  BY DEF Room!PowerLoss
<1>3. stored' = prefs /\ room' = Room!Loaded(prefs)
      /\ saved' = [id |-> Room!Loaded(prefs).id, src |-> prefs.src]
      /\ choice' = Room!Loaded(prefs).id /\ roomBonds' = roomBonds
      /\ pin' = Room!Pinned(prefs)
      /\ slots' = <<>> /\ roomStarted' = FALSE
      /\ extHas' = [e \in Ext |-> FALSE] /\ api' = FALSE
      /\ fed' = {} /\ gone' = FALSE /\ loose' = TRUE
  BY <1>2
<1>4. prefs \in Room!Prefs
  BY <1>1 DEF Room!Survivors, Room!Prefs
<1>12. /\ torn' \subseteq {"room", "flash"}
       /\ Fits(prefs, "room" \in torn') /\ Fits(prefs, "flash" \in torn')
  <2>1. CASE prefs = stored
    BY <1>1, <1>2, <2>1 DEF Unmixed, Fits
  <2>2. CASE prefs # stored /\ prefs = saved
    BY <1>1, <1>2, <2>2 DEF Unmixed, Fits, Room!Reached
  <2>3. CASE prefs # stored /\ prefs # saved
    BY <1>2, <2>3 DEF Fits
  <2>. QED
    BY <2>1, <2>2, <2>3
<1>5. /\ room' \in Room!Room /\ Hears(room') /\ Shows(room') /\ room'.shown = none
      /\ ~room'.sent /\ (room'.src = "ble" => prefs.src = "ble")
      /\ (prefs.src = "ble" => room'.id = prefs.id \/ room'.id = "internal")
  BY <1>1, <1>3, <1>4, LoadedFacts
<1>6. room'.id \in Room!Source /\ choice' = room'.id
  BY <1>3, <1>5 DEF Room!Room
<1>7. saved' \in Room!Prefs /\ saved'.id = room'.id /\ saved'.src = prefs.src
  BY <1>3, <1>4, <1>6 DEF Room!Prefs
<1>13. Unmixed'
  BY <1>3, <1>5, <1>7, <1>12 DEF Unmixed, Fits
<1>8. Room!TypeOK'
  <2>1. slots' \in Seq(Dials) /\ extHas' \in [Ext -> BOOLEAN]
    BY <1>3
  <2>2. /\ roomStarted' \in BOOLEAN /\ api' \in BOOLEAN /\ gone' \in BOOLEAN
        /\ loose' \in BOOLEAN /\ fed' \subseteq Room!Source
    BY <1>3
  <2>3. roomBonds' \in Seq(Dials) /\ pin' \in Dials \cup {none} /\ choice' \in Room!Source
    BY <1>1, <1>3, <1>6 DEF Room!Pinned
  <2>. QED
    BY <1>3, <1>4, <1>5, <1>7, <1>12, <2>1, <2>2, <2>3 DEF Room!TypeOK
<1>9. AtRest' /\ Room!DropdownTracks' /\ Room!SelectionIsTheUsers'
  BY <1>3, <1>5, <1>6 DEF AtRest, Room!DropdownTracks, Room!SelectionIsTheUsers
<1>10. Once(roomBonds') /\ Once(slots')
  BY <1>1, <1>3 DEF Once
<1>11. RoomStep
  <2>1. Honest(room, room', fed')
    BY <1>3, <1>5 DEF Honest
  <2>. QED
    BY <1>3, <1>13, <2>1, HonestSteps
<1>. QED
  BY <1>5, <1>8, <1>9, <1>10, <1>11, <1>13 DEF RoomInv

LEMMA StartStep ==
    ASSUME Room!ConstantsAssumption, RoomInv, Room!Start PROVE RoomInv' /\ RoomStep
<1>1. /\ ~roomStarted /\ roomStarted' = TRUE /\ slots' \in {roomBonds, <<>>}
      /\ Room!Reconcile(FALSE, FALSE, slots') /\ gone' = Room!Missing(slots')
      /\ UNCHANGED <<roomBonds, stored, pin, extHas, api, choice, loose>>
  BY DEF Room!Start
<1>2. /\ Room!TypeOK /\ room \in Room!Room /\ roomBonds \in Seq(Dials) /\ Once(roomBonds) /\ room.shown = none
      /\ room.id = choice /\ loose /\ gone \in BOOLEAN
  BY <1>1 DEF RoomInv, Room!TypeOK, AtRest
<1>3. slots' \in Seq(Dials) /\ Once(slots')
  <2>1. <<>> \in Seq(Dials) /\ Once(<<>>)
    BY DEF Once
  <2>. QED
    BY <1>1, <1>2, <2>1
<1>4. /\ room' \in Room!Room /\ room'.id = Room!Reconciled(room.id, slots')
      /\ Follows(room') /\ Hears(room') /\ Shows(room')
      /\ saved' \in Room!Prefs /\ Fits(saved', "room" \in torn')
      /\ Fits(room', "room" \in torn') /\ torn' \subseteq {"room", "flash"}
      /\ "flash" \in torn' <=> "flash" \in torn
      /\ Honest(room, room', fed')
  <2>1. ASSUME NEW fire \in BOOLEAN, NEW refresh \in BOOLEAN, Room!Reconcile(fire, refresh, slots')
        PROVE  /\ room' \in Room!Room /\ room'.id = Room!Reconciled(room.id, slots')
               /\ Follows(room') /\ Hears(room') /\ Shows(room')
               /\ saved' \in Room!Prefs /\ Fits(saved', "room" \in torn')
               /\ Fits(room', "room" \in torn') /\ torn' \subseteq {"room", "flash"}
               /\ "flash" \in torn' <=> "flash" \in torn
               /\ Honest(room, room', fed')
    BY <1>3, <2>1, ReconcileFacts
  <2>. QED
    BY <1>1, <2>1
<1>5. room.id \in Room!Source
  BY <1>2 DEF Room!Room
<1>6. gone' \in BOOLEAN /\ (gone => gone') /\ (gone' \/ choice \in Room!Catalog(slots'))
  BY <1>1, <1>2 DEF Room!Missing
<1>7. fed' \subseteq Room!Source
  BY <1>2, <1>4, HonestFed
<1>8. Room!TypeOK'
  BY <1>1, <1>2, <1>3, <1>4, <1>6, <1>7 DEF Room!TypeOK
<1>9. Room!SelectionIsTheUsers'
  <2>1. /\ room.id = "auto" => room'.id \in Dials \cup {"internal"}
        /\ room.id # "auto" => \/ room'.id = room.id
                               \/ room'.id = "internal" /\ room.id \notin Room!Catalog(slots')
    BY <1>3, <1>4, <1>5, ReconciledFacts
  <2>. QED
    BY <1>1, <1>2, <1>6, <2>1 DEF Room!SelectionIsTheUsers
<1>10. AtRest' /\ Room!DropdownTracks'
  BY <1>1, <1>2, <1>4, <1>6 DEF AtRest, Room!DropdownTracks
<1>11. Once(roomBonds') /\ Unmixed'
  BY <1>1, <1>2, <1>4 DEF RoomInv, Unmixed
<1>12. RoomStep
  BY <1>1, <1>4, <1>11, HonestSteps
<1>. QED
  BY <1>3, <1>4, <1>8, <1>9, <1>10, <1>11, <1>12 DEF RoomInv

LEMMA RoomInit == ASSUME Room!ConstantsAssumption, Room!Init PROVE RoomInv
<1>1. /\ slots = <<>> /\ roomStarted = FALSE /\ pin \in Dials \cup {none}
      /\ room = Room!Loaded(stored) /\ saved = [id |-> room.id, src |-> stored.src]
      /\ choice = room.id /\ extHas = [e \in Ext |-> FALSE] /\ api = FALSE
      /\ fed = {} /\ gone = FALSE /\ loose = TRUE /\ torn = {}
  BY DEF Room!Init
<1>2. stored \in Room!Prefs /\ Fits(stored, FALSE)
  <2>1. /\ stored \in Room!Prefs
        /\ (stored.id # none) => (stored.src = "ble" /\ stored.id = "internal")
             \/ stored.src = (IF stored.id \in Dials THEN "link" ELSE "internal")
    BY DEF Room!Init
  <2>. QED
    BY <2>1 DEF Fits
<1>3. roomBonds \in Seq(Dials) /\ Once(roomBonds)
  <2>1. PICK S \in SUBSET Dials : roomBonds \in Room!SetToSeqs(S)
    BY DEF Room!Init
  <2>. DEFINE n == Cardinality(S)
  <2>2. n \in Nat
    <3>1. IsFiniteSet(S)
      BY FewSources, FS_Subset
    <3>. QED
      BY <3>1, FS_CardinalityType
  <2>3. roomBonds \in [1..n -> S] /\ \A i, j \in 1..n : i # j => roomBonds[i] # roomBonds[j]
    BY <2>1, OrderFacts
  <2>. HIDE DEF n
  <2>. QED
    BY <2>2, <2>3 DEF Once
<1>4. /\ room \in Room!Room /\ Hears(room) /\ Shows(room) /\ room.shown = none
      /\ (room.src = "ble" => stored.src = "ble")
      /\ (stored.src = "ble" => room.id = stored.id \/ room.id = "internal")
  BY <1>1, <1>2, LoadedFacts
<1>5. room.id \in Room!Source
  BY <1>4 DEF Room!Room
<1>6. saved \in Room!Prefs /\ saved.id = room.id /\ saved.src = stored.src
  BY <1>1, <1>2, <1>4, <1>5 DEF Room!Prefs
<1>10. Unmixed
  BY <1>2, <1>4, <1>6 DEF Unmixed, Fits
<1>7. Room!TypeOK
  <2>1. slots \in Seq(Dials) /\ extHas \in [Ext -> BOOLEAN]
    BY <1>1
  <2>2. /\ roomStarted \in BOOLEAN /\ api \in BOOLEAN /\ gone \in BOOLEAN
        /\ loose \in BOOLEAN /\ fed \subseteq Room!Source
    BY <1>1
  <2>3. choice \in Room!Source /\ pin \in Dials \cup {none}
    BY <1>1, <1>5
  <2>. QED
    BY <1>1, <1>2, <1>3, <1>4, <1>6, <2>1, <2>2, <2>3 DEF Room!TypeOK
<1>8. AtRest /\ Room!DropdownTracks /\ Room!SelectionIsTheUsers
  BY <1>1, <1>4 DEF AtRest, Room!DropdownTracks, Room!SelectionIsTheUsers
<1>9. Once(slots)
  BY <1>1 DEF Once
<1>. QED
  BY <1>3, <1>4, <1>7, <1>8, <1>9, <1>10 DEF RoomInv

(* Every step of the room source keeps the invariant, and its promises.    *)
LEMMA RoomActs ==
    ASSUME Room!ConstantsAssumption, RoomInv, Room!Next PROVE RoomInv' /\ RoomStep
<1>1. CASE \E S \in SUBSET Dials : \E tab \in Room!SetToSeqs(S) :
             \E new \in Room!Source : Room!CatalogSet(tab, new)
  BY <1>1, CatalogSetStep
<1>2. CASE \E p \in 0..(Len(Room!Externals) + Len(slots)) : Room!DropdownControl(p)
  <2>1. Len(Room!Externals) \in Nat /\ Len(slots) \in Nat
    BY ExternalsListed DEF RoomInv, Room!TypeOK
  <2>. QED
    BY <1>2, <2>1, DropdownStep
<1>3. CASE \E d \in Dials, want \in {"invalid", "internal", "ble", "link"} \ {room.src} :
             \E temp \in BOOLEAN : \E publish \in {FALSE, temp} :
               Room!SensorFrame(d, want, temp, publish)
  <2>1. PICK d \in Dials, want \in {"invalid", "internal", "ble", "link"},
             temp \in BOOLEAN, publish \in BOOLEAN :
               Room!SensorFrame(d, want, temp, publish)
    BY <1>3
  <2>. QED
    BY <2>1, SensorStep
<1>4. CASE \E e \in Ext, value \in BOOLEAN : Room!ExtState(e, value)
  BY <1>4, ExtStep
<1>5. CASE \E d \in Dials : Room!Bond(d) \/ Room!Forget(d) \/ Room!CoreForget(d)
  BY <1>5, BondStep, ForgetStep, CoreForgetStep
<1>6. CASE Room!GoesStale \/ Room!Heartbeat \/ Room!ApiChanges
  BY <1>6, StaleStep, HeartbeatStep, ApiStep
<1>7. CASE Room!Second \/ Room!Sync \/ Room!PowerLoss \/ Room!Start
  BY <1>7, SecondStep, SyncStep, PowerStep, StartStep
<1>. QED
  BY <1>1, <1>2, <1>3, <1>4, <1>5, <1>6, <1>7 DEF Room!Next

LEMMA RoomNext ==
    ASSUME Room!ConstantsAssumption, RoomInv, [Room!Next]_(Room!vars) PROVE RoomInv'
<1>1. CASE Room!Next
  BY <1>1, RoomActs
<1>2. CASE Room!vars' = Room!vars
  BY <1>2 DEF Room!vars, RoomInv, Room!TypeOK, AtRest, Unmixed,
     Room!DropdownTracks, Room!SelectionIsTheUsers
<1>. QED
  BY <1>1, <1>2

LEMMA RoomTells ==
    ASSUME Room!ConstantsAssumption, RoomInv
    PROVE  Room!TypeOK /\ Room!ShownIsPinned /\ Room!ProjectionAgrees /\ Room!DropdownTracks
           /\ Room!SelectionIsTheUsers
<1>1. none \notin Room!Source /\ (Room!TypeOK => room.id \in Room!Source)
  BY RoomSizes DEF Room!TypeOK, Room!Room
<1>. QED
  BY <1>1 DEF RoomInv, AtRest, Follows, Shows, Unmixed, Fits,
     Room!ShownIsPinned, Room!ProjectionAgrees

RoomService == scenario = "room" => RoomInv

LEMMA RoomServiceKept ==
    /\ Init => RoomService
    /\ RoomService /\ [Next]_vars => RoomService'
<1>1. Room!ConstantsAssumption
  BY InstancesAssumption
<1>2. Init => RoomService
  BY <1>1, RoomInit DEF Init, RoomService
<1>3. RoomService /\ [Next]_vars => RoomService'
  <2>. SUFFICES ASSUME RoomService, [Next]_vars, scenario' = "room"
                PROVE  RoomInv'
    BY DEF RoomService
  <2>1. scenario = "room"
    BY DEF Next, vars
  <2>2. [Room!Next]_(Room!vars)
    BY <2>1 DEF Next, vars, rooms, Room!vars
  <2>. QED
    BY <1>1, <2>1, <2>2, RoomNext DEF RoomService
<1>. QED
  BY <1>2, <1>3

(* Whatever the Links, the external sensors, Home Assistant and the power  *)
(* do, what is shown and kept beside the selection follows it; a power loss*)
(* between the writes of its two preferences can leave the BLE of another  *)
(* choice beside it, and that no longer than until the next choice         *)
(* (room_source_apply_, room_source_reconcile_, setup, publish_dial_).     *)
THEOREM SelectionIsKept == Spec => []SelectionIsShown
<1>1. Room!ConstantsAssumption
  BY InstancesAssumption DEF InstancesAssumption
<1>2. RoomService => SelectionIsShown
  BY <1>1, RoomTells DEF RoomService, SelectionIsShown
<1>. QED
  BY <1>2, RoomServiceKept, PTL DEF Spec

(* Only the selected source feeds the pump, also when a power loss left the*)
(* two preferences of two choices; the pump is told when it is on its own  *)
(* again, and the heartbeat repeats only what this selection sent      *)
(* (room_source_changed_, room_sensor_feed, ext_state_).                   *)
THEOREM FeedsAreTheSelected == Spec => SelectionHolds
<1>. DEFINE A == scenario = "room" =>
                   /\ Room!FeedIsSelected /\ Room!PumpIsReleased
                   /\ Room!HeartbeatRepeats
<1>1. Room!ConstantsAssumption
  BY InstancesAssumption DEF InstancesAssumption
<1>2. RoomService /\ Next => A
  <2>. SUFFICES ASSUME RoomService, Next, scenario = "room"
                PROVE  /\ Room!FeedIsSelected /\ Room!PumpIsReleased
                       /\ Room!HeartbeatRepeats
    OBVIOUS
  <2>1. Room!Next
    BY DEF Next
  <2>2. RoomStep
    BY <1>1, <2>1, RoomActs DEF RoomService
  <2>. QED
    BY <2>2 DEF RoomStep
<1>. HIDE DEF A
<1>3. Spec => [][A]_vars
  BY <1>2, RoomServiceKept, PTL DEF Spec
<1>. QED
  BY <1>3 DEF SelectionHolds, A
=============================================================================
