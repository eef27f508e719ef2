------------------------------ MODULE CapsSync ------------------------------
(***************************************************************************)
(* What the controller keeps across boots about itself, and how dials      *)
(* learn that its capabilities changed (src/src/sl2_link.c: start, caps_   *)
(* changed, persist_caps_seq, serve_pulls; serin_link.cpp: try_start_,     *)
(* p_kv_get, p_kv_set).                                                    *)
(*                                                                         *)
(* A dial caches CAPS under the sequence number it came with and pulls     *)
(* when STATE names another.  A new firmware or configuration changes the  *)
(* content across a boot.  kv_set is written at once; the fingerprint is   *)
(* an ESPHome preference, cached and written later.  Frames may be lost.   *)
(***************************************************************************)
EXTENDS Integers

CONSTANTS
    Dial,
    Content,      \* what hvac_get_caps makes of the configuration
    Nothing,
    SeqWord,      \* 2^8, the range of caps_seq
    MaxContents,  \* times the content changes
    MaxErrors     \* failures of the key-value store

ConstantsAssumption ==
    /\ Nothing \notin Content
    /\ SeqWord \in Nat /\ MaxContents \in Nat /\ MaxErrors \in Nat
    /\ SeqWord > MaxContents + 1

VARIABLES
    content,     \* what this firmware would announce
    started,
    id,          \* id_priv and id_pub, a number per key pair made
    seq,         \* caps_seq
    kvId,        \* SL2_KV_IDENTITY, 0 when there is none
    kvSeq,       \* SL2_KV_CAPS_SEQ
    fp,          \* the fingerprint preference as saved
    fpFlash,     \* ... and as written
    dial,        \* each dial's cache: the number and content it has
    nextId,      \* key pairs made so far
    changes,     \* content changes so far
    errors,      \* store failures so far
    lostSeq,     \* history: a caps_seq was not saved or not read
    lostId,      \* history: an identity was not read
    lostFp       \* history: a reboot found an older fingerprint than saved

ram  == <<started, id, seq>>
kv   == <<kvId, kvSeq, fp, fpFlash>>
hist == <<nextId, changes, errors, lostSeq, lostId, lostFp>>
vars == <<content, ram, kv, dial, hist>>

(* A read or a write that may fail while errors are left. *)
Outcome == {TRUE} \cup (IF errors < MaxErrors THEN {FALSE} ELSE {})
Count(oks) == errors + IF FALSE \in oks THEN 1 ELSE 0

----------------------------------------------------------------------------
(* sl2_link_start and the rest of try_start_. *)

(* Mutant: the identity is used although it was not stored. *)
StoresIdentityAnyway(ok) == TRUE

StoresIdentity(ok) == ok

(* Mutant: a first boot is told by another key of the store. *)
FoundBySeq(read) == read /\ kvId # 0 /\ kvSeq # 0

Found(read) == read /\ kvId # 0

(* No stored identity -- or none that can be read -- means a new key pair. *)
StartIdentity(read, write) ==
    IF Found(read)
    THEN id' = kvId /\ UNCHANGED <<kvId, nextId, lostId>>
    ELSE /\ nextId' = nextId + 1 /\ id' = nextId'
         /\ kvId' = IF write THEN id' ELSE kvId
         /\ lostId' = (lostId \/ ~read)

(* Mutant: the sequence number moves only if nothing was announced before. *)
BumpedOnce(old, new, n) == IF old = Nothing THEN (n + 1) % SeqWord ELSE n

(* sl2_link_caps_changed, when the fingerprint differs. *)
Bumped(old, new, n) == IF old # new THEN (n + 1) % SeqWord ELSE n

Start ==
    /\ ~started
    /\ \E readId, writeId, readSeq, writeSeq \in Outcome :
         LET made == ~Found(readId)
             loaded == IF readSeq THEN kvSeq ELSE 0
         IN  /\ StartIdentity(readId, writeId)
             /\ errors' = Count({readId, readSeq, writeSeq}
                                \cup IF made THEN {writeId} ELSE {})
             /\ IF made /\ ~StoresIdentity(writeId)
                THEN UNCHANGED <<started, seq, kvSeq, fp, lostSeq>>
                ELSE /\ started' = TRUE
                     /\ seq' = Bumped(fp, content, loaded)
                     /\ kvSeq' = IF seq' # loaded /\ writeSeq THEN seq' ELSE kvSeq
                     /\ fp' = content
                     /\ lostSeq' = (lostSeq \/ ~readSeq \/ ~writeSeq)
    /\ UNCHANGED <<content, fpFlash, dial, changes, lostFp>>

(* ESPHome writes its preferences. *)
Sync ==
    /\ fpFlash' = fp
    /\ UNCHANGED <<content, ram, kvId, kvSeq, fp, dial, hist>>

(* A reboot, with or without the preferences written, perhaps into other   *)
(* firmware.                                                               *)
Reboot ==
    /\ started' = FALSE /\ id' = 0 /\ seq' = 0
    /\ fp' = fpFlash
    /\ content' \in IF changes < MaxContents THEN Content ELSE {content}
    /\ changes' = IF content' # content THEN changes + 1 ELSE changes
    /\ lostFp' = (lostFp \/ fp # fpFlash)
    /\ UNCHANGED <<kvId, kvSeq, fpFlash, dial, nextId, errors, lostSeq, lostId>>

----------------------------------------------------------------------------
(* Dials. *)

(* STATE names a number that is not the cached one, the dial's PROBE wants *)
(* CAPS, serve_pulls answers, and nothing of it is lost.                   *)
Pull(d) ==
    /\ started /\ dial[d].seq # seq
    /\ dial' = [dial EXCEPT ![d] = [seq |-> seq, content |-> content]]
    /\ UNCHANGED <<content, ram, kv, hist>>

(* A dial that restarts pulls again. *)
DialRestart(d) ==
    /\ dial' = [dial EXCEPT ![d] = [seq |-> -1, content |-> Nothing]]
    /\ UNCHANGED <<content, ram, kv, hist>>

Init ==
    /\ content \in Content
    /\ started = FALSE /\ id = 0 /\ seq = 0
    /\ kvId = 0 /\ kvSeq = 0 /\ fp = Nothing /\ fpFlash = Nothing
    /\ dial = [d \in Dial |-> [seq |-> -1, content |-> Nothing]]
    /\ nextId = 0 /\ changes = 0 /\ errors = 0
    /\ lostSeq = FALSE /\ lostId = FALSE /\ lostFp = FALSE

Next ==
    \/ Start \/ Sync \/ Reboot
    \/ \E d \in Dial : Pull(d) \/ DialRestart(d)

Spec == Init /\ [][Next]_vars

----------------------------------------------------------------------------
(* Properties; the primed ones are of every step. *)

(* Every variable keeps its type. *)
TypeOK ==
    /\ content \in Content /\ started \in BOOLEAN
    /\ id \in 0..nextId /\ kvId \in 0..nextId /\ nextId \in Nat
    /\ seq \in 0..SeqWord-1 /\ kvSeq \in 0..SeqWord-1
    /\ fp \in Content \cup {Nothing} /\ fpFlash \in Content \cup {Nothing}
    /\ dial \in [Dial -> [seq : -1..SeqWord-1, content : Content \cup {Nothing}]]
    /\ changes \in 0..MaxContents /\ errors \in 0..MaxErrors
    /\ lostSeq \in BOOLEAN /\ lostId \in BOOLEAN /\ lostFp \in BOOLEAN

(* The identity in use is the one the next boot will use: a controller     *)
(* never pairs under a key pair that a reboot would take from it.  What    *)
(* was stored is replaced only after it could not be read.                 *)
IdentityIsDurable == started => id = kvId

IdentityIsKept == kvId # 0 /\ kvId' # kvId => lostId'

(* A dial whose cached number is the announced one has the announced       *)
(* capabilities, across reboots into other firmware -- as long as neither  *)
(* a sequence number nor a fingerprint was lost on the way.                *)
NumberNamesContent ==
    \A d \in Dial : started /\ dial[d].seq = seq =>
        dial[d].content = content \/ lostSeq \/ lostFp
=============================================================================
