--------------------------- MODULE CameraSession ---------------------------
(***************************************************************************)
(* The camera session that wraps a vendor's HAL, from its opening by       *)
(* CameraDevice to its close: class CameraDeviceSession of                 *)
(* camera/device/3.2/default and what 3.4 and 3.5 add to it.  The batching *)
(* of the answers, which sits between this and the framework, is in        *)
(* ResultBatcher.                                                          *)
(*                                                                         *)
(* The framework calls on its request thread ("client"), and flushes       *)
(* streams from another; the HAL answers on a result thread, notifies      *)
(* errors on a second, and asks for buffers on a third.  A step is one     *)
(* hold of mInflightLock, one call of the HAL, or one callback.  Only      *)
(* configureStreams holds the lock over more than a step.                  *)
(***************************************************************************)
EXTENDS Integers, FiniteSets, Functions

CONSTANTS
  Streams,      (* ids of the streams the framework may configure           *)
  BufferIds,    (* ids of a stream's buffers                                *)
  Variants,     (* devices and builds, see Traits                           *)
  MaxFrames,    (* bound: capture requests                                  *)
  MaxConfigs    (* bound: configurations                                    *)

ASSUME CameraSessionAssumption ==
  /\ IsFiniteSet(Streams) /\ IsFiniteSet(BufferIds) /\ 0 \notin BufferIds
  /\ MaxFrames \in Nat /\ MaxConfigs \in Nat

Frames   == 1..MaxFrames
NoBuffer == 0                     \* BUFFER_ID_NO_BUFFER

VARIABLES
  traits,                         \* what the device and the build support
  mSession, halHandles,           \* the device's session, and open HAL handles
  mStreamMap, mCirculatingBuffers, mBufferIdMaps,
  mInflightBuffers, mInflightAETriggerOverrides, mInflightRawBoostPresent,
  mFirstRequest, mStreamConfigCounter, inflightLock,
  client, nextFrame,              \* the framework's call, and its frame numbers
  result, asker, flusher,         \* the HAL's result and buffer threads; signalStreamFlush
  owedMetadata, owedBuffers,      \* what the HAL still owes
  held,                           \* buffers in the HAL's hands
  cancels, boosted, spoiled, leaked   \* history of requests and answers

deviceVars  == <<traits, mSession, halHandles>>
streamVars  == <<mStreamMap, mStreamConfigCounter, mFirstRequest>>
bufferVars  == <<mCirculatingBuffers, mBufferIdMaps, held>>
inflight    == <<mInflightBuffers, mInflightAETriggerOverrides, mInflightRawBoostPresent>>
owedVars    == <<owedMetadata, owedBuffers>>
historyVars == <<cancels, boosted, spoiled, leaked>>
threadVars  == <<result, asker, flusher>>
sessionVars == <<deviceVars, streamVars, bufferVars, inflight, inflightLock, client, nextFrame,
                 threadVars, owedVars, historyVars>>

Idle    == [pc |-> "idle"]
Busy(t) == t.pc # "idle"

\* The constructor finds the callback's version and the device's capabilities.
Traits ==
  [freeBufEarly : BOOLEAN,        \* mFreeBufEarly
   bufMgr       : BOOLEAN,        \* mSupportBufMgr
   deriveBoost  : BOOLEAN,        \* mDerivePostRawSensKey
   version32    : BOOLEAN,        \* mDeviceVersion <= CAMERA_DEVICE_API_VERSION_3_2
   partials     : Nat \ {0}]      \* mNumPartialResults

ASSUME VariantsAssumption == Variants \subseteq Traits /\ \A t \in Variants : t.bufMgr => ~t.version32

NumPartial == traits.partials
Partials   == 1..NumPartial

Init ==
  /\ traits \in Variants
  /\ mSession = "none" /\ halHandles = 0
  /\ mStreamMap = {} /\ mCirculatingBuffers = <<>> /\ mBufferIdMaps = {}
  /\ mInflightBuffers = {} /\ mInflightAETriggerOverrides = {}
  /\ mInflightRawBoostPresent = <<>>
  /\ mFirstRequest = FALSE /\ mStreamConfigCounter = 0
  /\ inflightLock = "free" /\ nextFrame = 1 /\ held = {}
  /\ client = Idle /\ result = Idle /\ asker = Idle /\ flusher = Idle
  /\ owedMetadata = {} /\ owedBuffers = {}
  /\ cancels = {} /\ boosted = {} /\ spoiled = {} /\ leaked = {}

---------------------------------------------------------------------------
(* CameraDevice::open, and close. *)

\* open() refuses while the last session is not closed; when the module's device
\* has the wrong version, gives no information or cannot be initialised, the
\* handle is closed again, by open(), by initialize() or by the destructor.
Open ==
  /\ mSession = "none"
  /\ mSession' = "open" /\ halHandles' = halHandles + 1
  /\ UNCHANGED <<traits, streamVars, bufferVars, inflight, inflightLock, client, nextFrame,
                 threadVars, owedVars, historyVars>>

\* close(): the HAL's device first, then all imported buffers.  The framework has
\* ended its other calls, and drops the session.
Close ==
  /\ mSession = "open" /\ client = Idle /\ flusher = Idle
  /\ mSession' = "none" /\ halHandles' = halHandles - 1
  /\ mStreamMap' = {} /\ mStreamConfigCounter' = 0 /\ mFirstRequest' = FALSE
  /\ mCirculatingBuffers' = <<>> /\ mBufferIdMaps' = {} /\ held' = {}
  /\ mInflightBuffers' = {} /\ mInflightAETriggerOverrides' = {}
  /\ mInflightRawBoostPresent' = <<>>
  /\ owedMetadata' = {} /\ owedBuffers' = {} /\ nextFrame' = 1
  /\ result' = Idle /\ asker' = Idle
  /\ cancels' = {} /\ boosted' = {} /\ spoiled' = {} /\ leaked' = {}
  /\ UNCHANGED <<traits, inflightLock, client, flusher>>

InitStatusOK == mSession = "open"

---------------------------------------------------------------------------
(* configureStreams, which holds mInflightLock over the HAL's call. *)

Without(f, S)     == Restrict(f, DOMAIN f \ S)
WithCaches(f, S)  == [s \in DOMAIN f \cup S |-> IF s \in DOMAIN f THEN f[s] ELSE {}]

\* Mutant: the gate does not look at the buffers.
BuffersIgnored == mInflightAETriggerOverrides = {} /\ DOMAIN mInflightRawBoostPresent = {}

\* "there must not be any inflight request/results during stream configuration"
NothingInflight ==
  mInflightBuffers = {} /\ mInflightAETriggerOverrides = {} /\ DOMAIN mInflightRawBoostPresent = {}

\* The framework has got back the buffers it lent for the streams it removes.
Lent(S) == traits.bufMgr /\ ((\E h \in held : h[1] \in S) \/ (Busy(asker) /\ asker.stream \in S))

ConfigureStreams ==
  /\ client = Idle /\ InitStatusOK /\ inflightLock = "free"
  /\ mStreamConfigCounter < MaxConfigs
  /\ NothingInflight
  /\ mStreamConfigCounter' = mStreamConfigCounter + 1
  /\ \E config \in SUBSET Streams \ {{}} :
       /\ ~Lent(mStreamMap \ config)
       /\ \/ \* preProcessConfigurationLocked: new streams are added; with mFreeBufEarly
             \* the buffers of the others are freed before the HAL is asked.
             /\ mStreamMap' = mStreamMap \cup config
             /\ LET caches == WithCaches(mCirculatingBuffers, config \ mStreamMap)
                IN  mCirculatingBuffers' =
                      IF traits.freeBufEarly THEN Without(caches, mStreamMap \ config) ELSE caches
             /\ client' = [pc |-> "configuring", config |-> config]
             /\ inflightLock' = "configure"
          \/ \* A stream has changed: refused, with the streams before it added.
             \E changed \in config \cap mStreamMap, added \in SUBSET (config \ mStreamMap) :
               /\ mStreamMap' = mStreamMap \cup added
               /\ mCirculatingBuffers' = WithCaches(mCirculatingBuffers, added)
               /\ UNCHANGED <<client, inflightLock>>
  /\ UNCHANGED <<deviceVars, mFirstRequest, mBufferIdMaps, held, inflight, nextFrame, threadVars,
                 owedVars, historyVars>>

\* postProcessConfigurationLocked: the HAL has accepted, unused streams go.
HalConfigures ==
  /\ client.pc = "configuring"
  /\ mStreamMap' = client.config
  /\ mCirculatingBuffers' =
       IF traits.freeBufEarly THEN mCirculatingBuffers
                              ELSE Without(mCirculatingBuffers, mStreamMap \ client.config)
  /\ mFirstRequest' = TRUE
  /\ inflightLock' = "free" /\ client' = Idle
  /\ UNCHANGED <<deviceVars, mStreamConfigCounter, mBufferIdMaps, held, inflight, nextFrame,
                 threadVars, owedVars, historyVars>>

\* postProcessConfigurationFailureLocked: the streams stay, and have empty caches again.
HalRefusesConfiguration ==
  /\ client.pc = "configuring"
  /\ mCirculatingBuffers' =
       IF traits.freeBufEarly THEN WithCaches(mCirculatingBuffers, mStreamMap \ client.config)
                              ELSE mCirculatingBuffers
  /\ inflightLock' = "free" /\ client' = Idle
  /\ UNCHANGED <<deviceVars, streamVars, mBufferIdMaps, held, inflight, nextFrame, threadVars,
                 owedVars, historyVars>>

---------------------------------------------------------------------------
(* processCaptureRequest. *)

\* importBuffer: a buffer is imported once and kept; the empty buffer is not cached.
\* Mutant: the empty buffer is cached as well.
ImportAny(caches, bufs) ==
  LET S == {b[1] : b \in bufs}
  IN  [s \in DOMAIN caches \cup S |->
         (IF s \in DOMAIN caches THEN caches[s] ELSE {}) \cup {b[2] : b \in {x \in bufs : x[1] = s}}]
Import(caches, bufs) ==
  LET S == {b[1] : b \in bufs}
  IN  [s \in DOMAIN caches \cup S |->
         (IF s \in DOMAIN caches THEN caches[s] ELSE {})
           \cup {b[2] : b \in {x \in bufs : x[1] = s /\ x[2] # NoBuffer}}]

\* updateBufferCaches: the framework names buffers it will not use again.
UpdateBufferCaches(caches, gone) ==
  [s \in DOMAIN caches |-> {b \in caches[s] : <<s, b>> \notin gone}]

\* The framework's buffers for a request: one for each stream, or none of its own
\* when the HAL asks for them itself.
RequestBuffers ==
  IF traits.bufMgr THEN {{<<s, NoBuffer>> : s \in S} : S \in SUBSET mStreamMap \ {{}}}
  ELSE {{<<s, b[s]>> : s \in DOMAIN b} :
          b \in UNION {[S -> BufferIds] : S \in SUBSET mStreamMap \ {{}}}}

\* handleAePrecaptureCancelRequestLocked: only an old device's request with settings
\* can need its AE trigger changed.
CancelsTrigger(settings) == traits.version32 /\ settings

\* One request: caches are updated, its settings read, its buffers and fences
\* imported.  It is refused when settings are missing or a buffer or fence invalid;
\* what was imported stays cached.
ProcessOneCaptureRequest ==
  /\ client = Idle /\ InitStatusOK /\ inflightLock = "free"
  /\ nextFrame <= MaxFrames
  /\ nextFrame' = nextFrame + 1
  /\ \E bufs \in RequestBuffers, gone \in SUBSET (Streams \X BufferIds), cancel, settings, valid \in BOOLEAN :
       /\ bufs \cap held = {} /\ gone \cap (bufs \cup held) = {} /\ Cardinality(gone) <= 1
       /\ cancel => CancelsTrigger(settings)
       /\ LET caches == UpdateBufferCaches(mCirculatingBuffers, gone)
          IN  IF mFirstRequest /\ ~settings
                THEN mCirculatingBuffers' = caches /\ UNCHANGED client
                ELSE /\ mCirculatingBuffers' = Import(caches, bufs)
                     /\ client' = IF valid THEN [pc |-> "record", frame |-> nextFrame, bufs |-> bufs,
                                                 cancel |-> cancel]
                                           ELSE client
  /\ UNCHANGED <<deviceVars, streamVars, mBufferIdMaps, held, inflight, inflightLock, threadVars,
                 owedVars, historyVars>>

Keys(c) == {<<b[1], c.frame>> : b \in c.bufs}

\* The records are made under the lock, and the trigger's override with them.
RecordRequest ==
  /\ client.pc = "record" /\ inflightLock = "free"
  /\ mInflightBuffers' = mInflightBuffers \cup Keys(client)
  /\ mInflightAETriggerOverrides' =
       mInflightAETriggerOverrides \cup (IF client.cancel THEN {client.frame} ELSE {})
  /\ client' = [client EXCEPT !.pc = "submit"]
  /\ UNCHANGED <<deviceVars, streamVars, bufferVars, mInflightRawBoostPresent, inflightLock,
                 nextFrame, threadVars, owedVars, historyVars>>

\* 3.4: settings for a physical camera are corrupt or missing; the request is
\* refused with its records left in place.
PhysicalSettingsRefused ==
  /\ client.pc = "submit" /\ ~traits.version32
  /\ leaked' = leaked \cup Keys(client)
  /\ client' = Idle
  /\ UNCHANGED <<deviceVars, streamVars, bufferVars, inflight, inflightLock, nextFrame, threadVars,
                 owedVars, cancels, boosted, spoiled>>

\* The HAL may answer before its call returns.
HalTakesRequest ==
  /\ client.pc = "submit"
  /\ owedMetadata' = owedMetadata \cup ({client.frame} \X Partials)
  /\ owedBuffers' = owedBuffers \cup {<<b[1], client.frame, b[2]>> : b \in client.bufs}
  /\ held' = held \cup {b \in client.bufs : b[2] # NoBuffer}
  /\ cancels' = cancels \cup (IF client.cancel THEN {client.frame} ELSE {})
  /\ client' = [client EXCEPT !.pc = "taken"]
  /\ UNCHANGED <<deviceVars, streamVars, mCirculatingBuffers, mBufferIdMaps, inflight, inflightLock,
                 nextFrame, threadVars, boosted, spoiled, leaked>>

RequestReturns ==
  /\ client.pc = "taken"
  /\ mFirstRequest' = FALSE
  /\ client' = Idle
  /\ UNCHANGED <<deviceVars, mStreamMap, mStreamConfigCounter, bufferVars, inflight, inflightLock,
                 nextFrame, threadVars, owedVars, historyVars>>

\* Mutant: the trigger's override is forgotten when the HAL refuses.
OverrideKept(c) == mInflightAETriggerOverrides
OverrideDropped(c) == mInflightAETriggerOverrides \ (IF c.cancel THEN {c.frame} ELSE {})

HalRefusesRequest ==
  /\ client.pc = "submit" /\ inflightLock = "free"
  /\ mInflightBuffers' = mInflightBuffers \ Keys(client)
  /\ mInflightAETriggerOverrides' = OverrideDropped(client)
  /\ client' = Idle
  /\ UNCHANGED <<deviceVars, streamVars, bufferVars, mInflightRawBoostPresent, inflightLock,
                 nextFrame, threadVars, owedVars, historyVars>>

---------------------------------------------------------------------------
(* The HAL's results (external: partial results in order, buffers at any   *)
(* time; a buffer is sometimes returned twice).                            *)

ResultArrives ==
  /\ result = Idle
  /\ \E f \in Frames, partial \in 0..NumPartial, bufs \in SUBSET owedBuffers, boost \in BOOLEAN :
       /\ partial > 0 \/ bufs # {}
       /\ \A b \in bufs : b[2] = f
       /\ partial > 0 => /\ <<f, partial>> \in owedMetadata
                         /\ \A p \in Partials : p < partial => <<f, p>> \notin owedMetadata
       /\ boost => partial > 0 /\ traits.deriveBoost
       /\ owedMetadata' = owedMetadata \ {<<f, partial>>}
       /\ owedBuffers' = owedBuffers \ bufs
       /\ \E handles \in SUBSET held :
            /\ IF traits.bufMgr
                 THEN \* any buffers it has asked for, at most one for a stream
                      /\ \A h \in handles : \E b \in bufs : b[1] = h[1]
                      /\ \A h, i \in handles : h[1] = i[1] => h = i
                 ELSE handles = {<<b[1], b[3]>> : b \in bufs}
            /\ result' = [pc |-> "validate", frame |-> f, partial |-> partial,
                          keys |-> {<<b[1], f>> : b \in bufs}, handles |-> handles, boost |-> boost,
                          overridden |-> FALSE]
  /\ UNCHANGED <<deviceVars, streamVars, bufferVars, inflight, inflightLock, client, nextFrame, asker,
                 flusher, historyVars>>

BufferReturnedTwice ==
  /\ result = Idle /\ InitStatusOK
  /\ \E s \in mStreamMap : LET f == nextFrame - 1 IN
       /\ f > 0 /\ <<s, f>> \notin mInflightBuffers
       /\ client.pc \in {"record", "submit", "taken"} => client.frame # f
       /\ result' = [pc |-> "validate", frame |-> f, partial |-> 0, keys |-> {<<s, f>>},
                     handles |-> {}, boost |-> FALSE, overridden |-> FALSE]
  /\ UNCHANGED <<deviceVars, streamVars, bufferVars, inflight, inflightLock, client, nextFrame, asker,
                 flusher, owedVars, historyVars>>

\* constructCaptureResult, first hold of the lock: every buffer must be in flight.
Validate ==
  /\ result.pc = "validate" /\ inflightLock = "free"
  /\ result' = IF result.keys \subseteq mInflightBuffers THEN [result EXCEPT !.pc = "metadata"] ELSE Idle
  /\ UNCHANGED <<deviceVars, streamVars, bufferVars, inflight, inflightLock, client, nextFrame, asker,
                 flusher, owedVars, historyVars>>

\* Second hold: the post-RAW boost is derived in the last partial result when the
\* HAL gave none, and the trigger override is undone.
\* Mutant: any entry counts as a boost.
BoostMet(f)  == f \in DOMAIN mInflightRawBoostPresent
BoostSeen(f) == f \in DOMAIN mInflightRawBoostPresent /\ mInflightRawBoostPresent[f]

LastPartial == result.partial = NumPartial

OverrideMetadata ==
  /\ result.pc = "metadata" /\ inflightLock = "free"
  /\ IF result.partial = 0
       THEN UNCHANGED <<mInflightRawBoostPresent, mInflightAETriggerOverrides>>
       ELSE /\ mInflightRawBoostPresent' =
                 IF ~traits.deriveBoost THEN mInflightRawBoostPresent
                 ELSE IF LastPartial THEN Without(mInflightRawBoostPresent, {result.frame})
                 ELSE [f \in DOMAIN mInflightRawBoostPresent \cup {result.frame} |->
                         IF f = result.frame THEN result.boost \/ BoostSeen(f)
                                             ELSE mInflightRawBoostPresent[f]]
            /\ mInflightAETriggerOverrides' =
                 IF LastPartial THEN mInflightAETriggerOverrides \ {result.frame}
                                ELSE mInflightAETriggerOverrides
  /\ result' = [result EXCEPT !.pc = "erase",
                  !.boost = @ \/ (traits.deriveBoost /\ LastPartial /\ ~BoostSeen(result.frame)),
                  !.overridden = result.frame \in mInflightAETriggerOverrides]
  /\ UNCHANGED <<deviceVars, streamVars, bufferVars, mInflightBuffers, inflightLock, client, nextFrame,
                 asker, flusher, owedVars, historyVars>>

\* Third hold: buffers get their ids back and the records are erased, before the
\* framework hears of it.
EraseRecords ==
  /\ result.pc = "erase" /\ inflightLock = "free"
  /\ mInflightBuffers' = mInflightBuffers \ result.keys
  /\ mBufferIdMaps' = mBufferIdMaps \ result.handles
  /\ held' = held \ result.handles
  /\ result' = [result EXCEPT !.pc = "deliver"]
  /\ UNCHANGED <<deviceVars, streamVars, mCirculatingBuffers, mInflightAETriggerOverrides,
                 mInflightRawBoostPresent, inflightLock, client, nextFrame, asker, flusher, owedVars,
                 historyVars>>

\* To the result batcher; 3.4 drops a result that names an unknown physical camera.
Deliver ==
  LET f == result.frame
      dropped == result' = Idle /\ boosted' = boosted \cup {f} /\ UNCHANGED <<cancels, spoiled>>
  IN  /\ result.pc = "deliver"
      /\ \/ ~traits.version32 /\ dropped
         \/ /\ boosted' = IF LastPartial THEN boosted \ {f}
                          ELSE IF result.boost THEN boosted \cup {f} ELSE boosted
            /\ cancels' = IF LastPartial THEN cancels \ {f} ELSE cancels
            /\ spoiled' = IF \/ result.partial > 0 /\ f \in cancels /\ ~result.overridden
                             \/ LastPartial /\ traits.deriveBoost /\ ~result.boost /\ f \notin boosted
                            THEN spoiled \cup {f} ELSE spoiled
            /\ result' = Idle
      /\ UNCHANGED <<deviceVars, streamVars, bufferVars, inflight, inflightLock, client, nextFrame,
                     asker, flusher, owedVars, leaked>>

\* sNotify with an error of the request or its result: no more metadata will come,
\* and the entries that wait for it go.  (External: the HAL has ended its last call
\* about this metadata.)
ErrorNotified ==
  /\ inflightLock = "free"
  /\ \E f \in {m[1] : m \in owedMetadata} :
       /\ Busy(result) => result.frame # f
       /\ owedMetadata' = {m \in owedMetadata : m[1] # f}
       /\ mInflightAETriggerOverrides' = mInflightAETriggerOverrides \ {f}
       /\ mInflightRawBoostPresent' = Without(mInflightRawBoostPresent, {f})
       /\ cancels' = cancels \ {f} /\ boosted' = boosted \ {f}
  /\ UNCHANGED <<deviceVars, streamVars, bufferVars, mInflightBuffers, inflightLock, client, nextFrame,
                 threadVars, owedBuffers, spoiled, leaked>>

---------------------------------------------------------------------------
(* 3.5: the HAL asks for buffers, and the framework asks for them back. *)

\* requestStreamBuffers: the framework lends a buffer it does not wait for.
FrameworkLends ==
  /\ asker = Idle /\ traits.bufMgr /\ InitStatusOK /\ inflightLock = "free" /\ client.pc # "configuring"
  /\ \E s \in mStreamMap, b \in BufferIds :
       /\ <<s, b>> \notin held
       /\ asker' = [pc |-> "import", stream |-> s, buf |-> b]
  /\ UNCHANGED <<deviceVars, streamVars, bufferVars, inflight, inflightLock, client, nextFrame, result,
                 flusher, owedVars, historyVars>>

\* getStreamPointer, which fails the call for a stream that is gone, importBuffer
\* and pushBufferId.
RequestStreamBuffers ==
  /\ asker.pc = "import" /\ inflightLock = "free"
  /\ LET lent == {x \in {<<asker.stream, asker.buf>>} : x[1] \in mStreamMap}
     IN  /\ mCirculatingBuffers' = Import(mCirculatingBuffers, lent)
         /\ mBufferIdMaps' = mBufferIdMaps \cup lent
         /\ held' = held \cup lent
  /\ asker' = Idle
  /\ UNCHANGED <<deviceVars, streamVars, inflight, inflightLock, client, nextFrame, result, flusher,
                 owedVars, historyVars>>

\* returnStreamBuffers: a buffer goes back unused.
ReturnStreamBuffers ==
  /\ traits.bufMgr
  /\ \E h \in held :
       /\ Busy(result) => h \notin result.handles
       /\ mBufferIdMaps' = mBufferIdMaps \ {h}
       /\ held' = held \ {h}
  /\ UNCHANGED <<deviceVars, streamVars, mCirculatingBuffers, inflight, inflightLock, client, nextFrame,
                 threadVars, owedVars, historyVars>>

\* signalStreamFlush is skipped when a newer configuration has been made; the counter
\* is read under its own lock, which configureStreams holds throughout.
SignalStreamFlush ==
  /\ flusher = Idle /\ traits.bufMgr /\ InitStatusOK /\ inflightLock = "free" /\ client.pc # "configuring"
  /\ \E counter \in 1..mStreamConfigCounter :
       /\ ~(counter < mStreamConfigCounter)
       /\ flusher' = [pc |-> "signal", counter |-> counter]
  /\ UNCHANGED <<deviceVars, streamVars, bufferVars, inflight, inflightLock, client, nextFrame, result,
                 asker, owedVars, historyVars>>

\* The streams are looked up under the other lock, and the HAL is called without it.
FlushSignalled ==
  /\ flusher.pc = "signal" /\ inflightLock = "free"
  /\ flusher' = Idle
  /\ UNCHANGED <<deviceVars, streamVars, bufferVars, inflight, inflightLock, client, nextFrame, result,
                 asker, owedVars, historyVars>>

---------------------------------------------------------------------------
ClientStep == \/ Open \/ Close \/ ConfigureStreams \/ HalConfigures \/ HalRefusesConfiguration
              \/ ProcessOneCaptureRequest \/ RecordRequest \/ PhysicalSettingsRefused
              \/ HalTakesRequest \/ RequestReturns \/ HalRefusesRequest
              \/ SignalStreamFlush \/ FlushSignalled

HalStep    == \/ ResultArrives \/ BufferReturnedTwice \/ Validate \/ OverrideMetadata
              \/ EraseRecords \/ Deliver \/ ErrorNotified
              \/ FrameworkLends \/ RequestStreamBuffers \/ ReturnStreamBuffers

Next == ClientStep \/ HalStep

Spec == Init /\ [][Next]_sessionVars

---------------------------------------------------------------------------
(* Properties. *)

TypeOK ==
  /\ mSession \in {"none", "open"}
  /\ halHandles = IF mSession = "open" THEN 1 ELSE 0
  /\ mStreamMap \subseteq Streams
  /\ DOMAIN mCirculatingBuffers \subseteq Streams
  /\ \A s \in DOMAIN mCirculatingBuffers : mCirculatingBuffers[s] \subseteq BufferIds
  /\ mBufferIdMaps \cup held \subseteq Streams \X BufferIds
  /\ mInflightBuffers \subseteq Streams \X Frames
  /\ mInflightAETriggerOverrides \cup DOMAIN mInflightRawBoostPresent \subseteq Frames
  /\ inflightLock \in {"free", "configure"}

\* Records come and go with what they stand for, on three threads and in three holds
\* of the lock: a buffer is in flight from its request to the callback that returns
\* it, an override or a boost entry while metadata is to come.  A record left behind
\* would make configureStreams refuse for ever.  (A request refused for the settings
\* of a physical camera does leave its records: leaked.)
Returning ==
  CASE result.pc \in {"metadata", "erase"} -> result.keys
    [] result.pc = "validate" -> result.keys \cap mInflightBuffers
    [] OTHER -> {}

RecordsExact ==
  mSession = "open" =>
    LET submitting == client.pc = "submit"
        expecting  == {m[1] : m \in owedMetadata}
                        \cup (IF submitting THEN {client.frame} ELSE {})
                        \cup (IF Busy(result) THEN {result.frame} ELSE {})
    IN  /\ mInflightBuffers = {<<b[1], b[2]>> : b \in owedBuffers} \cup Returning \cup leaked
                                \cup (IF submitting THEN Keys(client) ELSE {})
        /\ mInflightAETriggerOverrides \cup DOMAIN mInflightRawBoostPresent \subseteq expecting

\* A buffer in the HAL's hands is imported and not freed, whatever is configured or
\* dropped from the caches meanwhile; in buffer management mode its id is known.
\* Every configured stream has its cache, which cleanupBuffersLocked() relies on.
BuffersAccounted ==
  mSession = "open" =>
    /\ \A h \in held : h[1] \in DOMAIN mCirculatingBuffers /\ h[2] \in mCirculatingBuffers[h[1]]
    /\ traits.bufMgr => mBufferIdMaps = held
    /\ client.pc # "configuring" => mStreamMap \subseteq DOMAIN mCirculatingBuffers

\* What the session changed in the metadata for an older HAL is invisible: a request
\* that cancels the AE trigger sees its cancel in every result, and each complete
\* answer has a post-RAW boost, given or derived.
ResultsRestored == spoiled = {}
=============================================================================
