------------------------ MODULE CameraSessionProofs ------------------------
(***************************************************************************)
(* Proofs about CameraSession, for any streams, buffers and devices, and   *)
(* any number of requests: the records of what is in flight are exact, and *)
(* the buffers lent to the HAL stay imported.                              *)
(***************************************************************************)
EXTENDS CameraSession, TLAPS

InRequest == {"record", "submit", "taken"}
Unsent    == {"record", "submit"}
Unerased  == {"validate", "metadata", "erase"}

BufferOrNone == BufferIds \cup {NoBuffer}

ClientCalls ==
  {Idle} \cup [pc : {"configuring"}, config : SUBSET Streams]
         \cup [pc : InRequest, frame : Frames, bufs : SUBSET (Streams \X BufferOrNone), cancel : BOOLEAN]
HalResults ==
  {Idle} \cup [pc : Unerased \cup {"deliver"}, frame : Frames, partial : Nat,
               keys : SUBSET (Streams \X Frames), handles : SUBSET (Streams \X BufferIds),
               boost : BOOLEAN, overridden : BOOLEAN]
Asks == {Idle} \cup [pc : {"import"}, stream : Streams, buf : BufferIds]

Shapes ==
  /\ traits \in Variants
  /\ client \in ClientCalls /\ result \in HalResults /\ asker \in Asks
  /\ inflightLock = "configure" <=> client.pc = "configuring"
  /\ nextFrame \in 1..(MaxFrames + 1)
  /\ owedMetadata \subseteq Frames \X Partials
  /\ owedBuffers \subseteq Streams \X Frames \X BufferOrNone
  /\ leaked \subseteq Streams \X Frames

\* Frames are numbered in the order of their requests, and the HAL knows only those it
\* was given.
Given(f) == f < nextFrame /\ (client.pc \in Unsent => f # client.frame)

Numbered ==
  /\ client.pc \in InRequest => client.frame = nextFrame - 1
  /\ \A b \in owedBuffers : Given(b[2])
  /\ \A m \in owedMetadata : Given(m[1])
  /\ \A k \in leaked : Given(k[2])
  /\ Busy(result) => Given(result.frame) /\ \A k \in result.keys : k[2] = result.frame

\* What RecordsExact says of the buffers in flight, whether a session is open or not.
OwedKeys == {<<b[1], b[2]>> : b \in owedBuffers}

BuffersExact ==
  mInflightBuffers = OwedKeys \cup Returning \cup leaked
                       \cup (IF client.pc = "submit" THEN Keys(client) ELSE {})

\* A buffer is recorded for one reason: no two of these sets overlap.
Separate ==
  /\ \A b, c \in owedBuffers : b[1] = c[1] /\ b[2] = c[2] => b = c
  /\ client.pc \in Unsent => \A b, c \in client.bufs : b[1] = c[1] => b = c
  /\ leaked \cap OwedKeys = {}
  /\ result.pc \in Unerased => result.keys \cap (OwedKeys \cup leaked) = {}
  /\ result.pc = "validate" => \/ result.keys \subseteq mInflightBuffers
                               \/ /\ result.keys \cap mInflightBuffers = {}
                                  /\ result.partial = 0 /\ result.handles = {}

\* An override or a boost entry waits for the last partial result of its frame.
Awaited(f) == <<f, NumPartial>> \in owedMetadata
Arrived(f) == result.pc \in {"validate", "metadata"} /\ LastPartial /\ f = result.frame

MetadataAwaited ==
  /\ \A m \in owedMetadata : Awaited(m[1])
  /\ result.pc \in {"validate", "metadata"} /\ result.partial # 0 => Awaited(result.frame) \/ LastPartial
  /\ \A f \in DOMAIN mInflightRawBoostPresent : traits.deriveBoost /\ (Awaited(f) \/ Arrived(f))
  /\ \A f \in mInflightAETriggerOverrides :
       Awaited(f) \/ Arrived(f) \/ (client.pc = "submit" /\ client.cancel /\ f = client.frame)
  /\ client.pc \in InRequest /\ client.cancel => traits.version32

Cached(h) == h[1] \in DOMAIN mCirculatingBuffers /\ h[2] \in mCirculatingBuffers[h[1]]

CachesKept ==
  /\ \A h \in held : Cached(h)
  /\ client.pc \in Unsent => \A b \in client.bufs : b[2] # NoBuffer => Cached(b)
  /\ IF client.pc = "configuring"
       THEN /\ client.config \subseteq mStreamMap \cap DOMAIN mCirculatingBuffers
            /\ traits.freeBufEarly \/ mStreamMap \subseteq DOMAIN mCirculatingBuffers
            /\ \A h \in held : h[1] \notin mStreamMap \ client.config
       ELSE mStreamMap \subseteq DOMAIN mCirculatingBuffers

\* Where the buffers in the HAL's hands come from: it asked for them, or they belong to
\* a record.
Lending ==
  IF traits.bufMgr
    THEN /\ mBufferIdMaps = held
         /\ client.pc \in Unsent => \A b \in client.bufs : b[2] = NoBuffer
    ELSE /\ asker = Idle
         /\ \A h \in held : \/ \E b \in owedBuffers : h = <<b[1], b[3]>>
                            \/ result.pc \in Unerased /\ h \in result.handles
         /\ result.pc \in Unerased /\ result.handles # {} => result.keys # {}

IInv == /\ TypeOK /\ Shapes /\ Numbered /\ BuffersExact /\ Separate
        /\ MetadataAwaited /\ CachesKept /\ Lending

USE DEF sessionVars, deviceVars, streamVars, bufferVars, inflight, owedVars, historyVars, threadVars

---------------------------------------------------------------------------
(* What the shapes of the calls give. *)

\* A call of the framework is one of four kinds.
LEMMA ClientKinds ==
  ASSUME Shapes
  PROVE  /\ client.pc \in {"idle", "configuring"} \cup InRequest
         /\ client.pc = "idle" => client = Idle
         /\ client.pc = "configuring" => client \in [pc : {"configuring"}, config : SUBSET Streams]
         /\ client.pc \in InRequest =>
              client \in [pc : InRequest, frame : Frames, bufs : SUBSET (Streams \X BufferOrNone),
                          cancel : BOOLEAN]
BY DEF Shapes, ClientCalls, Idle, InRequest

\* The HAL's result thread is idle, or holds a result of some frame.
LEMMA ResultKinds ==
  ASSUME Shapes
  PROVE  /\ result.pc \in {"idle", "deliver"} \cup Unerased
         /\ result.pc = "idle" => result = Idle
         /\ result.pc # "idle" =>
              result \in [pc : Unerased \cup {"deliver"}, frame : Frames, partial : Nat,
                          keys : SUBSET (Streams \X Frames), handles : SUBSET (Streams \X BufferIds),
                          boost : BOOLEAN, overridden : BOOLEAN]
BY DEF Shapes, HalResults, Idle, Unerased

LEMMA AskerKinds ==
  ASSUME Shapes
  PROVE  asker = Idle \/ asker \in [pc : {"import"}, stream : Streams, buf : BufferIds]
BY DEF Shapes, Asks

\* A device answers in at least one part.
LEMMA PartialCount ==
  ASSUME Shapes
  PROVE  NumPartial \in Nat \ {0} /\ NumPartial \in Partials /\ 0 \notin Partials
BY VariantsAssumption DEF Shapes, Traits, NumPartial, Partials

\* What importing and dropping buffers does to the caches.
LEMMA ImportKeeps ==
  ASSUME NEW caches, NEW bufs, NEW h
  PROVE  /\ h[1] \in DOMAIN caches /\ h[2] \in caches[h[1]]
              => h[1] \in DOMAIN Import(caches, bufs) /\ h[2] \in Import(caches, bufs)[h[1]]
         /\ h \in bufs /\ h[2] # NoBuffer
              => h[1] \in DOMAIN Import(caches, bufs) /\ h[2] \in Import(caches, bufs)[h[1]]
         /\ DOMAIN caches \subseteq DOMAIN Import(caches, bufs)
BY DEF Import

LEMMA ImportTyped ==
  ASSUME NEW caches, NEW bufs \in SUBSET (Streams \X BufferOrNone),
         DOMAIN caches \subseteq Streams,
         \A s \in DOMAIN caches : caches[s] \subseteq BufferIds
  PROVE  /\ DOMAIN Import(caches, bufs) \subseteq Streams
         /\ \A s \in DOMAIN Import(caches, bufs) : Import(caches, bufs)[s] \subseteq BufferIds
BY DEF Import, BufferOrNone

LEMMA InitIInv == Init => IInv
<1> SUFFICES ASSUME Init PROVE IInv
  OBVIOUS
<1> USE DEF Init, Idle
<1>1. TypeOK
  BY DEF TypeOK
<1>2. Shapes
  BY CameraSessionAssumption DEF Shapes, ClientCalls, HalResults, Asks
<1>3. Numbered
  BY DEF Numbered, InRequest, Busy
<1>4. BuffersExact
  BY DEF BuffersExact, OwedKeys, Returning
<1>5. Separate
  BY DEF Separate, Unsent, Unerased, OwedKeys
<1>6. MetadataAwaited
  BY DEF MetadataAwaited, InRequest
<1>7. CachesKept
  BY DEF CachesKept, Unsent
<1>8. Lending
  BY DEF Lending, Unsent, Unerased
<1> QED BY <1>1, <1>2, <1>3, <1>4, <1>5, <1>6, <1>7, <1>8 DEF IInv

---------------------------------------------------------------------------
(* The session opens and closes. *)

LEMMA OpenStep == ASSUME IInv, Open PROVE IInv'
<1> USE DEF IInv, Open
<1>1. TypeOK' /\ Shapes' /\ Numbered' /\ BuffersExact'
  BY DEF TypeOK, Shapes, Numbered, Given, BuffersExact, OwedKeys, Returning, Keys,
         NumPartial, Partials, BufferOrNone
<1>2. Separate' /\ MetadataAwaited' /\ CachesKept' /\ Lending'
  BY DEF Separate, OwedKeys, MetadataAwaited, Awaited, Arrived, LastPartial, NumPartial,
         CachesKept, Cached, Lending
<1> QED BY <1>1, <1>2

LEMMA CloseStep == ASSUME IInv, Close PROVE IInv'
<1> USE DEF IInv, Close, Idle
<1>1. TypeOK'
  BY DEF TypeOK
<1>2. Shapes'
  BY CameraSessionAssumption DEF Shapes, ClientCalls, HalResults, Asks, NumPartial, Partials
<1>3. Numbered'
  BY DEF Numbered, InRequest, Busy
<1>4. BuffersExact'
  BY DEF BuffersExact, OwedKeys, Returning
<1>5. Separate'
  BY DEF Separate, Unsent, Unerased, OwedKeys
<1>6. MetadataAwaited'
  BY DEF MetadataAwaited, InRequest
<1>7. CachesKept'
  BY DEF CachesKept, Unsent
<1>8. Lending'
  BY DEF Lending, Unsent, Unerased
<1> QED BY <1>1, <1>2, <1>3, <1>4, <1>5, <1>6, <1>7, <1>8

---------------------------------------------------------------------------
(* The framework's requests. *)

\* Nothing but the caches and the frame number changes before a request is recorded.
LEMMA ProcessOneCaptureRequestStep == ASSUME IInv, ProcessOneCaptureRequest PROVE IInv'
<1> USE DEF IInv
<1>1. PICK bufs \in RequestBuffers, gone \in SUBSET (Streams \X BufferIds),
           cancel \in BOOLEAN, settings \in BOOLEAN, valid \in BOOLEAN :
        /\ gone \cap (bufs \cup held) = {}
        /\ cancel => CancelsTrigger(settings)
        /\ LET caches == UpdateBufferCaches(mCirculatingBuffers, gone)
           IN  IF mFirstRequest /\ ~settings
                 THEN mCirculatingBuffers' = caches /\ UNCHANGED client
                 ELSE /\ mCirculatingBuffers' = Import(caches, bufs)
                      /\ client' = IF valid THEN [pc |-> "record", frame |-> nextFrame, bufs |-> bufs,
                                                  cancel |-> cancel]
                                            ELSE client
  BY DEF ProcessOneCaptureRequest
<1> DEFINE caches == UpdateBufferCaches(mCirculatingBuffers, gone)
<1>2. /\ client = Idle /\ inflightLock = "free" /\ nextFrame <= MaxFrames /\ nextFrame' = nextFrame + 1
      /\ UNCHANGED <<deviceVars, streamVars, mBufferIdMaps, held, inflight, inflightLock, threadVars,
                     owedVars, historyVars>>
  BY DEF ProcessOneCaptureRequest
<1>3. nextFrame \in Frames /\ nextFrame' \in 1..(MaxFrames + 1)
  BY <1>2, CameraSessionAssumption DEF Shapes, Frames
<1>4. /\ bufs \subseteq Streams \X BufferOrNone
      /\ \A b, c \in bufs : b[1] = c[1] => b = c
      /\ traits.bufMgr => \A b \in bufs : b[2] = NoBuffer
  <2>1. mStreamMap \subseteq Streams
    BY DEF TypeOK
  <2>2. CASE traits.bufMgr
    <3>1. PICK S \in SUBSET mStreamMap \ {{}} : bufs = {<<s, NoBuffer>> : s \in S}
      BY <2>2 DEF RequestBuffers
    <3> QED BY <2>1, <3>1 DEF BufferOrNone
  <2>3. CASE ~traits.bufMgr
    <3>1. PICK b \in UNION {[S -> BufferIds] : S \in SUBSET mStreamMap \ {{}}} :
            bufs = {<<s, b[s]>> : s \in DOMAIN b}
      BY <2>3 DEF RequestBuffers
    <3>2. \A s \in DOMAIN b : s \in mStreamMap /\ b[s] \in BufferIds
      OBVIOUS
    <3> QED BY <2>1, <2>3, <3>1, <3>2 DEF BufferOrNone
  <2> QED BY <2>2, <2>3
<1>5. /\ mCirculatingBuffers' \in {caches, Import(caches, bufs)}
      /\ client' = Idle \/ /\ mCirculatingBuffers' = Import(caches, bufs)
                           /\ client' = [pc |-> "record", frame |-> nextFrame, bufs |-> bufs, cancel |-> cancel]
  BY <1>1, <1>2
<1>6. /\ DOMAIN caches = DOMAIN mCirculatingBuffers
      /\ \A s \in DOMAIN caches : caches[s] \subseteq BufferIds
      /\ \A h \in held : h[1] \in DOMAIN caches /\ h[2] \in caches[h[1]]
  <2>1. \A h \in held : h = <<h[1], h[2]>>
    BY DEF TypeOK
  <2> QED BY <1>1, <2>1 DEF UpdateBufferCaches, TypeOK, CachesKept, Cached
<1>7. TypeOK'
  <2>1. /\ DOMAIN mCirculatingBuffers' \subseteq Streams
        /\ \A s \in DOMAIN mCirculatingBuffers' : mCirculatingBuffers'[s] \subseteq BufferIds
    <3> HIDE DEF caches
    <3>1. DOMAIN caches \subseteq Streams
      BY <1>6 DEF TypeOK
    <3> QED BY <1>4, <1>5, <1>6, <3>1, ImportTyped
  <2> QED BY <1>2, <2>1 DEF TypeOK
<1>8. Shapes'
  <2>1. client' \in ClientCalls
    BY <1>3, <1>4, <1>5 DEF ClientCalls, InRequest
  <2>2. client'.pc # "configuring" /\ client.pc # "configuring"
    BY <1>2, <1>5 DEF Idle
  <2> QED BY <1>2, <1>3, <2>1, <2>2 DEF Shapes, NumPartial, Partials
<1>9. Numbered'
  <2>1. client'.pc \in InRequest => client'.frame = nextFrame
    BY <1>5 DEF InRequest, Idle
  <2>2. /\ \A b \in owedBuffers : b[2] < nextFrame /\ b[2] \in Frames
        /\ \A m \in owedMetadata : m[1] < nextFrame /\ m[1] \in Frames
        /\ \A k \in leaked : k[2] < nextFrame /\ k[2] \in Frames
        /\ Busy(result) => result.frame < nextFrame /\ result.frame \in Frames
    BY ResultKinds DEF Shapes, Numbered, Given, Busy
  <2>3. nextFrame \in Nat /\ nextFrame' = nextFrame + 1 /\ Frames \subseteq Nat
    BY <1>2 DEF Shapes, Frames
  <2>4. \A f \in Frames : f < nextFrame => Given(f)'
    BY <2>1, <2>3 DEF Given, Unsent, InRequest
  <2>5. /\ \A b \in owedBuffers : Given(b[2])'
        /\ \A m \in owedMetadata : Given(m[1])'
        /\ \A k \in leaked : Given(k[2])'
        /\ Busy(result) => Given(result.frame)'
    BY <1>2, <2>2, <2>4
  <2>6. nextFrame' - 1 = nextFrame
    BY <2>3
  <2> QED BY <1>2, <2>1, <2>5, <2>6 DEF Numbered, Busy
<1>10. client'.pc # "submit" /\ client.pc # "submit" /\ client'.pc # "configuring"
  BY <1>2, <1>5 DEF Idle
<1>11. BuffersExact'
  BY <1>2, <1>10 DEF BuffersExact, OwedKeys, Returning
<1>12. Separate'
  <2>1. client'.pc \in Unsent => client'.bufs = bufs
    BY <1>5 DEF Unsent, Idle
  <2> QED BY <1>2, <1>4, <2>1 DEF Separate, OwedKeys
<1>13. MetadataAwaited'
  <2>1. client'.pc \in InRequest /\ client'.cancel => traits.version32
    BY <1>1, <1>5 DEF InRequest, Idle, CancelsTrigger
  <2> QED BY <1>2, <1>10, <2>1 DEF MetadataAwaited, Awaited, Arrived, LastPartial, NumPartial
<1>14. CachesKept'
  <2> HIDE DEF caches
  <2>1. \A h \in held : Cached(h)'
    BY <1>5, <1>6, ImportKeeps DEF Cached
  <2>2. client'.pc \in Unsent => \A b \in client'.bufs : b[2] # NoBuffer => Cached(b)'
    BY <1>5, ImportKeeps DEF Cached, Unsent, Idle
  <2>3. DOMAIN caches \subseteq DOMAIN mCirculatingBuffers'
    BY <1>5, ImportKeeps
  <2>4. mStreamMap \subseteq DOMAIN mCirculatingBuffers
    BY <1>2 DEF CachesKept, Idle
  <2> QED BY <1>2, <1>6, <1>10, <2>1, <2>2, <2>3, <2>4 DEF CachesKept
<1>15. Lending'
  <2>1. client'.pc \in Unsent => client'.bufs = bufs
    BY <1>5 DEF Unsent, Idle
  <2> QED BY <1>2, <1>4, <2>1 DEF Lending
<1> QED BY <1>7, <1>8, <1>9, <1>11, <1>12, <1>13, <1>14, <1>15

\* The request's keys are new: the HAL knows nothing of its frame.
LEMMA UnsentKeysNew ==
  ASSUME IInv, client.pc \in Unsent
  PROVE  /\ Keys(client) \cap (OwedKeys \cup leaked) = {}
         /\ Busy(result) => Keys(client) \cap result.keys = {}
         /\ ~Awaited(client.frame)
         /\ Busy(result) => client.frame # result.frame
         /\ Keys(client) \subseteq Streams \X Frames
<1> USE DEF IInv, Numbered, Given
<1>1. client.frame \in Frames /\ client.bufs \subseteq Streams \X BufferOrNone
  BY ClientKinds DEF Unsent, InRequest
<1>2. \A k \in Keys(client) : k[2] = client.frame
  BY DEF Keys
<1>3. \A k \in OwedKeys \cup leaked : k[2] # client.frame
  BY DEF OwedKeys
<1>4. ~Awaited(client.frame)
  BY DEF Awaited
<1>5. Keys(client) \subseteq Streams \X Frames
  BY <1>1 DEF Keys
<1> QED BY <1>2, <1>3, <1>4, <1>5

LEMMA RecordRequestStep == ASSUME IInv, RecordRequest PROVE IInv'
<1> USE DEF IInv, RecordRequest
<1>1. /\ client \in [pc : InRequest, frame : Frames, bufs : SUBSET (Streams \X BufferOrNone),
                     cancel : BOOLEAN]
      /\ client' = [pc |-> "submit", frame |-> client.frame, bufs |-> client.bufs, cancel |-> client.cancel]
      /\ client.pc = "record" /\ inflightLock = "free"
  BY ClientKinds DEF InRequest
<1>2. Keys(client)' = Keys(client)
  BY <1>1 DEF Keys
<1>3. client.pc \in Unsent
  BY <1>1 DEF Unsent
<1>4. TypeOK'
  BY <1>1, <1>3, UnsentKeysNew DEF TypeOK
<1>5. Shapes'
  BY <1>1 DEF Shapes, ClientCalls, InRequest, NumPartial, Partials
<1>6. Numbered'
  BY <1>1 DEF Numbered, Given, Unsent, InRequest
<1>7. Returning' = Returning
  BY <1>3, UnsentKeysNew DEF Returning, Busy
<1>8. BuffersExact'
  BY <1>1, <1>2, <1>7 DEF BuffersExact, OwedKeys
<1>9. Separate'
  <2>1. result.pc = "validate" => result.keys \cap Keys(client) = {}
    BY <1>3, UnsentKeysNew DEF Busy
  <2> QED BY <1>1, <1>3, <2>1 DEF Separate, OwedKeys, Unsent
<1>10. MetadataAwaited'
  BY <1>1 DEF MetadataAwaited, Awaited, Arrived, LastPartial, NumPartial, InRequest
<1>11. CachesKept'
  BY <1>1, <1>3 DEF CachesKept, Cached, Unsent
<1>12. Lending'
  BY <1>1, <1>3 DEF Lending, Unsent
<1> QED BY <1>4, <1>5, <1>6, <1>8, <1>9, <1>10, <1>11, <1>12

\* The records of a refused request are left, under a frame the HAL never sees.
LEMMA PhysicalSettingsRefusedStep == ASSUME IInv, PhysicalSettingsRefused PROVE IInv'
<1> USE DEF IInv, PhysicalSettingsRefused
<1>1. /\ client.pc \in Unsent /\ client.pc = "submit"
      /\ client' = Idle /\ leaked' = leaked \cup Keys(client)
      /\ ~client.cancel
  BY DEF Unsent, MetadataAwaited, InRequest
<1>2. client'.pc = "idle"
  BY <1>1 DEF Idle
<1>3. TypeOK' /\ Shapes'
  BY <1>1, <1>2, UnsentKeysNew DEF TypeOK, Shapes, ClientCalls, NumPartial, Partials
<1>4. Numbered'
  <2>1. \A k \in Keys(client) : k[2] = client.frame
    BY DEF Keys
  <2>2. client.frame < nextFrame
    BY <1>1 DEF Numbered, InRequest, Shapes
  <2> QED BY <1>1, <1>2, <2>1, <2>2 DEF Numbered, Given, Unsent, InRequest
<1>5. BuffersExact'
  BY <1>1, <1>2 DEF BuffersExact, OwedKeys, Returning
<1>6. Separate'
  BY <1>1, <1>2, UnsentKeysNew DEF Separate, OwedKeys, Unsent, Unerased, Busy
<1>7. MetadataAwaited'
  BY <1>1, <1>2 DEF MetadataAwaited, Awaited, Arrived, LastPartial, NumPartial, InRequest
<1>8. CachesKept' /\ Lending'
  BY <1>1, <1>2 DEF CachesKept, Cached, Lending, Unsent
<1> QED BY <1>3, <1>4, <1>5, <1>6, <1>7, <1>8

\* The records pass from the call to what the HAL owes.
LEMMA HalTakesRequestStep == ASSUME IInv, HalTakesRequest PROVE IInv'
<1> USE DEF IInv, HalTakesRequest
<1> DEFINE owed == {<<b[1], client.frame, b[2]>> : b \in client.bufs}
<1>1. /\ client \in [pc : InRequest, frame : Frames, bufs : SUBSET (Streams \X BufferOrNone),
                     cancel : BOOLEAN]
      /\ client' = [pc |-> "taken", frame |-> client.frame, bufs |-> client.bufs, cancel |-> client.cancel]
      /\ client.pc = "submit" /\ client.pc \in Unsent /\ client.pc \in InRequest
      /\ client'.pc \notin Unsent \cup {"submit", "configuring"} /\ client'.pc \in InRequest
  BY ClientKinds DEF InRequest, Unsent
<1>2. /\ owedMetadata' = owedMetadata \cup ({client.frame} \X Partials)
      /\ owedBuffers' = owedBuffers \cup owed
      /\ held' = held \cup {b \in client.bufs : b[2] # NoBuffer}
  OBVIOUS
<1>3. OwedKeys' = OwedKeys \cup Keys(client)
  <2>1. \A c \in client.bufs : LET b == <<c[1], client.frame, c[2]>>
                               IN  b \in owed /\ <<b[1], b[2]>> = <<c[1], client.frame>>
    OBVIOUS
  <2>2. \A b \in owed : \E c \in client.bufs : <<b[1], b[2]>> = <<c[1], client.frame>>
    OBVIOUS
  <2>3. Keys(client) \subseteq {<<b[1], b[2]>> : b \in owed}
    BY <2>1 DEF Keys
  <2>4. {<<b[1], b[2]>> : b \in owed} \subseteq Keys(client)
    BY <2>2 DEF Keys
  <2>5. OwedKeys' = OwedKeys \cup {<<b[1], b[2]>> : b \in owed}
    BY <1>2 DEF OwedKeys
  <2> QED BY <2>3, <2>4, <2>5
<1>4. owed \subseteq Streams \X Frames \X BufferOrNone
  BY <1>1
<1>5. TypeOK'
  <2>1. held' \subseteq Streams \X BufferIds
    BY <1>1, <1>2 DEF TypeOK, BufferOrNone
  <2> QED BY <2>1 DEF TypeOK
<1>6. Shapes'
  BY <1>1, <1>2, <1>4 DEF Shapes, ClientCalls, NumPartial, Partials
<1>7. Numbered'
  <2>1. client.frame < nextFrame
    BY <1>1 DEF Numbered, Shapes
  <2>2. \A f : f < nextFrame => Given(f)'
    BY <1>1 DEF Given
  <2>3. (\A b \in owed : b[2] = client.frame) /\ \A m \in {client.frame} \X Partials : m[1] = client.frame
    OBVIOUS
  <2> QED BY <1>1, <1>2, <2>1, <2>2, <2>3 DEF Numbered, Given, Busy
<1>8. BuffersExact'
  BY <1>1, <1>3 DEF BuffersExact, Returning
<1>9. Separate'
  <2>1. \A b, c \in owed : b[1] = c[1] => b = c
    BY <1>1 DEF Separate
  <2>2. \A b \in owed : b[2] = client.frame
    OBVIOUS
  <2>3. \A b \in owedBuffers : b[2] # client.frame
    BY <1>1 DEF Numbered, Given
  <2>4. \A b, c \in owedBuffers' : b[1] = c[1] /\ b[2] = c[2] => b = c
    BY <1>2, <2>1, <2>2, <2>3 DEF Separate
  <2>5. leaked \cap Keys(client) = {} /\ (result.pc \in Unerased => result.keys \cap Keys(client) = {})
    BY <1>1, UnsentKeysNew DEF Busy, Unerased
  <2> QED BY <1>1, <1>3, <2>4, <2>5 DEF Separate
<1>10. MetadataAwaited'
  <2>1. NumPartial' = NumPartial /\ NumPartial \in Partials
    BY PartialCount DEF NumPartial
  <2>2. Awaited(client.frame)' /\ \A f : Awaited(f) => Awaited(f)'
    BY <1>2, <2>1 DEF Awaited
  <2>3. \A m \in owedMetadata' : m \in owedMetadata \/ m[1] = client.frame
    BY <1>2
  <2>4. \A f : Arrived(f)' <=> Arrived(f)
    BY DEF Arrived, LastPartial, NumPartial
  <2>5. LastPartial' = LastPartial
    BY DEF LastPartial, NumPartial
  <2> QED BY <1>1, <2>2, <2>3, <2>4, <2>5 DEF MetadataAwaited
<1>11. CachesKept'
  BY <1>1, <1>2 DEF CachesKept, Cached
<1>12. Lending'
  <2>1. CASE traits.bufMgr
    BY <1>1, <1>2, <2>1 DEF Lending
  <2>2. CASE ~traits.bufMgr
    <3>1. \A h \in held' : h \in held \/ \E b \in owed : h = <<b[1], b[3]>>
      <4>1. SUFFICES ASSUME NEW h \in client.bufs PROVE \E b \in owed : h = <<b[1], b[3]>>
        BY <1>2
      <4>2. h = <<h[1], h[2]>> /\ <<h[1], client.frame, h[2]>> \in owed
        BY <1>1
      <4> QED BY <4>2
    <3> QED BY <1>1, <1>2, <2>2, <3>1 DEF Lending
  <2> QED BY <2>1, <2>2
<1> QED BY <1>5, <1>6, <1>7, <1>8, <1>9, <1>10, <1>11, <1>12

LEMMA RequestReturnsStep == ASSUME IInv, RequestReturns PROVE IInv'
<1> USE DEF IInv, RequestReturns
<1>1. client'.pc = "idle" /\ client' = Idle /\ client.pc \notin Unsent \cup {"configuring", "submit"}
  BY DEF Idle, Unsent
<1>2. TypeOK' /\ Shapes' /\ Numbered' /\ BuffersExact'
  BY <1>1 DEF TypeOK, Shapes, ClientCalls, NumPartial, Partials, Numbered, Given, Unsent, InRequest,
              BuffersExact, OwedKeys, Returning
<1>3. Separate' /\ MetadataAwaited' /\ CachesKept' /\ Lending'
  BY <1>1 DEF Separate, OwedKeys, MetadataAwaited, Awaited, Arrived, LastPartial, NumPartial, InRequest,
              CachesKept, Cached, Lending, Unsent
<1> QED BY <1>2, <1>3

\* A refused request takes its records back, and no others.
LEMMA HalRefusesRequestStep == ASSUME IInv, HalRefusesRequest PROVE IInv'
<1> USE DEF IInv, HalRefusesRequest
<1>1. /\ client.pc \in Unsent /\ client.pc = "submit"
      /\ client' = Idle
      /\ mInflightBuffers' = mInflightBuffers \ Keys(client)
  BY DEF Unsent
<1>2. client'.pc = "idle"
  BY <1>1 DEF Idle
<1>3. TypeOK' /\ Shapes'
  BY <1>1, <1>2 DEF TypeOK, Shapes, ClientCalls, NumPartial, Partials, OverrideDropped
<1>4. Numbered'
  BY <1>1, <1>2 DEF Numbered, Given, Unsent, InRequest
<1>5. result.pc \in Unerased => result.keys \cap Keys(client) = {}
  BY <1>1, UnsentKeysNew DEF Busy, Unerased
<1>6. BuffersExact'
  <2>1. Returning' = Returning
    BY <1>1, <1>5 DEF Returning, Unerased
  <2>2. Returning \cap Keys(client) = {}
    BY <1>5 DEF Returning, Unerased
  <2> QED BY <1>1, <1>2, <2>1, <2>2, UnsentKeysNew DEF BuffersExact, OwedKeys
<1>7. Separate'
  BY <1>1, <1>2, <1>5 DEF Separate, OwedKeys, Unsent, Unerased
<1>8. MetadataAwaited'
  BY <1>1, <1>2 DEF MetadataAwaited, Awaited, Arrived, LastPartial, NumPartial, InRequest, OverrideDropped
<1>9. CachesKept' /\ Lending'
  BY <1>1, <1>2 DEF CachesKept, Cached, Lending, Unsent
<1> QED BY <1>3, <1>4, <1>6, <1>7, <1>8, <1>9

\* Nothing the invariant speaks of changes in a flush.
LEMMA FlushStep == ASSUME IInv, SignalStreamFlush \/ FlushSignalled PROVE IInv'
<1> USE DEF IInv, SignalStreamFlush, FlushSignalled
<1>1. TypeOK' /\ Shapes' /\ Numbered' /\ BuffersExact'
  BY DEF TypeOK, Shapes, Numbered, Given, BuffersExact, OwedKeys, Returning, Keys,
         NumPartial, Partials
<1>2. Separate' /\ MetadataAwaited' /\ CachesKept' /\ Lending'
  BY DEF Separate, OwedKeys, MetadataAwaited, Awaited, Arrived, LastPartial, NumPartial,
         CachesKept, Cached, Lending
<1> QED BY <1>1, <1>2

---------------------------------------------------------------------------
(* The configuration. *)

\* Caches may be added or lost without the buffers of the others.
LEMMA CachesChanged ==
  ASSUME NEW f, NEW S, NEW h
  PROVE  /\ h[1] \in DOMAIN f /\ h[2] \in f[h[1]]
              => /\ h[1] \in DOMAIN WithCaches(f, S) /\ h[2] \in WithCaches(f, S)[h[1]]
                 /\ h[1] \notin S => h[1] \in DOMAIN Without(f, S) /\ h[2] \in Without(f, S)[h[1]]
BY DEF WithCaches, Without, Restrict

LEMMA CacheDomains ==
  ASSUME NEW f, NEW S
  PROVE  DOMAIN WithCaches(f, S) = DOMAIN f \cup S /\ DOMAIN Without(f, S) = DOMAIN f \ S
BY DEF WithCaches, Without, Restrict

LEMMA CachesChangedTyped ==
  ASSUME NEW f, NEW S, DOMAIN f \subseteq Streams, \A s \in DOMAIN f : f[s] \subseteq BufferIds
  PROVE  /\ S \subseteq Streams => DOMAIN WithCaches(f, S) \subseteq Streams
         /\ \A s \in DOMAIN WithCaches(f, S) : WithCaches(f, S)[s] \subseteq BufferIds
         /\ DOMAIN Without(f, S) \subseteq Streams
         /\ \A s \in DOMAIN Without(f, S) : Without(f, S)[s] \subseteq BufferIds
BY DEF WithCaches, Without, Restrict

\* The caches and the framework's call are all a configuration changes: enough for
\* the other parts of the invariant.
LEMMA ConfigurationStep ==
  ASSUME IInv,
         {client.pc, client'.pc} \subseteq {"idle", "configuring"},
         client' \in ClientCalls, mStreamMap' \subseteq Streams,
         inflightLock' \in {"free", "configure"},
         inflightLock' = "configure" <=> client'.pc = "configuring",
         DOMAIN mCirculatingBuffers' \subseteq Streams,
         \A s \in DOMAIN mCirculatingBuffers' : mCirculatingBuffers'[s] \subseteq BufferIds,
         UNCHANGED <<deviceVars, mBufferIdMaps, held, inflight, nextFrame, threadVars, owedVars,
                     historyVars>>,
         CachesKept'
  PROVE  IInv'
<1> USE DEF IInv
<1>1. TypeOK' /\ Shapes' /\ Numbered' /\ BuffersExact'
  BY DEF TypeOK, Shapes, Numbered, Given, Unsent, InRequest, BuffersExact, OwedKeys, Returning,
         NumPartial, Partials
<1>2. Separate' /\ MetadataAwaited' /\ CachesKept' /\ Lending'
  BY DEF Separate, OwedKeys, MetadataAwaited, Awaited, Arrived, LastPartial, NumPartial, Lending,
         Unsent, InRequest
<1> QED BY <1>1, <1>2

\* No buffer of a stream that is about to go is in the HAL's hands.
LEMMA NothingLent ==
  ASSUME IInv, NothingInflight, client = Idle, NEW S, ~Lent(S)
  PROVE  \A h \in held : h[1] \notin S
<1>1. CASE traits.bufMgr
  BY <1>1 DEF Lent
<1>2. CASE ~traits.bufMgr
  <2>1. mInflightBuffers = {} /\ OwedKeys = {} /\ Returning = {}
    BY DEF IInv, NothingInflight, BuffersExact
  <2>2. owedBuffers = {}
    BY <2>1 DEF OwedKeys
  <2>3. result.pc \in Unerased => result.handles = {}
    <3>1. result.pc \in {"metadata", "erase"} => result.keys = {}
      BY <2>1 DEF Returning
    <3>2. result.pc = "validate" => result.keys = {} \/ result.handles = {}
      <4>1. result.pc = "validate" => result.keys \cap mInflightBuffers = {}
        BY <2>1
      <4> QED BY <2>1, <4>1 DEF IInv, Separate
    <3> QED BY <1>2, <3>1, <3>2 DEF Unerased, IInv, Lending
  <2> QED BY <1>2, <2>2, <2>3 DEF IInv, Lending
<1> QED BY <1>1, <1>2

LEMMA ConfigureStreamsStep == ASSUME IInv, ConfigureStreams PROVE IInv'
<1>1. PICK config \in SUBSET Streams \ {{}} :
        /\ ~Lent(mStreamMap \ config)
        /\ \/ /\ mStreamMap' = mStreamMap \cup config
              /\ LET caches == WithCaches(mCirculatingBuffers, config \ mStreamMap)
                 IN  mCirculatingBuffers' =
                       IF traits.freeBufEarly THEN Without(caches, mStreamMap \ config) ELSE caches
              /\ client' = [pc |-> "configuring", config |-> config]
              /\ inflightLock' = "configure"
           \/ \E changed \in config \cap mStreamMap, added \in SUBSET (config \ mStreamMap) :
                /\ mStreamMap' = mStreamMap \cup added
                /\ mCirculatingBuffers' = WithCaches(mCirculatingBuffers, added)
                /\ UNCHANGED <<client, inflightLock>>
  BY DEF ConfigureStreams
<1>2. /\ client = Idle /\ client.pc = "idle" /\ inflightLock = "free" /\ NothingInflight
      /\ UNCHANGED <<deviceVars, mBufferIdMaps, held, inflight, nextFrame, threadVars, owedVars,
                     historyVars>>
  BY DEF ConfigureStreams, Idle
<1>3. \A h \in held : Cached(h) /\ h[1] \notin mStreamMap \ config
  BY <1>1, <1>2, NothingLent DEF IInv, CachesKept
<1>4. /\ mStreamMap \subseteq DOMAIN mCirculatingBuffers /\ mStreamMap \subseteq Streams
      /\ DOMAIN mCirculatingBuffers \subseteq Streams
      /\ \A s \in DOMAIN mCirculatingBuffers : mCirculatingBuffers[s] \subseteq BufferIds
  BY <1>2 DEF IInv, CachesKept, TypeOK
<1> DEFINE new    == config \ mStreamMap
           unused == mStreamMap \ config
           caches == WithCaches(mCirculatingBuffers, new)
<1>5. /\ DOMAIN caches \subseteq Streams /\ \A s \in DOMAIN caches : caches[s] \subseteq BufferIds
      /\ DOMAIN caches = DOMAIN mCirculatingBuffers \cup new
      /\ \A h \in held : h[1] \in DOMAIN caches /\ h[2] \in caches[h[1]]
  BY <1>3, <1>4, CachesChanged, CacheDomains, CachesChangedTyped DEF Cached
<1>6. CASE /\ mStreamMap' = mStreamMap \cup config
           /\ mCirculatingBuffers' = IF traits.freeBufEarly THEN Without(caches, unused) ELSE caches
           /\ client' = [pc |-> "configuring", config |-> config]
           /\ inflightLock' = "configure"
  <2> HIDE DEF caches, new, unused
  <2>1. /\ DOMAIN mCirculatingBuffers' \subseteq Streams
        /\ \A s \in DOMAIN mCirculatingBuffers' : mCirculatingBuffers'[s] \subseteq BufferIds
    BY <1>5, <1>6, CachesChangedTyped
  <2>2. \A h \in held : Cached(h)'
    BY <1>3, <1>5, <1>6, CachesChanged DEF Cached, unused
  <2>3. DOMAIN Without(caches, unused) = DOMAIN caches \ unused
    BY CacheDomains
  <2>4. CachesKept'
    BY <1>2, <1>3, <1>4, <1>5, <1>6, <2>2, <2>3 DEF CachesKept, Unsent, new, unused
  <2>5. client' \in ClientCalls /\ client'.pc = "configuring"
    BY <1>6 DEF ClientCalls
  <2> QED BY <1>2, <1>4, <1>6, <2>1, <2>4, <2>5, ConfigurationStep
<1>7. ASSUME NEW added \in SUBSET (config \ mStreamMap),
             mStreamMap' = mStreamMap \cup added,
             mCirculatingBuffers' = WithCaches(mCirculatingBuffers, added),
             UNCHANGED <<client, inflightLock>>
      PROVE  IInv'
  <2>1. /\ DOMAIN mCirculatingBuffers' \subseteq Streams
        /\ \A s \in DOMAIN mCirculatingBuffers' : mCirculatingBuffers'[s] \subseteq BufferIds
    BY <1>4, <1>7, CachesChangedTyped
  <2>2. \A h \in held : Cached(h)'
    BY <1>3, <1>7, CachesChanged DEF Cached
  <2>3. DOMAIN mCirculatingBuffers' = DOMAIN mCirculatingBuffers \cup added
    BY <1>7, CacheDomains
  <2>4. CachesKept'
    BY <1>2, <1>4, <1>7, <2>2, <2>3 DEF CachesKept, Unsent
  <2> QED BY <1>2, <1>4, <1>7, <2>1, <2>4, ConfigurationStep DEF IInv, Shapes
<1> QED BY <1>1, <1>6, <1>7

LEMMA HalConfiguresStep == ASSUME IInv, HalConfigures PROVE IInv'
<1> USE DEF HalConfigures
<1>1. /\ client \in [pc : {"configuring"}, config : SUBSET Streams] /\ client.pc = "configuring"
      /\ client' = Idle /\ client'.pc = "idle" /\ client' \in ClientCalls /\ inflightLock' = "free"
  BY ClientKinds DEF IInv, Idle, ClientCalls
<1>2. /\ client.config \subseteq mStreamMap \cap DOMAIN mCirculatingBuffers
      /\ traits.freeBufEarly \/ mStreamMap \subseteq DOMAIN mCirculatingBuffers
      /\ \A h \in held : Cached(h) /\ h[1] \notin mStreamMap \ client.config
      /\ DOMAIN mCirculatingBuffers \subseteq Streams
      /\ \A s \in DOMAIN mCirculatingBuffers : mCirculatingBuffers[s] \subseteq BufferIds
  BY <1>1 DEF IInv, CachesKept, TypeOK
<1>3. /\ DOMAIN mCirculatingBuffers' \subseteq Streams
      /\ \A s \in DOMAIN mCirculatingBuffers' : mCirculatingBuffers'[s] \subseteq BufferIds
  BY <1>2, CachesChangedTyped
<1> DEFINE unused == mStreamMap \ client.config
<1>4. /\ \A h \in held : Cached(h)'
      /\ mStreamMap' \subseteq DOMAIN mCirculatingBuffers'
  <2>1. CASE traits.freeBufEarly
    <3>1. mCirculatingBuffers' = mCirculatingBuffers
      BY <2>1
    <3>2. \A h \in held : Cached(h)'
      BY <1>2, <3>1 DEF Cached
    <3> QED BY <1>2, <3>1, <3>2
  <2>2. CASE ~traits.freeBufEarly
    <3>1. mCirculatingBuffers' = Without(mCirculatingBuffers, unused)
      BY <2>2
    <3>2. \A h \in held : Cached(h)'
      <4>1. SUFFICES ASSUME NEW h \in held PROVE Cached(h)'
        OBVIOUS
      <4>2. h[1] \notin unused /\ h[1] \in DOMAIN mCirculatingBuffers /\ h[2] \in mCirculatingBuffers[h[1]]
        BY <1>2 DEF Cached
      <4> HIDE DEF unused
      <4> QED BY <3>1, <4>2, CachesChanged DEF Cached
    <3> HIDE DEF unused
    <3>3. DOMAIN mCirculatingBuffers' = DOMAIN mCirculatingBuffers \ unused
      BY <3>1, CacheDomains
    <3> QED BY <1>2, <3>2, <3>3 DEF unused
  <2> QED BY <2>1, <2>2
<1>5. CachesKept'
  BY <1>1, <1>4 DEF CachesKept, Unsent
<1> QED BY <1>1, <1>3, <1>5, ConfigurationStep

LEMMA HalRefusesConfigurationStep == ASSUME IInv, HalRefusesConfiguration PROVE IInv'
<1> USE DEF HalRefusesConfiguration
<1>1. /\ client \in [pc : {"configuring"}, config : SUBSET Streams] /\ client.pc = "configuring"
      /\ client' = Idle /\ client'.pc = "idle" /\ client' \in ClientCalls /\ inflightLock' = "free"
  BY ClientKinds DEF IInv, Idle, ClientCalls
<1>2. /\ client.config \subseteq mStreamMap \cap DOMAIN mCirculatingBuffers
      /\ traits.freeBufEarly \/ mStreamMap \subseteq DOMAIN mCirculatingBuffers
      /\ \A h \in held : Cached(h)
      /\ DOMAIN mCirculatingBuffers \subseteq Streams /\ mStreamMap \subseteq Streams
      /\ \A s \in DOMAIN mCirculatingBuffers : mCirculatingBuffers[s] \subseteq BufferIds
  BY <1>1 DEF IInv, CachesKept, TypeOK
<1>3. /\ DOMAIN mCirculatingBuffers' \subseteq Streams
      /\ \A s \in DOMAIN mCirculatingBuffers' : mCirculatingBuffers'[s] \subseteq BufferIds
  BY <1>2, CachesChangedTyped
<1> DEFINE unused == mStreamMap \ client.config
<1>4. /\ \A h \in held : Cached(h)'
      /\ mStreamMap' \subseteq DOMAIN mCirculatingBuffers'
  <2>1. CASE ~traits.freeBufEarly
    <3>1. mCirculatingBuffers' = mCirculatingBuffers
      BY <2>1
    <3>2. \A h \in held : Cached(h)'
      BY <1>2, <3>1 DEF Cached
    <3> QED BY <1>2, <2>1, <3>1, <3>2
  <2>2. CASE traits.freeBufEarly
    <3>1. mCirculatingBuffers' = WithCaches(mCirculatingBuffers, unused)
      BY <2>2
    <3> HIDE DEF unused
    <3>2. \A h \in held : Cached(h)'
      BY <1>2, <3>1, CachesChanged DEF Cached
    <3>3. DOMAIN mCirculatingBuffers' = DOMAIN mCirculatingBuffers \cup unused
      BY <3>1, CacheDomains
    <3> QED BY <1>2, <3>2, <3>3 DEF unused
  <2> QED BY <2>1, <2>2
<1>5. CachesKept'
  BY <1>1, <1>4 DEF CachesKept, Unsent
<1> QED BY <1>1, <1>2, <1>3, <1>5, ConfigurationStep

---------------------------------------------------------------------------
(* The HAL's answers. *)

\* What is owed moves into the result, which was recorded.
LEMMA ResultArrivesStep == ASSUME IInv, ResultArrives PROVE IInv'
<1>1. PICK f \in Frames, partial \in 0..NumPartial, bufs \in SUBSET owedBuffers, boost \in BOOLEAN :
        /\ partial > 0 \/ bufs # {}
        /\ \A b \in bufs : b[2] = f
        /\ partial > 0 => /\ <<f, partial>> \in owedMetadata
                          /\ \A p \in Partials : p < partial => <<f, p>> \notin owedMetadata
        /\ boost => partial > 0 /\ traits.deriveBoost
        /\ owedMetadata' = owedMetadata \ {<<f, partial>>}
        /\ owedBuffers' = owedBuffers \ bufs
        /\ \E handles \in SUBSET held :
             /\ IF traits.bufMgr
                  THEN /\ \A h \in handles : \E b \in bufs : b[1] = h[1]
                       /\ \A h, i \in handles : h[1] = i[1] => h = i
                  ELSE handles = {<<b[1], b[3]>> : b \in bufs}
             /\ result' = [pc |-> "validate", frame |-> f, partial |-> partial,
                           keys |-> {<<b[1], f>> : b \in bufs}, handles |-> handles, boost |-> boost,
                           overridden |-> FALSE]
  BY Zenon DEF ResultArrives
<1>1a. PICK handles \in SUBSET held :
        /\ ~traits.bufMgr => handles = {<<b[1], b[3]>> : b \in bufs}
        /\ result' = [pc |-> "validate", frame |-> f, partial |-> partial,
                      keys |-> {<<b[1], f>> : b \in bufs}, handles |-> handles, boost |-> boost,
                      overridden |-> FALSE]
  BY <1>1
<1> DEFINE keys == {<<b[1], f>> : b \in bufs}
<1>2. /\ result = Idle /\ result.pc = "idle"
      /\ UNCHANGED <<deviceVars, streamVars, bufferVars, inflight, inflightLock, client, nextFrame, asker,
                     flusher, historyVars>>
  BY DEF ResultArrives, Idle
<1>3. /\ NumPartial \in Nat \ {0} /\ NumPartial \in Partials /\ 0 \notin Partials
      /\ partial \in Nat
  BY PartialCount DEF IInv
<1>4. /\ owedBuffers \subseteq Streams \X Frames \X BufferOrNone
      /\ held \subseteq Streams \X BufferIds /\ owedMetadata \subseteq Frames \X Partials
  BY DEF IInv, Shapes, TypeOK
<1>5. /\ keys \subseteq Streams \X Frames /\ \A k \in keys : k[2] = f
      /\ keys \subseteq OwedKeys
  <2>1. \A b \in bufs : b[1] \in Streams /\ <<b[1], f>> = <<b[1], b[2]>> /\ b \in owedBuffers
    BY <1>1, <1>1a, <1>4
  <2>2. \A k \in keys : \E b \in bufs : k = <<b[1], f>>
    OBVIOUS
  <2> QED BY <1>1, <1>1a, <2>1, <2>2 DEF OwedKeys
<1>6. Given(f)
  <2>1. CASE partial > 0
    BY <1>1, <1>1a, <2>1 DEF IInv, Numbered
  <2>2. CASE bufs # {}
    BY <1>1, <1>1a, <2>2 DEF IInv, Numbered
  <2> QED BY <1>1, <1>1a, <2>1, <2>2
<1>7. OwedKeys = OwedKeys' \cup keys /\ OwedKeys' \cap keys = {}
  <2>1. \A b \in owedBuffers : b \in bufs => <<b[1], b[2]>> \in keys
    BY <1>1, <1>1a
  <2>2. \A b \in owedBuffers, c \in bufs : <<b[1], b[2]>> = <<c[1], f>> => b = c
    <3> SUFFICES ASSUME NEW b \in owedBuffers, NEW c \in bufs, <<b[1], b[2]>> = <<c[1], f>>
                 PROVE  b = c
      OBVIOUS
    <3>1. b[1] = c[1] /\ b[2] = c[2] /\ c \in owedBuffers
      BY <1>1, <1>1a
    <3> QED BY <3>1 DEF IInv, Separate
  <2>3. OwedKeys' = {<<b[1], b[2]>> : b \in owedBuffers \ bufs}
    BY <1>1, <1>1a DEF OwedKeys
  <2> QED BY <1>5, <2>1, <2>2, <2>3 DEF OwedKeys
<1> HIDE DEF keys
<1>8. result'.pc = "validate" /\ result'.keys = keys /\ result'.frame = f
  BY <1>1, <1>1a DEF keys
<1>9. TypeOK'
  BY <1>2 DEF IInv, TypeOK
<1>10. Shapes'
  <2>1. result' \in HalResults
    BY <1>1, <1>1a, <1>3, <1>4, <1>5 DEF HalResults, Unerased, keys
  <2> QED BY <1>1, <1>1a, <1>2, <2>1 DEF IInv, Shapes, NumPartial, Partials
<1>11. Numbered'
  BY <1>1, <1>1a, <1>2, <1>5, <1>6, <1>8 DEF IInv, Numbered, Given, Busy
<1>12. keys \subseteq mInflightBuffers
  BY <1>5 DEF IInv, BuffersExact
<1>13. BuffersExact'
  BY <1>2, <1>7, <1>8, <1>12 DEF IInv, BuffersExact, Returning, Keys
<1>14. Separate'
  BY <1>1, <1>1a, <1>2, <1>5, <1>7, <1>8, <1>12 DEF IInv, Separate, OwedKeys
<1>15. MetadataAwaited'
  <2>1. NumPartial' = NumPartial /\ LastPartial' = (partial = NumPartial) /\ result'.partial = partial
    BY <1>1, <1>1a, <1>2 DEF NumPartial, LastPartial
  <2>2. \A g : Awaited(g) => Awaited(g)' \/ (partial = NumPartial /\ g = f)
    BY <1>1, <1>1a, <2>1 DEF Awaited
  <2>3. \A g : g = f /\ partial = NumPartial => Arrived(g)'
    BY <1>8, <2>1 DEF Arrived
  <2>4. partial # 0 => Awaited(f)
    BY <1>1, <1>1a, <1>3 DEF IInv, MetadataAwaited
  <2>5. \A m \in owedMetadata' : Awaited(m[1])'
    <3> SUFFICES ASSUME NEW m \in owedMetadata' PROVE Awaited(m[1])'
      OBVIOUS
    <3>1. m \in owedMetadata /\ m # <<f, partial>> /\ m[2] \in Partials /\ m = <<m[1], m[2]>>
      BY <1>1, <1>1a, <1>4
    <3>2. Awaited(m[1])
      BY <3>1 DEF IInv, MetadataAwaited
    <3>3. ~(partial = NumPartial /\ m[1] = f)
      <4> SUFFICES ASSUME partial = NumPartial, m[1] = f PROVE FALSE
        OBVIOUS
      <4>1. partial > 0 /\ m[2] # partial /\ m[2] \in 1..partial
        BY <1>3, <3>1 DEF Partials
      <4>2. m[2] < partial
        BY <1>3, <4>1
      <4> QED BY <1>1, <1>1a, <3>1, <4>1, <4>2
    <3> QED BY <2>2, <3>2, <3>3
  <2>6. ~Arrived(f) /\ \A g : ~Arrived(g)
    BY <1>2 DEF Arrived
  <2> QED BY <1>2, <1>8, <2>1, <2>2, <2>3, <2>4, <2>5, <2>6 DEF IInv, MetadataAwaited
<1>16. CachesKept'
  BY <1>2 DEF IInv, CachesKept, Cached
<1>17. Lending'
  <2>1. CASE traits.bufMgr
    BY <1>2, <2>1 DEF IInv, Lending
  <2>2. CASE ~traits.bufMgr
    <3>1. handles = {<<b[1], b[3]>> : b \in bufs}
      BY <1>1, <1>1a, <2>2
    <3>2. \A h \in held : (\E b \in owedBuffers' : h = <<b[1], b[3]>>) \/ h \in handles
      <4> SUFFICES ASSUME NEW h \in held PROVE (\E b \in owedBuffers' : h = <<b[1], b[3]>>) \/ h \in handles
        OBVIOUS
      <4>1. PICK b \in owedBuffers : h = <<b[1], b[3]>>
        BY <1>2, <2>2 DEF IInv, Lending, Unerased
      <4> QED BY <1>1, <1>1a, <3>1, <4>1
    <3>3. handles # {} => keys # {}
      BY <3>1 DEF keys
    <3>4. result'.handles = handles
      BY <1>1, <1>1a
    <3> QED BY <1>2, <1>8, <2>2, <3>2, <3>3, <3>4 DEF IInv, Lending, Unerased
  <2> QED BY <2>1, <2>2
<1> QED BY <1>9, <1>10, <1>11, <1>13, <1>14, <1>15, <1>16, <1>17 DEF IInv

\* A buffer that was returned before is in no record.
LEMMA BufferReturnedTwiceStep == ASSUME IInv, BufferReturnedTwice PROVE IInv'
<1> DEFINE f == nextFrame - 1
<1>1. PICK s \in mStreamMap :
        /\ f > 0 /\ <<s, f>> \notin mInflightBuffers
        /\ client.pc \in {"record", "submit", "taken"} => client.frame # f
        /\ result' = [pc |-> "validate", frame |-> f, partial |-> 0, keys |-> {<<s, f>>},
                      handles |-> {}, boost |-> FALSE, overridden |-> FALSE]
  BY DEF BufferReturnedTwice
<1>2. /\ result = Idle /\ result.pc = "idle"
      /\ UNCHANGED <<deviceVars, streamVars, bufferVars, inflight, inflightLock, client, nextFrame, asker,
                     flusher, owedVars, historyVars>>
  BY DEF BufferReturnedTwice, Idle
<1>3. s \in Streams
  BY DEF IInv, TypeOK
<1>4. f \in Frames /\ Given(f)
  <2>1. nextFrame \in 1..(MaxFrames + 1) /\ MaxFrames \in Nat
    BY CameraSessionAssumption DEF IInv, Shapes
  <2> QED BY <1>1, <2>1 DEF Frames, Given, Unsent
<1> HIDE DEF f
<1>5. TypeOK'
  BY <1>2 DEF IInv, TypeOK
<1>6. Shapes'
  <2>1. result' \in HalResults
    BY <1>1, <1>3, <1>4 DEF HalResults, Unerased
  <2> QED BY <1>2, <2>1 DEF IInv, Shapes, NumPartial, Partials
<1>7. Numbered'
  BY <1>1, <1>2, <1>4 DEF IInv, Numbered, Given, Busy
<1>8. BuffersExact'
  BY <1>1, <1>2 DEF IInv, BuffersExact, OwedKeys, Returning, Keys
<1>9. <<s, f>> \notin OwedKeys \cup leaked
  BY <1>1 DEF IInv, BuffersExact
<1>10. Separate'
  BY <1>1, <1>2, <1>9 DEF IInv, Separate, OwedKeys
<1>11. MetadataAwaited'
  <2>1. ~LastPartial' /\ NumPartial' = NumPartial
    BY <1>1, <1>2, PartialCount DEF IInv, LastPartial, NumPartial
  <2>2. \A g : ~Arrived(g)
    BY <1>2 DEF Arrived
  <2> QED BY <1>1, <1>2, <2>1, <2>2 DEF IInv, MetadataAwaited, Awaited
<1>12. CachesKept' /\ Lending'
  BY <1>1, <1>2 DEF IInv, CachesKept, Cached, Lending, Unerased
<1> QED BY <1>5, <1>6, <1>7, <1>8, <1>10, <1>11, <1>12 DEF IInv

\* A result that names a buffer not in flight is dropped, with nothing recorded for it.
LEMMA ValidateStep == ASSUME IInv, Validate PROVE IInv'
<1> USE DEF IInv, Validate
<1>1. /\ result.pc = "validate" /\ result.pc \in Unerased
      /\ result \in [pc : Unerased \cup {"deliver"}, frame : Frames, partial : Nat,
                     keys : SUBSET (Streams \X Frames), handles : SUBSET (Streams \X BufferIds),
                     boost : BOOLEAN, overridden : BOOLEAN]
  BY ResultKinds DEF Unerased
<1>2. NumPartial \in Nat \ {0} /\ NumPartial' = NumPartial
  BY PartialCount DEF NumPartial
<1>3. CASE result.keys \subseteq mInflightBuffers
  <2>1. result' = [pc |-> "metadata", frame |-> result.frame, partial |-> result.partial,
                   keys |-> result.keys, handles |-> result.handles, boost |-> result.boost,
                   overridden |-> result.overridden]
    BY <1>1, <1>3
  <2>2. TypeOK' /\ Shapes' /\ Numbered'
    BY <1>1, <2>1 DEF TypeOK, Shapes, HalResults, Unerased, NumPartial, Partials, Numbered, Given, Busy
  <2>3. BuffersExact' /\ Separate'
    BY <1>1, <1>3, <2>1 DEF BuffersExact, Separate, OwedKeys, Returning, Keys
  <2>4. MetadataAwaited' /\ CachesKept' /\ Lending'
    BY <1>1, <2>1 DEF MetadataAwaited, Awaited, Arrived, LastPartial, NumPartial, CachesKept, Cached,
                      Lending, Unerased
  <2> QED BY <2>2, <2>3, <2>4
<1>4. CASE ~(result.keys \subseteq mInflightBuffers)
  <2>1. result' = Idle /\ result'.pc = "idle"
    BY <1>4 DEF Idle
  <2>2. result.keys \cap mInflightBuffers = {} /\ result.partial = 0 /\ result.handles = {}
    BY <1>1, <1>4 DEF Separate
  <2>3. TypeOK' /\ Shapes' /\ Numbered'
    BY <2>1 DEF TypeOK, Shapes, HalResults, NumPartial, Partials, Numbered, Given, Busy
  <2>4. BuffersExact' /\ Separate'
    BY <1>1, <2>1, <2>2 DEF BuffersExact, Separate, OwedKeys, Returning, Keys, Unerased
  <2>5. \A f : ~Arrived(f)
    BY <1>2, <2>2 DEF Arrived, LastPartial
  <2>6. MetadataAwaited'
    BY <2>1, <2>5 DEF MetadataAwaited, Awaited, Arrived, NumPartial
  <2>7. CachesKept' /\ Lending'
    BY <1>1, <2>1, <2>2 DEF CachesKept, Cached, Lending, Unerased
  <2> QED BY <2>3, <2>4, <2>6, <2>7
<1> QED BY <1>3, <1>4

\* The last partial result takes the entries of its frame away; an earlier one leaves
\* an entry for the last.
LEMMA OverrideMetadataStep == ASSUME IInv, OverrideMetadata PROVE IInv'
<1> USE DEF IInv
<1>1. /\ result.pc = "metadata" /\ result.pc \in Unerased /\ Busy(result)
      /\ result \in [pc : Unerased \cup {"deliver"}, frame : Frames, partial : Nat,
                     keys : SUBSET (Streams \X Frames), handles : SUBSET (Streams \X BufferIds),
                     boost : BOOLEAN, overridden : BOOLEAN]
      /\ UNCHANGED <<deviceVars, streamVars, bufferVars, mInflightBuffers, inflightLock, client,
                     nextFrame, asker, flusher, owedVars, historyVars>>
  BY ResultKinds DEF Unerased, OverrideMetadata, Busy
<1>2. PICK boost \in BOOLEAN, overridden \in BOOLEAN :
        result' = [pc |-> "erase", frame |-> result.frame, partial |-> result.partial,
                   keys |-> result.keys, handles |-> result.handles, boost |-> boost,
                   overridden |-> overridden]
  <2> DEFINE boost == result.boost \/ (traits.deriveBoost /\ LastPartial /\ ~BoostSeen(result.frame))
             overridden == result.frame \in mInflightAETriggerOverrides
  <2>1. result' = [result EXCEPT !.pc = "erase", !.boost = boost, !.overridden = overridden]
    BY DEF OverrideMetadata
  <2>2. boost \in BOOLEAN /\ overridden \in BOOLEAN
    OBVIOUS
  <2> HIDE DEF boost, overridden
  <2> QED BY <1>1, <2>1, <2>2
<1>3. NumPartial \in Nat \ {0} /\ NumPartial' = NumPartial
  BY <1>1, PartialCount DEF NumPartial
<1>4. /\ DOMAIN mInflightRawBoostPresent' \subseteq DOMAIN mInflightRawBoostPresent \cup {result.frame}
      /\ mInflightAETriggerOverrides' \subseteq mInflightAETriggerOverrides
      /\ DOMAIN mInflightRawBoostPresent' = DOMAIN mInflightRawBoostPresent \/ traits.deriveBoost
      /\ LastPartial => /\ result.frame \notin DOMAIN mInflightRawBoostPresent'
                        /\ result.frame \notin mInflightAETriggerOverrides'
      /\ result.partial = 0 => DOMAIN mInflightRawBoostPresent' = DOMAIN mInflightRawBoostPresent
  BY <1>3 DEF OverrideMetadata, LastPartial, Without, Restrict, MetadataAwaited
<1>5. TypeOK'
  BY <1>1, <1>4 DEF TypeOK
<1>6. Shapes' /\ Numbered'
  BY <1>1, <1>2 DEF Shapes, HalResults, Unerased, NumPartial, Partials, Numbered, Given, Busy
<1>7. BuffersExact' /\ Separate'
  BY <1>1, <1>2 DEF BuffersExact, Separate, OwedKeys, Returning, Keys, Unerased
<1>8. MetadataAwaited'
  <2>1. (\A f : Awaited(f)' <=> Awaited(f)) /\ (\A f : ~Arrived(f)') /\ result'.pc = "erase"
    BY <1>1, <1>2, <1>3 DEF Awaited, Arrived
  <2>2. \A f \in DOMAIN mInflightRawBoostPresent' : Awaited(f)
    <3> SUFFICES ASSUME NEW f \in DOMAIN mInflightRawBoostPresent', ~Awaited(f) PROVE FALSE
      OBVIOUS
    <3>1. f = result.frame
      BY <1>4 DEF MetadataAwaited, Arrived
    <3>2. CASE LastPartial
      BY <1>4, <3>1, <3>2
    <3>3. CASE ~LastPartial
      <4>1. result.partial = 0
        BY <1>1, <3>1, <3>3 DEF MetadataAwaited
      <4> QED BY <1>4, <3>1, <3>3, <4>1 DEF MetadataAwaited, Arrived
    <3> QED BY <3>2, <3>3
  <2>3. \A f \in mInflightAETriggerOverrides' :
          Awaited(f) \/ (client.pc = "submit" /\ client.cancel /\ f = client.frame)
    BY <1>4 DEF MetadataAwaited, Arrived
  <2>4. DOMAIN mInflightRawBoostPresent' # {} => traits.deriveBoost
    BY <1>4 DEF MetadataAwaited
  <2> QED BY <1>1, <2>1, <2>2, <2>3, <2>4 DEF MetadataAwaited
<1>9. CachesKept' /\ Lending'
  BY <1>1, <1>2 DEF CachesKept, Cached, Lending, Unerased
<1> QED BY <1>5, <1>6, <1>7, <1>8, <1>9

LEMMA EraseRecordsStep == ASSUME IInv, EraseRecords PROVE IInv'
<1> USE DEF IInv, EraseRecords
<1>1. /\ result.pc = "erase" /\ result.pc \in Unerased /\ Busy(result)
      /\ result \in [pc : Unerased \cup {"deliver"}, frame : Frames, partial : Nat,
                     keys : SUBSET (Streams \X Frames), handles : SUBSET (Streams \X BufferIds),
                     boost : BOOLEAN, overridden : BOOLEAN]
  BY ResultKinds DEF Unerased, Busy
<1>2. result' = [pc |-> "deliver", frame |-> result.frame, partial |-> result.partial,
                 keys |-> result.keys, handles |-> result.handles, boost |-> result.boost,
                 overridden |-> result.overridden]
  BY <1>1
<1>3. TypeOK' /\ Shapes' /\ Numbered'
  BY <1>1, <1>2 DEF TypeOK, Shapes, HalResults, Unerased, NumPartial, Partials, Numbered, Given, Busy
<1>4. client.pc = "submit" => Keys(client) \cap result.keys = {}
  BY <1>1, UnsentKeysNew DEF Unsent
<1>5. BuffersExact'
  BY <1>1, <1>2, <1>4 DEF BuffersExact, Separate, OwedKeys, Returning, Keys, Unerased
<1>6. Separate'
  BY <1>2 DEF Separate, OwedKeys, Unerased
<1>7. MetadataAwaited'
  BY <1>1, <1>2 DEF MetadataAwaited, Awaited, Arrived, LastPartial, NumPartial
<1>8. CachesKept'
  BY DEF CachesKept, Cached
<1>9. Lending'
  BY <1>1, <1>2 DEF Lending, Unerased
<1> QED BY <1>3, <1>5, <1>6, <1>7, <1>8, <1>9

LEMMA DeliverStep == ASSUME IInv, Deliver PROVE IInv'
<1> USE DEF IInv
<1>1. /\ result.pc = "deliver" /\ result' = Idle /\ result'.pc = "idle"
      /\ UNCHANGED <<deviceVars, streamVars, bufferVars, inflight, inflightLock, client, nextFrame,
                     asker, flusher, owedVars, leaked>>
  BY DEF Deliver, Idle
<1>2. TypeOK' /\ Shapes' /\ Numbered'
  BY <1>1 DEF TypeOK, Shapes, HalResults, NumPartial, Partials, Numbered, Given, Busy
<1>3. BuffersExact' /\ Separate'
  BY <1>1 DEF BuffersExact, Separate, OwedKeys, Returning, Keys, Unerased
<1>4. MetadataAwaited' /\ CachesKept' /\ Lending'
  BY <1>1 DEF MetadataAwaited, Awaited, Arrived, LastPartial, NumPartial, CachesKept, Cached, Lending,
              Unerased
<1> QED BY <1>2, <1>3, <1>4

\* A frame whose metadata will not come leaves no entry that waits for it.
LEMMA ErrorNotifiedStep == ASSUME IInv, ErrorNotified PROVE IInv'
<1> USE DEF IInv
<1>1. PICK f \in {m[1] : m \in owedMetadata} :
        /\ Busy(result) => result.frame # f
        /\ owedMetadata' = {m \in owedMetadata : m[1] # f}
        /\ mInflightAETriggerOverrides' = mInflightAETriggerOverrides \ {f}
        /\ mInflightRawBoostPresent' = Without(mInflightRawBoostPresent, {f})
  BY DEF ErrorNotified
<1>2. UNCHANGED <<deviceVars, streamVars, bufferVars, mInflightBuffers, inflightLock, client, nextFrame,
                  threadVars, owedBuffers, spoiled, leaked>>
  BY DEF ErrorNotified
<1>3. DOMAIN mInflightRawBoostPresent' = DOMAIN mInflightRawBoostPresent \ {f}
  BY <1>1 DEF Without, Restrict
<1>4. TypeOK' /\ Shapes' /\ Numbered'
  BY <1>1, <1>2, <1>3 DEF TypeOK, Shapes, NumPartial, Partials, Numbered, Given, Busy
<1>5. BuffersExact' /\ Separate'
  BY <1>2 DEF BuffersExact, Separate, OwedKeys, Returning, Keys
<1>6. MetadataAwaited'
  <2>1. NumPartial' = NumPartial /\ LastPartial' = LastPartial
    BY <1>2 DEF NumPartial, LastPartial
  <2>2. \A g : Awaited(g)' <=> Awaited(g) /\ g # f
    BY <1>1, <2>1 DEF Awaited
  <2>3. \A g : Arrived(g)' <=> Arrived(g)
    BY <1>2, <2>1 DEF Arrived
  <2>4. result.pc \in {"validate", "metadata"} => result.frame # f
    BY <1>1 DEF Busy
  <2> QED BY <1>1, <1>2, <1>3, <2>1, <2>2, <2>3, <2>4 DEF MetadataAwaited
<1>7. CachesKept' /\ Lending'
  BY <1>2 DEF CachesKept, Cached, Lending
<1> QED BY <1>4, <1>5, <1>6, <1>7

---------------------------------------------------------------------------
(* Buffers the HAL asks for. *)

LEMMA FrameworkLendsStep == ASSUME IInv, FrameworkLends PROVE IInv'
<1> USE DEF IInv, FrameworkLends
<1>1. asker' \in Asks
  BY DEF Asks, TypeOK
<1>2. TypeOK' /\ Shapes' /\ Numbered' /\ BuffersExact'
  BY <1>1 DEF TypeOK, Shapes, Numbered, Given, BuffersExact, OwedKeys, Returning, Keys,
              NumPartial, Partials
<1>3. Separate' /\ MetadataAwaited' /\ CachesKept' /\ Lending'
  BY DEF Separate, OwedKeys, MetadataAwaited, Awaited, Arrived, LastPartial, NumPartial,
         CachesKept, Cached, Lending
<1> QED BY <1>2, <1>3

\* A lent buffer is imported before the HAL gets it.
LEMMA RequestStreamBuffersStep == ASSUME IInv, RequestStreamBuffers PROVE IInv'
<1> DEFINE lent == {x \in {<<asker.stream, asker.buf>>} : x[1] \in mStreamMap}
<1>1. /\ asker.pc = "import" /\ inflightLock = "free"
      /\ mCirculatingBuffers' = Import(mCirculatingBuffers, lent)
      /\ mBufferIdMaps' = mBufferIdMaps \cup lent
      /\ held' = held \cup lent
      /\ asker' = Idle
      /\ UNCHANGED <<deviceVars, streamVars, inflight, inflightLock, client, nextFrame, result, flusher,
                     owedVars, historyVars>>
  BY DEF RequestStreamBuffers
<1>2. asker \in [pc : {"import"}, stream : Streams, buf : BufferIds] /\ asker # Idle
  BY <1>1, AskerKinds DEF IInv, Idle
<1>3. lent \subseteq Streams \X BufferIds /\ \A x \in lent : x[2] # NoBuffer
  BY <1>2, CameraSessionAssumption DEF NoBuffer
<1>4. client.pc # "configuring"
  BY <1>1 DEF IInv, Shapes
<1> HIDE DEF lent
<1>5. TypeOK'
  <2>1. lent \subseteq Streams \X BufferOrNone
    BY <1>3 DEF BufferOrNone
  <2>2. /\ DOMAIN mCirculatingBuffers' \subseteq Streams
        /\ \A s \in DOMAIN mCirculatingBuffers' : mCirculatingBuffers'[s] \subseteq BufferIds
    BY <1>1, <2>1, ImportTyped DEF IInv, TypeOK
  <2>3. mBufferIdMaps' \cup held' \subseteq Streams \X BufferIds
    BY <1>1, <1>3 DEF IInv, TypeOK
  <2> QED BY <1>1, <2>2, <2>3 DEF IInv, TypeOK
<1>6. Shapes' /\ Numbered' /\ BuffersExact'
  BY <1>1 DEF IInv, Shapes, Asks, Numbered, Given, BuffersExact, OwedKeys, Returning, Keys,
              NumPartial, Partials
<1>7. Separate' /\ MetadataAwaited'
  BY <1>1 DEF IInv, Separate, OwedKeys, MetadataAwaited, Awaited, Arrived, LastPartial, NumPartial
<1>8. CachesKept'
  <2>1. \A h : Cached(h) \/ h \in lent => Cached(h)'
    BY <1>1, <1>3, ImportKeeps DEF Cached
  <2>2. DOMAIN mCirculatingBuffers \subseteq DOMAIN mCirculatingBuffers'
    BY <1>1 DEF Import
  <2> QED BY <1>1, <1>4, <2>1, <2>2 DEF IInv, CachesKept
<1>9. Lending'
  BY <1>1, <1>2 DEF IInv, Lending
<1> QED BY <1>5, <1>6, <1>7, <1>8, <1>9 DEF IInv

LEMMA ReturnStreamBuffersStep == ASSUME IInv, ReturnStreamBuffers PROVE IInv'
<1> USE DEF IInv
<1>1. PICK h \in held : mBufferIdMaps' = mBufferIdMaps \ {h} /\ held' = held \ {h}
  BY DEF ReturnStreamBuffers
<1>2. /\ traits.bufMgr
      /\ UNCHANGED <<deviceVars, streamVars, mCirculatingBuffers, inflight, inflightLock, client,
                     nextFrame, threadVars, owedVars, historyVars>>
  BY DEF ReturnStreamBuffers
<1>3. TypeOK' /\ Shapes' /\ Numbered' /\ BuffersExact'
  BY <1>1, <1>2 DEF TypeOK, Shapes, Numbered, Given, BuffersExact, OwedKeys, Returning, Keys,
                    NumPartial, Partials
<1>4. Separate' /\ MetadataAwaited' /\ CachesKept' /\ Lending'
  BY <1>1, <1>2 DEF Separate, OwedKeys, MetadataAwaited, Awaited, Arrived, LastPartial, NumPartial,
                    CachesKept, Cached, Lending
<1> QED BY <1>3, <1>4

---------------------------------------------------------------------------
(* The theorems. *)

LEMMA NextIInv == IInv /\ [Next]_sessionVars => IInv'
<1> SUFFICES ASSUME IInv, [Next]_sessionVars PROVE IInv'
  OBVIOUS
<1>1. CASE ClientStep
  BY <1>1, OpenStep, CloseStep, ConfigureStreamsStep, HalConfiguresStep, HalRefusesConfigurationStep,
     ProcessOneCaptureRequestStep, RecordRequestStep, PhysicalSettingsRefusedStep, HalTakesRequestStep,
     RequestReturnsStep, HalRefusesRequestStep, FlushStep DEF ClientStep
<1>2. CASE HalStep
  BY <1>2, ResultArrivesStep, BufferReturnedTwiceStep, ValidateStep, OverrideMetadataStep,
     EraseRecordsStep, DeliverStep, ErrorNotifiedStep, FrameworkLendsStep, RequestStreamBuffersStep,
     ReturnStreamBuffersStep DEF HalStep
<1>3. CASE UNCHANGED sessionVars
  <2> USE <1>3 DEF IInv
  <2>1. TypeOK' /\ Shapes' /\ Numbered' /\ BuffersExact'
    BY DEF TypeOK, Shapes, Numbered, Given, BuffersExact, OwedKeys, Returning, Keys, NumPartial, Partials
  <2>2. Separate' /\ MetadataAwaited' /\ CachesKept' /\ Lending'
    BY DEF Separate, OwedKeys, MetadataAwaited, Awaited, Arrived, LastPartial, NumPartial,
           CachesKept, Cached, Lending
  <2> QED BY <2>1, <2>2
<1> QED BY <1>1, <1>2, <1>3 DEF Next

\* The caches, the records and what the framework and the HAL have in hand have their
\* types on every path through configureStreams, processCaptureRequest and the results.
THEOREM TypesKept == Spec => []TypeOK
<1>1. IInv => TypeOK
  BY DEF IInv
<1> QED BY <1>1, InitIInv, NextIInv, PTL DEF Spec

\* A record of mInflightBuffers, mInflightAETriggerOverrides or mInflightRawBoostPresent
\* is there exactly as long as what it stands for, for every device and any number of
\* streams, requests and configurations: nothing but a request refused for the settings
\* of a physical camera makes configureStreams refuse for ever.
THEOREM NoRecordForgotten == Spec => []RecordsExact
<1>1. IInv => RecordsExact
  <2> SUFFICES ASSUME IInv PROVE RecordsExact
    OBVIOUS
  <2>1. /\ mInflightBuffers = {<<b[1], b[2]>> : b \in owedBuffers} \cup Returning \cup leaked
                                \cup (IF client.pc = "submit" THEN Keys(client) ELSE {})
    BY DEF IInv, BuffersExact, OwedKeys
  <2>2. \A f : Awaited(f) => f \in {m[1] : m \in owedMetadata}
    BY DEF Awaited
  <2>3. \A f : Arrived(f) => Busy(result) /\ f = result.frame
    BY DEF Arrived, Busy
  <2>4. \A f \in mInflightAETriggerOverrides \cup DOMAIN mInflightRawBoostPresent :
          Awaited(f) \/ Arrived(f) \/ (client.pc = "submit" /\ f = client.frame)
    BY DEF IInv, MetadataAwaited
  <2> QED BY <2>1, <2>2, <2>3, <2>4 DEF RecordsExact
<1> QED BY <1>1, InitIInv, NextIInv, PTL DEF Spec

\* No buffer the HAL holds is freed under it, whatever configureStreams removes, the
\* framework drops from the caches or a refused configuration restores.
THEOREM LentBuffersKept == Spec => []BuffersAccounted
<1>1. IInv => BuffersAccounted
  BY DEF IInv, CachesKept, Cached, Lending, BuffersAccounted
<1> QED BY <1>1, InitIInv, NextIInv, PTL DEF Spec

\* What ResultsRestored rests on: a cancel is in the overrides until its last result has
\* been read, and a boost once seen has been told or is about to be.
Answering == result.pc \in {"erase", "deliver"}

CancelsKept ==
  /\ cancels \subseteq Frames
  /\ \A f \in cancels : Given(f) /\ (Awaited(f) \/ Arrived(f) => f \in mInflightAETriggerOverrides)
  /\ client.pc = "submit" /\ client.cancel => client.frame \in mInflightAETriggerOverrides
  /\ Answering /\ result.partial # 0 /\ result.frame \in cancels => result.overridden

BoostsKept ==
  /\ Busy(result) /\ LastPartial => ~Awaited(result.frame)
  /\ \A f \in DOMAIN mInflightRawBoostPresent :
       mInflightRawBoostPresent[f] => f \in boosted \/ (Answering /\ result.frame = f /\ result.boost)
  /\ Answering /\ LastPartial /\ traits.deriveBoost => result.boost \/ result.frame \in boosted

Restored == spoiled = {} /\ CancelsKept /\ BoostsKept
---------------------------------------------------------------------------
(* Results are restored. *)

\* Most steps leave the metadata, and what waits for it, alone.
LEMMA QuietStep ==
  ASSUME Restored,
         UNCHANGED <<traits, result, owedMetadata, mInflightAETriggerOverrides,
                     mInflightRawBoostPresent, cancels, boosted, spoiled>>,
         \A f \in cancels : Given(f)',
         client'.pc = "submit" /\ client'.cancel => client'.frame \in mInflightAETriggerOverrides
  PROVE  Restored'
BY DEF Restored, CancelsKept, BoostsKept, Answering, Awaited, Arrived, LastPartial, NumPartial, Busy

\* A result that asks nothing of the metadata is like none at all.
LEMMA EmptyResultStep ==
  ASSUME IInv, Restored,
         result.pc \notin {"metadata", "erase", "deliver"},
         result.pc = "validate" => ~LastPartial,
         result'.pc \in {"idle", "validate"},
         result'.pc = "validate" => ~LastPartial',
         UNCHANGED <<traits, client, nextFrame, owedMetadata, mInflightAETriggerOverrides,
                     mInflightRawBoostPresent, cancels, boosted, spoiled>>
  PROVE  Restored'
<1>1. (\A f : ~Arrived(f)) /\ (\A f : ~Arrived(f)') /\ ~Answering /\ ~Answering'
  BY DEF Arrived, Answering
<1>2. Busy(result)' => ~LastPartial'
  BY DEF Busy
<1> QED
  BY <1>1, <1>2 DEF Restored, CancelsKept, BoostsKept, Awaited, NumPartial, Given

LEMMA InitRestored == Init => Restored
BY DEF Init, Restored, CancelsKept, BoostsKept, Answering, Idle, Busy

LEMMA CloseRestored == ASSUME Restored, Close PROVE Restored'
BY DEF Close, Restored, CancelsKept, BoostsKept, Answering, Idle, Busy

\* A request's steps: the override comes with the record and goes when the HAL refuses.
LEMMA RequestRestored ==
  ASSUME IInv, Restored,
         \/ ProcessOneCaptureRequest \/ RecordRequest \/ PhysicalSettingsRefused
         \/ HalTakesRequest \/ RequestReturns \/ HalRefusesRequest
  PROVE  Restored'
<1>1. /\ nextFrame \in Nat /\ cancels \subseteq Frames /\ Frames \subseteq Nat
      /\ \A f \in cancels : Given(f)
  BY CameraSessionAssumption DEF IInv, Shapes, Restored, CancelsKept, Frames
<1>2. CASE ProcessOneCaptureRequest
  <2>1. /\ client'.pc \in {"idle", "record"}
        /\ client'.pc = "record" => client'.frame = nextFrame
        /\ nextFrame' = nextFrame + 1
    BY <1>2 DEF ProcessOneCaptureRequest, Idle
  <2>2. \A f \in cancels : Given(f)'
    BY <1>1, <2>1 DEF Given, Unsent
  <2> QED BY <1>2, <2>1, <2>2, QuietStep DEF ProcessOneCaptureRequest
<1>3. CASE RecordRequest
  <2>1. /\ client.pc = "record" /\ client'.pc = "submit" /\ client'.frame = client.frame
        /\ client'.cancel = client.cancel
    BY <1>3, ClientKinds DEF RecordRequest, IInv, InRequest
  <2>2. \A f : Given(f)' <=> Given(f)
    BY <1>3, <2>1 DEF Given, Unsent, RecordRequest
  <2>3. CancelsKept'
    BY <1>3, <2>1, <2>2 DEF RecordRequest, Restored, CancelsKept, Awaited, Arrived, LastPartial, NumPartial,
                            Answering
  <2>4. BoostsKept'
    BY <1>3 DEF RecordRequest, Restored, BoostsKept, Awaited, LastPartial, NumPartial, Answering, Busy
  <2> QED BY <1>3, <2>3, <2>4 DEF RecordRequest, Restored
<1>4. CASE PhysicalSettingsRefused \/ RequestReturns
  <2>1. client'.pc = "idle" /\ UNCHANGED nextFrame
    BY <1>4 DEF PhysicalSettingsRefused, RequestReturns, Idle
  <2>2. \A f \in cancels : Given(f)'
    BY <1>1, <2>1 DEF Given, Unsent
  <2> QED BY <1>4, <2>1, <2>2, QuietStep DEF PhysicalSettingsRefused, RequestReturns
<1>5. CASE HalTakesRequest
  <2> USE <1>5 DEF HalTakesRequest
  <2>1. /\ client.pc = "submit" /\ client.pc \in Unsent /\ client'.pc = "taken"
        /\ client.frame \in Frames /\ client.frame < nextFrame
        /\ client.cancel => client.frame \in mInflightAETriggerOverrides
    BY <1>1, ClientKinds DEF IInv, Numbered, InRequest, Unsent, Restored, CancelsKept
  <2>2. client.frame \notin cancels /\ ~Awaited(client.frame) /\ (Busy(result) => result.frame # client.frame)
    BY <1>1, <2>1, UnsentKeysNew DEF Given
  <2>3. NumPartial' = NumPartial /\ LastPartial' = LastPartial
    BY DEF NumPartial, LastPartial
  <2>4. \A f : f # client.frame => (Awaited(f)' <=> Awaited(f))
    BY <2>3 DEF Awaited
  <2>5. \A f : Arrived(f)' <=> Arrived(f) /\ f # client.frame
    BY <2>2, <2>3 DEF Arrived, Busy
  <2>6. \A f \in cancels' : Given(f)'
    BY <1>1, <2>1 DEF Given, Unsent
  <2>7. \A f \in cancels' : Awaited(f)' \/ Arrived(f)' => f \in mInflightAETriggerOverrides
    BY <2>1, <2>2, <2>4, <2>5 DEF Restored, CancelsKept
  <2>8. CancelsKept'
    BY <1>1, <2>1, <2>2, <2>6, <2>7 DEF Restored, CancelsKept, Answering, Busy
  <2>9. BoostsKept'
    BY <2>2, <2>3, <2>4 DEF Restored, BoostsKept, Answering, Busy
  <2> QED BY <2>8, <2>9 DEF Restored
<1>6. CASE HalRefusesRequest
  <2> USE <1>6 DEF HalRefusesRequest
  <2>1. client.pc = "submit" /\ client.pc \in Unsent /\ client'.pc = "idle"
    BY DEF Idle, Unsent
  <2>2. client.frame \notin cancels
    BY <1>1, <2>1 DEF Given
  <2>3. \A f \in cancels : Given(f)'
    BY <1>1, <2>1 DEF Given, Unsent
  <2>4. CancelsKept'
    BY <2>1, <2>2, <2>3 DEF Restored, CancelsKept, Awaited, Arrived, LastPartial, NumPartial, Answering,
                            OverrideDropped
  <2>5. BoostsKept'
    BY DEF Restored, BoostsKept, Awaited, LastPartial, NumPartial, Answering, Busy
  <2> QED BY <2>4, <2>5 DEF Restored
<1> QED BY <1>2, <1>3, <1>4, <1>5, <1>6

\* The result takes over what its frame waits for.
LEMMA ResultArrivesRestored == ASSUME IInv, Restored, ResultArrives PROVE Restored'
<1>1. PICK f \in Frames, partial \in 0..NumPartial :
        /\ owedMetadata' = owedMetadata \ {<<f, partial>>}
        /\ partial > 0 => <<f, partial>> \in owedMetadata
        /\ result'.pc = "validate" /\ result'.frame = f /\ result'.partial = partial
  BY DEF ResultArrives
<1>2. /\ result.pc = "idle"
      /\ UNCHANGED <<traits, client, nextFrame, mInflightAETriggerOverrides, mInflightRawBoostPresent,
                     cancels, boosted, spoiled>>
  BY DEF ResultArrives, Idle
<1>3. /\ NumPartial' = NumPartial /\ NumPartial \in Nat \ {0}
      /\ LastPartial' = (partial = NumPartial)
  BY <1>1, <1>2, PartialCount DEF IInv, NumPartial, LastPartial
<1>4. \A g : Awaited(g)' <=> Awaited(g) /\ ~(g = f /\ partial = NumPartial)
  BY <1>1, <1>3 DEF Awaited
<1>5. \A g : Arrived(g)' => Awaited(g)
  <2>1. \A g : Arrived(g)' => g = f /\ partial = NumPartial
    BY <1>1, <1>3 DEF Arrived
  <2>2. partial = NumPartial => <<f, partial>> \in owedMetadata
    BY <1>1, <1>3
  <2> QED BY <2>1, <2>2 DEF Awaited
<1>6. CancelsKept'
  BY <1>1, <1>2, <1>4, <1>5 DEF Restored, CancelsKept, Answering, Given
<1>7. BoostsKept'
  BY <1>1, <1>2, <1>3, <1>4 DEF Restored, BoostsKept, Answering
<1> QED BY <1>2, <1>6, <1>7 DEF Restored

LEMMA ValidateRestored == ASSUME IInv, Restored, Validate PROVE Restored'
<1>1. result.pc = "validate" /\ result.pc \in Unerased
      /\ UNCHANGED <<traits, client, nextFrame, owedMetadata, mInflightAETriggerOverrides,
                     mInflightRawBoostPresent, cancels, boosted, spoiled>>
  BY DEF Validate, Unerased
<1>2. CASE result.keys \subseteq mInflightBuffers
  <2>1. result'.pc = "metadata" /\ result'.frame = result.frame /\ result'.partial = result.partial
    BY <1>1, <1>2, ResultKinds DEF Validate, IInv
  <2>2. NumPartial' = NumPartial /\ LastPartial' = LastPartial
    BY <1>1, <2>1 DEF NumPartial, LastPartial
  <2> QED BY <1>1, <2>1, <2>2 DEF Restored, CancelsKept, BoostsKept, Answering, Awaited, Arrived, Given, Busy
<1>3. CASE ~(result.keys \subseteq mInflightBuffers)
  <2>1. result.partial = 0 /\ result'.pc = "idle"
    BY <1>1, <1>3 DEF IInv, Separate, Validate, Idle
  <2>2. ~LastPartial
    BY <2>1, PartialCount DEF IInv, LastPartial
  <2> QED BY <1>1, <2>1, <2>2, EmptyResultStep
<1> QED BY <1>2, <1>3

\* The override is read here; the boost is told, or has been before.
LEMMA OverrideMetadataRestored == ASSUME IInv, Restored, OverrideMetadata PROVE Restored'
<1> DEFINE f == result.frame
<1>1. /\ result.pc = "metadata" /\ Busy(result)
      /\ UNCHANGED <<traits, client, nextFrame, owedMetadata, cancels, boosted, spoiled>>
      /\ result'.pc = "erase" /\ result'.frame = f /\ result'.partial = result.partial
      /\ result'.boost = (result.boost \/ (traits.deriveBoost /\ LastPartial /\ ~BoostSeen(f)))
      /\ result'.overridden = (f \in mInflightAETriggerOverrides)
  BY ResultKinds DEF IInv, OverrideMetadata, Busy
<1>2. /\ NumPartial' = NumPartial /\ LastPartial' = LastPartial
      /\ LastPartial => result.partial # 0
  BY <1>1, PartialCount DEF IInv, NumPartial, LastPartial
<1>3. (\A g : Awaited(g)' <=> Awaited(g)) /\ (\A g : ~Arrived(g)')
  BY <1>1, <1>2 DEF Awaited, Arrived
<1>4. LastPartial => ~Awaited(f)
  BY <1>1 DEF Restored, BoostsKept
<1>5. result.partial # 0 /\ f \in cancels => f \in mInflightAETriggerOverrides
  <2>1. result.partial # 0 => Awaited(f) \/ Arrived(f)
    BY <1>1 DEF IInv, MetadataAwaited, Arrived
  <2> QED BY <2>1 DEF Restored, CancelsKept
<1>6. \A g \in mInflightAETriggerOverrides : g \in mInflightAETriggerOverrides' \/ (LastPartial /\ g = f)
  BY DEF OverrideMetadata
<1>7. client.pc = "submit" => client.frame # f
  BY <1>1, UnsentKeysNew DEF IInv, Unsent
<1>8. CancelsKept'
  <2>1. \A g \in cancels : Awaited(g) => g \in mInflightAETriggerOverrides'
    BY <1>4, <1>6 DEF Restored, CancelsKept
  <2>2. client.pc = "submit" /\ client.cancel => client.frame \in mInflightAETriggerOverrides'
    BY <1>6, <1>7 DEF Restored, CancelsKept
  <2> QED BY <1>1, <1>3, <1>5, <2>1, <2>2 DEF Restored, CancelsKept, Answering, Given
<1>9. \A g \in DOMAIN mInflightRawBoostPresent :
        mInflightRawBoostPresent[g] => g \in boosted
  BY <1>1 DEF Restored, BoostsKept, Answering
<1>10. BoostsKept'
  <2>1. \A g \in DOMAIN mInflightRawBoostPresent' :
          mInflightRawBoostPresent'[g] => g \in boosted \/ (g = f /\ result.boost)
    <3>1. CASE result.partial = 0 \/ ~traits.deriveBoost
      BY <1>9, <3>1 DEF OverrideMetadata
    <3>2. CASE result.partial # 0 /\ traits.deriveBoost /\ LastPartial
      BY <1>9, <3>2 DEF OverrideMetadata, Without, Restrict
    <3>3. CASE result.partial # 0 /\ traits.deriveBoost /\ ~LastPartial
      <4>1. mInflightRawBoostPresent' =
              [g \in DOMAIN mInflightRawBoostPresent \cup {f} |->
                 IF g = f THEN result.boost \/ BoostSeen(g) ELSE mInflightRawBoostPresent[g]]
        BY <3>3 DEF OverrideMetadata
      <4>2. BoostSeen(f) => f \in boosted
        BY <1>9 DEF BoostSeen
      <4> QED BY <1>9, <4>1, <4>2
    <3> QED BY <3>1, <3>2, <3>3
  <2>2. LastPartial /\ traits.deriveBoost => result'.boost \/ f \in boosted
    BY <1>1, <1>9 DEF BoostSeen
  <2>3. result.boost => result'.boost
    BY <1>1
  <2> QED BY <1>1, <1>2, <1>3, <1>4, <2>1, <2>2, <2>3 DEF BoostsKept, Answering
<1> QED BY <1>1, <1>8, <1>10 DEF Restored

LEMMA EraseRecordsRestored == ASSUME IInv, Restored, EraseRecords PROVE Restored'
<1>1. /\ result.pc = "erase"
      /\ UNCHANGED <<traits, client, nextFrame, owedMetadata, mInflightAETriggerOverrides,
                     mInflightRawBoostPresent, cancels, boosted, spoiled>>
      /\ result'.pc = "deliver" /\ result'.frame = result.frame /\ result'.partial = result.partial
      /\ result'.boost = result.boost /\ result'.overridden = result.overridden
  BY ResultKinds DEF IInv, EraseRecords
<1>2. NumPartial' = NumPartial /\ LastPartial' = LastPartial
  BY <1>1 DEF NumPartial, LastPartial
<1> QED
  BY <1>1, <1>2 DEF Restored, CancelsKept, BoostsKept, Answering, Awaited, Arrived, Given, Busy

\* The framework hears of the cancel and of the boost.
LEMMA DeliverRestored == ASSUME IInv, Restored, Deliver PROVE Restored'
<1> DEFINE f == result.frame
<1>1. /\ result.pc = "deliver" /\ result'.pc = "idle"
      /\ UNCHANGED <<traits, client, nextFrame, owedMetadata, mInflightAETriggerOverrides,
                     mInflightRawBoostPresent>>
      /\ cancels' \subseteq cancels
      /\ boosted \ {f} \subseteq boosted'
      /\ ~LastPartial => /\ boosted \subseteq boosted'
                         /\ result.boost => f \in boosted'
  BY DEF Deliver, Idle
<1>2. spoiled' = {}
  <2>1. ~(result.partial > 0 /\ f \in cancels /\ ~result.overridden)
    BY <1>1, ResultKinds DEF IInv, Restored, CancelsKept, Answering
  <2>2. ~(LastPartial /\ traits.deriveBoost /\ ~result.boost /\ f \notin boosted)
    BY <1>1 DEF Restored, BoostsKept, Answering
  <2>3. spoiled = {}
    BY DEF Restored
  <2> QED BY <2>1, <2>2, <2>3 DEF Deliver
<1>3. NumPartial' = NumPartial
  BY <1>1 DEF NumPartial
<1>4. CancelsKept'
  BY <1>1, <1>3 DEF Restored, CancelsKept, Answering, Awaited, Arrived, Given
<1>5. \A g \in DOMAIN mInflightRawBoostPresent : mInflightRawBoostPresent[g] => g \in boosted'
  <2>1. LastPartial => f \notin DOMAIN mInflightRawBoostPresent
    BY <1>1 DEF IInv, MetadataAwaited, Restored, BoostsKept, Arrived, Busy
  <2> QED BY <1>1, <2>1 DEF Restored, BoostsKept
<1>6. BoostsKept'
  BY <1>1, <1>5 DEF BoostsKept, Answering, Busy
<1> QED BY <1>2, <1>4, <1>6 DEF Restored

LEMMA ErrorNotifiedRestored == ASSUME IInv, Restored, ErrorNotified PROVE Restored'
<1>1. PICK f \in {m[1] : m \in owedMetadata} :
        /\ Busy(result) => result.frame # f
        /\ owedMetadata' = {m \in owedMetadata : m[1] # f}
        /\ mInflightAETriggerOverrides' = mInflightAETriggerOverrides \ {f}
        /\ mInflightRawBoostPresent' = Without(mInflightRawBoostPresent, {f})
        /\ cancels' = cancels \ {f} /\ boosted' = boosted \ {f}
  BY DEF ErrorNotified
<1>2. UNCHANGED <<traits, client, nextFrame, result, spoiled>>
  BY DEF ErrorNotified
<1>3. NumPartial' = NumPartial /\ LastPartial' = LastPartial
  BY <1>2 DEF NumPartial, LastPartial
<1>4. Given(f)
  BY DEF IInv, Numbered
<1>5. client.pc = "submit" => client.frame # f
  BY <1>4 DEF Given, Unsent
<1>6. (\A g : Awaited(g)' => Awaited(g)) /\ (\A g : Arrived(g)' <=> Arrived(g))
  BY <1>1, <1>2, <1>3 DEF Awaited, Arrived
<1>7. CancelsKept'
  BY <1>1, <1>2, <1>5, <1>6 DEF Restored, CancelsKept, Answering, Given, Busy
<1>8. /\ DOMAIN mInflightRawBoostPresent' = DOMAIN mInflightRawBoostPresent \ {f}
      /\ \A g \in DOMAIN mInflightRawBoostPresent' :
           mInflightRawBoostPresent'[g] = mInflightRawBoostPresent[g]
  BY <1>1 DEF Without, Restrict
<1>9. BoostsKept'
  BY <1>1, <1>2, <1>3, <1>6, <1>8 DEF Restored, BoostsKept, Answering, Busy
<1> QED BY <1>2, <1>7, <1>9 DEF Restored

LEMMA BufferReturnedTwiceRestored == ASSUME IInv, Restored, BufferReturnedTwice PROVE Restored'
<1>1. /\ result.pc = "idle" /\ result'.pc = "validate" /\ result'.partial = 0
      /\ UNCHANGED <<traits, client, nextFrame, owedMetadata, mInflightAETriggerOverrides,
                     mInflightRawBoostPresent, cancels, boosted, spoiled>>
  BY DEF BufferReturnedTwice, Idle
<1>2. ~LastPartial'
  BY <1>1, PartialCount DEF IInv, LastPartial, NumPartial
<1> QED BY <1>1, <1>2, EmptyResultStep

\* The session's opening, the configurations and the buffers the HAL asks for have
\* nothing to do with metadata.
LEMMA OtherStepsRestored ==
  ASSUME IInv, Restored,
         \/ Open \/ ConfigureStreams \/ HalConfigures \/ HalRefusesConfiguration
         \/ SignalStreamFlush \/ FlushSignalled \/ FrameworkLends \/ RequestStreamBuffers
         \/ ReturnStreamBuffers \/ UNCHANGED sessionVars
  PROVE  Restored'
<1>1. /\ UNCHANGED <<traits, result, owedMetadata, mInflightAETriggerOverrides,
                     mInflightRawBoostPresent, cancels, boosted, spoiled, nextFrame>>
      /\ client' = client \/ client'.pc \in {"idle", "configuring"}
  <2>1. CASE Open \/ SignalStreamFlush \/ FlushSignalled
    BY <2>1 DEF Open, SignalStreamFlush, FlushSignalled
  <2>2. CASE ConfigureStreams
    BY <2>2 DEF ConfigureStreams, Idle
  <2>3. CASE HalConfigures \/ HalRefusesConfiguration
    BY <2>3 DEF HalConfigures, HalRefusesConfiguration, Idle
  <2>4. CASE FrameworkLends \/ RequestStreamBuffers \/ ReturnStreamBuffers
    BY <2>4 DEF FrameworkLends, RequestStreamBuffers, ReturnStreamBuffers
  <2>5. CASE UNCHANGED sessionVars
    BY <2>5
  <2> QED BY <2>1, <2>2, <2>3, <2>4, <2>5
<1>2. \A f \in cancels : Given(f)
  BY DEF Restored, CancelsKept
<1>3. \A f \in cancels : Given(f)'
  BY <1>1, <1>2 DEF Given, Unsent
<1>4. client'.pc = "submit" /\ client'.cancel => client'.frame \in mInflightAETriggerOverrides
  BY <1>1 DEF Restored, CancelsKept
<1> QED BY <1>1, <1>3, <1>4, QuietStep

LEMMA NextRestored == IInv /\ Restored /\ [Next]_sessionVars => Restored'
BY CloseRestored, RequestRestored, ResultArrivesRestored, ValidateRestored, OverrideMetadataRestored,
   EraseRecordsRestored, DeliverRestored, ErrorNotifiedRestored, BufferReturnedTwiceRestored,
   OtherStepsRestored DEF Next, ClientStep, HalStep

\* Whatever the HAL's partial results, notices and the framework's next requests do between
\* the holds of mInflightLock, overrideResultForPrecaptureCancelLocked restores every cancel
\* and each complete answer has a post-RAW boost: for every device and any number of requests.
THEOREM EveryResultRestored == Spec => []ResultsRestored
<1>1. Restored => ResultsRestored
  BY DEF Restored, ResultsRestored
<1> QED BY <1>1, InitIInv, NextIInv, InitRestored, NextRestored, PTL DEF Spec
=============================================================================
