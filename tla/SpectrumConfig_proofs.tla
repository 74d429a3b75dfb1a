------------------------ MODULE SpectrumConfig_proofs ------------------------
(***************************************************************************)
(* Proofs about SpectrumConfig, for every set of values, every limit of    *)
(* attempts and every width of the epoch field.                            *)
(***************************************************************************)
EXTENDS SpectrumConfig, TLAPS

\* What has been read so far are values of the attributes.
ReadingInv ==
    phase \in Reading => \A a \in Attr : a < next => metadata[a] \in Value

\* During an attempt the configuration observed last is the one of `before'.
ObservedInv ==
    /\ phase \in {"setRate", "setBandwidth", "readInitial"} =>
           ~initialized /\ ~delivered
    /\ phase \in {"idle", "readBefore", "arm", "capturing", "readAfter"} =>
           initialized
    /\ phase \in {"arm", "capturing", "readAfter"} =>
           before = observed /\ before.config \in Config

\* since really counts the epochs between the latest frame and the observed
\* configuration, and an attempt adds at most two.
EpochInv ==
    /\ phase \in {"setRate", "setBandwidth", "readInitial", "idle"} => since = 0
    /\ phase = "readBefore" => since <= 2 * attempt
    /\ phase \in {"arm", "capturing", "readAfter"} => since <= 2 * attempt + 1
    /\ phase \in {"readBefore", "arm", "capturing", "readAfter"} =>
           attempt < MaxAttempts
    /\ phase # "failed" =>
           /\ observed.epoch = Source!Advance(frame.epoch, since)
           /\ (delivered /\ since = 0) => observed.config = frame.config
    /\ ~initialized => observed.epoch = 0

\* The reading an attribute in its window is compared with in the end.
Opening(a) == IF phase = "readBefore" THEN metadata[a] ELSE before.config[a]

\* An attribute unchanged since its first read has the value read, one changed
\* once has another; and the block holds nothing but the unchanged values.
WindowInv ==
    \A a \in Attr :
        /\ InWindow(a) => /\ changes[a] = 0 => live[a] = Opening(a)
                          /\ changes[a] = 1 => live[a] # Opening(a)
        /\ (phase = "readAfter" /\ a < next) =>
               /\ changes[a] = 0 => metadata[a] = before.config[a]
               /\ changes[a] = 1 => metadata[a] # before.config[a]
        /\ (phase \in {"capturing", "readAfter"} /\ changes[a] = 0) =>
               held[a] = {before.config[a]}

IInv ==
    /\ TypeOK
    /\ ReadingInv
    /\ ObservedInv
    /\ EpochInv
    /\ WindowInv
    /\ StampCoversBlock

-------------------------------------------------------------------------------
USE ValueAssumption, TunedAssumption, AttemptsAssumption, EpochAssumption
USE DEF SameConfiguration

\* Unsigned addition stays in the field, and one step after another is one
\* addition as long as the sum is no full turn.
LEMMA AdvanceLemma ==
    ASSUME NEW e \in Epoch, NEW n \in 0 .. MaxStep
    PROVE  /\ Source!Advance(e, n) \in Epoch
           /\ n + 1 <= MaxStep =>
                  NextEpoch(Source!Advance(e, n)) = Source!Advance(e, n + 1)
           /\ NextEpoch(e) \in Epoch
           /\ Source!Advance(e, 0) = e
           /\ Source!Advance(e, n) = e => n = 0
BY DEF Epoch, MaxStep, NextEpoch, Source!Advance

\* A completed reading is a configuration.
LEMMA ReadingLemma ==
    ASSUME TypeOK, ReadingInv, phase \in Reading, next = 4
    PROVE  metadata \in Config
BY DEF TypeOK, ReadingInv, Config, Attr

\* A frame nobody captured has metadata too: the zeroed record.
LEMMA UnsetLemma == [config |-> Unset, epoch |-> 0] \in Metadata
BY DEF Metadata, Epoch, MaxStep

\* Observing a configuration gives metadata, of that configuration.
LEMMA ObserveLemma ==
    ASSUME TypeOK, NEW config \in Config
    PROVE  /\ Observe(config) \in Metadata
           /\ Observe(config).config = config
<1>1. observed.epoch \in Epoch /\ 0 \in 0 .. MaxStep
  BY DEF TypeOK, Metadata, MaxStep
<1>2. NextEpoch(observed.epoch) \in Epoch
  BY <1>1, AdvanceLemma
<1>3. 0 \in Epoch
  BY DEF Epoch, MaxStep
<1>4. QED
  BY <1>1, <1>2, <1>3 DEF Observe, Metadata

\* The invariant holds in the zero-initialised program.
LEMMA InitInv == Init => IInv
<1> SUFFICES ASSUME Init PROVE IInv
  OBVIOUS
<1>1. TypeOK
  <2>1. metadata \in [Attr -> Value \cup {0}]
    BY DEF Init, Unset
  <2>2. changes \in [Attr -> 0 .. 2] /\ held \in [Attr -> SUBSET Value]
    BY DEF Init
  <2>3. attempt \in 0 .. MaxAttempts /\ since \in 0 .. 2 * MaxAttempts
    BY DEF Init
  <2>4. before \in Metadata /\ observed \in Metadata /\ frame \in Metadata
    BY UnsetLemma DEF Init
  <2>5. phase \in Phase /\ next \in 1 .. 4 /\ live \in Config
    BY DEF Init, Phase
  <2>6. initialized \in BOOLEAN /\ delivered \in BOOLEAN
    BY DEF Init
  <2>7. QED
    BY <2>1, <2>2, <2>3, <2>4, <2>5, <2>6 DEF TypeOK
<1>2. ReadingInv /\ ObservedInv /\ WindowInv /\ StampCoversBlock
  BY DEF Init, ReadingInv, ObservedInv, WindowInv, StampCoversBlock, Reading,
         InWindow
<1>3. EpochInv
  BY DEF Init, EpochInv, Source!Advance, MaxStep
<1>4. QED
  BY <1>1, <1>2, <1>3 DEF IInv

\* Retune preserves the invariant.
LEMMA RetuneInv ==
    ASSUME IInv, NEW a \in Tuned, NEW value \in Value, Retune(a, value) PROVE IInv'
<1> USE DEF IInv, Retune, SetAttribute, code, history
<1>1. TypeOK'
  BY DEF TypeOK, Phase, Metadata, Config, Unset, Epoch, Attr, Reading
<1>2. ReadingInv'
  BY DEF TypeOK, ReadingInv, Reading, Attr, Config
<1>3. ObservedInv'
  BY DEF TypeOK, ObservedInv, Reading
<1>4. EpochInv'
  BY DEF TypeOK, ObservedInv, EpochInv, Reading
<1>5. WindowInv'
  BY DEF TypeOK, WindowInv, InWindow, Opening, Reading, Attr, Config
<1>6. StampCoversBlock'
  BY DEF TypeOK, StampCoversBlock, InWindow
<1>7. QED
  BY <1>1, <1>2, <1>3, <1>4, <1>5, <1>6

\* SetRate preserves the invariant.
LEMMA SetRateInv ==
    ASSUME IInv, SetRate PROVE IInv'
<1> USE DEF IInv, SetRate, SetAttribute, code, history
<1>1. TypeOK'
  BY DEF TypeOK, Phase, Metadata, Config, Unset, Epoch, Attr, Reading
<1>2. ReadingInv'
  BY DEF TypeOK, ReadingInv, Reading, Attr, Config
<1>3. ObservedInv'
  BY DEF TypeOK, ObservedInv, Reading
<1>4. EpochInv'
  BY DEF TypeOK, ObservedInv, EpochInv, Reading
<1>5. WindowInv'
  BY DEF TypeOK, WindowInv, InWindow, Opening, Reading, Attr, Config
<1>6. StampCoversBlock'
  BY DEF TypeOK, StampCoversBlock, WindowInv, Reading, Attr, Config
<1>7. QED
  BY <1>1, <1>2, <1>3, <1>4, <1>5, <1>6

\* SetBandwidth preserves the invariant.
LEMMA SetBandwidthInv ==
    ASSUME IInv, SetBandwidth PROVE IInv'
<1> USE DEF IInv, SetBandwidth, SetAttribute, StartReading, code, history
<1>1. TypeOK'
  BY DEF TypeOK, Phase, Metadata, Config, Unset, Epoch, Attr, Reading
<1>2. ReadingInv'
  BY DEF TypeOK, ReadingInv, Reading, Attr, Config
<1>3. ObservedInv'
  BY DEF TypeOK, ObservedInv, Reading
<1>4. EpochInv'
  BY DEF TypeOK, ObservedInv, EpochInv, Reading
<1>5. WindowInv'
  BY DEF TypeOK, WindowInv, InWindow, Opening, Reading, Attr, Config
<1>6. StampCoversBlock'
  BY DEF TypeOK, StampCoversBlock, WindowInv, Reading, Attr, Config
<1>7. QED
  BY <1>1, <1>2, <1>3, <1>4, <1>5, <1>6

\* ReadAttribute preserves the invariant.
LEMMA ReadAttributeInv ==
    ASSUME IInv, ReadAttribute PROVE IInv'
<1> USE DEF IInv, ReadAttribute, code, history
<1>1. TypeOK'
  BY DEF TypeOK, Phase, Metadata, Config, Unset, Epoch, Attr, Reading
<1>2. ReadingInv'
  BY DEF TypeOK, ReadingInv, Reading, Attr, Config
<1>3. ObservedInv'
  BY DEF TypeOK, ObservedInv, Reading
<1>4. EpochInv'
  BY DEF TypeOK, ObservedInv, EpochInv, Reading
<1>5. WindowInv'
  BY DEF TypeOK, WindowInv, InWindow, Opening, Reading, Attr, Config
<1>6. StampCoversBlock'
  BY DEF TypeOK, StampCoversBlock, WindowInv, Reading, Attr, Config
<1>7. QED
  BY <1>1, <1>2, <1>3, <1>4, <1>5, <1>6

\* ObserveInitial preserves the invariant.
LEMMA ObserveInitialInv ==
    ASSUME IInv, ObserveInitial PROVE IInv'
<1> USE DEF IInv, ObserveInitial, ReadingComplete, code, history
<1>0. /\ metadata \in Config
      /\ Observe(metadata) \in Metadata
      /\ Observe(metadata).config = metadata
  BY ReadingLemma, ObserveLemma DEF Reading
<1>1. TypeOK'
  BY <1>0 DEF TypeOK, EpochInv, Phase, Attr
<1>2. ReadingInv'
  BY DEF TypeOK, ReadingInv, Reading, Attr, Config
<1>3. ObservedInv'
  BY DEF TypeOK, ObservedInv, Reading
<1>4. EpochInv'
  <2>1. observed.epoch = 0 /\ frame.epoch \in Epoch /\ since = 0
    BY DEF ObservedInv, EpochInv, TypeOK, Metadata
  <2>2. Observe(metadata).epoch = observed.epoch
    BY <2>1 DEF Observe, ObservedInv
  <2>3. QED
    BY <2>1, <2>2 DEF EpochInv, ObservedInv
<1>5. WindowInv'
  BY DEF TypeOK, WindowInv, InWindow, Opening, Reading, Attr, Config
<1>6. StampCoversBlock'
  BY DEF StampCoversBlock, ObservedInv
<1>7. QED
  BY <1>1, <1>2, <1>3, <1>4, <1>5, <1>6

\* BeginFrame preserves the invariant.
LEMMA BeginFrameInv ==
    ASSUME IInv, BeginFrame PROVE IInv'
<1> USE DEF IInv, BeginFrame, StartReading, ForgetBlock, code, history
<1>1. TypeOK'
  BY DEF TypeOK, Phase, Metadata, Config, Unset, Epoch, Attr, Reading
<1>2. ReadingInv'
  BY DEF TypeOK, ReadingInv, Reading, Attr, Config
<1>3. ObservedInv'
  BY DEF TypeOK, ObservedInv, Reading
<1>4. EpochInv'
  BY DEF TypeOK, ObservedInv, EpochInv, Reading
<1>5. WindowInv'
  BY DEF TypeOK, WindowInv, InWindow, Opening, Reading, Attr, Config
<1>6. StampCoversBlock'
  BY DEF TypeOK, StampCoversBlock, WindowInv, Reading, Attr, Config
<1>7. QED
  BY <1>1, <1>2, <1>3, <1>4, <1>5, <1>6

\* ObserveBefore preserves the invariant.
LEMMA ObserveBeforeInv ==
    ASSUME IInv, ObserveBefore PROVE IInv'
<1> USE DEF IInv, ObserveBefore, ReadingComplete, StartsEpoch, code, history
<1>0. /\ metadata \in Config
      /\ Observe(metadata) \in Metadata
      /\ Observe(metadata).config = metadata
  BY ReadingLemma, ObserveLemma DEF Reading
<1>1. TypeOK'
  BY <1>0 DEF TypeOK, EpochInv, Phase, Attr
<1>2. ReadingInv'
  BY DEF TypeOK, ReadingInv, Reading, Attr, Config
<1>3. ObservedInv'
  BY <1>0 DEF ObservedInv
<1>4. EpochInv'
  <2>1. /\ initialized /\ attempt < MaxAttempts /\ since <= 2 * attempt
        /\ observed.epoch = Source!Advance(frame.epoch, since)
        /\ frame.epoch \in Epoch /\ attempt \in Nat /\ since \in Nat
    BY DEF ObservedInv, EpochInv, TypeOK, Metadata
  <2>2. since \in 0 .. MaxStep /\ since + 1 <= MaxStep
    BY <2>1 DEF MaxStep
  <2>3. CASE StartsEpoch(metadata)
    <3>1. observed'.epoch = NextEpoch(observed.epoch)
      BY <2>1, <2>3 DEF Observe
    <3>2. NextEpoch(observed.epoch) = Source!Advance(frame.epoch, since + 1)
      BY <2>1, <2>2, AdvanceLemma
    <3>3. QED
      BY <3>1, <3>2, <2>1, <2>3 DEF EpochInv
  <2>4. CASE ~StartsEpoch(metadata)
    <3>1. observed' = [config |-> observed.config, epoch |-> observed.epoch]
      BY <2>1, <2>4 DEF Observe
    <3>2. QED
      BY <3>1, <2>1, <2>4 DEF EpochInv
  <2>5. QED
    BY <2>3, <2>4
<1>5. WindowInv'
  BY <1>0 DEF TypeOK, WindowInv, InWindow, Opening, Reading, Attr, Config
<1>6. StampCoversBlock'
  BY DEF TypeOK, StampCoversBlock, WindowInv, Reading, Attr, Config
<1>7. QED
  BY <1>1, <1>2, <1>3, <1>4, <1>5, <1>6

\* EnableBuffer preserves the invariant.
LEMMA EnableBufferInv ==
    ASSUME IInv, EnableBuffer PROVE IInv'
<1> USE DEF IInv, EnableBuffer, code, history
<1>1. TypeOK'
  BY DEF TypeOK, Phase, Metadata, Config, Unset, Epoch, Attr, Reading
<1>2. ReadingInv'
  BY DEF TypeOK, ReadingInv, Reading, Attr, Config
<1>3. ObservedInv'
  BY DEF TypeOK, ObservedInv, Reading
<1>4. EpochInv'
  BY DEF TypeOK, ObservedInv, EpochInv, Reading
<1>5. WindowInv'
  BY DEF TypeOK, WindowInv, InWindow, Opening, Reading, Attr, Config
<1>6. StampCoversBlock'
  BY DEF TypeOK, StampCoversBlock, WindowInv, Reading, Attr, Config
<1>7. QED
  BY <1>1, <1>2, <1>3, <1>4, <1>5, <1>6

\* BlockComplete preserves the invariant.
LEMMA BlockCompleteInv ==
    ASSUME IInv, BlockComplete PROVE IInv'
<1> USE DEF IInv, BlockComplete, StartReading, code, history
<1>1. TypeOK'
  BY DEF TypeOK, Phase, Metadata, Config, Unset, Epoch, Attr, Reading
<1>2. ReadingInv'
  BY DEF TypeOK, ReadingInv, Reading, Attr, Config
<1>3. ObservedInv'
  BY DEF TypeOK, ObservedInv, Reading
<1>4. EpochInv'
  BY DEF TypeOK, ObservedInv, EpochInv, Reading
<1>5. WindowInv'
  BY DEF TypeOK, WindowInv, InWindow, Opening, Reading, Attr, Config
<1>6. StampCoversBlock'
  BY DEF TypeOK, StampCoversBlock, WindowInv, Reading, Attr, Config
<1>7. QED
  BY <1>1, <1>2, <1>3, <1>4, <1>5, <1>6

\* Accept preserves the invariant.
LEMMA AcceptInv ==
    ASSUME IInv, Accept PROVE IInv'
<1> USE DEF IInv, Accept, ReadingComplete, code, history
<1>1. TypeOK'
  BY DEF TypeOK, Phase, Metadata, Config, Unset, Epoch, Attr, Reading
<1>2. ReadingInv'
  BY DEF TypeOK, ReadingInv, Reading, Attr, Config
<1>3. ObservedInv'
  BY DEF TypeOK, ObservedInv, Reading
<1>4. EpochInv'
  <2>1. /\ frame'.epoch \in Epoch /\ observed'.epoch = frame'.epoch
        /\ observed'.config = frame'.config
    BY DEF ObservedInv, TypeOK, Metadata
  <2>2. Source!Advance(frame'.epoch, 0) = frame'.epoch
    BY <2>1 DEF Source!Advance, Epoch
  <2>3. QED
    BY <2>1, <2>2 DEF EpochInv, ObservedInv
<1>5. WindowInv'
  BY DEF TypeOK, WindowInv, InWindow, Opening, Reading, Attr, Config
<1>6. StampCoversBlock'
  BY DEF TypeOK, StampCoversBlock, WindowInv, Reading, Attr, Config
<1>7. QED
  BY <1>1, <1>2, <1>3, <1>4, <1>5, <1>6

\* Discard preserves the invariant.
LEMMA DiscardInv ==
    ASSUME IInv, Discard PROVE IInv'
<1> USE DEF IInv, Discard, ReadingComplete, StartsEpoch, StartReading, ForgetBlock, code, history
<1>0. /\ metadata \in Config
      /\ Observe(metadata) \in Metadata
      /\ Observe(metadata).config = metadata
  BY ReadingLemma, ObserveLemma DEF Reading
<1>1. TypeOK'
  BY <1>0 DEF TypeOK, EpochInv, Phase, Attr
<1>2. ReadingInv'
  BY DEF TypeOK, ReadingInv, Reading, Attr, Config
<1>3. ObservedInv'
  BY DEF TypeOK, ObservedInv, Reading
<1>4. EpochInv'
  <2>1. /\ initialized /\ attempt < MaxAttempts /\ since <= 2 * attempt + 1
        /\ observed.epoch = Source!Advance(frame.epoch, since)
        /\ frame.epoch \in Epoch /\ attempt \in Nat /\ since \in Nat
        /\ observed = before
    BY DEF ObservedInv, EpochInv, TypeOK, Metadata
  <2>2. StartsEpoch(metadata) /\ since' = since + 1
    BY <2>1
  <2>3. CASE attempt + 1 < MaxAttempts
    <3>1. since \in 0 .. MaxStep /\ since + 1 <= MaxStep
      BY <2>1, <2>3 DEF MaxStep
    <3>2. observed'.epoch = Source!Advance(frame.epoch, since + 1)
      BY <2>1, <2>2, <3>1, AdvanceLemma DEF Observe
    <3>3. QED
      BY <3>2, <2>1, <2>2, <2>3 DEF EpochInv
  <2>4. CASE ~(attempt + 1 < MaxAttempts)
    BY <2>1, <2>4 DEF EpochInv
  <2>5. QED
    BY <2>3, <2>4
<1>5. WindowInv'
  BY DEF TypeOK, WindowInv, InWindow, Opening, Reading, Attr, Config
<1>6. StampCoversBlock'
  BY DEF TypeOK, StampCoversBlock, WindowInv, Reading, Attr, Config
<1>7. QED
  BY <1>1, <1>2, <1>3, <1>4, <1>5, <1>6

\* IoFailure preserves the invariant.
LEMMA IoFailureInv ==
    ASSUME IInv, IoFailure PROVE IInv'
<1> USE DEF IInv, IoFailure, code, history
<1>1. TypeOK'
  BY DEF TypeOK, Phase, Metadata, Config, Unset, Epoch, Attr, Reading
<1>2. ReadingInv'
  BY DEF TypeOK, ReadingInv, Reading, Attr, Config
<1>3. ObservedInv'
  BY DEF TypeOK, ObservedInv, Reading
<1>4. EpochInv'
  BY DEF TypeOK, ObservedInv, EpochInv, Reading
<1>5. WindowInv'
  BY DEF TypeOK, WindowInv, InWindow, Opening, Reading, Attr, Config
<1>6. StampCoversBlock'
  BY DEF TypeOK, StampCoversBlock, WindowInv, Reading, Attr, Config
<1>7. QED
  BY <1>1, <1>2, <1>3, <1>4, <1>5, <1>6

\* Every step preserves it, one lemma per action.
LEMMA StepInv == IInv /\ [Next]_vars => IInv'
<1> SUFFICES ASSUME IInv, [Next]_vars PROVE IInv'
  OBVIOUS
<1>1. CASE UNCHANGED vars
  BY <1>1 DEF vars, code, history, IInv, TypeOK, ReadingInv, ObservedInv,
     EpochInv, WindowInv, StampCoversBlock, InWindow, Opening
<1>2. CASE Iiod
  BY <1>2, RetuneInv DEF Iiod
<1>3. CASE IoFailure
  BY <1>3, IoFailureInv
<1>4. CASE Streamer
  BY <1>4, SetRateInv, SetBandwidthInv, ReadAttributeInv, ObserveInitialInv,
     BeginFrameInv, ObserveBeforeInv, EnableBufferInv, BlockCompleteInv,
     AcceptInv, DiscardInv DEF Streamer, Capture
<1>5. QED
  BY <1>1, <1>2, <1>3, <1>4 DEF Next

\* Hence it always holds.
LEMMA Invariance == Spec => []IInv
BY InitInv, StepInv, PTL DEF Spec

\* Every variable has its type: in particular the epoch stays in its field,
\* and nothing but values the attributes had is ever stamped on a frame.
THEOREM TypeCorrect == Spec => []TypeOK
<1>1. IInv => TypeOK
  BY DEF IInv
<1>2. QED
  BY <1>1, Invariance, PTL

\* A block captured while an attribute was changed once is never returned, and
\* the attributes that were not changed are stamped with the value they had
\* throughout the capture: for any number of values, attempts and epochs.
THEOREM StampCorrect == Spec => []StampCoversBlock
<1>1. IInv => StampCoversBlock
  BY DEF IInv
<1>2. QED
  BY <1>1, Invariance, PTL

\* No attempt is wasted: a discarded block had an attribute changed under it.
THEOREM DiscardCorrect == Spec => DiscardsOnlyOnRetune
<1>1. ASSUME IInv, Discard PROVE \E a \in Attr : changes[a] > 0
  <2>1. metadata \in Config /\ before.config \in Config
    BY <1>1, ReadingLemma DEF IInv, ObservedInv, Discard, ReadingComplete, Reading
  <2>2. PICK a \in Attr : metadata[a] # before.config[a]
    BY <1>1, <2>1 DEF Discard, Config
  <2>3. changes[a] # 0
    BY <1>1, <2>2 DEF IInv, WindowInv, Discard, ReadingComplete, Attr
  <2>4. QED
    BY <1>1, <2>2, <2>3 DEF IInv, TypeOK
<1>2. IInv /\ [Next]_vars => [Discard => \E a \in Attr : changes[a] > 0]_vars
  BY <1>1
<1>3. QED
  BY <1>2, Invariance, PTL DEF Spec, DiscardsOnlyOnRetune

\* The streamer keeps the promise of FrameSource: between two consecutive
\* frames the epoch advances by less than two steps per attempt, and by none
\* only if their configuration is the same.
THEOREM Refinement == Spec => ImplementsFrameSource
<1>1. Init => Source!Init
  BY DEF Init, Source!Init
<1>2. ASSUME IInv, Accept PROVE Source!Next
  <2>1. /\ before = observed /\ metadata = observed.config
        /\ frame' = [config |-> metadata, epoch |-> observed.epoch]
        /\ metadata \in Config
        /\ attempt < MaxAttempts /\ since <= 2 * attempt + 1
        /\ observed.epoch = Source!Advance(frame.epoch, since)
        /\ (delivered /\ since = 0) => observed.config = frame.config
    BY <1>2 DEF IInv, ObservedInv, EpochInv, Accept, ReadingComplete
  <2>2. since \in 0 .. MaxStep
    BY <1>2, <2>1 DEF IInv, TypeOK, MaxStep
  <2>3. QED
    BY <1>2, <2>1, <2>2 DEF Source!Next, Source!Deliver, Accept
<1>3. ASSUME IInv, [Next]_vars, ~Accept
      PROVE  UNCHANGED <<delivered, frame>>
  BY <1>3 DEF Next, Streamer, Capture, Iiod, IoFailure, SetRate, SetBandwidth,
     ReadAttribute, ObserveInitial, BeginFrame, ObserveBefore, EnableBuffer,
     BlockComplete, Discard, Retune, vars, code
<1>4. IInv /\ [Next]_vars => [Source!Next]_<<delivered, frame>>
  BY <1>2, <1>3
<1>5. QED
  BY <1>1, <1>4, Invariance, PTL DEF Spec, ImplementsFrameSource, Source!Spec
-------------------------------------------------------------------------------
(* The safety half of SettlesOnConfiguration. *)

\* What the reading in progress has got so far is still true of the radio.
Untorn == phase \in Reading => \A a \in Attr : a < next => metadata[a] = live[a]

\* The streamer knows the configuration, and reads nothing else.
Settled == initialized /\ observed.config = live /\ Untorn

\* A settled streamer stays so while the radio is left alone: no block is
\* discarded, no epoch begins, and the frames have the true configuration in it.
StaysSettled ==
    [][Settled /\ live' = live =>
           /\ Settled' /\ observed' = observed
           /\ ~Discard
           /\ Accept => frame' = observed /\ frame'.config = live]_vars

\* Steps to the end of a reading, and of the next one after a torn one.
Distance ==
    CASE phase = "setRate" -> 6
      [] phase = "setBandwidth" -> 5
      [] phase \in Reading -> (5 - next) + (IF Untorn THEN 0 ELSE 6)
      [] phase = "arm" -> 6
      [] phase = "capturing" -> 5
      [] OTHER -> 5

\* A streamer that is not settled gets a step nearer with each of its steps,
\* while the radio is left alone: one torn reading is all it can still have.
Settles ==
    [][Streamer /\ ~Settled /\ live' = live =>
           Settled' \/ phase' = "failed" \/ Distance' < Distance]_vars

\* What a reading has when it is complete and untorn is what there is.
LEMMA UntornLemma ==
    ASSUME TypeOK, ReadingInv, Untorn, phase \in Reading, next = 4
    PROVE  metadata = live
<1>1. metadata \in Config /\ live \in Config
  BY ReadingLemma DEF TypeOK
<1>2. \A a \in Attr : metadata[a] = live[a]
  BY DEF Untorn, Attr
<1>3. QED
  BY <1>1, <1>2 DEF Config

\* A reading that is begun, or goes on while the radio is left alone, is untorn.
LEMMA UntornStays ==
    ASSUME TypeOK, Untorn, live' = live,
           \/ ReadAttribute
           \/ phase' \notin Reading \/ next' = 1
           \/ UNCHANGED <<phase, next, metadata>>
    PROVE  Untorn'
BY DEF TypeOK, Untorn, ReadAttribute, Attr, Reading

LEMMA ObserveSame ==
    ASSUME TypeOK, initialized, observed.config = live
    PROVE  Observe(live) = observed
BY DEF Observe, TypeOK, Metadata

\* The streamer keeps to the true configuration of a radio that is left alone:
\* after a reading that was not torn no attempt is used up, no epoch begins and
\* every frame is stamped with it, until the radio is retuned.
THEOREM SettledCorrect == Spec => StaysSettled
<1>1. ASSUME IInv, Next, Settled, live' = live
      PROVE  /\ Settled' /\ observed' = observed
             /\ ~Discard
             /\ Accept => frame' = observed /\ frame'.config = live
  <2> USE <1>1 DEF IInv, Settled
  <2>1. ASSUME ReadingComplete("readBefore") \/ ReadingComplete("readAfter")
                 \/ ReadingComplete("readInitial")
        PROVE  metadata = live /\ Observe(metadata) = observed
    BY <2>1, UntornLemma, ObserveSame DEF ReadingComplete, Reading
  <2>2. ~Discard
    BY <2>1 DEF Discard, ReadingComplete, ObservedInv
  <2>3. Accept => frame' = observed /\ frame'.config = live
    BY <2>1 DEF Accept, ReadingComplete, ObservedInv, TypeOK, Metadata
  <2>4. ~ObserveInitial
    BY DEF ObserveInitial, ReadingComplete, ObservedInv
  <2>5. observed' = observed /\ initialized' = initialized
    <3>1. CASE ObserveBefore
      BY <2>1, <3>1 DEF ObserveBefore
    <3>2. CASE ~ObserveBefore
      BY <2>2, <2>4, <3>2
      DEF Next, Streamer, Capture, Iiod, IoFailure, SetRate, SetBandwidth, ReadAttribute, BeginFrame,
          EnableBuffer, BlockComplete, Accept, Retune, code
    <3>3. QED
      BY <3>1, <3>2
  <2>6. Untorn'
    <3>1. CASE \/ SetRate \/ SetBandwidth \/ ReadAttribute \/ BeginFrame \/ ObserveBefore
               \/ EnableBuffer \/ BlockComplete \/ Accept
      BY <3>1, UntornStays
      DEF SetRate, SetBandwidth, BeginFrame, ObserveBefore, EnableBuffer, BlockComplete,
          Accept, StartReading, Reading
    <3>2. CASE Iiod \/ IoFailure
      BY <3>2, UntornStays DEF Iiod, Retune, code, IoFailure, Reading
    <3>3. QED
      BY <2>2, <2>4, <3>1, <3>2 DEF Next, Streamer, Capture
  <2>7. QED
    BY <2>2, <2>3, <2>5, <2>6
<1>2. IInv /\ [Next]_vars =>
         [Settled /\ live' = live =>
             /\ Settled' /\ observed' = observed
             /\ ~Discard
             /\ Accept => frame' = observed /\ frame'.config = live]_vars
  BY <1>1
<1>3. QED
  BY <1>2, Invariance, PTL DEF Spec, StaysSettled

DistanceInNat == Distance \in Nat

\* A reading that completes brings the true configuration, if it was not torn;
\* the one after it cannot be.
THEOREM SettlesCorrect == Spec => []DistanceInNat /\ Settles
<1>1. IInv => DistanceInNat
  BY DEF IInv, TypeOK, DistanceInNat, Distance
<1>2. ASSUME IInv, Streamer, ~Settled, live' = live
      PROVE  Settled' \/ phase' = "failed" \/ Distance' < Distance
  <2> USE <1>2 DEF IInv
  <2>1. CASE SetRate \/ SetBandwidth
    <3>1. Distance' < Distance
      BY <2>1 DEF SetRate, SetBandwidth, StartReading, Distance, Untorn, Reading, Attr
    <3>2. QED
      BY <3>1
  <2>2. CASE ReadAttribute
    <3>1. Untorn => Untorn'
      BY <2>2, UntornStays
    <3>2. Distance' < Distance
      BY <2>2, <3>1 DEF ReadAttribute, Distance, TypeOK, Attr, Reading
    <3>3. QED
      BY <3>2
  <2>3. ASSUME \/ ReadingComplete("readInitial") /\ ObserveInitial
               \/ ReadingComplete("readBefore") /\ ObserveBefore
               \/ ReadingComplete("readAfter") /\ (Discard \/ Accept),
               Untorn
        PROVE  Settled' \/ phase' = "failed"
    <3>1. metadata = live /\ metadata \in Config
      BY <2>3, UntornLemma, ReadingLemma DEF ReadingComplete, Reading
    <3>2. initialized' /\ observed'.config = live
      BY <2>3, <3>1, ObserveLemma
      DEF ObserveInitial, ObserveBefore, Discard, Accept, ObservedInv, ReadingComplete
    <3>3. Untorn' \/ phase' = "failed"
      BY <2>3, UntornStays
      DEF ObserveInitial, ObserveBefore, Discard, Accept, StartReading, Reading
    <3>4. QED
      BY <3>2, <3>3 DEF Settled
  <2>4. CASE (ObserveInitial \/ ObserveBefore \/ Accept \/ Discard) /\ ~Untorn
    <3>1. Distance = 7
      BY <2>4
      DEF ObserveInitial, ObserveBefore, Accept, Discard, ReadingComplete, Distance, Reading
    <3>2. Distance' \in 0 .. 6 \/ phase' = "failed"
      BY <2>4
      DEF ObserveInitial, ObserveBefore, Accept, Discard, StartReading, Distance, Untorn,
          Reading, Attr
    <3>3. QED
      BY <3>1, <3>2
  <2>5. CASE BeginFrame \/ EnableBuffer \/ BlockComplete
    <3>1. Distance' < Distance
      BY <2>5
      DEF BeginFrame, EnableBuffer, BlockComplete, StartReading, Distance, Untorn, Reading,
          Attr
    <3>2. QED
      BY <3>1
  <2>6. QED
    BY <2>1, <2>2, <2>3, <2>4, <2>5
    DEF Streamer, Capture, ObserveInitial, ObserveBefore, Accept, Discard
<1>3. IInv /\ [Next]_vars =>
         [Streamer /\ ~Settled /\ live' = live =>
             Settled' \/ phase' = "failed" \/ Distance' < Distance]_vars
  BY <1>2
<1>4. QED
  BY <1>1, <1>3, Invariance, PTL DEF Spec, Settles
===============================================================================
