---------------------------- MODULE SpectrumConfig ----------------------------
(***************************************************************************)
(* firmware/neptune_fft_streamer.c, lines 104-112 and 283-417: how the     *)
(* streamer learns the radio configuration of a captured block.            *)
(*                                                                         *)
(* The AD9361 configuration is three sysfs attributes.  iiod writes them,  *)
(* one at a time and whenever its clients ask; the streamer can only read  *)
(* them one at a time, so what it reads may be torn.  It reads all three   *)
(* before and after a block is captured, keeps the block when both         *)
(* readings agree, and otherwise discards it and tries again, at most      *)
(* MaxAttempts times.  Every reading that differs from the previous one    *)
(* starts a new configuration epoch.                                       *)
(*                                                                         *)
(* changes, held and since are history variables: the code has no          *)
(* counterpart of them and no guard mentions them.                         *)
(***************************************************************************)
EXTENDS Naturals

CONSTANTS Value,           \* what an attribute can be set to
          Tuned,           \* the attributes iiod's clients write
          WidebandRate,    \* SAMPLE_RATE_TEXT
          WidebandWidth,   \* RF_BANDWIDTH_HZ
          MaxAttempts,     \* CONFIG_CAPTURE_ATTEMPTS
          EpochModulus     \* 2^32: config_epoch is a uint32_t

\* The attributes, numbered in the order read_spectrum_metadata reads them:
\* 1 the sampling frequency, 2 the RF bandwidth, 3 the RX LO frequency.
Attr   == 1 .. 3
Config == [Attr -> Value]
Unset  == [a \in Attr |-> 0]        \* zero-initialised static storage
Epoch  == 0 .. EpochModulus - 1

\* One frame moves the epoch by less than two steps per attempt, which has to
\* stay below a full turn of the field.
MaxStep == 2 * MaxAttempts - 1

ASSUME ValueAssumption == Value \subseteq Nat /\ {WidebandRate, WidebandWidth} \subseteq Value
ASSUME TunedAssumption == Tuned \subseteq Attr
ASSUME AttemptsAssumption == MaxAttempts \in Nat \ {0}
ASSUME EpochAssumption == EpochModulus \in Nat /\ MaxStep < EpochModulus

VARIABLES
    live,          \* the attributes as the driver holds them
    phase,         \* where the streamer is
    next,          \* the attribute a reading pass is about to read
    metadata,      \* the reading being filled in (or just completed)
    before,        \* `before' of capture_iio_frame
    observed,      \* observed_metadata
    initialized,   \* metadata_initialized
    attempt,       \* loop variable of capture_iio_frame
    delivered,     \* whether a frame has been returned to main
    frame,         \* the metadata of the latest frame returned to main
    changes,       \* history: changes of each attribute between its two reads
    held,          \* history: values of each attribute while samples were taken
    since          \* history: epochs started since the latest frame

code    == <<phase, next, metadata, before, observed, initialized, attempt,
             delivered, frame>>
history == <<changes, held, since>>
vars    == <<live, code, history>>

Metadata == [config : Config \cup {Unset}, epoch : Epoch]
Phase    == {"setRate", "setBandwidth", "readInitial", "idle", "readBefore",
             "arm", "capturing", "readAfter", "failed"}
Reading  == {"readInitial", "readBefore", "readAfter"}

TypeOK ==
    /\ live \in Config
    /\ phase \in Phase
    /\ next \in 1 .. 4
    /\ metadata \in [Attr -> Value \cup {0}]
    /\ before \in Metadata
    /\ observed \in Metadata
    /\ initialized \in BOOLEAN
    /\ attempt \in 0 .. MaxAttempts
    /\ delivered \in BOOLEAN
    /\ frame \in Metadata
    /\ changes \in [Attr -> 0 .. 2]
    /\ held \in [Attr -> SUBSET Value]
    /\ since \in 0 .. 2 * MaxAttempts
-------------------------------------------------------------------------------
Source == INSTANCE FrameSource

\* Fault: the epoch outgrows its field.
NextEpochUnbounded(epoch) == epoch + 1

\* config_epoch + 1U.
NextEpoch(epoch) == Source!Advance(epoch, 1)

\* Fault: a comparison that forgets the RX LO frequency.
SameBand(left, right) == \A a \in 1 .. 2 : left[a] = right[a]

\* same_spectrum_configuration.
SameConfiguration(left, right) == left = right

\* Fault: every observation starts an epoch.
ObserveAsChanged(config) ==
    [config |-> config,
     epoch  |-> IF ~initialized THEN 0 ELSE NextEpoch(observed.epoch)]

\* observe_spectrum_metadata: the record that goes both into
\* observed_metadata and to the caller.
Observe(config) ==
    [config |-> config,
     epoch  |-> IF ~initialized THEN 0
                ELSE IF SameConfiguration(config, observed.config) THEN observed.epoch
                ELSE NextEpoch(observed.epoch)]

StartsEpoch(config) ==
    initialized /\ ~SameConfiguration(config, observed.config)

\* The attributes that have been read before the block and not yet after it.
InWindow(a) ==
    \/ phase = "readBefore" /\ a < next
    \/ phase \in {"arm", "capturing"}
    \/ phase = "readAfter" /\ a >= next

StartReading(pass) ==
    /\ phase' = pass
    /\ next' = 1

\* The history of a block ends where the next attempt begins.
ForgetBlock ==
    /\ changes' = [a \in Attr |-> 0]
    /\ held' = [a \in Attr |-> {}]

\* A finished reading is judged before the next one starts.
ReadingComplete(pass) == phase = pass /\ next = 4
-------------------------------------------------------------------------------
\* The zero-initialised program in front of a radio somebody else may have set.
Init ==
    /\ live \in Config
    /\ phase = "setRate"
    /\ next = 1
    /\ metadata = Unset
    /\ before = [config |-> Unset, epoch |-> 0]
    /\ observed = [config |-> Unset, epoch |-> 0]
    /\ initialized = FALSE
    /\ attempt = 0
    /\ delivered = FALSE
    /\ frame = [config |-> Unset, epoch |-> 0]
    /\ changes = [a \in Attr |-> 0]
    /\ held = [a \in Attr |-> {}]
    /\ since = 0

\* An attribute takes a new value: the effect of a write by iiod or by
\* configure_wideband, together with what the history variables record of it.
SetAttribute(a, value) ==
    /\ live' = [live EXCEPT ![a] = value]
    /\ changes' = IF InWindow(a) /\ value # live[a] /\ changes[a] < 2
                  THEN [changes EXCEPT ![a] = @ + 1]
                  ELSE changes
    /\ held' = IF phase = "capturing" THEN [held EXCEPT ![a] = @ \cup {value}]
                                      ELSE held
    /\ since' = since

\* iiod serves a client's write.  It runs as long as the streamer does: the
\* streamer is PID 1, whose exit stops the system.
Retune(a, value) ==
    /\ phase # "failed"
    /\ value # live[a]
    /\ SetAttribute(a, value)
    /\ UNCHANGED code

\* configure_wideband: two writes, then the first observation.
SetRate ==
    /\ phase = "setRate"
    /\ phase' = "setBandwidth"
    /\ SetAttribute(1, WidebandRate)
    /\ UNCHANGED <<next, metadata, before, observed, initialized, attempt,
                   delivered, frame>>

SetBandwidth ==
    /\ phase = "setBandwidth"
    /\ StartReading("readInitial")
    /\ SetAttribute(2, WidebandWidth)
    /\ UNCHANGED <<metadata, before, observed, initialized, attempt,
                   delivered, frame>>

\* read_spectrum_metadata: one sysfs read.  A `before' read opens the
\* attribute's window, an `after' read closes it.
ReadAttribute ==
    /\ phase \in Reading
    /\ next \in Attr
    /\ metadata' = [metadata EXCEPT ![next] = live[next]]
    /\ next' = next + 1
    /\ changes' = IF phase = "readBefore" THEN [changes EXCEPT ![next] = 0]
                                          ELSE changes
    /\ UNCHANGED <<live, phase, before, observed, initialized, attempt,
                   delivered, frame, held, since>>

ObserveInitial ==
    /\ ReadingComplete("readInitial")
    /\ observed' = Observe(metadata)
    /\ initialized' = TRUE
    /\ phase' = "idle"
    /\ UNCHANGED <<live, next, metadata, before, attempt, delivered, frame,
                   history>>

\* main calls capture_iio_frame, for a client: it begins no frame while none is
\* connected.
BeginFrame ==
    /\ phase = "idle"
    /\ attempt' = 0
    /\ StartReading("readBefore")
    /\ ForgetBlock
    /\ UNCHANGED <<live, metadata, before, observed, initialized, delivered,
                   frame, since>>

\* Fault: the configuration observed last serves as the reading before.
ObserveBeforeCached ==
    /\ ReadingComplete("readBefore")
    /\ before' = observed
    /\ observed' = Observe(metadata)
    /\ initialized' = TRUE
    /\ phase' = "arm"
    /\ since' = IF StartsEpoch(metadata) THEN since + 1 ELSE since
    /\ UNCHANGED <<live, next, metadata, attempt, delivered, frame, changes,
                   held>>

\* capture_iio_frame: `before = observe_spectrum_metadata(...)'.
ObserveBefore ==
    /\ ReadingComplete("readBefore")
    /\ before' = Observe(metadata)
    /\ observed' = Observe(metadata)
    /\ initialized' = TRUE
    /\ phase' = "arm"
    /\ since' = IF StartsEpoch(metadata) THEN since + 1 ELSE since
    /\ UNCHANGED <<live, next, metadata, attempt, delivered, frame, changes,
                   held>>

\* capture_iio_block up to the write that enables the buffer: from here on the
\* block is being sampled.
EnableBuffer ==
    /\ phase = "arm"
    /\ phase' = "capturing"
    /\ held' = [a \in Attr |-> {live[a]}]
    /\ UNCHANGED <<live, next, metadata, before, observed, initialized,
                   attempt, delivered, frame, changes, since>>

\* The rest of capture_iio_block: the whole block has been read, the buffer is
\* disabled and the device closed.
BlockComplete ==
    /\ phase = "capturing"
    /\ StartReading("readAfter")
    /\ UNCHANGED <<live, metadata, before, observed, initialized, attempt,
                   delivered, frame, history>>

\* The readings agree: capture_iio_frame returns the block's metadata.
Accept ==
    /\ ReadingComplete("readAfter")
    /\ SameConfiguration(metadata, before.config)
    /\ frame' = [config |-> metadata, epoch |-> before.epoch]
    /\ delivered' = TRUE
    /\ phase' = "idle"
    /\ since' = 0
    /\ UNCHANGED <<live, next, metadata, before, observed, initialized,
                   attempt, changes, held>>

\* Fault: attempts are not counted.
DiscardAnyNumber ==
    /\ ReadingComplete("readAfter")
    /\ ~SameConfiguration(metadata, before.config)
    /\ observed' = Observe(metadata)
    /\ since' = since
    /\ ForgetBlock
    /\ StartReading("readBefore")
    /\ UNCHANGED <<live, metadata, before, initialized, attempt, delivered, frame>>

\* The readings differ: the block is discarded, the second reading observed,
\* and the next attempt made unless this was the last (EAGAIN, fatal).
Discard ==
    /\ ReadingComplete("readAfter")
    /\ ~SameConfiguration(metadata, before.config)
    /\ observed' = Observe(metadata)
    /\ initialized' = TRUE
    /\ since' = IF StartsEpoch(metadata) THEN since + 1 ELSE since
    /\ attempt' = attempt + 1
    /\ ForgetBlock
    /\ IF attempt + 1 < MaxAttempts THEN StartReading("readBefore")
                                    ELSE phase' = "failed" /\ next' = next
    /\ UNCHANGED <<live, metadata, before, delivered, frame>>

\* A sysfs access, the device or its read(2) fails: fail() exits.
IoFailure ==
    /\ \/ phase \in {"setRate", "setBandwidth", "arm", "capturing"}
       \/ phase \in Reading /\ next \in Attr
    /\ phase' = "failed"
    /\ UNCHANGED <<live, next, metadata, before, observed, initialized,
                   attempt, delivered, frame, history>>

\* The steps that lead to the next idle moment, of what has been begun.
Capture ==
    \/ SetRate \/ SetBandwidth \/ ReadAttribute \/ ObserveInitial
    \/ ObserveBefore \/ EnableBuffer \/ BlockComplete \/ Accept \/ Discard

Streamer == BeginFrame \/ Capture

Iiod == \E a \in Tuned, value \in Value : Retune(a, value)

Next == Streamer \/ Iiod \/ IoFailure

\* The streamer is a running process whose reads return, so that it ends the
\* frame it has begun.  Nothing is assumed of iiod's clients, of failures, or of
\* the next frame: without a client of its own the streamer waits in accept().
Spec == Init /\ [][Next]_vars /\ WF_vars(Capture)
-------------------------------------------------------------------------------
\* A block is returned only if no attribute was changed exactly once between
\* the two reads of it (a lone retune is never missed, torn as the readings may
\* be), and every attribute that was not changed in between had the stamped
\* value for as long as the block was being sampled.
StampCoversBlock ==
    (delivered /\ phase = "idle") =>
        \A a \in Attr :
            /\ changes[a] # 1
            /\ changes[a] = 0 => held[a] = {frame.config[a]}

\* A block is thrown away, and an attempt of the fatal limit used up, only if
\* some attribute was really changed between the two reads of it.
DiscardsOnlyOnRetune ==
    [][Discard => \E a \in Attr : changes[a] > 0]_vars

\* Two consecutive frames of one epoch have one configuration, for all the
\* blocks discarded between them and although the epoch field wraps; see
\* FrameSource.
ImplementsFrameSource == Source!Spec

\* Once the radio is left alone, the streamer ends up stamping every frame with
\* the true configuration in an epoch that no longer moves, unless it is left
\* without a client for good (or had already used up its attempts, or its I/O
\* failed).
SettlesOnConfiguration ==
    \A config \in Config :
        <>[](live = config) /\ []<>(phase # "idle") =>
            <>[](phase = "failed" \/ (frame.config = config /\ frame = observed))
===============================================================================
