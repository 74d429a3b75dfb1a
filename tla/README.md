# A TLA+ verification project for the NeptuneSDR firmware tools

This directory holds TLA+ modules that model the programs of this repository,
TLC configurations that check them on small instances, and proofs that TLAPS
checks for every value of the constants. `PROJECT.json` is the index: for every
definition that models code the lines it stands for (`map`), the runs, the
faults each property is known to catch (`mutants`), the hazards the properties
are for, the theorems, and where code and documentation disagree (`findings`).

To repeat the checks, in this directory:

    tlc -workers 2 -config MCStreamer.cfg MCStreamer.tla     # any run of PROJECT.json
    tlapm SpectrumConfig_proofs.tla                          # any *_proofs module

Contents: 1 inventory, 2 modules and how they correspond to the code, 3 runs,
4 fairness, 5 proofs, 6 disagreements found, 7 what is not modelled, 8 plan.

## 1. Inventory

The repository builds a development image for the P210 software radio, runs it
in QEMU and streams spectra out of it. It has two programs that matter for
concurrency, the guest's C streamer and the host's Python/shell tools, and a
set of pure parsers and audits.

### 1.1 Spectrum streamer (`firmware/neptune_fft_streamer.c`)

One thread, which the guest's init execs into: it is PID 1, and `fail()` anywhere
ends the system.

| part | state | operations | interacts with |
|---|---|---|---|
| radio configuration and capture, 104-112, 283-417 | `observed_metadata`, `metadata_initialized`; the sysfs attributes of the AD9361 | `configure_wideband`, `read_`/`observe_spectrum_metadata`, `capture_iio_block`, `capture_iio_frame` | `iiod`, which rewrites the same attributes for its TCP clients at any time |
| FFT offload, 376-473 | registers mapped from `/dev/mem`, input and output buffer | `run_fft` | an accelerator that shares both buffers |
| clients, 535-669, 719-809 | the accepted socket, `sequence`, `send_deadline` | `send_all_socket`, `wait_socket_writable`, `socket_peer_closed`, main's loop | peers and the kernel's TCP |
| start-up and encoding | -- | `find_iio_device`, `map_hardware`, `create_listener`, `build_nsft_packet` | -- |

Hard: readings of three attributes that are torn by a retune; a deadline that
passes while the accelerator goes on; a second packet built from the output
buffer seconds after the first; sends split, interrupted and stalled anywhere;
peers that leave without saying so. Correct means: a packet's metadata is that of
its samples, its samples are those of one accepted block, a connection carries
whole packets in order, and a dead peer does not keep the only place.

### 1.2 Artifact cache (`firmware.py` 565-609, `boot_harness.py` 703-750)

State: the entry and its `.part` file, by name; file descriptors. Operations:
fetch (download, digest, rename, clean up), verify, and in the scripts
verify-then-use. Hard: every process uses the same `.part`; servers lie, break
off or send too much; a kill anywhere; a forced fetch between somebody's
verification and use. Correct means: the name is absent or has the locked bytes,
a reader uses what it verified, nothing is left behind.

### 1.3 Bounded QEMU run (`boot_harness.py` 557-667)

State: the child and its process group, the pipe, the buffered stream and its
lock, the capped log, a reader thread, the main thread. Hard: the child exits as
the timeout expires, ignores SIGTERM, or leaves a descendant with the pipe; the
log is cut by a chunk, a cap or a close under the reader. Correct means: a pass
is never based on part of the child's log, the log has no gap, the call returns.

### 1.4 Runtime composition and manifest (`prepare_runtime.py`, `runtime_rootfs.py` 954-1267, `manifest.py`)

State: `.inputs`, the images and `runtime-manifest.json` in one output directory
that outlives runs. Hard: runs with other options, failing or killed between two
of a dozen files, two at once; the manifest is not written atomically. Correct
means: a manifest vouches for images of one run, and for those that are there.

### 1.5 Toolchain cache (`cache_relocation.sh`, `build_guest_fft.sh`)

State: the directories of a conda prefix, the location stamp. Operations: guard,
invalidate, stamp, build; and moving the checkout. Hard: a kill between two
`rm -rf`, followed by a move back. Correct means: the stamp vouches for
everything there is, and half a toolchain is never run.

### 1.6 Parsers of what is booted (`firmware.py` 21-294, `runtime_rootfs.py` 116-380)

`FlattenedDeviceTree`: the header's spans and a token machine with a position, a
stack of open nodes and the tree built so far. `NewcArchive`: the entries of an
initramfs, in the order of its records; parse, look up, read through links,
`replaced`, `added`, `to_bytes`. Hard: words whose meaning depends on where they
are met, lengths rounded to words at the end of a block, claims of the header;
records the kernel goes on unpacking after a trailer, two records of one name,
limits that are tested before the record is known, symbolic links resolved by
name while the kernel walks directories. Correct means: exactly the well-formed
blocks are accepted and every node and property is where it belongs; no word is
read that is not there; what is audited is what the kernel unpacks; what is
written is read back; a name means to `read` what it means to the kernel.

### 1.7 Boot smoke test (`qemu_boot.py`, `boot_harness.py` 172-536, `firmware.py` 213-558)

State: the source at its path, a work directory named after that path, and per
run the images it has picked. Operations: find out the format, validate and read
a P210 bundle or read a FIT (alone or in a Pluto ZIP), choose a configuration and
its images, write them, name them to QEMU. Hard: each look at the source opens it
again; runs share the directory; a run is killed between two files; damaged
images, references to the wrong one, several configurations. Correct means: what
is booted is what was hashed and reported, each file was checked as the bytes it
holds, and only a whole source is booted, in the configuration asked for.

### 1.8 Source identity (`provenance.py`)

State: none of its own; it asks git nine times about a checkout that its user may
be working in, and tests, measures and hashes the untracked files itself. Hard: the
answers are of different moments, those about one untracked file too, and one
failure is given a meaning ("no commit yet"). Correct means: each file is described
by what it was during the run, none is left out, a clean record is of its commit.

### 1.9 The rest

ELF, kernel and rootfs audits (`runtime_rootfs.py`), `xsa.py`, `interface.py`,
`locks.py`, `manifest.py`'s schema and the CLI: pure functions of bytes, or one
pass of checks over static data.

### 1.10 How they fit together

`fetch_firmware.py` fills the cache; `build_guest_fft.sh` builds the streamer
with the toolchain cache; `prepare_runtime.py` verifies and reads cache entries,
composes images around the streamer and writes the manifest; `qemu_boot.py` runs
them; inside, the streamer captures, offloads and streams. The parts meet in
files (host) and in one loop (guest), and that is how the modules are cut:

    FrameSource        promise of the capture
      ^ refined by            \ used by
    SpectrumConfig             Streamer          AtomicEntry  promise of the cache
    FftOffload                                     ^ refined by
                                                 ContentCache
    SmokeBoot --> QemuBoot   RuntimePublish   CacheRelocation
      | extends                 : takes the parsers' and audits' verdicts as data
    BootImage                FdtParser   NewcArchive      SourceIdentity

## 2. Modules

Operators whose comment begins with `Fault:` are not part of a specification:
each is an action or operator as a plausible bug would have it, written next to
the one it would replace. TLC finds the property it is paired with in
`PROJECT.json` violated when it takes that place.

**FrameSource** is abstract: a source of frames, each with a configuration and an
epoch; two consecutive frames of one epoch have one configuration; the epoch
field may wrap. It does not say how that is found out.

**SpectrumConfig** is the capture protocol. Attributes are an array of three
values (rate, bandwidth, LO, in the order they are read); a reading is three
steps, `ReadAttribute`, with `next` the position; iiod's `Retune` is enabled
between any two steps. `ObserveBefore`, `EnableBuffer`, `BlockComplete`,
`Accept`, `Discard` are the lines of `capture_iio_frame`. `changes` and `held` are
history: how often each attribute was changed between its two reads, and the
values it had while samples were taken. `since` counts epochs for the proof.
Values stand for the attributes' numbers; that they parse is `IoFailure`.

**FftOffload** is one block in the two shared buffers. Memory is modelled by
provenance: a piece of the input buffer, the accelerator's working copy, and a
channel of the output are sets of the blocks (sequence, attempt) that went into
them. The accelerator is external, after `docs/P210_FFT_ABI.md`: after START it
loads and stores in steps of its own, completes, fails, or never finishes.
Each register access of `run_fft` that the accelerator can come between is an
action of its own. `DropClient` is main's break when a send fails between the two
packets, of which nothing but the failure is kept here: the rest is Streamer's.

**Streamer** is main's loop and the path of a frame to a client. The socket is
`room` in its send buffer and what the peer does (reads, stalls, half-closes,
closes, talks). `Send(count)` takes any part of a packet. `expired` is
"CLOCK_MONOTONIC has passed send_deadline", which `Expire` may make true at any
point of a send. Metadata come from `FrameSource` (used as its abstraction of
`SpectrumConfig`). `wire` is history: the last piece on the wire, and whether it was
sent `late`, after the deadline.

**AtomicEntry** is what `docs/PROVENANCE.md` promises of a cache entry.

**ContentCache** has inodes with names, so that an open descriptor survives a
rename and an unlink, and a second `open("wb")` truncates the file of the first.
Contents are chunks that are right, wrong or missing. `regime`, chosen in the
initial state, selects between one fetcher in a hostile world (servers, kills)
and two fetchers in an honest one; each property says which it speaks of.

**QemuBoot** has the pipe, the buffer inside `read(65536)` and the log as three
sequences of lines, and the two threads of `run_qemu_boot` as program counters.
Lines are of three kinds: ordinary, an expected pattern, a fatal pattern. The
child may fork once; the group is signalled as a whole. `Passed` is the verdict
with an expected pattern and without any.

**RuntimePublish** has one action per file read, made, replaced or hashed by a
run, with the images in the order they are published. An image is named by the
run whose inputs it is made from, and its digest is that name. `alone` is
history: no other run has overlapped. The staged rootfs is read twice, by `Audit`
(`runtime_rootfs.py` 984) and by `Load` (998); `audited` is what the first reading
found and the manifest reports on. Temporary files of `mkstemp` are private to a
run and left out.

**CacheRelocation** has the list of path-sensitive artifacts as numbers in the
order of the list (`Bin` is the compiler's), each with the place and schema it was
installed for. Installing, moving and checking out are the user's, external.

**FdtParser** is `FlattenedDeviceTree`. The structure block is a sequence of
32-bit words, each chosen when the parser first looks at it: `fdtBlock` is what it
has gone past, so one behaviour is one block, and TLC goes through all of them. A
name is words without a NUL and a last one with it; property data are any words,
tokens among them. `ReadHeader` has the artifact's real size, the total size
claimed and the span of the block. The tree is a parent for each node and an
owner for each property. `WellFormed` and `Around` are the format said again
without a parser, by counting tokens.

**NewcArchive** has streams of records: entries, trailers, runs of NULs and
records that cannot be read. `Write` gives back a stream that is parsed again.
`ReadTurn` is a turn of `read`'s loop; `Along` has what `parts` is
after each part of its candidate. External, after `unpack_to_rootfs` and the path walk of
Linux, are `Unpacked` and `Walk`, which the audits rely on without saying so: the
comments at 157 and 248-250 name the kernel's behaviour. `Walk` has where the
kernel is after each number of steps; `Enough` is a number of them that suffices
for all the links that `read` may follow.

**SourceIdentity** is `source_identity`, one action per git command and, for each
untracked file, one for `is_file()`, one for `stat()`, one for `open()` and one for each
chunk that `_sha256_file` reads. Between any two the user replaces a file, deletes
it or writes it in place (`Edit`, `Rewrite`: only the second shows through the open
descriptor), stages, flags, commits or checks out. A content is the sequence of its
pieces, a size their number, a hash the sequence that went into it. History are
`srcMoved` (HEAD, the index or its flags have changed during the run), `srcSeen` (each
file's contents) and `srcTorn` (the files that changed while they were looked at).

**BootImage** has no state: what images hold and what the validators and
extractors make of it. Bytes are payloads, a checksum or hash is the payload it
was made of, so "damaged" is a checksum of something else.

**SmokeBoot** is runs of `qemu_boot.py` on one path. Every test and reading of the
source is an action, with a user who may replace it between any two and kill a
run anywhere. `bootMade` is what a run has read and hashed, `bootDir` what the
directory holds, `bootLoaded` what QEMU opened. `bootAlike` is history: the source
has not changed and no overlapping run has asked for another configuration.

### What the properties say

| property | module | in words |
|---|---|---|
| StampCoversBlock | SpectrumConfig | a delivered block was sampled under its stamp; a lone retune is never missed |
| DiscardsOnlyOnRetune | SpectrumConfig | none of the three attempts is used up without a real change |
| ImplementsFrameSource | SpectrumConfig | epochs separate configurations, over discarded blocks and the wrap |
| SettlesOnConfiguration | SpectrumConfig | a quiet radio, and clients that have frames captured, end in one epoch with the true stamp |
| BuffersNotShared | FftOffload | the CPU writes or reads no buffer of a run in progress |
| PacketsFromAcceptedBlock | FftOffload | each packet is of all of the accepted block, and of nothing else |
| OffloadEnds | FftOffload | an offload ends though the accelerator does not |
| StreamIsWellFormed | Streamer | whole packets, in order, one cut short is the last, and of a frame no more than one send after its deadline, however slowly the peer reads |
| DeadClientsAreDropped | Streamer | a peer that is gone or stalls loses its place |
| ImplementsAtomicEntry, NoLitter, UsesWhatWasVerified | ContentCache | see 1.2 |
| SettlesIntact | ContentCache | colliding fetches leave a whole entry or none once all are over |
| VerdictSeesWholeLog, LogIsPrefix, Returns | QemuBoot | see 1.3 |
| VouchesForOwnImages, SettledManifestMatches | RuntimePublish | see 1.4 |
| StampVouches, RunsOnlyWholeToolchain | CacheRelocation | see 1.5 |
| AcceptsExactlyTrees | FdtParser | accepted are one balanced tree and END, and no other block; each node and property is where it belongs |
| ReadsWithinArtifact | FdtParser | whatever the header claims, no word beyond the artifact is read |
| AuditsWhatIsUnpacked | NewcArchive | an accepted stream unpacks to the entries audited, each name once |
| WrittenIsReadBack | NewcArchive | what a builder writes is parsed to the same entries, up to the limit |
| ReadsWhatTheKernelOpens | NewcArchive | through real directories, `read` and the kernel's walk agree |
| DescribesWhatWasThere | SourceIdentity | while only files are edited, each tracked one is described as it was at some moment, an untracked one by sizes and pieces it had, of one content if left alone; clean means its commit |
| BootsWhatItReports | SmokeBoot | alike runs on an unchanged source boot what they hashed, after whatever earlier runs left |
| HoldsOnlyCheckedFiles | SmokeBoot | every file of the directory was checked as the bytes it holds |
| BootsWholeSource | SmokeBoot | only a whole source is booted, in the configuration asked for |

`StampCoversBlock` says exactly what two readings can give. An attribute changed
and changed back between them (A, B, A) is invisible to the code; the property
allows that case and no other. `ReadsWhatTheKernelOpens` is limited in the same
way: `..` in a link's target takes away the name before it, which is not what the
kernel does where that name is itself a link or a file, and intermediate links
are not followed at all, the root's own entry, if it has one, included;
`newcPlain` is exactly "this has not happened".
`WrittenIsReadBack` says what is known of the limit: an archive of as many entries
as parse admits is written without complaint and refused at its trailer.
`DescribesWhatWasThere` says what is left of an untracked file that is edited in the
middle: a size and a hash that need not belong together, each put together from what
the file was. The reading by git of a tracked file is git's, and taken as one step.
`BootsWhatItReports` says nothing of runs with different configurations: they
share a directory, and one boots what the other has written. `VouchesForOwnImages`
says nothing of a manifest whose run was overlapped by another, and
`SettledManifestMatches` nothing of the images after a run that failed: what is
promised is that neither spoils what a later run, alone and successful, leaves.

## 3. Runs

| run | bounds | distinct states |
|---|---|---|
| spectrum | 2 values; rate and LO retuned, bandwidth fixed after set-up; 2 attempts; epochs modulo 4 | 434,292 |
| fft | 3 pieces a block, 2 attempts, sequence modulo 3 | 3,475 |
| streamer | 2 peers, queue of 2, packets of 2 units, send buffer of 3, sequence modulo 3, epoch modulo 2 | 760,658 |
| cache | 2 chunks, 1 reader that verifies and then uses; 1 fetcher with a hostile server and kills, or 2 fetchers with an honest one | 446,113 |
| qemu | 4 lines, pipe 2, chunk 2, cap 3, one fork | 113,116 |
| runtime | 2 preparers, 2 base images and 1 derived | 2,288,895 |
| reloc | 2 places, 2 schemas, 3 artifacts with the compiler in the middle | 1,864 |
| inputs | blocks of 9 words; streams of 4 records, trees of links, one stream too long, 5 entries; 1 file, 2 contents (of one piece and of two), 2 commits; 2 runs, 2 sources after one another out of about 60 | 2,692,702 |
| cache_race, qemu_timeout, reloc_readme, identity_unborn | see section 6 | violated |

Why these are enough to meet the interesting cases:

* spectrum: two values make A-B-A and a torn reading possible; two independent
  attributes make readings that mix two configurations; two attempts give one
  discard and the fatal limit; MaxStep is 3 and the modulus 4, the smallest the
  assumption allows, so an epoch wraps while it is being advanced. The theorems
  remove the bounds.
* fft: three pieces leave a middle one stale after a discarded attempt; a modulus
  of 3 tells a frame from the last one and lets the number wrap.
* streamer: two peers are needed for one to wait behind the other; two units
  split a packet; a buffer of three holds one packet and half of the next, so a
  deadline hits between and inside packets.
* cache: two chunks distinguish empty, half and whole; an overlong body is one
  chunk more than fits. `Files` is two names and one descriptor per process.
  The hostile run has one fetcher since with two even an honest server breaks
  the promise (section 6).
* qemu: the cap (3) falls inside the second chunk (2 + 2), and the pipe fills up
  and blocks the writer. MaxLines = 4 is the one bound on the child's output.
* runtime: the device tree is handled as the kernel is, and the derived images
  alike. Both runs may overlap at every file, fail and repeat.
* reloc: an artifact before the compiler, the compiler, one after it.
* inputs holds four independent models in one state space: `input` says which one
  moves, the others stay where they begin. The smallest device tree takes four
  words, a property at least three: nine hold a child in a root, a node between
  two properties, and data that look like tokens. `Text` is the word that is
  neither NUL, a token nor a length that fits. Five entries and inodes to 3 put
  both limits within reach of a stream of four; three turns of `read` (16 in the
  code) tell a loop, a chain and a depth apart. Some of the trees have an entry for
  their root, a directory or a link. One file is enough for
  SourceIdentity, since its files are described one by one, and two contents for
  an edit and an edit back; they differ in size and in their first piece, so that
  sizes that do not go with a hash and hashes of no content are reached. The boot images are good ones, each with every single
  thing wrong that the code looks at; two runs and one replacement give every
  order of the reads, the writes and the kills.

Deadlock is checked for runtime and reloc, which are never without a next step.
The others may stop: a parser has accepted or refused, the streamer exits on failures (`failed`), a QEMU run is
over when it returns, and in ContentCache there is nothing to read where no
fetcher is left to run.

## 4. Fairness

* SpectrumConfig: a capture that has begun is carried on (`Capture`), as the streamer is
  a running process whose reads return or fail. No capture need begin: without a
  client main blocks in `accept()`, and then the latest frame stays as it is, stale if
  the radio was retuned since. Nothing is assumed of iiod's clients either. So
  `SettlesOnConfiguration` speaks of the behaviours in which they leave the radio alone
  and frames are captured again and again.
* FftOffload: the CPU's steps within a frame are weakly fair (`Frame`) and the five
  seconds pass (`Expire`); no frame need begin, for the same reason, and the
  accelerator is under no obligation.
* Streamer: main is weakly fair and the deadline passes; peers, signals and
  failures are not. In particular a peer need not read.
* QemuBoot: both threads are weakly fair and timeouts expire. The child need not
  exit, and need not heed SIGTERM; SIGKILL ends it. `Returns` assumes of a
  descendant that it does not run for ever. One assumption of time is made, in
  `Join`: two seconds are enough to drain what a pipe and a chunk can hold when
  nobody is left to write.
* ContentCache, RuntimePublish, CacheRelocation, FdtParser, NewcArchive,
  SourceIdentity, SmokeBoot: safety only, none is assumed.

## 5. Proofs

Proved by TLAPS for every value of the constants that satisfies the named
ASSUMEs in the modules (each evaluated by TLC in the runs as well):

**SpectrumConfig_proofs.** `TypeCorrect`, `StampCorrect`, `DiscardCorrect`,
`SettledCorrect`, `SettlesCorrect` and `Refinement` (the capture implements FrameSource, its fairness aside, of which
FrameSource has none). StampCoversBlock alone is not inductive. IInv adds
`ReadingInv` (what has been read is a value), `ObservedInv` (during an attempt,
`observed` is `before`), `WindowInv` and `EpochInv`. WindowInv is the heart of the
stamp: an attribute unchanged since its first read still equals that reading,
one changed once differs from it. EpochInv is the heart of the refinement: the
observed epoch is the frame's, advanced `since` times, and an attempt adds at most
two; since `MaxStep` = 2*MaxAttempts - 1 is assumed to be below the modulus (5 against 2^32 in the code),
no number of discarded blocks brings the epoch round to where it was.

`SettledCorrect` and `SettlesCorrect` are `SettlesOnConfiguration` without its
fairness. `Settled` says that the configuration observed last is that of the radio and
that the reading in progress has nothing else (`Untorn`): while the radio is left alone
that stays, no block is discarded, no epoch begins, and frames have the true
configuration. Before, `Distance` goes down with every step: it counts to the end of
the reading in progress and, if that one is torn, to the end of the next.

**FftOffload_proofs.** `TypeCorrect`, `NoSharing` and `PacketsCorrect`, for any
number of pieces, attempts and sequence numbers. IInv says that the accelerator
is busy only while the CPU waits for it or has failed (`BusyInv`), that what it
has read and stored is of the current block only (`RunInv`), and that the STATUS
the CPU read remains true of it (`StatusInv`): DONE is not withdrawn and BUSY
does not come back.

**CacheRelocation_proofs.** `TypeCorrect`, `StampCorrect` and `RunsCorrect`, for any
list of artifacts and any position of the compiler in it. IInv adds `BinIsLast`
(under a stamp, where the compiler is there so is everything behind it in the
list) and what each stage may rely on. That `bin` stands before `lib` in the list
of `build_guest_fft.sh` is what makes a half-finished invalidation harmless: in
the opposite order a kill and a move back run a compiler without its library,
which is the fault `DiscardPartBackwards`.

**ContentCache_proofs.** `TypeCorrect`, `LeavesNoPart`, `Settles`, `UsesVerified` and
`Implements` (one at a time, fetches implement AtomicEntry; the refinement mapping
shows the entry and nothing of its part), for any number of fetchers, readers,
chunks and files. IInv says that part and destination are never the same
file, that each process has the file open that its place in the code needs
(`InRole`), and that a part nobody was killed over still has a fetch to come past
it (`Attended`). Of overlapping fetches `Settling` says that every chunk a named
file lacks has a writer that has not yet come to it, which at rest is nobody. Of
fetches one at a time `Exclusive` says that the part that is about to be renamed
has the digested bytes (`Sound`), because no other fetch has it open.

**Inputs_proofs**, in four sections.

*SmokeBoot.* `BootsCorrect`, `HoldsCorrect`, `BootsWhole` and `SmokeTypeCorrect`, for
any number of runs, any sources and configurations. For the first,
BootsWhatItReports is strengthened by what each run is in the middle of: what it
has made is the result of the source it began with (`MadeOfSource`), alike runs
have made the same (`Together`), and what it has written is still there (`Kept`).
For the second, a lemma per extractor says that its result is vouched for by the
source it was given, and CheckedInv that a run's files were vouched for by one of
the sources there have been. For the third, WholeInv keeps what has been decided
by each stage: a bundle that gets past `validate` had no issues and no
configuration was asked for (`Validated`), and what a run has made is complete
(`Complete`), with names that the directory can hold. That members and
configurations are sequences is assumed (`ContentsAssumption`), and of a trailer that
it is one of the six that `validate_fit_image` tells apart.

*FdtParser.* `FdtTypeCorrect`, `ReadsCorrect`, `BuildsOneTree` and `AcceptsTrees`, for
blocks of any length. FdtInv says that no more words are read than the header
gives the block and no more given than the artifact has (`WithinSpan`), and that
the open nodes are a path of one tree with every property in one of its nodes
(`OneTree`), which holds of what has been built of a bad block as well.
`AcceptsTrees` compares the machine with the definition that counts tokens
(`Tokens`, `Depth`, `Around`). `IsTokenUnfolds` shows that the recursive function in
`Tokens` exists, by taking the least set closed under "the place behind one of
them", and `TokensAre` that there is no other, by the least place at which two
such sets differ. `TokensGrow` is then what makes the proof inductive: a block
that grows by one whole token has one token more, and counts, depths and nodes
around the earlier ones stay. BlockInv keeps the correspondence (`Parsed`): nodes
and properties are the tokens of their kind, placed where counting puts them, and
the open nodes are as many as the block is deep, each the last to begin on its
level (`OpenNodes`). A refusal inside a token leaves a block whose last word is
operand and not END (`RefusedInside`).

*NewcArchive.* `NewcTypeCorrect`, `Audits`, `ReadsBack`, `OpensTheSame` and
`LoopHasNoExit`, for streams and archives of any length, any additions, replacements,
targets and limits. NewcInv says that the entries so far
are the records so far (`Parsing`), that an accepted stream has its entries first,
nothing but trailer and padding behind them and every name once (`Accepted`), and
that what was written is what is being read (`ReadBack`). From names that occur
once follows that the kernel's last record of a name and `_by_name`'s are the same
(`OncePerName`).

`OpensTheSame` compares `read`, which takes a path as a whole, with the kernel, which
takes it part by part. `AlongUnfolds` and `WalkUnfolds` show that the two recursive
functions exist. The invariant is that after some number of steps the walk stands
exactly where `read` is, with nothing of a path left but the name looked up
(`InStep`, `OnTrack`): it holds at the start (`StartsInStep`), each link followed
through real directories keeps it (`StaysInStep`), and the number grows by no more
than the longest target and one, so it is within `Enough` when `read` ends
(`EndsInStep`). A walk that has ended stays (`WalkStays`), which settles "found" and
"lacks". For "loop", two steps of the walk at which it stands the same make it a
circle (`WalkRepeats`, `CircleHasNoEnd`): `LoopHasNoExit` is the stronger result, that
no number of steps gets it out. The bound was found this way: an earlier one was
sized for the instance, and a root that is itself a link, which no instance had,
was a counterexample until `newcPlain` asked about the root as well.

Streams are assumed to be sequences of records whose names and targets are
sequences, with no `.` or `..` in a name that `_validate_name` lets pass
(`StreamsAssumption`), the names that the builders add to be safe in the same way
(`AdditionsAssumption`), and `read` to follow at least one link.

*SourceIdentity.* `SrcTypeCorrect` and `Describes`, for any files, versions and
commits. `Steady` says, while only files are edited, what each command of git has
established by then and that it stays: an untracked name, an empty diff was
true of the file at some moment of the description, and the commit is the head. For
the untracked files `AllHashedRight` says it of those that are done and
`BeingReadRight` of the one in hand: its size and the pieces so far are of contents it
had, and unless it was touched they are the beginning of what it is. The set of the
contents only grows, which keeps both (`PieceMore`, `PiecedOfMore`).

**RuntimePublish_proofs.** `TypeCorrect`, `VouchesCorrect` and `SettledCorrect`, for any
number of runs, any lists of images and any options. What a manifest vouches for
says nothing of the runs that are still at work, so IInv adds for each of them
where it is (`Position`), what it may have recorded by then (`Recorded`: nothing but
images it was asked for) and that a run alone so far has staged, audited, loaded,
published and recorded its own inputs only (`Own`); and `ManifestInv` for
the manifest and the images it is settled with. The lists are assumed to be
sequences of names, and no manifest to be the mark of an absent or a torn one.

**QemuBoot_proofs.** `TypeCorrect`, `PrefixCorrect`, `VerdictCorrect`,
`NeverStuckAlways` and `CountsDown`, for output, pipes, chunks and caps of any size. The log, the reader's buffer and the pipe,
one after another, are what was written with at most one gap (`InOrder`), and the
gap is there exactly when `output_truncated` is set, behind a full log (`Gap`).
`Drained` says that a reader whose child had the pipe to itself ends only when
there is nothing left of it. That read(2) gets a chunk of at least one line is
used: a chunk of none would look like the end of the file.

`NeverStuckAlways` and `CountsDown` are `Returns` without its fairness. Until the call
has returned the guards of one thread hold, unless a descendant keeps the pipe open
(`Poised` adds, among others, that after SIGKILL the child is dead and that the second
join comes after the close). `Work` counts the stages that main has before it and
weighs the lines in the pipe and in the reader's hands: every step of a thread
brings it down, and only a line being written brings it up. So with nobody left
to write, the call returns after at most `Work` steps of the two threads. That they take
these steps is what fairness says, and TLC checks the whole.

**Streamer_proofs.** `TypeCorrect`, `StreamCorrect` and `PatienceCorrect`, for any peers, packet and buffer
sizes and any counter width. `WireInv` is the strengthening: what main believes to
have sent (`sequence`, `channel`, `sent`) is what the connection has got, in each of
the three places a send can be at, before a frame, between its two packets and
inside one; and once a part of the frame was sent late (`Begun`), main does not get to
another send of it. Two frames of one epoch have one configuration by what FrameSource
promises, which SpectrumConfig_proofs shows the capture to keep.

`PatienceCorrect` is `DeadClientsAreDropped` without its fairness. `Patience` weighs the
room left in the send buffer, which a peer that does not read never gives back,
above the place that main is at between two sends. Every step of main for such a
client takes some of it, and the only step that gives some back is a send
interrupted before the deadline, which passes. The fault `WaitRestartsDeadline`, a
deadline for each wait, breaks exactly this.

Only model-checked is liveness as such: `SettlesOnConfiguration`, `OffloadEnds`,
`DeadClientsAreDropped` and `Returns`. It rests on fairness, hence on ENABLED, which
the provers do not do. Their safety halves are proved as said above, but for
`OffloadEnds`, where it would say no more than that the three places between the
deadline and the end follow one another.

## 6. Disagreements found

1. `cache_race` / `DownloadIsAtomic`. `docs/PROVENANCE.md:12` calls downloading
   "content-addressed and atomic". Two processes that fetch one artifact share
   one `.part`; the second truncates the file that the first, having digested
   what it received, renames into place. The entry is there, under its digest,
   with other bytes, until the second has written them. With an honest server
   and no kill it is whole in the end (`SettlesIntact`), and whoever verifies it
   meanwhile fails and does not use it.
2. `qemu_timeout` / `HardTimeout`. The docstring of `run_qemu_boot` promises to
   "enforce a hard timeout". A descendant with the pipe open keeps the reader in
   `read(65536)`, which holds the lock `process.stdout.close()` waits for, without a
   limit. Running it with a child that leaves `sleep` behind shows the same.
3. `reloc_readme` / `DocumentedInstallServes`. `README.md:65-68` installs the toolchain
   with one `mamba create`. Nothing stamps it, the guard takes it for a legacy
   cache and removes it, and the build asks for it. Running
   `build_guest_fft.sh` on a prefix made that way shows the same: exit 2, `bin` gone.
4. `identity_unborn` / `UnbornOnlyBeforeFirstCommit`. `provenance.py:65-66` says its
   except branch "exists only so the source gate can run before the repository's
   initial commit". It is taken whenever one of three commands fails, `git diff`
   among them, and the record of a checkout with commits then says "unborn".

Four more were seen and have no run. `source_identity` promises "all source bytes in
one record" (`provenance.py:136`); an untracked file that is edited between `stat()`
and the end of the chunked read (93-94, 23-28) is recorded with a size and a hash of
no state it was ever in, as `DescribesWhatWasThere` allows where `srcTorn` says so. The manifest says "all published runtime
outputs", while derived images of an earlier run with more options stay in the
directory unlisted. `extract_p210_bundle` promises a "validated device tree"
(`boot_harness.py:353`) and takes it from a second reading of the bundle, which is
only parsed: `HoldsOnlyCheckedFiles` says what remains true. `validate_fit_image`
speaks of "all declared hash subnodes" (`firmware.py:451`); nodes named `hash-1`, as
newer FITs have them, are not looked at.

## 7. Not modelled

* Loss of power. ContentCache has kills, which leave the page cache; the fetch
  does not `fsync`, so what a power cut leaves is not decided by this code.
* The NSFT encoding (`encode_log_power` is floating point, the header a fixed
  layout) and start-up (one pass, exits on any failure).
* What the ELF, kernel and rootfs audits accept: long lists of demands on the bytes
  of one file each. In RuntimePublish an audit that rejects is `Fail`.
* Of overlapping preparers nothing is promised but that they do not spoil what
  a later run, alone, vouches for; the code has nothing to order them.
* XSA, interface, locks, CLI, `test_firmware.py`: one pass over static data, or the
  sequencing of commands.
* The bytes of a cpio header, gzip, and the kernel command line taken from a device
  tree or `uEnv.txt`.
* Checkouts with submodules in SourceIdentity; `git rm --cached`; files that change
  while git itself reads them.
* In QemuBoot: the branches for systems that are not POSIX.

## 8. Plan

Done, in this order, the most important behaviour first: FrameSource and
SpectrumConfig; FftOffload; Streamer; AtomicEntry and ContentCache; QemuBoot;
CacheRelocation; RuntimePublish, the audit's reading of the rootfs included;
FdtParser; NewcArchive; SourceIdentity; BootImage and SmokeBoot. All have proofs:
every safety property that a passing run checks is a theorem.

To extend the model:

1. `GuestAudit`: the closure of ELF interpreters and needed libraries that
   `audit_pluto_rootfs` computes, against reachability.
2. `locks.py` and `manifest.py`'s schema, if they come to decide on more than shape.
