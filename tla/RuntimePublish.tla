---------------------------- MODULE RuntimePublish ----------------------------
(***************************************************************************)
(* scripts/prepare_runtime.py (118-241), prepare_p210_runtime and          *)
(* combine_runtime_artifacts (runtime_rootfs.py 954-1074), the builders of *)
(* the derived images (1154-1267) and finish_runtime_manifest              *)
(* (manifest.py 16-70): how a run leaves its images and the manifest that  *)
(* vouches for them in the output directory.                               *)
(*                                                                         *)
(* A run stages the extracted inputs under .inputs, reads them back,       *)
(* publishes the three base images, builds the derived images it was asked *)
(* for from the published rootfs, hashes everything by name and writes the *)
(* manifest, the only file that is not replaced atomically.  It may fail   *)
(* or be killed anywhere, is repeated with other options, and nothing      *)
(* keeps a second preparer away from the directory.                        *)
(*                                                                         *)
(* Each preparer works on inputs of its own; an image is named by the      *)
(* preparer whose inputs it comes from, and so is its digest.              *)
(***************************************************************************)
EXTENDS Naturals, Sequences, SequencesExt

CONSTANTS Preparer,   \* runs of prepare_runtime.py, by their inputs
          Base,       \* the base images, in the order they are published in
          Derived,    \* the derived images, in the order they are built in
          Absent,     \* no file, no digest
          Torn        \* part of a file's contents

Order == Base \o Derived
Image == Range(Order)
BaseImage == Range(Base)
Option == Range(Derived)

ASSUME SequenceAssumption == Base \in Seq(STRING) /\ Derived \in Seq(STRING)
ASSUME BaseAssumption == "rootfs" \in Range(Base)
ASSUME OrderAssumption == IsInjective(Order)

ASSUME PreparerAssumption == {Absent, Torn} \cap Preparer = {} /\ Absent # Torn

Content == Preparer \cup {Absent}

VARIABLES
    staged,     \* the base images under .inputs
    image,      \* the images in the output directory
    manifest,   \* runtime-manifest.json
    pc,         \* where each preparer is
    step,       \* the image it is at
    options,    \* the derived images it was asked for
    audited,    \* the rootfs it has audited
    data,       \* the images it has in memory, and the one it is publishing
    records,    \* generated_artifacts, as far as it has been filled in
    alone,      \* history: no other run has overlapped this one
    settled     \* history: the latest run succeeded and none has begun since

local == <<pc, step, options, audited, data, records>>
vars  == <<staged, image, manifest, local, alone, settled>>

Location == {"idle", "extract", "audit", "load", "build", "replace", "hash", "open", "write"}

Record == [Image -> Content]
None   == [i \in Image |-> Absent]

Manifest == [records : Record, audited : Content, preparer : Preparer, alone : BOOLEAN]

ASSUME ManifestAssumption == {Absent, Torn} \cap Manifest = {}

TypeOK ==
    /\ staged \in [BaseImage -> Content]
    /\ image \in Record
    /\ manifest \in Manifest \cup {Absent, Torn}
    /\ pc \in [Preparer -> Location]
    /\ step \in [Preparer -> 1 .. Len(Order)]
    /\ options \in [Preparer -> SUBSET Option]
    /\ audited \in [Preparer -> Content]
    /\ data \in [Preparer -> Record]
    /\ records \in [Preparer -> Record]
    /\ alone \in [Preparer -> BOOLEAN]
    /\ settled \in BOOLEAN

Init ==
    /\ staged = [i \in BaseImage |-> Absent]
    /\ image = None
    /\ manifest = Absent
    /\ pc = [p \in Preparer |-> "idle"]
    /\ step = [p \in Preparer |-> 1]
    /\ options = [p \in Preparer |-> {}]
    /\ audited = [p \in Preparer |-> Absent]
    /\ data = [p \in Preparer |-> None]
    /\ records = [p \in Preparer |-> None]
    /\ alone = [p \in Preparer |-> FALSE]
    /\ settled = FALSE
-------------------------------------------------------------------------------
Active == {p \in Preparer : pc[p] # "idle"}

\* The image p is at, and whether images are left after it: of all the selected
\* ones, or of the base images while inputs are extracted and read.
Current(p) == Order[step[p]]

Selected(p) == BaseImage \cup options[p]

Later(p, among) == {k \in step[p] + 1 .. Len(Order) : Order[k] \in among}

\* p goes on with the next image at `again', or with the first one at `next'.
Advance(p, among, again, next) ==
    \/ \E k \in Later(p, among) :
          /\ \A l \in Later(p, among) : k <= l
          /\ step' = [step EXCEPT ![p] = k]
          /\ pc' = [pc EXCEPT ![p] = again]
    \/ /\ Later(p, among) = {}
       /\ step' = [step EXCEPT ![p] = 1]
       /\ pc' = [pc EXCEPT ![p] = next]

\* main is over, and with it everything it held in memory.
Return(p) ==
    /\ pc' = [pc EXCEPT ![p] = "idle"]
    /\ step' = [step EXCEPT ![p] = 1]
    /\ options' = [options EXCEPT ![p] = {}]
    /\ audited' = [audited EXCEPT ![p] = Absent]
    /\ data' = [data EXCEPT ![p] = None]
    /\ records' = [records EXCEPT ![p] = None]
    /\ alone' = [alone EXCEPT ![p] = FALSE]

\* main with some of its options.
Begin(p) ==
    /\ pc[p] = "idle"
    /\ \E chosen \in SUBSET Option : options' = [options EXCEPT ![p] = chosen]
    /\ pc' = [pc EXCEPT ![p] = "extract"]
    /\ alone' = [q \in Preparer |-> IF q = p THEN Active = {}
                                   ELSE alone[q] /\ q \notin Active]
    /\ settled' = FALSE
    /\ UNCHANGED <<staged, image, manifest, step, audited, data, records>>

\* Fault: an input that has been extracted before is not extracted again.
ExtractOnce(p) ==
    /\ pc[p] = "extract"
    /\ staged' = [staged EXCEPT ![Current(p)] = IF @ = Absent THEN p ELSE @]
    /\ Advance(p, BaseImage, "extract", "audit")
    /\ UNCHANGED <<image, manifest, options, audited, data, records, alone, settled>>

\* extract_p210_bundle, extract_pluto_archive: _atomic_write of one input.
Extract(p) ==
    /\ pc[p] = "extract"
    /\ staged' = [staged EXCEPT ![Current(p)] = p]
    /\ Advance(p, BaseImage, "extract", "audit")
    /\ UNCHANGED <<image, manifest, options, audited, data, records, alone, settled>>

\* audit_pluto_rootfs: it reads the staged rootfs by name.
Audit(p) ==
    /\ pc[p] = "audit"
    /\ audited' = [audited EXCEPT ![p] = staged["rootfs"]]
    /\ pc' = [pc EXCEPT ![p] = "load"]
    /\ UNCHANGED <<staged, image, manifest, step, options, data, records, alone, settled>>

\* combine_runtime_artifacts: read an input back, the rootfs once more.
Load(p) ==
    /\ pc[p] = "load"
    /\ data' = [data EXCEPT ![p][Current(p)] = staged[Current(p)]]
    /\ Advance(p, BaseImage, "load", "build")
    /\ UNCHANGED <<staged, image, manifest, options, audited, records, alone, settled>>

\* The image is made, a derived one from the rootfs in the output directory, and
\* written to a temporary file that mkstemp names for this run alone.
Build(p) ==
    /\ pc[p] = "build"
    /\ data' = [data EXCEPT ![p][Current(p)] = IF Current(p) \in BaseImage THEN @
                                               ELSE image["rootfs"]]
    /\ pc' = [pc EXCEPT ![p] = "replace"]
    /\ UNCHANGED <<staged, image, manifest, step, options, audited, records, alone, settled>>

\* _atomic_copy: temporary.replace(path).
Replace(p) ==
    /\ pc[p] = "replace"
    /\ image' = [image EXCEPT ![Current(p)] = data[p][Current(p)]]
    /\ Advance(p, Selected(p), "build", "hash")
    /\ UNCHANGED <<staged, manifest, options, audited, data, records, alone, settled>>

\* Fault: the loop over the images runs one past the end.
HashOnePast(p) ==
    /\ pc[p] = "hash"
    /\ records' = [records EXCEPT ![p][Current(p)] = image[Current(p)]]
    /\ step' = [step EXCEPT ![p] = @ + 1]
    /\ UNCHANGED <<staged, image, manifest, pc, options, audited, data, alone, settled>>

\* Fault: a digest the manifest in the directory already has is taken from it.
HashCached(p) ==
    /\ pc[p] = "hash"
    /\ LET known == IF manifest \in {Absent, Torn} THEN Absent
                    ELSE manifest.records[Current(p)]
       IN  records' = [records EXCEPT ![p][Current(p)] =
                           IF known # Absent THEN known ELSE image[Current(p)]]
    /\ Advance(p, Selected(p), "hash", "open")
    /\ UNCHANGED <<staged, image, manifest, options, audited, data, alone, settled>>

\* file_record: the file of that name is read and hashed.
Hash(p) ==
    /\ pc[p] = "hash"
    /\ records' = [records EXCEPT ![p][Current(p)] = image[Current(p)]]
    /\ Advance(p, Selected(p), "hash", "open")
    /\ UNCHANGED <<staged, image, manifest, options, audited, data, alone, settled>>

\* manifest_path.write_text: the manifest is cut to nothing ...
OpenManifest(p) ==
    /\ pc[p] = "open"
    /\ manifest' = Torn
    /\ pc' = [pc EXCEPT ![p] = "write"]
    /\ UNCHANGED <<staged, image, step, options, audited, data, records, alone, settled>>

\* ... and written.  What two runs write at once need not be a manifest.
WriteManifest(p) ==
    /\ pc[p] = "write"
    /\ \/ manifest' = [records |-> records[p], audited |-> audited[p],
                        preparer |-> p, alone |-> alone[p]]
       \/ ~alone[p] /\ manifest' = Torn
    /\ settled' = alone[p]
    /\ Return(p)
    /\ UNCHANGED <<staged, image>>

\* An OSError, ValueError or KeyError (exit 2), or a kill: nothing published is
\* taken back.
Fail(p) ==
    /\ pc[p] # "idle"
    /\ Return(p)
    /\ UNCHANGED <<staged, image, manifest, settled>>

Run(p) ==
    \/ Begin(p) \/ Extract(p) \/ Audit(p) \/ Load(p) \/ Build(p) \/ Replace(p) \/ Hash(p)
    \/ OpenManifest(p) \/ WriteManifest(p) \/ Fail(p)

Next == \E p \in Preparer : Run(p)

Spec == Init /\ [][Next]_vars
-------------------------------------------------------------------------------
Written == manifest \notin {Absent, Torn}

Listed == {i \in Image : manifest.records[i] # Absent}

\* A manifest written by a run that had the directory to itself vouches for
\* whole images of that run and no others, and reports on the rootfs that is one of
\* them although the rootfs is read twice, whatever failed, killed, overlapping
\* or differently equipped runs there were before or will be after.
VouchesForOwnImages ==
    (Written /\ manifest.alone) =>
        /\ \A i \in Listed : manifest.records[i] = manifest.preparer
        /\ manifest.audited = manifest.preparer

\* After such a run has succeeded, and until the next begins, every image listed
\* is in the directory with the digest recorded.
SettledManifestMatches ==
    settled => /\ Written /\ BaseImage \subseteq Listed
               /\ \A i \in Listed : image[i] = manifest.records[i]
===============================================================================
