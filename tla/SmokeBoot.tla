------------------------------- MODULE SmokeBoot -------------------------------
(***************************************************************************)
(* scripts/qemu_boot.py, and extract_boot_artifacts and build_qemu_command *)
(* (boot_harness.py): a run finds out what its source is, reads it once    *)
(* more, twice for a P210 bundle, writes what is to be booted to a work    *)
(* directory and names the files to QEMU, which opens them.                *)
(*                                                                         *)
(* The directory is that of the source's path unless the user gives one:   *)
(* runs on one path share it, whatever the configuration, and whatever the *)
(* path holds by then.  The user may replace the source and kill a run at  *)
(* any time.  QemuBoot models what happens once QEMU is started.           *)
(***************************************************************************)
EXTENDS BootImage

CONSTANTS Runner,         \* runs of qemu_boot.py on the one path
          Asked,          \* --configuration, or None
          Contents,       \* what the source is at first
          Replacements,   \* what the user may put in its place
          MaxOffered      \* bound: contents of the source in all

ASSUME MaxOfferedAssumption == MaxOffered \in Nat \ {0}

\* The FITs in a content of the source.
FitsIn(c) == IF c.format = "zip" THEN {c.members[i] : i \in DOMAIN c.members}
             ELSE {d \in {c} : c.format = "fit"}

\* The members of an archive are a sequence, as are the configurations of a FIT,
\* and behind a FIT is nothing, one of the two trailers, good or bad, or other bytes.
ASSUME ContentsAssumption ==
    \A c \in Contents \cup Replacements :
        /\ c.format = "zip" => DOMAIN c.members = 1 .. Len(c.members)
        /\ \A fit \in FitsIn(c) :
              /\ fit.configurations \in Seq({fit.configurations[i] : i \in DOMAIN fit.configurations})
              /\ fit.trailer \in {"none", "md5", "dfu", "bad md5", "bad dfu", "other"}

BootFile == {"kernel.bin", "devicetree.dtb", "ramdisk.img", "ramdisk.img.gz"}

\* The order in which they are written.
Rank(f) == CASE f = "kernel.bin" -> 1 [] f = "devicetree.dtb" -> 2 [] OTHER -> 3

VARIABLES
    bootOffered,  \* history: the contents the source has had, the last of them now
    bootDir,      \* the work directory: of each file there, the payload
    bootPc,       \* where each run is
    bootAsked,    \* its --configuration
    bootMade,     \* its artifacts: of each file, the payload its hash is of
    bootLeft,     \* the files it has yet to write
    bootLoaded,   \* what its QEMU has loaded
    bootFrom,     \* history: the contents it found the source to have when it began
    bootAlike     \* history: since then the source has stayed the same, and any
                  \* other run has had the same of it, and the same configuration

bootRun  == <<bootAsked, bootMade, bootLeft, bootLoaded, bootFrom>>
bootVars == <<bootOffered, bootDir, bootPc, bootRun, bootAlike>>

Source == bootOffered[Len(bootOffered)]

NoFiles == [f \in {} |-> None]

SmokeTypeOK ==
    /\ Len(bootOffered) \in 1 .. MaxOffered
    /\ DOMAIN bootDir \subseteq BootFile
    /\ bootPc \in [Runner -> {"idle", "zip", "tar", "magic", "readZip", "validate", "reread",
                              "readFit", "write", "build", "load", "booted", "refused"}]
    /\ \A r \in Runner :
          /\ bootAsked[r] \in Asked \cup {None}
          /\ bootPc[r] \in {"build", "load", "booted"} => bootMade[r] # NoFiles /\ bootLeft[r] = {}
          /\ bootMade[r] # NoFiles =>
                Cardinality(DOMAIN bootMade[r] \cap {"ramdisk.img", "ramdisk.img.gz"}) <= 1
          /\ bootLeft[r] \subseteq DOMAIN bootMade[r]
          /\ DOMAIN bootLoaded[r] \subseteq DOMAIN bootMade[r]
    /\ bootAlike \in [Runner -> BOOLEAN]

SmokeInit ==
    /\ \E c \in Contents : bootOffered = <<c>>
    /\ bootDir = NoFiles
    /\ bootPc = [r \in Runner |-> "idle"]
    /\ bootAsked = [r \in Runner |-> None]
    /\ bootMade = [r \in Runner |-> NoFiles]
    /\ bootLeft = [r \in Runner |-> {}]
    /\ bootLoaded = [r \in Runner |-> NoFiles]
    /\ bootFrom = [r \in Runner |-> 0]
    /\ bootAlike = [r \in Runner |-> TRUE]
-------------------------------------------------------------------------------
Active(r) == bootPc[r] # "idle"

GoTo(r, pc) == bootPc' = [bootPc EXCEPT ![r] = pc]

\* main, with a source that exists.
BeginSmoke(r, asked) ==
    /\ ~Active(r)
    /\ GoTo(r, "zip")
    /\ bootAsked' = [bootAsked EXCEPT ![r] = asked]
    /\ bootFrom' = [bootFrom EXCEPT ![r] = Len(bootOffered)]
    /\ LET Differs(q) == /\ q # r /\ Active(q)
                         /\ bootAsked[q] # asked \/ bootFrom[q] # Len(bootOffered)
       IN  bootAlike' = [q \in Runner |-> IF q = r THEN ~ \E s \in Runner : Differs(s)
                                          ELSE bootAlike[q] /\ ~Differs(q)]
    /\ UNCHANGED <<bootOffered, bootDir, bootMade, bootLeft, bootLoaded>>

\* The user replaces the source at its path.
ReplaceSource(c) ==
    /\ Len(bootOffered) < MaxOffered           \* bound
    /\ c # Source
    /\ bootOffered' = Append(bootOffered, c)
    /\ bootAlike' = [r \in Runner |-> bootAlike[r] /\ ~Active(r)]
    /\ UNCHANGED <<bootDir, bootPc, bootRun>>

Test(r, pc, format, next, otherwise) ==
    /\ bootPc[r] = pc
    /\ GoTo(r, IF Source.format = format THEN next ELSE otherwise)
    /\ UNCHANGED <<bootOffered, bootDir, bootRun, bootAlike>>

\* extract_boot_artifacts: each test of the format opens the source again.
DetectFormat(r) ==
    \/ Test(r, "zip", "zip", "readZip", "tar")
    \/ Test(r, "tar", "p210", IF bootAsked[r] = None THEN "validate" ELSE "refused", "magic")
    \/ Test(r, "magic", "fit", "readFit", "refused")

\* extract_p210_bundle: validate_p210_firmware(source_path).
ValidateBundle(r) ==
    /\ bootPc[r] = "validate"
    /\ GoTo(r, IF Source.format = "p210" /\ P210Issues(Source) = {} THEN "reread" ELSE "refused")
    /\ UNCHANGED <<bootOffered, bootDir, bootRun, bootAlike>>

Extract(r, results) ==
    /\ IF results = {} THEN GoTo(r, "refused") /\ UNCHANGED <<bootMade, bootLeft>>
       ELSE \E made \in results :
               /\ GoTo(r, "write")
               /\ bootMade' = [bootMade EXCEPT ![r] = made]
               /\ bootLeft' = [bootLeft EXCEPT ![r] = DOMAIN made]
    /\ UNCHANGED <<bootOffered, bootDir, bootAsked, bootLoaded, bootFrom, bootAlike>>

\* FirmwareBundle(source_path), and what follows.
RereadBundle(r) ==
    /\ bootPc[r] = "reread"
    /\ Extract(r, IF Source.format = "p210" THEN P210Boot(Source) ELSE {})

ReadFit(r) ==
    /\ bootPc[r] = "readFit"
    /\ Extract(r, IF Source.format = "fit" THEN FitBoot(Source, bootAsked[r]) ELSE {})

ReadZip(r) ==
    /\ bootPc[r] = "readZip"
    /\ Extract(r, IF Source.format = "zip" THEN PlutoBoot(Source, bootAsked[r]) ELSE {})

Put(dir, f, payload) == [g \in DOMAIN dir \cup {f} |-> IF g = f THEN payload ELSE dir[g]]

Written(r, f) ==
    /\ bootPc[r] = "write"
    /\ f \in bootLeft[r] /\ \A g \in bootLeft[r] : Rank(f) <= Rank(g)
    /\ bootLeft' = [bootLeft EXCEPT ![r] = @ \ {f}]
    /\ GoTo(r, IF bootLeft[r] = {f} THEN "build" ELSE "write")
    /\ UNCHANGED <<bootOffered, bootAsked, bootMade, bootLoaded, bootFrom, bootAlike>>

\* Fault: a file that is there already is taken to be the one.
WriteMissing(r, f) ==
    /\ Written(r, f)
    /\ bootDir' = IF f \in DOMAIN bootDir THEN bootDir ELSE Put(bootDir, f, bootMade[r][f])

\* _atomic_write.
WriteFile(r, f) ==
    /\ Written(r, f)
    /\ bootDir' = Put(bootDir, f, bootMade[r][f])

\* A file cannot be written, QEMU not be found, or an argument is out of range.
SmokeFails(r) ==
    /\ bootPc[r] \in {"write", "build"}
    /\ GoTo(r, "refused")
    /\ UNCHANGED <<bootOffered, bootDir, bootRun, bootAlike>>

\* build_qemu_command: the files are there, and it is for QEMU to open them.
BuildCommand(r) ==
    /\ bootPc[r] = "build"
    /\ DOMAIN bootMade[r] \subseteq DOMAIN bootDir
    /\ GoTo(r, "load")
    /\ UNCHANGED <<bootOffered, bootDir, bootRun, bootAlike>>

\* Fault: QEMU is given whatever the directory holds.
LoadFound(r, f) ==
    /\ bootPc[r] = "load"
    /\ f \in DOMAIN bootDir \ DOMAIN bootLoaded[r]
    /\ bootLoaded' = [bootLoaded EXCEPT ![r] = Put(@, f, bootDir[f])]
    /\ GoTo(r, IF DOMAIN bootLoaded'[r] = DOMAIN bootDir THEN "booted" ELSE "load")
    /\ UNCHANGED <<bootOffered, bootDir, bootAsked, bootMade, bootLeft, bootFrom, bootAlike>>

\* QEMU loads the files it was given, one after the other.
Load(r, f) ==
    /\ bootPc[r] = "load"
    /\ f \in DOMAIN bootMade[r] \ DOMAIN bootLoaded[r]
    /\ bootLoaded' = [bootLoaded EXCEPT ![r] = Put(@, f, bootDir[f])]
    /\ GoTo(r, IF DOMAIN bootLoaded'[r] = DOMAIN bootMade[r] THEN "booted" ELSE "load")
    /\ UNCHANGED <<bootOffered, bootDir, bootAsked, bootMade, bootLeft, bootFrom, bootAlike>>

\* A dry run ends without QEMU; a run may be killed anywhere.
EndSmoke(r) ==
    /\ Active(r)
    /\ GoTo(r, "idle")
    /\ bootAsked' = [bootAsked EXCEPT ![r] = None]
    /\ bootMade' = [bootMade EXCEPT ![r] = NoFiles]
    /\ bootLeft' = [bootLeft EXCEPT ![r] = {}]
    /\ bootLoaded' = [bootLoaded EXCEPT ![r] = NoFiles]
    /\ bootFrom' = [bootFrom EXCEPT ![r] = 0]
    /\ bootAlike' = [bootAlike EXCEPT ![r] = TRUE]
    /\ UNCHANGED <<bootOffered, bootDir>>

Run(r) ==
    \/ \E asked \in Asked \cup {None} : BeginSmoke(r, asked)
    \/ DetectFormat(r) \/ ValidateBundle(r) \/ RereadBundle(r) \/ ReadFit(r) \/ ReadZip(r)
    \/ SmokeFails(r) \/ BuildCommand(r) \/ EndSmoke(r)
    \/ \E f \in BootFile : WriteFile(r, f) \/ Load(r, f)

SmokeNext == (\E r \in Runner : Run(r)) \/ \E c \in Replacements : ReplaceSource(c)

SmokeSpec == SmokeInit /\ [][SmokeNext]_bootVars
-------------------------------------------------------------------------------
\* Runs that overlap on one unchanged source with one configuration, and runs
\* after one that was killed half-way or had another source, boot exactly the
\* bytes whose hashes they report.
BootsWhatItReports ==
    \A r \in Runner : bootPc[r] = "booted" /\ bootAlike[r] => bootLoaded[r] = bootMade[r]

\* Nothing in the content says that the payload of that file is damaged.
VouchedByBundle(c, f, payload) ==
    /\ c.format = "p210"
    /\ \/ f = "kernel.bin" /\ c.uimage.payload = payload /\ c.uimage.crcOf = payload
       \/ f = "devicetree.dtb" /\ c.tree = payload /\ payload.is = "tree"

TypeOf(f) == CASE f = "kernel.bin" -> "kernel" [] f = "devicetree.dtb" -> "flat_dt"
               [] OTHER -> "ramdisk"

VouchedByFit(c, f, payload) ==
    \E fit \in FitsIn(c) : \E n \in DOMAIN fit.images :
        /\ fit.images[n].data = payload /\ fit.images[n].type = TypeOf(f)
        /\ \A node \in fit.images[n].hashes : IsHash(node) => node.value = payload

Vouched(c, f, payload) == VouchedByBundle(c, f, payload) \/ VouchedByFit(c, f, payload)

\* Whatever replaced the source between the reads, and whichever runs were
\* killed, each file of the directory was checked as the bytes it holds.
HoldsOnlyCheckedFiles ==
    \A f \in DOMAIN bootDir :
        \E i \in DOMAIN bootOffered : Vouched(bootOffered[i], f, bootDir[f])

\* What a source has to be to be booted.
BootableBundle(b) ==
    /\ Required \subseteq b.files /\ b.lacks = {}
    /\ b.uimage.sound /\ b.uimage.crcOf = b.uimage.payload
    /\ b.uimage.target = "linux-arm" /\ b.uimage.type = "kernel" /\ b.uimage.compression = "none"
    /\ b.tree.is = "tree" /\ b.tree.lacks = {}

\* The FIT is whole, and the files are those of the configuration asked for.
BootsConfiguration(fit, asked, files) ==
    /\ fit.trailer \in {"none", "md5", "dfu", "other"}
    /\ \A n \in DOMAIN fit.images : fit.images[n].data # None
    /\ \E i \in DOMAIN fit.configurations :
          LET c == fit.configurations[i]
          IN  /\ c.name = (IF asked # None THEN asked
                           ELSE IF fit.default # None THEN fit.default
                           ELSE fit.configurations[1].name)
              /\ files["kernel.bin"] = fit.images[c.kernel].data
              /\ files["devicetree.dtb"] = fit.images[c.fdt].data
              /\ (c.ramdisk = None) <=> (DOMAIN files = {"kernel.bin", "devicetree.dtb"})
              /\ \A f \in DOMAIN files \ {"kernel.bin", "devicetree.dtb"} :
                    files[f] = fit.images[c.ramdisk].data

\* A run whose source has stayed the same boots it only if the whole of it is as
\* the contract says, and then the configuration asked for and no other.
BootsWholeSource ==
    \A r \in Runner :
        bootPc[r] \in {"write", "build", "load", "booted"} /\ bootFrom[r] = Len(bootOffered) =>
            \/ Source.format = "p210" /\ BootableBundle(Source) /\ bootAsked[r] = None
            \/ \E fit \in FitsIn(Source) : BootsConfiguration(fit, bootAsked[r], bootMade[r])
===============================================================================
