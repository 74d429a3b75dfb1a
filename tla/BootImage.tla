------------------------------- MODULE BootImage -------------------------------
(***************************************************************************)
(* What a boot image holds, and what validate_p210_firmware,               *)
(* validate_fit_image and the extractors find in it (firmware.py 215-558,  *)
(* boot_harness.py 188-448).                                               *)
(*                                                                         *)
(* Bytes are payloads: a kernel, a device tree with what it lacks of the   *)
(* P210 contract, something gzip made, or other bytes.  A checksum is the  *)
(* payload it was made of.  A result that may be refused is a set: empty,  *)
(* or of the one result.                                                   *)
(***************************************************************************)
EXTENDS Naturals, Sequences, FiniteSets

CONSTANT None

Required == {"BOOT.BIN", "uImage", "devicetree.dtb", "uEnv.txt"}

\* Names with "/" or "\", "." and "..".
UnsafeReference == {"..", "a/b"}
-------------------------------------------------------------------------------
(* A P210 bundle: [format, files, uimage, tree, lacks]. *)

\* UImage: the size, the magic and the header's CRC (`sound'), and the data's CRC.
UImageParses(uimage) == uimage.sound /\ uimage.crcOf = uimage.payload

Parses(payload) == payload.is = "tree"

\* The 2Rx/2Tx mode is looked for only where there is exactly one radio.
TreeIssues(tree) ==
    IF ~Parses(tree) THEN {"dt.integrity"}
    ELSE tree.lacks \ (IF "dt.ad9361" \in tree.lacks THEN {"dt.ad9361.mimo"} ELSE {})

KernelIssues(uimage) ==
    IF ~UImageParses(uimage) THEN {"kernel.integrity"}
    ELSE IF uimage.target # "linux-arm" THEN {"kernel.target"} ELSE {}

P210Issues(bundle) ==
    IF ~(Required \subseteq bundle.files) THEN {"bundle.members"}
    ELSE KernelIssues(bundle.uimage) \cup TreeIssues(bundle.tree) \cup bundle.lacks

BundleFiles(bundle) ==
    [f \in {"kernel.bin", "devicetree.dtb"} |->
        IF f = "kernel.bin" THEN bundle.uimage.payload ELSE bundle.tree]

\* Fault: the bundle has been validated, so the CRC of the kernel is right.
P210BootTrusting(bundle) ==
    IF /\ {"uImage", "devicetree.dtb"} \subseteq bundle.files
       /\ bundle.uimage.type = "kernel" /\ bundle.uimage.compression = "none"
       /\ bundle.uimage.sound /\ bundle.uimage.target = "linux-arm"
       /\ Parses(bundle.tree)
    THEN {BundleFiles(bundle)} ELSE {}

\* extract_p210_bundle, of the bundle it reads after the validated one.
P210Boot(bundle) ==
    IF /\ {"uImage", "devicetree.dtb"} \subseteq bundle.files
       /\ UImageParses(bundle.uimage)
       /\ bundle.uimage.target = "linux-arm" /\ bundle.uimage.type = "kernel"
       /\ bundle.uimage.compression = "none"
       /\ Parses(bundle.tree)
    THEN {BundleFiles(bundle)} ELSE {}
-------------------------------------------------------------------------------
(* A FIT: [format, parses, trailer, layout, images, configurations, default]. *)

IsHash(node) == node.name \in {"hash", "hash@1", "hash@2"}

\* Every issue of a hash node, from a missing property to a digest that differs.
HashIssue(image, node) ==
    \/ node.algorithm \notin {"sha1", "sha256", "md5"}
    \/ node.value # image.data

ImageIssue(image) ==
    \/ image.data = None
    \/ \E node \in image.hashes : IsHash(node) /\ HashIssue(image, node)

\* A trailer is checked if it looks like a .frm MD5 or a DFU suffix.
TrailerIssue(trailer) == trailer \in {"bad md5", "bad dfu"}

FitIssues(fit) ==
    IF ~fit.parses THEN {"fit.structure"}
    ELSE (IF TrailerIssue(fit.trailer) THEN {"fit.trailer"} ELSE {})
         \cup (IF ~fit.layout THEN {"fit.layout"}
               ELSE {n \in DOMAIN fit.images : ImageIssue(fit.images[n])})

\* The configuration of that name, the first if there are more.
Named(fit, name) ==
    {fit.configurations[i] : i \in {j \in DOMAIN fit.configurations :
        /\ fit.configurations[j].name = name
        /\ \A k \in 1 .. j - 1 : fit.configurations[k].name # name}}

\* Fault: a configuration that is not there is replaced by the first one.
SelectedOrFirst(fit, asked) ==
    IF fit.configurations = <<>> THEN {}
    ELSE IF Named(fit, asked) = {} THEN {fit.configurations[1]}
    ELSE Named(fit, asked)

\* The configuration asked for, else the default, else the first.
Selected(fit, asked) ==
    LET wanted == IF asked # None THEN asked
                  ELSE IF fit.default # None THEN fit.default
                  ELSE IF fit.configurations # <<>> THEN fit.configurations[1].name
                  ELSE None
    IN  IF wanted \in UnsafeReference THEN {} ELSE Named(fit, wanted)

References(c) == {c.kernel, c.fdt, c.ramdisk, c.fpga} \ {None}

Inline(fit, name, type, compressions) ==
    /\ fit.images[name].type = type
    /\ fit.images[name].compression \in compressions

\* A reference to each image the configuration must have, and to none that is
\* not there or cannot be handed to QEMU.
Usable(fit, c) ==
    /\ c.kernel # None /\ c.fdt # None
    /\ References(c) \cap UnsafeReference = {}
    /\ References(c) \subseteq DOMAIN fit.images
    /\ Inline(fit, c.kernel, "kernel", {"none"})
    /\ Inline(fit, c.fdt, "flat_dt", {"none"}) /\ Parses(fit.images[c.fdt].data)
    /\ c.ramdisk # None =>
          /\ Inline(fit, c.ramdisk, "ramdisk", {"none", "gzip"})
          /\ fit.images[c.ramdisk].compression = "gzip"
                => fit.images[c.ramdisk].data.is = "gzip"

RamdiskFile(fit, c) ==
    IF c.ramdisk = None THEN {}
    ELSE IF fit.images[c.ramdisk].compression = "gzip" THEN {"ramdisk.img.gz"}
    ELSE {"ramdisk.img"}

\* extract_fit_image.
FitBoot(fit, asked) ==
    IF FitIssues(fit) # {} THEN {}
    ELSE {[f \in {"kernel.bin", "devicetree.dtb"} \cup RamdiskFile(fit, c) |->
              fit.images[CASE f = "kernel.bin"     -> c.kernel
                           [] f = "devicetree.dtb" -> c.fdt
                           [] OTHER                -> c.ramdisk].data] :
              c \in {d \in Selected(fit, asked) : Usable(fit, d)}}

\* extract_pluto_archive: one pluto.frm, and its identity marker.
PlutoBoot(zip, asked) ==
    IF Len(zip.members) = 1 /\ zip.members[1].parses /\ zip.members[1].pluto
    THEN FitBoot(zip.members[1], asked) ELSE {}
===============================================================================
