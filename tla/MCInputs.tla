------------------------------- MODULE MCInputs -------------------------------
(***************************************************************************)
(* The four modules about what the tooling reads, each on a small instance *)
(* of its own: a behaviour is one of a device tree being parsed, an        *)
(* archive, a checkout, or runs of qemu_boot.py on one source.             *)
(***************************************************************************)
EXTENDS FdtParser, NewcArchive, SourceIdentity, SmokeBoot, TLC

CONSTANTS r1, r2       \* the runs

VARIABLE input

vars == <<input, fdtVars, newcVars, srcVars, bootVars>>
-------------------------------------------------------------------------------
(* Archives: every short stream, links of every kind, and one too long. *)

A  == <<"a">>
B  == <<"b">>
D  == <<"d">>
DX == <<"d", "x">>

Link(name, absolute, target) ==
    [File(name, 1, target) EXCEPT !.type = "link", !.absolute = absolute]

ShortStreams ==
    LET Record == {File(A, 1, <<>>), File(B, 2, <<>>), File(<<"..">>, 1, <<>>),
                   Trailer(FALSE), Trailer(TRUE), Nul, Bad}
    IN  UNION {[1 .. n -> Record] : n \in 0 .. 4}

Optional(name, links) ==
    {<<>>, <<File(name, 1, <<>>)>>} \cup {<<Link(name, t[1], t[2])>> : t \in links}

LinkedTrees ==
    LET Targets == {<<FALSE, A>>, <<FALSE, B>>, <<FALSE, DX>>, <<FALSE, <<"..", "b">>>>,
                    <<FALSE, <<"d", "..", "a">>>>, <<TRUE, D>>, <<TRUE, <<"d", ".", "x">>>>,
                    <<TRUE, A>>}
    IN  {d \o x \o a \o b \o <<Trailer(FALSE)>> :
            d \in Optional(D, {<<FALSE, A>>, <<TRUE, B>>})
                     \cup {<<[File(D, 1, <<>>) EXCEPT !.type = "dir"]>>},
            x \in Optional(DX, {<<FALSE, <<"..", "b">>>>, <<TRUE, A>>, <<FALSE, A>>}),
            a \in Optional(A, Targets), b \in Optional(B, Targets)}

\* The root has an entry of its own, that of a directory or of a link.
RootedTrees ==
    {<<root>> \o a \o <<Trailer(FALSE)>> :
        root \in {[File(<<>>, 1, <<>>) EXCEPT !.type = "dir"], Link(<<>>, FALSE, A)},
        a \in Optional(A, {<<TRUE, <<>>>>, <<FALSE, <<".">>>>, <<FALSE, <<"..">>>>})}

MCStreams     == ShortStreams \cup LinkedTrees \cup RootedTrees
                     \cup {[i \in 1 .. 6 |-> File(A, 1, <<>>)]}
MCUnsafeNames == {<<"..">>}
MCAdditions   == [n \in {<<"n">>} |-> <<"added">>]
MCReplaced    == {B}
-------------------------------------------------------------------------------
(* Boot images: good ones, and each with one thing wrong. *)

Kernel(n) == [is |-> "kernel", id |-> n]
Tree(n)   == [is |-> "tree", id |-> n, lacks |-> {}]
Gzip(n)   == [is |-> "gzip", id |-> n]
Junk      == [is |-> "junk"]

Bundle(n) ==
    [format |-> "p210", files |-> Required, tree |-> Tree(n), lacks |-> {},
     uimage |-> [sound |-> TRUE, payload |-> Kernel(n), crcOf |-> Kernel(n),
                 target |-> "linux-arm", type |-> "kernel", compression |-> "none"]]

NotP210 == [Bundle(1) EXCEPT !.tree.lacks = {"dt.soc"}]
BadData == [Bundle(1) EXCEPT !.uimage.payload = Kernel(3)]

Bundles ==
    {Bundle(1), Bundle(2), BadData}
    \cup {[Bundle(1) EXCEPT !.files = @ \ {f}] : f \in Required}
    \cup {[Bundle(1) EXCEPT !.files = @ \cup {"README"}]}
    \cup {[Bundle(1) EXCEPT !.tree.lacks = l] :
             l \in {{"dt.soc"}, {"dt.memory"}, {"dt.ad9361"}, {"dt.ad9361.mimo"},
                    {"dt.ad9361", "dt.ad9361.mimo"}, {"dt.peripheral"}}}
    \cup {[Bundle(1) EXCEPT !.lacks = {l}] : l \in {"boot.bin", "boot.sd_root"}}
    \cup {[Bundle(1) EXCEPT !.uimage.type = "script"], [Bundle(1) EXCEPT !.uimage.target = "mips"],
          [Bundle(1) EXCEPT !.uimage.compression = "gzip"],
          [Bundle(1) EXCEPT !.uimage.sound = FALSE], [Bundle(1) EXCEPT !.tree = Junk]}

Hash(payload) == [name |-> "hash@1", algorithm |-> "sha1", value |-> payload]

Image(payload, type, compression) ==
    [type |-> type, data |-> payload, compression |-> compression, hashes |-> {Hash(payload)}]

Configuration(name, kernel, fdt, ramdisk, fpga) ==
    [name |-> name, kernel |-> kernel, fdt |-> fdt, ramdisk |-> ramdisk, fpga |-> fpga]

FitImages ==
    [n \in {"k", "t", "r", "g"} |->
        CASE n = "k" -> Image(Kernel(4), "kernel", "none")
          [] n = "t" -> Image(Tree(4), "flat_dt", "none")
          [] n = "r" -> Image(Gzip(4), "ramdisk", "none")
          [] n = "g" -> Image(Gzip(4), "ramdisk", "gzip")]

Fit ==
    [format |-> "fit", parses |-> TRUE, pluto |-> TRUE, trailer |-> "none", layout |-> TRUE,
     images |-> FitImages, default |-> "c1",
     configurations |-> <<Configuration("c1", "k", "t", "g", None),
                          Configuration("c2", "k", "t", None, None)>>]

Kernels ==
    {[FitImages["k"] EXCEPT !.data = None], [FitImages["k"] EXCEPT !.type = "firmware"],
     [FitImages["k"] EXCEPT !.compression = "gzip"], [FitImages["k"] EXCEPT !.hashes = {}],
     [FitImages["k"] EXCEPT !.data = Kernel(5)],
     [FitImages["k"] EXCEPT !.hashes = @ \cup {[Hash(Kernel(5)) EXCEPT !.name = "hash@2"]}],
     [FitImages["k"] EXCEPT !.hashes = {[Hash(Kernel(4)) EXCEPT !.algorithm = "crc32"]}]}

Configurations ==
    {Configuration("c1", None, "t", None, None), Configuration("c1", "k", None, None, None),
     Configuration("c1", "k", "t", "r", None), Configuration("c1", "k", "t", "g", "bit"),
     Configuration("c1", "k", "t", "g", "r"), Configuration("c1", "x", "t", None, None),
     Configuration("c1", "..", "t", None, None), Configuration("c1", "k", "k", None, None)}

Fits ==
    {Fit, [Fit EXCEPT !.default = None], [Fit EXCEPT !.default = "c3"],
     [Fit EXCEPT !.parses = FALSE], [Fit EXCEPT !.layout = FALSE],
     [Fit EXCEPT !.configurations = <<>>, !.default = None]}
    \cup {[Fit EXCEPT !.trailer = t] : t \in {"md5", "dfu", "bad md5", "bad dfu", "other"}}
    \cup {[Fit EXCEPT !.images["k"] = k] : k \in Kernels}
    \cup {[Fit EXCEPT !.images["t"] = Image(Junk, "flat_dt", "none")],
          [Fit EXCEPT !.images["g"] = Image(Junk, "ramdisk", "gzip")],
          [Fit EXCEPT !.images["g"] = Image(Junk, "ramdisk", "lzma")]}
    \cup {[Fit EXCEPT !.configurations[1] = c] : c \in Configurations}

Zips ==
    {[format |-> "zip", members |-> m] :
        m \in {<<>>, <<Fit>>, <<Fit, Fit>>, <<[Fit EXCEPT !.pluto = FALSE]>>,
               <<[Fit EXCEPT !.images["k"].data = Kernel(5)]>>}}

Unknown == [format |-> "unknown"]

MCContents     == Bundles \cup Fits \cup Zips \cup {Unknown}
MCReplacements == {Bundle(2), NotP210, BadData,
                   [Fit EXCEPT !.images["k"] = Image(Kernel(6), "kernel", "none")]}
MCRunner       == {r1, r2}
Symmetry       == Permutations(MCRunner)
-------------------------------------------------------------------------------
(* Checkouts: two contents that differ in size and in their first piece. *)

MCVersion == {<<1, 1>>, <<2>>}
-------------------------------------------------------------------------------
(* One of the four moves; each of the others has a state of its own to stay in. *)

Init ==
    /\ input \in {"fdt", "newc", "src", "smoke"}
    /\ FdtInit /\ (input # "fdt" => fdtSize = 0)
    /\ NewcInit /\ (input # "newc" => newcInput = <<>>)
    /\ SrcInit /\ (input # "src" => srcWork = EmptySnapshot)
    /\ SmokeInit /\ (input # "smoke" => bootOffered = <<Unknown>>)

Next ==
    \/ input = "fdt"   /\ FdtNext   /\ UNCHANGED <<input, newcVars, srcVars, bootVars>>
    \/ input = "newc"  /\ NewcNext  /\ UNCHANGED <<input, fdtVars, srcVars, bootVars>>
    \/ input = "src"   /\ SrcNext   /\ UNCHANGED <<input, fdtVars, newcVars, bootVars>>
    \/ input = "smoke" /\ SmokeNext /\ UNCHANGED <<input, fdtVars, newcVars, srcVars>>

Spec == Init /\ [][Next]_vars
===============================================================================
