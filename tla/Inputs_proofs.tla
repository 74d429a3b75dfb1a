----------------------------- MODULE Inputs_proofs -----------------------------
(***************************************************************************)
(* Proofs about what the tooling reads: runs of qemu_boot.py (SmokeBoot),  *)
(* device trees (FdtParser), archives (NewcArchive) and the checkout       *)
(* (SourceIdentity).  The four do not share state; each has a section.     *)
(***************************************************************************)
EXTENDS SmokeBoot, FdtParser, NewcArchive, SourceIdentity,
        SequenceTheorems, FiniteSetTheorems, WellFoundedInduction, TLAPS
-------------------------------------------------------------------------------
(***************************************************************************)
(* SmokeBoot: a run boots what it reports, for any number of runs on one   *)
(* work directory, and whatever the source holds.                          *)
(***************************************************************************)
IsFn(g) == g = [f \in DOMAIN g |-> g[f]]

\* What extraction can make of a content of the source.
BootResult(c, asked) ==
    IF c.format = "p210" THEN P210Boot(c)
    ELSE IF c.format = "fit" THEN FitBoot(c, asked)
    ELSE IF c.format = "zip" THEN PlutoBoot(c, asked)
    ELSE {}

SmokeStage == {"idle", "zip", "tar", "magic", "readZip", "validate", "reread",
          "readFit", "write", "build", "load", "booted", "refused"}

SmokeShape ==
    /\ bootOffered \in Seq(Contents \cup Replacements) /\ Len(bootOffered) >= 1
    /\ bootPc \in [Runner -> SmokeStage]
    /\ DOMAIN bootAsked = Runner /\ DOMAIN bootMade = Runner /\ DOMAIN bootLoaded = Runner
    /\ DOMAIN bootLeft = Runner
    /\ bootFrom \in [Runner -> Nat]
    /\ bootAlike \in [Runner -> BOOLEAN]

\* What a run has made, written and loaded by the stage it is in.
Progress(r) ==
    /\ IsFn(bootMade[r]) /\ IsFn(bootLoaded[r])
    /\ bootLeft[r] \subseteq DOMAIN bootMade[r]
    /\ DOMAIN bootLoaded[r] \subseteq DOMAIN bootMade[r]
    /\ bootPc[r] = "idle" => bootMade[r] = NoFiles
    /\ bootPc[r] \notin {"load", "booted", "refused"} => bootLoaded[r] = NoFiles
    /\ bootPc[r] \in {"build", "load", "booted"} => bootLeft[r] = {}
    /\ bootPc[r] = "booted" => DOMAIN bootLoaded[r] = DOMAIN bootMade[r]

\* A run that is alike is one of runs that all began with the source as it is.
Together(r) ==
    Active(r) /\ bootAlike[r] =>
        \A q \in Runner : Active(q) => /\ bootFrom[q] = Len(bootOffered)
                                       /\ bootAsked[q] = bootAsked[r]

\* What was made of a source that has not changed since is its result.
MadeOfSource(r) ==
    /\ bootFrom[r] <= Len(bootOffered)
    /\ bootMade[r] # NoFiles /\ bootFrom[r] = Len(bootOffered)
          => bootMade[r] \in BootResult(Source, bootAsked[r])

\* What such a run has written is in the directory still, and what it has loaded
\* is what it made.
Kept(r) ==
    bootAlike[r] =>
        /\ \A f \in DOMAIN bootMade[r] \ bootLeft[r] :
              f \in DOMAIN bootDir /\ bootDir[f] = bootMade[r][f]
        /\ \A f \in DOMAIN bootLoaded[r] : bootLoaded[r][f] = bootMade[r][f]

RunInv(r) == Progress(r) /\ Together(r) /\ MadeOfSource(r) /\ Kept(r)

SmokeInv == SmokeShape /\ \A r \in Runner : RunInv(r)

-------------------------------------------------------------------------------
\* The FITs of a content, and the first configuration of a name in one.
LEMMA FitFacts ==
  ASSUME NEW c \in Contents \cup Replacements, NEW fit \in FitsIn(c)
  PROVE  /\ Len(fit.configurations) \in Nat
         /\ DOMAIN fit.configurations = 1 .. Len(fit.configurations)
         /\ fit.trailer \in {"none", "md5", "dfu", "bad md5", "bad dfu", "other"}
BY ContentsAssumption, LenProperties

LEMMA NamedOnce ==
  ASSUME NEW c \in Contents \cup Replacements, NEW fit \in FitsIn(c), NEW name,
         NEW u \in Named(fit, name), NEW v \in Named(fit, name)
  PROVE  u = v
<1> DEFINE First(i) == /\ i \in DOMAIN fit.configurations /\ fit.configurations[i].name = name
                       /\ \A k \in 1 .. i - 1 : fit.configurations[k].name # name
<1>1. PICK i : First(i) /\ u = fit.configurations[i]
  BY DEF Named
<1>2. PICK j : First(j) /\ v = fit.configurations[j]
  BY DEF Named
<1>3. i \in Nat \ {0} /\ j \in Nat \ {0}
  <2>1. DOMAIN fit.configurations = 1 .. Len(fit.configurations) /\ Len(fit.configurations) \in Nat
    BY FitFacts
  <2>2. i \in 1 .. Len(fit.configurations) /\ j \in 1 .. Len(fit.configurations)
    BY <1>1, <1>2, <2>1
  <2> QED
    BY <2>1, <2>2
<1>4. ~(i < j) /\ ~(j < i)
  <2>1. i < j => i \in 1 .. j - 1
    BY <1>3
  <2>2. j < i => j \in 1 .. i - 1
    BY <1>3
  <2> QED
    BY <1>1, <1>2, <2>1, <2>2
<1>5. i = j
  BY <1>3, <1>4
<1> QED
  BY <1>1, <1>2, <1>5

LEMMA OnlyFitInMembers ==
  ASSUME NEW c \in Contents \cup Replacements, NEW asked, c.format = "zip",
         PlutoBoot(c, asked) # {}
  PROVE  c.members[1] \in FitsIn(c)
<1>1. DOMAIN c.members = 1 .. Len(c.members) /\ Len(c.members) = 1
  BY ContentsAssumption DEF PlutoBoot
<1>2. 1 \in DOMAIN c.members
  BY <1>1
<1> QED
  BY <1>2 DEF FitsIn

\* Bytes, a configuration asked for: one result, or none.
LEMMA OneResult ==
  ASSUME NEW c \in Contents \cup Replacements, NEW asked,
         NEW x \in BootResult(c, asked), NEW y \in BootResult(c, asked)
  PROVE  x = y
<1>1. ASSUME NEW fit \in FitsIn(c), NEW u \in FitBoot(fit, asked), NEW v \in FitBoot(fit, asked)
      PROVE  u = v
  <2> DEFINE Made(d) == [f \in {"kernel.bin", "devicetree.dtb"} \cup RamdiskFile(fit, d) |->
                            fit.images[CASE f = "kernel.bin"     -> d.kernel
                                         [] f = "devicetree.dtb" -> d.fdt
                                         [] OTHER                -> d.ramdisk].data]
  <2>1. PICK d \in Selected(fit, asked) : u = Made(d)
    BY <1>1 DEF FitBoot
  <2>2. PICK e \in Selected(fit, asked) : v = Made(e)
    BY <1>1 DEF FitBoot
  <2> HIDE DEF Made
  <2>3. d = e
    BY NamedOnce DEF Selected
  <2> QED
    BY <2>1, <2>2, <2>3
<1>2. CASE c.format = "p210"
  BY <1>2 DEF BootResult, P210Boot
<1>3. CASE c.format = "fit"
  BY <1>1, <1>3 DEF BootResult, FitsIn
<1>4. CASE c.format = "zip"
  <2>1. PlutoBoot(c, asked) \subseteq FitBoot(c.members[1], asked)
    BY DEF PlutoBoot
  <2>2. x \in PlutoBoot(c, asked) /\ y \in PlutoBoot(c, asked)
    BY <1>4 DEF BootResult
  <2>3. c.members[1] \in FitsIn(c)
    BY <1>4, <2>2, OnlyFitInMembers
  <2> QED
    BY <1>1, <2>1, <2>2, <2>3
<1> QED
  BY <1>2, <1>3, <1>4 DEF BootResult

LEMMA ResultsAreFunctions ==
  ASSUME NEW c, NEW asked, NEW x \in BootResult(c, asked)
  PROVE  IsFn(x)
<1>1. \A fit : \A u \in FitBoot(fit, asked) : IsFn(u)
  BY DEF FitBoot, IsFn
<1>2. \A u \in P210Boot(c) : IsFn(u)
  BY DEF P210Boot, BundleFiles, IsFn
<1>3. \A u \in PlutoBoot(c, asked) : IsFn(u)
  BY <1>1 DEF PlutoBoot
<1> QED
  BY <1>1, <1>2, <1>3 DEF BootResult

LEMMA NoFilesProperties == IsFn(NoFiles) /\ DOMAIN NoFiles = {}
BY DEF NoFiles, IsFn

LEMMA SmokeInitInv == SmokeInit => SmokeInv
<1> SUFFICES ASSUME SmokeInit PROVE SmokeInv
  OBVIOUS
<1> USE DEF SmokeInit
<1>1. PICK c \in Contents : bootOffered = <<c>>
  OBVIOUS
<1>2. bootOffered \in Seq(Contents \cup Replacements) /\ Len(bootOffered) = 1
  BY <1>1
<1>3. SmokeShape
  BY <1>2 DEF SmokeShape, SmokeStage
<1>4. ASSUME NEW r \in Runner PROVE RunInv(r)
  BY <1>2, NoFilesProperties DEF RunInv, Progress, Together, MadeOfSource, Kept, Active
<1> QED
  BY <1>3, <1>4 DEF SmokeInv

\* A step that only moves one run on.
LEMMA MoveInv ==
  ASSUME SmokeInv, NEW r \in Runner, NEW pc \in SmokeStage \ {"idle", "booted"},
         bootPc[r] \notin {"idle", "booted"}, GoTo(r, pc),
         bootPc[r] \in {"load", "refused"} => pc = "refused",
         bootPc[r] = "build" => pc \in {"load", "refused"},
         pc \in {"build", "load"} => bootLeft[r] = {},
         UNCHANGED <<bootOffered, bootDir, bootRun, bootAlike>>
  PROVE  SmokeInv'
<1> USE DEF SmokeInv, bootRun
<1>1. SmokeShape'
  BY DEF SmokeShape, GoTo
<1>2. /\ bootPc'[r] = pc /\ \A q \in Runner \ {r} : bootPc'[q] = bootPc[q]
  BY DEF SmokeShape, GoTo
<1>3. \A q \in Runner : Active(q)' <=> Active(q)
  BY <1>2 DEF Active
<1>4. ASSUME NEW q \in Runner PROVE RunInv(q)'
  <2>1. RunInv(q)
    OBVIOUS
  <2>2. Progress(q)'
    BY <1>2, <2>1 DEF RunInv, Progress
  <2>3. Together(q)'
    BY <1>3, <2>1 DEF RunInv, Together
  <2>4. MadeOfSource(q)' /\ Kept(q)'
    BY <2>1 DEF RunInv, MadeOfSource, Kept, Source
  <2> QED
    BY <2>2, <2>3, <2>4 DEF RunInv
<1> QED
  BY <1>1, <1>4

\* A run begins, with the source as it is.
LEMMA BeginInv ==
  ASSUME SmokeInv, NEW r \in Runner, NEW asked \in Asked \cup {None}, BeginSmoke(r, asked)
  PROVE  SmokeInv'
<1> USE DEF SmokeInv, BeginSmoke, GoTo
<1> DEFINE Differs(q) == /\ q # r /\ Active(q)
                         /\ bootAsked[q] # asked \/ bootFrom[q] # Len(bootOffered)
<1>0. Len(bootOffered) \in Nat
  BY LenProperties DEF SmokeShape
<1>1. SmokeShape'
  BY <1>0 DEF SmokeShape, SmokeStage
<1>2. /\ bootPc[r] = "idle" /\ bootPc'[r] = "zip" /\ bootAsked'[r] = asked
      /\ bootFrom'[r] = Len(bootOffered)
      /\ bootAlike'[r] = ~ \E s \in Runner : Differs(s)
      /\ \A q \in Runner \ {r} :
            /\ bootPc'[q] = bootPc[q] /\ bootAsked'[q] = bootAsked[q] /\ bootFrom'[q] = bootFrom[q]
            /\ bootAlike'[q] = (bootAlike[q] /\ ~Differs(q))
  BY DEF SmokeShape, Active
<1>3. bootMade[r] = NoFiles /\ bootLeft[r] = {} /\ bootLoaded[r] = NoFiles
  BY <1>2, NoFilesProperties DEF RunInv, Progress
<1>4. ASSUME NEW q \in Runner PROVE Progress(q)'
  BY <1>2, <1>3, <1>4 DEF RunInv, Progress
<1>5. ASSUME NEW q \in Runner PROVE Together(q)'
  <2>1. CASE q = r
    BY <1>2, <2>1 DEF Together, Active
  <2>2. CASE q # r
    <3> SUFFICES ASSUME Active(q), bootAlike'[q], NEW p \in Runner, Active(p)'
                 PROVE  bootFrom'[p] = Len(bootOffered) /\ bootAsked'[p] = bootAsked'[q]
      BY <1>2, <2>2 DEF Together, Active
    <3>1. bootAlike[q] /\ bootAsked[q] = asked
      BY <1>2, <2>2
    <3>2. CASE p = r
      BY <1>2, <2>2, <3>1, <3>2
    <3>3. CASE p # r
      <4>1. Active(p)
        BY <1>2, <3>3 DEF Active
      <4>2. bootFrom[p] = Len(bootOffered) /\ bootAsked[p] = bootAsked[q]
        BY <3>1, <4>1 DEF RunInv, Together
      <4> QED
        BY <1>2, <2>2, <3>3, <4>2
    <3> QED
      BY <3>2, <3>3
  <2> QED
    BY <2>1, <2>2
<1>6. ASSUME NEW q \in Runner PROVE MadeOfSource(q)'
  BY <1>0, <1>2, <1>3 DEF RunInv, MadeOfSource, Source
<1>7. ASSUME NEW q \in Runner PROVE Kept(q)'
  BY <1>2, <1>3, NoFilesProperties DEF RunInv, Kept
<1> QED
  BY <1>1, <1>4, <1>5, <1>6, <1>7 DEF RunInv

\* The user replaces the source: what runs have made is no longer of the source.
LEMMA ReplaceInv ==
  ASSUME SmokeInv, NEW c \in Replacements, ReplaceSource(c)
  PROVE  SmokeInv'
<1> USE DEF SmokeInv, ReplaceSource, bootRun
<1>1. Len(bootOffered) \in Nat /\ Len(bootOffered') = Len(bootOffered) + 1
      /\ bootOffered' \in Seq(Contents \cup Replacements)
  BY LenProperties, AppendProperties DEF SmokeShape
<1>2. SmokeShape'
  BY <1>1 DEF SmokeShape
<1>3. ASSUME NEW q \in Runner PROVE RunInv(q)'
  <2>1. RunInv(q) /\ bootFrom[q] \in Nat /\ bootAlike'[q] = (bootAlike[q] /\ ~Active(q))
    BY DEF SmokeShape
  <2>2. Progress(q)' /\ Kept(q)'
    BY <2>1 DEF RunInv, Progress, Kept
  <2>3. Together(q)'
    BY <2>1 DEF Together, Active
  <2>4. MadeOfSource(q)'
    BY <1>1, <2>1 DEF RunInv, MadeOfSource
  <2> QED
    BY <2>2, <2>3, <2>4 DEF RunInv
<1> QED
  BY <1>2, <1>3

\* A run reads the source and makes what it will write.
LEMMA ExtractInv ==
  ASSUME SmokeInv, NEW r \in Runner, bootPc[r] \in {"readZip", "reread", "readFit"},
         NEW results, results \subseteq BootResult(Source, bootAsked[r]), Extract(r, results)
  PROVE  SmokeInv'
<1> USE DEF SmokeInv, Extract, GoTo
<1>1. CASE results = {}
  BY <1>1, MoveInv DEF SmokeStage, bootRun
<1>2. CASE results # {}
  <2>1. PICK made \in results :
           /\ bootPc' = [bootPc EXCEPT ![r] = "write"]
           /\ bootMade' = [bootMade EXCEPT ![r] = made]
           /\ bootLeft' = [bootLeft EXCEPT ![r] = DOMAIN made]
    BY <1>2
  <2>2. UNCHANGED <<bootOffered, bootDir, bootAsked, bootLoaded, bootFrom, bootAlike>>
    BY <1>2
  <2>3. /\ bootPc'[r] = "write" /\ bootMade'[r] = made /\ bootLeft'[r] = DOMAIN made
        /\ \A q \in Runner \ {r} : /\ bootPc'[q] = bootPc[q] /\ bootMade'[q] = bootMade[q]
                                   /\ bootLeft'[q] = bootLeft[q]
    BY <2>1 DEF SmokeShape
  <2>4. SmokeShape'
    BY <2>1, <2>2 DEF SmokeShape, SmokeStage
  <2>5. ASSUME NEW q \in Runner PROVE RunInv(q)'
    <3>1. RunInv(q)
      OBVIOUS
    <3>2. Together(q)'
      BY <2>2, <2>3, <3>1 DEF RunInv, Together, Active
    <3>3. CASE q # r
      BY <2>2, <2>3, <3>1, <3>2, <3>3 DEF RunInv, Progress, MadeOfSource, Kept, Source
    <3>4. CASE q = r
      <4>1. made \in BootResult(Source, bootAsked[r]) /\ IsFn(made) /\ bootLoaded[r] = NoFiles
        BY <2>1, <3>1, <3>4, ResultsAreFunctions DEF RunInv, Progress
      <4>2. Progress(q)'
        BY <2>2, <2>3, <3>4, <4>1, NoFilesProperties DEF Progress
      <4>3. MadeOfSource(q)'
        BY <2>2, <2>3, <3>1, <3>4, <4>1 DEF RunInv, MadeOfSource, Source
      <4>4. Kept(q)'
        BY <2>2, <2>3, <3>4, <4>1, NoFilesProperties DEF Kept
      <4> QED
        BY <3>2, <4>2, <4>3, <4>4 DEF RunInv
    <3> QED
      BY <3>3, <3>4
  <2> QED
    BY <2>4, <2>5
<1> QED
  BY <1>1, <1>2

\* A run writes a file: any other that is alike has made the same of it.
LEMMA WriteInv ==
  ASSUME SmokeInv, NEW r \in Runner, NEW f, WriteFile(r, f)
  PROVE  SmokeInv'
<1> USE DEF SmokeInv, WriteFile, Written, GoTo
<1>1. /\ bootPc[r] = "write" /\ f \in bootLeft[r] /\ f \in DOMAIN bootMade[r]
      /\ bootPc'[r] \in {"build", "write"} /\ (bootPc'[r] = "build" => bootLeft'[r] = {})
      /\ bootLeft'[r] = bootLeft[r] \ {f}
      /\ \A q \in Runner \ {r} : bootPc'[q] = bootPc[q] /\ bootLeft'[q] = bootLeft[q]
      /\ UNCHANGED <<bootOffered, bootAsked, bootMade, bootLoaded, bootFrom, bootAlike>>
  BY DEF SmokeShape, RunInv, Progress
<1>2. /\ DOMAIN bootDir' = DOMAIN bootDir \cup {f} /\ bootDir'[f] = bootMade[r][f]
      /\ \A g \in DOMAIN bootDir : g # f => bootDir'[g] = bootDir[g]
  BY DEF Put
<1>3. SmokeShape'
  BY DEF SmokeShape, SmokeStage
<1>4. ASSUME NEW q \in Runner PROVE RunInv(q)'
  <2>1. RunInv(q)
    OBVIOUS
  <2>2. Progress(q)'
    BY <1>1, <2>1 DEF RunInv, Progress
  <2>3. Together(q)' /\ MadeOfSource(q)'
    BY <1>1, <2>1 DEF RunInv, Together, MadeOfSource, Active, Source
  <2>4. Kept(q)'
    <3> SUFFICES ASSUME bootAlike[q]
                 PROVE  /\ \A g \in DOMAIN bootMade[q] \ bootLeft'[q] :
                              g \in DOMAIN bootDir' /\ bootDir'[g] = bootMade[q][g]
                        /\ \A g \in DOMAIN bootLoaded[q] : bootLoaded[q][g] = bootMade[q][g]
      BY <1>1 DEF Kept
    <3>1. \A g \in DOMAIN bootLoaded[q] : bootLoaded[q][g] = bootMade[q][g]
      BY <2>1 DEF RunInv, Kept
    <3>2. ASSUME NEW g \in DOMAIN bootMade[q] \ bootLeft'[q]
          PROVE  g \in DOMAIN bootDir' /\ bootDir'[g] = bootMade[q][g]
      <4>1. CASE g # f
        <5>1. g \in DOMAIN bootMade[q] \ bootLeft[q]
          BY <1>1, <4>1
        <5> QED
          BY <1>2, <2>1, <4>1, <5>1 DEF RunInv, Kept
      <4>2. CASE g = f
        <5>1. bootMade[q] # NoFiles /\ bootMade[r] # NoFiles
          BY <1>1, NoFilesProperties
        <5>2. Active(q) /\ Active(r)
          BY <1>1, <2>1, <5>1 DEF RunInv, Progress, Active
        <5>3. bootFrom[q] = Len(bootOffered) /\ bootFrom[r] = Len(bootOffered)
              /\ bootAsked[r] = bootAsked[q]
          BY <2>1, <5>2 DEF RunInv, Together
        <5>4. bootMade[q] \in BootResult(Source, bootAsked[q]) /\ bootMade[r] \in BootResult(Source, bootAsked[q])
          BY <2>1, <5>1, <5>3 DEF RunInv, MadeOfSource
        <5>5. Source \in Contents \cup Replacements
          BY LenProperties, ElementOfSeq DEF SmokeShape, Source
        <5>6. bootMade[q] = bootMade[r]
          BY <5>4, <5>5, OneResult
        <5> QED
          BY <1>2, <4>2, <5>6
      <4> QED
        BY <4>1, <4>2
    <3> QED
      BY <3>1, <3>2
  <2> QED
    BY <2>2, <2>3, <2>4 DEF RunInv
<1> QED
  BY <1>3, <1>4

\* QEMU loads a file, which a run that is alike has written.
LEMMA LoadInv ==
  ASSUME SmokeInv, NEW r \in Runner, NEW f, Load(r, f)
  PROVE  SmokeInv'
<1> USE DEF SmokeInv, Load, GoTo
<1>1. /\ bootPc[r] = "load" /\ bootLeft[r] = {} /\ f \in DOMAIN bootMade[r]
      /\ bootLoaded'[r] = Put(bootLoaded[r], f, bootDir[f])
      /\ bootPc'[r] \in {"load", "booted"}
      /\ (bootPc'[r] = "booted" => DOMAIN bootLoaded'[r] = DOMAIN bootMade[r])
      /\ \A q \in Runner \ {r} : bootPc'[q] = bootPc[q] /\ bootLoaded'[q] = bootLoaded[q]
      /\ UNCHANGED <<bootOffered, bootDir, bootAsked, bootMade, bootLeft, bootFrom, bootAlike>>
  BY DEF SmokeShape, RunInv, Progress
<1>2. /\ IsFn(bootLoaded'[r]) /\ DOMAIN bootLoaded'[r] = DOMAIN bootLoaded[r] \cup {f}
      /\ bootLoaded'[r][f] = bootDir[f]
      /\ \A g \in DOMAIN bootLoaded[r] : g # f => bootLoaded'[r][g] = bootLoaded[r][g]
  BY <1>1 DEF Put, IsFn
<1>3. SmokeShape'
  BY DEF SmokeShape, SmokeStage
<1>4. ASSUME NEW q \in Runner PROVE RunInv(q)'
  <2>1. RunInv(q)
    OBVIOUS
  <2>2. Together(q)' /\ MadeOfSource(q)'
    BY <1>1, <2>1 DEF RunInv, Together, MadeOfSource, Active, Source
  <2>3. CASE q # r
    BY <1>1, <2>1, <2>2, <2>3 DEF RunInv, Progress, Kept
  <2>4. CASE q = r
    <3>1. Progress(q)'
      BY <1>1, <1>2, <2>1, <2>4 DEF RunInv, Progress
    <3>2. Kept(q)'
      BY <1>1, <1>2, <2>1, <2>4 DEF RunInv, Kept
    <3> QED
      BY <2>2, <3>1, <3>2 DEF RunInv
  <2> QED
    BY <2>3, <2>4
<1> QED
  BY <1>3, <1>4

\* A run ends, or is killed.
LEMMA EndInv ==
  ASSUME SmokeInv, NEW r \in Runner, EndSmoke(r)
  PROVE  SmokeInv'
<1> USE DEF SmokeInv, EndSmoke, GoTo
<1>1. /\ bootPc'[r] = "idle" /\ bootMade'[r] = NoFiles /\ bootLeft'[r] = {}
      /\ bootLoaded'[r] = NoFiles /\ bootFrom'[r] = 0
      /\ \A q \in Runner \ {r} :
            /\ bootPc'[q] = bootPc[q] /\ bootMade'[q] = bootMade[q] /\ bootLeft'[q] = bootLeft[q]
            /\ bootLoaded'[q] = bootLoaded[q] /\ bootFrom'[q] = bootFrom[q]
            /\ bootAsked'[q] = bootAsked[q] /\ bootAlike'[q] = bootAlike[q]
      /\ UNCHANGED <<bootOffered, bootDir>>
  BY DEF SmokeShape
<1>2. SmokeShape' /\ Len(bootOffered) \in Nat
  BY LenProperties DEF SmokeShape, SmokeStage
<1>3. ASSUME NEW q \in Runner PROVE RunInv(q)'
  <2>1. RunInv(q)
    OBVIOUS
  <2>2. Together(q)'
    BY <1>1, <2>1 DEF RunInv, Together, Active
  <2>3. CASE q # r
    BY <1>1, <2>1, <2>2, <2>3 DEF RunInv, Progress, MadeOfSource, Kept, Source
  <2>4. CASE q = r
    BY <1>1, <1>2, <2>2, <2>4, NoFilesProperties DEF RunInv, Progress, MadeOfSource, Kept
  <2> QED
    BY <2>3, <2>4
<1> QED
  BY <1>2, <1>3

LEMMA SmokeNextInv == SmokeInv /\ SmokeNext => SmokeInv'
<1> SUFFICES ASSUME SmokeInv, SmokeNext PROVE SmokeInv'
  OBVIOUS
<1>1. ASSUME NEW c \in Replacements, ReplaceSource(c) PROVE SmokeInv'
  BY <1>1, ReplaceInv
<1>2. ASSUME NEW r \in Runner, Run(r) PROVE SmokeInv'
  <2>1. CASE \E asked \in Asked \cup {None} : BeginSmoke(r, asked)
    BY <2>1, BeginInv
  <2>2. CASE DetectFormat(r)
    <3>1. PICK pc \in {"readZip", "tar", "validate", "refused", "magic", "readFit"} :
             GoTo(r, pc) /\ bootPc[r] \in {"zip", "tar", "magic"}
             /\ UNCHANGED <<bootOffered, bootDir, bootRun, bootAlike>>
      BY <2>2 DEF DetectFormat, Test
    <3> QED
      BY <3>1, MoveInv DEF SmokeStage
  <2>3. CASE ValidateBundle(r)
    <3>1. PICK pc \in {"reread", "refused"} : GoTo(r, pc)
      BY <2>3 DEF ValidateBundle
    <3> QED
      BY <2>3, <3>1, MoveInv DEF ValidateBundle, SmokeStage
  <2>4. CASE RereadBundle(r)
    BY <2>4, ExtractInv DEF RereadBundle, BootResult
  <2>5. CASE ReadFit(r)
    BY <2>5, ExtractInv DEF ReadFit, BootResult
  <2>6. CASE ReadZip(r)
    BY <2>6, ExtractInv DEF ReadZip, BootResult
  <2>7. CASE SmokeFails(r)
    BY <2>7, MoveInv DEF SmokeFails, SmokeStage
  <2>8. CASE BuildCommand(r)
    <3>1. bootLeft[r] = {}
      BY <2>8 DEF BuildCommand, SmokeInv, RunInv, Progress
    <3> QED
      BY <2>8, <3>1, MoveInv DEF BuildCommand, SmokeStage
  <2>9. CASE EndSmoke(r)
    BY <2>9, EndInv
  <2>10. CASE \E f \in BootFile : WriteFile(r, f) \/ Load(r, f)
    BY <2>10, WriteInv, LoadInv
  <2> QED
    BY <1>2, <2>1, <2>2, <2>3, <2>4, <2>5, <2>6, <2>7, <2>8, <2>9, <2>10 DEF Run
<1> QED
  BY <1>1, <1>2 DEF SmokeNext

LEMMA SmokeStutter == SmokeInv /\ UNCHANGED bootVars => SmokeInv'
<1> SUFFICES ASSUME SmokeInv, UNCHANGED bootVars PROVE SmokeInv'
  OBVIOUS
<1> USE DEF SmokeInv, bootVars, bootRun
<1>1. SmokeShape'
  BY DEF SmokeShape
<1>2. ASSUME NEW q \in Runner PROVE RunInv(q)'
  BY DEF RunInv, Progress, Together, MadeOfSource, Kept, Active, Source
<1> QED
  BY <1>1, <1>2

\* What overlapping, killed and repeated runs of qemu_boot.py have QEMU boot is
\* what each reports, for any number of runs and whatever the source held, as
\* long as the source stays and the configuration is the same.
THEOREM BootsCorrect == SmokeSpec => []BootsWhatItReports
<1>1. SmokeInv => BootsWhatItReports
  <2> SUFFICES ASSUME SmokeInv, NEW r \in Runner, bootPc[r] = "booted", bootAlike[r]
               PROVE  bootLoaded[r] = bootMade[r]
    BY DEF BootsWhatItReports
  <2>1. /\ IsFn(bootLoaded[r]) /\ IsFn(bootMade[r]) /\ DOMAIN bootLoaded[r] = DOMAIN bootMade[r]
        /\ \A f \in DOMAIN bootLoaded[r] : bootLoaded[r][f] = bootMade[r][f]
    BY DEF SmokeInv, RunInv, Progress, Kept
  <2> QED
    BY <2>1 DEF IsFn
<1>2. SmokeInv /\ [SmokeNext]_bootVars => SmokeInv'
  BY SmokeNextInv, SmokeStutter
<1> QED
  BY <1>1, <1>2, SmokeInitInv, PTL DEF SmokeSpec
-------------------------------------------------------------------------------
\* What is made of a content was checked in it.
LEMMA ResultVouched ==
  ASSUME NEW c \in Contents \cup Replacements, NEW asked,
         NEW x \in BootResult(c, asked), NEW f \in DOMAIN x
  PROVE  Vouched(c, f, x[f])
<1>1. ASSUME NEW fit \in FitsIn(c), x \in FitBoot(fit, asked) PROVE VouchedByFit(c, f, x[f])
  <2> DEFINE image(d) == CASE f = "kernel.bin"     -> d.kernel
                           [] f = "devicetree.dtb" -> d.fdt
                           [] OTHER                -> d.ramdisk
  <2>1. PICK d : /\ Usable(fit, d)
                 /\ DOMAIN x = {"kernel.bin", "devicetree.dtb"} \cup RamdiskFile(fit, d)
                 /\ x[f] = fit.images[image(d)].data
    BY <1>1 DEF FitBoot
  <2>2. \A n \in DOMAIN fit.images : \A node \in fit.images[n].hashes :
           IsHash(node) => node.value = fit.images[n].data
    BY <1>1 DEF FitBoot, FitIssues, ImageIssue, HashIssue
  <2>3. CASE f = "kernel.bin"
    <3>1. image(d) = d.kernel /\ d.kernel \in DOMAIN fit.images
          /\ fit.images[d.kernel].type = TypeOf(f)
      BY <2>1, <2>3 DEF Usable, References, Inline, TypeOf
    <3> QED
      BY <2>1, <2>2, <3>1 DEF VouchedByFit
  <2>4. CASE f = "devicetree.dtb"
    <3>1. image(d) = d.fdt /\ d.fdt \in DOMAIN fit.images
          /\ fit.images[d.fdt].type = TypeOf(f)
      BY <2>1, <2>4 DEF Usable, References, Inline, TypeOf
    <3> QED
      BY <2>1, <2>2, <3>1 DEF VouchedByFit
  <2>5. CASE f \notin {"kernel.bin", "devicetree.dtb"}
    <3>1. d.ramdisk # None
      BY <2>1, <2>5 DEF RamdiskFile
    <3>2. image(d) = d.ramdisk /\ d.ramdisk \in DOMAIN fit.images
          /\ fit.images[d.ramdisk].type = TypeOf(f)
      BY <2>1, <2>5, <3>1 DEF Usable, References, Inline, TypeOf
    <3> QED
      BY <2>1, <2>2, <3>2 DEF VouchedByFit
  <2> QED
    BY <2>3, <2>4, <2>5
<1>2. CASE c.format = "p210"
  BY <1>2 DEF BootResult, P210Boot, BundleFiles, UImageParses, Parses, Vouched, VouchedByBundle
<1>3. CASE c.format = "fit"
  BY <1>1, <1>3 DEF BootResult, FitsIn, Vouched
<1>4. CASE c.format = "zip"
  <2>1. x \in PlutoBoot(c, asked)
    BY <1>4 DEF BootResult
  <2>2. c.members[1] \in FitsIn(c)
    BY <1>4, <2>1, OnlyFitInMembers
  <2> QED
    BY <1>1, <2>1, <2>2 DEF PlutoBoot, Vouched
<1> QED
  BY <1>2, <1>3, <1>4 DEF BootResult

\* Each file that a run has made was checked in a content the source has had.
Checked(files) ==
    \A f \in DOMAIN files : \E i \in DOMAIN bootOffered : Vouched(bootOffered[i], f, files[f])

CheckedInv ==
    /\ bootOffered \in Seq(Contents \cup Replacements) /\ Len(bootOffered) >= 1
    /\ DOMAIN bootMade = Runner /\ DOMAIN bootLeft = Runner
    /\ \A r \in Runner : bootLeft[r] \subseteq DOMAIN bootMade[r] /\ Checked(bootMade[r])
    /\ HoldsOnlyCheckedFiles

LEMMA CheckedExtract ==
  ASSUME CheckedInv, NEW r \in Runner, NEW results,
         results \subseteq BootResult(Source, bootAsked[r]), Extract(r, results)
  PROVE  CheckedInv'
<1> USE DEF CheckedInv, Extract
<1>1. CASE results = {}
  BY <1>1 DEF Checked, HoldsOnlyCheckedFiles
<1>2. CASE results # {}
  <2>1. PICK made \in results : /\ bootMade' = [bootMade EXCEPT ![r] = made]
                                /\ bootLeft' = [bootLeft EXCEPT ![r] = DOMAIN made]
    BY <1>2
  <2>2. UNCHANGED <<bootOffered, bootDir>>
    OBVIOUS
  <2>3. Len(bootOffered) \in DOMAIN bootOffered /\ Source \in Contents \cup Replacements
    BY LenProperties, ElementOfSeq DEF Source
  <2>4. Checked(made)
    BY <2>1, <2>3, ResultVouched DEF Checked, Source
  <2>5. ASSUME NEW q \in Runner
        PROVE  bootLeft'[q] \subseteq DOMAIN bootMade'[q] /\ Checked(bootMade[q])'
    <3>1. CASE q = r
      BY <2>1, <2>2, <2>4, <3>1 DEF Checked
    <3>2. CASE q # r
      BY <2>1, <2>2, <3>2 DEF Checked
    <3> QED
      BY <3>1, <3>2
  <2>6. HoldsOnlyCheckedFiles'
    BY <2>2 DEF HoldsOnlyCheckedFiles
  <2> QED
    BY <2>1, <2>2, <2>5, <2>6
<1> QED
  BY <1>1, <1>2

LEMMA CheckedWrite ==
  ASSUME CheckedInv, NEW r \in Runner, NEW f, WriteFile(r, f)
  PROVE  CheckedInv'
<1> USE DEF CheckedInv, WriteFile, Written
<1>1. /\ f \in DOMAIN bootMade[r] /\ bootLeft' = [bootLeft EXCEPT ![r] = @ \ {f}]
      /\ UNCHANGED <<bootOffered, bootMade>>
  OBVIOUS
<1>2. \A q \in Runner : bootLeft'[q] \subseteq DOMAIN bootMade'[q] /\ Checked(bootMade[q])'
  BY <1>1 DEF Checked
<1>3. /\ DOMAIN bootDir' = DOMAIN bootDir \cup {f} /\ bootDir'[f] = bootMade[r][f]
      /\ \A g \in DOMAIN bootDir : g # f => bootDir'[g] = bootDir[g]
  BY DEF Put
<1>4. HoldsOnlyCheckedFiles'
  BY <1>1, <1>3 DEF HoldsOnlyCheckedFiles, Checked
<1> QED
  BY <1>1, <1>2, <1>4

LEMMA CheckedReplace ==
  ASSUME CheckedInv, NEW c \in Replacements, ReplaceSource(c)
  PROVE  CheckedInv'
<1> USE DEF CheckedInv, ReplaceSource, bootRun
<1>1. /\ bootOffered' \in Seq(Contents \cup Replacements) /\ Len(bootOffered') >= 1
      /\ DOMAIN bootOffered \subseteq DOMAIN bootOffered'
      /\ \A i \in DOMAIN bootOffered : bootOffered'[i] = bootOffered[i]
  BY LenProperties, AppendProperties
<1>2. HoldsOnlyCheckedFiles' /\ \A q \in Runner : Checked(bootMade[q])'
  BY <1>1 DEF HoldsOnlyCheckedFiles, Checked
<1> QED
  BY <1>1, <1>2

LEMMA CheckedNext == CheckedInv /\ SmokeNext => CheckedInv'
<1> SUFFICES ASSUME CheckedInv, SmokeNext PROVE CheckedInv'
  OBVIOUS
<1>1. ASSUME UNCHANGED <<bootOffered, bootDir, bootMade, bootLeft>> PROVE CheckedInv'
  BY <1>1 DEF CheckedInv, Checked, HoldsOnlyCheckedFiles
<1>2. ASSUME NEW c \in Replacements, ReplaceSource(c) PROVE CheckedInv'
  BY <1>2, CheckedReplace
<1>3. ASSUME NEW r \in Runner, Run(r) PROVE CheckedInv'
  <2>1. CASE \E asked \in Asked \cup {None} : BeginSmoke(r, asked)
    BY <1>1, <2>1 DEF BeginSmoke
  <2>2. CASE DetectFormat(r) \/ ValidateBundle(r) \/ SmokeFails(r) \/ BuildCommand(r)
    BY <1>1, <2>2 DEF DetectFormat, Test, ValidateBundle, SmokeFails, BuildCommand, bootRun
  <2>3. CASE RereadBundle(r)
    BY <2>3, CheckedExtract DEF RereadBundle, BootResult
  <2>4. CASE ReadFit(r)
    BY <2>4, CheckedExtract DEF ReadFit, BootResult
  <2>5. CASE ReadZip(r)
    BY <2>5, CheckedExtract DEF ReadZip, BootResult
  <2>6. CASE EndSmoke(r)
    <3>1. /\ UNCHANGED <<bootOffered, bootDir>> /\ bootMade'[r] = NoFiles /\ bootLeft'[r] = {}
          /\ DOMAIN bootMade' = Runner /\ DOMAIN bootLeft' = Runner
          /\ \A q \in Runner \ {r} : bootMade'[q] = bootMade[q] /\ bootLeft'[q] = bootLeft[q]
      BY <2>6 DEF EndSmoke, CheckedInv
    <3>2. ASSUME NEW q \in Runner
          PROVE  bootLeft'[q] \subseteq DOMAIN bootMade'[q] /\ Checked(bootMade[q])'
      BY <3>1, NoFilesProperties DEF CheckedInv, Checked
    <3> QED
      BY <3>1, <3>2 DEF CheckedInv, HoldsOnlyCheckedFiles
  <2>7. CASE \E f \in BootFile : WriteFile(r, f)
    BY <2>7, CheckedWrite
  <2>8. CASE \E f \in BootFile : Load(r, f)
    BY <1>1, <2>8 DEF Load
  <2> QED
    BY <1>3, <2>1, <2>2, <2>3, <2>4, <2>5, <2>6, <2>7, <2>8 DEF Run
<1> QED
  BY <1>2, <1>3 DEF SmokeNext

\* Whatever replaces the source between the reads of extract_boot_artifacts, and
\* wherever runs are killed, the work directory holds nothing that was not
\* checked as the bytes it is.
THEOREM HoldsCorrect == SmokeSpec => []HoldsOnlyCheckedFiles
<1>1. SmokeInit => CheckedInv
  <2> SUFFICES ASSUME SmokeInit PROVE CheckedInv
    OBVIOUS
  <2>1. PICK c \in Contents : bootOffered = <<c>>
    BY DEF SmokeInit
  <2> QED
    BY <2>1, NoFilesProperties DEF SmokeInit, CheckedInv, Checked, HoldsOnlyCheckedFiles
<1>2. CheckedInv /\ [SmokeNext]_bootVars => CheckedInv'
  <2>1. CheckedInv /\ UNCHANGED bootVars => CheckedInv'
    BY DEF CheckedInv, Checked, HoldsOnlyCheckedFiles, bootVars, bootRun
  <2> QED
    BY <2>1, CheckedNext
<1>3. CheckedInv => HoldsOnlyCheckedFiles
  BY DEF CheckedInv
<1> QED
  BY <1>1, <1>2, <1>3, PTL DEF SmokeSpec
-------------------------------------------------------------------------------
\* The files of a run are a kernel, a device tree and at most one RAM disk.
Complete(files) ==
    \E ramdisk \in {{}, {"ramdisk.img"}, {"ramdisk.img.gz"}} :
        DOMAIN files = {"kernel.bin", "devicetree.dtb"} \cup ramdisk

\* A bundle that is still the one a run began with has been found whole before it
\* is read again.
Validated(r) ==
    /\ bootPc[r] \in {"validate", "reread"} => bootAsked[r] = None
    /\ bootFrom[r] = Len(bootOffered) /\ Source.format = "p210"
           /\ bootPc[r] \in {"reread", "write", "build", "load", "booted"} =>
          bootAsked[r] = None /\ P210Issues(Source) = {}

\* A run by the stage it is in.
WholeRun(r) ==
    /\ bootAsked[r] \in Asked \cup {None}
    /\ bootMade[r] # NoFiles => Complete(bootMade[r])
    /\ bootPc[r] \in {"write", "build", "load", "booted"} => bootMade[r] # NoFiles
    /\ Validated(r)

WholeInv ==
    /\ Len(bootOffered) \in 1 .. MaxOffered
    /\ DOMAIN bootDir \subseteq BootFile
    /\ \A r \in Runner : WholeRun(r)

\* A result is never of a part of the files only.
LEMMA ResultComplete ==
  ASSUME NEW c, NEW asked, NEW x \in BootResult(c, asked)
  PROVE  Complete(x) /\ x # NoFiles
<1>1. \A fit : \A u \in FitBoot(fit, asked) : Complete(u)
  <2> SUFFICES ASSUME NEW fit, NEW u \in FitBoot(fit, asked) PROVE Complete(u)
    OBVIOUS
  <2>1. PICK d : DOMAIN u = {"kernel.bin", "devicetree.dtb"} \cup RamdiskFile(fit, d)
    BY DEF FitBoot
  <2>2. RamdiskFile(fit, d) \in {{}, {"ramdisk.img"}, {"ramdisk.img.gz"}}
    BY DEF RamdiskFile
  <2> QED
    BY <2>1, <2>2 DEF Complete
<1>2. \A u \in P210Boot(c) : Complete(u)
  <2> SUFFICES ASSUME NEW u \in P210Boot(c) PROVE Complete(u)
    OBVIOUS
  <2>1. DOMAIN u = {"kernel.bin", "devicetree.dtb"} \cup {}
    BY DEF P210Boot, BundleFiles
  <2> QED
    BY <2>1 DEF Complete
<1>3. Complete(x)
  BY <1>1, <1>2 DEF BootResult, PlutoBoot
<1>4. DOMAIN x # {}
  BY <1>3 DEF Complete
<1> QED
  BY <1>3, <1>4, NoFilesProperties

LEMMA CompleteFacts ==
  ASSUME NEW files, Complete(files)
  PROVE  /\ DOMAIN files \subseteq BootFile
         /\ Cardinality(DOMAIN files \cap {"ramdisk.img", "ramdisk.img.gz"}) <= 1
<1>1. PICK ramdisk \in {{}, {"ramdisk.img"}, {"ramdisk.img.gz"}} :
         DOMAIN files = {"kernel.bin", "devicetree.dtb"} \cup ramdisk
  BY DEF Complete
<1>2. DOMAIN files \cap {"ramdisk.img", "ramdisk.img.gz"} = ramdisk
  BY <1>1
<1>3. Cardinality(ramdisk) <= 1
  <2>1. Cardinality({}) = 0
    BY FS_EmptySet
  <2>2. Cardinality({"ramdisk.img"}) = 1 /\ Cardinality({"ramdisk.img.gz"}) = 1
    BY FS_Singleton
  <2> QED
    BY <1>1, <2>1, <2>2
<1>4. DOMAIN files \subseteq BootFile
  BY <1>1 DEF BootFile
<1> QED
  BY <1>2, <1>3, <1>4

\* A step that changes neither the source nor the directory.
LEMMA WholeStep ==
  ASSUME SmokeInv, WholeInv, NEW r \in Runner,
         UNCHANGED <<bootOffered, bootDir>>,
         \A q \in Runner \ {r} : /\ bootPc'[q] = bootPc[q] /\ bootAsked'[q] = bootAsked[q]
                                 /\ bootMade'[q] = bootMade[q] /\ bootFrom'[q] = bootFrom[q],
         WholeRun(r)'
  PROVE  WholeInv'
<1>1. ASSUME NEW q \in Runner \ {r} PROVE WholeRun(q)'
  BY DEF WholeInv, WholeRun, Validated, Source
<1> QED
  BY <1>1 DEF WholeInv, WholeRun

LEMMA WholeExtract ==
  ASSUME SmokeInv, WholeInv, NEW r \in Runner, bootPc[r] \in {"readZip", "reread", "readFit"},
         NEW results, results \subseteq BootResult(Source, bootAsked[r]), Extract(r, results),
         Source.format = "p210" /\ results # {} => bootPc[r] = "reread"
  PROVE  WholeInv'
<1> USE DEF Extract, GoTo
<1>1. /\ DOMAIN bootPc = Runner /\ DOMAIN bootMade = Runner
      /\ UNCHANGED <<bootOffered, bootDir, bootAsked, bootFrom>>
  BY DEF SmokeInv, SmokeShape
<1>2. WholeRun(r)
  BY DEF WholeInv, WholeRun
<1>3. CASE results = {}
  <2>1. bootPc' = [bootPc EXCEPT ![r] = "refused"] /\ bootMade' = bootMade
    BY <1>3
  <2>2. WholeRun(r)'
    BY <1>1, <1>2, <2>1 DEF WholeRun, Validated
  <2> HIDE DEF Extract
  <2> QED
    BY <1>1, <2>1, <2>2, WholeStep
<1>4. CASE results # {}
  <2>1. PICK made \in results : /\ bootPc' = [bootPc EXCEPT ![r] = "write"]
                                /\ bootMade' = [bootMade EXCEPT ![r] = made]
    BY <1>4
  <2>2. Complete(made) /\ made # NoFiles
    BY <2>1, ResultComplete
  <2> HIDE DEF Extract
  <2>3. Validated(r)'
    BY <1>1, <1>2, <1>4, <2>1 DEF WholeRun, Validated, Source
  <2>4. WholeRun(r)'
    BY <1>1, <1>2, <2>1, <2>2, <2>3 DEF WholeRun
  <2> QED
    BY <1>1, <2>1, <2>4, WholeStep
<1> QED
  BY <1>3, <1>4

LEMMA WholeNext == SmokeInv /\ WholeInv /\ SmokeNext => WholeInv'
<1> SUFFICES ASSUME SmokeInv, WholeInv, SmokeNext PROVE WholeInv'
  OBVIOUS
<1>0. /\ DOMAIN bootPc = Runner /\ DOMAIN bootMade = Runner /\ DOMAIN bootAsked = Runner
      /\ DOMAIN bootFrom = Runner /\ bootFrom \in [Runner -> Nat]
      /\ bootOffered \in Seq(Contents \cup Replacements) /\ Len(bootOffered) \in Nat
      /\ \A r \in Runner : WholeRun(r) /\ RunInv(r)
  BY LenProperties DEF SmokeInv, SmokeShape, WholeInv, WholeRun
<1>1. ASSUME NEW c \in Replacements, ReplaceSource(c) PROVE WholeInv'
  <2> USE DEF ReplaceSource, bootRun
  <2>1. /\ bootOffered' = Append(bootOffered, c) /\ Len(bootOffered) < MaxOffered
        /\ UNCHANGED <<bootDir, bootPc, bootAsked, bootMade, bootFrom>>
    BY <1>1
  <2>2. Len(bootOffered') = Len(bootOffered) + 1
    BY <1>0, <2>1, AppendProperties
  <2>3. Len(bootOffered') \in 1 .. MaxOffered
    BY <1>0, <2>1, <2>2, MaxOfferedAssumption
  <2>4. ASSUME NEW r \in Runner PROVE WholeRun(r)'
    <3>1. bootFrom'[r] # Len(bootOffered')
      <4>1. bootFrom[r] \in Nat /\ bootFrom[r] <= Len(bootOffered)
        BY <1>0 DEF RunInv, MadeOfSource
      <4>2. bootFrom[r] # Len(bootOffered) + 1
        BY <1>0, <4>1
      <4> QED
        BY <2>1, <2>2, <4>2
    <3>2. Validated(r)'
      BY <1>0, <2>1, <3>1 DEF WholeRun, Validated
    <3> QED
      BY <1>0, <2>1, <3>2 DEF WholeRun
  <2> QED
    BY <2>1, <2>3, <2>4 DEF WholeInv, WholeRun
<1>2. ASSUME NEW r \in Runner, Run(r) PROVE WholeInv'
  <2>0. WholeRun(r) /\ RunInv(r)
    BY <1>0
  <2>1. ASSUME NEW asked \in Asked \cup {None}, BeginSmoke(r, asked) PROVE WholeInv'
    <3>1. /\ bootPc' = [bootPc EXCEPT ![r] = "zip"] /\ bootAsked' = [bootAsked EXCEPT ![r] = asked]
          /\ bootFrom' = [bootFrom EXCEPT ![r] = Len(bootOffered)]
          /\ UNCHANGED <<bootOffered, bootDir, bootMade>>
      BY <2>1 DEF BeginSmoke, GoTo
    <3>2. WholeRun(r)'
      BY <1>0, <2>0, <3>1 DEF WholeRun, Validated
    <3> QED
      BY <1>0, <3>1, <3>2, WholeStep
  <2>2. ASSUME NEW pc, GoTo(r, pc), UNCHANGED <<bootOffered, bootDir, bootRun>>,
               pc \notin {"write", "booted"}, pc = "validate" => bootAsked[r] = None,
               pc = "reread" => /\ bootPc[r] = "validate"
                                /\ P210Issues(Source) = {},
               pc \in {"build", "load"} => bootPc[r] \in {"write", "build", "load"}
        PROVE  WholeInv'
    <3>1. /\ bootPc' = [bootPc EXCEPT ![r] = pc]
          /\ UNCHANGED <<bootOffered, bootDir, bootAsked, bootMade, bootFrom>>
      BY <2>2 DEF GoTo, bootRun
    <3>2. WholeRun(r)'
      BY <1>0, <2>0, <2>2, <3>1 DEF WholeRun, Validated, Source
    <3> QED
      BY <1>0, <3>1, <3>2, WholeStep
  <2>3. CASE DetectFormat(r)
    <3>1. PICK pc \in {"readZip", "tar", "validate", "refused", "magic", "readFit"} :
             GoTo(r, pc) /\ (pc = "validate" => bootAsked[r] = None)
             /\ UNCHANGED <<bootOffered, bootDir, bootRun>>
      BY <2>3 DEF DetectFormat, Test
    <3> QED
      BY <2>2, <3>1
  <2>4. CASE ValidateBundle(r)
    <3>1. PICK pc \in {"reread", "refused"} :
             GoTo(r, pc) /\ (pc = "reread" => bootPc[r] = "validate" /\ P210Issues(Source) = {})
      BY <2>4 DEF ValidateBundle
    <3> QED
      BY <2>2, <2>4, <3>1 DEF ValidateBundle
  <2>5. CASE RereadBundle(r)
    BY <2>5, WholeExtract DEF RereadBundle, BootResult
  <2>6. CASE ReadFit(r)
    BY <2>6, WholeExtract DEF ReadFit, BootResult
  <2>7. CASE ReadZip(r)
    BY <2>7, WholeExtract DEF ReadZip, BootResult
  <2>8. CASE SmokeFails(r)
    BY <2>2, <2>8 DEF SmokeFails
  <2>9. CASE BuildCommand(r)
    BY <2>2, <2>9 DEF BuildCommand
  <2>10. CASE EndSmoke(r)
    <3>1. /\ bootPc' = [bootPc EXCEPT ![r] = "idle"] /\ bootAsked' = [bootAsked EXCEPT ![r] = None]
          /\ bootMade' = [bootMade EXCEPT ![r] = NoFiles] /\ bootFrom' = [bootFrom EXCEPT ![r] = 0]
          /\ UNCHANGED <<bootOffered, bootDir>>
      BY <2>10 DEF EndSmoke, GoTo
    <3>2. WholeRun(r)'
      BY <1>0, <3>1 DEF WholeRun, Validated
    <3> QED
      BY <1>0, <3>1, <3>2, WholeStep
  <2>11. ASSUME NEW f \in BootFile, WriteFile(r, f) PROVE WholeInv'
    <3>1. /\ bootPc[r] = "write" /\ f \in bootLeft[r] /\ bootDir' = Put(bootDir, f, bootMade[r][f])
          /\ UNCHANGED <<bootOffered, bootAsked, bootMade, bootFrom>>
      BY <2>11 DEF WriteFile, Written
    <3>2. PICK pc \in {"build", "write"} : bootPc' = [bootPc EXCEPT ![r] = pc]
      BY <2>11 DEF WriteFile, Written, GoTo
    <3>3. DOMAIN bootDir' \subseteq BootFile
      BY <3>1 DEF WholeInv, Put
    <3>4. ASSUME NEW q \in Runner PROVE WholeRun(q)'
      <4>1. CASE q = r
        BY <1>0, <3>1, <3>2, <4>1 DEF WholeRun, Validated, Source
      <4>2. CASE q # r
        BY <1>0, <3>1, <3>2, <4>2 DEF WholeRun, Validated, Source
      <4> QED
        BY <4>1, <4>2
    <3> QED
      BY <3>1, <3>3, <3>4 DEF WholeInv, WholeRun
  <2>12. ASSUME NEW f \in BootFile, Load(r, f) PROVE WholeInv'
    <3>1. bootPc[r] = "load" /\ UNCHANGED <<bootOffered, bootDir, bootAsked, bootMade, bootFrom>>
      BY <2>12 DEF Load
    <3>2. PICK pc \in {"load", "booted"} : bootPc' = [bootPc EXCEPT ![r] = pc]
      BY <2>12 DEF Load, GoTo
    <3>3. WholeRun(r)'
      BY <1>0, <2>0, <3>1, <3>2 DEF WholeRun, Validated, Source
    <3> QED
      BY <1>0, <3>1, <3>2, <3>3, WholeStep
  <2> QED
    BY <1>2, <2>1, <2>3, <2>4, <2>5, <2>6, <2>7, <2>8, <2>9, <2>10, <2>11, <2>12 DEF Run
<1> QED
  BY <1>1, <1>2 DEF SmokeNext

LEMMA SmokeSpecInv == SmokeSpec => [](SmokeInv /\ WholeInv)
<1>1. SmokeInit => WholeInv
  <2> SUFFICES ASSUME SmokeInit PROVE WholeInv
    OBVIOUS
  <2>1. PICK c \in Contents : bootOffered = <<c>>
    BY DEF SmokeInit
  <2>2. Len(bootOffered) \in 1 .. MaxOffered
    BY <2>1, MaxOfferedAssumption
  <2>3. ASSUME NEW r \in Runner PROVE WholeRun(r)
    BY <2>1 DEF SmokeInit, WholeRun, Validated
  <2>4. DOMAIN bootDir \subseteq BootFile
    BY NoFilesProperties DEF SmokeInit
  <2> QED
    BY <2>2, <2>3, <2>4 DEF WholeInv, WholeRun
<1>2. WholeInv /\ UNCHANGED bootVars => WholeInv'
  <2> SUFFICES ASSUME WholeInv, UNCHANGED bootVars PROVE WholeInv'
    OBVIOUS
  <2> USE DEF bootVars, bootRun
  <2> QED
    BY DEF WholeInv, WholeRun, Validated, Source
<1>3. SmokeInv /\ WholeInv /\ [SmokeNext]_bootVars => (SmokeInv /\ WholeInv)'
  BY <1>2, SmokeNextInv, SmokeStutter, WholeNext
<1> QED
  BY <1>1, <1>3, SmokeInitInv, PTL DEF SmokeSpec

\* The work directory holds files to boot only, and a run its kernel, its device
\* tree and at most one RAM disk.
THEOREM SmokeTypeCorrect == SmokeSpec => []SmokeTypeOK
<1>1. SmokeInv /\ WholeInv => SmokeTypeOK
  <2> SUFFICES ASSUME SmokeInv, WholeInv PROVE SmokeTypeOK
    OBVIOUS
  <2>1. ASSUME NEW r \in Runner
        PROVE  /\ bootAsked[r] \in Asked \cup {None}
               /\ bootPc[r] \in {"build", "load", "booted"} => bootMade[r] # NoFiles /\ bootLeft[r] = {}
               /\ bootMade[r] # NoFiles =>
                     Cardinality(DOMAIN bootMade[r] \cap {"ramdisk.img", "ramdisk.img.gz"}) <= 1
               /\ bootLeft[r] \subseteq DOMAIN bootMade[r]
               /\ DOMAIN bootLoaded[r] \subseteq DOMAIN bootMade[r]
    BY CompleteFacts DEF SmokeInv, RunInv, Progress, WholeInv, WholeRun
  <2>2. /\ bootPc \in [Runner -> SmokeStage] /\ bootAlike \in [Runner -> BOOLEAN]
        /\ Len(bootOffered) \in 1 .. MaxOffered /\ DOMAIN bootDir \subseteq BootFile
    BY DEF SmokeInv, SmokeShape, WholeInv
  <2> QED
    BY <2>1, <2>2 DEF SmokeTypeOK, SmokeStage
<1> QED
  BY <1>1, SmokeSpecInv, PTL

\* A FIT that something was made of is whole, and what was made of it is the
\* configuration asked for.
LEMMA FitWhole ==
  ASSUME NEW c \in Contents \cup Replacements, NEW fit \in FitsIn(c), NEW asked,
         NEW x \in FitBoot(fit, asked)
  PROVE  BootsConfiguration(fit, asked, x)
<1> DEFINE wanted == IF asked # None THEN asked
                     ELSE IF fit.default # None THEN fit.default
                     ELSE IF fit.configurations # <<>> THEN fit.configurations[1].name
                     ELSE None
<1>1. FitIssues(fit) = {}
  BY DEF FitBoot
<1>2. PICK d \in Selected(fit, asked) :
         /\ Usable(fit, d)
         /\ x = [f \in {"kernel.bin", "devicetree.dtb"} \cup RamdiskFile(fit, d) |->
                    fit.images[CASE f = "kernel.bin"     -> d.kernel
                                 [] f = "devicetree.dtb" -> d.fdt
                                 [] OTHER                -> d.ramdisk].data]
  BY DEF FitBoot
<1>3. d \in Named(fit, wanted)
  BY DEF Selected
<1>4. PICK i \in DOMAIN fit.configurations : d = fit.configurations[i] /\ d.name = wanted
  BY <1>3 DEF Named
<1>5. wanted = IF asked # None THEN asked ELSE IF fit.default # None THEN fit.default
               ELSE fit.configurations[1].name
  BY <1>4
<1>6. fit.trailer \in {"none", "md5", "dfu", "other"}
  <2>1. ~TrailerIssue(fit.trailer)
    BY <1>1 DEF FitIssues
  <2> QED
    BY <2>1, FitFacts DEF TrailerIssue
<1>7. \A n \in DOMAIN fit.images : fit.images[n].data # None
  BY <1>1 DEF FitIssues, ImageIssue
<1>8. /\ x["kernel.bin"] = fit.images[d.kernel].data
      /\ x["devicetree.dtb"] = fit.images[d.fdt].data
      /\ \A f \in DOMAIN x \ {"kernel.bin", "devicetree.dtb"} : x[f] = fit.images[d.ramdisk].data
      /\ DOMAIN x = {"kernel.bin", "devicetree.dtb"} \cup RamdiskFile(fit, d)
  BY <1>2
<1>9. (d.ramdisk = None) <=> (DOMAIN x = {"kernel.bin", "devicetree.dtb"})
  BY <1>8 DEF RamdiskFile
<1> HIDE DEF wanted
<1> QED
  BY <1>4, <1>5, <1>6, <1>7, <1>8, <1>9 DEF BootsConfiguration

\* Whatever the source is, of any number of members, images and configurations:
\* as long as it stays, what a run boots is a whole bundle, or of a whole FIT the
\* configuration asked for.
THEOREM BootsWhole == SmokeSpec => []BootsWholeSource
<1>1. SmokeInv /\ WholeInv => BootsWholeSource
  <2> SUFFICES ASSUME SmokeInv, WholeInv, NEW r \in Runner,
                      bootPc[r] \in {"write", "build", "load", "booted"},
                      bootFrom[r] = Len(bootOffered)
               PROVE  \/ Source.format = "p210" /\ BootableBundle(Source) /\ bootAsked[r] = None
                      \/ \E fit \in FitsIn(Source) :
                            BootsConfiguration(fit, bootAsked[r], bootMade[r])
    BY DEF BootsWholeSource
  <2>1. bootMade[r] \in BootResult(Source, bootAsked[r]) /\ Validated(r)
    BY DEF SmokeInv, RunInv, MadeOfSource, WholeInv, WholeRun
  <2>2. Source \in Contents \cup Replacements
    BY LenProperties, ElementOfSeq DEF SmokeInv, SmokeShape, Source
  <2>3. CASE Source.format = "p210"
    <3>1. bootAsked[r] = None /\ P210Issues(Source) = {}
      BY <2>1, <2>3 DEF Validated
    <3>2. P210Boot(Source) # {}
      BY <2>1, <2>3 DEF BootResult
    <3> DEFINE b == Source
    <3>3. /\ UImageParses(b.uimage) /\ b.uimage.target = "linux-arm" /\ b.uimage.type = "kernel"
          /\ b.uimage.compression = "none" /\ Parses(b.tree)
      BY <3>2 DEF P210Boot
    <3>4. Required \subseteq b.files
      BY <3>1 DEF P210Issues
    <3>5. TreeIssues(b.tree) = {} /\ b.lacks = {}
      <4>1. KernelIssues(b.uimage) \cup TreeIssues(b.tree) \cup b.lacks = {}
        BY <3>1, <3>4 DEF P210Issues
      <4> QED
        BY <4>1
    <3>6. b.tree.lacks = {}
      <4> DEFINE lacks == b.tree.lacks
                 doubt == IF "dt.ad9361" \in lacks THEN {"dt.ad9361.mimo"} ELSE {}
      <4>1. lacks \ doubt = {}
        BY <3>3, <3>5 DEF TreeIssues
      <4>2. "dt.ad9361" \notin lacks
        <5>1. "dt.ad9361" \notin doubt
          OBVIOUS
        <5> HIDE DEF doubt, lacks
        <5> QED
          BY <4>1, <5>1
      <4>3. doubt = {}
        BY <4>2
      <4> HIDE DEF doubt, lacks
      <4>4. lacks = {}
        BY <4>1, <4>3
      <4> QED
        BY <4>4 DEF lacks
    <3>7. BootableBundle(b)
      BY <3>3, <3>4, <3>5, <3>6 DEF BootableBundle, UImageParses, Parses
    <3> QED
      BY <2>3, <3>1, <3>7
  <2>4. CASE Source.format = "fit"
    BY <2>1, <2>2, <2>4, FitWhole DEF BootResult, FitsIn
  <2>5. CASE Source.format = "zip"
    <3>1. PlutoBoot(Source, bootAsked[r]) \subseteq FitBoot(Source.members[1], bootAsked[r])
          /\ bootMade[r] \in PlutoBoot(Source, bootAsked[r])
      BY <2>1, <2>5 DEF BootResult, PlutoBoot
    <3> QED
      BY <2>2, <2>5, <3>1, OnlyFitInMembers, FitWhole
  <2> QED
    BY <2>1, <2>3, <2>4, <2>5 DEF BootResult
<1> QED
  BY <1>1, SmokeSpecInv, PTL
-------------------------------------------------------------------------------
(***************************************************************************)
(* FdtParser: the token machine stays within the block and the block within *)
(* the artifact, what it builds is one tree at every moment, and a block is *)
(* accepted exactly where it holds one, for blocks of every length.        *)
(***************************************************************************)
\* The open nodes are nodes, and every node and property is under one that began
\* before it; only the first node has no parent.
OneTree ==
    /\ \A i \in 1 .. Len(fdtStack) : fdtStack[i] \in DOMAIN fdtParent
    /\ \A n \in DOMAIN fdtParent :
          /\ n \in 1 .. Len(fdtBlock) /\ fdtParent[n] < n
          /\ fdtParent[n] \in DOMAIN fdtParent \cup {0}
    /\ \A m, n \in DOMAIN fdtParent : fdtParent[m] = 0 /\ fdtParent[n] = 0 => m = n
    /\ \A p \in DOMAIN fdtOwner : p \in 1 .. Len(fdtBlock) /\ fdtOwner[p] \in DOMAIN fdtParent

\* The block's span is within the artifact, and nothing is read before it is known.
WithinSpan == fdtLimit <= fdtSize /\ (fdtState = "header" => fdtBlock = <<>>)

FdtInv == FdtTypeOK /\ WithinSpan /\ OneTree

-------------------------------------------------------------------------------
USE MaxWordsAssumption, LastNulAssumption

LEMMA FdtInitInv == FdtInit => FdtInv
<1> SUFFICES ASSUME FdtInit PROVE FdtInv
  OBVIOUS
<1> USE DEF FdtInit
<1>1. fdtBlock \in Seq(Word) /\ Len(fdtBlock) = 0 /\ fdtStack \in Seq(Place) /\ Len(fdtStack) = 0
  BY EmptySeq
<1>2. fdtParent \in [{} -> 0 .. MaxWords] /\ fdtOwner \in [{} -> Place]
  OBVIOUS
<1>3. FdtTypeOK
  <2>1. \E nodes \in SUBSET Place : fdtParent \in [nodes -> 0 .. MaxWords]
    BY <1>2
  <2>2. \E properties \in SUBSET Place : fdtOwner \in [properties -> Place]
    BY <1>2
  <2>3. /\ fdtSize \in 0 .. MaxWords /\ fdtLimit \in 0 .. MaxWords
        /\ Len(fdtBlock) <= fdtLimit
        /\ fdtState \in {"header", "parsing", "accepted", "refused"}
    BY <1>1
  <2> QED
    BY <1>1, <2>1, <2>2, <2>3, Zenon DEF FdtTypeOK
<1>4. OneTree
  BY <1>1, <1>2 DEF OneTree
<1> QED
  BY <1>3, <1>4 DEF FdtInv, WithinSpan

\* Words of a name or of data, after a token and its operands.
LEMMA WordsAreASequence ==
  ASSUME NEW n \in Nat, NEW words \in [1 .. n -> Word]
  PROVE  words \in Seq(Word) /\ Len(words) = n
BY SeqDef

\* What Advance leaves, for words that fit.
LEMMA AdvanceFits ==
  ASSUME FdtInv, NEW words \in Seq(Word), Len(words) <= Left, Advance(words)
  PROVE  /\ fdtBlock' \in Seq(Word)
         /\ Len(fdtBlock') = Len(fdtBlock) + Len(words)
         /\ Len(fdtBlock') <= fdtLimit
<1>1. Len(fdtBlock) \in Nat /\ Len(words) \in Nat /\ fdtLimit \in Nat
  BY LenProperties DEF FdtInv, FdtTypeOK
<1> QED
  BY <1>1, ConcatProperties DEF FdtInv, FdtTypeOK, Advance, Left

LEMMA TokenFits ==
  ASSUME FdtInv, Token
  PROVE  /\ Len(fdtBlock) \in Nat /\ Here \in Place /\ Left \in Nat \ {0}
         /\ \A i \in 1 .. Len(fdtBlock) : i < Here
<1>1. Len(fdtBlock) \in Nat
  BY LenProperties DEF FdtInv, FdtTypeOK
<1> QED
  BY <1>1 DEF FdtInv, FdtTypeOK, Token, Here, Left, Place

\* A refusal keeps the invariant, whatever has been read up to it.
LEMMA RefuseInv ==
  ASSUME FdtInv, Refuse, fdtState = "parsing",
         fdtBlock' \in Seq(Word), Len(fdtBlock') \in Nat,
         Len(fdtBlock) <= Len(fdtBlock'), Len(fdtBlock') <= fdtLimit
  PROVE  FdtInv'
<1>1. Len(fdtBlock) \in Nat
  BY LenProperties DEF FdtInv, FdtTypeOK
<1>2. FdtTypeOK'
  BY DEF FdtInv, FdtTypeOK, Refuse
<1>3. OneTree'
  BY <1>1 DEF FdtInv, OneTree, Refuse
<1> QED
  BY <1>2, <1>3 DEF FdtInv, WithinSpan, Refuse

\* Going past words inside a node keeps what is known of nodes and properties.
LEMMA ContinueInv ==
  ASSUME FdtInv, Continue, fdtState = "parsing", UNCHANGED <<fdtStack, fdtParent, fdtOwner>>,
         fdtBlock' \in Seq(Word), Len(fdtBlock') \in Nat,
         Len(fdtBlock) <= Len(fdtBlock'), Len(fdtBlock') <= fdtLimit
  PROVE  FdtInv'
<1>1. Len(fdtBlock) \in Nat
  BY LenProperties DEF FdtInv, FdtTypeOK
<1>2. FdtTypeOK'
  BY DEF FdtInv, FdtTypeOK, Continue
<1>3. OneTree'
  BY <1>1 DEF FdtInv, OneTree
<1> QED
  BY <1>2, <1>3 DEF FdtInv, WithinSpan, Continue

\* A node under the last open one, or the first root.
LEMMA BeginNodeInv ==
  ASSUME FdtInv, Token, fdtBlock' \in Seq(Word), Len(fdtBlock') \in Nat,
         Here <= Len(fdtBlock'), Len(fdtBlock') <= fdtLimit,
         IF fdtStack = <<>> /\ DOMAIN fdtParent # {}
         THEN Refuse
         ELSE /\ fdtParent' = Extend(fdtParent, Here,
                                     IF fdtStack = <<>> THEN 0 ELSE fdtStack[Len(fdtStack)])
              /\ fdtStack' = Append(fdtStack, Here)
              /\ Continue /\ UNCHANGED fdtOwner
  PROVE  FdtInv'
<1> DEFINE up == IF fdtStack = <<>> THEN 0 ELSE fdtStack[Len(fdtStack)]
<1>1. /\ Len(fdtBlock) \in Nat /\ Here \in Place /\ Here = Len(fdtBlock) + 1
      /\ \A i \in 1 .. Len(fdtBlock) : i < Here
  BY TokenFits DEF Here
<1>2. CASE fdtStack = <<>> /\ DOMAIN fdtParent # {}
  BY <1>1, <1>2, RefuseInv DEF Token
<1>3. CASE ~(fdtStack = <<>> /\ DOMAIN fdtParent # {})
  <2>1. /\ fdtParent' = Extend(fdtParent, Here, up)
        /\ fdtStack' = Append(fdtStack, Here)
        /\ Continue /\ fdtOwner' = fdtOwner
    BY <1>3
  <2>2. fdtStack \in Seq(Place) /\ Len(fdtStack) \in Nat
    BY LenProperties DEF FdtInv, FdtTypeOK
  <2>3. up \in 0 .. MaxWords /\ up \in DOMAIN fdtParent \cup {0} /\ up < Here
        /\ (up = 0 => DOMAIN fdtParent = {})
    <3>1. CASE fdtStack = <<>>
      <4>1. up = 0 /\ DOMAIN fdtParent = {}
        BY <1>3, <3>1
      <4> QED
        BY <1>1, <4>1 DEF Place
    <3>2. CASE fdtStack # <<>>
      <4>1. Len(fdtStack) \in 1 .. Len(fdtStack)
        BY <2>2, <3>2, EmptySeq
      <4>2. up = fdtStack[Len(fdtStack)] /\ up \in Place /\ up \in DOMAIN fdtParent
        BY <2>2, <3>2, <4>1, ElementOfSeq DEF FdtInv, OneTree
      <4>3. up \in 1 .. Len(fdtBlock)
        BY <4>2 DEF FdtInv, OneTree
      <4> QED
        BY <1>1, <4>2, <4>3 DEF Place
    <3> QED
      BY <3>1, <3>2
  <2> HIDE DEF up
  <2>4. PICK nodes \in SUBSET Place : fdtParent \in [nodes -> 0 .. MaxWords]
    BY DEF FdtInv, FdtTypeOK
  <2>5. /\ DOMAIN fdtParent = nodes /\ DOMAIN fdtParent' = nodes \cup {Here}
        /\ fdtParent'[Here] = up
        /\ \A n \in nodes : n # Here /\ fdtParent'[n] = fdtParent[n]
    BY <1>1, <2>1, <2>4 DEF Extend, FdtInv, OneTree
  <2>6. fdtParent' \in [nodes \cup {Here} -> 0 .. MaxWords] /\ nodes \cup {Here} \in SUBSET Place
    BY <1>1, <2>1, <2>3, <2>4 DEF Extend
  <2>7. FdtTypeOK'
    <3>1. \E m \in SUBSET Place : fdtParent' \in [m -> 0 .. MaxWords]
      BY <2>6
    <3>2. \E q \in SUBSET Place : fdtOwner' \in [q -> Place]
      BY <2>1 DEF FdtInv, FdtTypeOK
    <3>3. fdtStack' \in Seq(Place)
      BY <1>1, <2>1, <2>2, AppendProperties
    <3>4. /\ fdtSize' \in 0 .. MaxWords /\ fdtLimit' \in 0 .. MaxWords
          /\ Len(fdtBlock') <= fdtLimit'
          /\ fdtState' \in {"header", "parsing", "accepted", "refused"}
      BY <2>1 DEF FdtInv, FdtTypeOK, Continue
    <3> QED
      BY <3>1, <3>2, <3>3, <3>4, Zenon DEF FdtTypeOK
  <2>8. OneTree'
    <3>1. \A i \in 1 .. Len(fdtStack') : fdtStack'[i] \in DOMAIN fdtParent'
      BY <1>1, <2>1, <2>2, <2>4, <2>5, AppendProperties DEF FdtInv, OneTree
    <3>2. \A n \in DOMAIN fdtParent' :
             /\ n \in 1 .. Len(fdtBlock') /\ fdtParent'[n] < n
             /\ fdtParent'[n] \in DOMAIN fdtParent' \cup {0}
      <4> SUFFICES ASSUME NEW n \in nodes \cup {Here}
                   PROVE  /\ n \in 1 .. Len(fdtBlock') /\ fdtParent'[n] < n
                          /\ fdtParent'[n] \in nodes \cup {Here} \cup {0}
        BY <2>5
      <4>1. CASE n = Here
        BY <1>1, <2>3, <2>4, <2>5, <4>1
      <4>2. CASE n \in nodes
        <5>1. n \in 1 .. Len(fdtBlock) /\ fdtParent[n] < n /\ fdtParent[n] \in nodes \cup {0}
          BY <2>4, <4>2 DEF FdtInv, OneTree
        <5>2. fdtParent'[n] = fdtParent[n]
          BY <2>5, <4>2
        <5>3. Len(fdtBlock) <= Len(fdtBlock')
          BY <1>1
        <5> QED
          BY <1>1, <5>1, <5>2, <5>3
      <4> QED
        BY <4>1, <4>2
    <3>3. \A k, n \in DOMAIN fdtParent' : fdtParent'[k] = 0 /\ fdtParent'[n] = 0 => k = n
      BY <2>3, <2>4, <2>5 DEF FdtInv, OneTree
    <3>4. \A p \in DOMAIN fdtOwner' : p \in 1 .. Len(fdtBlock') /\ fdtOwner'[p] \in DOMAIN fdtParent'
      BY <1>1, <2>1, <2>4, <2>5 DEF FdtInv, OneTree
    <3> QED
      BY <3>1, <3>2, <3>3, <3>4 DEF OneTree
  <2> QED
    BY <2>1, <2>7, <2>8 DEF FdtInv, WithinSpan, Continue, Token
<1> QED
  BY <1>2, <1>3

\* A property of the last open node.
LEMMA PropertyInv ==
  ASSUME FdtInv, Token, fdtStack # <<>>, fdtBlock' \in Seq(Word), Len(fdtBlock') \in Nat,
         Here <= Len(fdtBlock'), Len(fdtBlock') <= fdtLimit,
         fdtOwner' = Extend(fdtOwner, Here, fdtStack[Len(fdtStack)]),
         Continue, UNCHANGED <<fdtStack, fdtParent>>
  PROVE  FdtInv'
<1> DEFINE node == fdtStack[Len(fdtStack)]
<1>1. /\ Len(fdtBlock) \in Nat /\ Here \in Place /\ Here = Len(fdtBlock) + 1
      /\ \A i \in 1 .. Len(fdtBlock) : i < Here
  BY TokenFits DEF Here
<1>2. fdtStack \in Seq(Place) /\ Len(fdtStack) \in Nat
  BY LenProperties DEF FdtInv, FdtTypeOK
<1>3. Len(fdtStack) \in 1 .. Len(fdtStack)
  BY <1>2, EmptySeq
<1>4. node \in Place /\ node \in DOMAIN fdtParent
  BY <1>2, <1>3, ElementOfSeq DEF FdtInv, OneTree
<1> HIDE DEF node
<1>5. PICK properties \in SUBSET Place : fdtOwner \in [properties -> Place]
  BY DEF FdtInv, FdtTypeOK
<1>6. fdtOwner' = Extend(fdtOwner, Here, node)
  BY DEF node
<1>7. fdtOwner' \in [properties \cup {Here} -> Place] /\ properties \cup {Here} \in SUBSET Place
  BY <1>1, <1>4, <1>5, <1>6 DEF Extend
<1>8. FdtTypeOK'
  <2>1. \E q \in SUBSET Place : fdtOwner' \in [q -> Place]
    BY <1>7
  <2>2. \E n \in SUBSET Place : fdtParent' \in [n -> 0 .. MaxWords]
    BY DEF FdtInv, FdtTypeOK
  <2>3. /\ fdtSize' \in 0 .. MaxWords /\ fdtLimit' \in 0 .. MaxWords
        /\ fdtStack' \in Seq(Place) /\ Len(fdtBlock') <= fdtLimit'
        /\ fdtState' \in {"header", "parsing", "accepted", "refused"}
    BY DEF FdtInv, FdtTypeOK, Continue
  <2> QED
    BY <2>1, <2>2, <2>3, Zenon DEF FdtTypeOK
<1>9. OneTree'
  BY <1>1, <1>4, <1>5, <1>6 DEF Extend, FdtInv, OneTree
<1> QED
  BY <1>8, <1>9 DEF FdtInv, WithinSpan, Continue, Token

\* A stack without its last.
LEMMA ShorterStack ==
  ASSUME NEW s \in Seq(Place), Len(s) \in Nat \ {0}
  PROVE  LET t == SubSeq(s, 1, Len(s) - 1)
         IN  /\ t \in Seq(Place) /\ Len(t) = Len(s) - 1
             /\ \A i \in 1 .. Len(s) - 1 : t[i] = s[i]
<1> DEFINE k == Len(s) - 1
<1>1. k \in Nat /\ \A i \in 1 .. k : s[i] \in Place
  BY ElementOfSeq
<1> HIDE DEF k
<1> DEFINE t == SubSeq(s, 1, k)
<1>2. /\ t \in Seq(Place)
      /\ Len(t) = (IF 1 <= k THEN k - 1 + 1 ELSE 0)
      /\ \A i \in 1 .. k - 1 + 1 : t[i] = s[1 + i - 1]
  BY <1>1, SubSeqProperties
<1> HIDE DEF t
<1>3. Len(t) = k /\ \A i \in 1 .. k : t[i] = s[i]
  BY <1>1, <1>2
<1> QED
  BY <1>2, <1>3 DEF k, t

\* The end of the last open node.
LEMMA EndNodeInv ==
  ASSUME FdtInv, Token, fdtStack # <<>>, fdtBlock' \in Seq(Word), Len(fdtBlock') \in Nat,
         Len(fdtBlock) <= Len(fdtBlock'), Len(fdtBlock') <= fdtLimit,
         fdtStack' = SubSeq(fdtStack, 1, Len(fdtStack) - 1),
         Continue, UNCHANGED <<fdtParent, fdtOwner>>
  PROVE  FdtInv'
<1>1. Len(fdtBlock) \in Nat /\ fdtStack \in Seq(Place) /\ Len(fdtStack) \in Nat
  BY LenProperties DEF FdtInv, FdtTypeOK
<1>2. Len(fdtStack) \in Nat \ {0}
  BY <1>1, EmptySeq
<1>3. /\ fdtStack' \in Seq(Place) /\ Len(fdtStack') = Len(fdtStack) - 1
      /\ \A i \in 1 .. Len(fdtStack) - 1 : fdtStack'[i] = fdtStack[i]
  BY <1>1, <1>2, ShorterStack
<1>4. FdtTypeOK'
  BY <1>3 DEF FdtInv, FdtTypeOK, Continue
<1>5. OneTree'
  BY <1>1, <1>2, <1>3 DEF FdtInv, OneTree
<1> QED
  BY <1>4, <1>5 DEF FdtInv, WithinSpan, Continue, Token

\* What is left of the block after one word, and after a token with two operands and data.
LEMMA OneWordFits ==
  ASSUME FdtInv, Token, NEW word \in Word, Advance(<<word>>)
  PROVE  /\ fdtBlock' \in Seq(Word) /\ Len(fdtBlock') \in Nat
         /\ Len(fdtBlock) <= Len(fdtBlock') /\ Len(fdtBlock') <= fdtLimit
<1>1. <<word>> \in Seq(Word) /\ Len(<<word>>) = 1
  OBVIOUS
<1>2. Len(fdtBlock) \in Nat /\ Left \in Nat \ {0}
  BY TokenFits
<1>3. Len(<<word>>) <= Left
  BY <1>1, <1>2
<1>4. fdtBlock' \in Seq(Word) /\ Len(fdtBlock') = Len(fdtBlock) + 1 /\ Len(fdtBlock') <= fdtLimit
  BY <1>1, <1>3, AdvanceFits
<1> QED
  BY <1>2, <1>4

LEMMA FdtNextInv == FdtInv /\ FdtNext => FdtInv'
<1> SUFFICES ASSUME FdtInv, FdtNext PROVE FdtInv'
  OBVIOUS
<1>0. /\ fdtSize \in Nat /\ fdtLimit \in Nat /\ Len(fdtBlock) \in Nat
      /\ fdtStack \in Seq(Place) /\ Len(fdtStack) \in Nat
  BY LenProperties DEF FdtInv, FdtTypeOK
<1>1. CASE ReadHeader
  <2> USE <1>1 DEF ReadHeader
  <2>1. FdtTypeOK'
    BY DEF FdtInv, FdtTypeOK, WithinSpan
  <2>2. WithinSpan'
    BY <1>0 DEF FdtInv, WithinSpan
  <2>3. OneTree'
    BY DEF FdtInv, OneTree
  <2> QED
    BY <2>1, <2>2, <2>3 DEF FdtInv
<1>2. CASE ReadBeginNode
  <2> USE <1>2 DEF ReadBeginNode
  <2>0. Token
    OBVIOUS
  <2>1. PICK n \in 1 .. Left - 1 : \E name \in Name(n) : Advance(<<BeginNode>> \o name)
    OBVIOUS
  <2>2. PICK name \in Name(n) : Advance(<<BeginNode>> \o name)
    BY <2>1
  <2>3. name \in [1 .. n -> Word] /\ n \in Nat /\ 1 + n <= Left
    BY <2>0, TokenFits DEF Name
  <2>4. name \in Seq(Word) /\ Len(name) = n
    BY <2>3, WordsAreASequence
  <2>5. <<BeginNode>> \in Seq(Word) /\ Len(<<BeginNode>>) = 1
    BY DEF Word
  <2>6. (<<BeginNode>> \o name) \in Seq(Word) /\ Len(<<BeginNode>> \o name) = 1 + n
    BY <2>4, <2>5, ConcatProperties
  <2>7. fdtBlock' \in Seq(Word) /\ Len(fdtBlock') = Len(fdtBlock) + (1 + n)
        /\ Len(fdtBlock') <= fdtLimit
    BY <2>2, <2>3, <2>6, AdvanceFits
  <2>8. Len(fdtBlock') \in Nat /\ Here <= Len(fdtBlock')
    BY <1>0, <2>3, <2>7 DEF Here
  <2> QED
    BY <2>0, <2>7, <2>8, BeginNodeInv
<1>3. CASE ReadUnterminatedName
  <2> USE <1>3 DEF ReadUnterminatedName
  <2> DEFINE name == [i \in 1 .. Left - 1 |-> Text]
  <2>0. Token /\ Left \in Nat \ {0} /\ Left - 1 \in Nat
    BY TokenFits
  <2>1. name \in [1 .. Left - 1 -> Word] /\ Advance(<<BeginNode>> \o name)
    BY DEF Word
  <2>2. name \in Seq(Word) /\ Len(name) = Left - 1
    BY <2>0, <2>1, WordsAreASequence
  <2> HIDE DEF name
  <2>3. <<BeginNode>> \in Seq(Word) /\ Len(<<BeginNode>>) = 1
    BY DEF Word
  <2>4. (<<BeginNode>> \o name) \in Seq(Word) /\ Len(<<BeginNode>> \o name) = Left
    BY <2>0, <2>2, <2>3, ConcatProperties
  <2>5. fdtBlock' \in Seq(Word) /\ Len(fdtBlock') = Len(fdtBlock) + Left /\ Len(fdtBlock') <= fdtLimit
    <3>1. Len(<<BeginNode>> \o name) <= Left
      BY <2>0, <2>4
    <3> QED
      BY <2>1, <2>4, <3>1, AdvanceFits
  <2>6. Len(fdtBlock') \in Nat /\ Len(fdtBlock) <= Len(fdtBlock')
    BY <1>0, <2>0, <2>5
  <2> QED
    BY <2>0, <2>5, <2>6, RefuseInv DEF Token
<1>4. CASE ReadEndNode
  <2> USE <1>4 DEF ReadEndNode
  <2>1. Token /\ Advance(<<EndNode>>) /\ EndNode \in Word
    BY DEF Word
  <2>2. /\ fdtBlock' \in Seq(Word) /\ Len(fdtBlock') \in Nat
        /\ Len(fdtBlock) <= Len(fdtBlock') /\ Len(fdtBlock') <= fdtLimit
    BY <2>1, OneWordFits
  <2>3. CASE fdtStack = <<>>
    BY <2>1, <2>2, <2>3, RefuseInv DEF Token
  <2>4. CASE fdtStack # <<>>
    BY <2>1, <2>2, <2>4, EndNodeInv
  <2> QED
    BY <2>3, <2>4
<1>5. CASE ReadProperty
  <2> USE <1>5 DEF ReadProperty
  <2>1. Token /\ Left \in Nat
    BY TokenFits
  <2>2. PICK length, offset \in Word :
           /\ Words(length) <= Left - 3
           /\ \E data \in [1 .. Words(length) -> Word] : Advance(<<Property, length, offset>> \o data)
    OBVIOUS
  <2>3. PICK data \in [1 .. Words(length) -> Word] : Advance(<<Property, length, offset>> \o data)
    BY <2>2
  <2>4. Words(length) \in Nat
    BY DEF Words, Word, BeginNode, EndNode, Property, Nop, End, Text
  <2>5. data \in Seq(Word) /\ Len(data) = Words(length)
    BY <2>3, <2>4, WordsAreASequence
  <2>6. <<Property, length, offset>> \in Seq(Word) /\ Len(<<Property, length, offset>>) = 3
    BY DEF Word
  <2>7. /\ (<<Property, length, offset>> \o data) \in Seq(Word)
        /\ Len(<<Property, length, offset>> \o data) = 3 + Words(length)
    BY <2>5, <2>6, ConcatProperties
  <2>8. 3 + Words(length) <= Left
    BY <2>1, <2>2, <2>4
  <2>9. fdtBlock' \in Seq(Word) /\ Len(fdtBlock') = Len(fdtBlock) + (3 + Words(length))
        /\ Len(fdtBlock') <= fdtLimit
    BY <2>3, <2>7, <2>8, AdvanceFits
  <2>10. Len(fdtBlock') \in Nat /\ Here <= Len(fdtBlock')
    BY <1>0, <2>4, <2>9 DEF Here
  <2> QED
    BY <2>1, <2>9, <2>10, PropertyInv
<1>6. CASE ReadBadProperty
  <2> USE <1>6 DEF ReadBadProperty
  <2>1. Token /\ Refuse /\ Left \in Nat \ {0} /\ fdtState = "parsing"
    BY TokenFits DEF Token
  <2>2. CASE fdtStack = <<>> \/ Left < 3
    <3>1. Advance(<<Property>>) /\ Property \in Word
      BY <2>2 DEF Word
    <3> QED
      BY <2>1, <3>1, OneWordFits, RefuseInv
  <2>3. CASE ~(fdtStack = <<>> \/ Left < 3)
    <3>1. PICK length, offset \in Word : Advance(<<Property, length, offset>>)
      BY <2>3
    <3>2. <<Property, length, offset>> \in Seq(Word) /\ Len(<<Property, length, offset>>) = 3
      BY DEF Word
    <3>3. fdtBlock' \in Seq(Word) /\ Len(fdtBlock') = Len(fdtBlock) + 3 /\ Len(fdtBlock') <= fdtLimit
      <4>1. Len(<<Property, length, offset>>) <= Left
        BY <2>1, <2>3, <3>2
      <4> QED
        BY <3>1, <3>2, <4>1, AdvanceFits
    <3> QED
      BY <1>0, <2>1, <3>3, RefuseInv
  <2> QED
    BY <2>2, <2>3
<1>7. CASE ReadNop
  <2>1. Token /\ Advance(<<Nop>>) /\ Nop \in Word /\ fdtState = "parsing"
    BY <1>7 DEF ReadNop, Word, Token
  <2> QED
    BY <1>7, <2>1, OneWordFits, ContinueInv DEF ReadNop
<1>8. CASE ReadEnd
  <2> USE <1>8 DEF ReadEnd
  <2>1. Token /\ Advance(<<End>>) /\ End \in Word
    BY DEF Word
  <2>2. /\ fdtBlock' \in Seq(Word) /\ Len(fdtBlock') \in Nat
        /\ Len(fdtBlock) <= Len(fdtBlock') /\ Len(fdtBlock') <= fdtLimit
    BY <2>1, OneWordFits
  <2>3. FdtTypeOK'
    BY <2>2 DEF FdtInv, FdtTypeOK
  <2>4. OneTree'
    BY <1>0, <2>2 DEF FdtInv, OneTree
  <2> QED
    BY <2>3, <2>4 DEF FdtInv, WithinSpan
<1>9. CASE ReadUnknown
  <2> USE <1>9 DEF ReadUnknown
  <2>1. PICK token \in {0, Text} : Advance(<<token>>)
    OBVIOUS
  <2>2. Token /\ Refuse /\ token \in Word /\ fdtState = "parsing"
    BY DEF Word, Token
  <2> QED
    BY <2>1, <2>2, OneWordFits, RefuseInv
<1>10. CASE Exhausted
  <2>1. /\ fdtState = "parsing" /\ Refuse /\ fdtBlock' = fdtBlock
        /\ fdtBlock \in Seq(Word) /\ Len(fdtBlock) <= fdtLimit
    BY <1>10 DEF Exhausted, FdtInv, FdtTypeOK
  <2> QED
    BY <1>0, <2>1, RefuseInv
<1> QED
  BY <1>1, <1>2, <1>3, <1>4, <1>5, <1>6, <1>7, <1>8, <1>9, <1>10 DEF FdtNext

LEMMA FdtStutter == FdtInv /\ UNCHANGED fdtVars => FdtInv'
BY DEF FdtInv, FdtTypeOK, WithinSpan, OneTree, fdtVars

LEMMA FdtInvariance == FdtSpec => []FdtInv
<1>1. FdtInv /\ [FdtNext]_fdtVars => FdtInv'
  BY FdtNextInv, FdtStutter
<1> QED
  BY <1>1, FdtInitInv, PTL DEF FdtSpec
-------------------------------------------------------------------------------
\* Position, limit, open nodes and tree keep to their types, for blocks of any
\* length: no token of _parse_structure takes the position past the block.
THEOREM FdtTypeCorrect == FdtSpec => []FdtTypeOK
<1>1. FdtInv => FdtTypeOK
  BY DEF FdtInv
<1> QED
  BY <1>1, FdtInvariance, PTL

\* Nothing is read beyond the artifact: _check_span and the token machine
\* together, whatever the header and the words say.
THEOREM ReadsCorrect == FdtSpec => []ReadsWithinArtifact
<1>1. FdtInv => ReadsWithinArtifact
  <2> SUFFICES ASSUME FdtInv PROVE ReadsWithinArtifact
    OBVIOUS
  <2>1. Len(fdtBlock) \in Nat
    BY LenProperties DEF FdtInv, FdtTypeOK
  <2> QED
    BY <2>1 DEF FdtInv, FdtTypeOK, WithinSpan, ReadsWithinArtifact
<1> QED
  BY <1>1, FdtInvariance, PTL

\* What _parse_structure has built, of a good block or a bad one, is one tree with
\* every property in a node of it: children() and walk() end.
THEOREM BuildsOneTree == FdtSpec => []OneTree
<1>1. FdtInv => OneTree
  BY DEF FdtInv
<1> QED
  BY <1>1, FdtInvariance, PTL
-------------------------------------------------------------------------------
(***************************************************************************)
(* The tokens of a block, as the format defines them, and what is known of *)
(* them when a block grows by one token and its operands.                  *)
(***************************************************************************)
LEMMA LeastOf ==
  ASSUME NEW S \in SUBSET Nat, S # {}
  PROVE  \E x \in S : \A y \in S : x <= y
<1> DEFINE R == OpToRel(<, Nat)
<1>1. IsWellFoundedOn(R, Nat)
  BY NatLessThanWellFounded
<1>2. \A x, y \in Nat : y < x => <<y, x>> \in R
  BY DEF OpToRel
<1> HIDE DEF R
<1>3. \E x \in S : \A y \in S : ~(<<y, x>> \in R)
  BY <1>1, WFMin
<1>4. PICK x \in S : \A y \in S : ~(<<y, x>> \in R)
  BY <1>3
<1>5. ASSUME NEW y \in S PROVE x <= y
  <2>1. x \in Nat /\ y \in Nat /\ ~(<<y, x>> \in R)
    BY <1>4
  <2>2. ~(y < x)
    BY <1>2, <2>1
  <2> QED
    BY <2>1, <2>2
<1> QED
  BY <1>5

\* The recursive function that says what a token is exists: take the least set
\* that holds the first word and the place behind each of its own.
LEMMA IsTokenUnfolds ==
  ASSUME NEW b, Len(b) \in Nat
  PROVE  IsToken(b) = [i \in 1 .. Len(b) |->
             i = 1 \/ \E j \in 1 .. i - 1 : IsToken(b)[j] /\ After(b, j) = i]
<1> DEFINE Eq(t) == t = [i \in 1 .. Len(b) |->
                           i = 1 \/ \E j \in 1 .. i - 1 : t[j] /\ After(b, j) = i]
<1>1. \E t : Eq(t)
  <2> DEFINE Behind(S, i) == i = 1 \/ \E j \in 1 .. i - 1 : j \in S /\ After(b, j) = i
             Closed(S) == \A i \in 1 .. Len(b) : Behind(S, i) => i \in S
             least == {i \in 1 .. Len(b) : \A S \in SUBSET (1 .. Len(b)) : Closed(S) => i \in S}
  <2>1. ASSUME NEW i \in 1 .. Len(b), Behind(least, i)
        PROVE  i \in least
    <3> SUFFICES ASSUME NEW S \in SUBSET (1 .. Len(b)), Closed(S)
                 PROVE  i \in S
      OBVIOUS
    <3>1. least \subseteq S
      OBVIOUS
    <3>2. Behind(S, i)
      BY <2>1, <3>1
    <3> QED
      BY <3>2
  <2>2. ASSUME NEW i \in least, ~Behind(least, i)
        PROVE  FALSE
    <3> DEFINE rest == least \ {i}
    <3>1. rest \in SUBSET (1 .. Len(b)) /\ i \in 1 .. Len(b)
      OBVIOUS
    <3>2. Closed(rest)
      <4> SUFFICES ASSUME NEW k \in 1 .. Len(b), Behind(rest, k)
                   PROVE  k \in rest
        OBVIOUS
      <4>1. Behind(least, k)
        OBVIOUS
      <4>2. k \in least
        BY <4>1, <2>1
      <4>3. k # i
        BY <4>1, <2>2
      <4> QED
        BY <4>2, <4>3
    <3> QED
      BY <3>1, <3>2
  <2> HIDE DEF least
  <2> DEFINE of == [i \in 1 .. Len(b) |-> i \in least]
  <2>3. ASSUME NEW i \in 1 .. Len(b)
        PROVE  of[i] = (i = 1 \/ \E j \in 1 .. i - 1 : of[j] /\ After(b, j) = i)
    <3>1. i \in least <=> Behind(least, i)
      BY <2>1, <2>2
    <3>2. ASSUME NEW j \in 1 .. i - 1
          PROVE  of[j] <=> j \in least
      <4>1. j \in 1 .. Len(b)
        OBVIOUS
      <4> QED
        BY <4>1, Zenon
    <3>3. Behind(least, i) <=> (i = 1 \/ \E j \in 1 .. i - 1 : of[j] /\ After(b, j) = i)
      BY <3>2
    <3>4. of[i] = (i \in least)
      OBVIOUS
    <3> HIDE DEF of
    <3> QED
      BY <3>1, <3>3, <3>4
  <2>4. Eq(of)
    BY <2>3
  <2> QED
    BY <2>4
<1>2. IsToken(b) = CHOOSE t : Eq(t)
  BY DEF IsToken
<1> HIDE DEF Eq
<1>3. Eq(IsToken(b))
  BY <1>1, <1>2
<1> QED
  BY <1>3 DEF Eq

LEMMA TokensFacts ==
  ASSUME NEW b, Len(b) \in Nat
  PROVE  /\ Tokens(b) \subseteq 1 .. Len(b)
         /\ \A i \in 1 .. Len(b) :
               i \in Tokens(b) <=> i = 1 \/ \E j \in 1 .. i - 1 : j \in Tokens(b) /\ After(b, j) = i
<1>1. Tokens(b) = {i \in 1 .. Len(b) : IsToken(b)[i]}
  BY DEF Tokens
<1>2. ASSUME NEW i \in 1 .. Len(b)
      PROVE  IsToken(b)[i] = (i = 1 \/ \E j \in 1 .. i - 1 : IsToken(b)[j] /\ After(b, j) = i)
  BY IsTokenUnfolds
<1>3. \A i \in 1 .. Len(b) : \A j \in 1 .. i - 1 : j \in 1 .. Len(b)
  OBVIOUS
<1> QED
  BY <1>1, <1>2, <1>3

\* Nothing else is a set of tokens.
LEMMA TokensAre ==
  ASSUME NEW b, Len(b) \in Nat, NEW S \in SUBSET (1 .. Len(b)),
         \A i \in 1 .. Len(b) : i \in S <=> i = 1 \/ \E j \in 1 .. i - 1 : j \in S /\ After(b, j) = i
  PROVE  Tokens(b) = S
<1> DEFINE differ == {i \in 1 .. Len(b) : ~(i \in S <=> i \in Tokens(b))}
<1>1. ASSUME differ # {} PROVE FALSE
  <2>1. differ \in SUBSET Nat
    OBVIOUS
  <2>2. PICK x \in differ : \A y \in differ : x <= y
    BY <1>1, <2>1, LeastOf
  <2>3. x \in 1 .. Len(b)
    OBVIOUS
  <2>4. ASSUME NEW j \in 1 .. x - 1 PROVE j \in S <=> j \in Tokens(b)
    <3>1. j \in 1 .. Len(b) /\ ~(x <= j)
      BY <2>3
    <3> QED
      BY <2>2, <3>1
  <2>5. x \in S <=> x \in Tokens(b)
    BY <2>3, <2>4, TokensFacts
  <2> QED
    BY <2>5
<1> QED
  BY <1>1, TokensFacts

\* Of a token, all of its operands are in the block.
WholeToken(b, j) ==
    /\ After(b, j) \in j + 1 .. Len(b) + 1
    /\ b[j] = Property => j + 2 <= Len(b)
    /\ b[j] = BeginNode =>
          \E k \in j + 1 .. Len(b) : b[k] # Text /\ \A m \in j + 1 .. k - 1 : b[m] = Text

\* A block that ends with the operands of a token.
Passed(b) ==
    /\ \A j \in Tokens(b) : WholeToken(b, j)
    /\ Len(b) = 0 \/ \E j \in Tokens(b) : After(b, j) = Len(b) + 1

Extends(c, b) == Len(c) > Len(b) /\ \A i \in 1 .. Len(b) : c[i] = b[i]

\* Where a name ends is where its first word with a NUL is.
LEMMA NameEnds ==
  ASSUME NEW b, Len(b) \in Nat, NEW j \in 1 .. Len(b), b[j] = BeginNode,
         NEW k \in j + 1 .. Len(b), b[k] # Text, \A m \in j + 1 .. k - 1 : b[m] = Text
  PROVE  After(b, j) = k + 1
<1> DEFINE Ends(x) == x \in j + 1 .. Len(b) /\ b[x] # Text /\ \A m \in j + 1 .. x - 1 : b[m] = Text
<1>1. Ends(k)
  OBVIOUS
<1>2. ASSUME NEW x, Ends(x) PROVE x = k
  <2>1. x < k => x \in j + 1 .. k - 1
    BY <1>2
  <2>2. k < x => k \in j + 1 .. x - 1
    BY <1>2
  <2> QED
    BY <1>2, <2>1, <2>2
<1>3. After(b, j) = 1 + CHOOSE x \in j + 1 .. Len(b) : b[x] # Text /\ \A m \in j + 1 .. x - 1 : b[m] = Text
  BY DEF After
<1> DEFINE end == CHOOSE x \in j + 1 .. Len(b) : b[x] # Text /\ \A m \in j + 1 .. x - 1 : b[m] = Text
<1>4. Ends(end)
  BY <1>1
<1> HIDE DEF Ends
<1>5. end = k
  BY <1>2, <1>4
<1> HIDE DEF end
<1>6. After(b, j) = 1 + end
  BY <1>3 DEF end
<1> QED
  BY <1>5, <1>6

LEMMA AfterGrows ==
  ASSUME NEW b, NEW c, Len(b) \in Nat, Len(c) \in Nat, Extends(c, b),
         NEW j \in 1 .. Len(b), WholeToken(b, j)
  PROVE  After(c, j) = After(b, j) /\ WholeToken(c, j)
<1>1. After(c, j) = After(b, j)
  <2>1. CASE b[j] = BeginNode
    <3>1. PICK k \in j + 1 .. Len(b) : b[k] # Text /\ \A m \in j + 1 .. k - 1 : b[m] = Text
      BY <2>1 DEF WholeToken
    <3>2. /\ k \in j + 1 .. Len(c) /\ c[k] # Text /\ c[j] = BeginNode /\ j \in 1 .. Len(c)
          /\ \A m \in j + 1 .. k - 1 : c[m] = Text
      BY <2>1, <3>1 DEF Extends
    <3>3. After(b, j) = k + 1
      BY <2>1, <3>1, NameEnds
    <3>4. After(c, j) = k + 1
      BY <3>2, NameEnds
    <3> QED
      BY <3>3, <3>4
  <2>2. CASE b[j] = Property
    <3>1. j + 1 \in 1 .. Len(b) /\ c[j] = b[j] /\ c[j + 1] = b[j + 1]
      BY <2>2 DEF WholeToken, Extends
    <3> QED
      BY <2>2, <3>1 DEF After, BeginNode, Property
  <2>3. CASE b[j] # BeginNode /\ b[j] # Property
    BY <2>3 DEF After, Extends
  <2> QED
    BY <2>1, <2>2, <2>3
<1>2. After(c, j) \in j + 1 .. Len(c) + 1 /\ (c[j] = Property => j + 2 <= Len(c))
  BY <1>1 DEF WholeToken, Extends
<1>3. ASSUME c[j] = BeginNode
      PROVE  \E k \in j + 1 .. Len(c) : c[k] # Text /\ \A m \in j + 1 .. k - 1 : c[m] = Text
  <2>1. PICK k \in j + 1 .. Len(b) : b[k] # Text /\ \A m \in j + 1 .. k - 1 : b[m] = Text
    BY <1>3 DEF WholeToken, Extends
  <2>2. /\ k \in j + 1 .. Len(c) /\ c[k] # Text
        /\ \A m \in j + 1 .. k - 1 : c[m] = Text
    BY <2>1 DEF Extends
  <2> QED
    BY <2>2
<1> QED
  BY <1>1, <1>2, <1>3 DEF WholeToken

\* A block that grows by one token has one more token: where it stood.
LEMMA TokensGrow ==
  ASSUME NEW b, NEW c, Len(b) \in Nat, Len(c) \in Nat, Extends(c, b), Passed(b),
         After(c, Len(b) + 1) \notin Len(b) + 2 .. Len(c)
  PROVE  Tokens(c) = Tokens(b) \cup {Len(b) + 1}
<1> DEFINE h == Len(b) + 1
           S == Tokens(b) \cup {h}
<1>1. Tokens(b) \subseteq 1 .. Len(b) /\ S \in SUBSET (1 .. Len(c))
  BY TokensFacts DEF Extends
<1>2. \A j \in Tokens(b) : /\ j \in 1 .. Len(b) /\ After(c, j) = After(b, j)
                           /\ After(b, j) \in j + 1 .. h
  BY <1>1, AfterGrows DEF Passed, WholeToken
<1>3. ASSUME NEW i \in 1 .. Len(c)
      PROVE  i \in S <=> i = 1 \/ \E j \in 1 .. i - 1 : j \in S /\ After(c, j) = i
  <2>1. CASE i <= Len(b)
    <3>1. i \in S <=> i \in Tokens(b)
      BY <2>1
    <3>2. \A j \in 1 .. i - 1 : j \in S <=> j \in Tokens(b)
      BY <2>1
    <3>3. i \in Tokens(b) <=> i = 1 \/ \E j \in 1 .. i - 1 : j \in Tokens(b) /\ After(b, j) = i
      BY <2>1, TokensFacts
    <3> HIDE DEF S
    <3> QED
      BY <1>2, <3>1, <3>2, <3>3
  <2>2. CASE i = h
    <3>1. Len(b) = 0 => i = 1
      BY <2>2
    <3>2. ASSUME NEW j \in Tokens(b), After(b, j) = h
          PROVE  j \in 1 .. i - 1 /\ j \in S /\ After(c, j) = i
      BY <1>2, <2>2, <3>2
    <3> QED
      BY <2>2, <3>1, <3>2 DEF Passed
  <2>3. CASE i > h
    <3>1. i \notin S /\ i # 1
      BY <1>1, <2>3
    <3>2. \A j \in Tokens(b) : After(c, j) # i
      BY <1>2, <2>3
    <3>3. After(c, h) # i
      BY <2>3
    <3> QED
      BY <3>1, <3>2, <3>3
  <2> QED
    BY <2>1, <2>2, <2>3
<1> QED
  BY <1>1, <1>3, TokensAre

\* The tokens of a block and the place behind it.
Grown(b, T) == T \cup {Len(b) + 1}

\* What has been counted is not changed by another token; that one is counted behind it.
LEMMA CountsGrow ==
  ASSUME NEW b, NEW c, Len(b) \in Nat, Len(c) \in Nat, Extends(c, b),
         NEW T \in SUBSET (1 .. Len(b)), NEW kind
  PROVE  /\ \A i \in Nat : i <= Len(b) => Count(c, Grown(b, T), kind, i) = Count(b, T, kind, i)
         /\ \A i \in Nat : i > Len(b) => Count(c, Grown(b, T), kind, i) =
               Count(b, T, kind, Len(b)) + (IF c[Len(b) + 1] = kind THEN 1 ELSE 0)
<1> DEFINE h == Len(b) + 1
           U == Grown(b, T)
           Of(i) == {j \in T : j <= i /\ b[j] = kind}
           Now(i) == {j \in U : j <= i /\ c[j] = kind}
<1>1. \A j \in T : j \in 1 .. Len(b) /\ c[j] = b[j]
  BY DEF Extends
<1>2. ASSUME NEW i \in Nat, i <= Len(b) PROVE Now(i) = Of(i)
  <2>1. \A j \in T : c[j] = b[j]
    BY <1>1
  <2>2. ~(h <= i)
    BY <1>2
  <2>3. \A j : j \in Now(i) <=> (j \in T \/ j = h) /\ j <= i /\ c[j] = kind
    BY DEF Grown
  <2>4. \A j : j \in Of(i) <=> j \in T /\ j <= i /\ b[j] = kind
    OBVIOUS
  <2> HIDE DEF Now, Of, h
  <2> QED
    BY <2>1, <2>2, <2>3, <2>4
<1>3. ASSUME NEW i \in Nat, i > Len(b)
      PROVE  Now(i) = Of(Len(b)) \cup (IF c[h] = kind THEN {h} ELSE {})
  <2>1. \A j \in T : j <= Len(b) /\ j <= i /\ c[j] = b[j]
    BY <1>1, <1>3
  <2>2. \A j : j \in Now(i) <=> (j \in T \/ j = h) /\ j <= i /\ c[j] = kind
    BY DEF Grown
  <2>3. \A j : j \in Of(Len(b)) <=> j \in T /\ j <= Len(b) /\ b[j] = kind
    OBVIOUS
  <2>4. h <= i
    BY <1>3
  <2> HIDE DEF Now, Of, h
  <2>5. CASE c[h] = kind
    BY <2>1, <2>2, <2>3, <2>4, <2>5
  <2>6. CASE c[h] # kind
    BY <2>1, <2>2, <2>3, <2>4, <2>6
  <2> QED
    BY <2>5, <2>6
<1>4. IsFiniteSet(Of(Len(b))) /\ h \notin Of(Len(b))
  <2>1. IsFiniteSet(1 .. Len(b))
    BY FS_Interval
  <2>2. Of(Len(b)) \in SUBSET (1 .. Len(b))
    OBVIOUS
  <2>3. h \notin Of(Len(b))
    BY <1>1
  <2> QED
    BY <2>1, <2>2, <2>3, FS_Subset
<1>5. \A i : Count(b, T, kind, i) = Cardinality(Of(i)) /\ Count(c, U, kind, i) = Cardinality(Now(i))
  BY DEF Count
<1> HIDE DEF Of, Now, U
<1>6. ASSUME NEW i \in Nat, i > Len(b)
      PROVE  Cardinality(Now(i)) = Cardinality(Of(Len(b))) + (IF c[h] = kind THEN 1 ELSE 0)
  <2>1. Cardinality(Of(Len(b))) \in Nat
    BY <1>4, FS_CardinalityType
  <2>2. CASE c[h] = kind
    <3>1. Now(i) = Of(Len(b)) \cup {h}
      BY <1>3, <1>6, <2>2
    <3>2. Cardinality(Of(Len(b)) \cup {h}) = Cardinality(Of(Len(b))) + 1
      BY <1>4, FS_AddElement
    <3> QED
      BY <2>2, <3>1, <3>2
  <2>3. CASE c[h] # kind
    <3>1. Now(i) = Of(Len(b))
      BY <1>3, <1>6, <2>3
    <3> QED
      BY <2>1, <2>3, <3>1
  <2> QED
    BY <2>2, <2>3
<1>7. ASSUME NEW i \in Nat, i <= Len(b) PROVE Count(c, U, kind, i) = Count(b, T, kind, i)
  BY <1>2, <1>5, <1>7
<1>8. ASSUME NEW i \in Nat, i > Len(b)
      PROVE  Count(c, U, kind, i) = Count(b, T, kind, Len(b)) + (IF c[h] = kind THEN 1 ELSE 0)
  BY <1>5, <1>6, <1>8
<1> QED
  BY <1>7, <1>8 DEF U

LEMMA CountFacts ==
  ASSUME NEW b, Len(b) \in Nat, NEW T \in SUBSET (1 .. Len(b)), NEW kind, NEW i
  PROVE  /\ Count(b, T, kind, i) \in Nat
         /\ (\A j \in T : b[j] # kind) => Count(b, T, kind, i) = 0
<1> DEFINE of == {j \in T : j <= i /\ b[j] = kind}
<1>1. IsFiniteSet(1 .. Len(b))
  BY FS_Interval
<1>2. of \in SUBSET (1 .. Len(b))
  OBVIOUS
<1>3. (\A j \in T : b[j] # kind) => of = {}
  OBVIOUS
<1>4. Count(b, T, kind, i) = Cardinality(of)
  BY DEF Count
<1> HIDE DEF of
<1>5. IsFiniteSet(of)
  BY <1>1, <1>2, FS_Subset
<1> QED
  BY <1>3, <1>4, <1>5, FS_CardinalityType, FS_EmptySet

LEMMA CountPositive ==
  ASSUME NEW b, Len(b) \in Nat, NEW T \in SUBSET (1 .. Len(b)), NEW kind,
         NEW j \in T, b[j] = kind
  PROVE  Count(b, T, kind, Len(b)) >= 1
<1> DEFINE of == {k \in T : k <= Len(b) /\ b[k] = kind}
<1>1. IsFiniteSet(1 .. Len(b))
  BY FS_Interval
<1>2. of \in SUBSET (1 .. Len(b)) /\ j \in of
  <2>1. j \in 1 .. Len(b) /\ j <= Len(b)
    OBVIOUS
  <2> QED
    BY <2>1, Zenon
<1>3. Count(b, T, kind, Len(b)) = Cardinality(of)
  BY DEF Count
<1> HIDE DEF of
<1>4. IsFiniteSet(of) /\ of # {}
  BY <1>1, <1>2, FS_Subset
<1>5. Cardinality(of) \in Nat /\ Cardinality(of) # 0
  BY <1>4, FS_CardinalityType, FS_EmptySet
<1> QED
  BY <1>3, <1>5

\* So much for the depth, for what a token must be and for the node around it.
LEMMA DepthGrows ==
  ASSUME NEW b, NEW c, Len(b) \in Nat, Len(c) \in Nat, Extends(c, b),
         NEW T \in SUBSET (1 .. Len(b))
  PROVE  /\ \A i \in T : /\ Depth(c, Grown(b, T), i) = Depth(b, T, i)
                         /\ \A kind : Count(c, Grown(b, T), kind, i) = Count(b, T, kind, i)
         /\ Depth(b, T, Len(b)) \in Int
         /\ \A i \in Nat : i > Len(b) => Depth(c, Grown(b, T), i) = Depth(b, T, Len(b)) +
               (IF c[Len(b) + 1] = BeginNode THEN 1
                ELSE IF c[Len(b) + 1] = EndNode THEN -1 ELSE 0)
<1>1. \A i \in T : i \in Nat /\ i <= Len(b)
  OBVIOUS
<1>2. \A kind : /\ Count(b, T, kind, Len(b)) \in Nat
                /\ \A i \in Nat : i <= Len(b) => Count(c, Grown(b, T), kind, i) = Count(b, T, kind, i)
                /\ \A i \in Nat : i > Len(b) => Count(c, Grown(b, T), kind, i) =
                      Count(b, T, kind, Len(b)) + (IF c[Len(b) + 1] = kind THEN 1 ELSE 0)
  <2> TAKE kind
  <2>1. Count(b, T, kind, Len(b)) \in Nat
    BY CountFacts
  <2> QED
    BY <2>1, CountsGrow
<1>3. \A i \in T : /\ Depth(c, Grown(b, T), i) = Depth(b, T, i)
                   /\ \A kind : Count(c, Grown(b, T), kind, i) = Count(b, T, kind, i)
  BY <1>1, <1>2 DEF Depth
<1>4. Depth(b, T, Len(b)) \in Int
  BY <1>2 DEF Depth
<1>5. ASSUME NEW i \in Nat, i > Len(b)
      PROVE  Depth(c, Grown(b, T), i) = Depth(b, T, Len(b)) +
               (IF c[Len(b) + 1] = BeginNode THEN 1
                ELSE IF c[Len(b) + 1] = EndNode THEN -1 ELSE 0)
  <2> DEFINE begun == Count(b, T, BeginNode, Len(b))
             ended == Count(b, T, EndNode, Len(b))
  <2>1. begun \in Nat /\ ended \in Nat /\ i > Len(b)
    BY <1>2, <1>5
  <2>2. Count(c, Grown(b, T), BeginNode, i) = begun + (IF c[Len(b) + 1] = BeginNode THEN 1 ELSE 0)
    BY <1>2, <2>1
  <2>3. Count(c, Grown(b, T), EndNode, i) = ended + (IF c[Len(b) + 1] = EndNode THEN 1 ELSE 0)
    BY <1>2, <2>1
  <2> HIDE DEF begun, ended
  <2>4. Depth(c, Grown(b, T), i) = (begun + (IF c[Len(b) + 1] = BeginNode THEN 1 ELSE 0))
                         - (ended + (IF c[Len(b) + 1] = EndNode THEN 1 ELSE 0))
    BY <2>2, <2>3 DEF Depth
  <2>5. Depth(b, T, Len(b)) = begun - ended
    BY DEF Depth, begun, ended
  <2> QED
    BY <2>1, <2>4, <2>5 DEF BeginNode, EndNode
<1> QED
  BY <1>3, <1>4, <1>5

LEMMA WellFormedGrows ==
  ASSUME NEW b, NEW c, Len(b) \in Nat, Len(c) \in Nat, Extends(c, b),
         NEW T \in SUBSET (1 .. Len(b)),
         NEW i \in T, WholeToken(b, i), WellFormedToken(b, T, i)
  PROVE  WellFormedToken(c, Grown(b, T), i)
<1>0. c[i] = b[i]
  BY DEF Extends
<1>1. c[i] = b[i] /\ Depth(c, Grown(b, T), i) = Depth(b, T, i)
      /\ Count(c, Grown(b, T), BeginNode, i) = Count(b, T, BeginNode, i)
  BY <1>0, DepthGrows
<1>2. b[i] = Property => c[i + 2] = b[i + 2]
  BY DEF WholeToken, Extends
<1> QED
  BY <1>1, <1>2 DEF WellFormedToken

LEMMA AroundGrows ==
  ASSUME NEW b, NEW c, Len(b) \in Nat, Len(c) \in Nat, Extends(c, b),
         Tokens(c) = Grown(b, Tokens(b)), NEW i \in Tokens(b)
  PROVE  Around(c, i) = Around(b, i)
<1> DEFINE T == Tokens(b)
           U == Tokens(c)
           level == Depth(b, T, i) - (IF b[i] = BeginNode THEN 1 ELSE 0)
           now == Depth(c, U, i) - (IF c[i] = BeginNode THEN 1 ELSE 0)
           A == {j \in T : j < i /\ b[j] = BeginNode /\ Depth(b, T, j) = level}
           B == {j \in U : j < i /\ c[j] = BeginNode /\ Depth(c, U, j) = now}
<1>1. T \in SUBSET (1 .. Len(b))
  BY TokensFacts
<1>2. \A j \in T : j \in 1 .. Len(b) /\ c[j] = b[j] /\ Depth(c, U, j) = Depth(b, T, j)
  <2>1. \A j \in T : Depth(c, Grown(b, T), j) = Depth(b, T, j)
    BY <1>1, DepthGrows
  <2>2. U = Grown(b, T)
    OBVIOUS
  <2>3. \A j \in T : j \in 1 .. Len(b) /\ c[j] = b[j]
    BY <1>1 DEF Extends
  <2> HIDE DEF T, U
  <2> QED
    BY <2>1, <2>2, <2>3
<1>3. level = now
  BY <1>2
<1>4. Around(b, i) = IF A = {} THEN 0 ELSE CHOOSE j \in A : \A k \in A : k <= j
  BY DEF Around
<1>5. Around(c, i) = IF B = {} THEN 0 ELSE CHOOSE j \in B : \A k \in B : k <= j
  BY DEF Around
<1>6. i \in 1 .. Len(b) /\ ~(Len(b) + 1 < i)
  BY <1>1
<1>7. A = B
  <2> HIDE DEF level, now
  <2>1. \A j : j \in B => j \in T
    BY <1>6 DEF Grown
  <2> HIDE DEF T, U
  <2>2. \A j \in T : j \in U
    BY DEF T, U, Grown
  <2> QED
    BY <1>2, <1>3, <2>1, <2>2
<1> HIDE DEF A, B
<1> QED
  BY <1>4, <1>5, <1>7

\* While parsing, the tokens so far are good ones, and END is not among them.
GoodTokens(b, token) ==
    \A i \in token : /\ b[i] \in {BeginNode, EndNode, Property, Nop}
                     /\ WellFormedToken(b, token, i)
                     /\ b[i] = BeginNode => Depth(b, token, i) >= 1

\* Nodes, or properties, are the block's, each under the node it belongs to.
Placed(b, token, kind, under) ==
    /\ DOMAIN under = {i \in token : b[i] = kind}
    /\ \A i \in DOMAIN under : under[i] = Around(b, i)

TreeOf(b, token, parent, owner) ==
    Placed(b, token, BeginNode, parent) /\ Placed(b, token, Property, owner)

\* The last node to begin on a level.
LastAt(b, token, level, n) ==
    /\ n \in token /\ b[n] = BeginNode /\ Depth(b, token, n) = level
    /\ \A j \in token : b[j] = BeginNode /\ Depth(b, token, j) = level => j <= n

\* The open nodes are as many as the block is deep, each the last on its level.
OpenNodes(b, token, stack) ==
    /\ Depth(b, token, Len(b)) = Len(stack)
    /\ \A d \in 1 .. Len(stack) : LastAt(b, token, d, stack[d])

\* A block that grows by a whole token.
OneMore(b, c) ==
    /\ Extends(c, b)
    /\ WholeToken(c, Len(b) + 1) /\ After(c, Len(b) + 1) = Len(c) + 1

LEMMA PassedGrows ==
  ASSUME NEW b, NEW c, Len(b) \in Nat, Len(c) \in Nat, Passed(b), OneMore(b, c)
  PROVE  Tokens(c) = Grown(b, Tokens(b)) /\ Passed(c)
<1>1. Extends(c, b) /\ After(c, Len(b) + 1) = Len(c) + 1 /\ WholeToken(c, Len(b) + 1)
  BY DEF OneMore
<1>2. After(c, Len(b) + 1) \notin Len(b) + 2 .. Len(c)
  BY <1>1
<1>3. Tokens(c) = Tokens(b) \cup {Len(b) + 1}
  BY <1>1, <1>2, TokensGrow
<1>4. ASSUME NEW j \in Tokens(b) PROVE WholeToken(c, j)
  <2>1. j \in 1 .. Len(b) /\ WholeToken(b, j)
    BY TokensFacts DEF Passed
  <2> QED
    BY <1>1, <2>1, AfterGrows
<1>5. \A j \in Tokens(c) : WholeToken(c, j)
  BY <1>1, <1>3, <1>4
<1>6. \E j \in Tokens(c) : After(c, j) = Len(c) + 1
  BY <1>1, <1>3
<1> QED
  BY <1>3, <1>5, <1>6 DEF Passed, Grown

\* What a refusal inside a token leaves has no END for its last token.
LEMMA RefusedInside ==
  ASSUME NEW b, NEW c, Len(b) \in Nat, Len(c) \in Nat, Passed(b), Extends(c, b),
         After(c, Len(b) + 1) \notin Len(b) + 2 .. Len(c), Len(c) > Len(b) + 1
  PROVE  ~WellFormed(c)
<1>1. Tokens(c) = Tokens(b) \cup {Len(b) + 1}
  BY TokensGrow
<1>2. Tokens(b) \subseteq 1 .. Len(b)
  BY TokensFacts
<1>3. Len(c) \notin Tokens(c)
  BY <1>1, <1>2
<1> QED
  BY <1>3 DEF WellFormed

LEMMA GoodGrows ==
  ASSUME NEW b, NEW c, Len(b) \in Nat, Len(c) \in Nat, Passed(b), OneMore(b, c),
         GoodTokens(b, Tokens(b)),
         c[Len(b) + 1] \in {BeginNode, EndNode, Property, Nop},
         WellFormedToken(c, Tokens(c), Len(b) + 1),
         c[Len(b) + 1] = BeginNode => Depth(c, Tokens(c), Len(b) + 1) >= 1
  PROVE  GoodTokens(c, Tokens(c))
<1> DEFINE T == Tokens(b)
<1>1. Tokens(c) = Grown(b, T) /\ Extends(c, b) /\ T \in SUBSET (1 .. Len(b))
  BY PassedGrows, TokensFacts DEF OneMore
<1>2. \A i \in T : WholeToken(b, i)
  BY DEF Passed
<1>3. \A i \in T : b[i] \in {BeginNode, EndNode, Property, Nop} /\ WellFormedToken(b, T, i)
                   /\ (b[i] = BeginNode => Depth(b, T, i) >= 1)
  BY DEF GoodTokens
<1> HIDE DEF T
<1>4. ASSUME NEW i \in T
      PROVE  /\ c[i] \in {BeginNode, EndNode, Property, Nop} /\ WellFormedToken(c, Grown(b, T), i)
             /\ c[i] = BeginNode => Depth(c, Grown(b, T), i) >= 1
  <2>1. c[i] = b[i]
    BY <1>1 DEF Extends
  <2>2. WellFormedToken(c, Grown(b, T), i)
    BY <1>1, <1>2, <1>3, WellFormedGrows
  <2>3. Depth(c, Grown(b, T), i) = Depth(b, T, i)
    BY <1>1, DepthGrows
  <2> QED
    BY <1>3, <2>1, <2>2, <2>3
<1>5. \A i \in Grown(b, T) : i \in T \/ i = Len(b) + 1
  BY DEF Grown
<1> QED
  BY <1>1, <1>4, <1>5 DEF GoodTokens

\* A new token is around the last open node.
LEMMA AroundNew ==
  ASSUME NEW b, NEW c, Len(b) \in Nat, Len(c) \in Nat, Extends(c, b),
         Tokens(c) = Grown(b, Tokens(b)), GoodTokens(b, Tokens(b)),
         NEW stack, Len(stack) \in Nat, OpenNodes(b, Tokens(b), stack),
         c[Len(b) + 1] \in {BeginNode, Property}
  PROVE  Around(c, Len(b) + 1) = IF Len(stack) = 0 THEN 0 ELSE stack[Len(stack)]
<1> DEFINE T == Tokens(b)
           U == Tokens(c)
           h == Len(b) + 1
           level == Depth(c, U, h) - (IF c[h] = BeginNode THEN 1 ELSE 0)
           B == {j \in U : j < h /\ c[j] = BeginNode /\ Depth(c, U, j) = level}
<1>1. T \in SUBSET (1 .. Len(b)) /\ U = Grown(b, T)
  BY TokensFacts
<1>2. /\ \A j \in T : Depth(c, U, j) = Depth(b, T, j)
      /\ Depth(c, U, h) = Len(stack) + (IF c[h] = BeginNode THEN 1
                                        ELSE IF c[h] = EndNode THEN -1 ELSE 0)
  <2>1. Depth(b, T, Len(b)) = Len(stack)
    BY DEF OpenNodes
  <2>2. h \in Nat /\ h > Len(b)
    OBVIOUS
  <2> HIDE DEF T, U, h
  <2> QED
    BY <1>1, <2>1, <2>2, DepthGrows DEF h
<1>3. \A j \in T : j \in 1 .. Len(b) /\ c[j] = b[j] /\ j < h
  BY <1>1 DEF Extends
<1>4. level = Len(stack)
  BY <1>2 DEF BeginNode, Property, EndNode
<1>5. \A j : j \in B <=> j \in T /\ b[j] = BeginNode /\ Depth(b, T, j) = Len(stack)
  <2>1. \A j \in U : j \in T \/ j = h
    BY <1>1 DEF Grown
  <2>2. \A j \in T : j \in U
    BY <1>1 DEF Grown
  <2> HIDE DEF T, U, level
  <2> QED
    BY <1>2, <1>3, <1>4, <2>1, <2>2
<1>6. Around(c, h) = IF B = {} THEN 0 ELSE CHOOSE j \in B : \A k \in B : k <= j
  BY DEF Around
<1> HIDE DEF B, h
<1>7. CASE Len(stack) = 0
  <2>1. \A j \in T : b[j] = BeginNode => Depth(b, T, j) # 0
    BY DEF GoodTokens
  <2>2. B = {}
    BY <1>5, <1>7, <2>1
  <2> QED
    BY <1>6, <1>7, <2>2 DEF h
<1>8. CASE Len(stack) # 0
  <2> DEFINE top == stack[Len(stack)]
  <2>1. LastAt(b, T, Len(stack), top)
    BY <1>8 DEF OpenNodes
  <2> HIDE DEF top
  <2>2. top \in B /\ \A k \in B : k <= top
    BY <1>5, <2>1 DEF LastAt
  <2>3. \A k \in B : k \in Nat
    BY <1>1, <1>5
  <2>4. \A j \in B : (\A k \in B : k <= j) => j = top
    BY <2>2, <2>3
  <2>5. (CHOOSE j \in B : \A k \in B : k <= j) = top
    BY <2>2, <2>4
  <2> QED
    BY <1>6, <1>8, <2>2, <2>5 DEF h, top
<1> QED
  BY <1>7, <1>8

LEMMA LastAtGrows ==
  ASSUME NEW b, NEW c, Len(b) \in Nat, Len(c) \in Nat, Extends(c, b),
         NEW T \in SUBSET (1 .. Len(b)), NEW d, NEW n, LastAt(b, T, d, n),
         c[Len(b) + 1] = BeginNode => Depth(c, Grown(b, T), Len(b) + 1) # d
  PROVE  LastAt(c, Grown(b, T), d, n)
<1>1. \A j \in T : j \in 1 .. Len(b) /\ c[j] = b[j] /\ j \in Grown(b, T)
  BY DEF Extends, Grown
<1>2. \A j \in T : Depth(c, Grown(b, T), j) = Depth(b, T, j)
  BY DepthGrows
<1>3. \A j \in Grown(b, T) : j \in T \/ j = Len(b) + 1
  BY DEF Grown
<1> QED
  BY <1>1, <1>2, <1>3 DEF LastAt

\* The depth at the end of the block, and so what is open there.
LEMMA DepthAtEnd ==
  ASSUME NEW b, NEW c, Len(b) \in Nat, Len(c) \in Nat, Extends(c, b),
         Tokens(c) = Grown(b, Tokens(b)),
         NEW stack, Len(stack) \in Nat, OpenNodes(b, Tokens(b), stack)
  PROVE  \A i \in Nat : i > Len(b) => Depth(c, Tokens(c), i) = Len(stack) +
               (IF c[Len(b) + 1] = BeginNode THEN 1
                ELSE IF c[Len(b) + 1] = EndNode THEN -1 ELSE 0)
<1> DEFINE T == Tokens(b)
<1>1. T \in SUBSET (1 .. Len(b)) /\ Depth(b, T, Len(b)) = Len(stack)
  BY TokensFacts DEF OpenNodes
<1>2. Tokens(c) = Grown(b, T)
  OBVIOUS
<1> HIDE DEF T
<1> QED
  BY <1>1, <1>2, DepthGrows

LEMMA OpenPush ==
  ASSUME NEW b, NEW c, Len(b) \in Nat, Len(c) \in Nat, Passed(b), OneMore(b, c),
         NEW stack, Len(stack) \in Nat, OpenNodes(b, Tokens(b), stack),
         c[Len(b) + 1] = BeginNode,
         NEW open, Len(open) = Len(stack) + 1, open[Len(stack) + 1] = Len(b) + 1,
         \A i \in 1 .. Len(stack) : open[i] = stack[i]
  PROVE  OpenNodes(c, Tokens(c), open)
<1> DEFINE T == Tokens(b)
           h == Len(b) + 1
<1>1. Tokens(c) = Grown(b, T) /\ T \in SUBSET (1 .. Len(b)) /\ Extends(c, b)
  BY PassedGrows, TokensFacts DEF OneMore
<1>2. \A i \in Nat : i > Len(b) => Depth(c, Tokens(c), i) = Len(stack) + 1
  BY <1>1, DepthAtEnd
<1>3. /\ Depth(c, Tokens(c), Len(c)) = Len(open)
      /\ Depth(c, Tokens(c), h) = Len(open)
  BY <1>1, <1>2 DEF Extends
<1>4. ASSUME NEW d \in 1 .. Len(stack) PROVE LastAt(c, Tokens(c), d, open[d])
  <2>1. LastAt(b, T, d, stack[d]) /\ open[d] = stack[d]
    BY DEF OpenNodes
  <2>2. Depth(c, Tokens(c), h) # d
    BY <1>3
  <2> HIDE DEF T
  <2>3. LastAt(c, Grown(b, T), d, stack[d])
    BY <1>1, <2>1, <2>2, LastAtGrows
  <2> QED
    BY <1>1, <2>1, <2>3
<1>5. LastAt(c, Tokens(c), Len(stack) + 1, h)
  <2>1. \A j \in Tokens(c) : j <= h
    BY <1>1 DEF Grown
  <2>2. h \in Tokens(c)
    BY <1>1 DEF Grown
  <2> QED
    BY <1>3, <2>1, <2>2 DEF LastAt
<1>6. \A d \in 1 .. Len(open) : d \in 1 .. Len(stack) \/ d = Len(stack) + 1
  OBVIOUS
<1> QED
  BY <1>3, <1>4, <1>5, <1>6 DEF OpenNodes

LEMMA OpenKeep ==
  ASSUME NEW b, NEW c, Len(b) \in Nat, Len(c) \in Nat, Passed(b), OneMore(b, c),
         NEW stack, Len(stack) \in Nat, OpenNodes(b, Tokens(b), stack),
         c[Len(b) + 1] \in {Property, Nop}
  PROVE  OpenNodes(c, Tokens(c), stack)
<1> DEFINE T == Tokens(b)
<1>1. Tokens(c) = Grown(b, T) /\ T \in SUBSET (1 .. Len(b)) /\ Extends(c, b)
  BY PassedGrows, TokensFacts DEF OneMore
<1>2. c[Len(b) + 1] # BeginNode /\ c[Len(b) + 1] # EndNode
  BY DEF BeginNode, EndNode, Property, Nop
<1>3. Depth(c, Tokens(c), Len(c)) = Len(stack)
  <2>1. \A i \in Nat : i > Len(b) => Depth(c, Tokens(c), i) = Len(stack) + 0
    BY <1>1, <1>2, DepthAtEnd
  <2> QED
    BY <1>1, <2>1 DEF Extends
<1>4. ASSUME NEW d \in 1 .. Len(stack) PROVE LastAt(c, Tokens(c), d, stack[d])
  <2>1. LastAt(b, T, d, stack[d])
    BY DEF OpenNodes
  <2> HIDE DEF T
  <2> QED
    BY <1>1, <1>2, <2>1, LastAtGrows
<1> QED
  BY <1>3, <1>4 DEF OpenNodes

LEMMA OpenPop ==
  ASSUME NEW b, NEW c, Len(b) \in Nat, Len(c) \in Nat, Passed(b), OneMore(b, c),
         NEW stack, Len(stack) \in Nat, OpenNodes(b, Tokens(b), stack),
         c[Len(b) + 1] = EndNode,
         NEW open, Len(open) = Len(stack) - 1,
         \A i \in 1 .. Len(stack) - 1 : open[i] = stack[i]
  PROVE  OpenNodes(c, Tokens(c), open)
<1> DEFINE T == Tokens(b)
<1>1. Tokens(c) = Grown(b, T) /\ T \in SUBSET (1 .. Len(b)) /\ Extends(c, b)
  BY PassedGrows, TokensFacts DEF OneMore
<1>2. c[Len(b) + 1] # BeginNode
  BY DEF BeginNode, EndNode
<1>3. Depth(c, Tokens(c), Len(c)) = Len(open)
  <2>1. \A i \in Nat : i > Len(b) => Depth(c, Tokens(c), i) = Len(stack) + (-1)
    BY <1>1, <1>2, DepthAtEnd
  <2> QED
    BY <1>1, <2>1 DEF Extends
<1>4. ASSUME NEW d \in 1 .. Len(open) PROVE LastAt(c, Tokens(c), d, open[d])
  <2>1. LastAt(b, T, d, stack[d]) /\ open[d] = stack[d]
    BY DEF OpenNodes
  <2> HIDE DEF T
  <2>2. LastAt(c, Grown(b, T), d, stack[d])
    BY <1>1, <1>2, <2>1, LastAtGrows
  <2> QED
    BY <1>1, <2>1, <2>2
<1> QED
  BY <1>3, <1>4 DEF OpenNodes

\* The new token's node or property is placed around it; others stay where they are.
LEMMA PlacedGrows ==
  ASSUME NEW b, NEW c, Len(b) \in Nat, Len(c) \in Nat, Extends(c, b),
         Tokens(c) = Grown(b, Tokens(b)),
         NEW kind, NEW under, Placed(b, Tokens(b), kind, under)
  PROVE  LET h == Len(b) + 1
         IN  /\ c[h] = kind => Placed(c, Tokens(c), kind, Extend(under, h, Around(c, h)))
             /\ c[h] # kind => Placed(c, Tokens(c), kind, under)
<1> DEFINE T == Tokens(b)
           h == Len(b) + 1
<1>1. \A i \in T : i \in 1 .. Len(b)
  BY TokensFacts
<1>2. \A i \in T : c[i] = b[i] /\ i # h /\ Around(c, i) = Around(b, i)
  <2>1. \A i \in T : Around(c, i) = Around(b, i)
    BY AroundGrows
  <2> QED
    BY <1>1, <2>1 DEF Extends
<1>3. Tokens(c) = T \cup {h}
  BY DEF Grown
<1>4. DOMAIN under = {i \in T : b[i] = kind} /\ \A i \in DOMAIN under : under[i] = Around(b, i)
  BY DEF Placed
<1> HIDE DEF T, h
<1>5. ASSUME c[h] = kind
      PROVE  Placed(c, Tokens(c), kind, Extend(under, h, Around(c, h)))
  <2> DEFINE now == Extend(under, h, Around(c, h))
  <2>1. DOMAIN now = DOMAIN under \cup {h}
    BY DEF Extend
  <2>2. now[h] = Around(c, h) /\ \A i \in DOMAIN under : i # h => now[i] = under[i]
    BY DEF Extend
  <2> HIDE DEF now
  <2>3. DOMAIN now = {i \in Tokens(c) : c[i] = kind}
    BY <1>2, <1>3, <1>4, <1>5, <2>1
  <2>4. \A i \in DOMAIN under : i # h /\ under[i] = Around(c, i)
    BY <1>2, <1>4
  <2>5. \A i \in DOMAIN now : now[i] = Around(c, i)
    BY <2>1, <2>2, <2>4
  <2> QED
    BY <2>3, <2>5 DEF Placed, now
<1>6. ASSUME c[h] # kind PROVE Placed(c, Tokens(c), kind, under)
  <2>1. DOMAIN under = {i \in Tokens(c) : c[i] = kind}
    BY <1>2, <1>3, <1>4, <1>6
  <2>2. \A i \in DOMAIN under : under[i] = Around(c, i)
    BY <1>2, <1>4
  <2> QED
    BY <2>1, <2>2 DEF Placed
<1> QED
  BY <1>5, <1>6 DEF h

\* The tree gains the node or the property of the new token, or nothing.
LEMMA TreeGrows ==
  ASSUME NEW b, NEW c, Len(b) \in Nat, Len(c) \in Nat, Extends(c, b),
         Tokens(c) = Grown(b, Tokens(b)),
         NEW parent, NEW owner, TreeOf(b, Tokens(b), parent, owner)
  PROVE  LET h == Len(b) + 1
         IN  /\ c[h] = BeginNode =>
                   TreeOf(c, Tokens(c), Extend(parent, h, Around(c, h)), owner)
             /\ c[h] = Property =>
                   TreeOf(c, Tokens(c), parent, Extend(owner, h, Around(c, h)))
             /\ c[h] \notin {BeginNode, Property} => TreeOf(c, Tokens(c), parent, owner)
<1> DEFINE h == Len(b) + 1
<1>1. BeginNode # Property
  BY DEF BeginNode, Property
<1>2. Placed(b, Tokens(b), BeginNode, parent) /\ Placed(b, Tokens(b), Property, owner)
  BY DEF TreeOf
<1>3. /\ c[h] = BeginNode => Placed(c, Tokens(c), BeginNode, Extend(parent, h, Around(c, h)))
      /\ c[h] # BeginNode => Placed(c, Tokens(c), BeginNode, parent)
  BY <1>2, PlacedGrows
<1>4. /\ c[h] = Property => Placed(c, Tokens(c), Property, Extend(owner, h, Around(c, h)))
      /\ c[h] # Property => Placed(c, Tokens(c), Property, owner)
  BY <1>2, PlacedGrows
<1> HIDE DEF h
<1>5. /\ c[h] = BeginNode => TreeOf(c, Tokens(c), Extend(parent, h, Around(c, h)), owner)
      /\ c[h] = Property => TreeOf(c, Tokens(c), parent, Extend(owner, h, Around(c, h)))
      /\ c[h] \notin {BeginNode, Property} => TreeOf(c, Tokens(c), parent, owner)
  BY <1>1, <1>3, <1>4 DEF TreeOf
<1> QED
  BY <1>5 DEF h

\* What the parser has made of the block so far.
Parsed(b, parent, owner, stack) ==
    /\ Passed(b)
    /\ GoodTokens(b, Tokens(b)) /\ TreeOf(b, Tokens(b), parent, owner)
    /\ OpenNodes(b, Tokens(b), stack)

BlockInv ==
    /\ fdtState \in {"header", "parsing"} => Parsed(fdtBlock, fdtParent, fdtOwner, fdtStack)
    /\ AcceptsExactlyTrees

LEMMA BlockInitInv == FdtInit => BlockInv
<1> SUFFICES ASSUME FdtInit PROVE BlockInv
  OBVIOUS
<1> DEFINE b == fdtBlock
<1>1. Len(b) = 0 /\ Len(fdtStack) = 0 /\ fdtState = "header"
      /\ DOMAIN fdtParent = {} /\ DOMAIN fdtOwner = {}
  BY EmptySeq DEF FdtInit
<1> HIDE DEF b
<1>2. Tokens(b) = {}
  BY <1>1, TokensFacts
<1>3. Depth(b, {}, Len(b)) = 0
  <2>1. \A kind : Count(b, {}, kind, Len(b)) = 0
    BY <1>1, CountFacts
  <2> QED
    BY <2>1 DEF Depth
<1>4. Parsed(b, fdtParent, fdtOwner, fdtStack)
  BY <1>1, <1>2, <1>3 DEF Parsed, Passed, GoodTokens, TreeOf, Placed, OpenNodes
<1> QED
  BY <1>1, <1>4 DEF BlockInv, AcceptsExactlyTrees, b

\* What Advance leaves: the block before it, and the words.
LEMMA AdvanceExtends ==
  ASSUME FdtInv, NEW words \in Seq(Word), Len(words) >= 1, Advance(words)
  PROVE  /\ Len(fdtBlock) \in Nat /\ Len(fdtBlock') \in Nat
         /\ Len(fdtBlock') = Len(fdtBlock) + Len(words)
         /\ Extends(fdtBlock', fdtBlock)
         /\ \A k \in 1 .. Len(words) : fdtBlock'[Len(fdtBlock) + k] = words[k]
<1>1. fdtBlock \in Seq(Word) /\ Len(fdtBlock) \in Nat /\ Len(words) \in Nat
  BY LenProperties DEF FdtInv, FdtTypeOK
<1>2. /\ Len(fdtBlock') = Len(fdtBlock) + Len(words)
      /\ \A i \in 1 .. Len(fdtBlock) + Len(words) :
            fdtBlock'[i] = IF i <= Len(fdtBlock) THEN fdtBlock[i] ELSE words[i - Len(fdtBlock)]
  BY <1>1, ConcatProperties DEF Advance
<1>3. \A i \in 1 .. Len(fdtBlock) : fdtBlock'[i] = fdtBlock[i]
  <2>1. \A i \in 1 .. Len(fdtBlock) : i \in 1 .. Len(fdtBlock) + Len(words) /\ i <= Len(fdtBlock)
    BY <1>1
  <2> QED
    BY <1>2, <2>1
<1>4. ASSUME NEW k \in 1 .. Len(words) PROVE fdtBlock'[Len(fdtBlock) + k] = words[k]
  <2>1. /\ Len(fdtBlock) + k \in 1 .. Len(fdtBlock) + Len(words)
        /\ ~(Len(fdtBlock) + k <= Len(fdtBlock)) /\ Len(fdtBlock) + k - Len(fdtBlock) = k
    BY <1>1
  <2> QED
    BY <1>2, <2>1
<1>5. Len(fdtBlock') \in Nat /\ Len(fdtBlock') > Len(fdtBlock)
  BY <1>1, <1>2
<1>6. Extends(fdtBlock', fdtBlock)
  BY <1>3, <1>5 DEF Extends
<1> QED
  BY <1>1, <1>2, <1>4, <1>5, <1>6

LEMMA OneWord ==
  ASSUME FdtInv, NEW word \in Word, Advance(<<word>>)
  PROVE  /\ Len(fdtBlock) \in Nat /\ Len(fdtBlock') \in Nat
         /\ Len(fdtBlock') = Len(fdtBlock) + 1 /\ Extends(fdtBlock', fdtBlock)
         /\ fdtBlock'[Len(fdtBlock) + 1] = word
<1>1. <<word>> \in Seq(Word) /\ Len(<<word>>) = 1 /\ <<word>>[1] = word
  OBVIOUS
<1>2. 1 \in 1 .. Len(<<word>>) /\ Len(<<word>>) >= 1
  BY <1>1
<1> HIDE <1>1
<1> QED
  BY <1>1, <1>2, AdvanceExtends

\* A token of one word.
LEMMA OneWordToken ==
  ASSUME NEW b, NEW c, Len(b) \in Nat, Len(c) = Len(b) + 1, Extends(c, b),
         c[Len(b) + 1] \in {EndNode, Nop, End}
  PROVE  OneMore(b, c)
<1>1. c[Len(b) + 1] # BeginNode /\ c[Len(b) + 1] # Property
  BY DEF BeginNode, EndNode, Property, Nop, End
<1>2. After(c, Len(b) + 1) = Len(b) + 2
  BY <1>1 DEF After
<1> QED
  BY <1>1, <1>2 DEF OneMore, WholeToken

\* A token that begins a node, with its name.
LEMMA NameToken ==
  ASSUME FdtInv, NEW n \in Nat \ {0}, NEW name \in Name(n), Advance(<<BeginNode>> \o name)
  PROVE  /\ Len(fdtBlock) \in Nat /\ Len(fdtBlock') = Len(fdtBlock) + (1 + n)
         /\ fdtBlock'[Len(fdtBlock) + 1] = BeginNode
         /\ OneMore(fdtBlock, fdtBlock')
<1> DEFINE b == fdtBlock
           c == fdtBlock'
           h == Len(b) + 1
           words == <<BeginNode>> \o name
<1>1. name \in [1 .. n -> Word] /\ \A i \in 1 .. n : (name[i] = Text) <=> (i < n)
  BY DEF Name
<1>2. name \in Seq(Word) /\ Len(name) = n
  BY <1>1, WordsAreASequence
<1>3. <<BeginNode>> \in Seq(Word) /\ Len(<<BeginNode>>) = 1 /\ <<BeginNode>>[1] = BeginNode
  BY DEF Word
<1>4. /\ words \in Seq(Word) /\ Len(words) = 1 + n
      /\ words[1] = BeginNode /\ \A i \in 1 .. n : words[1 + i] = name[i]
  <2>1. /\ words \in Seq(Word) /\ Len(words) = 1 + n
        /\ \A i \in 1 .. 1 + n : words[i] = IF i <= 1 THEN <<BeginNode>>[i] ELSE name[i - 1]
    BY <1>2, <1>3, ConcatProperties
  <2> HIDE DEF words
  <2>2. ASSUME NEW i \in 1 .. n PROVE words[1 + i] = name[i]
    <3>1. 1 + i \in 1 .. 1 + n /\ ~(1 + i <= 1) /\ 1 + i - 1 = i
      OBVIOUS
    <3> QED
      BY <2>1, <3>1
  <2>3. 1 \in 1 .. 1 + n
    OBVIOUS
  <2> QED
    BY <1>3, <2>1, <2>2, <2>3
<1>5. Advance(words)
  OBVIOUS
<1> HIDE DEF words
<1>6. /\ Len(b) \in Nat /\ Len(c) = Len(b) + (1 + n) /\ Extends(c, b)
      /\ \A k \in 1 .. 1 + n : c[Len(b) + k] = words[k]
  <2>1. Len(words) >= 1
    BY <1>4
  <2> QED
    BY <1>4, <1>5, <2>1, AdvanceExtends
<1> HIDE DEF b, c
<1>7. c[h] = BeginNode /\ \A i \in 1 .. n : c[h + i] = name[i]
  <2>1. 1 \in 1 .. 1 + n
    OBVIOUS
  <2>2. ASSUME NEW i \in 1 .. n PROVE c[h + i] = name[i]
    <3>1. 1 + i \in 1 .. 1 + n /\ Len(b) + (1 + i) = h + i
      BY <1>6
    <3> QED
      BY <1>4, <1>6, <3>1
  <2> QED
    BY <1>4, <1>6, <2>1, <2>2
<1>8. /\ h + n \in h + 1 .. Len(c) /\ h \in 1 .. Len(c) /\ Len(c) \in Nat
      /\ h + n = Len(c) /\ h \in Nat
  BY <1>6
<1>9. c[h + n] # Text /\ \A m \in h + 1 .. h + n - 1 : c[m] = Text
  <2>1. n \in 1 .. n /\ ~(n < n)
    OBVIOUS
  <2>2. ASSUME NEW m \in h + 1 .. h + n - 1 PROVE c[m] = Text
    <3>1. m - h \in 1 .. n /\ m - h < n /\ h + (m - h) = m
      BY <1>8
    <3> QED
      BY <1>1, <1>7, <3>1
  <2> QED
    BY <1>1, <1>7, <2>1, <2>2
<1> HIDE DEF h
<1>10. After(c, h) = Len(c) + 1
  <2> DEFINE e == h + n
  <2>1. /\ e \in h + 1 .. Len(c) /\ e = Len(c) /\ c[e] # Text /\ c[h] = BeginNode
        /\ \A m \in h + 1 .. e - 1 : c[m] = Text
    BY <1>7, <1>8, <1>9
  <2> HIDE DEF e
  <2>2. After(c, h) = e + 1
    BY <1>8, <2>1, NameEnds
  <2> QED
    BY <2>1, <2>2
<1>11. WholeToken(c, h)
  <2>1. After(c, h) \in h + 1 .. Len(c) + 1
    BY <1>8, <1>10
  <2>2. c[h] # Property
    BY <1>7 DEF BeginNode, Property
  <2> QED
    BY <1>8, <1>9, <2>1, <2>2 DEF WholeToken
<1> QED
  BY <1>6, <1>7, <1>10, <1>11 DEF OneMore, b, c, h

\* A token with a length, an offset and, if they are there, the words of its data.
LEMMA PropertyToken ==
  ASSUME FdtInv, NEW length \in Word, NEW offset \in Word,
         NEW words \in Seq(Word), Len(words) \in Nat, Len(words) >= 3, Advance(words),
         words[1] = Property, words[2] = length, words[3] = offset
  PROVE  /\ Len(fdtBlock) \in Nat /\ Len(fdtBlock') = Len(fdtBlock) + Len(words)
         /\ Extends(fdtBlock', fdtBlock)
         /\ fdtBlock'[Len(fdtBlock) + 1] = Property /\ fdtBlock'[Len(fdtBlock) + 3] = offset
         /\ After(fdtBlock', Len(fdtBlock) + 1) = Len(fdtBlock) + 4 + Words(length)
<1> DEFINE c == fdtBlock'
           h == Len(fdtBlock) + 1
<1>1. /\ Len(fdtBlock) \in Nat /\ Len(c) = Len(fdtBlock) + Len(words) /\ Extends(c, fdtBlock)
      /\ \A k \in 1 .. Len(words) : c[Len(fdtBlock) + k] = words[k]
  <2>1. Len(words) >= 1
    OBVIOUS
  <2> QED
    BY <2>1, AdvanceExtends
<1>2. 1 \in 1 .. Len(words) /\ 2 \in 1 .. Len(words) /\ 3 \in 1 .. Len(words)
  OBVIOUS
<1>3. /\ c[Len(fdtBlock) + 1] = Property /\ c[Len(fdtBlock) + 2] = length
      /\ c[Len(fdtBlock) + 3] = offset
  BY <1>1, <1>2
<1>4. After(c, h) = h + 3 + Words(length)
  <2>1. h + 1 = Len(fdtBlock) + 2 /\ c[h] = Property /\ Property # BeginNode
    BY <1>1, <1>3 DEF Property, BeginNode
  <2> QED
    BY <1>3, <2>1 DEF After
<1>5. Words(length) \in Nat
  BY DEF Words, Word, BeginNode, EndNode, Property, Nop, End, Text
<1>6. h + 3 + Words(length) = Len(fdtBlock) + 4 + Words(length)
  BY <1>1, <1>5
<1> QED
  BY <1>1, <1>3, <1>4, <1>6

\* A refused block that does not end with a whole END is no tree.
LEMMA RefusedInv ==
  ASSUME fdtState' = "refused",
         fdtBlock' # <<>> /\ fdtBlock'[Len(fdtBlock')] = End => ~WellFormed(fdtBlock')
  PROVE  BlockInv'
BY DEF BlockInv, AcceptsExactlyTrees

LEMMA ParsingInv ==
  ASSUME fdtState' = "parsing", Parsed(fdtBlock, fdtParent, fdtOwner, fdtStack)'
  PROVE  BlockInv'
BY DEF BlockInv, AcceptsExactlyTrees

LEMMA ParsedFacts ==
  ASSUME FdtInv, BlockInv, fdtState = "parsing"
  PROVE  /\ Len(fdtBlock) \in Nat /\ fdtStack \in Seq(Place) /\ Len(fdtStack) \in Nat
         /\ fdtStack = <<>> <=> Len(fdtStack) = 0
         /\ Passed(fdtBlock) /\ GoodTokens(fdtBlock, Tokens(fdtBlock))
         /\ TreeOf(fdtBlock, Tokens(fdtBlock), fdtParent, fdtOwner)
         /\ OpenNodes(fdtBlock, Tokens(fdtBlock), fdtStack)
         /\ Tokens(fdtBlock) \in SUBSET (1 .. Len(fdtBlock))
<1>1. /\ Len(fdtBlock) \in Nat /\ fdtStack \in Seq(Place) /\ Len(fdtStack) \in Nat
      /\ fdtStack = <<>> <=> Len(fdtStack) = 0
  BY LenProperties, EmptySeq DEF FdtInv, FdtTypeOK
<1>2. Parsed(fdtBlock, fdtParent, fdtOwner, fdtStack)
  BY DEF BlockInv
<1> QED
  BY <1>1, <1>2, TokensFacts DEF Parsed

LEMMA BeginNodeBlock == ASSUME FdtInv, BlockInv, ReadBeginNode PROVE BlockInv'
<1> DEFINE b == fdtBlock
           c == fdtBlock'
           h == Len(b) + 1
<1>0. Token /\ fdtState = "parsing" /\ Left \in Nat \ {0} /\ Here = h
  BY TokenFits DEF ReadBeginNode, Token, Here
<1>1. PICK n \in 1 .. Left - 1 : \E name \in Name(n) : Advance(<<BeginNode>> \o name)
  BY DEF ReadBeginNode
<1>2. PICK name \in Name(n) : Advance(<<BeginNode>> \o name)
  BY <1>1
<1>3. n \in Nat \ {0}
  BY <1>0
<1>4. /\ Len(b) \in Nat /\ Len(c) = Len(b) + (1 + n) /\ c[h] = BeginNode /\ OneMore(b, c)
  BY <1>2, <1>3, NameToken
<1>5. /\ Len(fdtStack) \in Nat /\ (fdtStack = <<>> <=> Len(fdtStack) = 0)
      /\ Passed(b) /\ GoodTokens(b, Tokens(b)) /\ TreeOf(b, Tokens(b), fdtParent, fdtOwner)
      /\ OpenNodes(b, Tokens(b), fdtStack) /\ Tokens(b) \in SUBSET (1 .. Len(b))
      /\ fdtStack \in Seq(Place)
  BY <1>0, ParsedFacts
<1>6. Len(c) \in Nat /\ Len(c) > h /\ Extends(c, b) /\ After(c, h) = Len(c) + 1
  BY <1>3, <1>4 DEF OneMore
<1>7. CASE fdtStack = <<>> /\ DOMAIN fdtParent # {}
  <2>1. fdtState' = "refused"
    BY <1>7 DEF ReadBeginNode, Refuse
  <2>2. After(c, Len(b) + 1) \notin Len(b) + 2 .. Len(c)
    BY <1>6
  <2>3. ~WellFormed(c)
    BY <1>4, <1>5, <1>6, <2>2, RefusedInside
  <2> QED
    BY <2>1, <2>3, RefusedInv
<1>8. CASE ~(fdtStack = <<>> /\ DOMAIN fdtParent # {})
  <2> DEFINE top == IF fdtStack = <<>> THEN 0 ELSE fdtStack[Len(fdtStack)]
  <2>1. /\ fdtParent' = Extend(fdtParent, h, top) /\ fdtStack' = Append(fdtStack, h)
        /\ fdtState' = "parsing" /\ fdtOwner' = fdtOwner
    BY <1>0, <1>8 DEF ReadBeginNode, Continue
  <2> HIDE DEF b, c
  <2>2. Tokens(c) = Grown(b, Tokens(b)) /\ Passed(c)
    BY <1>4, <1>5, <1>6, PassedGrows
  <2>3. top = Around(c, h)
    BY <1>4, <1>5, <1>6, <2>2, AroundNew
  <2> HIDE DEF top
  <2>4. TreeOf(c, Tokens(c), fdtParent', fdtOwner')
    BY <1>4, <1>5, <1>6, <2>1, <2>2, <2>3, TreeGrows
  <2>5. /\ Len(fdtStack') = Len(fdtStack) + 1 /\ fdtStack'[Len(fdtStack) + 1] = h
        /\ \A i \in 1 .. Len(fdtStack) : fdtStack'[i] = fdtStack[i]
    <3>1. h \in Place
      BY <1>0, TokenFits
    <3> HIDE DEF h
    <3> QED
      BY <1>5, <2>1, <3>1, AppendProperties
  <2>6. OpenNodes(c, Tokens(c), fdtStack')
    BY <1>4, <1>5, <1>6, <2>5, OpenPush
  <2>7. Depth(c, Tokens(c), h) = Len(fdtStack) + 1
    BY <1>4, <1>5, <1>6, <2>2, DepthAtEnd
  <2>8. Len(fdtStack) = 0 => Count(c, Tokens(c), BeginNode, h) = 1
    <3> SUFFICES ASSUME Len(fdtStack) = 0 PROVE Count(c, Tokens(c), BeginNode, h) = 1
      OBVIOUS
    <3>1. DOMAIN fdtParent = {}
      BY <1>5, <1>8
    <3>2. \A j \in Tokens(b) : b[j] # BeginNode
      BY <1>5, <3>1 DEF TreeOf, Placed
    <3>3. Count(b, Tokens(b), BeginNode, Len(b)) = 0
      BY <1>4, <1>5, <3>2, CountFacts
    <3>4. Count(c, Grown(b, Tokens(b)), BeginNode, h) = Count(b, Tokens(b), BeginNode, Len(b)) + 1
      <4>1. h \in Nat /\ h > Len(b)
        BY <1>4
      <4> QED
        BY <1>4, <1>5, <1>6, <4>1, CountsGrow
    <3> QED
      BY <2>2, <3>3, <3>4
  <2>9. WellFormedToken(c, Tokens(c), h) /\ Depth(c, Tokens(c), h) >= 1
    <3>1. BeginNode # Property
      BY DEF BeginNode, Property
    <3> QED
      BY <1>4, <1>5, <2>7, <2>8, <3>1 DEF WellFormedToken
  <2>10. GoodTokens(c, Tokens(c))
    BY <1>4, <1>5, <1>6, <2>9, GoodGrows
  <2>11. Parsed(c, fdtParent', fdtOwner', fdtStack')
    BY <2>2, <2>4, <2>6, <2>10 DEF Parsed
  <2> QED
    BY <2>1, <2>11, ParsingInv DEF c
<1> QED
  BY <1>7, <1>8

LEMMA UnterminatedBlock == ASSUME FdtInv, BlockInv, ReadUnterminatedName PROVE BlockInv'
<1> DEFINE name == [i \in 1 .. Left - 1 |-> Text]
           words == <<BeginNode>> \o name
<1>1. Token /\ Left \in Nat \ {0} /\ Left - 1 \in Nat /\ fdtState' = "refused" /\ Advance(words)
  BY TokenFits DEF ReadUnterminatedName, Refuse
<1>2. name \in Seq(Word) /\ Len(name) = Left - 1 /\ \A i \in 1 .. Left - 1 : name[i] = Text
  <2>1. name \in [1 .. Left - 1 -> Word] /\ \A i \in 1 .. Left - 1 : name[i] = Text
    BY DEF Word
  <2> HIDE DEF name
  <2> QED
    BY <1>1, <2>1, WordsAreASequence
<1> HIDE DEF name
<1>3. <<BeginNode>> \in Seq(Word) /\ Len(<<BeginNode>>) = 1 /\ <<BeginNode>>[1] = BeginNode
  BY DEF Word
<1>4. /\ words \in Seq(Word) /\ Len(words) = Left
      /\ \A i \in 1 .. Left : words[i] = IF i <= 1 THEN <<BeginNode>>[i] ELSE name[i - 1]
  BY <1>1, <1>2, <1>3, ConcatProperties
<1> HIDE DEF words
<1>5. words[Left] \in {BeginNode, Text}
  <2>1. Left \in 1 .. Left /\ (Left <= 1 => Left = 1) /\ (~(Left <= 1) => Left - 1 \in 1 .. Left - 1)
    BY <1>1
  <2> QED
    BY <1>2, <1>3, <1>4, <2>1
<1>6. fdtBlock'[Len(fdtBlock')] = words[Left]
  <2>1. Len(words) >= 1 /\ Left \in 1 .. Len(words)
    BY <1>1, <1>4
  <2>2. /\ Len(fdtBlock') = Len(fdtBlock) + Len(words)
        /\ \A k \in 1 .. Len(words) : fdtBlock'[Len(fdtBlock) + k] = words[k]
    BY <1>1, <1>4, <2>1, AdvanceExtends
  <2> QED
    BY <1>4, <2>1, <2>2
<1>7. fdtBlock'[Len(fdtBlock')] # End
  BY <1>5, <1>6 DEF BeginNode, Text, End
<1> QED
  BY <1>1, <1>7, RefusedInv

LEMMA EndNodeBlock == ASSUME FdtInv, BlockInv, ReadEndNode PROVE BlockInv'
<1> DEFINE b == fdtBlock
           c == fdtBlock'
           h == Len(b) + 1
<1>0. Token /\ fdtState = "parsing" /\ Advance(<<EndNode>>) /\ EndNode \in Word
  BY DEF ReadEndNode, Token, Word
<1>1. /\ Len(b) \in Nat /\ Len(c) \in Nat /\ Len(c) = h /\ Extends(c, b) /\ c[h] = EndNode
  BY <1>0, OneWord
<1>2. CASE fdtStack = <<>>
  <2>1. fdtState' = "refused" /\ EndNode # End
    BY <1>2 DEF ReadEndNode, Refuse, EndNode, End
  <2> QED
    BY <1>1, <2>1, RefusedInv
<1>3. CASE fdtStack # <<>>
  <2>1. /\ fdtStack' = SubSeq(fdtStack, 1, Len(fdtStack) - 1) /\ fdtState' = "parsing"
        /\ fdtParent' = fdtParent /\ fdtOwner' = fdtOwner
    BY <1>0, <1>3 DEF ReadEndNode, Continue
  <2>2. /\ Len(fdtStack) \in Nat \ {0} /\ fdtStack \in Seq(Place)
        /\ Passed(b) /\ GoodTokens(b, Tokens(b)) /\ TreeOf(b, Tokens(b), fdtParent, fdtOwner)
        /\ OpenNodes(b, Tokens(b), fdtStack)
    BY <1>0, <1>3, ParsedFacts
  <2>3. /\ Len(fdtStack') = Len(fdtStack) - 1
        /\ \A i \in 1 .. Len(fdtStack) - 1 : fdtStack'[i] = fdtStack[i]
    BY <2>1, <2>2, ShorterStack
  <2> HIDE DEF b, c, h
  <2>4. OneMore(b, c)
    BY <1>1, OneWordToken DEF h
  <2>5. Tokens(c) = Grown(b, Tokens(b)) /\ Passed(c)
    BY <1>1, <2>2, <2>4, PassedGrows
  <2>6. TreeOf(c, Tokens(c), fdtParent', fdtOwner')
    <3>1. c[h] \notin {BeginNode, Property}
      BY <1>1 DEF BeginNode, Property, EndNode
    <3> QED
      BY <1>1, <2>1, <2>2, <2>5, <3>1, TreeGrows DEF h
  <2>7. OpenNodes(c, Tokens(c), fdtStack')
    BY <1>1, <2>2, <2>3, <2>4, OpenPop DEF h
  <2>8. Depth(c, Tokens(c), h) >= 0
    <3>1. \A i \in Nat : i > Len(b) => Depth(c, Tokens(c), i) = Len(fdtStack) + (-1)
      <4>1. EndNode # BeginNode
        BY DEF EndNode, BeginNode
      <4> QED
        BY <1>1, <2>2, <2>5, <4>1, DepthAtEnd DEF h
    <3> QED
      BY <1>1, <2>2, <3>1 DEF h
  <2>9. GoodTokens(c, Tokens(c))
    <3>1. c[h] \in {EndNode} /\ c[h] # BeginNode /\ c[h] # Property
      BY <1>1 DEF BeginNode, Property, EndNode
    <3>2. WellFormedToken(c, Tokens(c), h)
      BY <2>8, <3>1 DEF WellFormedToken
    <3> QED
      BY <1>1, <2>2, <2>4, <3>1, <3>2, GoodGrows DEF h
  <2>10. Parsed(c, fdtParent', fdtOwner', fdtStack')
    BY <2>5, <2>6, <2>7, <2>9 DEF Parsed
  <2> QED
    BY <2>1, <2>10, ParsingInv DEF c
<1> QED
  BY <1>2, <1>3

LEMMA PropertyBlock == ASSUME FdtInv, BlockInv, ReadProperty PROVE BlockInv'
<1> DEFINE b == fdtBlock
           c == fdtBlock'
           h == Len(b) + 1
<1>0. Token /\ fdtState = "parsing" /\ fdtStack # <<>> /\ Here = h
  BY DEF ReadProperty, Token, Here
<1>1. PICK length, offset \in Word :
         /\ Words(length) <= Left - 3 /\ offset <= LastNul
         /\ \E data \in [1 .. Words(length) -> Word] : Advance(<<Property, length, offset>> \o data)
  BY DEF ReadProperty
<1>2. PICK data \in [1 .. Words(length) -> Word] : Advance(<<Property, length, offset>> \o data)
  BY <1>1
<1>3. Words(length) \in Nat
  BY DEF Words, Word, BeginNode, EndNode, Property, Nop, End, Text
<1>4. data \in Seq(Word) /\ Len(data) = Words(length)
  BY <1>2, <1>3, WordsAreASequence
<1> DEFINE first == <<Property, length, offset>>
           words == first \o data
<1>5. /\ first \in Seq(Word) /\ Len(first) = 3
      /\ first[1] = Property /\ first[2] = length /\ first[3] = offset
  BY DEF Word
<1> HIDE DEF first
<1>6. /\ words \in Seq(Word) /\ Len(words) = 3 + Words(length)
      /\ words[1] = Property /\ words[2] = length /\ words[3] = offset
  <2>0. /\ words \in Seq(Word) /\ Len(words) = Len(first) + Len(data)
        /\ \A i \in 1 .. Len(first) + Len(data) :
              words[i] = IF i <= Len(first) THEN first[i] ELSE data[i - Len(first)]
    BY <1>4, <1>5, ConcatProperties
  <2> HIDE DEF words
  <2>1. /\ words \in Seq(Word) /\ Len(words) = 3 + Words(length)
        /\ \A i \in 1 .. 3 + Words(length) : words[i] = IF i <= 3 THEN first[i] ELSE data[i - 3]
    BY <1>4, <1>5, <2>0
  <2>2. 1 \in 1 .. 3 + Words(length) /\ 2 \in 1 .. 3 + Words(length) /\ 3 \in 1 .. 3 + Words(length)
    BY <1>3
  <2> QED
    BY <1>5, <2>1, <2>2
<1>7. Advance(words)
  BY <1>2 DEF first
<1> HIDE DEF words
<1>8. /\ Len(b) \in Nat /\ Len(c) = Len(b) + Len(words) /\ Extends(c, b)
      /\ c[h] = Property /\ c[Len(b) + 3] = offset
      /\ After(c, h) = Len(b) + 4 + Words(length)
  <2>1. Len(words) \in Nat /\ Len(words) >= 3
    BY <1>3, <1>6
  <2> QED
    BY <1>6, <1>7, <2>1, PropertyToken
<1>9. /\ Len(fdtStack) \in Nat \ {0}
      /\ Passed(b) /\ GoodTokens(b, Tokens(b)) /\ TreeOf(b, Tokens(b), fdtParent, fdtOwner)
      /\ OpenNodes(b, Tokens(b), fdtStack)
  BY <1>0, ParsedFacts
<1>10. /\ fdtOwner' = Extend(fdtOwner, h, fdtStack[Len(fdtStack)])
       /\ fdtParent' = fdtParent /\ fdtStack' = fdtStack /\ fdtState' = "parsing"
  BY <1>0 DEF ReadProperty, Continue
<1> HIDE DEF b, c
<1>11. /\ Len(c) \in Nat /\ After(c, h) = Len(c) + 1 /\ h + 2 <= Len(c) /\ h + 2 = Len(b) + 3
       /\ h \in Nat
  BY <1>3, <1>6, <1>8
<1>12. Property # BeginNode /\ Property # EndNode
  BY DEF Property, BeginNode, EndNode
<1>13. OneMore(b, c)
  <2>1. After(c, h) \in h + 1 .. Len(c) + 1
    BY <1>11
  <2> QED
    BY <1>8, <1>11, <1>12, <2>1 DEF OneMore, WholeToken
<1>14. Tokens(c) = Grown(b, Tokens(b)) /\ Passed(c)
  BY <1>8, <1>9, <1>11, <1>13, PassedGrows
<1>15. Around(c, h) = fdtStack[Len(fdtStack)]
  BY <1>8, <1>9, <1>11, <1>14, AroundNew
<1>16. TreeOf(c, Tokens(c), fdtParent', fdtOwner')
  BY <1>8, <1>9, <1>10, <1>11, <1>14, <1>15, TreeGrows
<1>17. OpenNodes(c, Tokens(c), fdtStack')
  BY <1>8, <1>9, <1>10, <1>11, <1>13, OpenKeep
<1>18. GoodTokens(c, Tokens(c))
  <2>1. Depth(c, Tokens(c), h) = Len(fdtStack) + 0
    <3>1. \A i \in Nat : i > Len(b) => Depth(c, Tokens(c), i) = Len(fdtStack) + 0
      BY <1>8, <1>9, <1>11, <1>12, <1>14, DepthAtEnd
    <3> QED
      BY <1>8, <1>11, <3>1
  <2>2. Depth(c, Tokens(c), h) >= 1
    BY <1>9, <2>1
  <2>3. c[h] = Property /\ c[h + 2] <= LastNul
    BY <1>1, <1>8, <1>11
  <2>4. Depth(c, Tokens(c), h) >= 0
    BY <1>9, <2>1
  <2>5. WellFormedToken(c, Tokens(c), h)
    <3> HIDE DEF h
    <3> QED
      BY <1>12, <2>2, <2>3, <2>4 DEF WellFormedToken
  <2> QED
    BY <1>8, <1>9, <1>11, <1>12, <1>13, <2>5, GoodGrows
<1>19. Parsed(c, fdtParent', fdtOwner', fdtStack')
  BY <1>14, <1>16, <1>17, <1>18 DEF Parsed
<1> QED
  BY <1>10, <1>19, ParsingInv DEF c

LEMMA BadPropertyBlock == ASSUME FdtInv, BlockInv, ReadBadProperty PROVE BlockInv'
<1> DEFINE b == fdtBlock
           c == fdtBlock'
           h == Len(b) + 1
<1>0. Token /\ fdtState = "parsing" /\ fdtState' = "refused" /\ Left \in Nat
      /\ Left = fdtLimit - Len(b)
  BY TokenFits DEF ReadBadProperty, Token, Refuse, Left
<1>1. CASE fdtStack = <<>> \/ Left < 3
  <2>1. Advance(<<Property>>) /\ Property \in Word /\ Property # End
    BY <1>1 DEF ReadBadProperty, Word, Property, End
  <2>2. Len(c) = h /\ c[h] = Property
    BY <2>1, OneWord
  <2> QED
    BY <1>0, <2>1, <2>2, RefusedInv
<1>2. CASE ~(fdtStack = <<>> \/ Left < 3)
  <2>1. PICK length, offset \in Word : Advance(<<Property, length, offset>>)
    BY <1>2 DEF ReadBadProperty
  <2> DEFINE words == <<Property, length, offset>>
  <2>2. /\ words \in Seq(Word) /\ Len(words) = 3
        /\ words[1] = Property /\ words[2] = length /\ words[3] = offset
    BY DEF Word
  <2>3. Advance(words)
    BY <2>1
  <2> HIDE DEF words
  <2>4. Words(length) \in Nat
    BY DEF Words, Word, BeginNode, EndNode, Property, Nop, End, Text
  <2>5. /\ Len(b) \in Nat /\ Len(c) = Len(b) + 3 /\ Extends(c, b)
        /\ After(c, h) = Len(b) + 4 + Words(length)
    <3>1. Len(words) \in Nat /\ Len(words) >= 3
      BY <2>2
    <3> QED
      BY <2>2, <2>3, <3>1, PropertyToken
  <2>6. Passed(b)
    BY <1>0, ParsedFacts
  <2> HIDE DEF b, c
  <2>7. Len(c) \in Nat /\ Len(c) > Len(b) + 1 /\ After(c, Len(b) + 1) \notin Len(b) + 2 .. Len(c)
    BY <2>4, <2>5
  <2>8. ~WellFormed(c)
    BY <2>5, <2>6, <2>7, RefusedInside
  <2> QED
    BY <1>0, <2>8, RefusedInv DEF c
<1> QED
  BY <1>1, <1>2

LEMMA NopBlock == ASSUME FdtInv, BlockInv, ReadNop PROVE BlockInv'
<1> DEFINE b == fdtBlock
           c == fdtBlock'
           h == Len(b) + 1
<1>0. /\ Token /\ fdtState = "parsing" /\ fdtState' = "parsing" /\ Advance(<<Nop>>) /\ Nop \in Word
      /\ fdtParent' = fdtParent /\ fdtOwner' = fdtOwner /\ fdtStack' = fdtStack
  BY DEF ReadNop, Token, Word, Continue
<1>1. /\ Len(b) \in Nat /\ Len(c) \in Nat /\ Len(c) = h /\ Extends(c, b) /\ c[h] = Nop
  BY <1>0, OneWord
<1>2. /\ Len(fdtStack) \in Nat
      /\ Passed(b) /\ GoodTokens(b, Tokens(b)) /\ TreeOf(b, Tokens(b), fdtParent, fdtOwner)
      /\ OpenNodes(b, Tokens(b), fdtStack)
  BY <1>0, ParsedFacts
<1> HIDE DEF b, c, h
<1>3. Nop # BeginNode /\ Nop # EndNode /\ Nop # Property
  BY DEF Nop, BeginNode, EndNode, Property
<1>4. OneMore(b, c)
  BY <1>1, OneWordToken DEF h
<1>5. Tokens(c) = Grown(b, Tokens(b)) /\ Passed(c)
  BY <1>1, <1>2, <1>4, PassedGrows
<1>6. TreeOf(c, Tokens(c), fdtParent', fdtOwner')
  BY <1>0, <1>1, <1>2, <1>3, <1>5, TreeGrows DEF h
<1>7. OpenNodes(c, Tokens(c), fdtStack')
  BY <1>0, <1>1, <1>2, <1>4, OpenKeep DEF h
<1>8. GoodTokens(c, Tokens(c))
  <2>1. \A i \in Nat : i > Len(b) => Depth(c, Tokens(c), i) = Len(fdtStack) + 0
    BY <1>1, <1>2, <1>3, <1>5, DepthAtEnd DEF h
  <2>2. Depth(c, Tokens(c), h) >= 0
    BY <1>1, <1>2, <2>1 DEF h
  <2>3. WellFormedToken(c, Tokens(c), h)
    BY <1>1, <1>3, <2>2 DEF WellFormedToken
  <2> QED
    BY <1>1, <1>2, <1>3, <1>4, <2>3, GoodGrows DEF h
<1>9. Parsed(c, fdtParent', fdtOwner', fdtStack')
  BY <1>5, <1>6, <1>7, <1>8 DEF Parsed
<1> QED
  BY <1>0, <1>9, ParsingInv DEF c

\* FDT_END: accepted where a tree is whole, refused where the block is no tree.
LEMMA EndBlock == ASSUME FdtInv, BlockInv, ReadEnd PROVE BlockInv'
<1> DEFINE b == fdtBlock
           c == fdtBlock'
           h == Len(b) + 1
           T == Tokens(b)
<1>0. /\ Token /\ fdtState = "parsing" /\ Advance(<<End>>) /\ End \in Word
      /\ fdtParent' = fdtParent /\ fdtOwner' = fdtOwner
      /\ fdtState' = IF fdtStack = <<>> /\ DOMAIN fdtParent # {} THEN "accepted" ELSE "refused"
  BY DEF ReadEnd, Token, Word
<1>1. /\ Len(b) \in Nat /\ Len(c) \in Nat /\ Len(c) = h /\ Extends(c, b) /\ c[h] = End
  BY <1>0, OneWord
<1>2. /\ Len(fdtStack) \in Nat /\ (fdtStack = <<>> <=> Len(fdtStack) = 0)
      /\ Passed(b) /\ GoodTokens(b, T) /\ TreeOf(b, T, fdtParent, fdtOwner)
      /\ OpenNodes(b, T, fdtStack) /\ T \in SUBSET (1 .. Len(b))
  BY <1>0, ParsedFacts
<1> HIDE DEF b, c, h
<1>3. End # BeginNode /\ End # EndNode /\ End # Property
      /\ End \notin {BeginNode, EndNode, Property, Nop}
  BY DEF End, Nop, BeginNode, EndNode, Property
<1>4. OneMore(b, c)
  BY <1>1, OneWordToken DEF h
<1>5. Tokens(c) = Grown(b, T)
  BY <1>1, <1>2, <1>4, PassedGrows
<1>6. Depth(c, Tokens(c), h) = Len(fdtStack)
  <2>1. \A i \in Nat : i > Len(b) => Depth(c, Tokens(c), i) = Len(fdtStack) + 0
    BY <1>1, <1>2, <1>3, <1>5, DepthAtEnd DEF h
  <2> QED
    BY <1>1, <1>2, <2>1 DEF h
<1> HIDE DEF T
<1>7. \A kind : Count(c, Tokens(c), kind, h) =
                   Count(b, T, kind, Len(b)) + (IF End = kind THEN 1 ELSE 0)
  <2>1. h \in Nat /\ h > Len(b) /\ h = Len(b) + 1
    BY <1>1 DEF h
  <2> QED
    BY <1>1, <1>2, <1>5, <2>1, CountsGrow
<1>8. DOMAIN fdtParent = {i \in T : b[i] = BeginNode} /\ DOMAIN fdtOwner = {i \in T : b[i] = Property}
  BY <1>2 DEF TreeOf, Placed
<1>9. CASE fdtStack = <<>> /\ DOMAIN fdtParent # {}
  <2>1. fdtState' = "accepted"
    BY <1>0, <1>9
  <2>2. Count(c, Tokens(c), End, h) = 1
    <3>1. \A i \in T : b[i] # End
      BY <1>2, <1>3 DEF GoodTokens
    <3>2. Count(b, T, End, Len(b)) = 0
      BY <1>1, <1>2, <3>1, CountFacts
    <3> QED
      BY <1>7, <3>2
  <2>3. Count(c, Tokens(c), BeginNode, h) >= 1
    <3>1. PICK j \in T : b[j] = BeginNode
      BY <1>8, <1>9
    <3>2. Count(b, T, BeginNode, Len(b)) >= 1
      BY <1>1, <1>2, <3>1, CountPositive
    <3>3. Count(b, T, BeginNode, Len(b)) \in Nat
      BY <1>1, <1>2, CountFacts
    <3> QED
      BY <1>3, <1>7, <3>2, <3>3
  <2>4. ASSUME NEW i \in Tokens(c) PROVE WellFormedToken(c, Tokens(c), i)
    <3>1. CASE i = h
      <4>1. Depth(c, Tokens(c), h) >= 0
        BY <1>2, <1>6
      <4> QED
        BY <1>1, <1>3, <3>1, <4>1 DEF WellFormedToken
    <3>2. CASE i # h
      <4>1. i \in T
        BY <1>5, <3>2 DEF Grown, h
      <4>2. WholeToken(b, i) /\ WellFormedToken(b, T, i)
        BY <1>2, <4>1 DEF Passed, GoodTokens, T
      <4> QED
        BY <1>1, <1>2, <1>5, <4>1, <4>2, WellFormedGrows
    <3> QED
      BY <3>1, <3>2
  <2>5. h \in Tokens(c)
    BY <1>5 DEF Grown, h
  <2>6. WellFormed(c)
    BY <1>1, <1>2, <1>6, <1>9, <2>2, <2>3, <2>4, <2>5 DEF WellFormed
  <2>7. TreeOf(c, Tokens(c), fdtParent', fdtOwner')
    BY <1>0, <1>1, <1>2, <1>3, <1>5, TreeGrows DEF h, T
  <2> QED
    BY <2>1, <2>6, <2>7 DEF BlockInv, AcceptsExactlyTrees, TreeOf, Placed, c
<1>10. CASE ~(fdtStack = <<>> /\ DOMAIN fdtParent # {})
  <2>1. fdtState' = "refused"
    BY <1>0, <1>10
  <2>2. CASE fdtStack # <<>>
    <3>1. Depth(c, Tokens(c), Len(c)) # 0
      BY <1>1, <1>2, <1>6, <2>2
    <3>2. ~WellFormed(c)
      BY <3>1 DEF WellFormed
    <3> QED
      BY <2>1, <3>2, RefusedInv DEF c
  <2>3. CASE DOMAIN fdtParent = {}
    <3>1. \A j \in T : b[j] # BeginNode
      BY <1>8, <2>3
    <3>2. Count(b, T, BeginNode, Len(b)) = 0
      BY <1>1, <1>2, <3>1, CountFacts
    <3>3. Count(c, Tokens(c), BeginNode, Len(c)) = 0
      BY <1>1, <1>3, <1>7, <3>2
    <3>4. ~WellFormed(c)
      BY <3>3 DEF WellFormed
    <3> QED
      BY <2>1, <3>4, RefusedInv DEF c
  <2> QED
    BY <1>10, <2>2, <2>3
<1> QED
  BY <1>9, <1>10

LEMMA BlockNextInv == FdtInv /\ BlockInv /\ FdtNext => BlockInv'
<1> SUFFICES ASSUME FdtInv, BlockInv, FdtNext PROVE BlockInv'
  OBVIOUS
<1>1. CASE ReadHeader
  <2>1. /\ UNCHANGED <<fdtBlock, fdtStack, fdtParent, fdtOwner>> /\ fdtBlock = <<>>
        /\ fdtState = "header" /\ fdtState' \in {"refused", "parsing"}
    BY <1>1 DEF ReadHeader, FdtInv, WithinSpan
  <2>2. Parsed(fdtBlock', fdtParent', fdtOwner', fdtStack')
    BY <2>1 DEF BlockInv
  <2> QED
    BY <2>1, <2>2, ParsingInv, RefusedInv
<1>2. CASE ReadUnknown
  <2>1. PICK token \in {0, Text} : Advance(<<token>>)
    BY <1>2 DEF ReadUnknown
  <2>2. token \in Word /\ token # End /\ fdtState' = "refused"
    BY <1>2 DEF ReadUnknown, Refuse, Word, Text, End
  <2>3. Len(fdtBlock') = Len(fdtBlock) + 1 /\ fdtBlock'[Len(fdtBlock) + 1] = token
    BY <2>1, <2>2, OneWord
  <2> QED
    BY <2>2, <2>3, RefusedInv
<1>3. CASE Exhausted
  <2>1. fdtState = "parsing" /\ fdtState' = "refused" /\ fdtBlock' = fdtBlock
    BY <1>3 DEF Exhausted, Refuse
  <2>2. \A i \in Tokens(fdtBlock) : fdtBlock[i] # End
    <3>1. End \notin {BeginNode, EndNode, Property, Nop}
      BY DEF BeginNode, EndNode, Property, Nop, End
    <3>2. GoodTokens(fdtBlock, Tokens(fdtBlock))
      BY <2>1, ParsedFacts
    <3> QED
      BY <3>1, <3>2 DEF GoodTokens
  <2>3. ~WellFormed(fdtBlock)
    BY <2>2 DEF WellFormed
  <2> QED
    BY <2>1, <2>3, RefusedInv
<1> QED
  BY <1>1, <1>2, <1>3, BeginNodeBlock, UnterminatedBlock, EndNodeBlock, PropertyBlock,
     BadPropertyBlock, NopBlock, EndBlock DEF FdtNext

\* Exactly the blocks that hold one tree and END are accepted, and every node and
\* property of one is where it belongs: the loop of _parse_structure, its stack and
\* its checks, for blocks of every length.
THEOREM AcceptsTrees == FdtSpec => []AcceptsExactlyTrees
<1>1. BlockInv /\ UNCHANGED fdtVars => BlockInv'
  BY DEF BlockInv, Parsed, AcceptsExactlyTrees, fdtVars
<1>2. FdtInv /\ BlockInv /\ [FdtNext]_fdtVars => BlockInv'
  BY <1>1, BlockNextInv
<1>3. BlockInv => AcceptsExactlyTrees
  BY DEF BlockInv
<1> QED
  BY <1>2, <1>3, BlockInitInv, FdtInvariance, PTL DEF FdtSpec
-------------------------------------------------------------------------------
(***************************************************************************)
(* NewcArchive: what is parsed, changed and written stays an archive, for  *)
(* streams and archives of every length.                                   *)
(***************************************************************************)
IsSeq(s) == \E S : s \in Seq(S)

\* An entry as a stream may hold it, and as the archive may have it.
WellFormedEntry(r) ==
    /\ DOMAIN r = EntryFields
    /\ IsSeq(r.name) /\ IsSeq(r.data) /\ r.absolute \in BOOLEAN
    /\ HasDots(r.name) => r.name \in UnsafeNames

GoodEntry(r) == r.kind = "entry" /\ WellFormedEntry(r) /\ r.name \notin UnsafeNames

\* The records read so far are the archive so far.
Parsing ==
    newcState = "parse" =>
        /\ newcOffset = Len(newcEntries)
        /\ \A i \in 1 .. newcOffset : newcEntries[i] = newcInput[i]

\* An accepted stream has its entries in front of everything else.
Accepted ==
    newcState \in {"ready", "read"} =>
        /\ Distinct(newcEntries)
        /\ \A i \in 1 .. newcOffset : newcInput[i].kind = "entry"
        /\ \A i \in newcOffset + 1 .. Len(newcInput) : newcInput[i].kind # "entry"

\* A stream that was written holds the archive, a trailer and padding.
ReadBack ==
    newcWritten # <<>> =>
        /\ newcWritten = <<newcWritten[1]>> /\ IsSeq(newcWritten[1])
        /\ newcInput = newcWritten[1] \o <<Trailer(FALSE), Nul>>
        /\ Distinct(newcWritten[1])
        /\ \A i \in 1 .. Len(newcWritten[1]) : GoodEntry(newcWritten[1][i])
        /\ newcState \in {"ready", "read"} => newcEntries = newcWritten[1]
        /\ newcState = "refused" => Len(newcWritten[1]) >= MaxEntries

NewcInv ==
    /\ NewcTypeOK /\ IsFiniteSet(newcSeen)
    /\ IsSeq(newcInput) /\ IsSeq(newcEntries)
    /\ \A i \in 1 .. Len(newcInput) : newcInput[i].kind = "entry" => WellFormedEntry(newcInput[i])
    /\ \A i \in 1 .. Len(newcEntries) : GoodEntry(newcEntries[i])
    /\ Parsing /\ Accepted /\ ReadBack
-------------------------------------------------------------------------------
USE StepsAssumption, MaxEntriesAssumption

\* Sequences whose elements are of no type in particular.
LEMMA EmptyIsSeq == IsSeq(<<>>) /\ Len(<<>>) = 0
BY EmptySeq DEF IsSeq

LEMMA SeqFacts ==
  ASSUME NEW s, IsSeq(s)
  PROVE  Len(s) \in Nat /\ DOMAIN s = 1 .. Len(s) /\ (s = <<>> <=> Len(s) = 0)
<1>1. PICK S : s \in Seq(S)
  BY DEF IsSeq
<1> QED
  BY <1>1, LenProperties, EmptySeq

LEMMA AppendFacts ==
  ASSUME NEW s, IsSeq(s), NEW e
  PROVE  /\ IsSeq(Append(s, e)) /\ Len(Append(s, e)) = Len(s) + 1
         /\ Append(s, e)[Len(s) + 1] = e
         /\ \A i \in 1 .. Len(s) : Append(s, e)[i] = s[i]
<1>1. PICK S : s \in Seq(S)
  BY DEF IsSeq
<1> DEFINE T == S \cup {e}
<1>2. s \in Seq(T) /\ e \in T
  BY <1>1, SeqMonotonic
<1> HIDE DEF T
<1> QED
  BY <1>2, AppendProperties DEF IsSeq

LEMMA ConcatFacts ==
  ASSUME NEW s, NEW t, IsSeq(s), IsSeq(t)
  PROVE  /\ IsSeq(s \o t) /\ Len(s \o t) = Len(s) + Len(t)
         /\ \A i \in 1 .. Len(s) : (s \o t)[i] = s[i]
         /\ \A i \in 1 .. Len(t) : (s \o t)[Len(s) + i] = t[i]
<1>1. PICK S : s \in Seq(S)
  BY DEF IsSeq
<1>2. PICK T : t \in Seq(T)
  BY DEF IsSeq
<1> DEFINE U == S \cup T
<1>3. s \in Seq(U) /\ t \in Seq(U)
  BY <1>1, <1>2, SeqMonotonic
<1> HIDE DEF U
<1>4. Len(s) \in Nat /\ Len(t) \in Nat
  BY <1>3, LenProperties
<1>5. /\ s \o t \in Seq(U) /\ Len(s \o t) = Len(s) + Len(t)
      /\ \A i \in 1 .. Len(s) + Len(t) : (s \o t)[i] = IF i <= Len(s) THEN s[i] ELSE t[i - Len(s)]
  BY <1>3, ConcatProperties
<1>6. \A i \in 1 .. Len(t) : /\ Len(s) + i \in 1 .. Len(s) + Len(t)
                             /\ ~(Len(s) + i <= Len(s)) /\ (Len(s) + i) - Len(s) = i
  BY <1>4
<1>7. \A i \in 1 .. Len(s) : i \in 1 .. Len(s) + Len(t) /\ i <= Len(s)
  BY <1>4
<1> QED
  BY <1>5, <1>6, <1>7 DEF IsSeq

LEMMA EqualSeqs ==
  ASSUME NEW s, NEW t, IsSeq(s), IsSeq(t), Len(s) = Len(t), \A i \in 1 .. Len(s) : s[i] = t[i]
  PROVE  s = t
<1>1. PICK S : s \in Seq(S)
  BY DEF IsSeq
<1>2. PICK T : t \in Seq(T)
  BY DEF IsSeq
<1>3. s \in Seq(S \cup T) /\ t \in Seq(S \cup T)
  BY <1>1, <1>2, SeqMonotonic
<1> QED
  BY <1>3, SeqEqual

\* What is left of the stream, record by record.
LEMMA RestFacts ==
  ASSUME IsSeq(newcInput), newcOffset \in 0 .. Len(newcInput)
  PROVE  /\ Rest = <<>> <=> newcOffset = Len(newcInput)
         /\ newcOffset < Len(newcInput) =>
               /\ Head(Rest) = newcInput[newcOffset + 1]
               /\ AllNul(Tail(Rest)) =>
                     \A i \in newcOffset + 2 .. Len(newcInput) : newcInput[i] = Nul
         /\ AllNul(Rest) => \A i \in newcOffset + 1 .. Len(newcInput) : newcInput[i] = Nul
         /\ (\A i \in newcOffset + 1 .. Len(newcInput) : newcInput[i] = Nul) => AllNul(Rest)
<1> DEFINE n == newcOffset
           l == Len(newcInput)
<1>1. PICK S : newcInput \in Seq(S)
  BY DEF IsSeq
<1>2. n \in Nat /\ l \in Nat /\ n <= l /\ DOMAIN newcInput = 1 .. l
      /\ \A i \in n + 1 .. l : newcInput[i] \in S
  BY <1>1, LenProperties, ElementOfSeq
<1>3. /\ Rest \in Seq(S) /\ Len(Rest) = l - n
      /\ \A i \in 1 .. l - n : Rest[i] = newcInput[n + i]
  <2> HIDE DEF n, l
  <2>1. n + 1 \in Int /\ l \in Int /\ Rest = SubSeq(newcInput, n + 1, l)
    BY <1>2 DEF Rest, n, l
  <2>2. /\ Rest \in Seq(S)
        /\ Len(Rest) = IF n + 1 <= l THEN l - (n + 1) + 1 ELSE 0
        /\ \A i \in 1 .. l - (n + 1) + 1 : Rest[i] = newcInput[n + 1 + i - 1]
    BY <1>2, <2>1, SubSeqProperties
  <2>3. l - (n + 1) + 1 = l - n /\ (IF n + 1 <= l THEN l - (n + 1) + 1 ELSE 0) = l - n
        /\ \A i \in 1 .. l - n : n + 1 + i - 1 = n + i
    BY <1>2
  <2> QED
    BY <2>2, <2>3
<1>4. DOMAIN Rest = 1 .. l - n
  BY <1>3, LenProperties
<1>5. Rest = <<>> <=> n = l
  <2>1. Rest = <<>> <=> Len(Rest) = 0
    BY <1>3, SeqFacts DEF IsSeq
  <2>2. l - n = 0 <=> n = l
    BY <1>2
  <2> QED
    BY <1>3, <2>1, <2>2
<1>6. ASSUME n < l
      PROVE  /\ Head(Rest) = newcInput[n + 1]
             /\ AllNul(Tail(Rest)) => \A i \in n + 2 .. l : newcInput[i] = Nul
  <2>1. n + 1 \in 1 .. l /\ l \in n + 1 .. l /\ Rest = SubSeq(newcInput, n + 1, l)
    BY <1>2, <1>6 DEF Rest
  <2>2. Head(Rest) = newcInput[n + 1]
    BY <1>1, <2>1, HeadTailOfSubSeq
  <2>3. /\ Tail(Rest) \in Seq(S) /\ Len(Tail(Rest)) = l - n - 1
        /\ \A i \in 1 .. l - n - 1 : Tail(Rest)[i] = Rest[i + 1]
    <3>1. Rest # <<>>
      <4>1. n \in Nat /\ l \in Nat /\ n < l
        BY <1>2, <1>6
      <4>2. n # l
        BY <4>1
      <4> QED
        BY <1>5, <4>2
    <3>2. /\ Tail(Rest) \in Seq(S) /\ Len(Tail(Rest)) = Len(Rest) - 1
          /\ \A i \in 1 .. Len(Tail(Rest)) : Tail(Rest)[i] = Rest[i + 1]
      BY <1>3, <3>1, HeadTailProperties
    <3> QED
      BY <1>3, <3>2
  <2>4. DOMAIN Tail(Rest) = 1 .. l - n - 1
    BY <2>3, LenProperties
  <2>5. ASSUME AllNul(Tail(Rest)), NEW i \in n + 2 .. l PROVE newcInput[i] = Nul
    <3>1. i - n - 1 \in 1 .. l - n - 1 /\ i - n \in 1 .. l - n /\ (i - n - 1) + 1 = i - n /\ n + (i - n) = i
      BY <1>2
    <3>2. Tail(Rest)[i - n - 1] = newcInput[i]
      BY <1>3, <2>3, <3>1
    <3> QED
      BY <2>4, <2>5, <3>1, <3>2 DEF AllNul
  <2> QED
    BY <2>2, <2>5
<1>7. ASSUME AllNul(Rest), NEW i \in n + 1 .. l PROVE newcInput[i] = Nul
  <2>1. i - n \in 1 .. l - n /\ n + (i - n) = i
    BY <1>2
  <2> QED
    BY <1>3, <1>4, <1>7, <2>1 DEF AllNul
<1>8. ASSUME \A i \in n + 1 .. l : newcInput[i] = Nul PROVE AllNul(Rest)
  <2>1. \A i \in 1 .. l - n : n + i \in n + 1 .. l
    BY <1>2
  <2> QED
    BY <1>3, <1>4, <1>8, <2>1 DEF AllNul
<1> QED
  BY <1>5, <1>6, <1>7, <1>8

\* The names of an archive are finitely many; one more is new among them or not.
LEMMA NamesFacts ==
  ASSUME NEW s, IsSeq(s)
  PROVE  IsFiniteSet(Names(s)) /\ Cardinality(Names(s)) \in Nat
<1> DEFINE index == 1 .. Len(s)
<1>1. Len(s) \in Nat /\ DOMAIN s = index
  BY SeqFacts
<1>2. IsFiniteSet(index)
  BY <1>1, FS_Interval
<1> DEFINE f == [i \in index |-> s[i].name]
<1>3. f \in Surjection(index, Names(s))
  <2>1. Names(s) = {s[i].name : i \in index}
    BY <1>1 DEF Names
  <2> HIDE DEF index
  <2>2. f \in [index -> Names(s)] /\ \A n \in Names(s) : \E i \in index : f[i] = n
    BY <2>1
  <2> QED
    BY <2>2 DEF Surjection
<1> HIDE DEF index, f
<1>4. IsFiniteSet(Names(s))
  BY <1>2, <1>3, FS_Surjection
<1> QED
  BY <1>4, FS_CardinalityType

LEMMA AppendIsDistinct ==
  ASSUME NEW s, IsSeq(s), Distinct(s), NEW e, e.name \notin Names(s)
  PROVE  Distinct(Append(s, e))
<1>1. /\ IsSeq(Append(s, e)) /\ Len(Append(s, e)) = Len(s) + 1
      /\ Append(s, e)[Len(s) + 1] = e
      /\ \A i \in 1 .. Len(s) : Append(s, e)[i] = s[i]
  BY AppendFacts
<1>2. Len(s) \in Nat /\ DOMAIN s = 1 .. Len(s) /\ DOMAIN Append(s, e) = 1 .. Len(s) + 1
  BY <1>1, SeqFacts
<1>3. Names(Append(s, e)) = Names(s) \cup {e.name}
  <2>1. Names(Append(s, e)) = {Append(s, e)[i].name : i \in 1 .. Len(s) + 1}
    BY <1>2 DEF Names
  <2>2. Names(s) = {s[i].name : i \in 1 .. Len(s)}
    BY <1>2 DEF Names
  <2>3. 1 .. Len(s) + 1 = (1 .. Len(s)) \cup {Len(s) + 1}
    BY <1>2
  <2> QED
    BY <1>1, <2>1, <2>2, <2>3
<1>4. Cardinality(Names(s) \cup {e.name}) = Cardinality(Names(s)) + 1
  BY NamesFacts, FS_AddElement
<1> QED
  BY <1>1, <1>3, <1>4 DEF Distinct

LEMMA SequenceFacts == \A s : Sequence(s) => IsSeq(s)
BY DEF Sequence, IsSeq

LEMMA NewcInitInv == NewcInit => NewcInv
<1> SUFFICES ASSUME NewcInit PROVE NewcInv
  OBVIOUS
<1> USE DEF NewcInit
<1>1. IsSeq(newcInput)
  BY StreamsAssumption, SequenceFacts
<1>2. Len(newcInput) \in Nat /\ DOMAIN newcInput = 1 .. Len(newcInput)
  BY <1>1, SeqFacts
<1>3. IsFiniteSet(newcSeen) /\ Cardinality(newcSeen) = 0
  BY FS_EmptySet
<1>4. NewcTypeOK
  BY <1>2, <1>3, EmptyIsSeq DEF NewcTypeOK
<1>5. Parsing /\ Accepted /\ ReadBack
  BY EmptyIsSeq DEF Parsing, Accepted, ReadBack
<1>6. \A i \in 1 .. Len(newcInput) :
         newcInput[i].kind = "entry" => WellFormedEntry(newcInput[i])
  BY <1>2, StreamsAssumption, SequenceFacts DEF WellFormedEntry
<1>7. \A i \in 1 .. Len(newcEntries) : GoodEntry(newcEntries[i])
  BY EmptyIsSeq
<1>8. IsSeq(newcEntries)
  BY EmptyIsSeq
<1> HIDE DEF NewcInit
<1> QED
  BY <1>1, <1>3, <1>4, <1>5, <1>6, <1>7, <1>8 DEF NewcInv

\* What is known in every state, in the form the steps need.
LEMMA NewcFacts ==
  ASSUME NewcInv
  PROVE  /\ Len(newcInput) \in Nat /\ newcOffset \in 0 .. Len(newcInput)
         /\ Len(newcEntries) \in Nat /\ DOMAIN newcEntries = 1 .. Len(newcEntries)
BY SeqFacts DEF NewcInv, NewcTypeOK

\* The records of a written stream.
LEMMA WrittenFacts ==
  ASSUME NewcInv, newcWritten # <<>>
  PROVE  LET w == newcWritten[1]
         IN  /\ Len(w) \in Nat /\ Len(newcInput) = Len(w) + 2
             /\ \A i \in 1 .. Len(w) : newcInput[i] = w[i]
             /\ newcInput[Len(w) + 1] = Trailer(FALSE) /\ newcInput[Len(w) + 2] = Nul
<1> DEFINE w == newcWritten[1]
           end == <<Trailer(FALSE), Nul>>
<1>1. IsSeq(w) /\ newcInput = w \o end
  BY DEF NewcInv, ReadBack
<1>2. IsSeq(end) /\ Len(end) = 2 /\ end[1] = Trailer(FALSE) /\ end[2] = Nul
  <2>1. end \in Seq({Trailer(FALSE), Nul}) /\ Len(end) = 2 /\ end[1] = Trailer(FALSE) /\ end[2] = Nul
    OBVIOUS
  <2> QED
    BY <2>1 DEF IsSeq
<1> HIDE DEF end
<1>3. Len(w) \in Nat
  BY <1>1, SeqFacts
<1> HIDE DEF w
<1>4. /\ Len(w \o end) = Len(w) + Len(end)
      /\ \A i \in 1 .. Len(w) : (w \o end)[i] = w[i]
      /\ \A i \in 1 .. Len(end) : (w \o end)[Len(w) + i] = end[i]
  <2>1. IsSeq(w) /\ IsSeq(end)
    BY <1>1, <1>2
  <2> QED
    BY <2>1, ConcatFacts
<1>5. 1 \in 1 .. Len(end) /\ 2 \in 1 .. Len(end)
  BY <1>2
<1> QED
  BY <1>1, <1>2, <1>3, <1>4, <1>5 DEF w

LEMMA ParseTrailerInv == ASSUME NewcInv, ParseTrailer PROVE NewcInv'
<1> USE DEF ParseTrailer
<1>1. /\ newcOffset \in Nat /\ Len(newcInput) \in Nat /\ newcOffset < Len(newcInput)
      /\ IsSeq(newcInput) /\ newcOffset \in 0 .. Len(newcInput)
  BY NewcFacts, RestFacts DEF NewcInv
<1>2. newcInput[newcOffset + 1].kind = "trailer" /\ Head(Rest) = newcInput[newcOffset + 1]
  BY <1>1, RestFacts
<1>3. NewcTypeOK' /\ Parsing'
  BY DEF NewcInv, NewcTypeOK, Parsing, newcLook
<1>4. Accepted'
  <2> SUFFICES ASSUME newcState' = "ready" PROVE Accepted'
    BY DEF Accepted
  <2>1. AllNul(Tail(Rest)) /\ Distinct(newcEntries)
    OBVIOUS
  <2>2. \A i \in newcOffset + 2 .. Len(newcInput) : newcInput[i] = Nul
    BY <1>1, <2>1, RestFacts
  <2>3. \A i \in newcOffset + 1 .. Len(newcInput) : newcInput[i].kind # "entry"
    <3> SUFFICES ASSUME NEW i \in newcOffset + 1 .. Len(newcInput) PROVE newcInput[i].kind # "entry"
      OBVIOUS
    <3>1. i = newcOffset + 1 \/ i \in newcOffset + 2 .. Len(newcInput)
      BY <1>1
    <3> QED
      BY <1>2, <2>2, <3>1 DEF Nul
  <2>4. \A i \in 1 .. newcOffset : newcInput[i].kind = "entry"
    BY DEF NewcInv, Parsing, GoodEntry
  <2> QED
    BY <2>1, <2>3, <2>4 DEF Accepted
<1>5. ReadBack'
  <2> SUFFICES ASSUME newcWritten # <<>>
               PROVE  /\ newcState' \in {"ready", "read"} => newcEntries = newcWritten[1]
                      /\ newcState' = "refused" => Len(newcWritten[1]) >= MaxEntries
    BY DEF NewcInv, ReadBack
  <2> DEFINE w == newcWritten[1]
  <2>1. /\ Len(w) \in Nat /\ Len(newcInput) = Len(w) + 2
        /\ \A i \in 1 .. Len(w) : newcInput[i] = w[i]
        /\ newcInput[Len(w) + 1] = Trailer(FALSE) /\ newcInput[Len(w) + 2] = Nul
        /\ \A i \in 1 .. Len(w) : GoodEntry(w[i])
        /\ Distinct(w) /\ IsSeq(w)
    BY WrittenFacts DEF NewcInv, ReadBack
  <2>2. newcOffset = Len(w)
    <3>1. newcOffset + 1 \notin 1 .. Len(w)
      BY <1>2, <2>1 DEF GoodEntry
    <3>2. newcOffset + 1 # Len(w) + 2
      BY <1>2, <2>1 DEF Nul
    <3> QED
      BY <1>1, <2>1, <3>1, <3>2
  <2>3. newcEntries = w
    <3>1. /\ IsSeq(newcEntries) /\ Len(newcEntries) = Len(w)
          /\ \A i \in 1 .. Len(newcEntries) : newcEntries[i] = w[i]
      BY <2>1, <2>2 DEF NewcInv, Parsing
    <3> QED
      BY <2>1, <3>1, EqualSeqs
  <2>4. ~Head(Rest).payload
    BY <1>2, <2>1, <2>2 DEF Trailer
  <2>5. AllNul(Tail(Rest))
    <3>1. Rest = SubSeq(newcInput, newcOffset + 1, Len(newcInput))
      BY DEF Rest
    <3>2. Tail(Rest) = SubSeq(newcInput, newcOffset + 2, Len(newcInput))
      <4>1. PICK S : newcInput \in Seq(S)
        BY <1>1 DEF IsSeq
      <4>2. newcOffset + 1 \in 1 .. Len(newcInput) /\ Len(newcInput) \in newcOffset + 1 .. Len(newcInput)
            /\ (newcOffset + 1) + 1 = newcOffset + 2
        BY <1>1
      <4> DEFINE m == newcOffset + 1
                 l == Len(newcInput)
      <4> HIDE DEF m, l
      <4>3. Tail(SubSeq(newcInput, m, l)) = SubSeq(newcInput, m + 1, l)
        <5>1. m \in 1 .. Len(newcInput) /\ l \in m .. Len(newcInput)
          BY <4>2 DEF m, l
        <5> QED
          BY <4>1, <5>1, HeadTailOfSubSeq
      <4> QED
        BY <3>1, <4>2, <4>3 DEF m, l
    <3>3. /\ Len(newcInput) \in Int /\ newcOffset + 2 \in Int
          /\ \A i \in newcOffset + 2 .. Len(newcInput) : newcInput[i] \in {Nul}
          /\ Len(newcInput) = newcOffset + 2
      BY <1>1, <2>1, <2>2
    <3>4. Tail(Rest) \in Seq({Nul})
      <4> DEFINE m == newcOffset + 2
                 n == Len(newcInput)
                 S == {Nul}
      <4>1. m \in Int /\ n \in Int /\ Tail(Rest) = SubSeq(newcInput, m, n)
            /\ \A i \in m .. n : newcInput[i] \in S
        BY <3>2, <3>3
      <4> HIDE DEF m, n, S
      <4>2. Tail(Rest) \in Seq(S)
        BY <4>1, SubSeqProperties
      <4> QED
        BY <4>2 DEF S
    <3> QED
      BY <3>4, LenProperties, ElementOfSeq DEF AllNul
  <2> QED
    BY <2>1, <2>3, <2>4, <2>5
<1> QED
  BY <1>3, <1>4, <1>5 DEF NewcInv, newcLook

LEMMA ParseEntryInv == ASSUME NewcInv, ParseEntry PROVE NewcInv'
<1> USE DEF ParseEntry
<1>1. /\ newcOffset \in Nat /\ Len(newcInput) \in Nat /\ newcOffset < Len(newcInput)
      /\ IsSeq(newcInput) /\ newcOffset \in 0 .. Len(newcInput)
      /\ IsSeq(newcEntries) /\ Len(newcEntries) \in Nat
  BY NewcFacts, RestFacts DEF NewcInv
<1> DEFINE r == newcInput[newcOffset + 1]
<1>2. Head(Rest) = r /\ r.kind = "entry" /\ GoodEntry(r)
  <2>1. Head(Rest) = r
    BY <1>1, RestFacts
  <2>2. newcOffset + 1 \in 1 .. Len(newcInput)
    BY <1>1
  <2> QED
    BY <2>1, <2>2 DEF NewcInv, GoodEntry
<1>3. /\ IsSeq(newcEntries') /\ Len(newcEntries') = Len(newcEntries) + 1
      /\ newcEntries'[Len(newcEntries) + 1] = r
      /\ \A i \in 1 .. Len(newcEntries) : newcEntries'[i] = newcEntries[i]
  BY <1>1, <1>2, AppendFacts
<1>4. newcOffset = Len(newcEntries) /\ newcOffset' = newcOffset + 1
      /\ \A i \in 1 .. newcOffset : newcEntries[i] = newcInput[i]
  BY DEF NewcInv, Parsing
<1> HIDE DEF r
<1>5. \A i \in 1 .. newcOffset + 1 : i = newcOffset + 1 \/ i \in 1 .. newcOffset
  BY <1>1
<1>6. NewcTypeOK'
  BY <1>1, <1>3, <1>4 DEF NewcInv, NewcTypeOK, newcLook
<1>7. Parsing' /\ Accepted'
  BY <1>3, <1>4, <1>5 DEF Parsing, Accepted, r
<1>8. \A i \in 1 .. Len(newcEntries') : GoodEntry(newcEntries'[i])
  BY <1>2, <1>3, <1>4, <1>5 DEF NewcInv
<1>9. ReadBack'
  BY DEF NewcInv, ReadBack
<1> QED
  BY <1>3, <1>6, <1>7, <1>8, <1>9 DEF NewcInv, newcLook

\* A written stream is refused for its length only.
LEMMA ParseFailsInv == ASSUME NewcInv, ParseFails PROVE NewcInv'
<1> USE DEF ParseFails
<1>1. /\ newcOffset \in Nat /\ Len(newcInput) \in Nat /\ newcOffset <= Len(newcInput)
      /\ IsSeq(newcInput) /\ newcOffset \in 0 .. Len(newcInput)
  BY NewcFacts DEF NewcInv
<1>2. NewcTypeOK' /\ Parsing' /\ Accepted'
  BY DEF NewcInv, NewcTypeOK, Parsing, Accepted, newcLook
<1>3. ReadBack'
  <2> SUFFICES ASSUME newcWritten # <<>> PROVE Len(newcWritten[1]) >= MaxEntries
    BY DEF NewcInv, ReadBack
  <2> DEFINE w == newcWritten[1]
  <2>1. /\ Len(w) \in Nat /\ Len(newcInput) = Len(w) + 2
        /\ \A i \in 1 .. Len(w) : newcInput[i] = w[i]
        /\ newcInput[Len(w) + 1] = Trailer(FALSE) /\ newcInput[Len(w) + 2] = Nul
        /\ \A i \in 1 .. Len(w) : GoodEntry(w[i])
    BY WrittenFacts DEF NewcInv, ReadBack
  <2>2. newcOffset = Len(newcEntries) /\ \A i \in 1 .. newcOffset : newcInput[i].kind = "entry"
    BY DEF NewcInv, Parsing, GoodEntry
  <2>3. newcOffset <= Len(w)
    <3>1. Len(w) + 1 \notin 1 .. newcOffset
      BY <2>1, <2>2 DEF Trailer
    <3> QED
      BY <1>1, <2>1, <3>1
  <2>4. ~AllNul(Rest)
    <3>1. Len(w) + 1 \in newcOffset + 1 .. Len(newcInput) /\ newcInput[Len(w) + 1] # Nul
      BY <1>1, <2>1, <2>3 DEF Trailer, Nul
    <3> QED
      BY <1>1, <3>1, RestFacts
  <2>5. Head(Rest) = newcInput[newcOffset + 1]
    BY <1>1, <2>1, <2>3, RestFacts
  <2>6. newcOffset + 1 \in 1 .. Len(w) \/ newcOffset + 1 = Len(w) + 1
    BY <1>1, <2>1, <2>3
  <2>7. ~(Head(Rest).kind \in {"bad", "nul"})
        /\ ~(Head(Rest).kind = "entry" /\ Head(Rest).name \in UnsafeNames)
    BY <2>1, <2>5, <2>6 DEF GoodEntry, Trailer
  <2>8. Len(newcEntries) >= MaxEntries
    BY <2>4, <2>7
  <2> QED
    BY <1>1, <2>1, <2>2, <2>3, <2>8
<1> QED
  BY <1>2, <1>3 DEF NewcInv, newcLook

LEMMA MapIsSeq ==
  ASSUME NEW n \in Nat, NEW f, f = [i \in 1 .. n |-> f[i]]
  PROVE  IsSeq(f) /\ Len(f) = n
<1> DEFINE T == {f[i] : i \in 1 .. n}
<1>1. f \in [1 .. n -> T]
  OBVIOUS
<1> HIDE DEF T
<1> QED
  BY <1>1, SeqDef DEF IsSeq

\* A builder has changed the archive: what is left to show is that it is one.
LEMMA ChangeInv ==
  ASSUME NewcInv, NEW entries, Change(entries),
         IsSeq(entries), Len(entries) <= MaxEntries, Distinct(entries),
         \A i \in 1 .. Len(entries) : GoodEntry(entries[i])
  PROVE  NewcInv'
<1> USE DEF Change, NothingRead
<1>1. IsFiniteSet(newcSeen') /\ Cardinality(newcSeen') = 0
  BY FS_EmptySet
<1>2. NewcTypeOK'
  BY <1>1 DEF NewcInv, NewcTypeOK
<1>3. Parsing' /\ Accepted' /\ ReadBack'
  BY DEF NewcInv, Parsing, Accepted, ReadBack
<1> QED
  BY <1>1, <1>2, <1>3 DEF NewcInv

LEMMA ReplaceEntryInv ==
  ASSUME NewcInv, NEW name, NEW data, IsSeq(data), ReplaceEntry(name, data)
  PROVE  NewcInv'
<1> DEFINE n == Len(newcEntries)
           entries == [i \in DOMAIN newcEntries |->
                          IF newcEntries[i].name = name
                          THEN [newcEntries[i] EXCEPT !.data = data] ELSE newcEntries[i]]
<1>1. n \in Nat /\ DOMAIN newcEntries = 1 .. n
  BY NewcFacts
<1>2. Change(entries) /\ newcState = "ready"
  BY DEF ReplaceEntry, Change
<1>3. \A i \in 1 .. n : GoodEntry(newcEntries[i])
  BY DEF NewcInv
<1>4. \A i \in 1 .. n : GoodEntry(entries[i]) /\ entries[i].name = newcEntries[i].name
  <2> SUFFICES ASSUME NEW i \in 1 .. n
               PROVE  GoodEntry(entries[i]) /\ entries[i].name = newcEntries[i].name
    OBVIOUS
  <2> DEFINE r == newcEntries[i]
  <2>1. GoodEntry(r)
    BY <1>3
  <2>2. entries[i] = IF r.name = name THEN [r EXCEPT !.data = data] ELSE r
    BY <1>1
  <2> HIDE DEF r
  <2>3. GoodEntry([r EXCEPT !.data = data]) /\ [r EXCEPT !.data = data].name = r.name
    <3> DEFINE q == [r EXCEPT !.data = data]
    <3>1. /\ DOMAIN q = DOMAIN r
          /\ DOMAIN r = EntryFields => /\ q.data = data /\ q.name = r.name /\ q.kind = r.kind
                                       /\ q.absolute = r.absolute
      BY DEF EntryFields
    <3> HIDE DEF q
    <3>2. GoodEntry(q) /\ q.name = r.name
      BY <2>1, <3>1 DEF GoodEntry, WellFormedEntry
    <3> QED
      BY <3>2 DEF q
  <2> QED
    BY <2>1, <2>2, <2>3 DEF r
<1>5. entries = [i \in 1 .. n |-> entries[i]]
  BY <1>1
<1> HIDE DEF entries
<1>6. IsSeq(entries) /\ Len(entries) = n
  BY <1>1, <1>5, MapIsSeq
<1>7. DOMAIN entries = 1 .. n
  BY <1>6, SeqFacts
<1>8. Names(entries) = Names(newcEntries)
  BY <1>1, <1>4, <1>7 DEF Names
<1>9. Distinct(newcEntries) /\ n <= MaxEntries
  BY <1>2 DEF NewcInv, Accepted, NewcTypeOK
<1>10. Distinct(entries)
  BY <1>6, <1>8, <1>9 DEF Distinct
<1> QED
  BY <1>2, <1>4, <1>6, <1>9, <1>10, ChangeInv

LEMMA AddEntryInv ==
  ASSUME NewcInv, NEW name \in DOMAIN Additions, NEW data, IsSeq(data), AddEntry(name, data)
  PROVE  NewcInv'
<1> DEFINE entry   == File(name, TopInode + 1, data)
           entries == Append(newcEntries, entry)
<1>1. /\ Change(entries) /\ newcState = "ready"
      /\ Len(newcEntries) < MaxEntries /\ name \notin Names(newcEntries)
  BY DEF AddEntry, Change
<1>2. GoodEntry(entry) /\ entry.name = name
  <2>1. name \notin UnsafeNames /\ IsSeq(name) /\ ~HasDots(name)
    BY AdditionsAssumption, SequenceFacts
  <2>2. /\ entry.kind = "entry" /\ DOMAIN entry = EntryFields
        /\ entry.name = name /\ entry.data = data /\ entry.absolute = FALSE
    BY DEF EntryFields, File
  <2> HIDE DEF entry
  <2> QED
    BY <2>1, <2>2 DEF GoodEntry, WellFormedEntry
<1>3. /\ IsSeq(newcEntries) /\ Len(newcEntries) \in Nat /\ Distinct(newcEntries)
      /\ \A i \in 1 .. Len(newcEntries) : GoodEntry(newcEntries[i])
  BY <1>1, NewcFacts DEF NewcInv, Accepted
<1> HIDE DEF entry
<1>4. /\ IsSeq(entries) /\ Len(entries) = Len(newcEntries) + 1
      /\ entries[Len(newcEntries) + 1] = entry
      /\ \A i \in 1 .. Len(newcEntries) : entries[i] = newcEntries[i]
  BY <1>3, AppendFacts
<1>5. Distinct(entries)
  BY <1>1, <1>2, <1>3, AppendIsDistinct
<1> HIDE DEF entries
<1>6. \A i \in 1 .. Len(entries) : GoodEntry(entries[i])
  <2>1. \A i \in 1 .. Len(entries) : i \in 1 .. Len(newcEntries) \/ i = Len(newcEntries) + 1
    BY <1>3, <1>4
  <2> QED
    BY <1>2, <1>3, <1>4, <2>1
<1>7. Len(entries) <= MaxEntries
  BY <1>1, <1>3, <1>4
<1> QED
  BY <1>1, <1>4, <1>5, <1>6, <1>7, ChangeInv

LEMMA WriteArchiveInv == ASSUME NewcInv, Write PROVE NewcInv'
<1> USE DEF Write, NothingRead
<1>1. IsFiniteSet(newcSeen') /\ Cardinality(newcSeen') = 0
  BY FS_EmptySet
<1>2. CASE TopInode + 1 <= MaxInode
  <2> DEFINE w == newcEntries
             end == <<Trailer(FALSE), Nul>>
  <2>1. /\ newcInput' = w \o end /\ newcOffset' = 0 /\ newcEntries' = <<>>
        /\ newcWritten' = <<w>> /\ newcState' = "parse" /\ newcState = "ready"
        /\ newcPlain' = TRUE /\ newcResult' = "none"
    BY <1>2
  <2>2. /\ IsSeq(w) /\ Len(w) \in Nat /\ Distinct(w)
        /\ \A i \in 1 .. Len(w) : GoodEntry(w[i])
    BY <2>1, NewcFacts DEF NewcInv, Accepted
  <2>3. IsSeq(end) /\ Len(end) = 2 /\ end[1] = Trailer(FALSE) /\ end[2] = Nul
    <3>1. end \in Seq({Trailer(FALSE), Nul}) /\ Len(end) = 2 /\ end[1] = Trailer(FALSE) /\ end[2] = Nul
      OBVIOUS
    <3> QED
      BY <3>1 DEF IsSeq
  <2> HIDE DEF w, end
  <2>4. /\ IsSeq(w \o end) /\ Len(w \o end) = Len(w) + Len(end)
        /\ \A i \in 1 .. Len(w) : (w \o end)[i] = w[i]
        /\ \A i \in 1 .. Len(end) : (w \o end)[Len(w) + i] = end[i]
    <3>1. IsSeq(w) /\ IsSeq(end)
      BY <2>2, <2>3
    <3> QED
      BY <3>1, ConcatFacts
  <2>5. \A i \in 1 .. Len(w \o end) :
           (w \o end)[i].kind = "entry" => WellFormedEntry((w \o end)[i])
    <3> SUFFICES ASSUME NEW i \in 1 .. Len(w) + 2
                 PROVE  (w \o end)[i].kind = "entry" => WellFormedEntry((w \o end)[i])
      BY <2>3, <2>4
    <3>1. CASE i \in 1 .. Len(w)
      <4>1. (w \o end)[i] = w[i]
        BY <2>4, <3>1
      <4>2. GoodEntry(w[i])
        BY <2>2, <3>1
      <4> QED
        BY <4>1, <4>2 DEF GoodEntry
    <3>2. CASE i \notin 1 .. Len(w)
      <4>1. \E j \in 1 .. Len(end) : i = Len(w) + j /\ (j = 1 \/ j = 2)
        <5>1. i - Len(w) \in 1 .. 2 /\ i = Len(w) + (i - Len(w))
          BY <2>2, <3>2
        <5> QED
          BY <2>3, <5>1
      <4>2. (w \o end)[i] \in {Trailer(FALSE), Nul}
        BY <2>3, <2>4, <4>1
      <4>3. Trailer(FALSE).kind = "trailer" /\ Nul.kind = "nul"
        BY DEF Trailer, Nul
      <4>4. (w \o end)[i].kind # "entry"
        BY <4>2, <4>3
      <4> QED
        BY <4>4
    <3> QED
      BY <3>1, <3>2
  <2>6. NewcTypeOK'
    <3>1. 0 \in 0 .. Len(newcInput')
      BY <2>1, <2>2, <2>3, <2>4
    <3> QED
      BY <1>1, <2>1, <3>1, EmptyIsSeq DEF NewcTypeOK
  <2>7. Parsing' /\ Accepted'
    BY <2>1, EmptyIsSeq DEF Parsing, Accepted
  <2>8. newcWritten'[1] = w
    BY <2>1
  <2>9. ReadBack'
    BY <2>1, <2>2, <2>8 DEF ReadBack, end
  <2>10. \A i \in 1 .. Len(newcEntries') : GoodEntry(newcEntries'[i])
    BY <2>1, EmptyIsSeq
  <2>11. /\ IsSeq(newcInput') /\ IsSeq(newcEntries')
         /\ \A i \in 1 .. Len(newcInput') :
               newcInput'[i].kind = "entry" => WellFormedEntry(newcInput'[i])
    BY <2>1, <2>4, <2>5, EmptyIsSeq
  <2> HIDE DEF Write, NothingRead
  <2> QED
    BY <1>1, <2>6, <2>7, <2>9, <2>10, <2>11 DEF NewcInv
<1>3. CASE ~(TopInode + 1 <= MaxInode)
  <2>1. NewcTypeOK' /\ Parsing' /\ Accepted' /\ ReadBack'
    BY <1>1, <1>3 DEF NewcInv, NewcTypeOK, Parsing, Accepted, ReadBack
  <2> QED
    BY <1>1, <1>3, <2>1 DEF NewcInv
<1> QED
  BY <1>2, <1>3

\* Reading changes neither the archive nor what it came from.
LEMMA ReadInv ==
  ASSUME NewcInv, newcState \in {"ready", "read"}, newcState' \in {"ready", "read"},
         UNCHANGED <<newcInput, newcOffset, newcEntries, newcWritten>>,
         newcResult' \in {"none", "found", "lacks", "loop", "escape", "depth"},
         newcPlain' \in BOOLEAN, IsFiniteSet(newcSeen'), Cardinality(newcSeen') <= Steps
  PROVE  NewcInv'
<1>1. NewcTypeOK' /\ Parsing' /\ Accepted' /\ ReadBack'
  BY DEF NewcInv, NewcTypeOK, Parsing, Accepted, ReadBack
<1> QED
  BY <1>1 DEF NewcInv

LEMMA LookInv ==
  ASSUME NewcInv, ReadTurn \/ \E n \in Names(newcEntries) : ReadFrom(n)
  PROVE  NewcInv'
<1>1. ASSUME NEW n \in Names(newcEntries), ReadFrom(n) PROVE NewcInv'
  <2>1. IsFiniteSet(newcSeen') /\ Cardinality(newcSeen') = 0
    BY <1>1, FS_EmptySet DEF ReadFrom, NothingRead
  <2>2. newcPlain' \in BOOLEAN
    BY <1>1 DEF ReadFrom, NothingRead, ThroughDirectories
  <2>3. Cardinality(newcSeen') <= Steps
    BY <2>1
  <2> QED
    BY <1>1, <2>1, <2>2, <2>3, ReadInv DEF ReadFrom, NothingRead
<1>2. ASSUME ReadTurn PROVE NewcInv'
  <2>1. ASSUME NEW result \in {"found", "lacks", "loop", "escape", "depth"}, ReadEnds(result),
               newcState = "read"
        PROVE  NewcInv'
    BY <2>1, ReadInv DEF ReadEnds, NewcInv, NewcTypeOK
  <2>2. ASSUME newcState = "read", ~(Cardinality(newcSeen) >= Steps),
               newcSeen' = newcSeen \cup {newcName},
               newcPlain' \in BOOLEAN,
               UNCHANGED <<newcInput, newcOffset, newcEntries, newcWritten, newcState, newcResult>>
        PROVE  NewcInv'
    <3>1. IsFiniteSet(newcSeen) /\ Cardinality(newcSeen) \in Nat
      BY FS_CardinalityType DEF NewcInv
    <3>2. /\ IsFiniteSet(newcSeen')
          /\ Cardinality(newcSeen') = IF newcName \in newcSeen THEN Cardinality(newcSeen)
                                      ELSE Cardinality(newcSeen) + 1
      BY <2>2, <3>1, FS_AddElement
    <3>3. Cardinality(newcSeen') <= Steps
      BY <2>2, <3>1, <3>2
    <3> QED
      BY <2>2, <3>2, <3>3, ReadInv DEF NewcInv, NewcTypeOK
  <2>3. newcState = "read"
    BY <1>2 DEF ReadTurn
  <2>4. CASE \E result \in {"found", "lacks", "loop", "escape", "depth"} : ReadEnds(result)
    BY <2>1, <2>3, <2>4
  <2>5. CASE ~ \E result \in {"found", "lacks", "loop", "escape", "depth"} : ReadEnds(result)
    <3>1. /\ ~(Cardinality(newcSeen) >= Steps) /\ newcSeen' = newcSeen \cup {newcName}
          /\ UNCHANGED <<newcInput, newcOffset, newcEntries, newcWritten, newcState, newcResult>>
      BY <1>2, <2>5 DEF ReadTurn
    <3>2. newcPlain' \in BOOLEAN
      BY <1>2, <2>5 DEF ReadTurn, ThroughDirectories
    <3> QED
      BY <2>2, <2>3, <3>1, <3>2
  <2> QED
    BY <2>4, <2>5
<1> QED
  BY <1>1, <1>2

LEMMA NewcSpecInv == NewcSpec => []NewcInv
<1>1. NewcInv /\ NewcNext => NewcInv'
  <2>1. ASSUME NewcInv, NEW n \in DOMAIN Additions, AddEntry(n, Additions[n]) PROVE NewcInv'
    <3>1. IsSeq(Additions[n])
      BY AdditionsAssumption, SequenceFacts
    <3> QED
      BY <2>1, <3>1, AddEntryInv
  <2>2. ASSUME NewcInv, NEW n \in Replaced, ReplaceEntry(n, <<"replaced">>) PROVE NewcInv'
    <3>1. IsSeq(<<"replaced">>)
      <4>1. <<"replaced">> \in Seq({"replaced"})
        OBVIOUS
      <4> QED
        BY <4>1 DEF IsSeq
    <3> QED
      BY <2>2, <3>1, ReplaceEntryInv
  <2> QED
    BY <2>1, <2>2, ParseTrailerInv, ParseEntryInv, ParseFailsInv, WriteArchiveInv, LookInv
       DEF NewcNext
<1>2. NewcInv /\ UNCHANGED newcVars => NewcInv'
  <2> SUFFICES ASSUME NewcInv, UNCHANGED newcVars PROVE NewcInv'
    OBVIOUS
  <2> USE DEF newcVars, newcLook
  <2>1. NewcTypeOK' /\ Parsing' /\ Accepted' /\ ReadBack'
    BY DEF NewcInv, NewcTypeOK, Parsing, Accepted, ReadBack
  <2> QED
    BY <2>1 DEF NewcInv
<1> QED
  BY <1>1, <1>2, NewcInitInv, PTL DEF NewcSpec

\* No more entries than the limit are taken in, and read follows no more links than
\* its own.
THEOREM NewcTypeCorrect == NewcSpec => []NewcTypeOK
<1>1. NewcInv => NewcTypeOK
  BY DEF NewcInv
<1> QED
  BY <1>1, NewcSpecInv, PTL

\* The first records of the stream.
LEMMA PrefixFacts ==
  ASSUME IsSeq(newcInput), newcOffset \in 0 .. Len(newcInput),
         newcEntries = SubSeq(newcInput, 1, newcOffset)
  PROVE  /\ IsSeq(newcEntries) /\ Len(newcEntries) = newcOffset
         /\ DOMAIN newcEntries = 1 .. newcOffset
         /\ \A i \in 1 .. newcOffset : newcEntries[i] = newcInput[i]
<1> DEFINE n == newcOffset
<1>1. PICK S : newcInput \in Seq(S)
  BY DEF IsSeq
<1>2. n \in Nat /\ \A i \in 1 .. n : newcInput[i] \in S
  <2>1. Len(newcInput) \in Nat
    BY <1>1, LenProperties
  <2>2. n \in Nat /\ \A i \in 1 .. n : i \in 1 .. Len(newcInput)
    BY <2>1
  <2> QED
    BY <1>1, <2>2, ElementOfSeq
<1>3. 1 \in Int /\ n \in Int /\ newcEntries = SubSeq(newcInput, 1, n)
  BY <1>2
<1> HIDE DEF n
<1>4. /\ newcEntries \in Seq(S)
      /\ Len(newcEntries) = IF 1 <= n THEN n - 1 + 1 ELSE 0
      /\ \A i \in 1 .. n - 1 + 1 : newcEntries[i] = newcInput[1 + i - 1]
  BY <1>2, <1>3, SubSeqProperties
<1>5. Len(newcEntries) = n /\ n - 1 + 1 = n /\ \A i \in 1 .. n : 1 + i - 1 = i
  BY <1>2, <1>4
<1>6. \A i \in 1 .. n : newcEntries[i] = newcInput[i]
  BY <1>4, <1>5
<1>7. IsSeq(newcEntries) /\ DOMAIN newcEntries = 1 .. n
  BY <1>4, <1>5, LenProperties DEF IsSeq
<1> QED
  BY <1>5, <1>6, <1>7 DEF n

\* As many names as entries: no two entries have the same.
LEMMA OncePerName ==
  ASSUME NEW s, IsSeq(s), Distinct(s)
  PROVE  \A i, j \in 1 .. Len(s) : s[i].name = s[j].name => i = j
<1> DEFINE index == 1 .. Len(s)
           f     == [i \in index |-> s[i].name]
<1>1. Len(s) \in Nat /\ DOMAIN s = index
  BY SeqFacts
<1>2. IsFiniteSet(index) /\ Cardinality(index) = Len(s)
  <2>1. 1 \in Int /\ Len(s) \in Int
    BY <1>1
  <2>2. IsFiniteSet(1 .. Len(s)) /\ Cardinality(1 .. Len(s)) = IF 1 > Len(s) THEN 0 ELSE Len(s) - 1 + 1
    BY <2>1, FS_Interval
  <2> QED
    BY <1>1, <2>2
<1>3. Names(s) = {s[i].name : i \in index}
  BY <1>1 DEF Names
<1> HIDE DEF index
<1>4. f \in Surjection(index, Names(s))
  <2>1. f \in [index -> Names(s)] /\ \A n \in Names(s) : \E i \in index : f[i] = n
    BY <1>3
  <2> QED
    BY <2>1 DEF Surjection
<1>5. IsFiniteSet(Names(s)) /\ Cardinality(index) = Cardinality(Names(s))
  BY <1>2, NamesFacts DEF Distinct
<1>6. f \in Injection(index, Names(s))
  <2> HIDE DEF f
  <2> QED
    BY <1>2, <1>4, <1>5, FS_SurjSameCardinalityImpliesInj
<1>7. \A i, j \in index : f[i] = f[j] => i = j
  BY <1>6 DEF Injection, IsInjective
<1> QED
  BY <1>7 DEF index

\* A stream of any length that is accepted holds what was audited and nothing
\* more for the kernel to unpack over it.
THEOREM Audits == NewcSpec => []AuditsWhatIsUnpacked
<1>1. NewcInv => AuditsWhatIsUnpacked
  <2> SUFFICES ASSUME NewcInv, newcState \in {"ready", "read"},
                      newcEntries = SubSeq(newcInput, 1, newcOffset)
               PROVE  Distinct(newcEntries) /\ Unpacked = ByName(newcEntries)
    BY DEF AuditsWhatIsUnpacked
  <2> DEFINE n == newcOffset
             records   == {i \in DOMAIN newcInput : newcInput[i].kind = "entry"}
             Of(m)     == {i \in DOMAIN newcInput :
                              newcInput[i].kind = "entry" /\ newcInput[i].name = m}
             Latest(m) == CHOOSE i \in Of(m) : \A j \in Of(m) : j <= i
             Chosen(m)  == CHOOSE i \in DOMAIN newcEntries :
                              /\ newcEntries[i].name = m
                              /\ \A j \in i + 1 .. Len(newcEntries) : newcEntries[j].name # m
  <2>1. /\ Distinct(newcEntries)
        /\ \A i \in 1 .. n : newcInput[i].kind = "entry"
        /\ \A i \in n + 1 .. Len(newcInput) : newcInput[i].kind # "entry"
    BY DEF NewcInv, Accepted
  <2>2. /\ n \in Nat /\ Len(newcInput) \in Nat /\ n <= Len(newcInput)
        /\ DOMAIN newcInput = 1 .. Len(newcInput) /\ IsSeq(newcInput)
    <3>1. IsSeq(newcInput) /\ newcOffset \in 0 .. Len(newcInput)
      BY NewcFacts DEF NewcInv
    <3>2. Len(newcInput) \in Nat /\ DOMAIN newcInput = 1 .. Len(newcInput)
      BY <3>1, SeqFacts
    <3> QED
      BY <3>1, <3>2
  <2>3. /\ IsSeq(newcEntries) /\ Len(newcEntries) = n /\ DOMAIN newcEntries = 1 .. n
        /\ \A i \in 1 .. n : newcEntries[i] = newcInput[i]
    BY <2>2, PrefixFacts
  <2>4. records = 1 .. n
    BY <2>1, <2>2
  <2>5. \A m : Of(m) = {i \in 1 .. n : newcInput[i].name = m}
    BY <2>1, <2>2
  <2>6. Names(newcEntries) = {newcInput[i].name : i \in records}
    BY <2>3, <2>4 DEF Names
  <2>7. ASSUME NEW m \in Names(newcEntries) PROVE newcEntries[Chosen(m)] = newcInput[Latest(m)]
    <3>1. PICK k \in 1 .. n : newcEntries[k].name = m
      BY <2>3 DEF Names
    <3>2. \A i \in 1 .. n : newcEntries[i].name = m => i = k
      BY <2>1, <2>3, <3>1, OncePerName
    <3>3. Of(m) = {k}
      <4>1. Of(m) = {i \in 1 .. n : newcInput[i].name = m}
        BY <2>5
      <4>2. \A i \in 1 .. n : newcInput[i].name = m <=> i = k
        BY <2>3, <3>1, <3>2
      <4> HIDE DEF Of
      <4> QED
        BY <4>1, <4>2
    <3>4. Latest(m) = k
      <4>1. k <= k
        BY <2>2
      <4>2. Latest(m) = CHOOSE i \in {k} : \A j \in {k} : j <= i
        BY <3>3
      <4>3. Latest(m) \in {k}
        <5> HIDE DEF Latest
        <5> QED
          BY <4>1, <4>2
      <4> QED
        BY <4>3
    <3>5. Chosen(m) = k
      <4>1. \A j \in k + 1 .. n : j \in 1 .. n /\ j # k
        BY <2>2
      <4>2. \A j \in k + 1 .. Len(newcEntries) : newcEntries[j].name # m
        BY <2>3, <3>2, <4>1
      <4>3. \A i \in 1 .. n :
               newcEntries[i].name = m
                   /\ (\A j \in i + 1 .. Len(newcEntries) : newcEntries[j].name # m) <=> i = k
        BY <3>1, <3>2, <4>2
      <4> QED
        BY <2>3, <4>3
    <3> HIDE DEF Latest, Chosen
    <3> QED
      BY <2>3, <3>4, <3>5
  <2>8. Unpacked = [m \in Names(newcEntries) |-> newcInput[Latest(m)]]
    BY <2>6 DEF Unpacked
  <2>9. ByName(newcEntries) = [m \in Names(newcEntries) |-> newcEntries[Chosen(m)]]
    BY DEF ByName
  <2> HIDE DEF Latest, Chosen
  <2> QED
    BY <2>1, <2>7, <2>8, <2>9
<1> QED
  BY <1>1, NewcSpecInv, PTL

\* An archive of any size that a builder has changed and written is parsed again
\* as it is, unless the trailer is one record too many.
THEOREM ReadsBack == NewcSpec => []WrittenIsReadBack
<1>1. NewcInv => WrittenIsReadBack
  BY DEF NewcInv, ReadBack, WrittenIsReadBack
<1> QED
  BY <1>1, NewcSpecInv, PTL
-------------------------------------------------------------------------------
(***************************************************************************)
(* read and the kernel's walk.  While read goes through real directories,  *)
(* the walk is, after some number of steps, about to look up the name read *)
(* looks up next, and has been so at every link read has seen: at a link   *)
(* twice, it goes in a circle; at anything else it ends, and soon enough.  *)
(***************************************************************************)
\* A set of numbers that holds 0 and the successor of each of its own has them all.
LEMMA Induction ==
  ASSUME NEW S, 0 \in S, \A n \in Nat : n \in S => n + 1 \in S
  PROVE  \A n \in Nat : n \in S
<1> DEFINE out == {n \in Nat : n \notin S}
<1>1. ASSUME out # {} PROVE FALSE
  <2>1. out \in SUBSET Nat
    OBVIOUS
  <2>2. PICK x \in out : \A y \in out : x <= y
    BY <1>1, <2>1, LeastOf
  <2>3. x \in Nat /\ x \notin S /\ x # 0
    OBVIOUS
  <2>4. x - 1 \in Nat /\ (x - 1) + 1 = x /\ ~(x <= x - 1)
    BY <2>3
  <2>5. x - 1 \in S
    BY <2>2, <2>4
  <2> QED
    BY <2>3, <2>4, <2>5
<1> QED
  BY <1>1

\* A finite set of numbers has a largest.
LEMMA LargestOf ==
  ASSUME NEW T \in SUBSET Nat, IsFiniteSet(T), T # {}
  PROVE  Largest(T) \in T /\ \A x \in T : x <= Largest(T)
<1> DEFINE Has(U) == U # {} => \E m \in U : \A x \in U : x <= m
           S == {n \in Nat : \A U \in SUBSET Nat :
                    IsFiniteSet(U) /\ Cardinality(U) = n => Has(U)}
<1>1. 0 \in S
  BY FS_EmptySet
<1>2. ASSUME NEW n \in Nat, n \in S PROVE n + 1 \in S
  <2> SUFFICES ASSUME NEW U \in SUBSET Nat, IsFiniteSet(U), Cardinality(U) = n + 1, U # {}
               PROVE  \E m \in U : \A x \in U : x <= m
    OBVIOUS
  <2>1. PICK e \in U : TRUE
    OBVIOUS
  <2> DEFINE V == U \ {e}
  <2>2. IsFiniteSet(V) /\ Cardinality(V) = Cardinality(U) - 1
    BY FS_RemoveElement
  <2>3. V \in SUBSET Nat /\ Cardinality(V) = n /\ e \in Nat
    BY <2>2
  <2>4. Has(V)
    BY <1>2, <2>2, <2>3
  <2>5. CASE V = {}
    <3>1. \A x \in U : x = e
      BY <2>5
    <3> QED
      BY <2>3, <3>1
  <2>6. CASE V # {}
    <3>1. PICK m \in V : \A x \in V : x <= m
      BY <2>4, <2>6
    <3>2. \A x \in U : x = e \/ x \in V
      OBVIOUS
    <3>3. CASE m <= e
      <4>1. \A x \in U : x <= e
        <5>1. ASSUME NEW x \in V PROVE x <= e
          <6>1. x \in Nat /\ m \in Nat /\ x <= m
            BY <3>1
          <6> QED
            BY <2>3, <3>3, <6>1
        <5> QED
          BY <2>3, <3>2, <5>1
      <4> QED
        BY <4>1
    <3>4. CASE ~(m <= e)
      <4>1. e <= m /\ m \in U
        BY <2>3, <3>4
      <4> QED
        BY <3>1, <3>2, <4>1
    <3> QED
      BY <3>3, <3>4
  <2> QED
    BY <2>5, <2>6
<1> HIDE DEF S
<1>3. Cardinality(T) \in Nat
  BY FS_CardinalityType
<1>4. Cardinality(T) \in S
  BY <1>1, <1>2, <1>3, Induction
<1>5. Has(T)
  BY <1>4 DEF S
<1>6. \E m \in T : \A x \in T : x <= m
  BY <1>5
<1> QED
  BY <1>6 DEF Largest

\* The part of a sequence behind its first i elements.
Behind(s, i) == SubSeq(s, i + 1, Len(s))

LEMMA BehindFacts ==
  ASSUME NEW s, IsSeq(s), NEW i \in 0 .. Len(s)
  PROVE  /\ IsSeq(Behind(s, i)) /\ Len(Behind(s, i)) = Len(s) - i
         /\ \A j \in 1 .. Len(s) - i : Behind(s, i)[j] = s[i + j]
         /\ i = Len(s) => Behind(s, i) = <<>>
         /\ i < Len(s) => /\ Behind(s, i) # <<>>
                          /\ Head(Behind(s, i)) = s[i + 1]
                          /\ Tail(Behind(s, i)) = Behind(s, i + 1)
         /\ i = Len(s) - 1 => Tail(Behind(s, i)) = <<>>
<1> DEFINE l == Len(s)
<1>1. PICK S : s \in Seq(S)
  BY DEF IsSeq
<1>2. l \in Nat /\ i \in Nat /\ i <= l /\ \A j \in i + 1 .. l : j \in 1 .. l
  BY <1>1, LenProperties
<1>3. \A j \in i + 1 .. l : s[j] \in S
  BY <1>1, <1>2, ElementOfSeq
<1>4. Behind(s, i) = SubSeq(s, i + 1, l) /\ i + 1 \in Int /\ l \in Int
  BY <1>2 DEF Behind
<1> HIDE DEF l
<1>5. /\ SubSeq(s, i + 1, l) \in Seq(S)
      /\ Len(SubSeq(s, i + 1, l)) = IF i + 1 <= l THEN l - (i + 1) + 1 ELSE 0
      /\ \A j \in 1 .. l - (i + 1) + 1 : SubSeq(s, i + 1, l)[j] = s[i + 1 + j - 1]
  BY <1>3, <1>4, SubSeqProperties
<1>6. (IF i + 1 <= l THEN l - (i + 1) + 1 ELSE 0) = l - i /\ l - (i + 1) + 1 = l - i
      /\ \A j \in 1 .. l - i : i + 1 + j - 1 = i + j
  BY <1>2
<1>7. /\ IsSeq(Behind(s, i)) /\ Len(Behind(s, i)) = l - i
      /\ \A j \in 1 .. l - i : Behind(s, i)[j] = s[i + j]
  BY <1>4, <1>5, <1>6 DEF IsSeq
<1>8. Behind(s, i) = <<>> <=> l - i = 0
  BY <1>7, SeqFacts
<1>9. ASSUME i < l
      PROVE  Head(Behind(s, i)) = s[i + 1] /\ Tail(Behind(s, i)) = Behind(s, i + 1)
  <2>1. i + 1 \in 1 .. l /\ l \in i + 1 .. l
    BY <1>2, <1>9
  <2>2. Head(SubSeq(s, i + 1, l)) = s[i + 1] /\ Tail(SubSeq(s, i + 1, l)) = SubSeq(s, i + 1 + 1, l)
    BY <1>1, <2>1, HeadTailOfSubSeq DEF l
  <2> QED
    BY <1>4, <2>2 DEF Behind, l
<1>10. ASSUME i = l - 1 PROVE Tail(Behind(s, i)) = <<>>
  <2>1. i < l /\ l < i + 1 + 1 /\ i + 1 + 1 \in Int /\ l \in Int
    BY <1>2, <1>10
  <2>2. SubSeq(s, i + 1 + 1, l) = <<>>
    BY <2>1, SubSeqEmpty
  <2> QED
    BY <1>9, <2>1, <2>2 DEF Behind, l
<1>11. (l - i = 0 <=> i = l) /\ (i < l => l - i # 0)
  BY <1>2
<1> QED
  BY <1>7, <1>8, <1>9, <1>10, <1>11 DEF l

\* A name without its last component, and with one more.
LEMMA ParentFacts ==
  ASSUME NEW n, IsSeq(n), n # <<>>
  PROVE  /\ Len(n) \in Nat \ {0} /\ IsSeq(Parent(n)) /\ Len(Parent(n)) = Len(n) - 1
         /\ \A j \in 1 .. Len(n) - 1 : Parent(n)[j] = n[j]
         /\ Append(Parent(n), n[Len(n)]) = n
<1> DEFINE l == Len(n)
<1>1. PICK S : n \in Seq(S)
  BY DEF IsSeq
<1>2. l \in Nat \ {0}
  BY SeqFacts
<1>3. \A j \in 1 .. l - 1 : j \in 1 .. l
  BY <1>2
<1>4. \A j \in 1 .. l - 1 : n[j] \in S
  BY <1>1, <1>3, ElementOfSeq
<1>5. Parent(n) = SubSeq(n, 1, l - 1) /\ 1 \in Int /\ l - 1 \in Int
  BY <1>2 DEF Parent
<1> HIDE DEF l
<1>6. /\ SubSeq(n, 1, l - 1) \in Seq(S)
      /\ Len(SubSeq(n, 1, l - 1)) = IF 1 <= l - 1 THEN l - 1 - 1 + 1 ELSE 0
      /\ \A j \in 1 .. l - 1 - 1 + 1 : SubSeq(n, 1, l - 1)[j] = n[1 + j - 1]
  BY <1>4, <1>5, SubSeqProperties
<1>7. (IF 1 <= l - 1 THEN l - 1 - 1 + 1 ELSE 0) = l - 1 /\ l - 1 - 1 + 1 = l - 1
      /\ \A j \in 1 .. l - 1 : 1 + j - 1 = j
  BY <1>2
<1>8. /\ IsSeq(Parent(n)) /\ Len(Parent(n)) = l - 1
      /\ \A j \in 1 .. l - 1 : Parent(n)[j] = n[j]
  BY <1>5, <1>6, <1>7 DEF IsSeq
<1>9. Append(Parent(n), n[l]) = n
  <2> DEFINE p == Parent(n)
             a == Append(p, n[l])
  <2> HIDE DEF p
  <2>1. IsSeq(p) /\ Len(p) = l - 1 /\ \A j \in 1 .. l - 1 : p[j] = n[j]
    BY <1>8 DEF p
  <2>2. /\ IsSeq(a) /\ Len(a) = Len(p) + 1 /\ a[Len(p) + 1] = n[l]
        /\ \A j \in 1 .. Len(p) : a[j] = p[j]
    BY <2>1, AppendFacts
  <2> HIDE DEF a
  <2>3. \A j \in 1 .. l : j = l \/ j \in 1 .. l - 1
    BY <1>2
  <2>4. Len(a) = l /\ Len(p) + 1 = l
    BY <1>2, <2>1, <2>2
  <2>5. \A j \in 1 .. l : a[j] = n[j]
    BY <2>1, <2>2, <2>3, <2>4
  <2>6. a = n
    BY <2>2, <2>4, <2>5, EqualSeqs DEF l
  <2> QED
    BY <2>6 DEF a, p
<1> QED
  BY <1>2, <1>8, <1>9 DEF l

LEMMA ParentOfAppend ==
  ASSUME NEW s, IsSeq(s), NEW e
  PROVE  Append(s, e) # <<>> /\ Parent(Append(s, e)) = s
<1> DEFINE a == Append(s, e)
<1>1. /\ IsSeq(a) /\ Len(a) = Len(s) + 1 /\ \A j \in 1 .. Len(s) : a[j] = s[j]
      /\ Len(s) \in Nat
  BY AppendFacts, SeqFacts
<1> HIDE DEF a
<1>2. a # <<>>
  BY <1>1, SeqFacts
<1>3. /\ IsSeq(Parent(a)) /\ Len(Parent(a)) = Len(a) - 1
      /\ \A j \in 1 .. Len(a) - 1 : Parent(a)[j] = a[j]
  BY <1>1, <1>2, ParentFacts
<1>4. Len(a) - 1 = Len(s)
  BY <1>1
<1>5. Parent(a) = s
  BY <1>1, <1>3, <1>4, EqualSeqs
<1> QED
  BY <1>2, <1>5 DEF a
-------------------------------------------------------------------------------
(***************************************************************************)
(* Along and Walk: there is such a function, on the first numbers and then *)
(* on all of them, and each of its values is that of the one before.       *)
(***************************************************************************)

Within(parts) == [inside |-> TRUE, parts |-> parts]
Beyond(parts) == [inside |-> FALSE, parts |-> parts]

LEMMA AlongUnfolds ==
  ASSUME NEW c, Len(c) \in Nat
  PROVE  /\ Along(c)[0] = Within(<<>>)
         /\ \A i \in 1 .. Len(c) : Along(c)[i] = Enter(Along(c)[i - 1], c[i])
<1> DEFINE Next(f, i) == IF i = 0 THEN [inside |-> TRUE, parts |-> <<>>] ELSE Enter(f[i - 1], c[i])
           Eq(n, f) == f = [i \in 0 .. n |-> Next(f, i)]
           S == {n \in Nat : \E f : Eq(n, f)}
<1>1. 0 \in S
  <2> DEFINE f == [i \in 0 .. 0 |-> Within(<<>>)]
  <2>1. Eq(0, f)
    BY DEF Within, Beyond
  <2> QED
    BY <2>1
<1>2. ASSUME NEW n \in Nat, n \in S PROVE n + 1 \in S
  <2>1. PICK f : Eq(n, f)
    BY <1>2
  <2> DEFINE g == [i \in 0 .. n + 1 |-> Next(f, i)]
  <2>2. ASSUME NEW i \in 0 .. n PROVE g[i] = f[i]
    <3>1. i \in 0 .. n + 1
      OBVIOUS
    <3>2. g[i] = Next(f, i)
      BY <3>1
    <3>3. f[i] = Next(f, i)
      BY <2>1
    <3> QED
      BY <3>2, <3>3
  <2>3. ASSUME NEW i \in 0 .. n + 1 PROVE Next(f, i) = Next(g, i)
    <3>1. i # 0 => i - 1 \in 0 .. n
      OBVIOUS
    <3>2. i # 0 => g[i - 1] = f[i - 1]
      BY <2>2, <3>1
    <3> HIDE DEF g
    <3> QED
      BY <3>2
  <2>4. g = [i \in 0 .. n + 1 |-> Next(f, i)]
    OBVIOUS
  <2> HIDE DEF g
  <2>5. Eq(n + 1, g)
    BY <2>3, <2>4
  <2> QED
    BY <2>5
<1> HIDE DEF S
<1>3. Len(c) \in S
  BY <1>1, <1>2, Induction
<1>4. \E f : Eq(Len(c), f)
  BY <1>3 DEF S
<1>5. Along(c) = CHOOSE f : Eq(Len(c), f)
  BY DEF Along
<1>6. Eq(Len(c), Along(c))
  <2> HIDE DEF Eq
  <2> QED
    BY <1>4, <1>5
<1>7. ASSUME NEW i \in 0 .. Len(c) PROVE Along(c)[i] = Next(Along(c), i)
  BY <1>6
<1>8. Along(c)[0] = Within(<<>>)
  <2>1. 0 \in 0 .. Len(c)
    OBVIOUS
  <2> QED
    BY <1>7, <2>1 DEF Within, Beyond
<1>9. ASSUME NEW i \in 1 .. Len(c) PROVE Along(c)[i] = Enter(Along(c)[i - 1], c[i])
  <2>1. i \in 0 .. Len(c) /\ i # 0
    OBVIOUS
  <2> QED
    BY <1>7, <2>1
<1> QED
  BY <1>8, <1>9

Walking(at, todo) == [at |-> at, todo |-> todo, lost |-> FALSE]

LEMMA WalkUnfolds ==
  ASSUME NEW tree, NEW name
  PROVE  /\ Walk(tree, name)[0] = Walking(<<>>, name)
         /\ \A k \in Nat : Walk(tree, name)[k + 1] = WalkStep(tree, Walk(tree, name)[k])
<1> DEFINE Next(f, k) == IF k = 0 THEN [at |-> <<>>, todo |-> name, lost |-> FALSE]
                         ELSE WalkStep(tree, f[k - 1])
           Eq(n, f) == f = [k \in 0 .. n |-> Next(f, k)]
           S == {n \in Nat : \E f : Eq(n, f)}
<1>1. 0 \in S
  <2> DEFINE f == [k \in 0 .. 0 |-> Walking(<<>>, name)]
  <2>1. Eq(0, f)
    BY DEF Walking
  <2> QED
    BY <2>1
<1>2. ASSUME NEW n \in Nat, n \in S PROVE n + 1 \in S
  <2>1. PICK f : Eq(n, f)
    BY <1>2
  <2> DEFINE g == [k \in 0 .. n + 1 |-> Next(f, k)]
  <2>2. ASSUME NEW k \in 0 .. n PROVE g[k] = f[k]
    <3>1. k \in 0 .. n + 1
      OBVIOUS
    <3>2. g[k] = Next(f, k)
      BY <3>1
    <3>3. f[k] = Next(f, k)
      BY <2>1
    <3> QED
      BY <3>2, <3>3
  <2>3. ASSUME NEW k \in 0 .. n + 1 PROVE Next(f, k) = Next(g, k)
    <3>1. k # 0 => k - 1 \in 0 .. n
      OBVIOUS
    <3>2. k # 0 => g[k - 1] = f[k - 1]
      BY <2>2, <3>1
    <3> HIDE DEF g
    <3> QED
      BY <3>2
  <2>4. g = [k \in 0 .. n + 1 |-> Next(f, k)]
    OBVIOUS
  <2> HIDE DEF g
  <2>5. Eq(n + 1, g)
    BY <2>3, <2>4
  <2> QED
    BY <2>5
<1> HIDE DEF S
<1>3. \A n \in Nat : \E f : Eq(n, f)
  <2>1. \A n \in Nat : n \in S
    BY <1>1, <1>2, Induction
  <2> QED
    BY <2>1 DEF S
\* Two of them agree as far as both go.
<1> DEFINE Agree == {k \in Nat : \A m, n \in Nat : \A f, g :
                        k <= m /\ k <= n /\ Eq(m, f) /\ Eq(n, g) => f[k] = g[k]}
<1>4. ASSUME NEW n \in Nat, NEW f, Eq(n, f), NEW k \in 0 .. n PROVE f[k] = Next(f, k)
  BY <1>4
<1>5. 0 \in Agree
  <2>1. ASSUME NEW n \in Nat, NEW f, Eq(n, f) PROVE f[0] = Walking(<<>>, name)
    <3>1. f[0] = Next(f, 0)
      BY <1>4, <2>1
    <3> QED
      BY <3>1 DEF Walking
  <2> HIDE DEF Eq
  <2>2. \A m, n \in Nat : \A f, g : Eq(m, f) /\ Eq(n, g) => f[0] = g[0]
    BY <2>1
  <2> QED
    BY <2>2
<1>6. ASSUME NEW k \in Nat, k \in Agree PROVE k + 1 \in Agree
  <2>1. ASSUME NEW m \in Nat, NEW n \in Nat, NEW f, NEW g,
               k + 1 <= m, k + 1 <= n, Eq(m, f), Eq(n, g)
        PROVE  f[k + 1] = g[k + 1]
    <3>1. f[k] = g[k]
      <4>1. k <= m /\ k <= n
        BY <2>1
      <4> HIDE DEF Eq
      <4> QED
        BY <1>6, <2>1, <4>1
    <3>2. k + 1 \in 0 .. m /\ k + 1 \in 0 .. n /\ k + 1 # 0 /\ (k + 1) - 1 = k
      BY <2>1
    <3>3. f[k + 1] = Next(f, k + 1) /\ g[k + 1] = Next(g, k + 1)
      <4> HIDE DEF Next, Eq
      <4> QED
        BY <1>4, <2>1, <3>2
    <3>4. Next(f, k + 1) = WalkStep(tree, f[k]) /\ Next(g, k + 1) = WalkStep(tree, g[k])
      BY <3>2
    <3> HIDE DEF Next
    <3> QED
      BY <3>1, <3>3, <3>4
  <2> HIDE DEF Eq
  <2> QED
    BY <2>1
<1> HIDE DEF Agree
<1>7. \A k \in Nat : k \in Agree
  BY <1>5, <1>6, Induction
<1>8. ASSUME NEW k \in Nat, NEW n \in Nat, NEW f, NEW g, k <= n, Eq(k, f), Eq(n, g)
      PROVE  f[k] = g[k]
  <2>1. k \in Agree /\ k <= k
    BY <1>7
  <2> HIDE DEF Eq
  <2> QED
    BY <1>8, <2>1 DEF Agree
<1> HIDE DEF Eq
<1> DEFINE To(k) == CHOOSE f : Eq(k, f)
           walk  == [k \in Nat |-> To(k)[k]]
<1>9. \A k \in Nat : Eq(k, To(k))
  BY <1>3
<1> HIDE DEF To
<1>10. ASSUME NEW k \in Nat PROVE walk[k + 1] = WalkStep(tree, walk[k])
  <2>1. k + 1 \in Nat /\ k <= k + 1 /\ k + 1 \in 0 .. k + 1 /\ k + 1 # 0 /\ (k + 1) - 1 = k
    OBVIOUS
  <2>2. To(k)[k] = To(k + 1)[k]
    BY <1>8, <1>9, <2>1
  <2>3. To(k + 1)[k + 1] = Next(To(k + 1), k + 1)
    <3> HIDE DEF Next
    <3> QED
      BY <1>4, <1>9, <2>1
  <2>4. To(k + 1)[k + 1] = WalkStep(tree, To(k + 1)[k])
    BY <2>1, <2>3
  <2>5. walk[k] = To(k)[k] /\ walk[k + 1] = To(k + 1)[k + 1]
    BY <2>1
  <2> HIDE DEF walk
  <2> QED
    BY <2>2, <2>4, <2>5
<1>11. walk[0] = Walking(<<>>, name)
  <2>1. 0 \in Nat /\ 0 \in 0 .. 0
    OBVIOUS
  <2>2. To(0)[0] = Next(To(0), 0)
    <3> HIDE DEF Next
    <3> QED
      BY <1>4, <1>9, <2>1
  <2>3. walk[0] = To(0)[0]
    BY <2>1
  <2> HIDE DEF walk
  <2> QED
    BY <2>2, <2>3 DEF Walking
<1> DEFINE Whole(f) == f = [k \in Nat |-> Next(f, k)]
<1>12. Whole(walk)
  <2>1. ASSUME NEW k \in Nat PROVE walk[k] = Next(walk, k)
    <3>1. CASE k = 0
      BY <1>11, <3>1 DEF Walking
    <3>2. CASE k # 0
      <4>1. k - 1 \in Nat /\ (k - 1) + 1 = k
        BY <3>2
      <4>2. walk[(k - 1) + 1] = WalkStep(tree, walk[k - 1])
        BY <1>10, <4>1
      <4> HIDE DEF walk
      <4> QED
        BY <3>2, <4>1, <4>2
    <3> QED
      BY <3>1, <3>2
  <2>2. walk = [k \in Nat |-> walk[k]]
    OBVIOUS
  <2> HIDE DEF walk, Next
  <2> QED
    BY <2>1, <2>2
<1>13. Walk(tree, name) = CHOOSE f : Whole(f)
  BY DEF Walk
<1>14. Whole(Walk(tree, name))
  <2> HIDE DEF Whole, walk
  <2> QED
    BY <1>12, <1>13
<1>15. ASSUME NEW k \in Nat PROVE Walk(tree, name)[k] = Next(Walk(tree, name), k)
  BY <1>14
<1>16. Walk(tree, name)[0] = Walking(<<>>, name)
  <2>1. Walk(tree, name)[0] = Next(Walk(tree, name), 0)
    BY <1>15
  <2> QED
    BY <2>1 DEF Walking
<1>17. ASSUME NEW k \in Nat PROVE Walk(tree, name)[k + 1] = WalkStep(tree, Walk(tree, name)[k])
  <2>1. k + 1 \in Nat /\ k + 1 # 0 /\ (k + 1) - 1 = k
    OBVIOUS
  <2>2. Walk(tree, name)[k + 1] = Next(Walk(tree, name), k + 1)
    BY <1>15, <2>1
  <2> QED
    BY <2>1, <2>2
<1> QED
  BY <1>16, <1>17
-------------------------------------------------------------------------------
(***************************************************************************)
(* Names, the paths along them, and single steps of the walk.              *)
(***************************************************************************)

\* A name as the archive has it.
CleanName(n) == IsSeq(n) /\ ~HasDots(n)

First(s, i) == SubSeq(s, 1, i)

LEMMA FirstFacts ==
  ASSUME NEW s, IsSeq(s), NEW i \in 0 .. Len(s)
  PROVE  /\ IsSeq(First(s, i)) /\ Len(First(s, i)) = i
         /\ \A j \in 1 .. i : First(s, i)[j] = s[j]
         /\ i = 0 => First(s, i) = <<>>
         /\ i = Len(s) => First(s, i) = s
<1> DEFINE l == Len(s)
<1>1. PICK S : s \in Seq(S)
  BY DEF IsSeq
<1>2. l \in Nat /\ i \in Nat /\ i <= l /\ \A j \in 1 .. i : j \in 1 .. l
  BY <1>1, LenProperties
<1>3. \A j \in 1 .. i : s[j] \in S
  BY <1>1, <1>2, ElementOfSeq
<1>4. First(s, i) = SubSeq(s, 1, i) /\ 1 \in Int /\ i \in Int
  BY <1>2 DEF First
<1> HIDE DEF l
<1>5. /\ SubSeq(s, 1, i) \in Seq(S)
      /\ Len(SubSeq(s, 1, i)) = IF 1 <= i THEN i - 1 + 1 ELSE 0
      /\ \A j \in 1 .. i - 1 + 1 : SubSeq(s, 1, i)[j] = s[1 + j - 1]
  BY <1>3, <1>4, SubSeqProperties
<1>6. (IF 1 <= i THEN i - 1 + 1 ELSE 0) = i /\ i - 1 + 1 = i /\ \A j \in 1 .. i : 1 + j - 1 = j
  BY <1>2
<1>7. IsSeq(First(s, i)) /\ Len(First(s, i)) = i /\ \A j \in 1 .. i : First(s, i)[j] = s[j]
  BY <1>4, <1>5, <1>6 DEF IsSeq
<1>8. i = 0 => First(s, i) = <<>>
  BY <1>7, SeqFacts
<1>9. i = l => First(s, i) = s
  BY <1>7, EqualSeqs DEF l
<1> QED
  BY <1>7, <1>8, <1>9 DEF l

LEMMA FirstGrows ==
  ASSUME NEW s, IsSeq(s), NEW i \in 1 .. Len(s)
  PROVE  Append(First(s, i - 1), s[i]) = First(s, i)
<1> DEFINE f == First(s, i - 1)
           g == First(s, i)
           a == Append(f, s[i])
<1>1. Len(s) \in Nat
  BY SeqFacts
<1>2. i - 1 \in 0 .. Len(s) /\ i \in 0 .. Len(s) /\ (i - 1) + 1 = i
      /\ \A j \in 1 .. i : j = i \/ j \in 1 .. i - 1
  BY <1>1
<1>3. IsSeq(f) /\ Len(f) = i - 1 /\ \A j \in 1 .. i - 1 : f[j] = s[j]
  BY <1>2, FirstFacts
<1>4. IsSeq(g) /\ Len(g) = i /\ \A j \in 1 .. i : g[j] = s[j]
  BY <1>2, FirstFacts
<1> HIDE DEF f, g
<1>5. IsSeq(a) /\ Len(a) = Len(f) + 1 /\ a[Len(f) + 1] = s[i] /\ \A j \in 1 .. Len(f) : a[j] = f[j]
  BY <1>3, AppendFacts
<1> HIDE DEF a
<1>6. Len(a) = i /\ \A j \in 1 .. i : a[j] = g[j]
  BY <1>2, <1>3, <1>4, <1>5
<1>7. a = g
  BY <1>4, <1>5, <1>6, EqualSeqs
<1> QED
  BY <1>7 DEF a, f, g

LEMMA CleanFacts ==
  /\ CleanName(<<>>)
  /\ \A n : CleanName(n) /\ n # <<>> => CleanName(Parent(n)) /\ n[Len(n)] \notin Dots
  /\ \A n, p : CleanName(n) /\ p \notin Dots => CleanName(Append(n, p))
<1>1. CleanName(<<>>)
  BY EmptyIsSeq, SeqFacts DEF CleanName, HasDots
<1>2. ASSUME NEW n, CleanName(n), n # <<>> PROVE CleanName(Parent(n)) /\ n[Len(n)] \notin Dots
  <2>1. /\ Len(n) \in Nat \ {0} /\ IsSeq(Parent(n)) /\ Len(Parent(n)) = Len(n) - 1
        /\ \A j \in 1 .. Len(n) - 1 : Parent(n)[j] = n[j]
        /\ DOMAIN n = 1 .. Len(n) /\ DOMAIN Parent(n) = 1 .. Len(n) - 1
    BY <1>2, ParentFacts, SeqFacts DEF CleanName
  <2>2. \A j \in 1 .. Len(n) - 1 : j \in 1 .. Len(n)
    BY <2>1
  <2>3. Len(n) \in 1 .. Len(n)
    BY <2>1
  <2> QED
    BY <1>2, <2>1, <2>2, <2>3 DEF CleanName, HasDots
<1>3. ASSUME NEW n, NEW p, CleanName(n), p \notin Dots PROVE CleanName(Append(n, p))
  <2>1. /\ IsSeq(Append(n, p)) /\ Len(Append(n, p)) = Len(n) + 1 /\ Append(n, p)[Len(n) + 1] = p
        /\ \A j \in 1 .. Len(n) : Append(n, p)[j] = n[j]
        /\ Len(n) \in Nat /\ DOMAIN n = 1 .. Len(n)
    BY <1>3, AppendFacts, SeqFacts DEF CleanName
  <2>2. DOMAIN Append(n, p) = 1 .. Len(n) + 1
    BY <2>1, SeqFacts
  <2>3. \A j \in 1 .. Len(n) + 1 : j = Len(n) + 1 \/ j \in 1 .. Len(n)
    BY <2>1
  <2> QED
    BY <1>3, <2>1, <2>2, <2>3 DEF CleanName, HasDots
<1> QED
  BY <1>1, <1>2, <1>3

LEMMA EnterFacts ==
  ASSUME NEW y, NEW p
  PROVE  /\ p = "." => Enter(Within(y), p) = Within(y)
         /\ p = ".." /\ y # <<>> => Enter(Within(y), p) = Within(Parent(y))
         /\ p = ".." /\ y = <<>> => Enter(Within(y), p) = Beyond(y)
         /\ p \notin Dots => Enter(Within(y), p) = Within(Append(y, p))
         /\ p \in Dots => Enter(Beyond(y), p) = Beyond(y)
         /\ p \notin Dots => Enter(Beyond(y), p) = Beyond(Append(y, p))
BY DEF Enter, Within, Beyond, Dots

LEMMA PathsDiffer ==
  ASSUME NEW y, NEW z
  PROVE  /\ Within(y) # Beyond(z)
         /\ Within(y) = Within(z) => y = z
         /\ Within(y).parts = y /\ Beyond(y).parts = y
         /\ Within(y).inside /\ ~Beyond(y).inside
<1>1. Within(y) = Within(z) => y = z
  <2>1. Within(y).parts = y /\ Within(z).parts = z
    BY DEF Within, Beyond
  <2> QED
    BY <2>1
<1>2. /\ Within(y).parts = y /\ Beyond(y).parts = y
      /\ Within(y).inside /\ ~Beyond(y).inside /\ ~Beyond(z).inside
  BY DEF Within, Beyond
<1> QED
  BY <1>1, <1>2

\* The path after i of the parts, when they do not leave the archive.
PathAt(c, i) == Along(c)[i].parts

LEMMA AlongFacts ==
  ASSUME NEW c, IsSeq(c)
  PROVE  \A i \in 0 .. Len(c) :
            /\ CleanName(PathAt(c, i))
            /\ Along(c)[i] = Within(PathAt(c, i)) \/ Along(c)[i] = Beyond(PathAt(c, i))
<1> DEFINE Good(i) == \E y : CleanName(y) /\ (Along(c)[i] = Within(y) \/ Along(c)[i] = Beyond(y))
           S == {i \in Nat : i <= Len(c) => Good(i)}
<1>1. Len(c) \in Nat
  BY SeqFacts
<1>2. Good(0)
  BY <1>1, AlongUnfolds, CleanFacts
<1>3. ASSUME NEW i \in Nat, Good(i), i + 1 <= Len(c) PROVE Good(i + 1)
  <2>1. i + 1 \in 1 .. Len(c) /\ (i + 1) - 1 = i
    BY <1>1, <1>3
  <2>2. PICK y : CleanName(y) /\ (Along(c)[i] = Within(y) \/ Along(c)[i] = Beyond(y))
    BY <1>3
  <2> DEFINE p == c[i + 1]
  <2>3. Along(c)[i + 1] = Enter(Along(c)[i], p)
    BY <1>1, <2>1, AlongUnfolds
  <2>4. CASE Along(c)[i] = Within(y) /\ p = ".." /\ y # <<>>
    <3>1. Along(c)[i + 1] = Within(Parent(y))
      BY <2>3, <2>4, EnterFacts
    <3> QED
      BY <2>2, <2>4, <3>1, CleanFacts
  <2>5. CASE p \notin Dots
    <3>1. \/ Along(c)[i + 1] = Within(Append(y, p))
          \/ Along(c)[i + 1] = Beyond(Append(y, p))
      BY <2>2, <2>3, <2>5, EnterFacts
    <3> QED
      BY <2>2, <2>5, <3>1, CleanFacts
  <2>6. CASE p \in Dots /\ ~(Along(c)[i] = Within(y) /\ p = ".." /\ y # <<>>)
    <3>1. Along(c)[i + 1] = Within(y) \/ Along(c)[i + 1] = Beyond(y)
      BY <2>2, <2>3, <2>6, EnterFacts DEF Dots
    <3> QED
      BY <2>2, <3>1
  <2> QED
    BY <2>4, <2>5, <2>6 DEF Dots
<1>4. \A i \in Nat : i \in S
  <2> HIDE DEF Good
  <2>1. 0 \in S
    BY <1>2
  <2>2. ASSUME NEW i \in Nat, i \in S PROVE i + 1 \in S
    BY <1>1, <1>3, <2>2
  <2> HIDE DEF S
  <2> QED
    BY <2>1, <2>2, Induction
<1>5. ASSUME NEW i \in 0 .. Len(c)
      PROVE  /\ CleanName(PathAt(c, i))
             /\ Along(c)[i] = Within(PathAt(c, i)) \/ Along(c)[i] = Beyond(PathAt(c, i))
  <2>1. Good(i)
    <3> HIDE DEF Good
    <3>1. i \in Nat /\ i <= Len(c)
      BY <1>1
    <3> QED
      BY <1>4, <3>1
  <2>2. PICK y : CleanName(y) /\ (Along(c)[i] = Within(y) \/ Along(c)[i] = Beyond(y))
    BY <2>1
  <2>3. PathAt(c, i) = y
    BY <2>2, PathsDiffer DEF PathAt
  <2> QED
    BY <2>2, <2>3
<1> QED
  BY <1>5

\* Once out of the archive, the path stays out; so one that ends inside never left.
LEMMA InsideFacts ==
  ASSUME NEW c, IsSeq(c), Normal(c).inside
  PROVE  /\ PathAt(c, 0) = <<>> /\ Normal(c).parts = PathAt(c, Len(c))
         /\ \A i \in 0 .. Len(c) : CleanName(PathAt(c, i))
         /\ \A i \in 1 .. Len(c) :
               /\ c[i] = "." => PathAt(c, i) = PathAt(c, i - 1)
               /\ c[i] = ".." => PathAt(c, i - 1) # <<>> /\ PathAt(c, i) = Parent(PathAt(c, i - 1))
               /\ c[i] \notin Dots => PathAt(c, i) = Append(PathAt(c, i - 1), c[i])
<1> DEFINE l == Len(c)
           In(i) == Along(c)[i] = Within(PathAt(c, i))
           Out(i) == Along(c)[i] = Beyond(PathAt(c, i))
           S == {j \in Nat : j <= l => In(l - j)}
<1>1. l \in Nat
  BY SeqFacts
<1>2. \A i \in 0 .. l : CleanName(PathAt(c, i)) /\ (In(i) \/ Out(i))
  BY AlongFacts
<1>3. \A i \in 1 .. l : Along(c)[i] = Enter(Along(c)[i - 1], c[i])
  BY <1>1, AlongUnfolds
<1>4. In(l)
  <2>1. l \in 0 .. l
    BY <1>1
  <2>2. In(l) \/ Out(l)
    BY <1>2, <2>1
  <2>3. ~Out(l)
    BY PathsDiffer DEF Normal
  <2> QED
    BY <2>2, <2>3
<1>5. ASSUME NEW i \in 1 .. l, In(i) PROVE In(i - 1)
  <2>1. i - 1 \in 0 .. l
    BY <1>1
  <2>2. In(i - 1) \/ Out(i - 1)
    BY <1>2, <2>1
  <2>3. ASSUME Out(i - 1) PROVE FALSE
    <3>1. Along(c)[i] = Enter(Beyond(PathAt(c, i - 1)), c[i])
      BY <1>3, <2>3
    <3>2. PICK z : Along(c)[i] = Beyond(z)
      BY <3>1, EnterFacts
    <3>3. Within(PathAt(c, i)) = Beyond(z)
      BY <1>5, <3>2
    <3> QED
      BY <3>3, PathsDiffer
  <2> QED
    BY <2>2, <2>3
<1>6. \A j \in Nat : j \in S
  <2> HIDE DEF In
  <2>1. 0 \in S
    <3>1. l - 0 = l
      BY <1>1
    <3> QED
      BY <1>4, <3>1
  <2>2. ASSUME NEW j \in Nat, j \in S, j + 1 <= l PROVE In(l - (j + 1))
    <3>1. l - j \in 1 .. l /\ (l - j) - 1 = l - (j + 1) /\ j <= l
      BY <1>1, <2>2
    <3>2. In(l - j)
      BY <2>2, <3>1
    <3>3. In((l - j) - 1)
      BY <1>5, <3>1, <3>2
    <3> QED
      BY <3>1, <3>3
  <2>3. ASSUME NEW j \in Nat, j \in S PROVE j + 1 \in S
    BY <2>2, <2>3
  <2> HIDE DEF S
  <2> QED
    BY <2>1, <2>3, Induction
<1>7. ASSUME NEW i \in 0 .. l PROVE In(i)
  <2> HIDE DEF In
  <2>1. l - i \in Nat /\ l - i <= l /\ l - (l - i) = i
    BY <1>1
  <2>2. In(l - (l - i))
    BY <1>6, <2>1
  <2> QED
    BY <2>1, <2>2
<1>8. ASSUME NEW i \in 1 .. l
      PROVE  /\ c[i] = "." => PathAt(c, i) = PathAt(c, i - 1)
             /\ c[i] = ".." => PathAt(c, i - 1) # <<>> /\ PathAt(c, i) = Parent(PathAt(c, i - 1))
             /\ c[i] \notin Dots => PathAt(c, i) = Append(PathAt(c, i - 1), c[i])
  <2>1. i - 1 \in 0 .. l /\ i \in 0 .. l
    BY <1>1
  <2>2. Along(c)[i] = Within(PathAt(c, i)) /\ Along(c)[i - 1] = Within(PathAt(c, i - 1))
    BY <1>7, <2>1
  <2> DEFINE y == PathAt(c, i - 1)
             z == PathAt(c, i)
             p == c[i]
  <2>3. Within(z) = Enter(Within(y), c[i])
    BY <1>3, <2>2
  <2> HIDE DEF y, z, p
  <2>4. Within(z) = Enter(Within(y), p)
    BY <2>3 DEF p
  <2>5. ASSUME p = "." PROVE z = y
    <3>1. Within(z) = Within(y)
      BY <2>4, <2>5, EnterFacts
    <3> QED
      BY <3>1, PathsDiffer
  <2>6. ASSUME p = ".." PROVE y # <<>> /\ z = Parent(y)
    <3>1. y # <<>>
      <4>1. y = <<>> => Within(z) = Beyond(y)
        BY <2>4, <2>6, EnterFacts
      <4> QED
        BY <4>1, PathsDiffer
    <3>2. Within(z) = Within(Parent(y))
      BY <2>4, <2>6, <3>1, EnterFacts
    <3> QED
      BY <3>1, <3>2, PathsDiffer
  <2>7. ASSUME p \notin Dots PROVE z = Append(y, p)
    <3>1. Within(z) = Within(Append(y, p))
      BY <2>4, <2>7, EnterFacts
    <3> QED
      BY <3>1, PathsDiffer
  <2> QED
    BY <2>5, <2>6, <2>7 DEF y, z, p
<1>9. PathAt(c, 0) = <<>> /\ Normal(c).parts = PathAt(c, l)
  <2>1. Along(c)[0] = Within(<<>>)
    BY <1>1, AlongUnfolds
  <2> QED
    BY <2>1, PathsDiffer DEF PathAt, Normal
<1> HIDE DEF In, Out
<1> QED
  BY <1>2, <1>8, <1>9

\* Along names only, the path is what has been passed of them.
LEMMA AlongNames ==
  ASSUME NEW c, NEW n, IsSeq(c), CleanName(n), Len(n) <= Len(c), \A i \in 1 .. Len(n) : c[i] = n[i]
  PROVE  Along(c)[Len(n)] = Within(n)
<1> DEFINE l == Len(n)
           So(i) == Along(c)[i] = Within(First(n, i))
           S == {i \in Nat : i <= l => So(i)}
<1>1. l \in Nat /\ Len(c) \in Nat /\ IsSeq(n) /\ DOMAIN n = 1 .. l
  BY SeqFacts DEF CleanName
<1>2. So(0)
  <2>1. 0 \in 0 .. Len(n)
    BY <1>1
  <2>2. First(n, 0) = <<>>
    BY <1>1, <2>1, FirstFacts
  <2> QED
    BY <1>1, <2>2, AlongUnfolds
<1>3. ASSUME NEW i \in Nat, So(i), i + 1 <= l PROVE So(i + 1)
  <2>1. i + 1 \in 1 .. Len(c) /\ i + 1 \in 1 .. Len(n) /\ (i + 1) - 1 = i
    BY <1>1, <1>3
  <2>2. Along(c)[i + 1] = Enter(Along(c)[(i + 1) - 1], c[i + 1])
    BY <1>1, <2>1, AlongUnfolds
  <2>3. c[i + 1] = n[i + 1] /\ n[i + 1] \notin Dots
    BY <1>1, <2>1 DEF CleanName, HasDots
  <2>4. Append(First(n, (i + 1) - 1), n[i + 1]) = First(n, i + 1)
    BY <1>1, <2>1, FirstGrows
  <2>5. Along(c)[i + 1] = Enter(Within(First(n, i)), n[i + 1])
    BY <1>3, <2>1, <2>2, <2>3
  <2>6. Enter(Within(First(n, i)), n[i + 1]) = Within(Append(First(n, i), n[i + 1]))
    BY <2>3, EnterFacts
  <2>7. First(n, (i + 1) - 1) = First(n, i)
    BY <2>1
  <2> QED
    BY <2>4, <2>5, <2>6, <2>7
<1>4. \A i \in Nat : i \in S
  <2> HIDE DEF So
  <2>1. 0 \in S
    BY <1>2
  <2>2. ASSUME NEW i \in Nat, i \in S PROVE i + 1 \in S
    BY <1>1, <1>3, <2>2
  <2> HIDE DEF S
  <2> QED
    BY <2>1, <2>2, Induction
<1>5. So(l)
  <2> HIDE DEF So
  <2> QED
    BY <1>1, <1>4
<1>6. First(n, l) = n
  <2>1. l \in 0 .. Len(n)
    BY <1>1
  <2> QED
    BY <1>1, <2>1, FirstFacts
<1> QED
  BY <1>5, <1>6

Astray(at, todo) == [at |-> at, todo |-> todo, lost |-> TRUE]

LEMMA StepFacts ==
  ASSUME NEW tree, NEW at, NEW todo
  PROVE  /\ WalkStep(tree, Astray(at, todo)) = Astray(at, todo)
         /\ todo = <<>> => WalkStep(tree, Walking(at, todo)) = Walking(at, todo)
         /\ todo # <<>> =>
            LET p    == Head(todo)
                path == Append(at, p)
                next == WalkStep(tree, Walking(at, todo))
            IN  /\ p = "." => next = Walking(at, Tail(todo))
                /\ p = ".." /\ at # <<>> => next = Walking(Parent(at), Tail(todo))
                /\ p \notin Dots /\ path \notin DOMAIN tree => next = Astray(at, todo)
                /\ p \notin Dots /\ path \in DOMAIN tree =>
                      /\ tree[path].type = "dir" => next = Walking(path, Tail(todo))
                      /\ tree[path].type = "link" =>
                            next = Walking(IF tree[path].absolute THEN <<>> ELSE at,
                                           tree[path].data \o Tail(todo))
                      /\ tree[path].type # "link" /\ Tail(todo) = <<>> => next = Walking(path, <<>>)
BY DEF WalkStep, Walking, Astray, Dots
-------------------------------------------------------------------------------
(***************************************************************************)
(* The walk along a name, and through a link.                              *)
(***************************************************************************)

GoodTree(tree) ==
    /\ IsFiniteSet(DOMAIN tree)
    /\ \A n \in DOMAIN tree :
          CleanName(n) /\ tree[n].name = n /\ IsSeq(tree[n].data) /\ tree[n].absolute \in BOOLEAN

\* From the root to n inclusive there are only directories.
DirectoriesTo(tree, n) == \A j \in 0 .. Len(n) : IsDirectory(tree, First(n, j))

LEMMA DirectoriesFacts ==
  ASSUME NEW tree
  PROVE  /\ IsDirectory(tree, <<>>) => DirectoriesTo(tree, <<>>)
         /\ \A n : IsSeq(n) /\ DirectoriesTo(tree, n) => IsDirectory(tree, n)
         /\ \A n : IsSeq(n) /\ n # <<>> /\ DirectoriesTo(tree, n) => DirectoriesTo(tree, Parent(n))
         /\ \A n, p : /\ IsSeq(n) /\ DirectoriesTo(tree, n) /\ IsDirectory(tree, Append(n, p))
                      => DirectoriesTo(tree, Append(n, p))
<1>1. ASSUME IsDirectory(tree, <<>>) PROVE DirectoriesTo(tree, <<>>)
  <2>1. Len(<<>>) = 0 /\ First(<<>>, 0) = <<>>
    BY EmptyIsSeq, FirstFacts
  <2>2. \A j \in 0 .. Len(<<>>) : j = 0
    BY <2>1
  <2> QED
    BY <1>1, <2>1, <2>2 DEF DirectoriesTo
<1>2. ASSUME NEW n, IsSeq(n), DirectoriesTo(tree, n) PROVE IsDirectory(tree, n)
  <2>1. Len(n) \in 0 .. Len(n)
    BY <1>2, SeqFacts
  <2>2. First(n, Len(n)) = n
    BY <1>2, <2>1, FirstFacts
  <2> QED
    BY <1>2, <2>1, <2>2 DEF DirectoriesTo
<1>3. ASSUME NEW n, IsSeq(n), n # <<>>, DirectoriesTo(tree, n) PROVE DirectoriesTo(tree, Parent(n))
  <2> DEFINE q == Parent(n)
  <2>1. /\ Len(n) \in Nat \ {0} /\ IsSeq(q) /\ Len(q) = Len(n) - 1
        /\ \A j \in 1 .. Len(n) - 1 : q[j] = n[j]
    BY <1>3, ParentFacts
  <2> HIDE DEF q
  <2>2. ASSUME NEW j \in 0 .. Len(q) PROVE First(q, j) = First(n, j) /\ j \in 0 .. Len(n)
    <3>1. j \in 0 .. Len(n) /\ \A i \in 1 .. j : i \in 1 .. Len(n) - 1
      BY <2>1
    <3>2. IsSeq(First(q, j)) /\ Len(First(q, j)) = j /\ \A i \in 1 .. j : First(q, j)[i] = q[i]
      BY <2>1, FirstFacts
    <3>3. IsSeq(First(n, j)) /\ Len(First(n, j)) = j /\ \A i \in 1 .. j : First(n, j)[i] = n[i]
      BY <1>3, <3>1, FirstFacts
    <3>4. \A i \in 1 .. j : First(q, j)[i] = First(n, j)[i]
      BY <2>1, <3>1, <3>2, <3>3
    <3> QED
      BY <3>1, <3>2, <3>3, <3>4, EqualSeqs
  <2>3. DirectoriesTo(tree, q)
    BY <1>3, <2>2 DEF DirectoriesTo
  <2> QED
    BY <2>3 DEF q
<1>4. ASSUME NEW n, NEW p, IsSeq(n), DirectoriesTo(tree, n), IsDirectory(tree, Append(n, p))
      PROVE  DirectoriesTo(tree, Append(n, p))
  <2> DEFINE a == Append(n, p)
  <2>1. /\ Len(n) \in Nat /\ IsSeq(a) /\ Len(a) = Len(n) + 1
        /\ \A j \in 1 .. Len(n) : a[j] = n[j]
    BY <1>4, AppendFacts, SeqFacts
  <2>2. IsDirectory(tree, a)
    BY <1>4
  <2> HIDE DEF a
  <2>3. First(a, Len(a)) = a
    <3>1. Len(a) \in 0 .. Len(a)
      BY <2>1
    <3> QED
      BY <2>1, <3>1, FirstFacts
  <2>4. ASSUME NEW j \in 0 .. Len(n) PROVE First(a, j) = First(n, j)
    <3>1. j \in 0 .. Len(a) /\ \A i \in 1 .. j : i \in 1 .. Len(n)
      BY <2>1
    <3>2. IsSeq(First(a, j)) /\ Len(First(a, j)) = j /\ \A i \in 1 .. j : First(a, j)[i] = a[i]
      BY <2>1, <3>1, FirstFacts
    <3>3. IsSeq(First(n, j)) /\ Len(First(n, j)) = j /\ \A i \in 1 .. j : First(n, j)[i] = n[i]
      BY <1>4, FirstFacts
    <3>4. \A i \in 1 .. j : First(a, j)[i] = First(n, j)[i]
      BY <2>1, <3>1, <3>2, <3>3
    <3> QED
      BY <3>2, <3>3, <3>4, EqualSeqs
  <2>5. \A j \in 0 .. Len(a) : j = Len(a) \/ j \in 0 .. Len(n)
    BY <2>1
  <2>6. DirectoriesTo(tree, a)
    BY <1>4, <2>2, <2>3, <2>4, <2>5 DEF DirectoriesTo
  <2> QED
    BY <2>6 DEF a
<1> QED
  BY <1>1, <1>2, <1>3, <1>4

\* One part of a path further.
LEMMA OnePart ==
  ASSUME NEW tree, NEW name, NEW c, IsSeq(c), Normal(c).inside,
         NEW k \in Nat, NEW i \in 1 .. Len(c),
         Walk(tree, name)[k] = Walking(PathAt(c, i - 1), Behind(c, i - 1)),
         DirectoriesTo(tree, PathAt(c, i - 1)),
         c[i] \notin Dots => IsDirectory(tree, PathAt(c, i))
  PROVE  /\ Walk(tree, name)[k + 1] = Walking(PathAt(c, i), Behind(c, i))
         /\ DirectoriesTo(tree, PathAt(c, i))
<1> DEFINE at   == PathAt(c, i - 1)
           todo == Behind(c, i - 1)
           p    == c[i]
           next == PathAt(c, i)
<1>1. Len(c) \in Nat /\ i - 1 \in 0 .. Len(c) /\ i - 1 < Len(c) /\ (i - 1) + 1 = i
  BY SeqFacts
<1>2. todo # <<>> /\ Head(todo) = p /\ Tail(todo) = Behind(c, i)
  BY <1>1, BehindFacts
<1>3. IsSeq(at) /\ CleanName(next)
  BY <1>1, InsideFacts DEF CleanName
<1>4. /\ p = "." => next = at
      /\ p = ".." => at # <<>> /\ next = Parent(at)
      /\ p \notin Dots => next = Append(at, p)
  BY InsideFacts
<1>5. Walk(tree, name)[k + 1] = WalkStep(tree, Walking(at, todo))
  BY WalkUnfolds
<1>6. DirectoriesTo(tree, at) /\ (p \notin Dots => IsDirectory(tree, next))
  OBVIOUS
<1> HIDE DEF at, todo, p, next
<1>7. CASE p = "."
  <2>1. WalkStep(tree, Walking(at, todo)) = Walking(at, Tail(todo))
    BY <1>2, <1>7, StepFacts
  <2> QED
    BY <1>2, <1>4, <1>5, <1>6, <1>7, <2>1 DEF next
<1>8. CASE p = ".."
  <2>1. WalkStep(tree, Walking(at, todo)) = Walking(Parent(at), Tail(todo))
    BY <1>2, <1>4, <1>8, StepFacts
  <2>2. DirectoriesTo(tree, Parent(at))
    BY <1>3, <1>4, <1>6, <1>8, DirectoriesFacts
  <2> QED
    BY <1>2, <1>4, <1>5, <1>8, <2>1, <2>2 DEF next
<1>9. CASE p \notin Dots
  <2>1. next = Append(at, p) /\ next # <<>>
    BY <1>3, <1>4, <1>9, ParentOfAppend
  <2>2. next \in DOMAIN tree /\ tree[next].type = "dir"
    BY <1>6, <1>9, <2>1 DEF IsDirectory
  <2>3. WalkStep(tree, Walking(at, todo)) = Walking(next, Tail(todo))
    BY <1>2, <1>9, <2>1, <2>2, StepFacts
  <2>4. DirectoriesTo(tree, next)
    BY <1>3, <1>6, <1>9, <2>1, DirectoriesFacts
  <2> QED
    BY <1>2, <1>5, <2>3, <2>4 DEF next
<1> QED
  BY <1>7, <1>8, <1>9 DEF Dots

LEMMA WalksAlong ==
  ASSUME NEW tree, NEW name, NEW c, IsSeq(c), Normal(c).inside, ThroughDirectories(tree, c),
         NEW k \in Nat, NEW b \in 0 .. Len(c),
         Walk(tree, name)[k] = Walking(PathAt(c, b), Behind(c, b)),
         DirectoriesTo(tree, PathAt(c, b))
  PROVE  \A j \in Nat : b + j < Len(c) =>
            /\ Walk(tree, name)[k + j] = Walking(PathAt(c, b + j), Behind(c, b + j))
            /\ DirectoriesTo(tree, PathAt(c, b + j))
<1> DEFINE So(j) == /\ Walk(tree, name)[k + j] = Walking(PathAt(c, b + j), Behind(c, b + j))
                    /\ DirectoriesTo(tree, PathAt(c, b + j))
           S == {j \in Nat : b + j < Len(c) => So(j)}
<1>1. Len(c) \in Nat
  BY SeqFacts
<1>2. So(0)
  <2>1. k + 0 = k /\ b + 0 = b
    BY <1>1
  <2> QED
    BY <2>1
<1>3. ASSUME NEW j \in Nat, So(j), b + (j + 1) < Len(c) PROVE So(j + 1)
  <2> DEFINE i == b + (j + 1)
  <2>1. /\ i \in 1 .. Len(c) /\ i \in 1 .. Len(c) - 1 /\ i - 1 = b + j
        /\ k + j \in Nat /\ (k + j) + 1 = k + (j + 1)
    BY <1>1, <1>3
  <2>2. c[i] \notin Dots => IsDirectory(tree, PathAt(c, i))
    BY <2>1 DEF ThroughDirectories, PathAt
  <2> HIDE DEF i
  <2>3. /\ Walk(tree, name)[k + j] = Walking(PathAt(c, i - 1), Behind(c, i - 1))
        /\ DirectoriesTo(tree, PathAt(c, i - 1))
    BY <1>3, <2>1
  <2>4. /\ Walk(tree, name)[(k + j) + 1] = Walking(PathAt(c, i), Behind(c, i))
        /\ DirectoriesTo(tree, PathAt(c, i))
    BY <2>1, <2>2, <2>3, OnePart
  <2> QED
    BY <2>1, <2>4 DEF i
<1>4. \A j \in Nat : j \in S
  <2> HIDE DEF So
  <2>1. 0 \in S
    BY <1>2
  <2>2. ASSUME NEW j \in Nat, j \in S PROVE j + 1 \in S
    <3>1. b + (j + 1) < Len(c) => b + j < Len(c)
      BY <1>1
    <3> QED
      BY <1>3, <2>2, <3>1
  <2> HIDE DEF S
  <2> QED
    BY <2>1, <2>2, Induction
<1> QED
  BY <1>4

\* The walk is where read is: about to look n up, or in the directory n already.
Stands(tree, w, n) ==
    \/ /\ n # <<>> /\ w = Walking(Parent(n), <<n[Len(n)]>>)
       /\ DirectoriesTo(tree, Parent(n))
    \/ w = Walking(n, <<>>) /\ DirectoriesTo(tree, n)

LEMMA OneElement ==
  ASSUME NEW s, IsSeq(s), Len(s) = 1
  PROVE  s = <<s[1]>>
<1>1. IsSeq(<<s[1]>>) /\ Len(<<s[1]>>) = 1 /\ <<s[1]>>[1] = s[1]
  <2>1. <<s[1]>> \in Seq({s[1]})
    OBVIOUS
  <2> QED
    BY <2>1 DEF IsSeq
<1>2. \A i \in 1 .. Len(s) : s[i] = <<s[1]>>[i]
  BY <1>1
<1> QED
  BY <1>1, <1>2, EqualSeqs

LEMMA Arrives ==
  ASSUME NEW tree, NEW name, NEW c, IsSeq(c), Normal(c).inside, ThroughDirectories(tree, c),
         NEW k \in Nat, NEW b \in 0 .. Len(c),
         Walk(tree, name)[k] = Walking(PathAt(c, b), Behind(c, b)),
         DirectoriesTo(tree, PathAt(c, b))
  PROVE  \E m \in 0 .. Len(c) - b : Stands(tree, Walk(tree, name)[k + m], Normal(c).parts)
<1> DEFINE l == Len(c)
           n == PathAt(c, l)
<1>1. l \in Nat /\ Normal(c).parts = n
  BY SeqFacts, InsideFacts
<1>2. CASE b = l
  <2>1. Behind(c, b) = <<>> /\ k + 0 = k /\ 0 \in 0 .. l - b
    BY <1>1, <1>2, BehindFacts
  <2>2. Stands(tree, Walk(tree, name)[k + 0], n)
    BY <1>2, <2>1 DEF Stands
  <2> QED
    BY <1>1, <2>1, <2>2
<1>3. CASE b # l
  <2> DEFINE j == l - 1 - b
             at == PathAt(c, l - 1)
             p  == c[l]
  <2>1. /\ j \in Nat /\ b + j = l - 1 /\ b + j < l /\ l \in 1 .. l /\ l - 1 \in 0 .. l
        /\ k + j \in Nat /\ (k + j) + 1 = k + (j + 1) /\ j \in 0 .. l - b /\ j + 1 \in 0 .. l - b
        /\ l - (l - 1) = 1 /\ (l - 1) + 1 = l /\ l - 1 < l
    BY <1>1, <1>3
  <2>2. Walk(tree, name)[k + j] = Walking(at, Behind(c, l - 1)) /\ DirectoriesTo(tree, at)
    <3> HIDE DEF j
    <3>1. \A i \in Nat : b + i < Len(c) =>
             /\ Walk(tree, name)[k + i] = Walking(PathAt(c, b + i), Behind(c, b + i))
             /\ DirectoriesTo(tree, PathAt(c, b + i))
      BY WalksAlong
    <3>2. /\ Walk(tree, name)[k + j] = Walking(PathAt(c, b + j), Behind(c, b + j))
          /\ DirectoriesTo(tree, PathAt(c, b + j))
      BY <2>1, <3>1
    <3> QED
      BY <2>1, <3>2
  <2>3. CASE p \in Dots
    <3> HIDE DEF j
    <3>1. Walk(tree, name)[(k + j) + 1] = Walking(n, Behind(c, l)) /\ DirectoriesTo(tree, n)
      BY <2>1, <2>2, <2>3, OnePart
    <3>2. l \in 0 .. l
      BY <1>1
    <3>3. Behind(c, l) = <<>>
      BY <3>2, BehindFacts
    <3>4. Stands(tree, Walk(tree, name)[k + (j + 1)], n)
      BY <2>1, <3>1, <3>3 DEF Stands
    <3> QED
      BY <1>1, <2>1, <3>4
  <2>4. CASE p \notin Dots
    <3> HIDE DEF j
    <3>1. n = Append(at, p) /\ IsSeq(at)
      BY <2>1, <2>4, InsideFacts DEF CleanName
    <3>2. Behind(c, l - 1) = <<p>>
      <4>1. /\ IsSeq(Behind(c, l - 1)) /\ Len(Behind(c, l - 1)) = l - (l - 1)
            /\ \A i \in 1 .. l - (l - 1) : Behind(c, l - 1)[i] = c[(l - 1) + i]
        BY <2>1, BehindFacts
      <4>2. Len(Behind(c, l - 1)) = 1 /\ 1 \in 1 .. l - (l - 1)
        BY <2>1, <4>1
      <4>3. Behind(c, l - 1)[1] = p
        BY <2>1, <4>1, <4>2
      <4> QED
        BY <4>1, <4>2, <4>3, OneElement
    <3> HIDE DEF at, p, n
    <3>3. n # <<>> /\ Parent(n) = at /\ n[Len(n)] = p
      <4>1. Len(n) = Len(at) + 1 /\ n[Len(at) + 1] = p
        BY <3>1, AppendFacts
      <4> QED
        BY <3>1, <4>1, ParentOfAppend
    <3>4. Stands(tree, Walk(tree, name)[k + j], n)
      BY <2>2, <3>2, <3>3 DEF Stands
    <3> QED
      BY <1>1, <2>1, <3>4
  <2> QED
    BY <2>3, <2>4
<1> QED
  BY <1>2, <1>3

LEMMA SetsOut ==
  ASSUME NEW tree, NEW n, CleanName(n), ThroughDirectories(tree, n)
  PROVE  \E m \in 0 .. Len(n) : Stands(tree, Walk(tree, n)[m], n)
<1>1. IsSeq(n) /\ Len(n) \in Nat
  BY SeqFacts DEF CleanName
<1>2. Along(n)[Len(n)] = Within(n)
  BY <1>1, AlongNames
<1>3. Normal(n).inside /\ Normal(n).parts = n
  BY <1>2, PathsDiffer DEF Normal
<1>4. PathAt(n, 0) = <<>>
  BY <1>1, <1>3, InsideFacts
<1>5. Behind(n, 0) = n /\ 0 \in 0 .. Len(n) /\ Len(n) - 0 = Len(n)
  <2>1. 0 \in 0 .. Len(n) /\ Len(n) - 0 = Len(n)
    BY <1>1
  <2>2. /\ IsSeq(Behind(n, 0)) /\ Len(Behind(n, 0)) = Len(n) - 0
        /\ \A j \in 1 .. Len(n) - 0 : Behind(n, 0)[j] = n[0 + j]
    BY <1>1, <2>1, BehindFacts
  <2>3. \A j \in 1 .. Len(n) : 0 + j = j
    BY <1>1
  <2>4. Len(Behind(n, 0)) = Len(n) /\ \A j \in 1 .. Len(n) : Behind(n, 0)[j] = n[j]
    BY <2>1, <2>2, <2>3
  <2> QED
    BY <1>1, <2>1, <2>2, <2>4, EqualSeqs
<1>6. Walk(tree, n)[0] = Walking(PathAt(n, 0), Behind(n, 0))
  BY <1>4, <1>5, WalkUnfolds
<1>7. DirectoriesTo(tree, PathAt(n, 0))
  BY <1>4, DirectoriesFacts DEF ThroughDirectories
<1>8. \E m \in 0 .. Len(n) - 0 : Stands(tree, Walk(tree, n)[0 + m], Normal(n).parts)
  BY <1>1, <1>3, <1>5, <1>6, <1>7, Arrives
<1>9. \A m \in 0 .. Len(n) : 0 + m = m
  BY <1>1
<1> QED
  BY <1>3, <1>5, <1>8, <1>9

LEMMA WalksOn ==
  ASSUME NEW tree, NEW name, NEW k \in Nat, NEW w, Walk(tree, name)[k] = w
  PROVE  Walk(tree, name)[k + 1] = WalkStep(tree, w)
BY WalkUnfolds

LEMMA LinkStep ==
  ASSUME NEW tree, NEW q, NEW last, last # <<>>, Head(last) \notin Dots,
         NEW n, n = Append(q, Head(last)), n \in DOMAIN tree, tree[n].type = "link"
  PROVE  WalkStep(tree, Walking(q, last)) =
            Walking(IF tree[n].absolute THEN <<>> ELSE q, tree[n].data \o Tail(last))
BY StepFacts

LEMMA FollowsLink ==
  ASSUME NEW tree, GoodTree(tree), NEW name, NEW n \in DOMAIN tree, tree[n].type = "link", n # <<>>,
         NEW k \in Nat, Walk(tree, name)[k] = Walking(Parent(n), <<n[Len(n)]>>),
         DirectoriesTo(tree, Parent(n)),
         Normal(Candidate(tree[n])).inside, ThroughDirectories(tree, Candidate(tree[n]))
  PROVE  \E m \in 0 .. Len(tree[n].data) :
            Stands(tree, Walk(tree, name)[k + 1 + m], Normal(Candidate(tree[n])).parts)
<1> DEFINE d == tree[n].data
           q == Parent(n)
           p == n[Len(n)]
           c == Candidate(tree[n])
<1>1. /\ CleanName(n) /\ IsSeq(n) /\ IsSeq(d) /\ tree[n].name = n /\ tree[n].absolute \in BOOLEAN
      /\ Len(d) \in Nat
  BY SeqFacts DEF GoodTree, CleanName
<1>2. CleanName(q) /\ IsSeq(q) /\ Len(q) \in Nat /\ p \notin Dots /\ Append(q, p) = n
  <2>1. CleanName(q) /\ p \notin Dots /\ Append(q, p) = n
    BY <1>1, CleanFacts, ParentFacts
  <2> QED
    BY <2>1, SeqFacts DEF CleanName
<1> DEFINE last == <<p>>
<1>3. Walk(tree, name)[k] = Walking(q, last)
  OBVIOUS
<1> HIDE DEF p, q, d
<1>4. last # <<>> /\ Head(last) = p /\ Tail(last) = <<>>
  OBVIOUS
<1> HIDE DEF last
<1>5. Append(q, Head(last)) = n /\ Head(last) \notin Dots
  BY <1>2, <1>4
<1>12. Walk(tree, name)[k + 1] = WalkStep(tree, Walking(q, last))
  BY <1>3, WalksOn
<1>11. WalkStep(tree, Walking(q, last)) =
          Walking(IF tree[n].absolute THEN <<>> ELSE q, tree[n].data \o Tail(last))
  BY <1>4, <1>5, LinkStep
<1>6. d \o <<>> = d
  BY <1>1, ConcatEmptySeq DEF IsSeq
<1>7. Walk(tree, name)[k + 1] = Walking(IF tree[n].absolute THEN <<>> ELSE q, d)
  BY <1>4, <1>6, <1>11, <1>12 DEF d
<1>8. IsDirectory(tree, <<>>) /\ k + 1 \in Nat
  BY DEF ThroughDirectories
<1>9. CASE tree[n].absolute
  <2>1. c = d
    BY <1>9 DEF Candidate, d
  <2>2. IsSeq(c) /\ Normal(c).inside /\ ThroughDirectories(tree, c)
    BY <1>1, <2>1
  <2> HIDE DEF c
  <2>3. 0 \in 0 .. Len(c) /\ Len(c) - 0 = Len(d) /\ Len(c) \in Nat
    BY <1>1, <2>1
  <2>4. PathAt(c, 0) = <<>>
    BY <2>2, InsideFacts
  <2>5. Behind(c, 0) = d
    <3>1. /\ IsSeq(Behind(c, 0)) /\ Len(Behind(c, 0)) = Len(c) - 0
          /\ \A j \in 1 .. Len(c) - 0 : Behind(c, 0)[j] = c[0 + j]
      BY <2>2, <2>3, BehindFacts
    <3>2. \A j \in 1 .. Len(c) : 0 + j = j
      BY <2>3
    <3>3. Len(Behind(c, 0)) = Len(c) /\ \A j \in 1 .. Len(c) : Behind(c, 0)[j] = c[j]
      BY <2>3, <3>1, <3>2
    <3>4. Behind(c, 0) = c
      BY <2>2, <3>1, <3>3, EqualSeqs
    <3> QED
      BY <2>1, <3>4
  <2>6. /\ Walk(tree, name)[k + 1] = Walking(PathAt(c, 0), Behind(c, 0))
        /\ DirectoriesTo(tree, PathAt(c, 0))
    BY <1>7, <1>8, <1>9, <2>4, <2>5, DirectoriesFacts
  <2>7. \E m \in 0 .. Len(c) - 0 : Stands(tree, Walk(tree, name)[k + 1 + m], Normal(c).parts)
    BY <1>8, <2>2, <2>3, <2>6, Arrives
  <2> QED
    BY <2>3, <2>7 DEF c, d
<1>10. CASE ~tree[n].absolute
  <2>1. c = q \o d
    BY <1>1, <1>10 DEF Candidate, d, q
  <2>2. /\ IsSeq(c) /\ Len(c) = Len(q) + Len(d)
        /\ \A i \in 1 .. Len(q) : c[i] = q[i]
        /\ \A i \in 1 .. Len(d) : c[Len(q) + i] = d[i]
    BY <1>1, <1>2, <2>1, ConcatFacts
  <2>3. Normal(c).inside /\ ThroughDirectories(tree, c)
    OBVIOUS
  <2> HIDE DEF c
  <2> DEFINE b == Len(q)
  <2>4. b \in 0 .. Len(c) /\ Len(c) - b = Len(d) /\ Len(q) <= Len(c)
    BY <1>1, <1>2, <2>2
  <2>5. Along(c)[b] = Within(q)
    BY <1>2, <2>2, <2>4, AlongNames
  <2>6. PathAt(c, b) = q
    BY <2>5, PathsDiffer DEF PathAt
  <2>7. Behind(c, b) = d
    <3>1. /\ IsSeq(Behind(c, b)) /\ Len(Behind(c, b)) = Len(c) - b
          /\ \A j \in 1 .. Len(c) - b : Behind(c, b)[j] = c[b + j]
      BY <2>2, <2>4, BehindFacts
    <3>2. Len(Behind(c, b)) = Len(d) /\ \A j \in 1 .. Len(d) : Behind(c, b)[j] = d[j]
      BY <2>2, <2>4, <3>1
    <3> QED
      BY <1>1, <3>1, <3>2, EqualSeqs
  <2>8. /\ Walk(tree, name)[k + 1] = Walking(PathAt(c, b), Behind(c, b))
        /\ DirectoriesTo(tree, PathAt(c, b))
    <3>1. DirectoriesTo(tree, q)
      BY DEF q
    <3> QED
      BY <1>7, <1>10, <2>6, <2>7, <3>1
  <2> HIDE DEF b
  <2>9. \E m \in 0 .. Len(c) - b : Stands(tree, Walk(tree, name)[k + 1 + m], Normal(c).parts)
    BY <1>8, <2>2, <2>3, <2>4, <2>8, Arrives
  <2> QED
    BY <2>4, <2>9 DEF c, d
<1> QED
  BY <1>9, <1>10
-------------------------------------------------------------------------------
(***************************************************************************)
(* The end of a walk: it stays there, and a walk in a circle has none.     *)
(***************************************************************************)

Over(w) == w.lost \/ w.todo = <<>>

LEMMA WalkStays ==
  ASSUME NEW tree, NEW name, NEW k \in Nat, Over(Walk(tree, name)[k])
  PROVE  \A m \in Nat : k <= m => Walk(tree, name)[m] = Walk(tree, name)[k]
<1> DEFINE w == Walk(tree, name)[k]
           S == {j \in Nat : Walk(tree, name)[k + j] = w}
<1>1. WalkStep(tree, w) = w
  BY DEF WalkStep, Over
<1>2. 0 \in S
  <2>1. k + 0 = k
    OBVIOUS
  <2> QED
    BY <2>1
<1> HIDE DEF w
<1>3. ASSUME NEW j \in Nat, j \in S PROVE j + 1 \in S
  <2>1. k + j \in Nat /\ (k + j) + 1 = k + (j + 1) /\ Walk(tree, name)[k + j] = w
    BY <1>3
  <2>2. Walk(tree, name)[(k + j) + 1] = w
    BY <1>1, <2>1, WalksOn
  <2> QED
    BY <2>1, <2>2
<1>4. \A j \in Nat : Walk(tree, name)[k + j] = w
  <2>1. \A j \in Nat : j \in S
    <3> HIDE DEF S
    <3> QED
      BY <1>2, <1>3, Induction
  <2> QED
    BY <2>1
<1>5. ASSUME NEW m \in Nat, k <= m PROVE Walk(tree, name)[m] = w
  <2>1. m - k \in Nat /\ k + (m - k) = m
    BY <1>5
  <2>2. Walk(tree, name)[k + (m - k)] = w
    BY <1>4, <2>1
  <2> QED
    BY <2>1, <2>2
<1> QED
  BY <1>5 DEF w

\* From the same place the walk goes the same way.
LEMMA WalkRepeats ==
  ASSUME NEW tree, NEW name, NEW k \in Nat, NEW j \in Nat,
         Walk(tree, name)[j] = Walk(tree, name)[k]
  PROVE  \A m \in Nat : Walk(tree, name)[j + m] = Walk(tree, name)[k + m]
<1> DEFINE S == {m \in Nat : Walk(tree, name)[j + m] = Walk(tree, name)[k + m]}
<1>1. 0 \in S
  <2>1. k + 0 = k /\ j + 0 = j
    OBVIOUS
  <2> QED
    BY <2>1
<1>2. ASSUME NEW m \in Nat, m \in S PROVE m + 1 \in S
  <2>1. /\ k + m \in Nat /\ (k + m) + 1 = k + (m + 1)
        /\ j + m \in Nat /\ (j + m) + 1 = j + (m + 1)
        /\ Walk(tree, name)[j + m] = Walk(tree, name)[k + m]
    BY <1>2
  <2> DEFINE w == Walk(tree, name)[k + m]
  <2>2. Walk(tree, name)[j + m] = w /\ Walk(tree, name)[k + m] = w
    BY <2>1
  <2> HIDE DEF w
  <2>3. Walk(tree, name)[(j + m) + 1] = WalkStep(tree, w)
    BY <2>1, <2>2, WalksOn
  <2>4. Walk(tree, name)[(k + m) + 1] = WalkStep(tree, w)
    BY <2>1, <2>2, WalksOn
  <2> QED
    BY <2>1, <2>3, <2>4
<1>3. \A m \in Nat : m \in S
  <2> HIDE DEF S
  <2> QED
    BY <1>1, <1>2, Induction
<1> QED
  BY <1>3

LEMMA CircleHasNoEnd ==
  ASSUME NEW tree, NEW name, NEW k \in Nat, NEW j \in Nat, j < k,
         Walk(tree, name)[j] = Walk(tree, name)[k], ~Over(Walk(tree, name)[k])
  PROVE  \A m \in Nat : ~Over(Walk(tree, name)[m])
<1> DEFINE Ends(m) == Over(Walk(tree, name)[m])
           ends == {m \in Nat : Ends(m)}
<1> HIDE DEF Ends
<1>1. ASSUME ends # {} PROVE FALSE
  <2>1. ends \in SUBSET Nat
    OBVIOUS
  <2>2. PICK e \in ends : \A m \in ends : e <= m
    BY <1>1, <2>1, LeastOf
  <2>3. e \in Nat /\ Ends(e)
    OBVIOUS
  <2>4. CASE e <= k
    <3>1. Walk(tree, name)[k] = Walk(tree, name)[e]
      BY <2>3, <2>4, WalkStays DEF Ends
    <3> QED
      BY <2>3, <3>1 DEF Ends
  <2>5. CASE ~(e <= k)
    <3> DEFINE m == e - k
    <3>1. m \in Nat /\ k + m = e /\ j + m \in Nat /\ ~(e <= j + m)
      BY <2>3, <2>5
    <3> HIDE DEF m
    <3>2. Walk(tree, name)[j + m] = Walk(tree, name)[k + m]
      BY <3>1, WalkRepeats
    <3>3. Ends(j + m)
      BY <2>3, <3>1, <3>2 DEF Ends
    <3>4. j + m \in ends
      BY <3>1, <3>3
    <3> QED
      BY <2>2, <3>1, <3>4
  <2> QED
    BY <2>4, <2>5
<1>2. ASSUME NEW m \in Nat PROVE ~Ends(m)
  BY <1>1
<1> QED
  BY <1>2 DEF Ends

\* What the walk does at the name read has stopped at.
LEMMA WalkingFacts ==
  ASSUME NEW at, NEW todo
  PROVE  /\ Over(Walking(at, todo)) <=> todo = <<>>
         /\ Over(Astray(at, todo)) /\ Astray(at, todo).lost
         /\ Walking(at, todo).at = at /\ Walking(at, todo).todo = todo /\ ~Walking(at, todo).lost
BY DEF Over, Walking, Astray

LEMMA LastStep ==
  ASSUME NEW tree, NEW at, NEW last, last # <<>>, Tail(last) = <<>>, Head(last) \notin Dots,
         NEW n, n = Append(at, Head(last))
  PROVE  /\ n \notin DOMAIN tree => WalkStep(tree, Walking(at, last)) = Astray(at, last)
         /\ n \in DOMAIN tree /\ tree[n].type # "link" =>
               WalkStep(tree, Walking(at, last)) = Walking(n, <<>>)
BY StepFacts

LEMMA OnTheWay ==
  ASSUME NEW n, CleanName(n), n # <<>>
  PROVE  LET last == <<n[Len(n)]>>
         IN  /\ last # <<>> /\ Tail(last) = <<>> /\ Head(last) \notin Dots
             /\ n = Append(Parent(n), Head(last))
<1> DEFINE p == n[Len(n)]
           last == <<p>>
<1>1. p \notin Dots /\ Append(Parent(n), p) = n
  BY CleanFacts, ParentFacts DEF CleanName
<1> HIDE DEF p
<1>2. last # <<>> /\ Head(last) = p /\ Tail(last) = <<>>
  OBVIOUS
<1> HIDE DEF last
<1>3. /\ last # <<>> /\ Tail(last) = <<>> /\ Head(last) \notin Dots
      /\ n = Append(Parent(n), Head(last))
  BY <1>1, <1>2
<1> QED
  BY <1>3 DEF last, p

LEMMA StepsInto ==
  ASSUME NEW tree, NEW name, NEW k \in Nat, NEW at, NEW last, NEW n,
         Walk(tree, name)[k] = Walking(at, last),
         WalkStep(tree, Walking(at, last)) = Walking(n, <<>>),
         NEW e \in Nat, k + 1 <= e
  PROVE  Walk(tree, name)[e] = Walking(n, <<>>)
<1>1. Walk(tree, name)[k + 1] = Walking(n, <<>>)
  BY WalksOn
<1>2. Over(Walk(tree, name)[k + 1]) /\ k + 1 \in Nat
  BY <1>1, WalkingFacts
<1> QED
  BY <1>1, <1>2, WalkStays

NoLink(tree, n) == n \in DOMAIN tree /\ tree[n].type # "link"

LEMMA FindsIt ==
  ASSUME NEW tree, NEW name, NEW n, NoLink(tree, n), CleanName(n),
         NEW k \in Nat, Stands(tree, Walk(tree, name)[k], n), NEW e \in Nat, k + 1 <= e
  PROVE  Walk(tree, name)[e] = Walking(n, <<>>)
<1>1. CASE Walk(tree, name)[k] = Walking(n, <<>>)
  <2>1. Over(Walk(tree, name)[k]) /\ k <= e
    BY <1>1, WalkingFacts
  <2> QED
    BY <1>1, <2>1, WalkStays
<1>2. CASE n # <<>> /\ Walk(tree, name)[k] = Walking(Parent(n), <<n[Len(n)]>>)
  <2> DEFINE last == <<n[Len(n)]>>
  <2>1. /\ last # <<>> /\ Tail(last) = <<>> /\ Head(last) \notin Dots
        /\ n = Append(Parent(n), Head(last))
    BY <1>2, OnTheWay
  <2>2. Walk(tree, name)[k] = Walking(Parent(n), last)
    BY <1>2
  <2> HIDE DEF last
  <2>3. WalkStep(tree, Walking(Parent(n), last)) = Walking(n, <<>>)
    BY <2>1, LastStep DEF NoLink
  <2> QED
    BY <2>2, <2>3, StepsInto
<1> QED
  BY <1>1, <1>2 DEF Stands

LEMMA LacksIt ==
  ASSUME NEW tree, NEW name, NEW n, n \notin DOMAIN tree, CleanName(n), n # <<>>,
         NEW k \in Nat, Stands(tree, Walk(tree, name)[k], n), NEW e \in Nat, k + 1 <= e
  PROVE  Walk(tree, name)[e].lost
<1>1. ~DirectoriesTo(tree, n)
  BY DirectoriesFacts DEF IsDirectory, CleanName
<1>2. Walk(tree, name)[k] = Walking(Parent(n), <<n[Len(n)]>>)
  BY <1>1 DEF Stands
<1> DEFINE last == <<n[Len(n)]>>
<1>3. /\ last # <<>> /\ Tail(last) = <<>> /\ Head(last) \notin Dots
      /\ n = Append(Parent(n), Head(last))
  BY OnTheWay
<1>4. Walk(tree, name)[k] = Walking(Parent(n), last)
  BY <1>2
<1> HIDE DEF last
<1>5. Walk(tree, name)[k + 1] = WalkStep(tree, Walking(Parent(n), last))
  BY <1>4, WalksOn
<1>6. WalkStep(tree, Walking(Parent(n), last)) = Astray(Parent(n), last)
  BY <1>3, LastStep
<1>7. Over(Walk(tree, name)[k + 1]) /\ k + 1 \in Nat /\ Walk(tree, name)[k + 1].lost
  BY <1>5, <1>6, WalkingFacts
<1>8. Walk(tree, name)[e] = Walk(tree, name)[k + 1]
  BY <1>7, WalkStays
<1> QED
  BY <1>7, <1>8

\* At a link it has stood at before, the walk is in a circle.
LEMMA LoopHasNoEnd ==
  ASSUME NEW tree, NEW name, NEW n \in DOMAIN tree, CleanName(n), n # <<>>, tree[n].type = "link",
         NEW k \in Nat, Stands(tree, Walk(tree, name)[k], n),
         NEW j \in 0 .. k - 1, Walk(tree, name)[j] = Walking(Parent(n), <<n[Len(n)]>>)
  PROVE  \A m \in Nat : ~Over(Walk(tree, name)[m])
<1>1. ~DirectoriesTo(tree, n)
  BY DirectoriesFacts DEF IsDirectory, CleanName
<1>2. Walk(tree, name)[k] = Walking(Parent(n), <<n[Len(n)]>>)
  BY <1>1 DEF Stands
<1> DEFINE last == <<n[Len(n)]>>
<1>3. last # <<>> 
  BY OnTheWay
<1>4. /\ Walk(tree, name)[k] = Walking(Parent(n), last)
      /\ Walk(tree, name)[j] = Walking(Parent(n), last)
  BY <1>2
<1> HIDE DEF last
<1>5. ~Over(Walk(tree, name)[k]) /\ Walk(tree, name)[j] = Walk(tree, name)[k]
  BY <1>3, <1>4, WalkingFacts
<1>6. j \in Nat /\ j < k
  OBVIOUS
<1> QED
  BY <1>5, <1>6, CircleHasNoEnd

LEMMA LongestFacts ==
  ASSUME NEW tree, GoodTree(tree)
  PROVE  /\ Longest(tree) \in Nat
         /\ \A n \in DOMAIN tree : Len(n) <= Longest(tree) /\ Len(tree[n].data) <= Longest(tree)
<1> DEFINE D == DOMAIN tree
           A == {Len(n) : n \in D}
           B == {Len(tree[n].data) : n \in D}
           T == {0} \cup A \cup B
<1>1. \A n \in D : Len(n) \in Nat /\ Len(tree[n].data) \in Nat
  BY SeqFacts DEF GoodTree, CleanName
<1>2. T \in SUBSET Nat
  BY <1>1
<1>3. IsFiniteSet(D)
  BY DEF GoodTree
<1>4. IsFiniteSet(A)
  <2> DEFINE f == [n \in D |-> Len(n)]
  <2>1. f \in Surjection(D, A)
    BY DEF Surjection
  <2> QED
    BY <1>3, <2>1, FS_Surjection
<1>5. IsFiniteSet(B)
  <2> DEFINE f == [n \in D |-> Len(tree[n].data)]
  <2>1. f \in Surjection(D, B)
    BY DEF Surjection
  <2> QED
    BY <1>3, <2>1, FS_Surjection
<1>6. IsFiniteSet(T)
  <2>1. IsFiniteSet({0})
    BY FS_Singleton
  <2> HIDE DEF A, B
  <2>2. IsFiniteSet({0} \cup A)
    BY <1>4, <2>1, FS_Union
  <2> QED
    BY <1>5, <2>2, FS_Union
<1>7. Longest(tree) = Largest(T)
  BY DEF Longest
<1>8. Largest(T) \in T /\ \A x \in T : x <= Largest(T)
  <2>1. T # {}
    OBVIOUS
  <2> HIDE DEF T
  <2> QED
    BY <1>2, <1>6, <2>1, LargestOf
<1> QED
  BY <1>2, <1>7, <1>8
-------------------------------------------------------------------------------
(***************************************************************************)
(* read and the walk, from one link to the next.                           *)
(***************************************************************************)

\* An archive with every name once is a tree of its entries.
LEMMA NamespaceFacts ==
  ASSUME NEW s, IsSeq(s), Distinct(s), \A i \in 1 .. Len(s) : GoodEntry(s[i])
  PROVE  DOMAIN ByName(s) = Names(s) /\ GoodTree(ByName(s))
<1> DEFINE Chosen(m) == CHOOSE i \in DOMAIN s :
                           s[i].name = m /\ \A j \in i + 1 .. Len(s) : s[j].name # m
<1>1. Len(s) \in Nat /\ DOMAIN s = 1 .. Len(s)
  BY SeqFacts
<1>2. ByName(s) = [m \in Names(s) |-> s[Chosen(m)]]
  BY DEF ByName
<1>3. ASSUME NEW m \in Names(s) PROVE Chosen(m) \in 1 .. Len(s) /\ s[Chosen(m)].name = m
  <2>1. PICK k \in 1 .. Len(s) : s[k].name = m
    BY <1>1 DEF Names
  <2>2. \A j \in k + 1 .. Len(s) : j \in 1 .. Len(s) /\ j # k
    BY <1>1
  <2>3. \A j \in k + 1 .. Len(s) : s[j].name # m
    BY <2>1, <2>2, OncePerName
  <2> QED
    BY <1>1, <2>1, <2>3
<1> HIDE DEF Chosen
<1>4. DOMAIN ByName(s) = Names(s)
  BY <1>2
<1>5. ASSUME NEW m \in Names(s)
      PROVE  /\ CleanName(m) /\ ByName(s)[m].name = m
             /\ IsSeq(ByName(s)[m].data) /\ ByName(s)[m].absolute \in BOOLEAN
  <2> DEFINE r == s[Chosen(m)]
  <2>1. GoodEntry(r) /\ r.name = m
    BY <1>3
  <2>2. ByName(s)[m] = r
    BY <1>2
  <2> HIDE DEF r
  <2> QED
    BY <2>1, <2>2 DEF GoodEntry, WellFormedEntry, CleanName
<1>6. IsFiniteSet(Names(s))
  BY NamesFacts
<1> QED
  BY <1>4, <1>5, <1>6 DEF GoodTree

\* After k steps the walk is where read is, and has stood at every link read has seen.
OnTrack(tree, start, n, seen, k) ==
    /\ k + 1 <= (Cardinality(seen) + 1) * (Longest(tree) + 1)
    /\ Stands(tree, Walk(tree, start)[k], n)
    /\ \A m \in seen : \E j \in 0 .. k - 1 :
          Walk(tree, start)[j] = Walking(Parent(m), <<m[Len(m)]>>)

InStep(tree, start, n, seen) ==
    CleanName(n) /\ IsFiniteSet(seen) /\ \E k \in Nat : OnTrack(tree, start, n, seen, k)

LEMMA StartsInStep ==
  ASSUME NEW tree, GoodTree(tree), NEW n \in DOMAIN tree, ThroughDirectories(tree, n)
  PROVE  InStep(tree, n, n, {})
<1> DEFINE l == Longest(tree)
<1>1. CleanName(n) /\ l \in Nat /\ Len(n) <= l /\ Len(n) \in Nat
  BY LongestFacts, SeqFacts DEF GoodTree, CleanName
<1> HIDE DEF l
<1>2. PICK m \in 0 .. Len(n) : Stands(tree, Walk(tree, n)[m], n)
  BY <1>1, SetsOut
<1>3. IsFiniteSet({}) /\ Cardinality({}) = 0
  BY FS_EmptySet
<1>4. m \in Nat /\ m + 1 <= (0 + 1) * (l + 1)
  BY <1>1
<1>5. OnTrack(tree, n, n, {}, m)
  BY <1>2, <1>3, <1>4 DEF OnTrack, l
<1> QED
  BY <1>1, <1>3, <1>4, <1>5 DEF InStep

\* A link is no directory: the walk is about to look it up.
LEMMA AtLink ==
  ASSUME NEW tree, NEW n \in DOMAIN tree, tree[n].type = "link", CleanName(n),
         NEW w, Stands(tree, w, n)
  PROVE  n # <<>> /\ w = Walking(Parent(n), <<n[Len(n)]>>) /\ DirectoriesTo(tree, Parent(n))
<1>1. ~DirectoriesTo(tree, n)
  BY DirectoriesFacts DEF IsDirectory, CleanName
<1> QED
  BY <1>1 DEF Stands

LEMMA CandidateIsSeq ==
  ASSUME NEW tree, GoodTree(tree), NEW n \in DOMAIN tree, n # <<>>
  PROVE  IsSeq(Candidate(tree[n]))
<1> DEFINE d == tree[n].data
<1>1. IsSeq(n) /\ tree[n].name = n /\ IsSeq(d)
  BY DEF GoodTree, CleanName
<1>2. IsSeq(Parent(n))
  BY <1>1, ParentFacts
<1>3. Candidate(tree[n]) = d \/ Candidate(tree[n]) = Parent(n) \o d
  BY <1>1 DEF Candidate
<1> HIDE DEF d
<1>4. IsSeq(Parent(n) \o d)
  BY <1>1, <1>2, ConcatFacts
<1> QED
  BY <1>1, <1>3, <1>4

LEMMA StaysInStep ==
  ASSUME NEW tree, GoodTree(tree), NEW start, NEW n \in DOMAIN tree, tree[n].type = "link",
         NEW seen, n \notin seen, InStep(tree, start, n, seen),
         Normal(Candidate(tree[n])).inside, ThroughDirectories(tree, Candidate(tree[n]))
  PROVE  InStep(tree, start, Normal(Candidate(tree[n])).parts, seen \cup {n})
<1> DEFINE l == Longest(tree)
           d == Len(tree[n].data)
           next == Normal(Candidate(tree[n])).parts
           more == seen \cup {n}
           c == Cardinality(seen)
<1>1. CleanName(n) /\ IsFiniteSet(seen)
  BY DEF InStep
<1>2. PICK k \in Nat : OnTrack(tree, start, n, seen, k)
  BY DEF InStep
<1>3. /\ n # <<>> /\ Walk(tree, start)[k] = Walking(Parent(n), <<n[Len(n)]>>)
      /\ DirectoriesTo(tree, Parent(n))
  BY <1>1, <1>2, AtLink DEF OnTrack
<1>4. PICK m \in 0 .. d : Stands(tree, Walk(tree, start)[k + 1 + m], next)
  BY <1>3, FollowsLink
<1>5. CleanName(next)
  <2> DEFINE path == Candidate(tree[n])
  <2>1. IsSeq(path) /\ Normal(path).inside
    BY <1>3, CandidateIsSeq
  <2> HIDE DEF path
  <2>2. Len(path) \in 0 .. Len(path) /\ Normal(path).parts = PathAt(path, Len(path))
    BY <2>1, SeqFacts, InsideFacts
  <2>3. CleanName(Normal(path).parts)
    BY <2>1, <2>2, InsideFacts
  <2> QED
    BY <2>3 DEF path
<1>6. IsFiniteSet(more) /\ Cardinality(more) = c + 1 /\ c \in Nat
  BY <1>1, FS_AddElement, FS_CardinalityType
<1>7. l \in Nat /\ d <= l /\ d \in Nat
  BY LongestFacts, SeqFacts DEF GoodTree
<1>8. k + 1 <= (c + 1) * (l + 1)
  BY <1>2 DEF OnTrack
<1> DEFINE e == k + 1 + m
<1> HIDE DEF l, d, next, more, c
<1>9. e \in Nat /\ e + 1 <= (k + 1) + (l + 1) /\ k \in 0 .. e - 1
      /\ \A j \in 0 .. k - 1 : j \in 0 .. e - 1
  BY <1>7
<1>10. (c + 1 + 1) * (l + 1) = (c + 1) * (l + 1) + (l + 1) /\ (c + 1) * (l + 1) \in Nat
  BY <1>6, <1>7
<1>11. e + 1 <= (c + 1 + 1) * (l + 1)
  <2> DEFINE a == (c + 1) * (l + 1)
             b == (c + 1 + 1) * (l + 1)
  <2>1. a \in Nat /\ b = a + (l + 1) /\ k + 1 <= a
    BY <1>8, <1>10
  <2> HIDE DEF a, b, e
  <2>2. e + 1 <= b
    BY <1>7, <1>9, <2>1
  <2> QED
    BY <2>2 DEF b
<1>12. Stands(tree, Walk(tree, start)[e], next)
  BY <1>4
<1> HIDE DEF e
<1>13. ASSUME NEW x \in more
       PROVE  \E j \in 0 .. e - 1 : Walk(tree, start)[j] = Walking(Parent(x), <<x[Len(x)]>>)
  <2>1. CASE x = n
    BY <1>3, <1>9, <2>1
  <2>2. CASE x \in seen
    <3>1. PICK j \in 0 .. k - 1 : Walk(tree, start)[j] = Walking(Parent(x), <<x[Len(x)]>>)
      BY <1>2, <2>2 DEF OnTrack
    <3> QED
      BY <1>9, <3>1
  <2> QED
    BY <2>1, <2>2 DEF more
<1>14. OnTrack(tree, start, next, more, e)
  BY <1>6, <1>11, <1>12, <1>13 DEF OnTrack, l
<1>15. InStep(tree, start, next, more)
  BY <1>5, <1>6, <1>9, <1>14 DEF InStep
<1> QED
  BY <1>15 DEF next, more

\* Where read may go on, there are steps enough left to look its name up.
LEMMA StepsEnough ==
  ASSUME NEW tree, GoodTree(tree), NEW start, NEW n, NEW seen, IsFiniteSet(seen),
         Cardinality(seen) < Steps, NEW k \in Nat, OnTrack(tree, start, n, seen, k)
  PROVE  Enough(tree) \in Nat /\ k + 1 <= Enough(tree)
<1> DEFINE l == Longest(tree)
           c == Cardinality(seen)
<1>1. l \in Nat /\ c \in Nat /\ Steps \in Nat /\ c < Steps
  BY LongestFacts, FS_CardinalityType
<1>2. k + 1 <= (c + 1) * (l + 1) /\ Enough(tree) = (Steps + 1) * (l + 1)
  BY DEF OnTrack, Enough
<1> HIDE DEF l, c
<1>3. (Steps + 1) * (l + 1) = (c + 1) * (l + 1) + (Steps - c) * (l + 1)
  BY <1>1
<1>4. (c + 1) * (l + 1) \in Nat /\ (Steps - c) * (l + 1) \in Nat
  <2>1. Steps - c \in Nat /\ l + 1 \in Nat /\ c + 1 \in Nat
    BY <1>1
  <2> QED
    BY <2>1
<1> DEFINE a == (c + 1) * (l + 1)
           b == (Steps - c) * (l + 1)
<1>5. a \in Nat /\ b \in Nat /\ Enough(tree) = a + b /\ k + 1 <= a
  BY <1>2, <1>3, <1>4
<1> HIDE DEF a, b
<1> QED
  BY <1>5

LEMMA EndsInStep ==
  ASSUME NEW tree, GoodTree(tree), NEW start, NEW n, NEW seen, InStep(tree, start, n, seen),
         Cardinality(seen) < Steps
  PROVE  LET walk == Walk(tree, start)[Enough(tree)]
         IN  /\ NoLink(tree, n) => walk = Walking(n, <<>>)
             /\ n \notin DOMAIN tree /\ n # <<>> => walk.lost
<1>1. CleanName(n) /\ IsFiniteSet(seen)
  BY DEF InStep
<1>2. PICK k \in Nat : OnTrack(tree, start, n, seen, k)
  BY DEF InStep
<1> DEFINE e == Enough(tree)
<1>3. e \in Nat /\ k + 1 <= e
  BY <1>1, <1>2, StepsEnough
<1>4. Stands(tree, Walk(tree, start)[k], n)
  BY <1>2 DEF OnTrack
<1> HIDE DEF e
<1>5. ASSUME NoLink(tree, n) PROVE Walk(tree, start)[e] = Walking(n, <<>>)
  BY <1>1, <1>3, <1>4, <1>5, FindsIt
<1>6. ASSUME n \notin DOMAIN tree, n # <<>> PROVE Walk(tree, start)[e].lost
  BY <1>1, <1>3, <1>4, <1>6, LacksIt
<1> QED
  BY <1>5, <1>6 DEF e

\* A link that read has seen already is where the walk has been before.
LEMMA GoesInCircles ==
  ASSUME NEW tree, NEW start, NEW n \in DOMAIN tree, tree[n].type = "link",
         NEW seen, n \in seen, InStep(tree, start, n, seen)
  PROVE  \A m \in Nat : ~Over(Walk(tree, start)[m])
<1>1. CleanName(n)
  BY DEF InStep
<1>2. PICK k \in Nat : OnTrack(tree, start, n, seen, k)
  BY DEF InStep
<1>3. Stands(tree, Walk(tree, start)[k], n)
  BY <1>2 DEF OnTrack
<1>4. n # <<>>
  BY <1>1, <1>3, AtLink
<1>5. PICK j \in 0 .. k - 1 : Walk(tree, start)[j] = Walking(Parent(n), <<n[Len(n)]>>)
  BY <1>2 DEF OnTrack
<1> QED
  BY <1>1, <1>3, <1>4, <1>5, LoopHasNoEnd
-------------------------------------------------------------------------------
\* While read goes through real directories the walk is with it, and its results are
\* what it found at the name it stopped at.
Looking ==
    newcPlain /\ (newcState = "read" \/ (newcState = "ready" /\ newcResult # "none")) =>
        InStep(Namespace, newcStart, newcName, newcSeen)

Looked ==
    newcState = "ready" =>
        /\ newcResult = "found" => /\ Cardinality(newcSeen) < Steps
                                   /\ newcName \in DOMAIN Namespace
                                   /\ Namespace[newcName].type # "link"
        /\ newcResult = "lacks" => /\ Cardinality(newcSeen) < Steps
                                   /\ newcName \notin DOMAIN Namespace
        /\ newcResult = "loop"  => /\ Cardinality(newcSeen) < Steps
                                   /\ newcName \in DOMAIN Namespace
                                   /\ Namespace[newcName].type = "link" /\ newcName \in newcSeen

LookInvariant == Looking /\ Looked /\ (newcState = "parse" => newcResult = "none")

LEMMA NamespaceGood ==
  ASSUME NewcInv, newcState \in {"ready", "read"}
  PROVE  DOMAIN Namespace = Names(newcEntries) /\ GoodTree(Namespace)
BY NamespaceFacts DEF NewcInv, Accepted, Namespace

LEMMA SameTree == UNCHANGED newcEntries => Namespace' = Namespace
BY DEF Namespace

LEMMA ReadFromLooks ==
  ASSUME NewcInv, LookInvariant, NEW n \in Names(newcEntries), ReadFrom(n)
  PROVE  LookInvariant'
<1> DEFINE tree == Namespace
<1>1. /\ newcState = "ready" /\ newcState' = "read" /\ newcResult' = "none"
      /\ newcName' = n /\ newcStart' = n /\ newcSeen' = {}
      /\ newcPlain' = ThroughDirectories(Namespace, n) /\ newcEntries' = newcEntries
  BY DEF ReadFrom, NothingRead
<1>2. n \in DOMAIN tree /\ GoodTree(tree) /\ Namespace' = tree
  BY <1>1, NamespaceGood, SameTree
<1> HIDE DEF tree
<1>3. ASSUME newcPlain' PROVE InStep(tree, n, n, {})
  BY <1>1, <1>2, <1>3, StartsInStep DEF tree
<1>4. Looking'
  BY <1>1, <1>2, <1>3 DEF Looking
<1> QED
  BY <1>1, <1>4 DEF LookInvariant, Looked

LEMMA ReadTurnLooks ==
  ASSUME NewcInv, LookInvariant, ReadTurn
  PROVE  LookInvariant'
<1> DEFINE tree == Namespace
           n    == newcName
           seen == newcSeen
<1>1. newcState = "read" /\ newcEntries' = newcEntries /\ newcStart' = newcStart
  BY DEF ReadTurn, ReadEnds
<1>2. DOMAIN tree = Names(newcEntries) /\ GoodTree(tree) /\ Namespace' = tree
  BY <1>1, NamespaceGood, SameTree
<1>3. newcPlain => InStep(tree, newcStart, n, seen)
  BY <1>1 DEF LookInvariant, Looking
<1>4. Entry(n) = tree[n]
  BY DEF Entry
<1>5. Cardinality(seen) \in Nat /\ Steps \in Nat
  BY FS_CardinalityType DEF NewcInv
<1> HIDE DEF tree
<1>6. ASSUME NEW result, ReadEnds(result), newcState = "read" PROVE Looking' /\ newcState' = "ready"
  BY <1>1, <1>2, <1>3, <1>6 DEF Looking, ReadEnds
<1>7. CASE Cardinality(seen) >= Steps
  <2>1. ReadEnds("depth")
    BY <1>7 DEF ReadTurn
  <2> QED
    BY <1>1, <1>6, <2>1 DEF LookInvariant, Looked, ReadEnds
<1>8. CASE ~(Cardinality(seen) >= Steps) /\ n \notin DOMAIN tree
  <2>1. ReadEnds("lacks")
    BY <1>2, <1>8 DEF ReadTurn
  <2>2. Cardinality(seen) < Steps
    BY <1>5, <1>8
  <2> QED
    BY <1>1, <1>2, <1>6, <1>8, <2>1, <2>2 DEF LookInvariant, Looked, ReadEnds
<1>9. CASE ~(Cardinality(seen) >= Steps) /\ n \in DOMAIN tree /\ tree[n].type # "link"
  <2>1. ReadEnds("found")
    BY <1>2, <1>4, <1>9 DEF ReadTurn
  <2>2. Cardinality(seen) < Steps
    BY <1>5, <1>9
  <2> QED
    BY <1>1, <1>2, <1>6, <1>9, <2>1, <2>2 DEF LookInvariant, Looked, ReadEnds
<1>10. CASE /\ ~(Cardinality(seen) >= Steps) /\ n \in DOMAIN tree /\ tree[n].type = "link"
            /\ n \in seen
  <2>1. ReadEnds("loop")
    BY <1>2, <1>4, <1>10 DEF ReadTurn
  <2>2. Cardinality(seen) < Steps
    BY <1>5, <1>10
  <2> QED
    BY <1>1, <1>2, <1>6, <1>10, <2>1, <2>2 DEF LookInvariant, Looked, ReadEnds
<1>11. CASE /\ ~(Cardinality(seen) >= Steps) /\ n \in DOMAIN tree /\ tree[n].type = "link"
            /\ n \notin seen
  <2> DEFINE c == Candidate(tree[n])
  <2>1. CASE ~Normal(c).inside
    <3>1. ReadEnds("escape")
      BY <1>2, <1>4, <1>11, <2>1 DEF ReadTurn
    <3> QED
      BY <1>1, <1>6, <3>1 DEF LookInvariant, Looked, ReadEnds
  <2>2. CASE Normal(c).inside
    <3>1. /\ newcName' = Normal(c).parts /\ newcSeen' = seen \cup {n}
          /\ newcPlain' = (newcPlain /\ ThroughDirectories(tree, c))
          /\ newcState' = "read"
      BY <1>1, <1>2, <1>4, <1>11, <2>2 DEF ReadTurn, tree
    <3>2. ASSUME newcPlain' PROVE InStep(tree, newcStart, Normal(c).parts, seen \cup {n})
      BY <1>2, <1>3, <1>11, <2>2, <3>1, <3>2, StaysInStep
    <3> HIDE DEF c
    <3>3. Looking'
      BY <1>1, <1>2, <3>1, <3>2 DEF Looking
    <3> QED
      BY <3>1, <3>3 DEF LookInvariant, Looked
  <2> QED
    BY <2>1, <2>2
<1> QED
  BY <1>7, <1>8, <1>9, <1>10, <1>11

LEMMA NewcSpecLooks == NewcSpec => []LookInvariant
<1>1. NewcInit => LookInvariant
  BY DEF NewcInit, LookInvariant, Looking, Looked
<1>2. ASSUME NewcInv, LookInvariant, NewcNext PROVE LookInvariant'
  <2>1. CASE ParseTrailer \/ ParseEntry \/ ParseFails
    BY <1>2, <2>1 DEF ParseTrailer, ParseEntry, ParseFails, newcLook, LookInvariant, Looking, Looked
  <2>2. ASSUME NEW entries, Change(entries) PROVE LookInvariant'
    BY <2>2 DEF Change, NothingRead, LookInvariant, Looking, Looked
  <2>3. CASE \E n \in DOMAIN Additions : AddEntry(n, Additions[n])
    BY <2>2, <2>3 DEF AddEntry
  <2>4. CASE \E n \in Replaced : ReplaceEntry(n, <<"replaced">>)
    BY <2>2, <2>4 DEF ReplaceEntry
  <2>5. CASE Write
    BY <2>5 DEF Write, NothingRead, LookInvariant, Looking, Looked
  <2> QED
    BY <1>2, <2>1, <2>3, <2>4, <2>5, ReadFromLooks, ReadTurnLooks DEF NewcNext
<1>3. ASSUME LookInvariant, UNCHANGED newcVars PROVE LookInvariant'
  BY <1>3, SameTree DEF newcVars, newcLook, LookInvariant, Looking, Looked
<1> QED
  BY <1>1, <1>2, <1>3, NewcSpecInv, PTL DEF NewcSpec

\* In an archive of any size, and through links of any length, read and the kernel
\* agree on what a name stands for wherever the links go through real directories.
THEOREM OpensTheSame == NewcSpec => []ReadsWhatTheKernelOpens
<1>1. ASSUME NewcInv, LookInvariant PROVE ReadsWhatTheKernelOpens
  <2> SUFFICES ASSUME newcPlain, newcState = "ready", newcResult # "none"
               PROVE  LET walk == Walk(Namespace, newcStart)[Enough(Namespace)]
                      IN  /\ newcResult = "found" =>
                                ~walk.lost /\ walk.todo = <<>> /\ walk.at = newcName
                          /\ newcResult = "lacks" => walk.lost \/ newcName = <<>>
                          /\ newcResult = "loop"  => ~walk.lost /\ walk.todo # <<>>
    BY DEF ReadsWhatTheKernelOpens
  <2> DEFINE tree == Namespace
             n    == newcName
             walk == Walk(tree, newcStart)[Enough(tree)]
  <2>1. GoodTree(tree) /\ InStep(tree, newcStart, n, newcSeen)
    BY <1>1, NamespaceGood DEF LookInvariant, Looking
  <2>2. Looked
    BY <1>1 DEF LookInvariant
  <2> HIDE DEF tree
  <2>3. CASE newcResult = "found"
    <3>1. Cardinality(newcSeen) < Steps /\ NoLink(tree, n)
      BY <2>2, <2>3 DEF Looked, NoLink, tree
    <3>2. walk = Walking(n, <<>>)
      BY <2>1, <3>1, EndsInStep
    <3> HIDE DEF walk
    <3>3. ~walk.lost /\ walk.todo = <<>> /\ walk.at = n
      BY <3>2, WalkingFacts
    <3> QED
      BY <2>3, <3>3 DEF walk, tree
  <2>4. CASE newcResult = "lacks"
    <3>1. Cardinality(newcSeen) < Steps /\ n \notin DOMAIN tree
      BY <2>2, <2>4 DEF Looked, tree
    <3>2. n # <<>> => walk.lost
      BY <2>1, <3>1, EndsInStep
    <3> QED
      BY <2>4, <3>2 DEF tree
  <2>5. CASE newcResult = "loop"
    <3>1. /\ n \in DOMAIN tree /\ tree[n].type = "link" /\ n \in newcSeen
      BY <2>2, <2>5 DEF Looked, tree
    <3>2. Enough(tree) \in Nat
      <4>1. Longest(tree) \in Nat /\ Steps \in Nat
        BY <2>1, LongestFacts
      <4> QED
        BY <4>1 DEF Enough
    <3>3. ~Over(walk)
      BY <2>1, <3>1, <3>2, GoesInCircles
    <3> HIDE DEF walk
    <3>4. ~walk.lost /\ walk.todo # <<>>
      BY <3>3 DEF Over
    <3> QED
      BY <2>5, <3>4 DEF walk, tree
  <2>6. CASE newcResult \notin {"found", "lacks", "loop"}
    BY <2>6
  <2> QED
    BY <2>3, <2>4, <2>5, <2>6
<1> QED
  BY <1>1, NewcSpecInv, NewcSpecLooks, PTL

\* Where read gives up at a link it has seen, no number of steps would take the kernel
\* to an end: the limit on the steps hides nothing.
LoopsForever ==
    newcPlain /\ newcState = "ready" /\ newcResult = "loop" =>
        \A m \in Nat : LET walk == Walk(Namespace, newcStart)[m] IN ~walk.lost /\ walk.todo # <<>>

THEOREM LoopHasNoExit == NewcSpec => []LoopsForever
<1>1. ASSUME LookInvariant PROVE LoopsForever
  <2> SUFFICES ASSUME newcPlain, newcState = "ready", newcResult = "loop"
               PROVE  \A m \in Nat : LET walk == Walk(Namespace, newcStart)[m]
                                     IN  ~walk.lost /\ walk.todo # <<>>
    BY DEF LoopsForever
  <2>1. /\ InStep(Namespace, newcStart, newcName, newcSeen)
        /\ newcName \in DOMAIN Namespace /\ Namespace[newcName].type = "link"
        /\ newcName \in newcSeen
    BY <1>1 DEF LookInvariant, Looking, Looked
  <2>2. \A m \in Nat : ~Over(Walk(Namespace, newcStart)[m])
    BY <2>1, GoesInCircles
  <2> QED
    BY <2>2 DEF Over
<1> QED
  BY <1>1, NewcSpecLooks, PTL
-------------------------------------------------------------------------------
(***************************************************************************)
(* SourceIdentity: while the identity of a checkout is taken, file after   *)
(* file, the checkout may be edited.                                       *)
(***************************************************************************)
Listed   == {"flags", "hash", "submodules", "tree", "done"} \cup Examining
Compares == Listed \cup {"untracked"}

\* What `git diff HEAD' says of a file, changed or not.
Diffed(f) == IF f \in srcRecord.differs THEN srcRecord.diff[f] ELSE HeadTree[f]

\* A checkout in which files are only edited: what git has said of each was so of
\* it at some moment, by the stage source_identity is in.
Steady ==
    /\ \A f \in SourceFile : srcWork[f] \in srcSeen[f]
    /\ srcRecord.commit # Unborn => srcRecord.commit = srcHead
    /\ srcPc \in Compares /\ srcRecord.commit # Unborn =>
          \A f \in SourceFile :
              IF srcIndex[f] = NoFile THEN Diffed(f) = NoFile
              ELSE f \notin srcFlagged => Diffed(f) \in srcSeen[f]
    /\ srcPc \in Listed =>
          \A f \in SourceFile :
              IF f \in srcRecord.untracked THEN srcIndex[f] = NoFile
              ELSE srcIndex[f] = NoFile => NoFile \in srcSeen[f]
    /\ srcPc \in Listed \ {"flags"} => srcRecord.flagged = srcFlagged
    /\ srcPc \in {"submodules", "tree", "done"} =>
          srcRecord.untracked \subseteq srcRecord.odd \cup srcRecord.hashed
    /\ srcPc = "done" /\ srcRecord.commit # Unborn => srcRecord.tree = srcHead

\* The pieces are the first of a content.
Begins(pieces, content) ==
    /\ Len(pieces) <= Len(content)
    /\ \A i \in DOMAIN pieces : pieces[i] = content[i]

\* Of a file that has been hashed: what it was put together from.
HashedRight(f) ==
    /\ \E v \in Had(f) : srcRecord.bytes[f] = Len(v)
    /\ PiecedTogether(srcRecord.hashes[f], Had(f))
    /\ f \notin srcTorn => \E v \in Had(f) : /\ srcRecord.bytes[f] = Len(v)
                                           /\ srcRecord.hashes[f] = v

\* Of the file that is being looked at: what has been put together so far, and that
\* it is still so if the file has been left alone.
ReadRight(f) ==
    /\ srcPc # "stat" => \E v \in Had(f) : srcReading.bytes = Len(v)
    /\ srcPc = "read" => /\ srcReading.opened \in Had(f)
                         /\ PiecedTogether(srcReading.pieces, Had(f))
    /\ f \notin srcTorn =>
          /\ srcWork[f] # NoFile
          /\ srcPc # "stat" => srcReading.bytes = Len(srcWork[f])
          /\ srcPc = "read" => /\ srcReading.opened = srcWork[f]
                               /\ Begins(srcReading.pieces, srcWork[f])

AllHashedRight == \A f \in srcRecord.hashed : HashedRight(f)
BeingReadRight == srcPc \in Examining => ReadRight(srcReading.file)

SrcInv ==
    /\ SrcTypeOK
    /\ srcPc \in Examining => /\ srcReading.file \notin srcRecord.odd
                              /\ srcPc # "read" => srcReading.pieces = <<>>
    /\ srcPc # "idle" /\ ~srcMoved => Steady /\ AllHashedRight /\ BeingReadRight
-------------------------------------------------------------------------------
USE VersionAssumption, NoFileAssumption, MaxCommitsAssumption

\* What was put together from some contents was put together from more.
LEMMA PiecedOfMore ==
  ASSUME NEW pieces, NEW S, NEW T, S \subseteq T, PiecedTogether(pieces, S)
  PROVE  PiecedTogether(pieces, T)
BY DEF PiecedTogether

\* One more piece of a content.
LEMMA PieceMore ==
  ASSUME NEW pieces \in Seq(Piece), NEW v \in Seq(Piece), Len(pieces) + 1 <= Len(v)
  PROVE  LET more == Append(pieces, v[Len(pieces) + 1])
         IN  /\ more \in Seq(Piece)
             /\ \A S : v \in S /\ PiecedTogether(pieces, S) => PiecedTogether(more, S)
             /\ Begins(pieces, v) => Begins(more, v)
<1> DEFINE next == Len(pieces) + 1
           more == Append(pieces, v[next])
<1>1. next \in 1 .. Len(v) /\ v[next] \in Piece /\ DOMAIN v = 1 .. Len(v)
  OBVIOUS
<1>2. /\ more \in Seq(Piece) /\ Len(more) = next
      /\ \A i \in 1 .. Len(pieces) : more[i] = pieces[i]
      /\ more[next] = v[next]
  BY <1>1, AppendProperties
<1>3. /\ DOMAIN pieces = 1 .. Len(pieces) /\ DOMAIN more = 1 .. next
      /\ \A i \in 1 .. next : i \in 1 .. Len(pieces) \/ i = next
  BY <1>2
<1> HIDE DEF more, next
<1>4. ASSUME NEW S, v \in S, PiecedTogether(pieces, S) PROVE PiecedTogether(more, S)
  BY <1>1, <1>2, <1>3, <1>4 DEF PiecedTogether
<1>5. ASSUME Begins(pieces, v) PROVE Begins(more, v)
  BY <1>1, <1>2, <1>3, <1>5 DEF Begins
<1> QED
  BY <1>2, <1>4, <1>5 DEF more, next

\* All the pieces of a content.
LEMMA WholeBegins ==
  ASSUME NEW pieces \in Seq(Piece), NEW v \in Seq(Piece), Begins(pieces, v), Len(pieces) >= Len(v)
  PROVE  pieces = v
<1>1. Len(pieces) = Len(v) /\ \A i \in 1 .. Len(pieces) : pieces[i] = v[i]
  BY DEF Begins
<1> QED
  BY <1>1, SeqEqual

LEMMA NoReadingType == NoReading \in Readings
BY EmptySeq DEF NoReading, Readings

LEMMA SrcInitInv == SrcInit => SrcInv
<1> SUFFICES ASSUME SrcInit PROVE SrcInv
  OBVIOUS
<1> USE DEF SrcInit
<1>1. EmptySnapshot \in Snapshot
  BY DEF EmptySnapshot, Snapshot
<1>2. srcTrees \in [1 .. 0 -> Snapshot]
  OBVIOUS
<1>3. NoRecord \in Records
  BY <1>1, EmptySeq DEF NoRecord, Records, Unborn
<1>4. \E n \in 0 .. MaxCommits : srcTrees \in [1 .. n -> Snapshot] /\ srcHead \in 0 .. n
  <2>1. 0 \in 0 .. MaxCommits /\ srcHead \in 0 .. 0
    BY DEF Unborn
  <2> QED
    BY <1>2, <2>1
<1>5. /\ srcRecord.odd \cap srcRecord.hashed = {}
      /\ srcReading \in Readings /\ srcReading.file = NoFile
  BY NoReadingType DEF NoRecord, NoReading
<1>6. srcSeen \in [SourceFile -> SUBSET (Version \cup {NoFile})]
  OBVIOUS
<1> QED
  BY <1>1, <1>3, <1>4, <1>5, <1>6 DEF SrcInv, SrcTypeOK, Examining

\* While the user acts: the record stays, and what it says of a checkout that is
\* only edited stays so.
LEMMA ChangesInv ==
  ASSUME SrcInv, NEW moved \in BOOLEAN, CheckoutChanges(moved),
         \E n \in 0 .. MaxCommits : srcTrees' \in [1 .. n -> Snapshot] /\ srcHead' \in 0 .. n,
         srcIndex' \in Snapshot, srcWork' \in Snapshot,
         srcFlagged' \subseteq {f \in SourceFile : srcIndex'[f] # NoFile},
         srcReading' \in Readings, srcReading'.file = srcReading.file,
         srcReading'.bytes = srcReading.bytes, srcReading'.pieces = srcReading.pieces,
         \/ srcReading'.opened = srcReading.opened
         \/ /\ srcReading.file \in SourceFile
            /\ srcReading'.opened = srcWork'[srcReading.file] /\ srcReading'.opened \in Version,
         ~moved => UNCHANGED <<srcTrees, srcHead, srcIndex, srcFlagged>>
  PROVE  SrcInv'
<1>0. SrcTypeOK /\ srcPc' = srcPc /\ srcRecord' = srcRecord
  BY DEF SrcInv, CheckoutChanges
<1>1. srcSeen' \in [SourceFile -> SUBSET (Version \cup {NoFile})] /\ srcTorn' \subseteq SourceFile
  BY <1>0 DEF SrcTypeOK, NothingSeen, Snapshot, CheckoutChanges
<1>2. SrcTypeOK'
  BY <1>0, <1>1 DEF SrcTypeOK, CheckoutChanges
<1>3. ASSUME srcPc' # "idle", ~srcMoved' PROVE Steady' /\ AllHashedRight' /\ BeingReadRight'
  <2>1. /\ Steady /\ AllHashedRight /\ BeingReadRight
        /\ UNCHANGED <<srcTrees, srcHead, srcIndex, srcFlagged, srcPc, srcRecord>>
        /\ srcSeen' = [f \in SourceFile |-> srcSeen[f] \cup {srcWork'[f]}]
        /\ srcTorn' = srcTorn \cup {f \in SourceFile : f = srcReading.file /\ srcWork'[f] # srcWork[f]}
    BY <1>0, <1>3 DEF SrcInv, SrcTypeOK, CheckoutChanges
  <2>2. \A f \in SourceFile : /\ srcWork'[f] \in srcSeen'[f] /\ srcSeen[f] \subseteq srcSeen'[f]
                              /\ Had(f) \subseteq Had(f)'
    BY <2>1 DEF Had
  <2>3. \A f \in SourceFile : Diffed(f)' = Diffed(f)
    BY <2>1 DEF Diffed, HeadTree
  <2>4. Steady'
    BY <2>1, <2>2, <2>3 DEF Steady
  <2>5. ASSUME NEW f \in srcRecord.hashed PROVE HashedRight(f)'
    <3>1. f \in SourceFile /\ HashedRight(f)
      BY <1>0, <2>1 DEF AllHashedRight, SrcTypeOK, Records
    <3>2. PiecedTogether(srcRecord.hashes[f], Had(f)) /\ Had(f) \subseteq Had(f)'
      BY <2>2, <3>1 DEF HashedRight
    <3>3. PiecedTogether(srcRecord.hashes[f], Had(f)')
      BY <3>2, PiecedOfMore
    <3>4. \E v \in Had(f)' : srcRecord.bytes[f] = Len(v)
      BY <2>2, <3>1 DEF HashedRight
    <3>5. f \notin srcTorn' => \E v \in Had(f)' : /\ srcRecord.bytes[f] = Len(v)
                                               /\ srcRecord.hashes[f] = v
      BY <2>1, <2>2, <3>1 DEF HashedRight
    <3> QED
      BY <2>1, <3>3, <3>4, <3>5 DEF HashedRight, PiecedTogether
  <2>6. ASSUME srcPc \in Examining PROVE ReadRight(srcReading.file)'
    <3>0. PICK f \in SourceFile : f = srcReading.file
      BY <1>0, <2>6 DEF SrcTypeOK, Records
    <3>1. ReadRight(f)
      BY <2>1, <2>6, <3>0 DEF BeingReadRight
    <3>2. srcPc = "read" => PiecedTogether(srcReading.pieces, Had(f)')
      <4>1. /\ srcPc = "read" => PiecedTogether(srcReading.pieces, Had(f))
            /\ Had(f) \subseteq Had(f)'
        BY <2>2, <3>1 DEF ReadRight
      <4> QED
        BY <4>1, PiecedOfMore
    <3>3. srcReading'.file = f /\ srcReading'.pieces = srcReading.pieces
          /\ srcReading'.bytes = srcReading.bytes
      BY <3>0
    <3>4. srcPc = "read" => srcReading'.opened \in Had(f)'
      BY <2>2, <3>0, <3>1 DEF ReadRight, Had
    <3>5. f \notin srcTorn' => srcWork'[f] = srcWork[f] /\ f \notin srcTorn
      BY <2>1, <3>0
    <3>6. ReadRight(f)' <=>
            /\ srcPc # "stat" => \E v \in Had(f)' : srcReading.bytes = Len(v)
            /\ srcPc = "read" => /\ srcReading'.opened \in Had(f)'
                                 /\ PiecedTogether(srcReading.pieces, Had(f)')
            /\ f \notin srcTorn' =>
                  /\ srcWork'[f] # NoFile
                  /\ srcPc # "stat" => srcReading.bytes = Len(srcWork'[f])
                  /\ srcPc = "read" => /\ srcReading'.opened = srcWork'[f]
                                       /\ Begins(srcReading.pieces, srcWork'[f])
      BY <2>1, <3>3 DEF ReadRight
    <3>7. f \notin srcTorn' =>
                  /\ srcWork'[f] # NoFile
                  /\ srcPc # "stat" => srcReading.bytes = Len(srcWork'[f])
                  /\ srcPc = "read" => /\ srcReading'.opened = srcWork'[f]
                                       /\ Begins(srcReading.pieces, srcWork'[f])
      BY <3>0, <3>1, <3>5 DEF ReadRight
    <3>8. srcPc # "stat" => \E v \in Had(f)' : srcReading.bytes = Len(v)
      BY <2>2, <3>1 DEF ReadRight
    <3> QED
      BY <3>2, <3>3, <3>4, <3>6, <3>7, <3>8
  <2> QED
    BY <2>1, <2>4, <2>5, <2>6 DEF AllHashedRight, BeingReadRight
<1> QED
  BY <1>0, <1>2, <1>3 DEF SrcInv

LEMMA UserInv == ASSUME SrcInv, UserActs PROVE SrcInv'
<1>0. PICK n \in 0 .. MaxCommits : srcTrees \in [1 .. n -> Snapshot] /\ srcHead \in 0 .. n
  BY DEF SrcInv, SrcTypeOK
<1>1. ASSUME NEW f \in SourceFile, NEW v \in Version \cup {NoFile}, Edit(f, v) PROVE SrcInv'
  <2>1. srcWork' \in Snapshot
    BY <1>1 DEF Edit, SrcInv, SrcTypeOK, Snapshot
  <2>2. /\ srcReading' \in Readings /\ \A k \in {"file", "bytes", "opened", "pieces"} :
                                            srcReading'[k] = srcReading[k]
    BY <1>1 DEF Edit, SrcInv, SrcTypeOK, Readings
  <2> QED
    BY <1>0, <1>1, <2>1, <2>2, ChangesInv DEF Edit, SrcInv, SrcTypeOK
<1>2. ASSUME NEW f \in SourceFile, Stage(f) PROVE SrcInv'
  <2>1. srcIndex' \in Snapshot /\ srcFlagged' \subseteq {g \in SourceFile : srcIndex'[g] # NoFile}
    BY <1>2 DEF Stage, SrcInv, SrcTypeOK, Snapshot
  <2> QED
    BY <1>0, <1>2, <2>1, ChangesInv DEF Stage, SrcInv, SrcTypeOK
<1>3. ASSUME NEW f \in SourceFile, Flag(f) PROVE SrcInv'
  <2>1. srcFlagged' \subseteq {g \in SourceFile : srcIndex'[g] # NoFile}
    BY <1>3 DEF Flag, SrcInv, SrcTypeOK
  <2> QED
    BY <1>0, <1>3, <2>1, ChangesInv DEF Flag, SrcInv, SrcTypeOK
<1>4. ASSUME MakeCommit PROVE SrcInv'
  <2>1. Cardinality(DOMAIN srcTrees) = n
    <3>1. DOMAIN srcTrees = 1 .. n /\ n \in Int /\ 1 \in Int
      BY <1>0
    <3>2. Cardinality(1 .. n) = IF 1 > n THEN 0 ELSE n - 1 + 1
      BY <3>1, FS_Interval
    <3> QED
      BY <1>0, <3>1, <3>2
  <2>2. /\ n + 1 \in 0 .. MaxCommits /\ srcHead' \in 0 .. n + 1
        /\ srcTrees' \in [1 .. n + 1 -> Snapshot]
    BY <1>0, <1>4, <2>1 DEF MakeCommit, SrcInv, SrcTypeOK
  <2>3. \E k \in 0 .. MaxCommits : srcTrees' \in [1 .. k -> Snapshot] /\ srcHead' \in 0 .. k
    BY <2>2
  <2> QED
    BY <1>4, <2>3, ChangesInv DEF MakeCommit, SrcInv, SrcTypeOK
<1>5. ASSUME NEW c \in DOMAIN srcTrees, CheckOut(c) PROVE SrcInv'
  <2>1. c \in 1 .. n /\ srcTrees[c] \in Snapshot
    BY <1>0
  <2>2. srcWork' \in Snapshot /\ srcIndex' \in Snapshot /\ srcFlagged' = {}
    BY <1>5, <2>1 DEF CheckOut, SrcInv, SrcTypeOK, Snapshot
  <2>3. srcHead' \in 0 .. n /\ srcTrees' = srcTrees
    BY <1>5, <2>1 DEF CheckOut
  <2>4. CheckoutChanges(TRUE)
    BY <1>5 DEF CheckOut
  <2>5. /\ srcReading' \in Readings /\ \A k \in {"file", "bytes", "opened", "pieces"} :
                                            srcReading'[k] = srcReading[k]
    BY <1>5 DEF CheckOut, SrcInv, SrcTypeOK, Readings
  <2>6. \E k \in 0 .. MaxCommits : srcTrees' \in [1 .. k -> Snapshot] /\ srcHead' \in 0 .. k
    BY <1>0, <2>3
  <2> QED
    BY <2>2, <2>4, <2>5, <2>6, ChangesInv
<1>6. ASSUME NEW f \in SourceFile, NEW v \in Version, Rewrite(f, v) PROVE SrcInv'
  <2>1. srcWork' \in Snapshot /\ srcWork'[f] = v
    BY <1>6 DEF Rewrite, SrcInv, SrcTypeOK, Snapshot
  <2>2. /\ srcReading' \in Readings /\ \A k \in {"file", "bytes", "pieces"} :
                                            srcReading'[k] = srcReading[k]
        /\ srcReading'.opened = srcReading.opened \/ (f = srcReading.file /\ srcReading'.opened = v)
    BY <1>6 DEF Rewrite, SrcInv, SrcTypeOK, Readings
  <2> QED
    BY <1>0, <1>6, <2>1, <2>2, ChangesInv DEF Rewrite, SrcInv, SrcTypeOK
<1> QED
  BY <1>1, <1>2, <1>3, <1>4, <1>5, <1>6 DEF UserActs

\* What was right of the files that were hashed stays so while nothing is hashed.
LEMMA KeepsHashed ==
  ASSUME UNCHANGED srcHistory, srcRecord'.hashed = srcRecord.hashed,
         srcRecord'.bytes = srcRecord.bytes, srcRecord'.hashes = srcRecord.hashes
  PROVE  AllHashedRight => AllHashedRight'
BY DEF AllHashedRight, HashedRight, PiecedTogether, Had, srcHistory

\* While source_identity works, the checkout stays: what is left to show is what
\* it has found out.
LEMMA FoundInv ==
  ASSUME SrcInv, UNCHANGED <<srcCheckout, srcHistory>>,
         srcPc' \in {"idle", "commit", "branch", "diff", "unborn", "untracked", "flags",
                     "hash", "submodules", "tree", "done", "failed"},
         srcRecord' \in Records, srcReading' = NoReading,
         srcRecord'.odd \cap srcRecord'.hashed = {},
         srcPc # "idle",
         Steady /\ AllHashedRight /\ BeingReadRight => Steady' /\ AllHashedRight'
  PROVE  SrcInv'
<1>1. SrcTypeOK'
  BY NoReadingType DEF SrcInv, SrcTypeOK, srcCheckout, srcHistory, Examining, NoReading
<1>2. srcPc' \notin Examining /\ BeingReadRight'
  BY DEF Examining, BeingReadRight
<1> QED
  BY <1>1, <1>2 DEF SrcInv, srcHistory

\* The same for a step that finds out nothing of the files that were hashed.
LEMMA FoundElse ==
  ASSUME SrcInv, UNCHANGED <<srcCheckout, srcHistory>>,
         srcPc' \in {"idle", "commit", "branch", "diff", "unborn", "untracked", "flags",
                     "hash", "submodules", "tree", "done", "failed"},
         srcRecord' \in Records, srcReading' = NoReading,
         srcRecord'.odd \cap srcRecord.hashed = {}, srcRecord'.hashed = srcRecord.hashed,
         srcRecord'.bytes = srcRecord.bytes, srcRecord'.hashes = srcRecord.hashes,
         srcPc # "idle",
         Steady => Steady'
  PROVE  SrcInv'
BY KeepsHashed, FoundInv

\* The same for a step in the middle of a file.
LEMMA ExaminedInv ==
  ASSUME SrcInv, UNCHANGED <<srcCheckout, srcHistory, srcRecord>>,
         srcPc \in {"hash"} \cup Examining, srcPc' \in Examining, srcReading' \in Readings,
         srcReading'.file \in srcRecord.untracked \ srcRecord.odd,
         IF srcPc' = "read" THEN srcReading'.opened \in Version ELSE srcReading'.pieces = <<>>,
         Steady /\ BeingReadRight => BeingReadRight'
  PROVE  SrcInv'
<1>1. SrcTypeOK'
  BY DEF SrcInv, SrcTypeOK, srcCheckout, srcHistory
<1>2. Steady => Steady'
  BY DEF Steady, Listed, Compares, Diffed, HeadTree, Examining, srcCheckout, srcHistory
<1> QED
  BY <1>1, <1>2, KeepsHashed DEF SrcInv, srcHistory, Examining

LEMMA IdentifyInv == ASSUME SrcInv, Identify PROVE SrcInv'
<1> USE DEF At, Found, srcCheckout, srcHistory
<1>0. /\ srcRecord \in Records /\ srcWork \in Snapshot /\ srcIndex \in Snapshot
      /\ srcFlagged \in SUBSET SourceFile
      /\ srcRecord.odd \cap srcRecord.hashed = {}
      /\ srcHead \in Commit \cup {Unborn}
  BY DEF SrcInv, SrcTypeOK, Commit, Unborn
<1>1. CASE BeginIdentity
  <2>1. EmptySnapshot \in Snapshot
    BY DEF EmptySnapshot, Snapshot
  <2>2. NoRecord \in Records /\ NoRecord.odd = {} /\ NoRecord.commit = Unborn
        /\ NoRecord.hashed = {} /\ NoReading.file = NoFile
    BY <2>1, EmptySeq DEF NoRecord, Records, EmptySnapshot, NoReading
  <2>3. srcSeen' \in [SourceFile -> SUBSET (Version \cup {NoFile})]
    BY <1>0, <1>1 DEF BeginIdentity, Snapshot
  <2>4. SrcTypeOK'
    BY <1>1, <2>2, <2>3, NoReadingType DEF BeginIdentity, SrcInv, SrcTypeOK, Examining
  <2>5. Steady' /\ AllHashedRight' /\ BeingReadRight' /\ srcPc' \notin Examining
    BY <1>1, <2>2, <2>3 DEF BeginIdentity, Steady, Listed, Compares, Examining,
       AllHashedRight, BeingReadRight
  <2> QED
    BY <2>4, <2>5 DEF SrcInv
<1>2. CASE ReadCommit
  <2> USE DEF ReadCommit
  <2>1. CASE srcHead = Unborn
    BY <1>0, <1>2, <2>1, FoundElse DEF Steady, Listed, Compares, Examining
  <2>2. CASE srcHead # Unborn
    <3>1. srcRecord' = [srcRecord EXCEPT !.commit = srcHead] /\ srcPc' = "branch" /\ srcReading' = NoReading
      BY <1>2, <2>2
    <3>2. srcRecord' \in Records /\ srcRecord'.odd = srcRecord.odd
          /\ srcRecord'.commit = srcHead
          /\ \A k \in {"hashed", "bytes", "hashes"} : srcRecord'[k] = srcRecord[k]
      BY <1>0, <3>1 DEF Records
    <3>3. Steady => Steady'
      BY <1>2, <3>1, <3>2 DEF Steady, Listed, Compares, Examining
    <3> QED
      BY <1>0, <1>2, <3>1, <3>2, <3>3, FoundElse
  <2> QED
    BY <2>1, <2>2
<1>3. CASE ReadBranch
  BY <1>0, <1>3, FoundElse DEF ReadBranch, Steady, Listed, Compares, Examining
<1>4. CASE ReadDiff
  <2> DEFINE differs == {f \in SourceFile : Compared[f] # HeadTree[f]}
             diff    == [f \in SourceFile |-> IF f \in differs THEN Compared[f] ELSE NoFile]
  <2>1. Compared \in Snapshot /\ differs \in SUBSET SourceFile /\ diff \in Snapshot
    BY <1>0 DEF Compared, Snapshot
  <2>2. /\ srcRecord' = [srcRecord EXCEPT !.differs = differs, !.diff = diff]
        /\ srcPc' = "untracked" /\ srcReading' = NoReading /\ UNCHANGED <<srcCheckout, srcHistory>>
    BY <1>4 DEF ReadDiff
  <2>3. \A f \in SourceFile : (IF f \in differs THEN diff[f] ELSE HeadTree[f]) = Compared[f]
    OBVIOUS
  <2> HIDE DEF differs, diff
  <2>4. /\ srcRecord' \in Records /\ srcRecord'.odd = srcRecord.odd
        /\ srcRecord'.commit = srcRecord.commit
        /\ \A k \in {"hashed", "bytes", "hashes"} : srcRecord'[k] = srcRecord[k]
        /\ srcRecord'.differs = differs /\ srcRecord'.diff = diff
    BY <1>0, <2>1, <2>2 DEF Records
  <2>5. \A f \in SourceFile : Diffed(f)' = Compared[f]
    BY <2>2, <2>3, <2>4 DEF Diffed, HeadTree
  <2>6. ASSUME Steady PROVE Steady'
    <3>1. \A f \in SourceFile : IF srcIndex[f] = NoFile THEN Compared[f] = NoFile
                                ELSE f \notin srcFlagged => Compared[f] \in srcSeen[f]
      BY <2>6 DEF Compared, Steady
    <3> QED
      BY <2>2, <2>4, <2>5, <2>6, <3>1 DEF Steady, Listed, Compares, Examining
  <2> QED
    BY <1>0, <1>4, <2>2, <2>4, <2>6, FoundElse DEF ReadDiff
<1>5. CASE TakeForUnborn
  <2>1. /\ srcRecord' = [srcRecord EXCEPT !.commit = Unborn] /\ srcPc' = "untracked" /\ srcReading' = NoReading
        /\ srcPc = "unborn" /\ UNCHANGED <<srcCheckout, srcHistory>>
    BY <1>5 DEF TakeForUnborn
  <2>2. srcRecord' \in Records /\ srcRecord'.odd = srcRecord.odd
        /\ srcRecord'.commit = Unborn
        /\ \A k \in {"hashed", "bytes", "hashes"} : srcRecord'[k] = srcRecord[k]
    BY <1>0, <2>1 DEF Records
  <2>3. Steady => Steady'
    BY <2>1, <2>2 DEF Steady, Listed, Compares, Examining
  <2> QED
    BY <1>0, <2>1, <2>2, <2>3, FoundElse
<1>6. CASE ListUntracked
  <2> DEFINE untracked == {f \in SourceFile : srcIndex[f] = NoFile /\ srcWork[f] # NoFile}
  <2>1. /\ srcRecord' = [srcRecord EXCEPT !.untracked = untracked] /\ srcPc' = "flags" /\ srcReading' = NoReading
        /\ srcPc = "untracked" /\ UNCHANGED <<srcCheckout, srcHistory>>
    BY <1>6 DEF ListUntracked
  <2>2. /\ srcRecord' \in Records /\ srcRecord'.untracked = untracked
        /\ \A k \in {"commit", "differs", "diff", "hashed", "bytes", "hashes", "odd"} : srcRecord'[k] = srcRecord[k]
    BY <1>0, <2>1 DEF Records
  <2>3. Steady => Steady'
    BY <2>1, <2>2 DEF Steady, Listed, Compares, Examining, Diffed, HeadTree
  <2> QED
    BY <1>0, <2>1, <2>2, <2>3, FoundElse
<1>7. CASE ListFlags
  <2>1. /\ srcRecord' = [srcRecord EXCEPT !.flagged = srcFlagged] /\ srcPc' = "hash" /\ srcReading' = NoReading
        /\ srcPc = "flags" /\ UNCHANGED <<srcCheckout, srcHistory>>
    BY <1>7 DEF ListFlags
  <2>2. /\ srcRecord' \in Records /\ srcRecord'.flagged = srcFlagged
        /\ \A k \in {"commit", "differs", "diff", "untracked", "hashed", "bytes", "hashes", "odd"} :
              srcRecord'[k] = srcRecord[k]
    BY <1>0, <2>1 DEF Records
  <2>3. Steady => Steady'
    BY <2>1, <2>2 DEF Steady, Listed, Compares, Examining, Diffed, HeadTree
  <2> QED
    BY <1>0, <2>1, <2>2, <2>3, FoundElse
<1>8. ASSUME NEW f \in SourceFile, TestUntracked(f) PROVE SrcInv'
  <2>0. /\ srcPc = "hash" /\ UNCHANGED <<srcCheckout, srcHistory>>
        /\ f \in srcRecord.untracked \ (srcRecord.odd \cup srcRecord.hashed)
    BY <1>8 DEF TestUntracked
  <2>1. CASE srcWork[f] = NoFile
    <3>1. /\ srcRecord' = [srcRecord EXCEPT !.odd = srcRecord.odd \cup {f}]
          /\ srcPc' = "hash" /\ srcReading' = NoReading
      BY <1>8, <2>1 DEF TestUntracked
    <3>2. /\ srcRecord' \in Records /\ srcRecord'.odd = srcRecord.odd \cup {f}
          /\ \A k \in {"commit", "differs", "diff", "untracked", "hashed", "bytes", "hashes", "flagged"} :
                srcRecord'[k] = srcRecord[k]
      BY <1>0, <3>1 DEF Records
    <3>3. Steady => Steady'
      BY <2>0, <3>1, <3>2 DEF Steady, Listed, Compares, Examining, Diffed, HeadTree
    <3> QED
      BY <1>0, <2>0, <3>1, <3>2, <3>3, FoundElse
  <2>2. CASE srcWork[f] # NoFile
    <3>1. /\ srcReading' = [NoReading EXCEPT !.file = f] /\ srcPc' = "stat"
          /\ UNCHANGED srcRecord
      BY <1>8, <2>2 DEF TestUntracked, Examined
    <3>2. srcReading' \in Readings /\ srcReading'.file = f /\ srcReading'.pieces = <<>>
      BY <3>1, NoReadingType DEF Readings, NoReading
    <3>3. BeingReadRight'
      BY <2>0, <2>2, <3>1, <3>2 DEF BeingReadRight, ReadRight
    <3> QED
      BY <2>0, <3>1, <3>2, <3>3, ExaminedInv DEF Examining
  <2> QED
    BY <2>1, <2>2
<1>9. CASE AllHashed
  BY <1>0, <1>9, FoundElse DEF AllHashed, Steady, Listed, Compares, Examining, Diffed, HeadTree
<1>10. CASE ReadSubmodules
  BY <1>0, <1>10, FoundElse DEF ReadSubmodules, Steady, Listed, Compares, Examining, Diffed, HeadTree
<1>11. CASE ReadTree
  <2>1. CASE srcRecord.commit = Unborn
    BY <1>0, <1>11, <2>1, FoundElse DEF ReadTree, Steady, Listed, Compares, Examining
  <2>2. CASE srcRecord.commit # Unborn
    <3>1. /\ srcRecord' = [srcRecord EXCEPT !.tree = srcHead] /\ srcPc' \in {"done", "failed"}
          /\ srcReading' = NoReading
          /\ srcPc = "tree" /\ UNCHANGED <<srcCheckout, srcHistory>>
      BY <1>11, <2>2 DEF ReadTree
    <3>2. /\ srcRecord' \in Records /\ srcRecord'.tree = srcHead
          /\ \A k \in {"commit", "differs", "diff", "untracked", "hashed", "bytes", "hashes", "odd", "flagged"} :
                srcRecord'[k] = srcRecord[k]
      BY <1>0, <3>1 DEF Records
    <3>3. Steady => Steady'
      BY <3>1, <3>2 DEF Steady, Listed, Compares, Examining, Diffed, HeadTree
    <3> QED
      BY <1>0, <3>1, <3>2, <3>3, FoundElse
  <2> QED
    BY <2>1, <2>2
<1>12. CASE GitFails
  BY <1>0, <1>12, FoundElse DEF GitFails, Steady, Listed, Compares, Examining
<1>13. CASE EndIdentity
  <2>1. EmptySnapshot \in Snapshot
    BY DEF EmptySnapshot, Snapshot
  <2>2. NoRecord \in Records /\ NoRecord.odd = {}
    BY <2>1, EmptySeq DEF NoRecord, Records
  <2> QED
    BY <1>13, <2>2, NoReadingType
       DEF EndIdentity, SrcInv, SrcTypeOK, NothingSeen, Examining, NoReading
<1>14. ASSUME srcPc \in Examining
       PROVE  /\ srcReading \in Readings /\ srcReading.file \in SourceFile
              /\ srcReading.file \in srcRecord.untracked \ srcRecord.odd
  BY <1>0, <1>14 DEF SrcInv, SrcTypeOK, Records
<1>15. CASE MeasureUntracked
  <2> USE DEF MeasureUntracked
  <2>0. srcPc = "stat" /\ UNCHANGED <<srcCheckout, srcHistory>> /\ srcPc \in Examining
    BY <1>15 DEF Examining
  <2>1. CASE srcWork[srcReading.file] = NoFile
    BY <1>0, <1>15, <2>0, <2>1, FoundElse DEF Steady, Listed, Compares, Examining
  <2>2. CASE srcWork[srcReading.file] # NoFile
    <3>0. PICK f \in SourceFile : f = srcReading.file
      BY <1>14, <2>0
    <3>1. /\ srcReading' = [srcReading EXCEPT !.bytes = Len(srcWork[f])] /\ srcPc' = "open"
          /\ UNCHANGED srcRecord
      BY <1>15, <2>2, <3>0 DEF Examined
    <3>2. srcWork[f] \in Version /\ Len(srcWork[f]) \in Nat
      BY <1>0, <2>2, <3>0 DEF Snapshot
    <3>3. /\ srcReading' \in Readings /\ srcReading'.file = f
          /\ srcReading'.bytes = Len(srcWork[f]) /\ srcReading'.pieces = srcReading.pieces
      BY <1>14, <2>0, <3>0, <3>1, <3>2 DEF Readings
    <3>4. Steady => srcWork[f] \in Had(f)
      BY <2>2, <3>0 DEF Steady, Had
    <3>5. Steady => BeingReadRight'
      BY <2>0, <2>2, <3>0, <3>1, <3>3, <3>4 DEF BeingReadRight, ReadRight, Had
    <3> QED
      BY <1>14, <2>0, <3>0, <3>1, <3>3, <3>5, ExaminedInv DEF Examining, SrcInv
  <2> QED
    BY <2>1, <2>2
<1>16. CASE OpenUntracked
  <2> USE DEF OpenUntracked
  <2>0. srcPc = "open" /\ UNCHANGED <<srcCheckout, srcHistory>> /\ srcPc \in Examining
    BY <1>16 DEF Examining
  <2>1. CASE srcWork[srcReading.file] = NoFile
    BY <1>0, <1>16, <2>0, <2>1, FoundElse DEF Steady, Listed, Compares, Examining
  <2>2. CASE srcWork[srcReading.file] # NoFile
    <3>0. PICK f \in SourceFile : f = srcReading.file
      BY <1>14, <2>0
    <3>1. /\ srcReading' = [srcReading EXCEPT !.opened = srcWork[f], !.named = TRUE]
          /\ srcPc' = "read" /\ UNCHANGED srcRecord
      BY <1>16, <2>2, <3>0 DEF Examined
    <3>2. srcWork[f] \in Version
      BY <1>0, <2>2, <3>0 DEF Snapshot
    <3>3. /\ srcReading' \in Readings /\ srcReading'.file = f /\ srcReading'.opened = srcWork[f]
          /\ srcReading'.bytes = srcReading.bytes /\ srcReading'.pieces = srcReading.pieces
      BY <1>14, <2>0, <3>0, <3>1, <3>2 DEF Readings
    <3>4. Steady => srcWork[f] \in Had(f)
      BY <2>2, <3>0 DEF Steady, Had
    <3>5. srcReading.pieces = <<>>
      BY <2>0 DEF SrcInv
    <3>6. PiecedTogether(<<>>, Had(f)) /\ Begins(<<>>, srcWork[f])
      BY <3>2 DEF PiecedTogether, Begins
    <3>7. Steady /\ BeingReadRight => BeingReadRight'
      BY <2>0, <2>2, <3>0, <3>1, <3>3, <3>4, <3>5, <3>6 DEF BeingReadRight, ReadRight, Had
    <3> QED
      BY <1>14, <2>0, <3>0, <3>1, <3>2, <3>3, <3>7, ExaminedInv DEF Examining
  <2> QED
    BY <2>1, <2>2
<1>17. CASE HashPiece
  <2> USE DEF HashPiece
  <2>0. srcPc = "read" /\ UNCHANGED <<srcCheckout, srcHistory>> /\ srcPc \in Examining
    BY <1>17 DEF Examining
  <2>1. PICK f \in SourceFile : f = srcReading.file
    BY <1>14, <2>0
  <2> DEFINE v    == srcReading.opened
             more == Append(srcReading.pieces, v[Len(srcReading.pieces) + 1])
  <2>2. v \in Version /\ v \in Seq(Piece) /\ srcReading.pieces \in Seq(Piece)
    BY <1>14, <2>0 DEF SrcInv, SrcTypeOK, Readings
  <2>3. /\ srcReading' = [srcReading EXCEPT !.pieces = more] /\ srcPc' = "read"
        /\ UNCHANGED srcRecord /\ Len(srcReading.pieces) + 1 <= Len(v)
    BY <1>17 DEF Examined
  <2>4. /\ more \in Seq(Piece)
        /\ v \in Had(f) /\ PiecedTogether(srcReading.pieces, Had(f)) => PiecedTogether(more, Had(f))
        /\ Begins(srcReading.pieces, v) => Begins(more, v)
    BY <2>2, <2>3, PieceMore
  <2>5. /\ srcReading' \in Readings /\ srcReading'.file = f /\ srcReading'.opened = v
        /\ srcReading'.bytes = srcReading.bytes /\ srcReading'.pieces = more
    <3> HIDE DEF more
    <3> QED
      BY <1>14, <2>0, <2>1, <2>3, <2>4 DEF Readings
  <2>6. Steady /\ BeingReadRight => BeingReadRight'
    <3> HIDE DEF more
    <3> QED
      BY <2>0, <2>1, <2>3, <2>4, <2>5 DEF BeingReadRight, ReadRight, Had
  <2> QED
    BY <1>14, <2>0, <2>1, <2>2, <2>3, <2>5, <2>6, ExaminedInv DEF Examining
<1>18. CASE RecordUntracked
  <2> USE DEF RecordUntracked
  <2>0. srcPc = "read" /\ UNCHANGED <<srcCheckout, srcHistory>> /\ srcPc \in Examining
        /\ Len(srcReading.pieces) >= Len(srcReading.opened)
    BY <1>18 DEF Examining
  <2>1. PICK f \in SourceFile : f = srcReading.file
    BY <1>14, <2>0
  <2> DEFINE bytes  == [srcRecord.bytes EXCEPT ![f] = srcReading.bytes]
             hashes == [srcRecord.hashes EXCEPT ![f] = srcReading.pieces]
  <2>2. /\ srcReading.bytes \in Nat /\ srcReading.pieces \in Seq(Piece)
        /\ srcReading.opened \in Version /\ srcReading.opened \in Seq(Piece)
        /\ f \notin srcRecord.odd
    BY <1>14, <2>0, <2>1 DEF SrcInv, SrcTypeOK, Readings
  <2>3. bytes \in [SourceFile -> Nat] /\ hashes \in [SourceFile -> Seq(Piece)]
    BY <1>0, <2>2 DEF Records
  <2>4. /\ srcRecord' = [srcRecord EXCEPT !.hashed = srcRecord.hashed \cup {f},
                                         !.bytes = bytes, !.hashes = hashes]
        /\ srcPc' = "hash" /\ srcReading' = NoReading
    BY <1>18, <2>1
  <2>5. /\ srcRecord' \in Records /\ srcRecord'.hashed = srcRecord.hashed \cup {f}
        /\ srcRecord'.bytes = bytes /\ srcRecord'.hashes = hashes
        /\ \A k \in {"commit", "differs", "diff", "untracked", "odd", "flagged"} :
              srcRecord'[k] = srcRecord[k]
    <3> HIDE DEF bytes, hashes
    <3> QED
      BY <1>0, <2>3, <2>4 DEF Records
  <2>6. Steady => Steady'
    BY <2>0, <2>4, <2>5 DEF Steady, Listed, Compares, Examining, Diffed, HeadTree
  <2>7. \A g \in SourceFile : /\ bytes[g] = IF g = f THEN srcReading.bytes ELSE srcRecord.bytes[g]
                              /\ hashes[g] = IF g = f THEN srcReading.pieces ELSE srcRecord.hashes[g]
    BY <1>0 DEF Records
  <2>8. ASSUME Steady, AllHashedRight, BeingReadRight, NEW g \in srcRecord'.hashed
        PROVE  HashedRight(g)'
    <3> HIDE DEF bytes, hashes
    <3>1. CASE g # f
      <4>1. g \in SourceFile /\ HashedRight(g)
        BY <1>0, <2>5, <2>8, <3>1 DEF AllHashedRight, Records
      <4> QED
        BY <2>0, <2>5, <2>7, <3>1, <4>1 DEF HashedRight, Had, PiecedTogether, srcHistory
    <3>2. CASE g = f
      <4>1. ReadRight(f)
        BY <2>0, <2>1, <2>8 DEF BeingReadRight
      <4>2. f \notin srcTorn => /\ srcReading.opened = srcWork[f]
                               /\ srcReading.bytes = Len(srcReading.opened)
                               /\ srcReading.pieces = srcReading.opened
        BY <2>0, <2>2, <4>1, WholeBegins DEF ReadRight
      <4> QED
        BY <2>0, <2>1, <2>5, <2>7, <3>2, <4>1, <4>2 DEF HashedRight, ReadRight, Had, srcHistory
    <3> QED
      BY <3>1, <3>2
  <2>9. srcRecord'.odd \cap srcRecord'.hashed = {}
    BY <1>0, <2>2, <2>5
  <2>10. Steady /\ AllHashedRight /\ BeingReadRight => AllHashedRight'
    BY <2>8 DEF AllHashedRight
  <2> HIDE DEF bytes, hashes
  <2> QED
    BY <2>0, <2>4, <2>5, <2>6, <2>9, <2>10, FoundInv
<1> QED
  BY <1>1, <1>2, <1>3, <1>4, <1>5, <1>6, <1>7, <1>8, <1>9, <1>10, <1>11, <1>12, <1>13,
     <1>15, <1>16, <1>17, <1>18 DEF Identify

LEMMA SrcSpecInv == SrcSpec => []SrcInv
<1>1. SrcInv /\ [SrcNext]_srcVars => SrcInv'
  <2>1. SrcInv /\ UNCHANGED srcVars => SrcInv'
    BY DEF SrcInv, SrcTypeOK, Steady, Diffed, HeadTree, AllHashedRight, HashedRight,
       BeingReadRight, ReadRight, PiecedTogether, Had, srcVars, srcCheckout, srcHistory
  <2> QED
    BY <2>1, UserInv, IdentifyInv DEF SrcNext
<1> QED
  BY <1>1, SrcInitInv, PTL DEF SrcSpec

\* The checkout, the record and the file in hand stay of their types, and no file is
\* both hashed and recorded as not a regular one.
THEOREM SrcTypeCorrect == SrcSpec => []SrcTypeOK
<1>1. SrcInv => SrcTypeOK
  BY DEF SrcInv
<1> QED
  BY <1>1, SrcSpecInv, PTL

\* Whatever files the user edits while git is asked and files are read one by one,
\* piece by piece: the record gives a tracked file contents it has had, an untracked
\* one a size and pieces of contents it has had, and those of one content if it was
\* left alone meanwhile; and a clean record is of the commit it names.
THEOREM Describes == SrcSpec => []DescribesWhatWasThere
<1>1. ASSUME SrcInv, srcPc = "done", srcRecord.commit # Unborn, ~srcMoved
      PROVE  /\ srcRecord.commit = srcHead /\ srcRecord.tree = srcHead
             /\ \A f \in SourceFile \ (srcRecord.flagged \cup srcRecord.untracked) :
                   Described(f) \in srcSeen[f]
             /\ \A f \in srcRecord.untracked \ srcRecord.odd : HashedRight(f)
             /\ Clean => \A f \in SourceFile : srcTrees[srcHead][f] \in srcSeen[f]
  <2>1. Steady /\ AllHashedRight
    BY <1>1 DEF SrcInv
  <2>2. /\ srcRecord.commit = srcHead /\ srcRecord.tree = srcHead
        /\ srcRecord.flagged = srcFlagged
        /\ \A f \in SourceFile :
              /\ IF srcIndex[f] = NoFile THEN Diffed(f) = NoFile
                 ELSE f \notin srcFlagged => Diffed(f) \in srcSeen[f]
              /\ IF f \in srcRecord.untracked THEN srcIndex[f] = NoFile
                 ELSE srcIndex[f] = NoFile => NoFile \in srcSeen[f]
        /\ srcRecord.untracked \subseteq srcRecord.odd \cup srcRecord.hashed
    BY <1>1, <2>1 DEF Steady, Listed, Compares
  <2>3. HeadTree = srcTrees[srcHead]
    BY <1>1, <2>2 DEF HeadTree
  <2>4. ASSUME NEW f \in SourceFile \ (srcRecord.flagged \cup srcRecord.untracked)
        PROVE  Described(f) \in srcSeen[f]
    <3>1. Described(f) = Diffed(f)
      BY <2>2, <2>3 DEF Described, Diffed
    <3> QED
      BY <2>2, <3>1
  <2>5. ASSUME NEW f \in srcRecord.untracked \ srcRecord.odd PROVE HashedRight(f)
    BY <2>1, <2>2 DEF AllHashedRight
  <2>6. ASSUME Clean, NEW f \in SourceFile PROVE srcTrees[srcHead][f] \in srcSeen[f]
    <3>1. Diffed(f) = srcTrees[srcHead][f]
      BY <2>3, <2>6 DEF Clean, Diffed
    <3> QED
      BY <2>2, <2>6, <3>1 DEF Clean
  <2> QED
    BY <2>2, <2>4, <2>5, <2>6
<1>2. SrcInv => DescribesWhatWasThere
  BY <1>1 DEF DescribesWhatWasThere, HashedRight
<1> QED
  BY <1>2, SrcSpecInv, PTL
===============================================================================
