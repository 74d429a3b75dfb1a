------------------------ MODULE CacheRelocation_proofs ------------------------
(***************************************************************************)
(* Proofs about CacheRelocation, for every list of artifacts, every number *)
(* of places and every number of schemas.                                  *)
(***************************************************************************)
EXTENDS CacheRelocation, TLAPS

\* Where a stamp stands, the compiler is there only with all that is behind it.
BinIsLast ==
    (stamp # None /\ parts[Bin] # None) => \A i \in Bin .. Parts : parts[i] # None

\* What each stage of a build or of an installation may rely on.
StageInv ==
    /\ pc = "install" => stamp = None /\ \A i \in Present : parts[i] = Here
    /\ pc = "stampInstalled" => stamp = None /\ \A i \in Part : parts[i] = Here
    /\ pc = "remove" => \A i \in Part : i < index => parts[i] = None
    /\ pc = "stamp" => stamp = Here \/ Present = {}
    /\ pc \in {"find", "run"} => stamp = Here
    /\ pc = "run" => parts[Bin] # None

IInv == TypeOK /\ StampVouches /\ BinIsLast /\ StageInv

-------------------------------------------------------------------------------
USE PartsAssumption, NoneAssumption

LEMMA InitInv == Init => IInv
<1> SUFFICES ASSUME Init PROVE IInv
  OBVIOUS
<1> USE DEF Init
<1>1. TypeOK
  <2>1. index \in 1 .. Parts + 1
    OBVIOUS
  <2>2. parts \in [Part -> Label \cup {None}] /\ stamp \in Label \cup {None}
    OBVIOUS
  <2>3. pc \in Location /\ documented \in BOOLEAN
    BY DEF Location
  <2> QED
    BY <2>1, <2>2, <2>3 DEF TypeOK
<1>2. StampVouches /\ BinIsLast
  BY DEF StampVouches, BinIsLast
<1>3. StageInv
  BY DEF StageInv
<1> QED
  BY <1>1, <1>2, <1>3 DEF IInv

\* Building preserves the invariant, whatever the stage.
LEMMA ScriptInv == IInv /\ Script => IInv'
<1> SUFFICES ASSUME IInv, Script PROVE IInv'
  OBVIOUS
<1> USE DEF IInv
<1>1. CASE Build
  BY <1>1 DEF Build, TypeOK, Location, StampVouches, BinIsLast, StageInv, Here, Present
<1>2. CASE Guard
  <2>1. (TypeOK /\ StampVouches /\ BinIsLast)'
    BY <1>2 DEF Guard, TypeOK, Location, StampVouches, BinIsLast, Present, Part
  <2>2. StageInv'
    BY <1>2 DEF Guard, TypeOK, StageInv, Here, Present, Part
  <2> QED
    BY <2>1, <2>2
<1>3. CASE DiscardPart
  <2> USE <1>3 DEF DiscardPart
  <2>1. TypeOK'
    BY DEF TypeOK, Location, Part
  <2>2. StampVouches'
    BY DEF TypeOK, StampVouches, Present
  <2>3. BinIsLast'
    <3> SUFFICES ASSUME stamp # None, parts'[Bin] # None,
                        NEW i \in Bin .. Parts
                 PROVE  parts'[i] # None
      BY DEF BinIsLast
    <3>1. parts[Bin] # None /\ index # Bin /\ i \in Part
      BY DEF TypeOK, Part
    <3>2. ~(Bin < index)
      BY <3>1 DEF StageInv
    <3>3. i # index /\ parts[i] # None
      BY <3>1, <3>2 DEF BinIsLast, Part
    <3> QED
      BY <3>1, <3>3 DEF TypeOK
  <2>4. StageInv'
    BY DEF TypeOK, StageInv, Part
  <2> QED
    BY <2>1, <2>2, <2>3, <2>4
<1>4. CASE Discarded
  <2>1. Present = {}
    BY <1>4 DEF Discarded, StageInv, Present, Part
  <2> QED
    BY <1>4, <2>1 DEF Discarded, TypeOK, Location, StampVouches, BinIsLast, StageInv, Here, Present
<1>5. CASE WriteStamp
  <2> USE <1>5 DEF WriteStamp
  <2>1. Here \in Label /\ Here # None
    BY DEF TypeOK, Here, Label
  <2>2. TypeOK'
    BY <2>1 DEF TypeOK, Location
  <2>3. StampVouches'
    BY DEF StampVouches, StageInv, Here, Present
  <2>4. BinIsLast'
    <3>1. CASE pc = "stamp"
      BY <2>1, <3>1 DEF BinIsLast, StageInv, Present
    <3>2. CASE pc = "stampInstalled"
      BY <2>1, <3>2 DEF BinIsLast, StageInv, Part
    <3> QED
      BY <3>1, <3>2
  <2>5. StageInv'
    BY DEF StageInv, Here, Present
  <2> QED
    BY <2>2, <2>3, <2>4, <2>5
<1>6. CASE FindZig
  BY <1>6 DEF FindZig, TypeOK, Location, StampVouches, BinIsLast, StageInv, Here, Present
<1>7. CASE Compile
  BY <1>7 DEF Compile, TypeOK, Location, StampVouches, BinIsLast, StageInv, Here, Present
<1> QED
  BY <1>1, <1>2, <1>3, <1>4, <1>5, <1>6, <1>7 DEF Script

\* So does whatever the user does to the checkout.
LEMMA UserInv == IInv /\ User => IInv'
<1> SUFFICES ASSUME IInv, User PROVE IInv'
  OBVIOUS
<1> USE DEF IInv
<1>1. CASE Install
  BY <1>1 DEF Install, TypeOK, Location, StampVouches, BinIsLast, StageInv, Here, Present
<1>2. ASSUME NEW i \in Part, InstallPart(i) PROVE IInv'
  <2> USE <1>2 DEF InstallPart
  <2>1. TypeOK'
    BY DEF TypeOK, Location, Here, Label
  <2>2. StampVouches' /\ BinIsLast'
    BY DEF StampVouches, BinIsLast, StageInv
  <2>3. StageInv'
    BY DEF TypeOK, StageInv, Here, Present
  <2> QED
    BY <2>1, <2>2, <2>3
<1>3. CASE Installed
  BY <1>3 DEF Installed, TypeOK, Location, StampVouches, BinIsLast, StageInv, Here, Present
<1>4. CASE Kill
  BY <1>4 DEF Kill, TypeOK, Location, StampVouches, BinIsLast, StageInv, Here, Present
<1>5. ASSUME NEW to \in Place, Move(to) PROVE IInv'
  BY <1>5 DEF Move, TypeOK, Location, StampVouches, BinIsLast, StageInv, Here, Present
<1>6. ASSUME NEW version \in Schema, Checkout(version) PROVE IInv'
  BY <1>6 DEF Checkout, TypeOK, Location, StampVouches, BinIsLast, StageInv, Here, Present
<1> QED
  BY <1>1, <1>2, <1>3, <1>4, <1>5, <1>6 DEF User

LEMMA Invariance == Spec => []IInv
<1>1. IInv /\ UNCHANGED vars => IInv'
  BY DEF IInv, TypeOK, StampVouches, BinIsLast, StageInv, Here, Present, vars
<1>2. IInv /\ [Next]_vars => IInv'
  BY <1>1, ScriptInv, UserInv DEF Next
<1> QED
  BY <1>2, InitInv, PTL DEF Spec

-------------------------------------------------------------------------------
\* Every state of the cache is well typed.
THEOREM TypeCorrect == Spec => []TypeOK
<1>1. IInv => TypeOK
  BY DEF IInv
<1> QED
  BY <1>1, Invariance, PTL

\* guard_relocatable_cache and stamp_relocatable_cache keep the stamp true to
\* the artifacts, through moves, checkouts and kills.
THEOREM StampCorrect == Spec => []StampVouches
<1>1. IInv => StampVouches
  BY DEF IInv
<1> QED
  BY <1>1, Invariance, PTL

\* build_guest_fft.sh runs the compiler only out of a toolchain that is whole
\* and was installed for the place and the schema it is run at.
THEOREM RunsCorrect == Spec => []RunsOnlyWholeToolchain
<1>1. IInv => RunsOnlyWholeToolchain
  <2> SUFFICES ASSUME IInv, pc = "run", NEW i \in Bin .. Parts
               PROVE  parts[i] = Here
    BY DEF RunsOnlyWholeToolchain
  <2>1. stamp = Here /\ stamp # None /\ parts[Bin] # None
    BY DEF IInv, TypeOK, StageInv, Here, Label
  <2>2. i \in Present
    BY <2>1 DEF IInv, BinIsLast, Present, Part
  <2> QED
    BY <2>1, <2>2 DEF IInv, StampVouches
<1> QED
  BY <1>1, Invariance, PTL
===============================================================================
