------------------------- MODULE RuntimePublish_proofs -------------------------
(***************************************************************************)
(* Theorems about RuntimePublish: every reachable state is well typed, a   *)
(* manifest of a run that was alone vouches for that run's images, and the *)
(* images are there once it has succeeded; for any preparers and images.   *)
(***************************************************************************)
EXTENDS RuntimePublish, TLAPS

Places == 1 .. Len(Order)

\* The images are listed, the base images before the others.
LEMMA Images ==
    /\ Len(Order) \in Nat /\ Len(Base) \in Nat /\ Len(Base) <= Len(Order)
    /\ 1 \in Places /\ 1 <= Len(Base)
    /\ \A k \in Places : Order[k] \in Image
    /\ \A k \in Places : k <= Len(Base) => Order[k] \in BaseImage
    /\ \A k \in Places : k > Len(Base) => Order[k] \in Option
    /\ \A i \in BaseImage : \E k \in Places : k <= Len(Base) /\ Order[k] = i
    /\ \A i \in Image : \E k \in Places : Order[k] = i
    /\ BaseImage \subseteq Image /\ Option \subseteq Image
    /\ "rootfs" \in BaseImage
<1>1. /\ Order \in Seq(STRING) /\ Len(Order) = Len(Base) + Len(Derived)
      /\ \A k \in 1 .. Len(Base) : Order[k] = Base[k]
      /\ \A k \in Len(Base) + 1 .. Len(Order) : Order[k] = Derived[k - Len(Base)]
  BY SequenceAssumption DEF Order
<1>2. /\ DOMAIN Order = 1 .. Len(Order) /\ DOMAIN Base = 1 .. Len(Base)
      /\ DOMAIN Derived = 1 .. Len(Derived)
      /\ Len(Base) \in Nat /\ Len(Derived) \in Nat /\ Len(Order) \in Nat
  BY <1>1, SequenceAssumption
<1>3. /\ \A i \in BaseImage : \E k \in 1 .. Len(Base) : Base[k] = i
      /\ \A k \in 1 .. Len(Base) : Base[k] \in BaseImage
      /\ \A i \in Image : \E k \in 1 .. Len(Order) : Order[k] = i
      /\ \A k \in 1 .. Len(Order) : Order[k] \in Image
      /\ \A i \in Option : \E k \in 1 .. Len(Derived) : Derived[k] = i
      /\ \A k \in 1 .. Len(Derived) : Derived[k] \in Option
      /\ "rootfs" \in BaseImage
  BY <1>2, BaseAssumption DEF Range, BaseImage, Image, Option
<1>4. 1 <= Len(Base) /\ Len(Base) <= Len(Order)
  BY <1>1, <1>2, <1>3
<1>5. \A k \in Places : k <= Len(Base) => Order[k] \in BaseImage
  BY <1>1, <1>2, <1>3 DEF Places
<1>6. \A k \in Places : k > Len(Base) => Order[k] \in Option
  <2> SUFFICES ASSUME NEW k \in Places, k > Len(Base) PROVE Order[k] \in Option
    OBVIOUS
  <2>1. k - Len(Base) \in 1 .. Len(Derived) /\ k \in Len(Base) + 1 .. Len(Order)
    BY <1>1, <1>2 DEF Places
  <2> QED
    BY <2>1, <1>1, <1>3
<1>7. \A i \in BaseImage : \E k \in Places : k <= Len(Base) /\ Order[k] = i
  BY <1>1, <1>2, <1>3, <1>4 DEF Places
<1>8. BaseImage \subseteq Image
  BY <1>3, <1>7 DEF Places
<1>9. Option \subseteq Image
  <2> SUFFICES ASSUME NEW i \in Option PROVE i \in Image
    OBVIOUS
  <2>1. PICK k \in 1 .. Len(Derived) : Derived[k] = i
    BY <1>3
  <2>2. Len(Base) + k \in Len(Base) + 1 .. Len(Order) /\ (Len(Base) + k) - Len(Base) = k
        /\ Len(Base) + k \in 1 .. Len(Order)
    BY <1>1, <1>2
  <2> QED
    BY <2>1, <2>2, <1>1, <1>3
<1>10. /\ \A k \in Places : Order[k] \in Image
       /\ \A i \in Image : \E k \in Places : Order[k] = i
  BY <1>3 DEF Places
<1>11. 1 \in Places
  BY <1>2, <1>4 DEF Places
<1> QED
  BY <1>2, <1>3, <1>4, <1>5, <1>6, <1>7, <1>8, <1>9, <1>10, <1>11

-------------------------------------------------------------------------------
(* The invariant. *)

\* Where a run is in its list of images.
Position(p) ==
    /\ pc[p] \in {"idle", "audit", "open", "write"} => step[p] = 1
    /\ pc[p] \in {"extract", "load"} => Current(p) \in BaseImage
    /\ Current(p) \in Selected(p)

\* Only images that were asked for are recorded, and none before all are there.
Recorded(p) ==
    /\ pc[p] \notin {"hash", "open", "write"} => records[p] = None
    /\ \A i \in Image \ Selected(p) : records[p][i] = Absent

Done(p, f, among) == \A k \in Places : k < step[p] /\ Order[k] \in among => f[Order[k]] = p

All(p, f, among) == \A i \in among : f[i] = p

\* A run that has been alone so far has met nothing but its own images.
Own(p) ==
    /\ Active = {p}
    /\ pc[p] = "extract" => Done(p, staged, BaseImage)
    /\ pc[p] \in {"audit", "load"} => All(p, staged, BaseImage)
    /\ pc[p] \notin {"extract", "audit"} => audited[p] = p
    /\ pc[p] = "load" => Done(p, data[p], BaseImage)
    /\ pc[p] \in {"build", "replace"} => All(p, data[p], BaseImage) /\ Done(p, image, Selected(p))
    /\ pc[p] = "replace" => data[p][Current(p)] = p
    /\ pc[p] \in {"hash", "open", "write"} =>
          /\ All(p, image, Selected(p))
          /\ \A i \in Image : records[p][i] \in {p, Absent}
    /\ pc[p] = "hash" => Done(p, records[p], Selected(p))
    /\ pc[p] \in {"open", "write"} => All(p, records[p], Selected(p))

RunInv == \A p \in Preparer : Position(p) /\ Recorded(p) /\ (alone[p] => Own(p))

ManifestInv ==
    /\ VouchesForOwnImages
    /\ settled => Active = {} /\ Written /\ manifest.alone
    /\ SettledManifestMatches

IInv == TypeOK /\ RunInv /\ ManifestInv

-------------------------------------------------------------------------------
(* Going on with the next image. *)

LEMMA AdvanceFacts ==
    ASSUME TypeOK, NEW p \in Preparer, NEW among \in SUBSET Image,
           NEW again \in Location, NEW next \in Location,
           Advance(p, among, again, next)
    PROVE  /\ step' \in [Preparer -> Places] /\ pc' \in [Preparer -> Location]
           /\ \A q \in Preparer \ {p} : step'[q] = step[q] /\ pc'[q] = pc[q]
           /\ pc' = [pc EXCEPT ![p] = pc'[p]]
           /\ \/ /\ pc'[p] = again /\ step'[p] > step[p] /\ Order[step'[p]] \in among
                 /\ \A k \in Places : k < step'[p] /\ Order[k] \in among => k <= step[p]
              \/ /\ pc'[p] = next /\ step'[p] = 1
                 /\ \A k \in Places : Order[k] \in among => k <= step[p]
<1> USE Images DEF TypeOK, Places, Later
<1>1. CASE \E k \in Later(p, among) :
              /\ \A l \in Later(p, among) : k <= l
              /\ step' = [step EXCEPT ![p] = k]
              /\ pc' = [pc EXCEPT ![p] = again]
  <2>1. PICK k \in Later(p, among) :
              /\ \A l \in Later(p, among) : k <= l
              /\ step' = [step EXCEPT ![p] = k]
              /\ pc' = [pc EXCEPT ![p] = again]
    BY <1>1
  <2>2. /\ step'[p] = k /\ k \in Places /\ k > step[p] /\ Order[k] \in among
        /\ pc'[p] = again /\ step[p] \in Places
        /\ pc' \in [Preparer -> Location]
    BY <2>1
  <2>3. \A l \in Places : l < k /\ Order[l] \in among => l <= step[p]
    BY <2>1, <2>2
  <2> QED
    BY <2>1, <2>2, <2>3
<1>2. CASE /\ Later(p, among) = {}
           /\ step' = [step EXCEPT ![p] = 1]
           /\ pc' = [pc EXCEPT ![p] = next]
  <2>1. /\ step'[p] = 1 /\ pc'[p] = next /\ step[p] \in Places
        /\ step' \in [Preparer -> Places] /\ pc' \in [Preparer -> Location]
        /\ \A q \in Preparer \ {p} : step'[q] = step[q] /\ pc'[q] = pc[q]
        /\ pc' = [pc EXCEPT ![p] = pc'[p]]
    BY <1>2
  <2>2. \A k \in Places : Order[k] \in among => k <= step[p]
    BY <1>2, <2>1
  <2> QED
    BY <2>1, <2>2
<1> QED
  BY <1>1, <1>2 DEF Advance

-------------------------------------------------------------------------------
LEMMA TypeInit == Init => TypeOK
<1> SUFFICES ASSUME Init PROVE TypeOK
  OBVIOUS
<1> QED
  BY Images DEF Init, TypeOK, Content, Record, None, Location, Places

LEMMA TypeNext == TypeOK /\ RunInv /\ [Next]_vars => TypeOK'
<1> SUFFICES ASSUME TypeOK, RunInv, [Next]_vars PROVE TypeOK'
  OBVIOUS
<1> USE DEF TypeOK
<1>1. ASSUME NEW p \in Preparer, Begin(p) PROVE TypeOK'
  BY <1>1 DEF Begin, Location
<1>2. ASSUME NEW p \in Preparer, Extract(p) PROVE TypeOK'
  <2>1. step' \in [Preparer -> 1 .. Len(Order)] /\ pc' \in [Preparer -> Location]
    <3>1. Advance(p, BaseImage, "extract", "audit")
      BY <1>2 DEF Extract
    <3>2. "extract" \in Location /\ "audit" \in Location /\ BaseImage \in SUBSET Image
      BY Images DEF Location
    <3> QED
      BY <3>1, <3>2, AdvanceFacts DEF Places
  <2> QED
    BY <1>2, <2>1 DEF Extract, Content
<1>3. ASSUME NEW p \in Preparer, Audit(p) PROVE TypeOK'
  BY <1>3, Images DEF Audit, Location
<1>4. ASSUME NEW p \in Preparer, Load(p) PROVE TypeOK'
  <2>1. step' \in [Preparer -> 1 .. Len(Order)] /\ pc' \in [Preparer -> Location]
    <3>1. Advance(p, BaseImage, "load", "build")
      BY <1>4 DEF Load
    <3>2. "load" \in Location /\ "build" \in Location /\ BaseImage \in SUBSET Image
      BY Images DEF Location
    <3> QED
      BY <3>1, <3>2, AdvanceFacts DEF Places
  <2>2. Current(p) \in BaseImage
    BY <1>4 DEF Load, RunInv, Position
  <2> QED
    BY <1>4, <2>1, <2>2, Images DEF Load, Record
<1>5. ASSUME NEW p \in Preparer, Build(p) PROVE TypeOK'
  <2>1. image["rootfs"] \in Content
    BY Images DEF Record
  <2> QED
    BY <1>5, <2>1 DEF Build, Record, Location
<1>6. ASSUME NEW p \in Preparer, Replace(p) PROVE TypeOK'
  <2>1. step' \in [Preparer -> 1 .. Len(Order)] /\ pc' \in [Preparer -> Location]
    <3>1. Advance(p, Selected(p), "build", "hash")
      BY <1>6 DEF Replace
    <3>2. "build" \in Location /\ "hash" \in Location /\ Selected(p) \in SUBSET Image
      BY Images DEF Location, Selected
    <3> QED
      BY <3>1, <3>2, AdvanceFacts DEF Places
  <2>2. Current(p) \in Image
    BY Images DEF Current, Places
  <2> QED
    BY <1>6, <2>1, <2>2 DEF Replace, Record
<1>7. ASSUME NEW p \in Preparer, Hash(p) PROVE TypeOK'
  <2>1. step' \in [Preparer -> 1 .. Len(Order)] /\ pc' \in [Preparer -> Location]
    <3>1. Advance(p, Selected(p), "hash", "open")
      BY <1>7 DEF Hash
    <3>2. "hash" \in Location /\ "open" \in Location /\ Selected(p) \in SUBSET Image
      BY Images DEF Location, Selected
    <3> QED
      BY <3>1, <3>2, AdvanceFacts DEF Places
  <2>2. Current(p) \in Image
    BY Images DEF Current, Places
  <2> QED
    BY <1>7, <2>1, <2>2 DEF Hash, Record
<1>8. ASSUME NEW p \in Preparer, OpenManifest(p) PROVE TypeOK'
  BY <1>8 DEF OpenManifest, Location
<1> HIDE DEF TypeOK
<1>9. ASSUME NEW p \in Preparer, Return(p),
             staged' = staged, image' = image, settled' \in BOOLEAN,
             manifest' \in Manifest \cup {Absent, Torn}
      PROVE  TypeOK'
  BY <1>9, Images DEF Return, TypeOK, Location, None, Content, Record, Places
<1>10. ASSUME NEW p \in Preparer, WriteManifest(p) PROVE TypeOK'
  <2>1. alone[p] \in BOOLEAN /\ records[p] \in Record /\ audited[p] \in Content
    BY DEF TypeOK
  <2>2. manifest' \in Manifest \cup {Absent, Torn} /\ settled' \in BOOLEAN
    BY <1>10, <2>1 DEF WriteManifest, Manifest
  <2> QED
    BY <1>9, <1>10, <2>2 DEF WriteManifest
<1>11. ASSUME NEW p \in Preparer, Fail(p) PROVE TypeOK'
  BY <1>9, <1>11 DEF Fail, TypeOK
<1>12. CASE UNCHANGED vars
  BY <1>12 DEF TypeOK, vars, local, Position, Recorded
<1> QED
  BY <1>1, <1>2, <1>3, <1>4, <1>5, <1>6, <1>7, <1>8, <1>10, <1>11, <1>12 DEF Next, Run

-------------------------------------------------------------------------------
(* The runs. *)

LEMMA RunInit == Init => RunInv
<1> SUFFICES ASSUME Init, NEW p \in Preparer
             PROVE  Position(p) /\ Recorded(p) /\ ~alone[p]
  BY DEF RunInv
<1>1. Order[1] \in BaseImage
  BY Images
<1> QED
  BY <1>1, Images DEF Init, Position, Recorded, Current, Selected, None

\* A run that is not alone with the one that acts is not alone.
LEMMA Others ==
    ASSUME RunInv, NEW p \in Preparer, NEW q \in Preparer, q # p, pc[p] # "idle",
           pc'[q] = pc[q], step'[q] = step[q], options'[q] = options[q],
           records'[q] = records[q], alone'[q] = alone[q]
    PROVE  Position(q)' /\ Recorded(q)' /\ ~alone'[q]
<1>1. Position(q)' /\ Recorded(q)'
  BY DEF RunInv, Position, Recorded, Current, Selected
<1>2. ~alone[q]
  BY DEF RunInv, Own, Active
<1> QED
  BY <1>1, <1>2

\* What an action of p has to keep.
LEMMA ActorKeeps ==
    ASSUME TypeOK, RunInv, NEW p \in Preparer, pc[p] # "idle",
           pc' = [pc EXCEPT ![p] = pc'[p]],
           \A q \in Preparer \ {p} :
              /\ step'[q] = step[q] /\ options'[q] = options[q]
              /\ records'[q] = records[q] /\ alone'[q] = alone[q],
           Position(p)' /\ Recorded(p)' /\ (alone'[p] => Own(p)')
    PROVE  RunInv'
<1> SUFFICES ASSUME NEW q \in Preparer
             PROVE  Position(q)' /\ Recorded(q)' /\ (alone'[q] => Own(q)')
  BY DEF RunInv
<1>1. CASE q = p
  BY <1>1
<1>2. CASE q # p
  <2>1. pc'[q] = pc[q]
    BY <1>2 DEF TypeOK
  <2> QED
    BY <1>2, <2>1, Others
<1> QED
  BY <1>1, <1>2

LEMMA StillAlone ==
    ASSUME TypeOK, NEW p \in Preparer, Active = {p}, pc'[p] # "idle",
           pc' = [pc EXCEPT ![p] = pc'[p]]
    PROVE  Active' = {p}
BY DEF Active, TypeOK

LEMMA BeginRun ==
    ASSUME TypeOK, RunInv, NEW p \in Preparer, Begin(p) PROVE RunInv'
<1> USE DEF TypeOK
<1> SUFFICES ASSUME NEW q \in Preparer
             PROVE  Position(q)' /\ Recorded(q)' /\ (alone'[q] => Own(q)')
  BY DEF RunInv
<1>1. CASE q = p
  <2>1. /\ pc'[p] = "extract" /\ step'[p] = step[p] /\ records'[p] = records[p]
        /\ options'[p] \subseteq Option /\ alone'[p] = (Active = {})
        /\ pc[p] = "idle"
    BY DEF Begin
  <2>2. step[p] = 1 /\ records[p] = None
    BY <2>1 DEF RunInv, Position, Recorded
  <2>3. Position(p)'
    BY <2>1, <2>2, Images DEF Position, Current, Selected
  <2>4. Recorded(p)'
    BY <2>1, <2>2 DEF Recorded, None
  <2>5. ASSUME alone'[p] PROVE Own(p)'
    <3>1. Active' = {p}
      BY <2>1, <2>5 DEF Begin, Active
    <3>2. Done(p, staged, BaseImage)'
      BY <2>1, <2>2, Images DEF Done, Places
    <3> QED
      BY <2>1, <3>1, <3>2 DEF Own
  <2> QED
    BY <1>1, <2>3, <2>4, <2>5
<1>2. CASE q # p
  <2>1. /\ pc'[q] = pc[q] /\ step'[q] = step[q] /\ records'[q] = records[q]
        /\ options'[q] = options[q] /\ alone'[q] = (alone[q] /\ q \notin Active)
    BY <1>2 DEF Begin
  <2>2. Position(q)' /\ Recorded(q)'
    BY <2>1 DEF RunInv, Position, Recorded, Current, Selected
  <2>3. ~alone'[q]
    BY <2>1 DEF RunInv, Own
  <2> QED
    BY <2>2, <2>3
<1> QED
  BY <1>1, <1>2

LEMMA ExtractRun ==
    ASSUME TypeOK, RunInv, NEW p \in Preparer, Extract(p) PROVE RunInv'
<1>1. /\ pc[p] = "extract" /\ UNCHANGED <<options, audited, data, records, alone>>
      /\ staged' = [staged EXCEPT ![Current(p)] = p]
      /\ Advance(p, BaseImage, "extract", "audit")
  BY DEF Extract
<1>2. "extract" \in Location /\ "audit" \in Location /\ BaseImage \in SUBSET Image
  BY Images DEF Location
<1>3. /\ step' \in [Preparer -> Places]
      /\ \A q \in Preparer \ {p} : step'[q] = step[q]
      /\ pc' = [pc EXCEPT ![p] = pc'[p]]
      /\ \/ /\ pc'[p] = "extract" /\ step'[p] > step[p] /\ Order[step'[p]] \in BaseImage
            /\ \A k \in Places : k < step'[p] /\ Order[k] \in BaseImage => k <= step[p]
         \/ /\ pc'[p] = "audit" /\ step'[p] = 1
            /\ \A k \in Places : Order[k] \in BaseImage => k <= step[p]
  BY <1>1, <1>2, AdvanceFacts
<1>4. Position(p)'
  BY <1>1, <1>3, Images DEF Position, Current, Selected
<1>5. Recorded(p)'
  BY <1>1, <1>3 DEF RunInv, Recorded, Selected
<1>6. ASSUME alone'[p] PROVE Own(p)'
  <2>1. Own(p) /\ Current(p) \in BaseImage
    BY <1>1, <1>6 DEF RunInv, Position
  <2>2. Active' = {p}
    BY <1>3, <2>1, StillAlone DEF Own
  <2>3. \A k \in Places : k <= step[p] /\ Order[k] \in BaseImage => staged'[Order[k]] = p
    <3> SUFFICES ASSUME NEW k \in Places, k <= step[p], Order[k] \in BaseImage
                 PROVE  staged'[Order[k]] = p
      OBVIOUS
    <3>1. k < step[p] \/ k = step[p]
      BY Images DEF TypeOK, Places
    <3> QED
      BY <3>1, <1>1, <2>1, Images DEF Own, Done, Current, TypeOK
  <2>4. pc'[p] = "extract" => Done(p, staged, BaseImage)'
    BY <1>3, <2>3 DEF Done
  <2>5. pc'[p] = "audit" => All(p, staged, BaseImage)'
    BY <1>3, <2>3, Images DEF All
  <2> QED
    BY <1>3, <2>2, <2>4, <2>5 DEF Own
<1> QED
  BY <1>1, <1>3, <1>4, <1>5, <1>6, ActorKeeps

LEMMA AuditRun ==
    ASSUME TypeOK, RunInv, NEW p \in Preparer, Audit(p) PROVE RunInv'
<1>1. /\ pc[p] = "audit" /\ pc' = [pc EXCEPT ![p] = "load"] /\ pc'[p] = "load"
      /\ UNCHANGED <<staged, step, options, data, records, alone>>
      /\ audited'[p] = staged["rootfs"]
  BY DEF Audit, TypeOK
<1>2. Position(p)' /\ Recorded(p)'
  BY <1>1, Images DEF RunInv, Position, Recorded, Current, Selected
<1>3. ASSUME alone'[p] PROVE Own(p)'
  <2>1. Own(p) /\ step[p] = 1
    BY <1>1, <1>3 DEF RunInv, Position
  <2>2. Active' = {p}
    BY <1>1, <2>1, StillAlone DEF Own
  <2>3. All(p, staged, BaseImage)' /\ audited'[p] = p
    BY <1>1, <2>1, Images DEF Own, All
  <2>4. Done(p, data[p], BaseImage)'
    BY <1>1, <2>1, Images DEF Done, Places
  <2> QED
    BY <1>1, <2>2, <2>3, <2>4 DEF Own
<1> QED
  BY <1>1, <1>2, <1>3, ActorKeeps

LEMMA LoadRun ==
    ASSUME TypeOK, RunInv, NEW p \in Preparer, Load(p) PROVE RunInv'
<1>1. /\ pc[p] = "load" /\ UNCHANGED <<staged, image, options, audited, records, alone>>
      /\ data' = [data EXCEPT ![p][Current(p)] = staged[Current(p)]]
      /\ Advance(p, BaseImage, "load", "build")
  BY DEF Load
<1>2. "load" \in Location /\ "build" \in Location /\ BaseImage \in SUBSET Image
  BY Images DEF Location
<1>3. /\ step' \in [Preparer -> Places]
      /\ \A q \in Preparer \ {p} : step'[q] = step[q]
      /\ pc' = [pc EXCEPT ![p] = pc'[p]]
      /\ \/ /\ pc'[p] = "load" /\ step'[p] > step[p] /\ Order[step'[p]] \in BaseImage
            /\ \A k \in Places : k < step'[p] /\ Order[k] \in BaseImage => k <= step[p]
         \/ /\ pc'[p] = "build" /\ step'[p] = 1
            /\ \A k \in Places : Order[k] \in BaseImage => k <= step[p]
  BY <1>1, <1>2, AdvanceFacts
<1>4. Position(p)'
  BY <1>1, <1>3, Images DEF Position, Current, Selected
<1>5. Recorded(p)'
  BY <1>1, <1>3 DEF RunInv, Recorded, Selected
<1>6. ASSUME alone'[p] PROVE Own(p)'
  <2>1. Own(p) /\ Current(p) \in BaseImage
    BY <1>1, <1>6 DEF RunInv, Position
  <2>2. Active' = {p}
    BY <1>3, <2>1, StillAlone DEF Own
  <2>3. \A k \in Places : k <= step[p] /\ Order[k] \in BaseImage => data'[p][Order[k]] = p
    <3> SUFFICES ASSUME NEW k \in Places, k <= step[p], Order[k] \in BaseImage
                 PROVE  data'[p][Order[k]] = p
      OBVIOUS
    <3>1. k < step[p] \/ k = step[p]
      BY Images DEF TypeOK, Places
    <3>2. staged[Current(p)] = p
      BY <1>1, <2>1 DEF Own, All
    <3> QED
      BY <3>1, <3>2, <1>1, <2>1, Images DEF Own, Done, Current, TypeOK, Record
  <2>4. pc'[p] = "load" => Done(p, data[p], BaseImage)' /\ All(p, staged, BaseImage)'
    BY <1>1, <1>3, <2>1, <2>3 DEF Done, All, Own
  <2>5. pc'[p] = "build" => All(p, data[p], BaseImage)' /\ Done(p, image, Selected(p))'
    BY <1>3, <2>3, Images DEF All, Done, Places
  <2>6. audited'[p] = p
    BY <1>1, <2>1 DEF Own
  <2> QED
    BY <1>3, <2>2, <2>4, <2>5, <2>6 DEF Own
<1> QED
  BY <1>1, <1>3, <1>4, <1>5, <1>6, ActorKeeps

LEMMA BuildRun ==
    ASSUME TypeOK, RunInv, NEW p \in Preparer, Build(p) PROVE RunInv'
<1>1. /\ pc[p] = "build" /\ pc' = [pc EXCEPT ![p] = "replace"] /\ pc'[p] = "replace"
      /\ UNCHANGED <<image, step, options, audited, records, alone>>
      /\ data' = [data EXCEPT ![p][Current(p)] = IF Current(p) \in BaseImage THEN @
                                                 ELSE image["rootfs"]]
      /\ Current(p) \in Image /\ step[p] \in Places
  BY Images DEF Build, TypeOK, Current, Places
<1>2. Position(p)' /\ Recorded(p)'
  BY <1>1 DEF RunInv, Position, Recorded, Current, Selected
<1>3. ASSUME alone'[p] PROVE Own(p)'
  <2>1. Own(p)
    BY <1>1, <1>3 DEF RunInv
  <2>2. Active' = {p}
    BY <1>1, <2>1, StillAlone DEF Own
  <2>3. Done(p, image, Selected(p))' /\ audited'[p] = p
    BY <1>1, <2>1 DEF Own, Done, Selected
  <2>4. data'[p][Current(p)] = p /\ All(p, data[p], BaseImage)'
    <3>1. CASE Current(p) \in BaseImage
      BY <3>1, <1>1, <2>1, Images DEF Own, All, TypeOK, Record
    <3>2. CASE Current(p) \notin BaseImage
      <4>1. PICK k \in Places : k <= Len(Base) /\ Order[k] = "rootfs"
        BY Images
      <4>2. k < step[p]
        BY <3>2, <4>1, <1>1, Images DEF Current, Places
      <4>3. image["rootfs"] = p
        BY <4>1, <4>2, <1>1, <2>1, Images DEF Own, Done, Selected
      <4> QED
        BY <3>2, <4>3, <1>1, <2>1, Images DEF Own, All, TypeOK, Record
    <3> QED
      BY <3>1, <3>2
  <2>5. Current(p)' = Current(p)
    BY <1>1 DEF Current
  <2> QED
    BY <1>1, <2>2, <2>3, <2>4, <2>5 DEF Own
<1> QED
  BY <1>1, <1>2, <1>3, ActorKeeps

LEMMA ReplaceRun ==
    ASSUME TypeOK, RunInv, NEW p \in Preparer, Replace(p) PROVE RunInv'
<1>1. /\ pc[p] = "replace" /\ UNCHANGED <<options, audited, data, records, alone>>
      /\ image' = [image EXCEPT ![Current(p)] = data[p][Current(p)]]
      /\ Advance(p, Selected(p), "build", "hash")
      /\ Selected(p)' = Selected(p)
  BY DEF Replace, Selected
<1>2. "build" \in Location /\ "hash" \in Location /\ Selected(p) \in SUBSET Image
  BY Images DEF Location, Selected, TypeOK
<1>3. /\ step' \in [Preparer -> Places]
      /\ \A q \in Preparer \ {p} : step'[q] = step[q]
      /\ pc' = [pc EXCEPT ![p] = pc'[p]]
      /\ \/ /\ pc'[p] = "build" /\ step'[p] > step[p] /\ Order[step'[p]] \in Selected(p)
            /\ \A k \in Places : k < step'[p] /\ Order[k] \in Selected(p) => k <= step[p]
         \/ /\ pc'[p] = "hash" /\ step'[p] = 1
            /\ \A k \in Places : Order[k] \in Selected(p) => k <= step[p]
  BY <1>1, <1>2, AdvanceFacts
<1>4. Position(p)'
  <2>1. Order[1] \in Selected(p)
    BY Images DEF Selected
  <2> QED
    BY <1>1, <1>3, <2>1 DEF Position, Current
<1>5. Recorded(p)' /\ records[p] = None
  BY <1>1, <1>3 DEF RunInv, Recorded, None
<1>6. ASSUME alone'[p] PROVE Own(p)'
  <2>1. Own(p) /\ Current(p) \in Image
    BY <1>1, <1>2, <1>6 DEF RunInv, Position
  <2>2. Active' = {p}
    BY <1>3, <2>1, StillAlone DEF Own
  <2>3. \A k \in Places : k <= step[p] /\ Order[k] \in Selected(p) => image'[Order[k]] = p
    <3> SUFFICES ASSUME NEW k \in Places, k <= step[p], Order[k] \in Selected(p)
                 PROVE  image'[Order[k]] = p
      OBVIOUS
    <3>1. k < step[p] \/ k = step[p]
      BY Images DEF TypeOK, Places
    <3>2. data[p][Current(p)] = p
      BY <1>1, <2>1 DEF Own
    <3> QED
      BY <3>1, <3>2, <1>1, <1>2, <2>1, Images DEF Own, Done, Current, TypeOK, Record
  <2>4. pc'[p] = "build" => Done(p, image, Selected(p))' /\ All(p, data[p], BaseImage)'
    BY <1>1, <1>3, <2>1, <2>3 DEF Done, All, Own
  <2>5. pc'[p] = "hash" => All(p, image, Selected(p))'
    BY <1>1, <1>2, <1>3, <2>3, Images DEF All
  <2>6. pc'[p] = "hash" => /\ Done(p, records[p], Selected(p))'
                           /\ \A i \in Image : records'[p][i] \in {p, Absent}
    BY <1>1, <1>3, <1>5, Images DEF Done, Places, None
  <2>7. audited'[p] = p
    BY <1>1, <2>1 DEF Own
  <2> QED
    BY <1>3, <2>2, <2>4, <2>5, <2>6, <2>7 DEF Own
<1> QED
  BY <1>1, <1>3, <1>4, <1>5, <1>6, ActorKeeps

LEMMA HashRun ==
    ASSUME TypeOK, RunInv, NEW p \in Preparer, Hash(p) PROVE RunInv'
<1>1. /\ pc[p] = "hash" /\ UNCHANGED <<image, options, audited, data, alone>>
      /\ records' = [records EXCEPT ![p][Current(p)] = image[Current(p)]]
      /\ Advance(p, Selected(p), "hash", "open")
      /\ Selected(p)' = Selected(p)
  BY DEF Hash, Selected
<1>2. /\ "hash" \in Location /\ "open" \in Location /\ Selected(p) \in SUBSET Image
      /\ Current(p) \in Selected(p)
  BY Images DEF Location, Selected, TypeOK, RunInv, Position
<1>3. /\ step' \in [Preparer -> Places]
      /\ \A q \in Preparer \ {p} : step'[q] = step[q]
      /\ pc' = [pc EXCEPT ![p] = pc'[p]]
      /\ \/ /\ pc'[p] = "hash" /\ step'[p] > step[p] /\ Order[step'[p]] \in Selected(p)
            /\ \A k \in Places : k < step'[p] /\ Order[k] \in Selected(p) => k <= step[p]
         \/ /\ pc'[p] = "open" /\ step'[p] = 1
            /\ \A k \in Places : Order[k] \in Selected(p) => k <= step[p]
  BY <1>1, <1>2, AdvanceFacts
<1>4. Position(p)'
  <2>1. Order[1] \in Selected(p)
    BY Images DEF Selected
  <2> QED
    BY <1>1, <1>3, <2>1 DEF Position, Current
<1>5. \A i \in Image : records'[p][i] = IF i = Current(p) THEN image[i] ELSE records[p][i]
  BY <1>1, <1>2 DEF TypeOK, Record
<1>6. Recorded(p)'
  BY <1>1, <1>2, <1>3, <1>5 DEF RunInv, Recorded
<1>7. ASSUME alone'[p] PROVE Own(p)'
  <2>1. Own(p)
    BY <1>1, <1>7 DEF RunInv
  <2>2. Active' = {p}
    BY <1>3, <2>1, StillAlone DEF Own
  <2>3. All(p, image, Selected(p))'
    BY <1>1, <2>1 DEF Own, All
  <2>4. \A i \in Image : records'[p][i] \in {p, Absent}
    BY <1>1, <1>2, <1>5, <2>1 DEF Own, All
  <2>5. \A k \in Places : k <= step[p] /\ Order[k] \in Selected(p) => records'[p][Order[k]] = p
    <3> SUFFICES ASSUME NEW k \in Places, k <= step[p], Order[k] \in Selected(p)
                 PROVE  records'[p][Order[k]] = p
      OBVIOUS
    <3>1. k < step[p] \/ k = step[p]
      BY Images DEF TypeOK, Places
    <3> QED
      BY <3>1, <1>1, <1>2, <1>5, <2>1 DEF Own, Done, All, Current
  <2>6. pc'[p] = "hash" => Done(p, records[p], Selected(p))'
    BY <1>1, <1>3, <2>5 DEF Done
  <2>7. pc'[p] = "open" => All(p, records[p], Selected(p))'
    BY <1>1, <1>2, <1>3, <2>5, Images DEF All
  <2>8. audited'[p] = p
    BY <1>1, <2>1 DEF Own
  <2> QED
    BY <1>3, <2>2, <2>3, <2>4, <2>6, <2>7, <2>8 DEF Own
<1>8. \A q \in Preparer \ {p} : records'[q] = records[q]
  BY <1>1 DEF TypeOK
<1> QED
  BY <1>1, <1>3, <1>4, <1>6, <1>7, <1>8, ActorKeeps

LEMMA OpenRun ==
    ASSUME TypeOK, RunInv, NEW p \in Preparer, OpenManifest(p) PROVE RunInv'
<1>1. /\ pc[p] = "open" /\ pc' = [pc EXCEPT ![p] = "write"] /\ pc'[p] = "write"
      /\ UNCHANGED <<staged, image, step, options, audited, data, records, alone>>
  BY DEF OpenManifest, TypeOK
<1>2. Position(p)' /\ Recorded(p)'
  BY <1>1 DEF RunInv, Position, Recorded, Current, Selected
<1>3. ASSUME alone'[p] PROVE Own(p)'
  <2>1. Own(p)
    BY <1>1, <1>3 DEF RunInv
  <2>2. Active' = {p}
    BY <1>1, <2>1, StillAlone DEF Own
  <2> QED
    BY <1>1, <2>1, <2>2 DEF Own, All, Selected
<1> QED
  BY <1>1, <1>2, <1>3, ActorKeeps

LEMMA ReturnRun ==
    ASSUME TypeOK, RunInv, NEW p \in Preparer, pc[p] # "idle", Return(p) PROVE RunInv'
<1> USE DEF TypeOK
<1>1. /\ pc'[p] = "idle" /\ pc' = [pc EXCEPT ![p] = pc'[p]] /\ step'[p] = 1
      /\ options'[p] = {} /\ records'[p] = None /\ ~alone'[p]
      /\ \A q \in Preparer \ {p} :
            /\ step'[q] = step[q] /\ options'[q] = options[q]
            /\ records'[q] = records[q] /\ alone'[q] = alone[q]
  BY DEF Return
<1>2. Position(p)' /\ Recorded(p)'
  BY <1>1, Images DEF Position, Recorded, Current, Selected, None
<1> QED
  BY <1>1, <1>2, ActorKeeps

LEMMA RunNext == TypeOK /\ RunInv /\ [Next]_vars => RunInv'
<1> SUFFICES ASSUME TypeOK, RunInv, [Next]_vars PROVE RunInv'
  OBVIOUS
<1>1. ASSUME NEW p \in Preparer, Run(p) PROVE RunInv'
  <2>1. CASE WriteManifest(p)
    BY <2>1, ReturnRun DEF WriteManifest
  <2>2. CASE Fail(p)
    BY <2>2, ReturnRun DEF Fail
  <2> QED
    BY <1>1, <2>1, <2>2, BeginRun, ExtractRun, AuditRun, LoadRun, BuildRun, ReplaceRun,
       HashRun, OpenRun DEF Run
<1>2. CASE UNCHANGED vars
  BY <1>2 DEF RunInv, Position, Recorded, Own, Done, All, Active, Current, Selected, vars, local
<1> QED
  BY <1>1, <1>2 DEF Next

-------------------------------------------------------------------------------
(* The manifest. *)

LEMMA ManifestInit == Init => ManifestInv
BY DEF Init, ManifestInv, VouchesForOwnImages, SettledManifestMatches, Written

\* A run that has begun has unsettled the directory.
LEMMA Unsettled ==
    ASSUME ManifestInv, NEW p \in Preparer, pc[p] # "idle" PROVE settled # TRUE
BY DEF ManifestInv, Active

LEMMA WriteManifestKeeps ==
    ASSUME IInv, NEW p \in Preparer, WriteManifest(p) PROVE ManifestInv'
<1>1. /\ pc[p] = "write" /\ Return(p) /\ settled' = alone[p] /\ image' = image
      /\ alone[p] \in BOOLEAN
  BY DEF WriteManifest, IInv, TypeOK
<1>2. CASE ~alone[p]
  <2>1. \/ manifest' = Torn
        \/ manifest'.alone = FALSE
    BY <1>2 DEF WriteManifest
  <2> QED
    BY <1>1, <1>2, <2>1 DEF ManifestInv, VouchesForOwnImages, SettledManifestMatches, Written
<1>3. CASE alone[p]
  <2>1. Own(p) /\ Recorded(p)
    BY <1>3 DEF IInv, RunInv
  <2>2. manifest' = [records |-> records[p], audited |-> audited[p],
                     preparer |-> p, alone |-> alone[p]]
    BY <1>3 DEF WriteManifest
  <2>3. manifest' \in Manifest
    BY <2>2 DEF IInv, TypeOK, Manifest
  <2>4. Written'
    BY <2>3, ManifestAssumption DEF Written
  <2>5. /\ manifest'.records = records[p] /\ manifest'.audited = audited[p]
        /\ manifest'.preparer = p /\ manifest'.alone = TRUE
    BY <1>3, <2>2
  <2>6. /\ audited[p] = p /\ p # Absent
        /\ \A i \in Image : records[p][i] \in {p, Absent}
        /\ \A i \in Selected(p) : records[p][i] = p /\ image[i] = p
        /\ \A i \in Image \ Selected(p) : records[p][i] = Absent
    BY <1>1, <2>1, PreparerAssumption DEF Own, All, Recorded
  <2>7. VouchesForOwnImages'
    BY <2>5, <2>6 DEF VouchesForOwnImages, Listed
  <2>8. SettledManifestMatches'
    <3>1. (BaseImage \subseteq Listed)'
      BY <2>5, <2>6, Images DEF Listed, Selected
    <3>2. (\A i \in Listed : image[i] = manifest.records[i])'
      BY <1>1, <2>5, <2>6 DEF Listed
    <3> QED
      BY <2>4, <3>1, <3>2 DEF SettledManifestMatches
  <2>9. Active' = {}
    BY <1>1, <2>1 DEF Return, Own, Active, IInv, TypeOK
  <2> QED
    BY <2>4, <2>5, <2>7, <2>8, <2>9 DEF ManifestInv
<1> QED
  BY <1>1, <1>2, <1>3

LEMMA ManifestNext == IInv /\ [Next]_vars => ManifestInv'
<1> SUFFICES ASSUME IInv, [Next]_vars PROVE ManifestInv'
  OBVIOUS
<1> USE DEF IInv
<1>1. ASSUME NEW p \in Preparer, Begin(p) PROVE ManifestInv'
  BY <1>1 DEF Begin, ManifestInv, VouchesForOwnImages, SettledManifestMatches, Written, Listed
<1>2. ASSUME NEW p \in Preparer, pc[p] # "idle", manifest' \in {manifest, Torn}, settled' = settled
      PROVE  ManifestInv'
  <2>1. ~settled'
    BY <1>2, Unsettled DEF TypeOK
  <2>2. VouchesForOwnImages'
    BY <1>2 DEF ManifestInv, VouchesForOwnImages, Written, Listed
  <2> QED
    BY <2>1, <2>2 DEF ManifestInv, SettledManifestMatches
<1>3. ASSUME NEW p \in Preparer,
             Extract(p) \/ Audit(p) \/ Load(p) \/ Build(p) \/ Replace(p) \/ Hash(p) \/ Fail(p)
      PROVE  ManifestInv'
  BY <1>2, <1>3 DEF Extract, Audit, Load, Build, Replace, Hash, Fail
<1>4. ASSUME NEW p \in Preparer, OpenManifest(p) PROVE ManifestInv'
  BY <1>2, <1>4 DEF OpenManifest
<1>5. CASE UNCHANGED vars
  BY <1>5 DEF ManifestInv, VouchesForOwnImages, SettledManifestMatches, Written, Listed, Active,
              vars, local
<1> QED
  BY <1>1, <1>3, <1>4, <1>5, WriteManifestKeeps DEF Next, Run

-------------------------------------------------------------------------------
THEOREM Invariant == Spec => []IInv
<1>1. Init => IInv
  BY TypeInit, RunInit, ManifestInit DEF IInv
<1>2. IInv /\ [Next]_vars => IInv'
  BY TypeNext, RunNext, ManifestNext DEF IInv
<1> QED
  BY <1>1, <1>2, PTL DEF Spec

\* Every reachable state of the directory and of the runs is well typed.
THEOREM TypeCorrect == Spec => []TypeOK
<1>1. IInv => TypeOK
  BY DEF IInv
<1> QED
  BY <1>1, Invariant, PTL

\* A manifest written by a run that was alone vouches for that run's images only,
\* and reports on the rootfs that is one of them.
THEOREM VouchesCorrect == Spec => []VouchesForOwnImages
<1>1. IInv => VouchesForOwnImages
  BY DEF IInv, ManifestInv
<1> QED
  BY <1>1, Invariant, PTL

\* After such a run the images listed are there, with the digests recorded.
THEOREM SettledCorrect == Spec => []SettledManifestMatches
<1>1. IInv => SettledManifestMatches
  BY DEF IInv, ManifestInv
<1> QED
  BY <1>1, Invariant, PTL
================================================================================
