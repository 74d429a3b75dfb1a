-------------------------- MODULE ContentCache_proofs --------------------------
(***************************************************************************)
(* Proofs about ContentCache, for any number of processes and chunks: what *)
(* fetches one at a time keep of the entry, what fetches that overlap      *)
(* leave behind, and that the former implement AtomicEntry.                *)
(***************************************************************************)
EXTENDS ContentCache, FiniteSetTheorems, TLAPS

\* A process has the file open that it writes or reads, and is in its own part
\* of the code.
InRole(p) ==
    /\ pc[p] \in {"download", "verify", "use"} => fd[p] # None
    /\ p \in Reader => pc[p] \in {"idle", "openVerify", "verify", "openUse", "use"}
    /\ p \notin Reader => pc[p] \notin {"openUse", "use"}

Attending == {"download", "digest", "replace", "exists", "unlink"}

\* Some fetch will still come past the temporary file.
Attended == part # None /\ ~litter => \E p \in Fetcher : pc[p] \in Attending

\* Of overlapping fetches: what is missing of a file that has a name, somebody
\* has yet to write.
Settling ==
    regime = "shared" => \A i \in {part, destination} \ {None} : \A c \in Chunk :
        \/ content[i][c] = "good"
        \/ \E p \in Fetcher : pc[p] = "download" /\ fd[p] = i /\ position[p] < c

OneAtATime == \A p, q \in Fetcher : pc[p] # "idle" /\ pc[q] # "idle" => p = q

\* Of fetches one at a time: what a process has found out is so, of the file
\* it has open and of the one it publishes.
Sound(p) ==
    /\ pc[p] \in {"download", "digest"} =>
          /\ part # None /\ fd[p] = part
          /\ matches[p] => \A c \in 1 .. position[p] : content[part][c] = "good"
    /\ pc[p] = "replace" => part # None /\ Intact(part)
    /\ pc[p] \in {"verify", "use"} => fd[p] # part /\ Intact(fd[p]) /\ matches[p]

Exclusive ==
    regime = "exclusive" =>
        /\ OneAtATime
        /\ destination # None => Intact(destination)
        /\ \A p \in Process : Sound(p)

IInv ==
    /\ TypeOK
    /\ part # None => part # destination
    /\ \A p \in Process : InRole(p)
    /\ Attended /\ Settling /\ Exclusive

-------------------------------------------------------------------------------
USE SizeAssumption, ProcessAssumption, FilesAssumption, RegimesAssumption

\* A fetch that needs a new file finds one: there are not as many in use.
LEMMA UnusedIsThere ==
  ASSUME TypeOK, part = None
  PROVE  Unused # {}
<1> DEFINE open == {fd[p] : p \in Process}
<1>1. fd \in Surjection(Process, open)
  <2>1. fd \in [Process -> open] /\ \A i \in open : \E p \in Process : fd[p] = i
    BY DEF TypeOK
  <2> QED
    BY <2>1 DEF Surjection
<1>2. IsFiniteSet(open) /\ Cardinality(open) <= Cardinality(Process)
  <2> HIDE DEF open
  <2> QED
    BY <1>1, FS_Surjection, ProcessAssumption
<1> DEFINE used == open \cup {destination}
<1>3. /\ IsFiniteSet(used) /\ Cardinality(Process) \in Nat /\ Cardinality(used) \in Nat
      /\ Cardinality(used) <= Cardinality(Process) + 1
  <2> HIDE DEF open
  <2>1. Cardinality(open) \in Nat /\ Cardinality(Process) \in Nat
    BY <1>2, FS_CardinalityType, ProcessAssumption
  <2>2. /\ IsFiniteSet(used)
        /\ Cardinality(used) = IF destination \in open THEN Cardinality(open)
                               ELSE Cardinality(open) + 1
    BY <1>2, FS_AddElement
  <2> QED
    BY <1>2, <2>1, <2>2
<1>4. IsFiniteSet(Inode) /\ Cardinality(Inode) = Files
  <2>1. Files \in Nat /\ 1 \in Int /\ Files \in Int
    BY FilesAssumption
  <2>2. IsFiniteSet(1 .. Files) /\ Cardinality(1 .. Files) = IF 1 > Files THEN 0 ELSE Files - 1 + 1
    BY <2>1, FS_Interval
  <2>3. (IF 1 > Files THEN 0 ELSE Files - 1 + 1) = Files
    BY <2>1
  <2> QED
    BY <2>2, <2>3 DEF Inode
<1>5. ASSUME Unused = {} PROVE FALSE
  <2>1. Inode \in SUBSET used
    BY <1>5 DEF Unused, Inode, None
  <2> HIDE DEF used
  <2>2. Cardinality(Inode) <= Cardinality(used)
    BY <1>3, <2>1, FS_Subset
  <2> QED
    BY <1>3, <1>4, <2>2, FilesAssumption
<1> QED
  BY <1>5

USE DEF Process

LEMMA InitInv == Init => IInv
<1> SUFFICES ASSUME Init PROVE IInv
  OBVIOUS
<1> USE DEF Init
<1>1. TypeOK
  <2>1. Empty \in [Chunk -> {"none", "good", "bad"}]
    BY DEF Empty
  <2>2. content \in [Inode -> [Chunk -> {"none", "good", "bad"}]]
    BY <2>1
  <2>3. /\ pc \in [Process -> Location] /\ fd \in [Process -> Inode \cup {None}]
        /\ position \in [Process -> 0 .. Size]
        /\ matches \in [Process -> BOOLEAN] /\ raising \in [Process -> BOOLEAN]
    BY DEF Location
  <2>4. part \in Inode \cup {None} /\ destination \in Inode \cup {None} /\ litter \in BOOLEAN
    OBVIOUS
  <2> QED
    BY <2>2, <2>3, <2>4, Zenon DEF TypeOK
<1>2. Attended /\ Settling /\ Exclusive
  BY DEF Attended, Settling, Exclusive, OneAtATime, Sound
<1>3. \A p \in Process : InRole(p)
  BY DEF InRole
<1> QED
  BY <1>1, <1>2, <1>3 DEF IInv

\* A step of one process that changes no file and no file's name.
LEMMA OwnStep ==
  ASSUME IInv, TypeOK', NEW p \in Process,
         UNCHANGED <<content, part, destination, regime>>,
         \A q \in Process \ {p} : /\ pc'[q] = pc[q] /\ fd'[q] = fd[q]
                                  /\ position'[q] = position[q] /\ matches'[q] = matches[q],
         InRole(p)',
         part = None \/ litter' \/ (litter' = litter /\ (pc[p] \in Attending => pc'[p] \in Attending)),
         pc[p] = "download" /\ regime = "shared" => position[p] = Size,
         regime = "exclusive" =>
            /\ Sound(p)'
            /\ p \in Fetcher => pc[p] # "idle" \/ pc'[p] = "idle" \/ \A q \in Fetcher : pc[q] = "idle"
  PROVE  IInv'
<1>1. \A q \in Process : InRole(q)'
  BY DEF IInv, InRole
<1>2. Attended'
  BY DEF IInv, Attended
<1>3. Settling'
  <2> SUFFICES ASSUME regime = "shared", NEW i \in {part, destination} \ {None}, NEW c \in Chunk,
                      content[i][c] # "good"
               PROVE  \E q \in Fetcher : pc'[q] = "download" /\ fd'[q] = i /\ position'[q] < c
    BY DEF Settling
  <2>1. PICK q \in Fetcher : pc[q] = "download" /\ fd[q] = i /\ position[q] < c
    BY DEF IInv, Settling
  <2>2. q # p
    BY <2>1 DEF Chunk
  <2> QED
    BY <2>1, <2>2
<1>4. Exclusive'
  <2> SUFFICES ASSUME regime = "exclusive" PROVE Exclusive'
    BY DEF Exclusive
  <2>1. OneAtATime'
    BY DEF IInv, Exclusive, OneAtATime
  <2>2. (destination # None => Intact(destination))'
    BY DEF IInv, Exclusive, Intact
  <2>3. \A q \in Process \ {p} : Sound(q)'
    BY DEF IInv, Exclusive, Sound, Intact
  <2> QED
    BY <2>1, <2>2, <2>3 DEF Exclusive
<1> QED
  BY <1>1, <1>2, <1>3, <1>4 DEF IInv

\* Types of what a process has of its own, after the steps they are made of.
LEMMA GoTypes ==
  ASSUME TypeOK, NEW p \in Process, NEW location \in Location, Go(p, location)
  PROVE  pc' \in [Process -> Location] /\ pc'[p] = location
         /\ \A q \in Process \ {p} : pc'[q] = pc[q]
BY DEF TypeOK, Go

LEMMA OpenTypes ==
  ASSUME TypeOK, NEW p \in Process, NEW file \in Inode \cup {None}, OpenFile(p, file)
  PROVE  /\ fd' \in [Process -> Inode \cup {None}] /\ fd'[p] = file
         /\ position' \in [Process -> 0 .. Size] /\ position'[p] = 0
         /\ matches' \in [Process -> BOOLEAN] /\ matches'[p] = TRUE
         /\ \A q \in Process \ {p} :
               fd'[q] = fd[q] /\ position'[q] = position[q] /\ matches'[q] = matches[q]
BY DEF TypeOK, OpenFile

LEMMA ReturnTypes ==
  ASSUME TypeOK, NEW p \in Process, Return(p)
  PROVE  /\ pc' \in [Process -> Location] /\ fd' \in [Process -> Inode \cup {None}]
         /\ position' \in [Process -> 0 .. Size] /\ matches' \in [Process -> BOOLEAN]
         /\ raising' \in [Process -> BOOLEAN]
         /\ pc'[p] = "idle" /\ fd'[p] = None
         /\ \A q \in Process \ {p} : /\ pc'[q] = pc[q] /\ fd'[q] = fd[q]
                                     /\ position'[q] = position[q] /\ matches'[q] = matches[q]
<1>1. Go(p, "idle") /\ OpenFile(p, None) /\ "idle" \in Location
  BY DEF Return, Location
<1>2. raising' \in [Process -> BOOLEAN]
  BY DEF Return, TypeOK
<1> QED
  BY <1>1, <1>2, GoTypes, OpenTypes

LEMMA FinishTypes ==
  ASSUME TypeOK, NEW p \in Process, Finish(p)
  PROVE  /\ pc' \in [Process -> Location] /\ fd' \in [Process -> Inode \cup {None}]
         /\ position' \in [Process -> 0 .. Size] /\ matches' \in [Process -> BOOLEAN]
         /\ raising' \in [Process -> BOOLEAN]
         /\ pc'[p] \in {"idle", "openVerify"} /\ fd'[p] = None
         /\ \A q \in Process \ {p} : /\ pc'[q] = pc[q] /\ fd'[q] = fd[q]
                                     /\ position'[q] = position[q] /\ matches'[q] = matches[q]
<1>1. CASE raising[p]
  BY <1>1, ReturnTypes DEF Finish
<1>2. CASE ~raising[p]
  <2>1. Go(p, "openVerify") /\ OpenFile(p, None) /\ raising' = raising /\ "openVerify" \in Location
    BY <1>2 DEF Finish, Location
  <2> QED
    BY <2>1, GoTypes, OpenTypes DEF TypeOK
<1> QED
  BY <1>1, <1>2

LEMMA BeginFetchInv == ASSUME IInv, NEW p \in Fetcher, BeginFetch(p) PROVE IInv'
<1> USE DEF BeginFetch
<1>1. p \in Process /\ pc[p] \in Location /\ InRole(p)
  BY DEF IInv, TypeOK
<1>2. TypeOK'
  BY <1>1 DEF IInv, TypeOK, Location, Go, files
<1>3. \A q \in Process \ {p} : /\ pc'[q] = pc[q] /\ fd'[q] = fd[q]
                               /\ position'[q] = position[q] /\ matches'[q] = matches[q]
  BY <1>1 DEF IInv, TypeOK, Go, files
<1>4. InRole(p)'
  BY <1>1 DEF IInv, TypeOK, InRole, Go, files
<1>5. part = None \/ litter' \/ (litter' = litter /\ (pc[p] \in Attending => pc'[p] \in Attending))
  BY <1>1 DEF IInv, TypeOK, InRole, Attending, Go, files, Faulty
<1>6. pc[p] = "download" /\ regime = "shared" => position[p] = Size
  BY <1>1 DEF Faulty
<1>7. ASSUME regime = "exclusive"
      PROVE  /\ Sound(p)'
             /\ p \in Fetcher => pc[p] # "idle" \/ pc'[p] = "idle" \/ \A q \in Fetcher : pc[q] = "idle"
  BY <1>1, <1>7 DEF IInv, TypeOK, Exclusive, Sound, Intact, InRole, Go, files, Faulty
<1>8. UNCHANGED <<content, part, destination, regime>>
  BY DEF files
<1> QED
  BY <1>1, <1>2, <1>3, <1>4, <1>5, <1>6, <1>7, <1>8, OwnStep

LEMMA EndOfBodyInv == ASSUME IInv, NEW p \in Fetcher, EndOfBody(p) PROVE IInv'
<1> USE DEF EndOfBody
<1>1. p \in Process /\ pc[p] \in Location /\ InRole(p)
  BY DEF IInv, TypeOK
<1>2. TypeOK'
  BY <1>1 DEF IInv, TypeOK, Location, Go, files
<1>3. \A q \in Process \ {p} : /\ pc'[q] = pc[q] /\ fd'[q] = fd[q]
                               /\ position'[q] = position[q] /\ matches'[q] = matches[q]
  BY <1>1 DEF IInv, TypeOK, Go, files
<1>4. InRole(p)'
  BY <1>1 DEF IInv, TypeOK, InRole, Go, files
<1>5. part = None \/ litter' \/ (litter' = litter /\ (pc[p] \in Attending => pc'[p] \in Attending))
  BY <1>1 DEF IInv, TypeOK, InRole, Attending, Go, files, Faulty
<1>6. pc[p] = "download" /\ regime = "shared" => position[p] = Size
  BY <1>1 DEF Faulty
<1>7. ASSUME regime = "exclusive"
      PROVE  /\ Sound(p)'
             /\ p \in Fetcher => pc[p] # "idle" \/ pc'[p] = "idle" \/ \A q \in Fetcher : pc[q] = "idle"
  BY <1>1, <1>7 DEF IInv, TypeOK, Exclusive, Sound, Intact, InRole, Go, files, Faulty
<1>8. UNCHANGED <<content, part, destination, regime>>
  BY DEF files
<1> QED
  BY <1>1, <1>2, <1>3, <1>4, <1>5, <1>6, <1>7, <1>8, OwnStep

LEMMA DownloadFailsInv == ASSUME IInv, NEW p \in Fetcher, DownloadFails(p) PROVE IInv'
<1> USE DEF DownloadFails
<1>1. p \in Process /\ pc[p] \in Location /\ InRole(p)
  BY DEF IInv, TypeOK
<1>2. TypeOK'
  BY <1>1 DEF IInv, TypeOK, Location, Go, files
<1>3. \A q \in Process \ {p} : /\ pc'[q] = pc[q] /\ fd'[q] = fd[q]
                               /\ position'[q] = position[q] /\ matches'[q] = matches[q]
  BY <1>1 DEF IInv, TypeOK, Go, files
<1>4. InRole(p)'
  BY <1>1 DEF IInv, TypeOK, InRole, Go, files
<1>5. part = None \/ litter' \/ (litter' = litter /\ (pc[p] \in Attending => pc'[p] \in Attending))
  BY <1>1 DEF IInv, TypeOK, InRole, Attending, Go, files, Faulty
<1>6. pc[p] = "download" /\ regime = "shared" => position[p] = Size
  BY <1>1 DEF Faulty
<1>7. ASSUME regime = "exclusive"
      PROVE  /\ Sound(p)'
             /\ p \in Fetcher => pc[p] # "idle" \/ pc'[p] = "idle" \/ \A q \in Fetcher : pc[q] = "idle"
  BY <1>1, <1>7 DEF IInv, TypeOK, Exclusive, Sound, Intact, InRole, Go, files, Faulty
<1>8. UNCHANGED <<content, part, destination, regime>>
  BY DEF files
<1> QED
  BY <1>1, <1>2, <1>3, <1>4, <1>5, <1>6, <1>7, <1>8, OwnStep

LEMMA CheckDigestInv == ASSUME IInv, NEW p \in Fetcher, CheckDigest(p) PROVE IInv'
<1> USE DEF CheckDigest
<1>1. p \in Process /\ pc[p] \in Location /\ InRole(p)
  BY DEF IInv, TypeOK
<1>2. TypeOK'
  <2>1. OpenFile(p, None) /\ UNCHANGED <<content, part, destination, litter, regime>>
    BY DEF files
  <2>2. CASE position[p] = Size /\ matches[p]
    BY <1>1, <2>1, <2>2, GoTypes, OpenTypes DEF IInv, TypeOK, Location
  <2>3. CASE ~(position[p] = Size /\ matches[p])
    <3>1. raising' \in [Process -> BOOLEAN]
      BY <2>3 DEF IInv, TypeOK
    <3> QED
      BY <1>1, <2>1, <2>3, <3>1, GoTypes, OpenTypes DEF IInv, TypeOK, Location
  <2> QED
    BY <2>2, <2>3
<1>3. \A q \in Process \ {p} : /\ pc'[q] = pc[q] /\ fd'[q] = fd[q]
                               /\ position'[q] = position[q] /\ matches'[q] = matches[q]
  BY <1>1 DEF IInv, TypeOK, Go, OpenFile, files
<1>4. InRole(p)'
  BY <1>1 DEF IInv, TypeOK, InRole, Go, OpenFile, files
<1>5. part = None \/ litter' \/ (litter' = litter /\ (pc[p] \in Attending => pc'[p] \in Attending))
  BY <1>1 DEF IInv, TypeOK, InRole, Attending, Go, OpenFile, files
<1>6. pc[p] = "download" /\ regime = "shared" => position[p] = Size
  BY <1>1
<1>7. ASSUME regime = "exclusive"
      PROVE  /\ Sound(p)'
             /\ p \in Fetcher => pc[p] # "idle" \/ pc'[p] = "idle" \/ \A q \in Fetcher : pc[q] = "idle"
  <2>1. Sound(p)
    BY <1>1, <1>7 DEF IInv, Exclusive
  <2>2. CASE position[p] = Size /\ matches[p]
    <3>1. pc'[p] = "replace"
      BY <1>1, <2>2, GoTypes DEF IInv, Location
    <3>2. part # None /\ Intact(part)
      BY <2>1, <2>2 DEF Sound, Intact, Chunk
    <3> QED
      BY <3>1, <3>2 DEF Sound, Intact, files
  <2>3. CASE ~(position[p] = Size /\ matches[p])
    <3>1. pc'[p] = "exists"
      BY <1>1, <2>3, GoTypes DEF IInv, Location
    <3> QED
      BY <3>1 DEF Sound
  <2> QED
    BY <2>2, <2>3
<1>8. UNCHANGED <<content, part, destination, regime>>
  BY DEF files
<1> QED
  BY <1>1, <1>2, <1>3, <1>4, <1>5, <1>6, <1>7, <1>8, OwnStep

LEMMA TestPartInv == ASSUME IInv, NEW p \in Fetcher, TestPart(p) PROVE IInv'
<1> USE DEF TestPart
<1>1. p \in Process /\ pc[p] \in Location /\ InRole(p)
  BY DEF IInv, TypeOK
<1>2. TypeOK'
  <2>1. UNCHANGED <<content, part, destination, litter, regime>>
    BY DEF files
  <2>2. CASE part # None
    BY <1>1, <2>1, <2>2, GoTypes DEF IInv, TypeOK, Location
  <2>3. CASE part = None
    BY <1>1, <2>1, <2>3, FinishTypes DEF IInv, TypeOK
  <2> QED
    BY <2>2, <2>3
<1>3. \A q \in Process \ {p} : /\ pc'[q] = pc[q] /\ fd'[q] = fd[q]
                               /\ position'[q] = position[q] /\ matches'[q] = matches[q]
  BY <1>1 DEF IInv, TypeOK, Go, OpenFile, Return, Finish, files
<1>4. InRole(p)'
  BY <1>1 DEF IInv, TypeOK, InRole, Go, OpenFile, Return, Finish, files
<1>5. part = None \/ litter' \/ (litter' = litter /\ (pc[p] \in Attending => pc'[p] \in Attending))
  BY <1>1 DEF IInv, TypeOK, InRole, Attending, Go, OpenFile, Return, Finish, files
<1>6. pc[p] = "download" /\ regime = "shared" => position[p] = Size
  BY <1>1
<1>7. ASSUME regime = "exclusive"
      PROVE  /\ Sound(p)'
             /\ p \in Fetcher => pc[p] # "idle" \/ pc'[p] = "idle" \/ \A q \in Fetcher : pc[q] = "idle"
  BY <1>1, <1>7 DEF IInv, TypeOK, Exclusive, Sound, Intact, InRole, Go, OpenFile, Return, Finish, files
<1>8. UNCHANGED <<content, part, destination, regime>>
  BY DEF files
<1> QED
  BY <1>1, <1>2, <1>3, <1>4, <1>5, <1>6, <1>7, <1>8, OwnStep

LEMMA OpenEntryInv == ASSUME IInv, NEW p \in Process, OpenEntry(p) PROVE IInv'
<1> USE DEF OpenEntry
<1>1. p \in Process /\ pc[p] \in Location /\ InRole(p)
  BY DEF IInv, TypeOK
<1>2. TypeOK'
  <2>1. UNCHANGED <<content, part, destination, litter, regime>>
    BY DEF files
  <2>2. CASE destination # None
    BY <1>1, <2>1, <2>2, GoTypes, OpenTypes DEF IInv, TypeOK, Location
  <2>3. CASE destination = None
    BY <1>1, <2>1, <2>3, ReturnTypes DEF IInv, TypeOK
  <2> QED
    BY <2>2, <2>3
<1>3. \A q \in Process \ {p} : /\ pc'[q] = pc[q] /\ fd'[q] = fd[q]
                               /\ position'[q] = position[q] /\ matches'[q] = matches[q]
  BY <1>1 DEF IInv, TypeOK, Go, OpenFile, Return, files
<1>4. InRole(p)'
  BY <1>1 DEF IInv, TypeOK, InRole, Go, OpenFile, Return, files
<1>5. part = None \/ litter' \/ (litter' = litter /\ (pc[p] \in Attending => pc'[p] \in Attending))
  BY <1>1 DEF IInv, TypeOK, InRole, Attending, Go, OpenFile, Return, files
<1>6. pc[p] = "download" /\ regime = "shared" => position[p] = Size
  BY <1>1
<1>7. ASSUME regime = "exclusive"
      PROVE  /\ Sound(p)'
             /\ p \in Fetcher => pc[p] # "idle" \/ pc'[p] = "idle" \/ \A q \in Fetcher : pc[q] = "idle"
  BY <1>1, <1>7 DEF IInv, TypeOK, Exclusive, Sound, Intact, InRole, Go, OpenFile, Return, files
<1>8. UNCHANGED <<content, part, destination, regime>>
  BY DEF files
<1> QED
  BY <1>1, <1>2, <1>3, <1>4, <1>5, <1>6, <1>7, <1>8, OwnStep

LEMMA ReadChunkInv == ASSUME IInv, NEW p \in Process, ReadChunk(p) PROVE IInv'
<1> USE DEF ReadChunk
<1>1. p \in Process /\ pc[p] \in Location /\ InRole(p)
  BY DEF IInv, TypeOK
<1>2. TypeOK'
  BY <1>1 DEF IInv, TypeOK, Location, files
<1>3. \A q \in Process \ {p} : /\ pc'[q] = pc[q] /\ fd'[q] = fd[q]
                               /\ position'[q] = position[q] /\ matches'[q] = matches[q]
  BY <1>1 DEF IInv, TypeOK, files
<1>4. InRole(p)'
  BY <1>1 DEF IInv, TypeOK, InRole, files
<1>5. part = None \/ litter' \/ (litter' = litter /\ (pc[p] \in Attending => pc'[p] \in Attending))
  BY <1>1 DEF IInv, TypeOK, InRole, Attending, files
<1>6. pc[p] = "download" /\ regime = "shared" => position[p] = Size
  BY <1>1
<1>7. ASSUME regime = "exclusive"
      PROVE  /\ Sound(p)'
             /\ p \in Fetcher => pc[p] # "idle" \/ pc'[p] = "idle" \/ \A q \in Fetcher : pc[q] = "idle"
  <2>1. fd[p] # part /\ Intact(fd[p]) /\ matches[p]
    BY <1>1, <1>7 DEF IInv, Exclusive, Sound
  <2>2. position[p] + 1 \in Chunk
    BY <1>1 DEF IInv, TypeOK, Chunk
  <2>3. matches'[p]
    BY <1>1, <2>1, <2>2 DEF IInv, TypeOK, Intact
  <2> QED
    BY <2>1, <2>3 DEF Sound, Intact, files
<1>8. UNCHANGED <<content, part, destination, regime>>
  BY DEF files
<1> QED
  BY <1>1, <1>2, <1>3, <1>4, <1>5, <1>6, <1>7, <1>8, OwnStep

LEMMA EndVerifyInv == ASSUME IInv, NEW p \in Process, EndVerify(p) PROVE IInv'
<1> USE DEF EndVerify
<1>1. p \in Process /\ pc[p] \in Location /\ InRole(p)
  BY DEF IInv, TypeOK
<1>2. TypeOK'
  <2>1. UNCHANGED <<content, part, destination, litter, regime>>
    BY DEF files
  <2>2. CASE p \in Reader /\ matches[p]
    BY <1>1, <2>1, <2>2, GoTypes, OpenTypes DEF IInv, TypeOK, Location
  <2>3. CASE ~(p \in Reader /\ matches[p])
    BY <1>1, <2>1, <2>3, ReturnTypes DEF IInv, TypeOK
  <2> QED
    BY <2>2, <2>3
<1>3. \A q \in Process \ {p} : /\ pc'[q] = pc[q] /\ fd'[q] = fd[q]
                               /\ position'[q] = position[q] /\ matches'[q] = matches[q]
  BY <1>1 DEF IInv, TypeOK, Go, OpenFile, Return, files
<1>4. InRole(p)'
  BY <1>1 DEF IInv, TypeOK, InRole, Go, OpenFile, Return, files
<1>5. part = None \/ litter' \/ (litter' = litter /\ (pc[p] \in Attending => pc'[p] \in Attending))
  BY <1>1 DEF IInv, TypeOK, InRole, Attending, Go, OpenFile, Return, files
<1>6. pc[p] = "download" /\ regime = "shared" => position[p] = Size
  BY <1>1
<1>7. ASSUME regime = "exclusive"
      PROVE  /\ Sound(p)'
             /\ p \in Fetcher => pc[p] # "idle" \/ pc'[p] = "idle" \/ \A q \in Fetcher : pc[q] = "idle"
  BY <1>1, <1>7 DEF IInv, TypeOK, Exclusive, Sound, Intact, InRole, Go, OpenFile, Return, files
<1>8. UNCHANGED <<content, part, destination, regime>>
  BY DEF files
<1> QED
  BY <1>1, <1>2, <1>3, <1>4, <1>5, <1>6, <1>7, <1>8, OwnStep

LEMMA BeginVerifyInv == ASSUME IInv, NEW p \in Reader, BeginVerify(p) PROVE IInv'
<1> USE DEF BeginVerify
<1>1. p \in Process /\ pc[p] \in Location /\ InRole(p)
  BY DEF IInv, TypeOK
<1>2. TypeOK'
  BY <1>1 DEF IInv, TypeOK, Location, Go, files
<1>3. \A q \in Process \ {p} : /\ pc'[q] = pc[q] /\ fd'[q] = fd[q]
                               /\ position'[q] = position[q] /\ matches'[q] = matches[q]
  BY <1>1 DEF IInv, TypeOK, Go, files
<1>4. InRole(p)'
  BY <1>1 DEF IInv, TypeOK, InRole, Go, files
<1>5. part = None \/ litter' \/ (litter' = litter /\ (pc[p] \in Attending => pc'[p] \in Attending))
  BY <1>1 DEF IInv, TypeOK, InRole, Attending, Go, files
<1>6. pc[p] = "download" /\ regime = "shared" => position[p] = Size
  BY <1>1
<1>7. ASSUME regime = "exclusive"
      PROVE  /\ Sound(p)'
             /\ p \in Fetcher => pc[p] # "idle" \/ pc'[p] = "idle" \/ \A q \in Fetcher : pc[q] = "idle"
  BY <1>1, <1>7 DEF IInv, TypeOK, Exclusive, Sound, Intact, InRole, Go, files
<1>8. UNCHANGED <<content, part, destination, regime>>
  BY DEF files
<1> QED
  BY <1>1, <1>2, <1>3, <1>4, <1>5, <1>6, <1>7, <1>8, OwnStep

LEMMA EndUseInv == ASSUME IInv, NEW p \in Reader, EndUse(p) PROVE IInv'
<1> USE DEF EndUse
<1>1. p \in Process /\ pc[p] \in Location /\ InRole(p)
  BY DEF IInv, TypeOK
<1>2. TypeOK'
  BY <1>1 DEF IInv, TypeOK, Location, Go, OpenFile, Return, files
<1>3. \A q \in Process \ {p} : /\ pc'[q] = pc[q] /\ fd'[q] = fd[q]
                               /\ position'[q] = position[q] /\ matches'[q] = matches[q]
  BY <1>1 DEF IInv, TypeOK, Go, OpenFile, Return, files
<1>4. InRole(p)'
  BY <1>1 DEF IInv, TypeOK, InRole, Go, OpenFile, Return, files
<1>5. part = None \/ litter' \/ (litter' = litter /\ (pc[p] \in Attending => pc'[p] \in Attending))
  BY <1>1 DEF IInv, TypeOK, InRole, Attending, Go, OpenFile, Return, files
<1>6. pc[p] = "download" /\ regime = "shared" => position[p] = Size
  BY <1>1
<1>7. ASSUME regime = "exclusive"
      PROVE  /\ Sound(p)'
             /\ p \in Fetcher => pc[p] # "idle" \/ pc'[p] = "idle" \/ \A q \in Fetcher : pc[q] = "idle"
  BY <1>1, <1>7 DEF IInv, TypeOK, Exclusive, Sound, Intact, InRole, Go, OpenFile, Return, files
<1>8. UNCHANGED <<content, part, destination, regime>>
  BY DEF files
<1> QED
  BY <1>1, <1>2, <1>3, <1>4, <1>5, <1>6, <1>7, <1>8, OwnStep

LEMMA KillInv == ASSUME IInv, NEW p \in Process, Kill(p) PROVE IInv'
<1> USE DEF Kill
<1>1. p \in Process /\ pc[p] \in Location /\ InRole(p)
  BY DEF IInv, TypeOK
<1>2. TypeOK'
  BY <1>1 DEF IInv, TypeOK, Location, Go, OpenFile, Return, files
<1>3. \A q \in Process \ {p} : /\ pc'[q] = pc[q] /\ fd'[q] = fd[q]
                               /\ position'[q] = position[q] /\ matches'[q] = matches[q]
  BY <1>1 DEF IInv, TypeOK, Go, OpenFile, Return, files
<1>4. InRole(p)'
  BY <1>1 DEF IInv, TypeOK, InRole, Go, OpenFile, Return, files
<1>5. part = None \/ litter' \/ (litter' = litter /\ (pc[p] \in Attending => pc'[p] \in Attending))
  BY <1>1 DEF IInv, TypeOK, InRole, Attending, Go, OpenFile, Return, files, Faulty
<1>6. pc[p] = "download" /\ regime = "shared" => position[p] = Size
  BY <1>1 DEF Faulty
<1>7. ASSUME regime = "exclusive"
      PROVE  /\ Sound(p)'
             /\ p \in Fetcher => pc[p] # "idle" \/ pc'[p] = "idle" \/ \A q \in Fetcher : pc[q] = "idle"
  BY <1>1, <1>7 DEF IInv, TypeOK, Exclusive, Sound, Intact, InRole, Go, OpenFile, Return, files, Faulty
<1>8. UNCHANGED <<content, part, destination, regime>>
  BY DEF files
<1> QED
  BY <1>1, <1>2, <1>3, <1>4, <1>5, <1>6, <1>7, <1>8, OwnStep

\* A fetch leaves files alone that have no name it writes to: of the others
\* none is in the way of what is being fetched.
LEMMA OpenPartInv == ASSUME IInv, NEW p \in Fetcher, OpenPart(p) PROVE IInv'
<1> DEFINE file == IF part # None THEN part ELSE CHOOSE i \in Unused : TRUE
<1>1. /\ p \in Process /\ pc[p] = "open" /\ "download" \in Location /\ TypeOK
      /\ Go(p, "download") /\ OpenFile(p, file)
      /\ part' = file /\ content' = [content EXCEPT ![file] = Empty]
      /\ UNCHANGED <<destination, raising, litter, regime>>
  BY DEF OpenPart, IInv, Location
<1>2. /\ file \in Inode /\ file # None /\ file # destination
      /\ \A q \in Process : fd[q] = file => part = file
  <2>1. CASE part # None
    BY <2>1 DEF IInv, TypeOK
  <2>2. CASE part = None
    <3>1. Unused # {}
      BY <1>1, <2>2, UnusedIsThere
    <3>2. file \in Unused
      BY <2>2, <3>1
    <3> QED
      BY <3>2 DEF Unused, Inode, None
  <2> QED
    BY <2>1, <2>2
<1> HIDE DEF file
<1>3. /\ pc' \in [Process -> Location] /\ pc'[p] = "download"
      /\ \A q \in Process \ {p} : pc'[q] = pc[q]
  BY <1>1, GoTypes
<1>4. /\ fd' \in [Process -> Inode \cup {None}] /\ fd'[p] = file
      /\ position' \in [Process -> 0 .. Size] /\ position'[p] = 0
      /\ matches' \in [Process -> BOOLEAN]
      /\ \A q \in Process \ {p} :
            fd'[q] = fd[q] /\ position'[q] = position[q] /\ matches'[q] = matches[q]
  BY <1>1, <1>2, OpenTypes
<1>5. /\ content' \in [Inode -> [Chunk -> {"none", "good", "bad"}]]
      /\ content'[file] = Empty
      /\ \A i \in Inode \ {file} : content'[i] = content[i]
  BY <1>1, <1>2 DEF TypeOK, Empty
<1>6. TypeOK'
  BY <1>1, <1>2, <1>3, <1>4, <1>5 DEF TypeOK
<1>7. \A q \in Process : InRole(q)'
  BY <1>1, <1>2, <1>3, <1>4 DEF IInv, InRole
<1>8. Attended'
  BY <1>3 DEF Attended, Attending
<1>9. Settling'
  <2> SUFFICES ASSUME regime = "shared", NEW i \in {file, destination} \ {None}, NEW c \in Chunk
               PROVE  \/ content'[i][c] = "good"
                      \/ \E q \in Fetcher : pc'[q] = "download" /\ fd'[q] = i /\ position'[q] < c
    BY <1>1 DEF Settling
  <2>1. CASE i = file
    BY <1>3, <1>4, <2>1 DEF Chunk
  <2>2. CASE i # file
    <3>1. i = destination /\ i \in Inode /\ content'[i] = content[i]
      BY <1>1, <1>5, <2>2 DEF TypeOK
    <3>2. ASSUME NEW q \in Fetcher, pc[q] = "download"
          PROVE  pc'[q] = pc[q] /\ fd'[q] = fd[q] /\ position'[q] = position[q]
      BY <1>1, <1>3, <1>4, <3>2
    <3> QED
      BY <3>1, <3>2 DEF IInv, Settling
  <2> QED
    BY <2>1, <2>2
<1>10. Exclusive'
  <2> SUFFICES ASSUME regime = "exclusive"
               PROVE  /\ OneAtATime'
                      /\ destination # None => Intact(destination)'
                      /\ \A q \in Process : Sound(q)'
    BY <1>1 DEF Exclusive
  <2>1. OneAtATime'
    BY <1>1, <1>3 DEF IInv, Exclusive, OneAtATime
  <2>2. destination # None => Intact(destination)'
    BY <1>1, <1>2, <1>5 DEF IInv, Exclusive, Intact, TypeOK
  <2>3. Sound(p)'
    BY <1>1, <1>2, <1>3, <1>4 DEF Sound
  <2>4. ASSUME NEW q \in Process \ {p} PROVE Sound(q)'
    <3>1. pc[q] \in {"idle", "openVerify", "verify", "openUse", "use"}
      BY <1>1 DEF IInv, Exclusive, OneAtATime, InRole
    <3>2. pc[q] \in {"verify", "use"} =>
             fd[q] \in Inode \ {file} /\ Intact(fd[q]) /\ matches[q]
      BY <1>1, <1>2 DEF IInv, Exclusive, Sound, InRole, TypeOK
    <3> QED
      BY <1>1, <1>3, <1>4, <1>5, <3>1, <3>2 DEF Sound, Intact
  <2> QED
    BY <2>1, <2>2, <2>3, <2>4
<1> QED
  BY <1>1, <1>2, <1>6, <1>7, <1>8, <1>9, <1>10 DEF IInv

LEMMA DownloadInv ==
  ASSUME IInv, NEW p \in Fetcher, NEW bytes \in {"good", "bad"}, Download(p, bytes),
         regime = "shared" => bytes = "good"
  PROVE  IInv'
<1> DEFINE next == position[p] + 1
<1>1. /\ p \in Process /\ pc[p] = "download" /\ TypeOK /\ fd[p] \in Inode
      /\ position[p] \in 0 .. Size /\ next \in Chunk /\ next = position[p] + 1
      /\ content' = [content EXCEPT ![fd[p]][next] = bytes]
      /\ UNCHANGED <<part, destination, pc, fd, raising, litter, regime>>
  BY DEF Download, IInv, TypeOK, InRole, Chunk
<1>2. /\ position' \in [Process -> 0 .. Size] /\ position'[p] = next
      /\ matches' \in [Process -> BOOLEAN] /\ matches'[p] = (matches[p] /\ bytes = "good")
      /\ \A q \in Process \ {p} : position'[q] = position[q] /\ matches'[q] = matches[q]
  BY <1>1 DEF Download, TypeOK, Chunk
<1> HIDE DEF next
<1>3. /\ content' \in [Inode -> [Chunk -> {"none", "good", "bad"}]]
      /\ content'[fd[p]][next] = bytes
      /\ \A c \in Chunk \ {next} : content'[fd[p]][c] = content[fd[p]][c]
      /\ \A i \in Inode \ {fd[p]} : content'[i] = content[i]
  BY <1>1 DEF TypeOK
<1>4. TypeOK'
  BY <1>1, <1>2, <1>3 DEF TypeOK
<1>5. (\A q \in Process : InRole(q)') /\ Attended'
  BY <1>1 DEF IInv, InRole, Attended
<1>6. Settling'
  <2> SUFFICES ASSUME regime = "shared", NEW i \in {part, destination} \ {None}, NEW c \in Chunk,
                      content'[i][c] # "good"
               PROVE  \E q \in Fetcher : pc'[q] = "download" /\ fd'[q] = i /\ position'[q] < c
    BY <1>1 DEF Settling
  <2>1. i \in Inode /\ ~(i = fd[p] /\ c = next) /\ content'[i][c] = content[i][c]
    BY <1>1, <1>3 DEF TypeOK
  <2>2. PICK q \in Fetcher : pc[q] = "download" /\ fd[q] = i /\ position[q] < c
    BY <2>1 DEF IInv, Settling
  <2>3. position'[q] < c
    BY <1>1, <1>2, <2>1, <2>2 DEF Chunk
  <2> QED
    BY <1>1, <2>2, <2>3
<1>7. Exclusive'
  <2> SUFFICES ASSUME regime = "exclusive"
               PROVE  /\ OneAtATime'
                      /\ destination # None => Intact(destination)'
                      /\ \A q \in Process : Sound(q)'
    BY <1>1 DEF Exclusive
  <2>0. /\ fd[p] = part /\ part # None /\ part # destination
        /\ matches[p] => \A c \in 1 .. position[p] : content[part][c] = "good"
    BY <1>1 DEF IInv, Exclusive, Sound
  <2>1. OneAtATime'
    BY <1>1 DEF IInv, Exclusive, OneAtATime
  <2>2. destination # None => Intact(destination)'
    BY <1>1, <1>3, <2>0 DEF IInv, Exclusive, Intact, TypeOK
  <2>3. Sound(p)'
    <3>1. ASSUME matches'[p], NEW c \in 1 .. next PROVE content'[part][c] = "good"
      <4>1. CASE c = next
        BY <1>2, <1>3, <2>0, <3>1, <4>1
      <4>2. CASE c # next
        <5>1. c \in 1 .. position[p] /\ c \in Chunk \ {next}
          BY <1>1, <4>2 DEF Chunk
        <5> QED
          BY <1>2, <1>3, <2>0, <3>1, <5>1
      <4> QED
        BY <4>1, <4>2
    <3> QED
      BY <1>1, <1>2, <2>0, <3>1 DEF Sound
  <2>4. ASSUME NEW q \in Process \ {p} PROVE Sound(q)'
    <3>1. pc[q] \in {"idle", "openVerify", "verify", "openUse", "use"}
      BY <1>1 DEF IInv, Exclusive, OneAtATime, InRole
    <3>2. pc[q] \in {"verify", "use"} =>
             fd[q] \in Inode \ {part} /\ Intact(fd[q]) /\ matches[q]
      BY <1>1 DEF IInv, Exclusive, Sound, InRole, TypeOK
    <3> QED
      BY <1>1, <1>2, <1>3, <2>0, <3>1, <3>2 DEF Sound, Intact
  <2> QED
    BY <2>1, <2>2, <2>3, <2>4
<1> QED
  BY <1>1, <1>4, <1>5, <1>6, <1>7 DEF IInv

\* The temporary name is gone: by replace, its file is the entry now.
LEMMA PartGone ==
  ASSUME IInv, TypeOK', NEW p \in Fetcher, part # None, part' = None,
         UNCHANGED <<content, regime>>,
         destination' = destination \/ (destination' = part /\ pc[p] = "replace"),
         pc[p] # "download", pc[p] # "idle",
         pc'[p] \in {"idle", "exists", "openVerify"},
         \A q \in Process \ {p} : /\ pc'[q] = pc[q] /\ fd'[q] = fd[q]
                                  /\ position'[q] = position[q] /\ matches'[q] = matches[q]
  PROVE  IInv'
<1>1. \A q \in Process : InRole(q)'
  BY DEF IInv, InRole
<1>2. Attended'
  BY DEF Attended
<1>3. Settling'
  <2> SUFFICES ASSUME regime = "shared", NEW i \in {part, destination} \ {None}, NEW c \in Chunk,
                      content[i][c] # "good"
               PROVE  \E q \in Fetcher : pc'[q] = "download" /\ fd'[q] = i /\ position'[q] < c
    BY DEF Settling
  <2>1. PICK q \in Fetcher : pc[q] = "download" /\ fd[q] = i /\ position[q] < c
    BY DEF IInv, Settling
  <2>2. q \in Process \ {p}
    BY <2>1
  <2> QED
    BY <2>1, <2>2
<1>4. Exclusive'
  <2> SUFFICES ASSUME regime = "exclusive"
               PROVE  /\ OneAtATime'
                      /\ destination' # None => Intact(destination)'
                      /\ \A q \in Process : Sound(q)'
    BY DEF Exclusive
  <2>1. OneAtATime'
    BY DEF IInv, Exclusive, OneAtATime
  <2>2. destination' # None => Intact(destination)'
    <3>1. Sound(p) /\ (destination # None => Intact(destination))
      BY DEF IInv, Exclusive
    <3> QED
      BY <3>1 DEF Sound, Intact
  <2>3. Sound(p)'
    BY DEF Sound
  <2>4. ASSUME NEW q \in Process \ {p} PROVE Sound(q)'
    <3>1. pc[q] \in {"idle", "openVerify", "verify", "openUse", "use"}
      BY DEF IInv, Exclusive, OneAtATime, InRole
    <3>2. pc[q] \in {"verify", "use"} => fd[q] # None /\ Intact(fd[q]) /\ matches[q]
      BY DEF IInv, Exclusive, Sound, InRole
    <3> QED
      BY <3>1, <3>2 DEF Sound, Intact
  <2> QED
    BY <2>1, <2>2, <2>3, <2>4
<1> QED
  BY <1>1, <1>2, <1>3, <1>4 DEF IInv

LEMMA ReplaceInv == ASSUME IInv, NEW p \in Fetcher, Replace(p) PROVE IInv'
<1> USE DEF Replace
<1>1. p \in Process /\ pc[p] = "replace" /\ TypeOK /\ "exists" \in Location
  BY DEF IInv, Location
<1>2. /\ pc' \in [Process -> Location] /\ pc'[p] = "exists"
      /\ \A q \in Process \ {p} : pc'[q] = pc[q]
  BY <1>1, GoTypes
<1>3. TypeOK'
  <2>1. CASE part # None
    BY <1>1, <1>2, <2>1 DEF TypeOK
  <2>2. CASE part = None
    BY <1>1, <1>2, <2>2 DEF TypeOK
  <2> QED
    BY <2>1, <2>2
<1>4. CASE part # None
  BY <1>1, <1>2, <1>3, <1>4, PartGone
<1>5. CASE part = None
  <2>1. InRole(p)'
    BY <1>1, <1>2 DEF IInv, InRole
  <2>2. Sound(p)'
    BY <1>2 DEF Sound
  <2>3. UNCHANGED <<content, part, destination, fd, position, matches, regime>>
    BY <1>5
  <2> QED
    BY <1>1, <1>2, <1>3, <1>5, <2>1, <2>2, <2>3, OwnStep
<1> QED
  BY <1>4, <1>5

LEMMA UnlinkPartInv == ASSUME IInv, NEW p \in Fetcher, UnlinkPart(p) PROVE IInv'
<1> USE DEF UnlinkPart
<1>1. p \in Process /\ pc[p] = "unlink" /\ TypeOK
  BY DEF IInv
<1>2. CASE part # None
  <2>1. TypeOK' /\ pc'[p] \in {"idle", "openVerify"}
    BY <1>1, <1>2, FinishTypes DEF TypeOK
  <2>2. \A q \in Process \ {p} : /\ pc'[q] = pc[q] /\ fd'[q] = fd[q]
                                 /\ position'[q] = position[q] /\ matches'[q] = matches[q]
    BY <1>1, <1>2, FinishTypes
  <2> QED
    BY <1>1, <1>2, <2>1, <2>2, PartGone
<1>3. CASE part = None
  <2>1. TypeOK' /\ pc'[p] = "idle"
    BY <1>1, <1>3, ReturnTypes DEF TypeOK
  <2>2. \A q \in Process \ {p} : /\ pc'[q] = pc[q] /\ fd'[q] = fd[q]
                                 /\ position'[q] = position[q] /\ matches'[q] = matches[q]
    BY <1>1, <1>3, ReturnTypes
  <2>3. InRole(p)' /\ Sound(p)'
    BY <2>1 DEF InRole, Sound
  <2> QED
    BY <1>1, <1>3, <2>1, <2>2, <2>3, OwnStep
<1> QED
  BY <1>2, <1>3

LEMMA NextInv == IInv /\ Next => IInv'
<1> SUFFICES ASSUME IInv, Next PROVE IInv'
  OBVIOUS
<1>1. ASSUME NEW p \in Fetcher, Fetch(p) PROVE IInv'
  <2>1. ASSUME NEW bytes \in (IF Faulty THEN {"good", "bad"} ELSE {"good"}), Download(p, bytes)
        PROVE  IInv'
    <3>1. bytes \in {"good", "bad"} /\ (regime = "shared" => bytes = "good")
      BY DEF Faulty
    <3> QED
      BY <2>1, <3>1, DownloadInv
  <2> QED
    BY <1>1, <2>1, BeginFetchInv, OpenPartInv, EndOfBodyInv, DownloadFailsInv, CheckDigestInv,
       ReplaceInv, TestPartInv, UnlinkPartInv DEF Fetch
<1>2. ASSUME NEW p \in Reader, Read(p) PROVE IInv'
  BY <1>2, BeginVerifyInv, EndUseInv DEF Read
<1>3. ASSUME NEW p \in Process, Verify(p) \/ Kill(p) PROVE IInv'
  BY <1>3, OpenEntryInv, ReadChunkInv, EndVerifyInv, KillInv DEF Verify
<1> QED
  BY <1>1, <1>2, <1>3 DEF Next

LEMMA StutterInv == IInv /\ UNCHANGED vars => IInv'
<1> SUFFICES ASSUME IInv, UNCHANGED vars PROVE IInv'
  OBVIOUS
<1> USE DEF vars, files, local
<1>1. TypeOK' /\ (\A p \in Process : InRole(p)') /\ Attended' /\ Settling'
  BY DEF IInv, TypeOK, InRole, Attended, Settling
<1>2. Exclusive'
  BY DEF IInv, Exclusive, OneAtATime, Sound, Intact
<1> QED
  BY <1>1, <1>2 DEF IInv

LEMMA StepInv == IInv /\ [Next]_vars => IInv'
BY NextInv, StutterInv

LEMMA SpecInv == Spec => []IInv
BY InitInv, StepInv, PTL DEF Spec

\* The state of the cache stays of the declared type.
THEOREM TypeCorrect == Spec => []TypeOK
<1>1. IInv => TypeOK
  BY DEF IInv
<1> QED
  BY SpecInv, <1>1, PTL

\* Whatever fails while it fetches, and wherever else it is killed: with no fetch
\* under way there is a temporary file only where a kill has left one.
THEOREM LeavesNoPart == Spec => []NoLitter
<1>1. IInv => NoLitter
  BY DEF IInv, Attended, Attending, NoLitter
<1> QED
  BY SpecInv, <1>1, PTL

\* Any number of overlapping fetches of an honest server, publishing one
\* another's unfinished files, leave a whole entry behind or none.
THEOREM Settles == Spec => []SettlesIntact
<1>1. IInv => SettlesIntact
  BY DEF IInv, Settling, SettlesIntact, Intact
<1> QED
  BY SpecInv, <1>1, PTL

\* A reader in the exclusive regime that gets to the end of its use has read what
\* it verified.
THEOREM UsesVerified == Spec => UsesWhatWasVerified
<1>1. IInv => (regime = "exclusive" => \A p \in Reader : EndUse(p) => matches[p])
  BY DEF IInv, Exclusive, Sound, EndUse
<1> QED
  BY SpecInv, <1>1, PTL DEF UsesWhatWasVerified
-------------------------------------------------------------------------------
(* The refinement: the entry is published, then replaced by its like. *)

\* What the abstract entry is in a state of the cache.
Shown == IF regime = "exclusive" THEN Entry ELSE "absent"

LEMMA ShownInit == Init => Shown \in {"absent", "intact"}
BY DEF Init, Shown, Entry

\* The entry, once there, is never taken away.
LEMMA EntryStays == ASSUME IInv, [Next]_vars, destination # None PROVE destination' # None
<1>1. CASE UNCHANGED vars
  BY <1>1 DEF vars, files
<1>2. ASSUME NEW p \in Fetcher, Fetch(p) PROVE destination' # None
  BY <1>2 DEF Fetch, BeginFetch, OpenPart, EndOfBody, DownloadFails, Download, CheckDigest, Replace,
              TestPart, UnlinkPart, files
<1>3. ASSUME NEW p \in Reader, Read(p) PROVE destination' # None
  BY <1>3 DEF Read, BeginVerify, EndUse, files
<1>4. ASSUME NEW p \in Process, Verify(p) \/ Kill(p) PROVE destination' # None
  BY <1>4 DEF Verify, OpenEntry, ReadChunk, EndVerify, Kill, files
<1> QED
  BY <1>1, <1>2, <1>3, <1>4 DEF Next

LEMMA RegimeStays == ASSUME [Next]_vars PROVE regime' = regime
<1>1. CASE UNCHANGED vars
  BY <1>1 DEF vars
<1>2. ASSUME NEW p \in Fetcher, Fetch(p) PROVE regime' = regime
  BY <1>2 DEF Fetch, BeginFetch, OpenPart, EndOfBody, DownloadFails, Download, CheckDigest, Replace,
              TestPart, UnlinkPart
<1>3. ASSUME NEW p \in Reader, Read(p) PROVE regime' = regime
  BY <1>3 DEF Read, BeginVerify, EndUse
<1>4. ASSUME NEW p \in Process, Verify(p) \/ Kill(p) PROVE regime' = regime
  BY <1>4 DEF Verify, OpenEntry, ReadChunk, EndVerify, Kill
<1> QED
  BY <1>1, <1>2, <1>3, <1>4 DEF Next

\* A step publishes the locked bytes, or is not one of the entry's.
LEMMA ShownStep ==
  ASSUME IInv, IInv', [Next]_vars
  PROVE  Shown' = "intact" \/ Shown' = Shown
<1>1. regime' = regime
  BY RegimeStays
<1>2. CASE regime = "exclusive"
  <2>1. CASE destination' = None
    <3>1. destination = None
      BY <2>1, EntryStays
    <3> QED
      BY <1>1, <2>1, <3>1 DEF Shown, Entry
  <2>2. CASE destination' # None
    <3>1. Intact(destination)'
      BY <1>1, <1>2, <2>2 DEF IInv, Exclusive
    <3> QED
      BY <1>1, <1>2, <2>2, <3>1 DEF Shown, Entry
  <2> QED
    BY <2>1, <2>2
<1>3. CASE regime # "exclusive"
  BY <1>1, <1>3 DEF Shown
<1> QED
  BY <1>2, <1>3

\* Of fetches one at a time, whatever the server sends, with kills and forced
\* repetitions, the destination appears in one step with the locked bytes and
\* never shows anything else.
THEOREM Implements == Spec => ImplementsAtomicEntry
<1>1. Init => Abstract!Init
  BY ShownInit DEF Abstract!Init, Shown
<1>2. IInv /\ IInv' /\ [Next]_vars => [Abstract!Next]_(IF regime = "exclusive" THEN Entry ELSE "absent")
  BY ShownStep DEF Abstract!Next, Abstract!Publish, Shown
<1> QED
  BY SpecInv, <1>1, <1>2, PTL DEF Spec, ImplementsAtomicEntry, Abstract!Spec
===============================================================================
