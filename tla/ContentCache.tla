----------------------------- MODULE ContentCache -----------------------------
(***************************************************************************)
(* The cache of locked artifacts: fetch_locked_artifact (firmware.py       *)
(* 565-609), verify_locked_artifact and fetch_locked_to_cache              *)
(* (boot_harness.py 703-750), and the scripts that verify a cached file    *)
(* and then read it again to use it (prepare_runtime.py 91-137).           *)
(*                                                                         *)
(* One artifact, Size chunks long.  Every fetching process writes to the   *)
(* same temporary name (".part") next to the destination, each through a   *)
(* descriptor and an offset of its own.  A chunk of a file is "good" when  *)
(* it has the locked bytes, "bad" when it has others and "none" when it is *)
(* missing or a hole.                                                      *)
(*                                                                         *)
(* There are two regimes.  In the exclusive one fetches do not overlap,    *)
(* and servers may misbehave and processes be killed; in the shared one    *)
(* fetches overlap, and everybody behaves.                                 *)
(***************************************************************************)
EXTENDS Naturals, FiniteSets

CONSTANTS Fetcher,     \* processes that call fetch_locked_to_cache
          Reader,      \* processes that verify the entry and then read it
          Size,        \* chunks in the artifact
          Files,       \* files that can exist: two named, one per process
          Regimes      \* the environments considered

Process == Fetcher \cup Reader
Chunk   == 1 .. Size

Inode   == 1 .. Files
None  == 0                            \* no file of that name

ASSUME SizeAssumption == Size \in Nat \ {0}
ASSUME ProcessAssumption == Fetcher \cap Reader = {} /\ IsFiniteSet(Process)
ASSUME FilesAssumption == Files \in Nat /\ Files >= 2 + Cardinality(Process)
ASSUME RegimesAssumption == Regimes \subseteq {"exclusive", "shared"}

VARIABLES
    content,     \* what the files hold
    part,        \* the file named DESTINATION.part
    destination, \* the file named DESTINATION
    pc,          \* where each process is
    fd,          \* the file it has open
    position,    \* how many chunks it has written or read
    matches,     \* whether all of them had the locked bytes
    raising,     \* whether an exception is on its way through `finally'
    litter,      \* history: a process was killed with its .part in place
    regime       \* the environment, which does not change

files == <<content, part, destination>>
local == <<pc, fd, position, matches, raising>>
vars  == <<files, local, litter, regime>>

Faulty == regime = "exclusive"

Location ==
    {"idle", "open", "download", "digest", "replace", "exists", "unlink",
     "openVerify", "verify", "openUse", "use"}

TypeOK ==
    /\ content \in [Inode -> [Chunk -> {"none", "good", "bad"}]]
    /\ part \in Inode \cup {None}
    /\ destination \in Inode \cup {None}
    /\ pc \in [Process -> Location]
    /\ fd \in [Process -> Inode \cup {None}]
    /\ position \in [Process -> 0 .. Size]
    /\ matches \in [Process -> BOOLEAN]
    /\ raising \in [Process -> BOOLEAN]
    /\ litter \in BOOLEAN
    /\ regime \in Regimes

Empty  == [c \in Chunk |-> "none"]
Intact(file) == \A c \in Chunk : content[file][c] = "good"

Init ==
    /\ content = [i \in Inode |-> Empty]
    /\ part = None
    /\ destination = None
    /\ pc = [p \in Process |-> "idle"]
    /\ fd = [p \in Process |-> None]
    /\ position = [p \in Process |-> 0]
    /\ matches = [p \in Process |-> TRUE]
    /\ raising = [p \in Process |-> FALSE]
    /\ litter = FALSE
    /\ regime \in Regimes
-------------------------------------------------------------------------------
Go(p, location) == pc' = [pc EXCEPT ![p] = location]

\* Process p opens file, or finishes with the one it has (None).
OpenFile(p, file) ==
    /\ fd' = [fd EXCEPT ![p] = file]
    /\ position' = [position EXCEPT ![p] = 0]
    /\ matches' = [matches EXCEPT ![p] = TRUE]

\* A call returns or raises to its caller, its descriptor closed.
Return(p) ==
    /\ Go(p, "idle")
    /\ OpenFile(p, None)
    /\ raising' = [raising EXCEPT ![p] = FALSE]

\* A file nobody has open or can find by name.
Unused == {i \in Inode : i \notin {part, destination} /\ \A p \in Process : fd[p] # i}

\* fetch_locked_to_cache: an entry that exists is only verified, unless forced.
BeginFetch(p) ==
    /\ pc[p] = "idle"
    /\ Faulty => \A q \in Fetcher : pc[q] = "idle"
    /\ \/ Go(p, "open")          \* not there, or force
       \/ destination # None /\ Go(p, "openVerify")
    /\ UNCHANGED <<files, fd, position, matches, raising, litter, regime>>

\* Fault: the destination is written in place.
OpenDestination(p) ==
    /\ pc[p] = "open"
    /\ LET file == IF destination # None THEN destination
                   ELSE IF part # None THEN part ELSE CHOOSE i \in Unused : TRUE
       IN  /\ part' = IF file = destination THEN None ELSE file
           /\ content' = [content EXCEPT ![file] = Empty]
           /\ OpenFile(p, file)
    /\ Go(p, "download")
    /\ UNCHANGED <<destination, raising, litter, regime>>

\* The server answers and the temporary file is opened with "wb": made, or
\* found and cut to nothing, whoever may be writing it.
OpenPart(p) ==
    /\ pc[p] = "open"
    /\ LET file == IF part # None THEN part ELSE CHOOSE i \in Unused : TRUE
       IN  /\ part' = file
           /\ content' = [content EXCEPT ![file] = Empty]
           /\ OpenFile(p, file)
    /\ Go(p, "download")
    /\ UNCHANGED <<destination, raising, litter, regime>>

\* Fault: no check of the locked size while bytes arrive.
DownloadUnlimited(p, bytes) ==
    /\ pc[p] = "download"
    /\ content' = [content EXCEPT ![fd[p]][position[p] + 1] = bytes]
    /\ position' = [position EXCEPT ![p] = @ + 1]
    /\ matches' = [matches EXCEPT ![p] = @ /\ bytes = "good"]
    /\ UNCHANGED <<part, destination, pc, fd, raising, litter, regime>>

\* Fault: the file is opened to append, so a chunk lands wherever the others
\* have left the end of the file.
DownloadAppends(p, bytes) ==
    /\ pc[p] = "download"
    /\ position[p] < Size
    /\ LET end == {c \in Chunk : content[fd[p]][c] = "none"}
       IN  content' = IF end = {} THEN content
                      ELSE [content EXCEPT ![fd[p]][CHOOSE c \in end : \A d \in end : c <= d] =
                                IF position[p] + 1 \in end /\ \A d \in end : position[p] < d
                                THEN bytes ELSE "bad"]
    /\ position' = [position EXCEPT ![p] = @ + 1]
    /\ matches' = [matches EXCEPT ![p] = @ /\ bytes = "good"]
    /\ UNCHANGED <<part, destination, pc, fd, raising, litter, regime>>

\* A chunk arrives and is written at the process's own offset.
Download(p, bytes) ==
    /\ pc[p] = "download"
    /\ position[p] < Size
    /\ content' = [content EXCEPT ![fd[p]][position[p] + 1] = bytes]
    /\ position' = [position EXCEPT ![p] = @ + 1]
    /\ matches' = [matches EXCEPT ![p] = @ /\ bytes = "good"]
    /\ UNCHANGED <<part, destination, pc, fd, raising, litter, regime>>

\* The body ends; the file is flushed and closed.
EndOfBody(p) ==
    /\ pc[p] = "download"
    /\ Faulty \/ position[p] = Size
    /\ Go(p, "digest")
    /\ UNCHANGED <<files, fd, position, matches, raising, litter, regime>>

\* Fault: no `finally' around the download.
DownloadFailsWithoutFinally(p) ==
    /\ Faulty
    /\ pc[p] \in {"open", "download"}
    /\ Return(p)
    /\ UNCHANGED <<files, litter, regime>>

\* The connection is refused or breaks, the disk is full, or the body is longer
\* than the locked size.
DownloadFails(p) ==
    /\ Faulty
    /\ pc[p] \in {"open", "download"}
    /\ Go(p, "exists")
    /\ raising' = [raising EXCEPT ![p] = TRUE]
    /\ UNCHANGED <<files, fd, position, matches, litter, regime>>

\* Fault: the size is checked, the digest is not.
CheckSizeOnly(p) ==
    /\ pc[p] = "digest"
    /\ IF position[p] = Size
       THEN Go(p, "replace") /\ raising' = raising
       ELSE Go(p, "exists") /\ raising' = [raising EXCEPT ![p] = TRUE]
    /\ OpenFile(p, None)
    /\ UNCHANGED <<files, litter, regime>>

\* Size and digest of the bytes received, not of the file.
CheckDigest(p) ==
    /\ pc[p] = "digest"
    /\ IF position[p] = Size /\ matches[p]
       THEN Go(p, "replace") /\ raising' = raising
       ELSE Go(p, "exists") /\ raising' = [raising EXCEPT ![p] = TRUE]
    /\ OpenFile(p, None)
    /\ UNCHANGED <<files, litter, regime>>

\* temporary.replace(destination): whatever file has the temporary's name by
\* now, or FileNotFoundError.
Replace(p) ==
    /\ pc[p] = "replace"
    /\ IF part # None
       THEN destination' = part /\ part' = None /\ raising' = raising
       ELSE /\ UNCHANGED <<part, destination>>
            /\ raising' = [raising EXCEPT ![p] = TRUE]
    /\ Go(p, "exists")
    /\ litter' = FALSE
    /\ UNCHANGED <<content, fd, position, matches, regime>>

\* finally: `if temporary.exists()' and `temporary.unlink()'; then the exception
\* goes on, or the caller verifies what was published.
Finish(p) ==
    IF raising[p]
    THEN Return(p)
    ELSE Go(p, "openVerify") /\ OpenFile(p, None) /\ raising' = raising

TestPart(p) ==
    /\ pc[p] = "exists"
    /\ IF part # None
       THEN Go(p, "unlink") /\ UNCHANGED <<fd, position, matches, raising>>
       ELSE Finish(p)
    /\ UNCHANGED <<files, litter, regime>>

UnlinkPart(p) ==
    /\ pc[p] = "unlink"
    /\ IF part # None
       THEN part' = None /\ Finish(p)
       ELSE part' = part /\ Return(p)         \* FileNotFoundError
    /\ litter' = FALSE
    /\ UNCHANGED <<content, destination, regime>>

\* verify_locked_artifact opens the entry by name and reads it to the end.  A
\* reader that is content with it opens it again to use it.
BeginVerify(p) ==
    /\ p \in Reader
    /\ pc[p] = "idle"
    /\ destination # None
    /\ Go(p, "openVerify")
    /\ UNCHANGED <<files, fd, position, matches, raising, litter, regime>>

OpenEntry(p) ==
    /\ pc[p] \in {"openVerify", "openUse"}
    /\ IF destination # None
       THEN /\ OpenFile(p, destination)
            /\ Go(p, IF pc[p] = "openUse" THEN "use" ELSE "verify")
            /\ raising' = raising
       ELSE Return(p)                         \* FileNotFoundError
    /\ UNCHANGED <<files, litter, regime>>

ReadChunk(p) ==
    /\ pc[p] \in {"verify", "use"}
    /\ position[p] < Size
    /\ position' = [position EXCEPT ![p] = @ + 1]
    /\ matches' = [matches EXCEPT ![p] = @ /\ content[fd[p]][position[p] + 1] = "good"]
    /\ UNCHANGED <<files, pc, fd, raising, litter, regime>>

EndVerify(p) ==
    /\ pc[p] = "verify"
    /\ position[p] = Size
    /\ IF p \in Reader /\ matches[p]
       THEN Go(p, "openUse") /\ OpenFile(p, None) /\ raising' = raising
       ELSE Return(p)
    /\ UNCHANGED <<files, litter, regime>>

EndUse(p) ==
    /\ pc[p] = "use"
    /\ position[p] = Size
    /\ Return(p)
    /\ UNCHANGED <<files, litter, regime>>

\* SIGKILL (or a KeyboardInterrupt that finds no `finally' left to run).
Kill(p) ==
    /\ Faulty
    /\ pc[p] # "idle"
    /\ Return(p)
    /\ litter' = (litter \/ part # None)
    /\ UNCHANGED <<files, regime>>

Fetch(p) ==
    \/ BeginFetch(p) \/ OpenPart(p) \/ EndOfBody(p) \/ DownloadFails(p)
    \/ \E bytes \in (IF Faulty THEN {"good", "bad"} ELSE {"good"}) : Download(p, bytes)
    \/ CheckDigest(p) \/ Replace(p) \/ TestPart(p) \/ UnlinkPart(p)

Verify(p) == OpenEntry(p) \/ ReadChunk(p) \/ EndVerify(p)

Read(p) == BeginVerify(p) \/ EndUse(p)

Next ==
    \/ \E p \in Fetcher : Fetch(p)
    \/ \E p \in Reader : Read(p)
    \/ \E p \in Process : Verify(p) \/ Kill(p)

Spec == Init /\ [][Next]_vars
-------------------------------------------------------------------------------
\* What a process that looks up the destination finds.
Entry == IF destination = None THEN "absent"
         ELSE IF Intact(destination) THEN "intact" ELSE "corrupt"

\* Of fetches that overlap, the atomic entry promises nothing.
Abstract == INSTANCE AtomicEntry WITH entry <- IF regime = "exclusive" THEN Entry ELSE "absent"

\* With fetches one at a time, the entry appears whole and stays whole, though
\* its server lies, breaks off or sends too much, and fetches are killed anywhere
\* or repeated with --force.
ImplementsAtomicEntry == Abstract!Spec

\* A reader uses exactly the bytes it verified, although it opens the name
\* again for it and a forced fetch may have replaced the file in between, as long
\* as fetches do not overlap.
UsesWhatWasVerified ==
    [][regime = "exclusive" => \A p \in Reader : EndUse(p) => matches[p]]_vars

\* A fetch that returns or raises takes its temporary file with it.
NoLitter ==
    (\A p \in Process : pc[p] = "idle") /\ ~litter => part = None

\* docs/PROVENANCE.md, line 12: "Downloading is content-addressed and atomic."
DownloadIsAtomic == destination # None => Intact(destination)

\* Fetches of an honest server may get in each other's way, publish each other's
\* unfinished file and fail; but once all of them are over the entry is whole.
SettlesIntact ==
    regime = "shared" /\ (\A p \in Process : pc[p] = "idle") => (destination = None \/ Intact(destination))
===============================================================================
