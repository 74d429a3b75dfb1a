------------------------------ MODULE NewcArchive ------------------------------
(***************************************************************************)
(* NewcArchive (runtime_rootfs.py 140-377): the initramfs archive that the *)
(* audits read, the builders of the derived images change and write, and   *)
(* the kernel unpacks.                                                     *)
(*                                                                         *)
(* A stream is a sequence of records: entries, a trailer, runs of NULs and *)
(* records that cannot be read.  A name is a sequence of components, <<>>  *)
(* being "."; a link's data are the components of its target.              *)
(***************************************************************************)
EXTENDS Naturals, Sequences, FiniteSets

CONSTANTS Streams,      \* what parse is given
          Additions,    \* entries the builders add, by name
          Replaced,     \* the names whose data they replace
          UnsafeNames,  \* names _validate_name refuses
          MaxEntries,   \* MAX_CPIO_ENTRIES
          MaxInode,     \* the largest value of a header field
          Steps         \* links read follows

Trailer(payload) == [kind |-> "trailer", payload |-> payload]
Nul == [kind |-> "nul"]
Bad == [kind |-> "bad"]

File(name, inode, data) ==
    [kind |-> "entry", name |-> name, inode |-> inode, type |-> "file",
     absolute |-> FALSE, data |-> data]

EntryFields == {"kind", "name", "inode", "type", "absolute", "data"}

Sequence(s) == s \in Seq({s[i] : i \in DOMAIN s})

Dots == {".", ".."}
HasDots(name) == \E i \in DOMAIN name : name[i] \in Dots

\* A stream is a sequence of records.  An entry has its fields, and _validate_name
\* takes no name with a `.' or a `..' in it.
ASSUME StreamsAssumption ==
    \A s \in Streams :
        /\ Sequence(s)
        /\ \A i \in DOMAIN s : s[i].kind = "entry" =>
              /\ DOMAIN s[i] = EntryFields
              /\ Sequence(s[i].name) /\ Sequence(s[i].data) /\ s[i].absolute \in BOOLEAN
              /\ HasDots(s[i].name) => s[i].name \in UnsafeNames

\* The builders' own names are safe.
ASSUME AdditionsAssumption ==
    \A n \in DOMAIN Additions :
        n \notin UnsafeNames /\ Sequence(n) /\ ~HasDots(n) /\ Sequence(Additions[n])

ASSUME StepsAssumption == Steps \in Nat \ {0}
ASSUME MaxEntriesAssumption == MaxEntries \in Nat

VARIABLES
    newcInput,    \* the stream being parsed, or last parsed
    newcOffset,   \* how many of its records have been read
    newcEntries,  \* the archive, or the part read so far
    newcWritten,  \* history: <<the archive>> newcInput was written from, or <<>>
    newcState,
    newcName,     \* read: the name looked up next
    newcSeen,     \* read: the links it has followed
    newcStart,    \* history: the name read was called with
    newcPlain,    \* history: it has gone through real directories only
    newcResult    \* how the last read ended

newcLook == <<newcName, newcSeen, newcStart, newcPlain, newcResult>>
newcVars == <<newcInput, newcOffset, newcEntries, newcWritten, newcState, newcLook>>

NewcTypeOK ==
    /\ newcOffset \in 0 .. Len(newcInput)
    /\ Len(newcEntries) <= MaxEntries
    /\ newcState \in {"parse", "ready", "read", "refused"}
    /\ newcResult \in {"none", "found", "lacks", "loop", "escape", "depth"}
    /\ newcPlain \in BOOLEAN
    /\ Cardinality(newcSeen) <= Steps

NewcInit ==
    /\ newcInput \in Streams
    /\ newcOffset = 0
    /\ newcEntries = <<>>
    /\ newcWritten = <<>>
    /\ newcState = "parse"
    /\ newcName = <<>> /\ newcSeen = {} /\ newcStart = <<>>
    /\ newcPlain = TRUE /\ newcResult = "none"
-------------------------------------------------------------------------------
Rest == SubSeq(newcInput, newcOffset + 1, Len(newcInput))

AllNul(stream) == \A i \in DOMAIN stream : stream[i] = Nul

Names(entries) == {entries[i].name : i \in DOMAIN entries}

\* _by_name: of the records of one name the last.
ByName(entries) ==
    [n \in Names(entries) |-> entries[CHOOSE i \in DOMAIN entries :
        entries[i].name = n /\ \A j \in i + 1 .. Len(entries) : entries[j].name # n]]

Distinct(entries) == Cardinality(Names(entries)) = Len(entries)

Largest(S) == CHOOSE i \in S : \A j \in S : j <= i

TopInode == Largest({0} \cup {newcEntries[i].inode : i \in DOMAIN newcEntries})

\* Fault: what follows the trailer is not looked at.
ParseTrailerOnly ==
    /\ newcState = "parse" /\ Rest # <<>> /\ Head(Rest).kind = "trailer"
    /\ Len(newcEntries) < MaxEntries
    /\ newcState' = IF Distinct(newcEntries) THEN "ready" ELSE "refused"
    /\ UNCHANGED <<newcInput, newcOffset, newcEntries, newcWritten, newcLook>>

\* The trailer, that of an empty payload with only padding after it.  The limit
\* is tested before the record is known to be the trailer.
ParseTrailer ==
    /\ newcState = "parse" /\ Rest # <<>> /\ Head(Rest).kind = "trailer"
    /\ Len(newcEntries) < MaxEntries
    /\ newcState' = IF /\ ~Head(Rest).payload /\ AllNul(Tail(Rest))
                       /\ Distinct(newcEntries)
                    THEN "ready" ELSE "refused"
    /\ UNCHANGED <<newcInput, newcOffset, newcEntries, newcWritten, newcLook>>

\* Fault: one entry too many is let in.
ParseEntryPastLimit ==
    /\ newcState = "parse" /\ Rest # <<>> /\ Head(Rest).kind = "entry"
    /\ Len(newcEntries) <= MaxEntries
    /\ Head(Rest).name \notin UnsafeNames
    /\ newcEntries' = Append(newcEntries, Head(Rest))
    /\ newcOffset' = newcOffset + 1
    /\ UNCHANGED <<newcInput, newcWritten, newcState, newcLook>>

ParseEntry ==
    /\ newcState = "parse" /\ Rest # <<>> /\ Head(Rest).kind = "entry"
    /\ Len(newcEntries) < MaxEntries
    /\ Head(Rest).name \notin UnsafeNames
    /\ newcEntries' = Append(newcEntries, Head(Rest))
    /\ newcOffset' = newcOffset + 1
    /\ UNCHANGED <<newcInput, newcWritten, newcState, newcLook>>

\* The data end without a trailer, the limit is exceeded, or the record cannot
\* be read or has an unsafe name.
ParseFails ==
    /\ newcState = "parse"
    /\ ~AllNul(Rest) =>
          \/ Len(newcEntries) >= MaxEntries
          \/ Head(Rest).kind \in {"bad", "nul"}
          \/ Head(Rest).kind = "entry" /\ Head(Rest).name \in UnsafeNames
    /\ newcState' = "refused"
    /\ UNCHANGED <<newcInput, newcOffset, newcEntries, newcWritten, newcLook>>

NothingRead(name, plain) ==
    /\ newcName' = name /\ newcStart' = name /\ newcPlain' = plain
    /\ newcSeen' = {} /\ newcResult' = "none"

\* A changed archive is no longer the one that was written.
Change(entries) ==
    /\ newcState = "ready"
    /\ newcEntries' = entries
    /\ newcWritten' = <<>>
    /\ NothingRead(<<>>, TRUE)
    /\ UNCHANGED <<newcInput, newcOffset, newcState>>

ReplaceEntry(name, data) ==
    /\ name \in Names(newcEntries)
    /\ Change([i \in DOMAIN newcEntries |->
                  IF newcEntries[i].name = name
                  THEN [newcEntries[i] EXCEPT !.data = data] ELSE newcEntries[i]])

\* Fault: a name the archive has is added to it again.
AddEntryAgain(name, data) ==
    /\ Len(newcEntries) < MaxEntries
    /\ Change(Append(newcEntries, File(name, TopInode + 1, data)))

\* The builders give the entry the inode after the largest, whatever it is; a
\* second one of the name raises.
AddEntry(name, data) ==
    /\ Len(newcEntries) < MaxEntries           \* bound: no more of them
    /\ name \notin Names(newcEntries)
    /\ Change(Append(newcEntries, File(name, TopInode + 1, data)))

\* to_bytes: the entries, a trailer with the next inode, padding; it raises when
\* a field, the trailer's inode included, does not fit in 32 bits.  What is
\* written is parsed again by whoever reads the image.
Write ==
    /\ newcState = "ready"
    /\ IF TopInode + 1 <= MaxInode
       THEN /\ newcInput' = newcEntries \o <<Trailer(FALSE), Nul>>
            /\ newcOffset' = 0
            /\ newcEntries' = <<>>
            /\ newcWritten' = <<newcEntries>>
            /\ newcState' = "parse"
       ELSE /\ newcState' = "refused" /\ newcWritten' = <<>>
            /\ UNCHANGED <<newcInput, newcOffset, newcEntries>>
    /\ NothingRead(<<>>, TRUE)
-------------------------------------------------------------------------------
\* The tree of the archive: its entries by their names.
Namespace == ByName(newcEntries)

Entry(name) == Namespace[name]

IsDirectory(tree, name) ==
    IF name \in DOMAIN tree THEN tree[name].type = "dir" ELSE name = <<>>

Parent(name) == SubSeq(name, 1, Len(name) - 1)

\* `..' takes away the name before it; one too many leaves the archive.
Enter(path, part) ==
    CASE part = "." -> path
      [] part = ".." -> IF path.inside /\ path.parts # <<>>
                        THEN [path EXCEPT !.parts = Parent(@)]
                        ELSE [path EXCEPT !.inside = FALSE]
      [] OTHER -> [path EXCEPT !.parts = Append(@, part)]

\* The path after each of the parts.
Along(parts) ==
    LET along[i \in 0 .. Len(parts)] ==
            IF i = 0 THEN [inside |-> TRUE, parts |-> <<>>]
            ELSE Enter(along[i - 1], parts[i])
    IN  along

Normal(parts) == Along(parts)[Len(parts)]

\* The root and every name on the way along parts, but the last, is that of a
\* directory.
ThroughDirectories(tree, parts) ==
    /\ IsDirectory(tree, <<>>)
    /\ \A i \in 1 .. Len(parts) - 1 :
          parts[i] \notin Dots => IsDirectory(tree, Along(parts)[i].parts)

ReadFrom(name) ==
    /\ newcState = "ready"
    /\ newcState' = "read"
    /\ NothingRead(name, ThroughDirectories(Namespace, name))
    /\ UNCHANGED <<newcInput, newcOffset, newcEntries, newcWritten>>

\* Fault: a relative target is taken from the root.
CandidateFromRoot(entry) == entry.data

Candidate(entry) == IF entry.absolute THEN entry.data ELSE Parent(entry.name) \o entry.data

ReadEnds(result) ==
    /\ newcState' = "ready" /\ newcResult' = result
    /\ UNCHANGED <<newcInput, newcOffset, newcEntries, newcWritten,
                   newcName, newcSeen, newcStart, newcPlain>>

\* One turn of read's loop.
ReadTurn ==
    /\ newcState = "read"
    /\ IF Cardinality(newcSeen) >= Steps THEN ReadEnds("depth")
       ELSE IF newcName \notin Names(newcEntries) THEN ReadEnds("lacks")
       ELSE IF Entry(newcName).type # "link" THEN ReadEnds("found")
       ELSE IF newcName \in newcSeen THEN ReadEnds("loop")
       ELSE LET candidate == Candidate(Entry(newcName))
            IN  IF ~Normal(candidate).inside THEN ReadEnds("escape")
                ELSE /\ newcName' = Normal(candidate).parts
                     /\ newcSeen' = newcSeen \cup {newcName}
                     /\ newcPlain' = (newcPlain /\ ThroughDirectories(Namespace, candidate))
                     /\ UNCHANGED <<newcInput, newcOffset, newcEntries, newcWritten,
                                    newcState, newcStart, newcResult>>

NewcNext ==
    \/ ParseTrailer \/ ParseEntry \/ ParseFails
    \/ \E n \in DOMAIN Additions : AddEntry(n, Additions[n])
    \/ \E n \in Replaced : ReplaceEntry(n, <<"replaced">>)
    \/ Write
    \/ \E n \in Names(newcEntries) : ReadFrom(n)
    \/ ReadTurn

NewcSpec == NewcInit /\ [][NewcNext]_newcVars
-------------------------------------------------------------------------------
(***************************************************************************)
(* The kernel: unpack_to_rootfs goes on after a trailer, a later record    *)
(* replacing an earlier one of its name, and a path is walked one          *)
(* directory at a time, through links to wherever they lead.               *)
(***************************************************************************)
Unpacked ==
    LET Records(n) == {i \in DOMAIN newcInput :
                          newcInput[i].kind = "entry" /\ newcInput[i].name = n}
        Latest(n)  == CHOOSE i \in Records(n) : \A j \in Records(n) : j <= i
        unpacked   == {i \in DOMAIN newcInput : newcInput[i].kind = "entry"}
    IN  [n \in {newcInput[i].name : i \in unpacked} |-> newcInput[Latest(n)]]

WalkStep(tree, w) ==
    IF w.lost \/ w.todo = <<>> THEN w
    ELSE LET part == Head(w.todo)
             path == Append(w.at, part)
         IN  IF part = "." THEN [w EXCEPT !.todo = Tail(@)]
             ELSE IF part = ".."
             THEN [w EXCEPT !.todo = Tail(@), !.at = IF @ = <<>> THEN @ ELSE Parent(@)]
             ELSE IF path \notin DOMAIN tree THEN [w EXCEPT !.lost = TRUE]
             ELSE CASE tree[path].type = "link" ->
                         [w EXCEPT !.todo = tree[path].data \o Tail(@),
                                   !.at = IF tree[path].absolute THEN <<>> ELSE @]
                    [] tree[path].type = "dir" -> [w EXCEPT !.todo = Tail(@), !.at = path]
                    [] OTHER -> [w EXCEPT !.todo = Tail(@), !.at = path,
                                          !.lost = Tail(w.todo) # <<>>]

\* Where the walk is after each number of steps.
Walk(tree, name) ==
    LET walk[k \in Nat] ==
            IF k = 0 THEN [at |-> <<>>, todo |-> name, lost |-> FALSE]
            ELSE WalkStep(tree, walk[k - 1])
    IN  walk

\* No name and no target in the tree has more components than this.
Longest(tree) ==
    Largest({0} \cup {Len(n) : n \in DOMAIN tree} \cup {Len(tree[n].data) : n \in DOMAIN tree})

\* A step for every component of the name and of the targets read follows, and
\* one for each of these links itself.
Enough(tree) == (Steps + 1) * (Longest(tree) + 1)

\* An archive that is accepted has every name once, and is all that the kernel
\* finds in the stream: nothing after what was audited is unpacked over it.
AuditsWhatIsUnpacked ==
    newcState \in {"ready", "read"} /\ newcEntries = SubSeq(newcInput, 1, newcOffset) =>
        Distinct(newcEntries) /\ Unpacked = ByName(newcEntries)

\* What a builder has written is read back unchanged, unless it has as many
\* entries as parse has room for without the trailer.
WrittenIsReadBack ==
    newcWritten # <<>> =>
        /\ newcState = "refused" => Len(newcWritten[1]) >= MaxEntries
        /\ newcState \in {"ready", "read"} => newcEntries = newcWritten[1]

\* Where links go through real directories, read and the kernel agree on what a
\* name stands for, and on whether it stands for anything.
ReadsWhatTheKernelOpens ==
    newcPlain /\ newcState = "ready" /\ newcResult # "none" =>
        LET walk == Walk(Namespace, newcStart)[Enough(Namespace)]
        IN  /\ newcResult = "found" => ~walk.lost /\ walk.todo = <<>> /\ walk.at = newcName
            /\ newcResult = "lacks" => walk.lost \/ newcName = <<>>
            /\ newcResult = "loop"  => ~walk.lost /\ walk.todo # <<>>
===============================================================================
