---------------------------- MODULE SourceIdentity ----------------------------
(***************************************************************************)
(* source_identity (provenance.py 52-152): the record of the checkout's    *)
(* source state that goes into every manifest.  It is put together from    *)
(* the answers of separate git commands and from files that are tested,    *)
(* measured, opened and hashed piece by piece, one after the other, while  *)
(* the user may edit, stage, commit and check out.                         *)
(*                                                                         *)
(* A file's content is the sequence of its pieces (what one read of        *)
(* _sha256_file returns), its size the number of them, and its hash the    *)
(* sequence of the pieces that went into it.                               *)
(***************************************************************************)
EXTENDS Naturals, Sequences, FiniteSets

CONSTANTS SourceFile,    \* paths of the checkout that git does not ignore
          Piece,         \* what a read of a file returns
          Version,       \* contents of a file
          NoFile,        \* where there is none
          MaxCommits     \* bound: commits made

Unborn == 0

ASSUME VersionAssumption == Version \subseteq Seq(Piece) /\ NoFile \notin Version
ASSUME NoFileAssumption == NoFile \notin SourceFile
ASSUME MaxCommitsAssumption == MaxCommits \in Nat

Commit   == 1 .. MaxCommits
Snapshot == [SourceFile -> Version \cup {NoFile}]

VARIABLES
    srcTrees,    \* the commits there are, each a snapshot
    srcHead,     \* the commit HEAD names, or Unborn
    srcIndex,    \* git's index
    srcWork,     \* the working tree
    srcFlagged,  \* files marked assume-unchanged or skip-worktree
    srcPc,       \* where source_identity is
    srcRecord,   \* what it has found out
    srcReading,  \* the untracked file it is looking at
    srcMoved,    \* history: HEAD, the index or its flags have changed meanwhile
    srcSeen,     \* history: the contents each file has had meanwhile
    srcTorn      \* history: files that changed while they were looked at

srcCheckout == <<srcTrees, srcHead, srcIndex, srcWork, srcFlagged>>
srcHistory  == <<srcMoved, srcSeen, srcTorn>>
srcVars == <<srcCheckout, srcPc, srcRecord, srcReading, srcHistory>>

EmptySnapshot == [f \in SourceFile |-> NoFile]

\* Nothing found out yet.  `diff' is given for the files of `differs', `bytes' and
\* `hashes' for the untracked ones in `hashed'; those in `odd' are not regular.
NoRecord == [commit |-> Unborn, differs |-> {}, diff |-> EmptySnapshot,
             untracked |-> {}, hashed |-> {}, bytes |-> [f \in SourceFile |-> 0],
             hashes |-> [f \in SourceFile |-> <<>>], odd |-> {},
             flagged |-> {}, tree |-> Unborn]

Records == [commit : Commit \cup {Unborn}, differs : SUBSET SourceFile, diff : Snapshot,
            untracked : SUBSET SourceFile, hashed : SUBSET SourceFile,
            bytes : [SourceFile -> Nat], hashes : [SourceFile -> Seq(Piece)],
            odd : SUBSET SourceFile, flagged : SUBSET SourceFile,
            tree : Commit \cup {Unborn}]

\* The file being looked at: its size as measured, the content behind the open
\* descriptor, whether that still is the file of the name, the pieces read.
NoReading == [file |-> NoFile, bytes |-> 0, opened |-> NoFile, named |-> FALSE,
              pieces |-> <<>>]

Readings == [file : SourceFile \cup {NoFile}, bytes : Nat, opened : Version \cup {NoFile},
             named : BOOLEAN, pieces : Seq(Piece)]

Examining == {"stat", "open", "read"}

SrcTypeOK ==
    /\ \E n \in 0 .. MaxCommits : srcTrees \in [1 .. n -> Snapshot] /\ srcHead \in 0 .. n
    /\ srcIndex \in Snapshot /\ srcWork \in Snapshot
    /\ srcFlagged \subseteq {f \in SourceFile : srcIndex[f] # NoFile}
    /\ srcPc \in {"idle", "commit", "branch", "diff", "unborn", "untracked", "flags",
                  "hash", "submodules", "tree", "done", "failed"} \cup Examining
    /\ srcRecord \in Records
    /\ srcRecord.odd \cap srcRecord.hashed = {}
    /\ srcReading \in Readings
    /\ srcReading.file \in IF srcPc \in Examining THEN srcRecord.untracked ELSE {NoFile}
    /\ srcPc = "read" => srcReading.opened \in Version
    /\ srcMoved \in BOOLEAN
    /\ srcSeen \in [SourceFile -> SUBSET (Version \cup {NoFile})]
    /\ srcTorn \subseteq SourceFile

SrcInit ==
    /\ srcTrees = <<>> /\ srcHead = Unborn
    /\ srcIndex = EmptySnapshot /\ srcWork \in Snapshot /\ srcFlagged = {}
    /\ srcPc = "idle" /\ srcRecord = NoRecord /\ srcReading = NoReading
    /\ srcMoved = FALSE /\ srcSeen = [f \in SourceFile |-> {}] /\ srcTorn = {}
-------------------------------------------------------------------------------
(***************************************************************************)
(* The user, and what git answers.                                         *)
(***************************************************************************)
HeadTree == IF srcHead = Unborn THEN EmptySnapshot ELSE srcTrees[srcHead]

NothingSeen == [f \in SourceFile |-> {}]

CheckoutChanges(moved) ==
    /\ srcMoved' = (srcPc # "idle" /\ (srcMoved \/ moved))
    /\ srcSeen' = IF srcPc = "idle" \/ srcMoved' THEN NothingSeen
                  ELSE [f \in SourceFile |-> srcSeen[f] \cup {srcWork'[f]}]
    /\ srcTorn' = IF srcPc = "idle" \/ srcMoved' THEN {}
                  ELSE srcTorn \cup {f \in SourceFile : f = srcReading.file /\ srcWork'[f] # srcWork[f]}
    /\ UNCHANGED <<srcPc, srcRecord>>

\* Another file takes the name, or none.  Who has the old one open keeps it.
Edit(f, content) ==
    /\ srcWork' = [srcWork EXCEPT ![f] = content]
    /\ srcReading' = [srcReading EXCEPT !.named = @ /\ f # srcReading.file]
    /\ CheckoutChanges(FALSE)
    /\ UNCHANGED <<srcTrees, srcHead, srcIndex, srcFlagged>>

\* The file is written in place, under the eyes of who has it open.
Rewrite(f, content) ==
    /\ srcWork[f] # NoFile
    /\ srcWork' = [srcWork EXCEPT ![f] = content]
    /\ srcReading' = IF srcReading.named /\ f = srcReading.file
                     THEN [srcReading EXCEPT !.opened = content] ELSE srcReading
    /\ CheckoutChanges(FALSE)
    /\ UNCHANGED <<srcTrees, srcHead, srcIndex, srcFlagged>>

Stage(f) ==
    /\ srcIndex[f] # srcWork[f]
    /\ srcIndex' = [srcIndex EXCEPT ![f] = srcWork[f]]
    /\ srcFlagged' = srcFlagged \ {f}
    /\ UNCHANGED <<srcTrees, srcHead, srcWork, srcReading>>
    /\ CheckoutChanges(TRUE)

Flag(f) ==
    /\ srcIndex[f] # NoFile
    /\ srcFlagged' = srcFlagged \cup {f}
    /\ UNCHANGED <<srcTrees, srcHead, srcIndex, srcWork, srcReading>>
    /\ CheckoutChanges(TRUE)

MakeCommit ==
    /\ Cardinality(DOMAIN srcTrees) < MaxCommits
    /\ LET next == Cardinality(DOMAIN srcTrees) + 1
       IN  /\ srcTrees' = [c \in 1 .. next |-> IF c = next THEN srcIndex ELSE srcTrees[c]]
           /\ srcHead' = next
    /\ UNCHANGED <<srcIndex, srcWork, srcFlagged, srcReading>>
    /\ CheckoutChanges(TRUE)

\* git checkout --force of a commit; untracked files stay.
CheckOut(c) ==
    /\ c # srcHead
    /\ srcHead' = c
    /\ srcIndex' = srcTrees[c]
    /\ srcWork' = [f \in SourceFile |->
                      IF srcIndex[f] = NoFile /\ srcTrees[c][f] = NoFile THEN srcWork[f]
                      ELSE srcTrees[c][f]]
    /\ srcFlagged' = {}
    /\ srcReading' = [srcReading EXCEPT !.named =
                         @ /\ \A f \in SourceFile : f = srcReading.file => srcWork'[f] = srcWork[f]]
    /\ UNCHANGED srcTrees
    /\ CheckoutChanges(TRUE)

\* What `git diff HEAD' compares with HEAD: the working tree's files that the
\* index has, a flagged one being taken to be as staged.
Compared == [f \in SourceFile |-> IF srcIndex[f] = NoFile THEN NoFile
                                  ELSE IF f \in srcFlagged THEN srcIndex[f] ELSE srcWork[f]]
-------------------------------------------------------------------------------
(***************************************************************************)
(* source_identity.                                                        *)
(***************************************************************************)
At(pc) == srcPc = pc /\ UNCHANGED <<srcCheckout, srcHistory>>

Found(record, pc) == srcRecord' = record /\ srcPc' = pc /\ srcReading' = NoReading

Examined(reading, pc) == srcReading' = reading /\ srcPc' = pc /\ UNCHANGED srcRecord

BeginIdentity ==
    /\ srcPc = "idle"
    /\ Found(NoRecord, "commit")
    /\ srcMoved' = FALSE
    /\ srcSeen' = [f \in SourceFile |-> {srcWork[f]}] /\ srcTorn' = {}
    /\ UNCHANGED srcCheckout

\* git rev-parse HEAD: fails before the first commit.
ReadCommit ==
    /\ At("commit")
    /\ IF srcHead = Unborn THEN Found(srcRecord, "unborn")
       ELSE Found([srcRecord EXCEPT !.commit = srcHead], "branch")

ReadBranch == At("branch") /\ Found(srcRecord, "diff")

ReadDiff ==
    /\ At("diff")
    /\ LET differs == {f \in SourceFile : Compared[f] # HeadTree[f]}
       IN  Found([srcRecord EXCEPT
                     !.differs = differs,
                     !.diff = [f \in SourceFile |-> IF f \in differs THEN Compared[f] ELSE NoFile]],
                 "untracked")

\* except CalledProcessError: commit = "unborn", diff = b"".
TakeForUnborn ==
    /\ At("unborn")
    /\ Found([srcRecord EXCEPT !.commit = Unborn], "untracked")

ListUntracked ==
    /\ At("untracked")
    /\ Found([srcRecord EXCEPT !.untracked =
                  {f \in SourceFile : srcIndex[f] = NoFile /\ srcWork[f] # NoFile}], "flags")

ListFlags ==
    /\ At("flags")
    /\ Found([srcRecord EXCEPT !.flagged = srcFlagged], "hash")

\* Fault: a file may be looked at again after it was hashed.
TestUntrackedAgain(f) ==
    /\ At("hash")
    /\ f \in srcRecord.untracked
    /\ \/ srcWork[f] = NoFile /\ Found([srcRecord EXCEPT !.odd = @ \cup {f}], "hash")
       \/ srcWork[f] # NoFile /\ Examined([NoReading EXCEPT !.file = f], "stat")

\* candidate.is_file(): a file that is gone by now is not regular.
TestUntracked(f) ==
    /\ At("hash")
    /\ f \in srcRecord.untracked \ (srcRecord.odd \cup srcRecord.hashed)
    /\ \/ srcWork[f] = NoFile /\ Found([srcRecord EXCEPT !.odd = @ \cup {f}], "hash")
       \/ srcWork[f] # NoFile /\ Examined([NoReading EXCEPT !.file = f], "stat")

\* stat().st_size.
MeasureUntracked ==
    /\ At("stat")
    /\ LET content == srcWork[srcReading.file]
       IN  \/ content = NoFile /\ Found(srcRecord, "failed")
           \/ content # NoFile /\ Examined([srcReading EXCEPT !.bytes = Len(content)], "open")

\* _sha256_file: path.open("rb").
OpenUntracked ==
    /\ At("open")
    /\ LET content == srcWork[srcReading.file]
       IN  \/ content = NoFile /\ Found(srcRecord, "failed")
           \/ content # NoFile
              /\ Examined([srcReading EXCEPT !.opened = content, !.named = TRUE], "read")

\* _sha256_file: a read that returns a chunk, and digest.update of it.
HashPiece ==
    /\ At("read")
    /\ LET next == Len(srcReading.pieces) + 1
       IN  /\ next <= Len(srcReading.opened)
           /\ Examined([srcReading EXCEPT !.pieces = Append(@, srcReading.opened[next])], "read")

\* Fault: a short file is taken to end with the first piece.
RecordUntrackedEarly ==
    /\ At("read")
    /\ Len(srcReading.pieces) >= Len(srcReading.opened) \/ srcReading.pieces # <<>>
    /\ Found([srcRecord EXCEPT !.hashed = @ \cup {srcReading.file},
                               !.bytes[srcReading.file] = srcReading.bytes,
                               !.hashes[srcReading.file] = srcReading.pieces], "hash")

\* The read at the end of the file, and untracked.append.
RecordUntracked ==
    /\ At("read")
    /\ Len(srcReading.pieces) >= Len(srcReading.opened)
    /\ Found([srcRecord EXCEPT !.hashed = @ \cup {srcReading.file},
                               !.bytes[srcReading.file] = srcReading.bytes,
                               !.hashes[srcReading.file] = srcReading.pieces], "hash")

AllHashed ==
    /\ At("hash")
    /\ srcRecord.untracked \subseteq srcRecord.odd \cup srcRecord.hashed
    /\ Found(srcRecord, "submodules")

\* The checkout has no submodules, and git none to report.
ReadSubmodules == At("submodules") /\ Found(srcRecord, "tree")

\* git rev-parse HEAD^{tree}, unless there is no commit.
ReadTree ==
    /\ At("tree")
    /\ IF srcRecord.commit = Unborn THEN Found(srcRecord, "done")
       ELSE Found([srcRecord EXCEPT !.tree = srcHead], IF srcHead = Unborn THEN "failed" ELSE "done")

\* A git command fails, its answer cannot be decoded, or a file cannot be read.
\* One of the first three commands that ends with an error is taken for the
\* failure to find a commit.
GitFails ==
    /\ srcPc \notin {"idle", "done", "failed"}
    /\ At(srcPc)
    /\ \/ srcPc \in {"commit", "branch", "diff"} /\ Found(srcRecord, "unborn")
       \/ Found(srcRecord, "failed")

EndIdentity ==
    /\ srcPc \in {"done", "failed"}
    /\ Found(NoRecord, "idle")
    /\ srcMoved' = FALSE /\ srcSeen' = NothingSeen /\ srcTorn' = {}
    /\ UNCHANGED srcCheckout

UserActs ==
    \/ \E f \in SourceFile, v \in Version \cup {NoFile} : Edit(f, v)
    \/ \E f \in SourceFile, v \in Version : Rewrite(f, v)
    \/ \E f \in SourceFile : Stage(f) \/ Flag(f)
    \/ MakeCommit
    \/ \E c \in DOMAIN srcTrees : CheckOut(c)

Identify ==
    \/ BeginIdentity \/ ReadCommit \/ ReadBranch \/ ReadDiff \/ TakeForUnborn
    \/ ListUntracked \/ ListFlags \/ AllHashed \/ ReadSubmodules \/ ReadTree
    \/ (\E f \in SourceFile : TestUntracked(f)) \/ MeasureUntracked \/ OpenUntracked
    \/ HashPiece \/ RecordUntracked
    \/ GitFails \/ EndIdentity

SrcNext == UserActs \/ Identify

SrcSpec == SrcInit /\ [][SrcNext]_srcVars
-------------------------------------------------------------------------------
Clean == srcRecord.differs = {} /\ srcRecord.flagged = {} /\ srcRecord.untracked = {}

\* The content the record gives a file that git tracks, or does not list.
Described(f) ==
    IF f \in srcRecord.differs THEN srcRecord.diff[f] ELSE srcTrees[srcRecord.commit][f]

\* The contents a file has had.
Had(f) == srcSeen[f] \ {NoFile}

PiecedTogether(hash, contents) ==
    \A i \in DOMAIN hash : \E v \in contents : i \in DOMAIN v /\ v[i] = hash[i]

\* While the user only edits files, each tracked file is described as it was at
\* some moment of the run, an unlisted one was absent at some moment, and a record
\* that calls itself clean describes the commit it names.  Of an untracked file the
\* size and every piece that was hashed are of contents it had, but not always of
\* the same: only if it was left alone from is_file() to the end of the hash are
\* size and hash those of one content it had.  In a checkout nobody touches all
\* that is the source, exactly.
DescribesWhatWasThere ==
    srcPc = "done" /\ srcRecord.commit # Unborn /\ ~srcMoved =>
        /\ srcRecord.commit = srcHead /\ srcRecord.tree = srcHead
        /\ \A f \in SourceFile \ (srcRecord.flagged \cup srcRecord.untracked) :
              Described(f) \in srcSeen[f]
        /\ \A f \in srcRecord.untracked \ srcRecord.odd :
              /\ \E v \in Had(f) : srcRecord.bytes[f] = Len(v)
              /\ PiecedTogether(srcRecord.hashes[f], Had(f))
              /\ f \notin srcTorn => \E v \in Had(f) : /\ srcRecord.bytes[f] = Len(v)
                                                     /\ srcRecord.hashes[f] = v
        /\ Clean => \A f \in SourceFile : srcTrees[srcHead][f] \in srcSeen[f]

\* provenance.py, line 65: "This exists only so the source gate can run before the
\* repository's initial commit."
UnbornOnlyBeforeFirstCommit ==
    srcPc = "done" /\ srcRecord.commit = Unborn /\ ~srcMoved => srcTrees = <<>>
===============================================================================
