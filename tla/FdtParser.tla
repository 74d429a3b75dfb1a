------------------------------- MODULE FdtParser -------------------------------
(***************************************************************************)
(* FlattenedDeviceTree (firmware.py 88-211): the header's spans and the    *)
(* token machine that turns the structure block of a device tree, or of a  *)
(* FIT image, into nodes and properties.                                   *)
(*                                                                         *)
(* The block is a sequence of 32-bit words; a word is chosen when the      *)
(* parser first looks at it, so that fdtBlock is the part of the block it  *)
(* has gone past, and Len(fdtBlock) its position.  The same word is a      *)
(* token, part of a name, a length, an offset or data, depending on where  *)
(* it is met.  The block is aligned, as the format demands.                *)
(***************************************************************************)
EXTENDS Integers, Sequences, FiniteSets

CONSTANTS MaxWords,    \* bound: words of the artifact from the block's offset on
          LastNul      \* the last offset in the strings block where a string ends

ASSUME MaxWordsAssumption == MaxWords \in Nat
ASSUME LastNulAssumption  == LastNul \in Nat

BeginNode == 1
EndNode   == 2
Property  == 3
Nop       == 4
End       == 9
Text      == 97        \* four bytes, none of them NUL; no token, no length that fits

Word == {0, BeginNode, EndNode, Property, Nop, End, Text}

VARIABLES
    fdtSize,     \* words the artifact really has
    fdtLimit,    \* words the header gives the structure block
    fdtBlock,    \* the words up to `position'
    fdtStack,    \* the open nodes, each by the place of its token
    fdtParent,   \* of every node, its parent; 0 for a root
    fdtOwner,    \* of every property, the node it was given to
    fdtState

fdtVars == <<fdtSize, fdtLimit, fdtBlock, fdtStack, fdtParent, fdtOwner, fdtState>>

Place == 1 .. MaxWords

FdtTypeOK ==
    /\ fdtSize \in 0 .. MaxWords
    /\ fdtLimit \in 0 .. MaxWords
    /\ fdtBlock \in Seq(Word) /\ Len(fdtBlock) <= fdtLimit
    /\ fdtStack \in Seq(Place)
    /\ \E nodes \in SUBSET Place : fdtParent \in [nodes -> 0 .. MaxWords]
    /\ \E properties \in SUBSET Place : fdtOwner \in [properties -> Place]
    /\ fdtState \in {"header", "parsing", "accepted", "refused"}

FdtInit ==
    /\ fdtSize \in 0 .. MaxWords
    /\ fdtLimit = 0
    /\ fdtBlock = <<>>
    /\ fdtStack = <<>>
    /\ fdtParent = [n \in {} |-> 0]
    /\ fdtOwner = [p \in {} |-> 1]
    /\ fdtState = "header"
-------------------------------------------------------------------------------
Extend(f, place, value) == [x \in DOMAIN f \cup {place} |-> IF x = place THEN value ELSE f[x]]

Here == Len(fdtBlock) + 1              \* the place of the token being read
Left == fdtLimit - Len(fdtBlock)

\* _align4: the words that bytes take.
Words(bytes) == (bytes + 3) \div 4

\* The words of a name: all but the last have no NUL.
Name(n) == {w \in [1 .. n -> Word] : \A i \in 1 .. n : (w[i] = Text) <=> (i < n)}

Advance(words) == fdtBlock' = fdtBlock \o words

Refuse == /\ fdtState' = "refused"
          /\ UNCHANGED <<fdtSize, fdtLimit, fdtStack, fdtParent, fdtOwner>>

Continue == UNCHANGED <<fdtSize, fdtLimit, fdtState>>

Token == fdtState = "parsing" /\ Left >= 1

\* Fault: the block's span is not compared with the total size.
ReadHeaderUnchecked ==
    /\ fdtState = "header"
    /\ \E total, structure \in 0 .. MaxWords :
          IF total > fdtSize
          THEN fdtState' = "refused" /\ fdtLimit' = 0
          ELSE fdtState' = "parsing" /\ fdtLimit' = structure
    /\ UNCHANGED <<fdtSize, fdtBlock, fdtStack, fdtParent, fdtOwner>>

\* __init__: total_size against the artifact, _check_span against total_size.
ReadHeader ==
    /\ fdtState = "header"
    /\ \E total, structure \in 0 .. MaxWords :
          IF total > fdtSize \/ structure > total
          THEN fdtState' = "refused" /\ fdtLimit' = 0
          ELSE fdtState' = "parsing" /\ fdtLimit' = structure
    /\ UNCHANGED <<fdtSize, fdtBlock, fdtStack, fdtParent, fdtOwner>>

ReadBeginNode ==
    /\ Token
    /\ \E n \in 1 .. Left - 1 : \E name \in Name(n) : Advance(<<BeginNode>> \o name)
    /\ IF fdtStack = <<>> /\ DOMAIN fdtParent # {}
       THEN Refuse                                    \* more than one root
       ELSE /\ fdtParent' = Extend(fdtParent, Here,
                                   IF fdtStack = <<>> THEN 0 ELSE fdtStack[Len(fdtStack)])
            /\ fdtStack' = Append(fdtStack, Here)
            /\ Continue /\ UNCHANGED fdtOwner

\* No NUL up to the end of the block.
ReadUnterminatedName ==
    /\ Token
    /\ Advance(<<BeginNode>> \o [i \in 1 .. Left - 1 |-> Text])
    /\ Refuse

ReadEndNode ==
    /\ Token
    /\ Advance(<<EndNode>>)
    /\ IF fdtStack = <<>>
       THEN Refuse
       ELSE /\ fdtStack' = SubSeq(fdtStack, 1, Len(fdtStack) - 1)
            /\ Continue /\ UNCHANGED <<fdtParent, fdtOwner>>

\* Fault: the data may end one word past the block.
ReadPropertyPastEnd ==
    /\ Token /\ fdtStack # <<>> /\ Left >= 3
    /\ \E length, offset \in Word :
          /\ Words(length) <= Left - 2 /\ offset <= LastNul
          /\ \E data \in [1 .. Words(length) -> Word] :
                Advance(<<Property, length, offset>> \o data)
    /\ fdtOwner' = Extend(fdtOwner, Here, fdtStack[Len(fdtStack)])
    /\ Continue /\ UNCHANGED <<fdtStack, fdtParent>>

\* Fault: the length is rounded down.
ReadPropertyUnaligned ==
    /\ Token /\ fdtStack # <<>> /\ Left >= 3
    /\ \E length, offset \in Word :
          /\ Words(length) <= Left - 3 /\ offset <= LastNul
          /\ \E data \in [1 .. length \div 4 -> Word] :
                Advance(<<Property, length, offset>> \o data)
    /\ fdtOwner' = Extend(fdtOwner, Here, fdtStack[Len(fdtStack)])
    /\ Continue /\ UNCHANGED <<fdtStack, fdtParent>>

ReadProperty ==
    /\ Token /\ fdtStack # <<>> /\ Left >= 3
    /\ \E length, offset \in Word :
          /\ Words(length) <= Left - 3 /\ offset <= LastNul
          /\ \E data \in [1 .. Words(length) -> Word] :
                Advance(<<Property, length, offset>> \o data)
    /\ fdtOwner' = Extend(fdtOwner, Here, fdtStack[Len(fdtStack)])
    /\ Continue /\ UNCHANGED <<fdtStack, fdtParent>>

\* Outside a node, with its header or data cut off, or without a name.
ReadBadProperty ==
    /\ Token
    /\ IF fdtStack = <<>> \/ Left < 3
       THEN Advance(<<Property>>)
       ELSE \E length, offset \in Word :
               /\ Words(length) > Left - 3 \/ offset > LastNul
               /\ Advance(<<Property, length, offset>>)
    /\ Refuse

ReadNop ==
    /\ Token
    /\ Advance(<<Nop>>)
    /\ Continue /\ UNCHANGED <<fdtStack, fdtParent, fdtOwner>>

ReadEnd ==
    /\ Token
    /\ Advance(<<End>>)
    /\ fdtState' = IF fdtStack = <<>> /\ DOMAIN fdtParent # {} THEN "accepted" ELSE "refused"
    /\ UNCHANGED <<fdtSize, fdtLimit, fdtStack, fdtParent, fdtOwner>>

ReadUnknown ==
    /\ Token
    /\ \E token \in {0, Text} : Advance(<<token>>)
    /\ Refuse

\* The loop's condition fails before FDT_END.
Exhausted ==
    /\ fdtState = "parsing" /\ Left < 1
    /\ Refuse
    /\ UNCHANGED fdtBlock

FdtNext ==
    \/ ReadHeader \/ ReadBeginNode \/ ReadUnterminatedName \/ ReadEndNode
    \/ ReadProperty \/ ReadBadProperty \/ ReadNop \/ ReadEnd \/ ReadUnknown \/ Exhausted

FdtSpec == FdtInit /\ [][FdtNext]_fdtVars
-------------------------------------------------------------------------------
(***************************************************************************)
(* The format, said without a parser: which words are tokens, and how deep *)
(* a token is, by counting.                                                *)
(***************************************************************************)
\* The place after the token at i and its operands.
After(b, i) ==
    IF b[i] = BeginNode
    THEN 1 + CHOOSE j \in i + 1 .. Len(b) : b[j] # Text /\ \A k \in i + 1 .. j - 1 : b[k] = Text
    ELSE IF b[i] = Property THEN i + 3 + Words(b[i + 1]) ELSE i + 1

IsToken(b) ==
    LET token[i \in 1 .. Len(b)] ==
            i = 1 \/ \E j \in 1 .. i - 1 : token[j] /\ After(b, j) = i
    IN  token

Tokens(b) == LET token == IsToken(b) IN {i \in 1 .. Len(b) : token[i]}

\* How many of the tokens up to i are of a kind, and how deep i is by that.
Count(b, token, kind, i) == Cardinality({j \in token : j <= i /\ b[j] = kind})
Depth(b, token, i) == Count(b, token, BeginNode, i) - Count(b, token, EndNode, i)

WellFormedToken(b, token, i) ==
    /\ b[i] \in {BeginNode, EndNode, Property, Nop, End} /\ Depth(b, token, i) >= 0
    /\ b[i] = BeginNode /\ Depth(b, token, i) = 1 => Count(b, token, BeginNode, i) = 1
    /\ b[i] = Property => Depth(b, token, i) >= 1 /\ b[i + 2] <= LastNul

WellFormed(b) ==
    LET token == Tokens(b)
    IN  /\ Len(b) \in token /\ b[Len(b)] = End /\ Depth(b, token, Len(b)) = 0
        /\ Count(b, token, End, Len(b)) = 1 /\ Count(b, token, BeginNode, Len(b)) >= 1
        /\ \A i \in token : WellFormedToken(b, token, i)

\* The node around the token at i: the last to begin before it one level up.
Around(b, i) ==
    LET token == Tokens(b)
        level == Depth(b, token, i) - (IF b[i] = BeginNode THEN 1 ELSE 0)
        around == {j \in token : j < i /\ b[j] = BeginNode /\ Depth(b, token, j) = level}
    IN  IF around = {} THEN 0 ELSE CHOOSE j \in around : \A k \in around : k <= j

\* Exactly the blocks that hold one tree and END are accepted, whatever their
\* property data look like, and every node and property is where it belongs.
AcceptsExactlyTrees ==
    /\ fdtState = "accepted" =>
          /\ WellFormed(fdtBlock)
          /\ \A n \in DOMAIN fdtParent : fdtParent[n] = Around(fdtBlock, n)
          /\ \A p \in DOMAIN fdtOwner : fdtOwner[p] = Around(fdtBlock, p)
    /\ fdtState = "refused" /\ fdtBlock # <<>> /\ fdtBlock[Len(fdtBlock)] = End =>
          ~WellFormed(fdtBlock)

\* No word is read that the artifact does not have, whatever its header claims.
ReadsWithinArtifact == Len(fdtBlock) <= fdtSize
===============================================================================
