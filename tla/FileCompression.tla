--------------------------- MODULE FileCompression ---------------------------
(***************************************************************************)
(* The program fileCompression: compressFile writes a Huffman code of a    *)
(* file, the code's tree in front; decompressFile reads it back.           *)
(*                                                                         *)
(* A byte has ByteBits bits, 8 in the program.  A tree is the function     *)
(* from the paths of its leaves, sequences of 0 (left) and 1 (right), to   *)
(* the bytes in them; its other nodes are the proper prefixes of those     *)
(* paths.  Files are sequences of bits, a whole number of bytes long.      *)
(***************************************************************************)
EXTENDS Naturals, FiniteSets, Sequences, SequencesExt

CONSTANTS
  ByteBits,       \* the bits of a byte
  Inputs,         \* the files that are compressed, sequences of bytes
  Nonces,         \* what the twelve calls of rand() may return
  MayFill,        \* whether the disk may be full when the file is written
  Pattern(_, _)   \* Pattern(nonce, i): bit i of the keystream under the nonce

Bytes == 0..(2 ^ ByteBits - 1)
Bits  == {0, 1}

ASSUME FileAssumption ==
  /\ ByteBits \in Nat \ {0}
  /\ Inputs \subseteq Seq(Bytes)
  /\ Nonces # {}
  /\ MayFill \in BOOLEAN

VARIABLES
  pc,       \* the function that runs: "buildTreeFromMap", "recursiveBuildTree",
            \* "decode" (the loop of decompressFile), then "done"; "undefined"
            \* once memory was read that holds nothing
  binary,   \* the file that is compressed
  minHeap,  \* the priority queue: nodes with their frequency
  file,     \* the .cmp file
  tree,     \* what recursiveBuildTree has built
  path,     \* where in the tree it, and later the decoder, is
  index,    \* the bits read so far
  output    \* the bytes decoded so far

vars == <<pc, binary, minHeap, file, tree, path, index, output>>

-----------------------------------------------------------------------------
(* Bits, bytes, and the cipher.                                            *)

\* The bits of v, the highest first, and the byte with those bits.
BitsOf(v)  == [i \in 1..ByteBits |-> (v \div 2 ^ (ByteBits - i)) % 2]
ByteOf(bs) == FoldLeft(LAMBDA val, b : (2 * val + b) % 2 ^ ByteBits, 0, bs)

\* How many 0s fill the last byte of a packed string of n bits.
Padding(n) == (ByteBits - (n % ByteBits)) % ByteBits

PackAligned(bs) == [i \in 1..Padding(Len(bs)) |-> 0] \o bs  \* mutant: zeros in front

Pack(bs) == bs \o [i \in 1..Padding(Len(bs)) |-> 0]

EncryptBySum(bs, nonce) ==  \* mutant: a sum for the exclusive or
  [i \in 1..Len(bs) |-> bs[i] + Pattern(nonce, i)]

\* encrypt_data, an exclusive or: it decrypts as well.
Encrypt(bs, nonce) ==
  [i \in 1..Len(bs) |-> IF Pattern(nonce, i) = 1 THEN 1 - bs[i] ELSE bs[i]]

-----------------------------------------------------------------------------
(* Trees.                                                                  *)

Inner(t) == (UNION {Prefixes(p) : p \in DOMAIN t}) \ DOMAIN t

Leaf(v) == [p \in {<< >>} |-> v]

\* TreeNode(left, right)
Join(left, right) ==
  [p \in {<<0>> \o q : q \in DOMAIN left} \cup {<<1>> \o q : q \in DOMAIN right}
     |-> IF Head(p) = 0 THEN left[Tail(p)] ELSE right[Tail(p)]]

\* getEncodings: the path of each byte in the tree.
Encodings(t) == [v \in {t[p] : p \in DOMAIN t} |-> CHOOSE p \in DOMAIN t : t[p] = v]

SerializeMirrored(t) ==  \* mutant: the right child first
  LET from[p \in DOMAIN t \cup Inner(t)] ==
        IF p \in DOMAIN t THEN <<1>> \o BitsOf(t[p])
                          ELSE <<0>> \o from[Append(p, 1)] \o from[Append(p, 0)]
  IN  from[<< >>]

\* serializeTree: in preorder, 1 and the byte for a leaf, 0 for another node.
SerializeTree(t) ==
  LET from[p \in DOMAIN t \cup Inner(t)] ==
        IF p \in DOMAIN t THEN <<1>> \o BitsOf(t[p])
                          ELSE <<0>> \o from[Append(p, 0)] \o from[Append(p, 1)]
  IN  from[<< >>]

-----------------------------------------------------------------------------
(* compressFile                                                            *)

Values(b) == {b[i] : i \in 1..Len(b)}

\* findFrequency, and the nodes for it.
FindFrequency(b) == [v \in Values(b) |-> Cardinality({i \in 1..Len(b) : b[i] = v})]
Leaves(b)        == {[freq |-> FindFrequency(b)[v], tree |-> Leaf(v)] : v \in Values(b)}

Init == /\ pc = "buildTreeFromMap"
        /\ binary \in Inputs
        /\ minHeap = Leaves(binary)
        /\ file = << >>
        /\ tree = << >>
        /\ path = << >>
        /\ index = 0
        /\ output = << >>

MostFrequent(nodes) ==  \* mutant: the comparator is reversed
  {n \in nodes : \A m \in nodes : n.freq >= m.freq}

Rarest(nodes) == {n \in nodes : \A m \in nodes : n.freq <= m.freq}

\* A turn of the loop of buildTreeFromMap.  Which of two nodes of one
\* frequency is at the top depends on the order of an unordered_map.
MergeNodes ==
  /\ pc = "buildTreeFromMap"
  /\ Cardinality(minHeap) > 1
  /\ \E left \in Rarest(minHeap) : \E right \in Rarest(minHeap \ {left}) :
       minHeap' = (minHeap \ {left, right})
                    \cup {[freq |-> left.freq + right.freq,
                           tree |-> Join(left.tree, right.tree)]}
  /\ UNCHANGED <<pc, binary, file, tree, path, index, output>>

\* The file is empty, or could not be opened: top() of an empty queue.
NoRoot ==
  /\ pc = "buildTreeFromMap"
  /\ minHeap = {}
  /\ pc' = "undefined"
  /\ UNCHANGED <<binary, minHeap, file, tree, path, index, output>>

Root == CHOOSE n \in minHeap : TRUE

CompressedData == FlattenSeq([i \in 1..Len(binary) |-> Encodings(Root.tree)[binary[i]]])

WholeBytes(bs) == Len(bs) \div ByteBits  \* mutant: the last, partial, byte is not counted

TreeSize(bs) == Len(Pack(bs)) \div ByteBits

Contents(nonce) == [nonce    |-> nonce,
                   treeSize |-> TreeSize(SerializeTree(Root.tree)),
                   bits     |-> Pack(SerializeTree(Root.tree))
                                  \o Encrypt(Pack(CompressedData), nonce)]

\* The rest of compressFile: nonce, size of the tree, tree, encrypted data.
WriteFile ==
  /\ pc = "buildTreeFromMap"
  /\ Cardinality(minHeap) = 1
  /\ \E nonce \in Nonces : file' = Contents(nonce)
  /\ pc' = "recursiveBuildTree"
  /\ UNCHANGED <<binary, minHeap, tree, path, index, output>>

\* The disk is full before the file is written; write() is not checked.
WriteCutFile ==
  /\ MayFill
  /\ pc = "buildTreeFromMap"
  /\ Cardinality(minHeap) = 1
  /\ \E nonce \in Nonces : \E n \in 0..(Len(Contents(nonce).bits) \div ByteBits - 1) :
       file' = [Contents(nonce) EXCEPT !.bits = SubSeq(@, 1, ByteBits * n)]
  /\ pc' = "recursiveBuildTree"
  /\ UNCHANGED <<binary, minHeap, tree, path, index, output>>

\* It is full before nonce and size are written: front() of an empty vector.
WriteCutHeader ==
  /\ MayFill
  /\ pc = "buildTreeFromMap"
  /\ Cardinality(minHeap) = 1
  /\ pc' = "undefined"
  /\ UNCHANGED <<binary, minHeap, file, tree, path, index, output>>

-----------------------------------------------------------------------------
(* decompressFile                                                          *)

TreeEnd == Min({ByteBits * file.treeSize, Len(file.bits)})

CompressedTree == SubSeq(file.bits, 1, TreeEnd)
BitsToDecode   == Encrypt(SubSeq(file.bits, TreeEnd + 1, Len(file.bits)), file.nonce)

\* The string has a '\0' after its end, which is not a '1'.
TreeBit(i) == IF i = Len(CompressedTree) THEN 0 ELSE CompressedTree[i + 1]

\* After the leaf at p the recursion goes on with the right sibling of the
\* last left child on the way to p, if there is one.
Turns(p)  == {i \in 1..Len(p) : p[i] = 0}
LastLeft(p)  == CHOOSE i \in Turns(p) : \A j \in Turns(p) : j <= i
Return(p) == IF Turns(p) = {} THEN << >> ELSE Append(SubSeq(p, 1, LastLeft(p) - 1), 1)

\* A call of recursiveBuildTree that reads a 0: it calls itself for the left.
ReadInner ==
  /\ pc = "recursiveBuildTree"
  /\ index < Len(CompressedTree)
  /\ CompressedTree[index + 1] = 0
  /\ path' = Append(path, 0)
  /\ index' = index + 1
  /\ UNCHANGED <<pc, binary, minHeap, file, tree, output>>

\* One that reads a 1 and a byte.  The last one ends the outermost call.
ReadLeaf ==
  /\ pc = "recursiveBuildTree"
  /\ index < Len(CompressedTree)
  /\ CompressedTree[index + 1] = 1
  /\ index + ByteBits <= Len(CompressedTree)
  /\ LET byte == ByteOf([i \in 1..ByteBits |-> TreeBit(index + i)])
     IN  tree' = [p \in DOMAIN tree \cup {path} |-> IF p = path THEN byte ELSE tree[p]]
  /\ path' = Return(path)
  /\ IF Turns(path) = {}
       THEN pc' = "decode" /\ index' = 0
       ELSE index' = index + 1 + ByteBits /\ UNCHANGED pc
  /\ UNCHANGED <<binary, minHeap, file, output>>

\* One that reads a byte of which more is missing than the last bit.
ReadCutLeaf ==
  /\ pc = "recursiveBuildTree"
  /\ index < Len(CompressedTree)
  /\ CompressedTree[index + 1] = 1
  /\ index + ByteBits > Len(CompressedTree)
  /\ pc' = "undefined"
  /\ UNCHANGED <<binary, minHeap, file, tree, path, index, output>>

\* One that finds no bits left returns nullptr: the tree is empty, or the node
\* above is made from the frequency of a null node.
ReadNothing ==
  /\ pc = "recursiveBuildTree"
  /\ index >= Len(CompressedTree)
  /\ pc' = IF path = << >> THEN "decode" ELSE "undefined"
  /\ UNCHANGED <<binary, minHeap, file, tree, path, index, output>>

\* A turn of the decoding loop: a node further down, and back to the root
\* from a leaf.  There is none below a leaf or an empty tree.
DecodeBit ==
  /\ pc = "decode"
  /\ index < Len(BitsToDecode)
  /\ LET p == Append(path, BitsToDecode[index + 1])
     IN  /\ pc' = IF p \in DOMAIN tree \cup Inner(tree) THEN pc ELSE "undefined"
         /\ path' = IF p \in Inner(tree) THEN p ELSE << >>
         /\ output' = IF p \in DOMAIN tree THEN Append(output, tree[p]) ELSE output
  /\ index' = index + 1
  /\ UNCHANGED <<binary, minHeap, file, tree>>

WriteOutput ==
  /\ pc = "decode"
  /\ index = Len(BitsToDecode)
  /\ pc' = "done"
  /\ UNCHANGED <<binary, minHeap, file, tree, path, index, output>>

Next == \/ MergeNodes
        \/ NoRoot
        \/ WriteFile
        \/ WriteCutFile
        \/ WriteCutHeader
        \/ ReadInner
        \/ ReadLeaf
        \/ ReadCutLeaf
        \/ ReadNothing
        \/ DecodeBit
        \/ WriteOutput

Spec == Init /\ [][Next]_vars

-----------------------------------------------------------------------------
TreeTypeOK(t) == DOMAIN t \subseteq Seq(Bits) /\ \A p \in DOMAIN t : t[p] \in Bytes

TypeOK ==
  /\ pc \in {"buildTreeFromMap", "recursiveBuildTree", "decode", "done", "undefined"}
  /\ binary \in Seq(Bytes)
  /\ \A n \in minHeap : n.freq \in Nat \ {0} /\ TreeTypeOK(n.tree)
  /\ pc \notin {"buildTreeFromMap", "undefined"} =>
       file.nonce \in Nonces /\ file.treeSize \in Nat /\ file.bits \in Seq(Bits)
  /\ TreeTypeOK(tree)
  /\ path \in Seq(Bits)
  /\ index \in Nat
  /\ output \in Seq(Bytes)

\* The bits the code of a file takes when each byte v takes len[v] of them.
TotalBits(b, len) == FoldFunction(+, 0, [v \in Values(b) |-> FindFrequency(b)[v] * len[v]])

\* The lengths that the paths in a tree with a leaf for each byte can have:
\* those with which the leaves fit in a tree (Kraft's inequality).
CodeLengths(b) ==
  LET n == Cardinality(Values(b))
  IN  {len \in [Values(b) -> 1..n] :
         FoldFunction(+, 0, [v \in Values(b) |-> 2 ^ (n - len[v])]) <= 2 ^ n}

\* "building a tree with the most frequent bytes near the root": in whatever
\* order nodes of one frequency are merged, no other tree makes a file that
\* has two different bytes smaller.
TreeOptimal ==
  (pc = "buildTreeFromMap" /\ Cardinality(minHeap) = 1 /\ Cardinality(Values(binary)) > 1) =>
    LET ours == [v \in Values(binary) |-> Len(Encodings(Root.tree)[v])]
    IN  \A len \in CodeLengths(binary) : TotalBits(binary, ours) <= TotalBits(binary, len)

\* Whether all of the tree, and all of the file, got to the disk.
Written(n)  == Len(file.bits) >= n
TreeWritten == Written(Len(Pack(SerializeTree(Root.tree))))
AllWritten  == Written(Len(Pack(SerializeTree(Root.tree))) + Len(Pack(CompressedData)))

\* Reading the serialized tree ends with its last leaf, in front of the
\* padding, and gives the tree it was made from.
TreeRebuilt == (pc \in {"decode", "done"} /\ TreeWritten) => tree = Root.tree

\* What is decoded is at any time a beginning of the file, or the file and
\* less than a byte's worth of bits in bytes that the padding is taken for;
\* of a file that has only one byte, however often, nothing is decoded.
OutputFollowsInput ==
  /\ pc = "decode" => IsPrefix(output, binary) \/ IsPrefix(binary, output)
  /\ pc = "done" =>
       CASE ~AllWritten                      -> IsPrefix(output, binary)
         [] Cardinality(Values(binary)) = 1  -> output = << >>
         [] OTHER -> IsPrefix(binary, output) /\ Len(output) < Len(binary) + ByteBits

\* Nothing but an empty or unreadable file, or a full disk, makes the programs
\* read memory that holds nothing.
DefinedUnlessEmptyOrCut ==
  pc = "undefined" => binary = << >> \/ file = << >> \/ ~AllWritten

-----------------------------------------------------------------------------
\* "this decompresses a given file, and writes the same file that was
\* initially compressed".
RoundTrip == pc = "done" => output = binary
==============================================================================
