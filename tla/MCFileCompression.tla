-------------------------- MODULE MCFileCompression --------------------------
(***************************************************************************)
(* FileCompression with bytes of three bits: all the files of up to five   *)
(* bytes over four values, and longer ones whose                           *)
(* trees are skewed, or have ties between leaves and merged nodes.         *)
(***************************************************************************)
EXTENDS FileCompression

SmallFiles ==
  BoundedSeq({0, 3, 5, 6}, 5)
    \cup {<<1, 2, 2, 3, 3, 3, 7, 7, 7, 7, 7>>, <<4, 4, 4, 4, 1, 1, 2, 6, 0>>,
          <<5, 4, 5, 4, 6, 7>>}

TwoNonces == {1, 2}

\* Two keystreams without a common period.
Stream(nonce, i) == (i * i + nonce * i + (i \div (nonce + 1))) % 2
==============================================================================
