----------------------------- MODULE MCChunker ------------------------------
(***************************************************************************)
(* Instances of Chunker for TLC: every text up to a length, and windows    *)
(* whose overlap is nothing, a part of them and all but one character.     *)
(***************************************************************************)
EXTENDS Chunker, SequencesExt

CONSTANT MaxText  \* bound: characters of a text

MCTexts == BoundedSeq(Char, MaxText)

MCWindows ==
  {[size |-> 2, overlap |-> 0], [size |-> 3, overlap |-> 1], [size |-> 4, overlap |-> 1],
   [size |-> 3, overlap |-> 2], [size |-> 5, overlap |-> 3]}
=============================================================================
