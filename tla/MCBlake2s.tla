----------------------------- MODULE MCBlake2s -----------------------------
(***************************************************************************)
(* BLAKE2s with blocks of 4 bytes and a counter word that wraps after two  *)
(* of them, fed with pieces around a block's and two blocks' length.       *)
(***************************************************************************)
EXTENDS Blake2s

\* The bytes of a piece tell its length and their place in it.
Piece(n) == [i \in 1..n |-> 10 * n + i]
MCChunks == {Piece(n) : n \in {0, 1, 3, 4, 5, 9}}
MCKeys   == {<<>>, <<7>>, <<7, 8>>, <<7, 8, 9>>}

=============================================================================
