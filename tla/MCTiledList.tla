---------------------------- MODULE MCTiledList -----------------------------
(* Instances of TiledList for TLC: the lists are 1 and 2. *)
EXTENDS TiledList, TLC

\* one list with one to four full tiles of two items, or half a tile
FullTiles == <<{1, 2, 4, 6, 8}>>

\* one list of three tiles of one item, and one of a single tile
ThreeAndOne == <<{3}, {1}>>

Symmetry == Permutations(Fillers)
=============================================================================
