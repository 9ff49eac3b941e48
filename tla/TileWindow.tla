----------------------------- MODULE TileWindow -----------------------------
(***************************************************************************)
(* The index arithmetic of a tiled list (ListTiles_ in                     *)
(* src/common/lists_base.hh): which tile an item is in, which tile is next *)
(* to it, and how prefetch() decides between keeping the three tiles that  *)
(* are in memory, sliding them, and loading them all afresh.               *)
(***************************************************************************)
EXTENDS Integers

CONSTANT TileSize     \* template parameter tile_size, 8 in the UPnP broker

ASSUME TileSizeAssumption == TileSize \in Nat \ {0}

\* ListTiles_::ItemLocation, in the order of the array active_tiles_
NIL == -1
UP == 0
CENTER == 1
DOWN == 2
Locations == {UP, CENTER, DOWN}

\* maximum_number_of_active_tiles, the size of both tile arrays
MaxTiles == 3
Slots == 0..MaxTiles - 1

\* what activate_tile() makes of an index
BaseOf(i) == i - (i % TileSize)

IsTileFor(base, i) == base <= i /\ i < base + TileSize

(* Mutant: no wraparound at the beginning of the list. *)
IndexInAdjacentTile_NoRing(i, total, direction) ==
    CASE direction = UP     -> i - TileSize
      [] direction = CENTER -> i
      [] direction = DOWN   -> IF i + TileSize < total THEN i + TileSize ELSE 0
      [] direction = NIL    -> total

(***************************************************************************)
(* Some index in the tile next to that of item i, in a list that is taken  *)
(* as a ring of tiles.                                                     *)
(***************************************************************************)
IndexInAdjacentTile(i, total, direction) ==
    CASE direction = UP     -> IF i >= TileSize THEN i - TileSize ELSE total - 1
      [] direction = CENTER -> i
      [] direction = DOWN   -> IF i + TileSize < total THEN i + TileSize ELSE 0
      [] direction = NIL    -> total

SpannedTiles(first, count) == 1 + (((first % TileSize) + count - 1) \div TileSize)

\* both results of compute_number_of_required_slides()
RequiredSlides(where, isFirst, spanned) ==
    CASE where = UP     -> IF isFirst THEN 0 ELSE spanned - 1
      [] where = DOWN   -> IF isFirst THEN spanned - 1 ELSE 0
      [] where = CENTER -> IF spanned >= 2 THEN spanned - 2 ELSE 0
      [] where = NIL    -> MaxTiles

SlideDirection(where, isFirst, spanned) ==
    IF where = CENTER /\ spanned > 2 THEN (IF isFirst THEN UP ELSE DOWN) ELSE where

(***************************************************************************)
(* check_overlapping_range_for_prefetch(): in and out are the locations of *)
(* the first and of the last item of the range.                            *)
(***************************************************************************)
OverlapAt(where, isFirst, spanned) ==
    [direction |-> SlideDirection(where, isFirst, spanned),
     slides    |-> RequiredSlides(where, isFirst, spanned),
     spanned   |-> spanned]

CheckOverlap(in, out, spanned) ==
    CASE in # NIL                 -> OverlapAt(in, TRUE, spanned)
      [] in = NIL /\ spanned > 1  -> OverlapAt(out, FALSE, spanned)
      [] in = NIL /\ spanned <= 1 -> OverlapAt(NIL, TRUE, spanned)

\* prefetch() slides to an item that is requested alone although it is there
AutoSlide(auto, o) ==
    IF o.slides = 0 /\ auto /\ o.direction \in {UP, DOWN} THEN [o EXCEPT !.slides = 1] ELSE o

\* the item around which prefetch() centers the tiles
CenterIndex(auto, o, first) ==
    IF \/ auto /\ o.spanned < MaxTiles
       \/ o.direction = NIL /\ o.spanned < MaxTiles
       \/ o.direction = DOWN /\ o.slides = 1
    THEN first
    ELSE first + TileSize

\* slide_up() and slide_down(): index of the center tile with so many steps to go
SlideCenter(direction, center, steps) ==
    IF direction = UP THEN center + (steps - 1) * TileSize ELSE center - (steps - 1) * TileSize

\* slide_up() keeps the up tile and pushes the down tile out, and vice versa
Opposite(direction) == IF direction = UP THEN DOWN ELSE UP

(* Mutant: the tiles are visited in the wrong order. *)
NextLocation_Up(where) == (where + 2) % MaxTiles

\* const_iterator goes round from where it begins: next_tile(), determine_last_tile()
NextLocation(where) == (where + 1) % MaxTiles
LastLocation(where) == IF where = NIL THEN NIL ELSE (where + 2) % MaxTiles
=============================================================================
