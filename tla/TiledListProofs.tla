-------------------------- MODULE TiledListProofs ---------------------------
(***************************************************************************)
(* Proofs about TiledList, for any lists, fillers, tile sizes and spans of *)
(* requests, unless the server has no items for a tile (fill() returns 0): *)
(* a tile is being filled iff somebody is in charge of it, none is lost by *)
(* the window, and tiles are slid, activated and released in the states    *)
(* they must have.                                                         *)
(***************************************************************************)
EXTENDS TiledList, SequenceLemmas

HotTile == [base : Int, state : {"FREE", "FILLING", "READY", "CANCELED", "ERROR"},
            stored : Int]

TileTypes ==
    /\ size \in [Lists -> Nat \ {0}]
    /\ hot \in [Lists -> [Slots -> HotTile]]
    /\ active \in [Lists -> [Locations -> Slots \cup {NIL}]]
    /\ queue \in Seq(Tiles)
    /\ filling \in [Fillers -> Tiles \cup {None}]

ReaderTypes ==
    /\ pc \in {"idle", "prefetch", "slide", "clear", "await", "refill", "begin",
               "seek", "item", "center"}
    /\ req \in [list : Lists, next : Nat, end : Nat, single : BOOLEAN]
    /\ walk \in [job : {"none", "slide", "fill", "leave"}, slot : 0..MaxTiles,
                 direction : {NIL, UP, DOWN}, steps : Nat, center : Int]

-----------------------------------------------------------------------------
(* Work on a tile is in one place at a time: in the queue, or in the hands *)
(* of one filler.                                                          *)
Queued(l, s) == <<l, s>> \in ToSet(queue)

PoolInv ==
    /\ IsInjective(queue)
    /\ \A f, g \in Fillers : filling[f] # None /\ filling[f] = filling[g] => f = g
    /\ \A f \in Fillers : filling[f] \notin ToSet(queue)
    /\ \A l \in Lists, s \in Slots :
          hot[l][s].state = "FILLING" <=> Queued(l, s) \/ Locked(l, s)

-----------------------------------------------------------------------------
(* The window of a list is complete: it has as many tiles as there are in  *)
(* the list, at most three, each in a slot of its own.                     *)
Complete(l) ==
    /\ active[l][CENTER] # NIL
    /\ active[l][UP] # NIL /\ active[l][DOWN] # NIL <=> size[l] > 2 * TileSize
    /\ active[l][UP] # NIL \/ active[l][DOWN] # NIL <=> size[l] > TileSize
    /\ \A v, w \in Locations : v # w /\ active[l][v] # NIL => active[l][v] # active[l][w]

(* The tiles in use are those of the window, but for one which is given up *)
OnlyActive(l, slot) ==
    \A s \in Slots : hot[l][s].state # "FREE"
                      <=> s # slot /\ \E w \in Locations : active[l][w] = s

Empty(l) ==
    /\ \A w \in Locations : active[l][w] = NIL
    /\ \A s \in Slots : hot[l][s].state = "FREE"

Settled(l) == Empty(l) \/ (Complete(l) /\ OnlyActive(l, NIL))

(* Between the steps of slide(): the tile that was pushed out has moved to *)
(* the other side already.                                                 *)
Sliding(l) ==
    /\ Complete(l)
    /\ walk.slot = IF active[l][walk.direction] = NIL THEN MaxTiles
                   ELSE active[l][walk.direction]
    /\ IF pc = "refill" THEN OnlyActive(l, walk.slot)
       ELSE OnlyActive(l, NIL) /\ walk.slot # MaxTiles

(* In clear() the slots are released one by one. *)
Clearing(l) == \A s \in Slots : s < walk.slot => hot[l][s].state = "FREE"

AtWork(l) == l = req.list /\ pc \in {"clear", "await", "refill"}

WindowInv ==
    \A l \in Lists :
        /\ ~AtWork(l) => Settled(l)
        /\ AtWork(l) /\ walk.job = "slide" => Sliding(l)
        /\ AtWork(l) /\ walk.job # "slide" => Clearing(l)

-----------------------------------------------------------------------------
(* The work of the reader: it slides towards a tile that is there, and     *)
(* waits for a filler only.                                                *)
WalkInv ==
    /\ pc \in {"clear", "await"} => walk.job # "none"
    /\ pc \in {"slide", "refill"} => walk.job = "slide"
    /\ pc = "await" => walk.slot # MaxTiles /\ ~Queued(req.list, walk.slot)
    /\ pc \in {"slide", "clear", "await", "refill"} /\ walk.job = "slide" =>
          /\ walk.direction \in {UP, DOWN}
          /\ walk.steps > 0
          /\ walk.steps > 1 => size[req.list] > 2 * TileSize
    /\ pc = "slide" => active[req.list][walk.direction] # NIL

(* The items asked for are in the list. *)
Asked == pc \notin {"idle", "seek", "item"}
             /\ (pc \in {"clear", "await"} => walk.job # "leave")

RequestInv == Asked => req.next < req.end /\ req.end <= size[req.list]

TiledInv ==
    /\ TileTypes /\ ReaderTypes
    /\ PoolInv /\ WindowInv /\ WalkInv /\ RequestInv
    /\ bugs = {}

USE DEF NIL, UP, CENTER, DOWN, Locations, MaxTiles, Slots

-----------------------------------------------------------------------------
(* Arithmetic of tiles *)

LEMMA BaseIsInt == ASSUME NEW i \in Int PROVE BaseOf(i) \in Int
<1>1. (i % TileSize) \in 0..TileSize - 1
  BY TileSizeAssumption
<1> QED
  BY <1>1 DEF BaseOf

(* A range that spans more than two tiles is longer than two tiles less    *)
(* the place in the first one where it begins.                             *)
LEMMA WideRange ==
    ASSUME NEW first \in Nat, NEW count \in Nat \ {0}, NEW total \in Nat,
           first + count <= total, SpannedTiles(first, count) > 2
    PROVE  total > 2 * TileSize
<1> DEFINE a == first % TileSize
<1>1. a \in Nat /\ a <= first
  BY TileSizeAssumption
<1> HIDE DEF a
<1>2. a + count - 1 \in Nat
  BY <1>1
<1>3. (a + count - 1) \div TileSize \in Int
  BY <1>2, TileSizeAssumption
<1>4. (a + count - 1) \div TileSize >= 2
  BY <1>3 DEF SpannedTiles, a
<1>5. a + count - 1 >= 2 * TileSize
  BY <1>2, <1>4, TileSizeAssumption
<1> QED
  BY <1>1, <1>5, TileSizeAssumption

LEMMA SpannedIsNat ==
    ASSUME NEW first \in Nat, NEW count \in Nat \ {0}
    PROVE  SpannedTiles(first, count) \in Nat \ {0}
<1> DEFINE a == first % TileSize
<1>1. a \in Nat
  BY TileSizeAssumption
<1> HIDE DEF a
<1>2. a + count - 1 \in Nat
  BY <1>1
<1>3. (a + count - 1) \div TileSize \in Nat
  BY <1>2, TileSizeAssumption
<1> QED
  BY <1>3 DEF SpannedTiles, a

(* prefetch() slides towards a tile that is there, and by more than one    *)
(* tile only if the range spans more than two.                             *)
LEMMA OverlapForms ==
    ASSUME NEW from \in Locations \cup {NIL}, NEW to \in Locations \cup {NIL},
           NEW spanned \in Nat \ {0}, NEW auto \in BOOLEAN
    PROVE  LET o == AutoSlide(auto, CheckOverlap(from, to, spanned))
           IN /\ o.direction \in Locations \cup {NIL} /\ o.slides \in Nat
              /\ o.spanned = spanned
              /\ o.slides > 1 /\ o.direction # NIL => spanned > 2
              /\ o.direction # NIL => o.direction \in {from, to} \/ spanned > 2
              /\ from = NIL /\ to = NIL => o.direction = NIL
<1> DEFINE where == IF from # NIL \/ spanned <= 1 THEN from ELSE to
           first == from # NIL \/ spanned <= 1
           c == OverlapAt(where, first, spanned)
<1>1. CheckOverlap(from, to, spanned) = c
  <2>1. CASE from # NIL
    BY <2>1 DEF CheckOverlap
  <2>2. CASE from = NIL /\ spanned > 1
    <3>1. where = to /\ first = FALSE
      BY <2>2
    <3>2. CheckOverlap(from, to, spanned) = OverlapAt(to, FALSE, spanned)
      <4> HIDE DEF where, first, c, Locations
      <4>1. ~(from # NIL) /\ from = NIL /\ spanned > 1 /\ ~(spanned <= 1)
        BY <2>2
      <4> QED
        BY <4>1 DEF CheckOverlap
    <3> QED
      BY <3>1, <3>2
  <2>3. CASE from = NIL /\ spanned <= 1
    <3>1. where = NIL /\ first = TRUE
      BY <2>3
    <3>2. CheckOverlap(from, to, spanned) = OverlapAt(NIL, TRUE, spanned)
      BY <2>3 DEF CheckOverlap
    <3> QED
      BY <3>1, <3>2
  <2> QED
    BY <2>1, <2>2, <2>3
<1>2. /\ c = [direction |-> SlideDirection(where, first, spanned),
              slides |-> RequiredSlides(where, first, spanned), spanned |-> spanned]
      /\ where \in Locations \cup {NIL} /\ where \in {from, to}
  BY DEF OverlapAt
<1> HIDE DEF c, where, first
<1>3. /\ c.direction \in Locations \cup {NIL} /\ c.slides \in Nat /\ c.spanned = spanned
      /\ c.slides > 1 /\ c.direction # NIL => spanned > 2
      /\ c.direction # NIL => c.direction \in {from, to} \/ spanned > 2
      /\ from = NIL /\ to = NIL => c.direction = NIL
  BY <1>2 DEF SlideDirection, RequiredSlides
<1>4. \/ AutoSlide(auto, c) = c
      \/ AutoSlide(auto, c) = [c EXCEPT !.slides = 1]
  BY DEF AutoSlide
<1>5. DOMAIN c = {"direction", "slides", "spanned"}
  BY <1>2
<1> QED
  BY <1>1, <1>3, <1>4, <1>5

-----------------------------------------------------------------------------
(* Tiles *)

LEMMA TileForms ==
    /\ FreeTile \in HotTile /\ FreeTile.state = "FREE"
    /\ \A state \in {"CANCELED", "ERROR"} :
          ErrorTile(state) \in HotTile /\ ErrorTile(state).state = state
    /\ \A i \in Int : ActivateTile(i) \in HotTile /\ ActivateTile(i).state = "FILLING"
<1>1. FreeTile \in HotTile /\ FreeTile.state = "FREE"
  BY DEF FreeTile, HotTile
<1>2. ASSUME NEW state \in {"CANCELED", "ERROR"}
      PROVE  ErrorTile(state) \in HotTile /\ ErrorTile(state).state = state
  BY DEF ErrorTile, FreeTile, HotTile
<1>3. ASSUME NEW i \in Int
      PROVE  ActivateTile(i) \in HotTile /\ ActivateTile(i).state = "FILLING"
  BY BaseIsInt DEF ActivateTile, HotTile
<1> QED
  BY <1>1, <1>2, <1>3

LEMMA TilesArePairs ==
    /\ \A t \in Tiles : t # None /\ t[1] \in Lists /\ t[2] \in Slots /\ t = <<t[1], t[2]>>
    /\ \A l \in Lists, s \in Slots : <<l, s>> \in Tiles /\ <<l, s>> # None
  BY DEF Tiles, None

LEMMA ProcessedForms ==
    ASSUME NEW tile \in HotTile, NEW total \in Nat, NEW outcome \in Outcomes,
           "empty" \notin Outcomes
    PROVE  /\ Processed(tile, total, outcome) \in HotTile
           /\ Processed(tile, total, outcome).state \in {"READY", "ERROR"}
<1>1. outcome \in {"full", "short", "error"}
  BY TiledListAssumption
<1>2. CASE outcome = "full"
  <2> DEFINE n == Min({TileSize, total - tile.base})
  <2>1. total - tile.base \in Int /\ TileSize \in Int
    BY TileSizeAssumption DEF HotTile
  <2>2. \E x \in {TileSize, total - tile.base} :
           \A y \in {TileSize, total - tile.base} : x <= y
    BY <2>1
  <2>3. n \in Int
    BY <2>1, <2>2 DEF Min
  <2> HIDE DEF n
  <2>4. [tile EXCEPT !.state = "READY", !.stored = n] \in HotTile
    BY <2>3 DEF HotTile
  <2>5. [tile EXCEPT !.state = "READY", !.stored = n].state = "READY"
    BY DEF HotTile
  <2> QED
    BY <1>2, <2>4, <2>5 DEF Processed, n
<1>3. CASE outcome = "short"
  <2> DEFINE n == 1
  <2>0. n \in Int
    OBVIOUS
  <2> HIDE DEF n
  <2>1. [tile EXCEPT !.state = "READY", !.stored = n] \in HotTile
    BY <2>0 DEF HotTile
  <2>2. [tile EXCEPT !.state = "READY", !.stored = n].state = "READY"
    BY DEF HotTile
  <2> QED
    BY <1>3, <2>1, <2>2 DEF Processed, n
<1>4. CASE outcome = "error"
  BY <1>4, TileForms DEF Processed
<1> QED
  BY <1>1, <1>2, <1>3, <1>4
-----------------------------------------------------------------------------
(* What is done to the tiles *)

LEMMA SetTile ==
    ASSUME hot \in [Lists -> [Slots -> HotTile]],
           NEW l \in Lists, NEW s \in Slots, NEW x \in HotTile,
           hot' = [hot EXCEPT ![l][s] = x]
    PROVE  /\ hot' \in [Lists -> [Slots -> HotTile]]
           /\ hot'[l][s] = x
           /\ \A k \in Lists, t \in Slots : <<k, t>> # <<l, s>> => hot'[k][t] = hot[k][t]
<1> HIDE DEF Slots
<1> QED
  OBVIOUS

(* A list is settled as long as its window and what is in use stay.        *)
LEMMA SettledStays ==
    ASSUME NEW l \in Lists, Settled(l),
           size'[l] = size[l], active'[l] = active[l],
           \A s \in Slots : hot'[l][s].state = "FREE" <=> hot[l][s].state = "FREE"
    PROVE  Settled(l)'
<1>1. CASE Empty(l)
  BY <1>1 DEF Settled, Empty
<1>2. CASE Complete(l) /\ OnlyActive(l, NIL)
  BY <1>2 DEF Settled, Complete, OnlyActive
<1> QED
  BY <1>1, <1>2 DEF Settled

LEMMA WindowStays ==
    ASSUME WindowInv, UNCHANGED <<size, active, pc, req, walk>>,
           \A l \in Lists, s \in Slots : hot'[l][s].state = "FREE" <=> hot[l][s].state = "FREE"
    PROVE  WindowInv'
<1> SUFFICES ASSUME NEW l \in Lists
             PROVE  /\ ~AtWork(l)' => Settled(l)'
                    /\ AtWork(l)' /\ walk'.job = "slide" => Sliding(l)'
                    /\ AtWork(l)' /\ walk'.job # "slide" => Clearing(l)'
  BY DEF WindowInv
<1>1. AtWork(l)' = AtWork(l)
  BY DEF AtWork
<1>2. CASE ~AtWork(l)
  BY <1>1, <1>2, SettledStays DEF WindowInv
<1>3. CASE AtWork(l) /\ walk.job = "slide"
  <2>1. Sliding(l)
    BY <1>3 DEF WindowInv
  <2>2. Sliding(l)'
    BY <2>1 DEF Sliding, Complete, OnlyActive
  <2> QED
    BY <1>1, <1>3, <2>2
<1>4. CASE AtWork(l) /\ walk.job # "slide"
  BY <1>1, <1>4 DEF WindowInv, Clearing
<1> QED
  BY <1>2, <1>3, <1>4

(* Nothing happens to the tiles while no list is worked on. *)
LEMMA Untouched ==
    ASSUME TileTypes, PoolInv, WindowInv, UNCHANGED tiles,
           pc \notin {"clear", "await", "refill"}, pc' \notin {"clear", "await", "refill"}
    PROVE  TileTypes' /\ PoolInv' /\ WindowInv'
<1> USE DEF tiles
<1>1. TileTypes'
  BY DEF TileTypes
<1>2. PoolInv'
  BY DEF PoolInv, Queued, Locked
<1>3. ASSUME NEW l \in Lists PROVE ~AtWork(l) /\ ~AtWork(l)' /\ Settled(l)'
  <2>1. ~AtWork(l) /\ ~AtWork(l)'
    BY DEF AtWork
  <2>2. Settled(l)
    BY <2>1 DEF WindowInv
  <2> QED
    BY <2>1, <2>2, SettledStays
<1>4. WindowInv'
  BY <1>3 DEF WindowInv
<1> QED
  BY <1>1, <1>2, <1>4

-----------------------------------------------------------------------------
(* The reader while it reads *)

LEMMA IdleForms ==
    ASSUME ReaderTypes, Idle
    PROVE  ReaderTypes' /\ WalkInv' /\ RequestInv'
<1>1. pc' = "idle" /\ walk' = NoWalk /\ req' = [req EXCEPT !.next = 0, !.end = 0, !.single = FALSE]
  BY DEF Idle
<1>2. ReaderTypes'
  <2>1. req' \in [list : Lists, next : Nat, end : Nat, single : BOOLEAN]
    BY <1>1 DEF ReaderTypes
  <2>2. NoWalk \in [job : {"none", "slide", "fill", "leave"}, slot : 0..MaxTiles,
                    direction : {NIL, UP, DOWN}, steps : Nat, center : Int]
    BY DEF NoWalk
  <2> QED
    BY <1>1, <2>1, <2>2 DEF ReaderTypes
<1> QED
  BY <1>1, <1>2 DEF WalkInv, RequestInv, Asked, NoWalk

(* What a step must do to the reader if it leaves the tiles alone. *)
LEMMA ReaderStep ==
    ASSUME TiledInv, UNCHANGED <<tiles, bugs>>,
           pc \notin {"clear", "await", "refill"}, pc' \notin {"clear", "await", "refill"},
           ReaderTypes', WalkInv', RequestInv'
    PROVE  TiledInv'
<1>1. TileTypes' /\ PoolInv' /\ WindowInv'
  BY Untouched DEF TiledInv
<1> QED
  BY <1>1 DEF TiledInv

LEMMA AskStep ==
    ASSUME TiledInv, NEW l \in Lists, NEW i \in 0..size[l] - 1,
           AskItem(l, i) \/ \E j \in i + 1..size[l] : AskRange(l, i, j)
    PROVE  TiledInv'
<1>1. /\ pc = "idle" /\ pc' = "prefetch" /\ UNCHANGED <<tiles, walk, bugs>>
      /\ size[l] \in Nat /\ i \in Nat
  BY DEF AskItem, AskRange, TiledInv, TileTypes
<1>2. PICK e \in Nat, single \in BOOLEAN :
         /\ i < e /\ e <= size[l]
         /\ req' = [list |-> l, next |-> i, end |-> e, single |-> single]
  <2>1. CASE AskItem(l, i)
    <3>1. i < i + 1 /\ i + 1 <= size[l]
      BY <1>1
    <3>2. req' = [list |-> l, next |-> i, end |-> i + 1, single |-> TRUE]
      BY <2>1 DEF AskItem
    <3>3. i + 1 \in Nat
      BY <1>1
    <3> QED
      BY <3>1, <3>2, <3>3
  <2>2. CASE \E j \in i + 1..size[l] : AskRange(l, i, j)
    <3>1. PICK j \in i + 1..size[l] : AskRange(l, i, j)
      BY <2>2
    <3>2. j \in Nat /\ i < j /\ j <= size[l]
      BY <1>1, <3>1
    <3>3. req' = [list |-> l, next |-> i, end |-> j, single |-> FALSE]
      BY <3>1 DEF AskRange
    <3> QED
      BY <3>2, <3>3
  <2> QED
    BY <2>1, <2>2
<1>3. ReaderTypes'
  BY <1>1, <1>2 DEF TiledInv, ReaderTypes
<1>4. RequestInv'
  BY <1>1, <1>2 DEF RequestInv, Asked, tiles
<1>5. WalkInv'
  BY <1>1 DEF WalkInv
<1> QED
  BY <1>1, <1>3, <1>4, <1>5, ReaderStep

LEMMA LoadedForms == Loaded \in {"center", "begin"}
  BY DEF Loaded

LEMMA PrefetchStep ==
    ASSUME TiledInv, TooManyTiles \/ AlreadyCached
    PROVE  TiledInv'
<1>1. /\ pc = "prefetch" /\ pc' \in {"prefetch", "center", "begin"}
      /\ UNCHANGED <<tiles, walk, bugs>>
      /\ req' = req \/ req' = [req EXCEPT !.single = TRUE]
  BY LoadedForms DEF TooManyTiles, AlreadyCached
<1>2. ReaderTypes'
  BY <1>1 DEF TiledInv, ReaderTypes
<1>3. req'.list = req.list /\ req'.next = req.next /\ req'.end = req.end
  BY <1>1 DEF TiledInv, ReaderTypes
<1>4. RequestInv'
  BY <1>1, <1>3 DEF TiledInv, RequestInv, Asked, tiles
<1>5. WalkInv'
  BY <1>1 DEF WalkInv
<1> QED
  BY <1>1, <1>2, <1>4, <1>5, ReaderStep

Reading == \/ ReadCenter \/ ReadCenterFails
           \/ Begin \/ Skip \/ Found \/ AtEnd \/ ReadItem

LEMMA ReadingStep ==
    ASSUME TiledInv, Reading
    PROVE  TiledInv'
<1>1. UNCHANGED <<tiles, bugs>> /\ pc \in {"begin", "seek", "item", "center"}
  BY DEF Reading, ReadCenter, ReadCenterFails, Begin, Skip, Found, AtEnd, ReadItem, tiles
<1>2. \/ Idle
      \/ /\ UNCHANGED <<req, walk>> /\ pc' \in {"seek", "item"}
      \/ /\ pc' = "seek" /\ walk' = walk /\ req' = [req EXCEPT !.next = @ + 1]
      \/ /\ pc = "center" /\ pc' = "prefetch" /\ req.next + 1 # req.end
         /\ walk' = walk /\ req' = [req EXCEPT !.next = @ + 1]
  BY DEF Reading, ReadCenter, ReadCenterFails, Begin, Skip, Found, AtEnd, ReadItem, Finish
<1>3. CASE Idle
  BY <1>1, <1>3, IdleForms, ReaderStep DEF TiledInv, Idle
<1>4. CASE UNCHANGED <<req, walk>> /\ pc' \in {"seek", "item"}
  <2>1. ReaderTypes' /\ WalkInv' /\ RequestInv'
    BY <1>4 DEF TiledInv, ReaderTypes, WalkInv, RequestInv, Asked
  <2> QED
    BY <1>1, <1>4, <2>1, ReaderStep
<1>5. CASE pc' = "seek" /\ walk' = walk /\ req' = [req EXCEPT !.next = @ + 1]
  <2>1. ReaderTypes' /\ WalkInv' /\ RequestInv'
    BY <1>5 DEF TiledInv, ReaderTypes, WalkInv, RequestInv, Asked
  <2> QED
    BY <1>1, <1>5, <2>1, ReaderStep
<1>6. CASE /\ pc = "center" /\ pc' = "prefetch" /\ req.next + 1 # req.end
           /\ walk' = walk /\ req' = [req EXCEPT !.next = @ + 1]
  <2>1. ReaderTypes' /\ WalkInv'
    BY <1>6 DEF TiledInv, ReaderTypes, WalkInv
  <2>2. /\ req.next < req.end /\ req.end <= size[req.list]
        /\ req.next \in Nat /\ req.end \in Nat
        /\ req'.list = req.list /\ req'.next = req.next + 1 /\ req'.end = req.end
    BY <1>6 DEF TiledInv, ReaderTypes, RequestInv, Asked
  <2>3. RequestInv'
    BY <1>1, <1>6, <2>2 DEF RequestInv, tiles
  <2> QED
    BY <1>1, <1>6, <2>1, <2>3, ReaderStep
<1> QED
  BY <1>2, <1>3, <1>4, <1>5, <1>6

(* prefetch() looks for the first and for the last item of the range.      *)
LEMMA ContainsForms ==
    ASSUME TileTypes, NEW l \in Lists, NEW i
    PROVE  /\ ContainsItem(l, i) \in Locations \cup {NIL}
           /\ ContainsItem(l, i) # NIL => active[l][ContainsItem(l, i)] # NIL
<1>1. Holding(l, i) \subseteq Locations
  BY DEF Holding
<1>2. CASE Holding(l, i) = {}
  BY <1>2 DEF ContainsItem
<1>3. CASE Holding(l, i) # {}
  <2> DEFINE H == Holding(l, i)
  <2>1. \E x \in H : \A y \in H : x <= y
    <3>1. H \subseteq {0, 1, 2} /\ H # {}
      BY <1>1, <1>3
    <3> HIDE DEF H
    <3>2. CASE 0 \in H
      BY <3>1, <3>2
    <3>3. CASE 0 \notin H /\ 1 \in H
      <4>1. \A y \in H : y \in {1, 2}
        BY <3>1, <3>3
      <4> QED
        BY <3>3, <4>1
    <3>4. CASE H = {2}
      BY <3>4
    <3> QED
      BY <3>1, <3>2, <3>3, <3>4
  <2>2. Min(H) \in H
    <3> HIDE DEF H
    <3> QED
      BY <2>1 DEF Min
  <2>3. ContainsItem(l, i) \in Holding(l, i)
    BY <1>3, <2>2 DEF ContainsItem
  <2> QED
    BY <1>1, <2>3 DEF Holding
<1> QED
  BY <1>2, <1>3

LEMMA OverlapNow ==
    ASSUME TiledInv, pc = "prefetch"
    PROVE  /\ Overlap.direction \in Locations \cup {NIL} /\ Overlap.slides \in Nat
           /\ CenterIndex(req.single, Overlap, req.next) \in Int
           /\ Overlap.slides > 1 /\ Overlap.direction # NIL => size[req.list] > 2 * TileSize
           /\ Overlap.direction # NIL => active[req.list][Overlap.direction] # NIL
<1> DEFINE l == req.list
           from == ContainsItem(l, req.next)
           to == ContainsItem(l, req.next + PrefetchCount - 1)
<1>1. /\ l \in Lists /\ req.next \in Nat /\ req.end \in Nat /\ req.single \in BOOLEAN
      /\ req.next < req.end /\ req.end <= size[l] /\ size[l] \in Nat
  BY DEF TiledInv, TileTypes, ReaderTypes, RequestInv, Asked
<1>2. PrefetchCount \in Nat \ {0} /\ req.next + PrefetchCount <= size[l]
  BY <1>1 DEF PrefetchCount
<1>3. Spanned \in Nat \ {0} /\ (Spanned > 2 => size[l] > 2 * TileSize)
  BY <1>1, <1>2, SpannedIsNat, WideRange DEF Spanned
<1>4. /\ from \in Locations \cup {NIL} /\ to \in Locations \cup {NIL}
      /\ from # NIL => active[l][from] # NIL
      /\ to # NIL => active[l][to] # NIL
  BY <1>1, ContainsForms DEF TiledInv
<1> HIDE DEF from, to
<1>5. /\ Overlap.direction \in Locations \cup {NIL} /\ Overlap.slides \in Nat
      /\ Overlap.slides > 1 /\ Overlap.direction # NIL => Spanned > 2
      /\ Overlap.direction # NIL => Overlap.direction \in {from, to} \/ Spanned > 2
      /\ from = NIL /\ to = NIL => Overlap.direction = NIL
  <2>1. Overlap = AutoSlide(req.single, CheckOverlap(from, to, Spanned))
    BY DEF Overlap, from, to
  <2> QED
    BY <1>1, <1>3, <1>4, <2>1, OverlapForms
<1>6. CenterIndex(req.single, Overlap, req.next) \in Int
  <2>1. CenterIndex(req.single, Overlap, req.next) \in {req.next, req.next + TileSize}
    BY DEF CenterIndex
  <2> QED
    BY <1>1, <2>1, TileSizeAssumption
<1>7. ASSUME Overlap.direction # NIL
      PROVE  active[req.list][Overlap.direction] # NIL
  <2>1. CASE Overlap.direction \in {from, to}
    BY <1>4, <1>7, <2>1
  <2>2. CASE Spanned > 2
    <3>1. Settled(l)
      BY <1>1 DEF TiledInv, WindowInv, AtWork
    <3>2. Complete(l)
      BY <1>4, <1>5, <1>7, <3>1 DEF Settled, Empty
    <3> QED
      BY <1>3, <1>5, <1>7, <2>2, <3>2 DEF Complete
  <2> QED
    BY <1>5, <1>7, <2>1, <2>2
<1> QED
  BY <1>3, <1>5, <1>6, <1>7

LEMMA StartSlidingStep ==
    ASSUME TiledInv, StartSliding
    PROVE  TiledInv'
<1>1. /\ pc = "prefetch" /\ pc' = "slide" /\ UNCHANGED <<tiles, req, bugs>>
      /\ Overlap.slides > 0 /\ Overlap.direction \in {UP, DOWN}
      /\ walk' = [job |-> "slide", slot |-> 0, direction |-> Overlap.direction,
                  steps |-> Overlap.slides, center |-> CenterIndex(req.single, Overlap, req.next)]
  BY DEF StartSliding
<1>2. ReaderTypes'
  BY <1>1, OverlapNow DEF TiledInv, ReaderTypes
<1>3. WalkInv'
  BY <1>1, OverlapNow DEF WalkInv, tiles
<1>4. RequestInv'
  BY <1>1 DEF TiledInv, RequestInv, Asked, tiles
<1> QED
  BY <1>1, <1>2, <1>3, <1>4, ReaderStep

-----------------------------------------------------------------------------
(* clear() *)

LEMMA CancelForms ==
    ASSUME TileTypes, PoolInv, CancelAllQueued, UNCHANGED <<size, active, filling>>
    PROVE  /\ TileTypes' /\ PoolInv'
           /\ \A l \in Lists, s \in Slots :
                 hot'[l][s].state = "FREE" <=> hot[l][s].state = "FREE"
<1> HIDE DEF Slots
<1>1. /\ hot' = [l \in Lists |-> [s \in Slots |->
                   IF <<l, s>> \in Range(queue) THEN ErrorTile("CANCELED") ELSE hot[l][s]]]
      /\ queue' = <<>>
  BY DEF CancelAllQueued
<1>2. Range(queue) = ToSet(queue)
  BY DEF Range, ToSet
<1>3. \A l \in Lists, s \in Slots :
         hot'[l][s] = IF Queued(l, s) THEN ErrorTile("CANCELED") ELSE hot[l][s]
  BY <1>1, <1>2 DEF Queued
<1>4. ErrorTile("CANCELED") \in HotTile /\ ErrorTile("CANCELED").state = "CANCELED"
  BY TileForms
<1>5. TileTypes'
  <2>1. hot' \in [Lists -> [Slots -> HotTile]]
    BY <1>1, <1>4 DEF TileTypes
  <2> QED
    BY <1>1, <2>1 DEF TileTypes
<1>6. ToSet(queue') = {} /\ IsInjective(queue')
  BY <1>1 DEF ToSet, IsInjective
<1>7. ASSUME NEW l \in Lists, NEW s \in Slots
      PROVE  /\ hot'[l][s].state = "FILLING" <=> Queued(l, s)' \/ Locked(l, s)'
             /\ hot'[l][s].state = "FREE" <=> hot[l][s].state = "FREE"
  <2>1. Locked(l, s)' = Locked(l, s) /\ ~Queued(l, s)'
    BY <1>6 DEF Locked, Queued
  <2>2. Queued(l, s) => ~Locked(l, s)
    BY DEF PoolInv, Queued, Locked
  <2>3. hot[l][s].state = "FILLING" <=> Queued(l, s) \/ Locked(l, s)
    BY DEF PoolInv
  <2>4. CASE Queued(l, s)
    <3>1. hot'[l][s].state = "CANCELED" /\ hot[l][s].state = "FILLING"
      BY <1>3, <1>4, <2>3, <2>4
    <3> QED
      BY <2>1, <2>2, <2>4, <3>1
  <2>5. CASE ~Queued(l, s)
    BY <1>3, <2>1, <2>3, <2>5
  <2> QED
    BY <2>4, <2>5
<1>8. PoolInv'
  <2>1. \A f \in Fillers : filling'[f] \notin ToSet(queue')
    BY <1>6
  <2>2. \A f, g \in Fillers : filling'[f] # None /\ filling'[f] = filling'[g] => f = g
    BY DEF PoolInv
  <2> QED
    BY <1>6, <1>7, <2>1, <2>2 DEF PoolInv
<1> QED
  BY <1>5, <1>7, <1>8

LEMMA StartClearing ==
    ASSUME TiledInv, StartFilling \/ \E l \in Lists : Leave(l)
    PROVE  TiledInv'
<1>1. /\ CancelAllQueued /\ UNCHANGED <<size, active, filling, bugs>>
      /\ pc \in {"idle", "prefetch"} /\ pc' = "clear" /\ walk'.job # "slide"
      /\ walk'.slot = 0 /\ walk'.job # "none"
  BY DEF StartFilling, Leave, NoWalk
<1>2. /\ TileTypes' /\ PoolInv'
      /\ \A l \in Lists, s \in Slots :
            hot'[l][s].state = "FREE" <=> hot[l][s].state = "FREE"
  BY <1>1, CancelForms DEF TiledInv
<1>3. WindowInv'
  <2>1. ASSUME NEW l \in Lists PROVE Settled(l)' /\ Clearing(l)'
    <3>1. Settled(l)
      BY <1>1 DEF TiledInv, WindowInv, AtWork
    <3>2. Settled(l)'
      BY <1>1, <1>2, <3>1, SettledStays
    <3> QED
      BY <1>1, <3>2 DEF Clearing
  <2> QED
    BY <1>1, <2>1 DEF WindowInv
<1>4. ReaderTypes' /\ RequestInv'
  <2>1. CASE StartFilling
    <3>1. /\ pc = "prefetch" /\ req' = req /\ size' = size
          /\ walk' = [NoWalk EXCEPT !.job = "fill",
                                    !.center = CenterIndex(req.single, Overlap, req.next)]
      BY <2>1 DEF StartFilling
    <3>2. walk' \in [job : {"none", "slide", "fill", "leave"}, slot : 0..MaxTiles,
                     direction : {NIL, UP, DOWN}, steps : Nat, center : Int]
      <4> DEFINE c == CenterIndex(req.single, Overlap, req.next)
      <4>1. c \in Int
        BY <3>1, OverlapNow
      <4>2. walk' = [NoWalk EXCEPT !.job = "fill", !.center = c]
        BY <3>1
      <4> HIDE DEF c
      <4>3. walk' = [job |-> "fill", slot |-> 0, direction |-> NIL, steps |-> 0, center |-> c]
        BY <4>2 DEF NoWalk
      <4> QED
        BY <4>1, <4>3
    <3>3. ReaderTypes'
      BY <1>1, <3>1, <3>2 DEF TiledInv, ReaderTypes
    <3>4. RequestInv'
      BY <3>1 DEF TiledInv, RequestInv, Asked
    <3> QED
      BY <3>3, <3>4
  <2>2. ASSUME NEW l \in Lists, Leave(l)
        PROVE  ReaderTypes' /\ RequestInv'
    <3>1. req' = [req EXCEPT !.list = l] /\ walk' = [NoWalk EXCEPT !.job = "leave"]
      BY <2>2 DEF Leave
    <3>2. /\ walk' \in [job : {"none", "slide", "fill", "leave"}, slot : 0..MaxTiles,
                        direction : {NIL, UP, DOWN}, steps : Nat, center : Int]
          /\ walk'.job = "leave"
      BY <3>1 DEF NoWalk
    <3>3. ReaderTypes'
      BY <1>1, <2>2, <3>1, <3>2 DEF TiledInv, ReaderTypes
    <3>4. RequestInv'
      BY <1>1, <3>2 DEF RequestInv, Asked
    <3> QED
      BY <3>3, <3>4
  <2> QED
    BY <2>1, <2>2
<1>5. WalkInv'
  BY <1>1 DEF WalkInv
<1> QED
  BY <1>1, <1>2, <1>3, <1>4, <1>5 DEF TiledInv

(* A tile is given up when no filler works on it. *)
LEMMA GiveUpForms ==
    ASSUME TileTypes, PoolInv, NEW l \in Lists, NEW s \in Slots, ~Locked(l, s),
           hot' = [hot EXCEPT ![l][s] = FreeTile],
           queue' = RemoveFirst(queue, <<l, s>>),
           UNCHANGED <<size, active, filling>>
    PROVE  /\ TileTypes' /\ PoolInv'
           /\ \A k \in Lists, t \in Slots :
                 hot'[k][t].state = "FREE"
                    <=> <<k, t>> = <<l, s>> \/ hot[k][t].state = "FREE"
<1> HIDE DEF Slots
<1>1. /\ hot' \in [Lists -> [Slots -> HotTile]]
      /\ hot'[l][s] = FreeTile
      /\ \A k \in Lists, t \in Slots : <<k, t>> # <<l, s>> => hot'[k][t] = hot[k][t]
  BY TileForms, SetTile DEF TileTypes
<1>2. /\ queue' \in Seq(Tiles) /\ IsInjective(queue')
      /\ ToSet(queue') = ToSet(queue) \ {<<l, s>>}
  BY RemoveElement DEF TileTypes, PoolInv
<1>3. TileTypes'
  BY <1>1, <1>2 DEF TileTypes
<1>4. ASSUME NEW k \in Lists, NEW t \in Slots
      PROVE  hot'[k][t].state = "FILLING" <=> Queued(k, t)' \/ Locked(k, t)'
  <2>1. Locked(k, t)' = Locked(k, t)
    BY DEF Locked
  <2>2. CASE <<k, t>> = <<l, s>>
    <3>1. hot'[k][t].state = "FREE" /\ ~Locked(k, t) /\ ~Queued(k, t)'
      BY <1>1, <1>2, <2>2, TileForms DEF Queued
    <3> QED
      BY <2>1, <3>1
  <2>3. CASE <<k, t>> # <<l, s>>
    <3>1. Queued(k, t)' = Queued(k, t)
      BY <1>2, <2>3 DEF Queued
    <3>2. hot[k][t].state = "FILLING" <=> Queued(k, t) \/ Locked(k, t)
      BY DEF PoolInv
    <3> QED
      BY <1>1, <2>1, <2>3, <3>1, <3>2
  <2> QED
    BY <2>2, <2>3
<1>5. PoolInv'
  <2>1. \A f \in Fillers : filling'[f] \notin ToSet(queue')
    BY <1>2 DEF PoolInv
  <2>2. \A f, g \in Fillers : filling'[f] # None /\ filling'[f] = filling'[g] => f = g
    BY DEF PoolInv
  <2> QED
    BY <1>2, <1>4, <2>1, <2>2 DEF PoolInv
<1>6. ASSUME NEW k \in Lists, NEW t \in Slots
      PROVE  hot'[k][t].state = "FREE" <=> <<k, t>> = <<l, s>> \/ hot[k][t].state = "FREE"
  BY <1>1, TileForms
<1> QED
  BY <1>3, <1>5, <1>6

LEMMA GiveUpStep ==
    ASSUME TiledInv, pc \in {"clear", "await"}, walk.slot # MaxTiles,
           ~Locked(req.list, walk.slot), GiveUpTile,
           UNCHANGED <<size, active, filling, req, bugs>>
    PROVE  TiledInv'
<1> DEFINE l == req.list
           s == walk.slot
<1>1. /\ l \in Lists /\ s \in Slots
      /\ hot' = [hot EXCEPT ![l][s] = FreeTile]
      /\ queue' = RemoveFirst(queue, <<l, s>>)
      /\ IF walk.job = "slide" THEN pc' = "refill" /\ walk' = walk
         ELSE pc' = "clear" /\ walk' = [walk EXCEPT !.slot = @ + 1]
  BY DEF TiledInv, ReaderTypes, GiveUpTile
<1>2. /\ TileTypes' /\ PoolInv'
      /\ \A k \in Lists, t \in Slots :
            hot'[k][t].state = "FREE" <=> <<k, t>> = <<l, s>> \/ hot[k][t].state = "FREE"
  <2> HIDE DEF l, s
  <2>1. ~Locked(l, s)
    BY DEF l, s
  <2> QED
    BY <1>1, <2>1, GiveUpForms DEF TiledInv
<1>3. /\ pc' \in {"clear", "refill"} /\ walk'.job = walk.job
      /\ walk'.slot = IF walk.job = "slide" THEN s ELSE s + 1
      /\ walk'.direction = walk.direction /\ walk'.steps = walk.steps
  BY <1>1 DEF TiledInv, ReaderTypes
<1>4. ReaderTypes'
  <2>1. walk' \in [job : {"none", "slide", "fill", "leave"}, slot : 0..MaxTiles,
                   direction : {NIL, UP, DOWN}, steps : Nat, center : Int]
    <3>1. s + 1 \in 0..MaxTiles
      BY <1>1
    <3> QED
      BY <1>1, <3>1 DEF TiledInv, ReaderTypes
  <2> QED
    BY <1>3, <2>1 DEF TiledInv, ReaderTypes
<1>5. WindowInv'
  <2> SUFFICES ASSUME NEW k \in Lists
               PROVE  /\ ~AtWork(k)' => Settled(k)'
                      /\ AtWork(k)' /\ walk'.job = "slide" => Sliding(k)'
                      /\ AtWork(k)' /\ walk'.job # "slide" => Clearing(k)'
    BY DEF WindowInv
  <2>1. CASE k # l
    <3>1. ~AtWork(k) /\ ~AtWork(k)'
      BY <2>1 DEF AtWork
    <3>2. Settled(k)'
      BY <1>2, <2>1, <3>1, SettledStays DEF TiledInv, WindowInv
    <3> QED
      BY <3>1, <3>2
  <2>2. CASE k = l
    <3>1. AtWork(l) /\ AtWork(l)'
      BY <1>3 DEF AtWork
    <3>2. CASE walk.job = "slide"
      <4>1. Sliding(l) /\ pc # "refill" /\ pc' = "refill"
        BY <1>1, <3>1, <3>2 DEF TiledInv, WindowInv
      <4>2. Complete(l)'
        BY <4>1 DEF Sliding, Complete
      <4>3. s # NIL /\ NIL \notin Slots
        BY <1>1
      <4>4. OnlyActive(l, s)'
        <5>1. OnlyActive(l, NIL)
          BY <4>1 DEF Sliding
        <5>2. walk'.slot = s /\ l' = l
          BY <1>3, <3>2
        <5>3. \A t \in Slots : hot'[l][t].state = "FREE" <=> t = s \/ hot[l][t].state = "FREE"
          BY <1>1, <1>2
        <5> HIDE DEF l, s, Slots, Locations
        <5> QED
          BY <4>3, <5>1, <5>2, <5>3 DEF OnlyActive, s
      <4>5. Sliding(l)'
        BY <1>3, <3>2, <4>1, <4>2, <4>4 DEF Sliding
      <4> QED
        BY <1>3, <2>2, <3>1, <3>2, <4>5
    <3>3. CASE walk.job # "slide"
      <4>1. Clearing(l)
        BY <1>1, <3>1, <3>3 DEF TiledInv, WindowInv
      <4>2. Clearing(l)'
        BY <1>1, <1>2, <1>3, <3>3, <4>1 DEF Clearing
      <4> QED
        BY <1>3, <2>2, <3>1, <3>3, <4>2
    <3> QED
      BY <3>2, <3>3
  <2> QED
    BY <2>1, <2>2
<1>6. WalkInv'
  BY <1>1, <1>3 DEF TiledInv, WalkInv
<1>7. RequestInv'
  BY <1>1, <1>3 DEF TiledInv, RequestInv, Asked
<1> QED
  BY <1>2, <1>4, <1>5, <1>6, <1>7 DEF TiledInv

LEMMA CancelFillerStep ==
    ASSUME TiledInv, CancelFiller
    PROVE  TiledInv'
<1>1. CASE ~Locked(req.list, walk.slot) /\ GiveUpTile
  BY <1>1, GiveUpStep DEF CancelFiller
<1>2. CASE Locked(req.list, walk.slot) /\ pc' = "await" /\ UNCHANGED <<hot, queue, walk>>
  <2>1. pc = "clear" /\ walk.slot < MaxTiles /\ UNCHANGED <<size, active, filling, req, bugs>>
    BY DEF CancelFiller
  <2>2. TileTypes' /\ PoolInv' /\ ReaderTypes' /\ RequestInv'
    <3>1. TileTypes' /\ PoolInv'
      <4>1. TileTypes'
        BY <1>2, <2>1 DEF TiledInv, TileTypes
      <4>2. PoolInv'
        BY <1>2, <2>1 DEF TiledInv, PoolInv, Queued, Locked
      <4> QED
        BY <4>1, <4>2
    <3>2. ReaderTypes' /\ RequestInv'
      BY <1>2, <2>1 DEF TiledInv, ReaderTypes, RequestInv, Asked
    <3> QED
      BY <3>1, <3>2
  <2>3. WindowInv'
    <3> SUFFICES ASSUME NEW k \in Lists
                 PROVE  /\ ~AtWork(k)' => Settled(k)'
                        /\ AtWork(k)' /\ walk'.job = "slide" => Sliding(k)'
                        /\ AtWork(k)' /\ walk'.job # "slide" => Clearing(k)'
      BY DEF WindowInv
    <3>1. AtWork(k)' = AtWork(k)
      BY <1>2, <2>1 DEF AtWork
    <3>2. CASE ~AtWork(k)
      BY <1>2, <2>1, <3>1, <3>2, SettledStays DEF TiledInv, WindowInv
    <3>3. CASE AtWork(k)
      BY <1>2, <2>1, <3>1, <3>3
         DEF TiledInv, WindowInv, Sliding, Complete, OnlyActive, Clearing
    <3> QED
      BY <3>2, <3>3
  <2>4. ~Queued(req.list, walk.slot)
    BY <1>2 DEF TiledInv, PoolInv, Queued, Locked
  <2>5. WalkInv'
    BY <1>2, <2>1, <2>4 DEF TiledInv, WalkInv, ReaderTypes, Queued
  <2> QED
    BY <2>1, <2>2, <2>3, <2>5 DEF TiledInv
<1> QED
  BY <1>1, <1>2 DEF CancelFiller

LEMMA AwaitFillerStep ==
    ASSUME TiledInv, AwaitFiller
    PROVE  TiledInv'
<1>1. /\ pc = "await" /\ ~Locked(req.list, walk.slot) /\ GiveUpTile
      /\ walk.slot # MaxTiles /\ ~Queued(req.list, walk.slot)
      /\ UNCHANGED <<size, active, filling, req>>
  BY DEF TiledInv, WalkInv, AwaitFiller
<1>2. req.list \in Lists /\ walk.slot \in Slots
  BY <1>1 DEF TiledInv, ReaderTypes
<1>3. hot[req.list][walk.slot].state # "FILLING"
  BY <1>1, <1>2 DEF TiledInv, PoolInv
<1>4. bugs' = bugs
  BY <1>3 DEF AwaitFiller, Bug
<1> QED
  BY <1>1, <1>4, GiveUpStep

-----------------------------------------------------------------------------
(* slide() *)

LEMMA StepDoneForms ==
    ASSUME ReaderTypes, StepDone, walk.steps > 0
    PROVE  \/ pc' \in {"center", "begin"} /\ walk' = NoWalk
           \/ /\ pc' = "slide" /\ walk.steps > 1
              /\ walk'.job = walk.job /\ walk'.slot = walk.slot
              /\ walk'.direction = walk.direction /\ walk'.center = walk.center
              /\ walk'.steps = walk.steps - 1
              /\ walk' \in [job : {"none", "slide", "fill", "leave"}, slot : 0..MaxTiles,
                            direction : {NIL, UP, DOWN}, steps : Nat, center : Int]
<1>1. CASE walk.steps = 1
  BY <1>1, LoadedForms DEF StepDone
<1>2. CASE walk.steps # 1
  <2>1. pc' = "slide" /\ walk' = [walk EXCEPT !.steps = @ - 1] /\ walk.steps \in Nat
    BY <1>2 DEF StepDone, ReaderTypes
  <2>2. walk.steps - 1 \in Nat /\ walk.steps > 1
    BY <1>2, <2>1
  <2> QED
    BY <2>1, <2>2 DEF ReaderTypes
<1> QED
  BY <1>1, <1>2

(* After a step the reader goes on with a settled list. *)
LEMMA AfterStep ==
    ASSUME TiledInv, pc \in {"slide", "refill"}, StepDone,
           UNCHANGED <<size, req, bugs>>,
           TileTypes', PoolInv', \A l \in Lists : Settled(l)',
           walk.steps > 1 => active'[req.list][walk.direction] # NIL
    PROVE  TiledInv'
<1>1. walk.steps > 0 /\ walk.job = "slide" /\ walk.direction \in {UP, DOWN}
  BY DEF TiledInv, WalkInv
<1>2. \/ pc' \in {"center", "begin"} /\ walk' = NoWalk
      \/ /\ pc' = "slide" /\ walk.steps > 1
         /\ walk'.job = walk.job /\ walk'.slot = walk.slot
         /\ walk'.direction = walk.direction /\ walk'.center = walk.center
         /\ walk'.steps = walk.steps - 1
         /\ walk' \in [job : {"none", "slide", "fill", "leave"}, slot : 0..MaxTiles,
                       direction : {NIL, UP, DOWN}, steps : Nat, center : Int]
  BY <1>1, StepDoneForms DEF TiledInv
<1>3. ReaderTypes'
  <2>1. NoWalk \in [job : {"none", "slide", "fill", "leave"}, slot : 0..MaxTiles,
                    direction : {NIL, UP, DOWN}, steps : Nat, center : Int]
    BY DEF NoWalk
  <2> QED
    BY <1>2, <2>1 DEF TiledInv, ReaderTypes
<1>4. pc' \in {"center", "begin", "slide"}
  BY <1>2
<1>5. WindowInv'
  BY <1>4 DEF WindowInv, AtWork
<1>6. WalkInv'
  <2>1. CASE pc' = "slide"
    <3>1. walk.steps \in Nat /\ walk'.steps = walk.steps - 1 /\ walk.steps > 1
      BY <1>2, <2>1 DEF TiledInv, ReaderTypes
    <3>2. walk'.steps > 0 /\ size[req.list] > 2 * TileSize
      BY <1>1, <3>1 DEF TiledInv, WalkInv
    <3> QED
      BY <1>1, <1>2, <2>1, <3>1, <3>2 DEF WalkInv
  <2>2. CASE pc' # "slide"
    BY <1>4, <2>2 DEF WalkInv
  <2> QED
    BY <2>1, <2>2
<1>7. RequestInv'
  BY <1>4 DEF TiledInv, RequestInv, Asked
<1> QED
  BY <1>3, <1>5, <1>6, <1>7 DEF TiledInv

(* The three tiles change places. *)
LEMMA MovedForms ==
    ASSUME TiledInv, Slide
    PROVE  LET l == req.list
               d == walk.direction
               o == Opposite(d)
           IN /\ l \in Lists /\ d \in {UP, DOWN} /\ o \in {UP, DOWN} /\ o # d
              /\ active' \in [Lists -> [Locations -> Slots \cup {NIL}]]
              /\ active'[l][d] = active[l][o] /\ active'[l][CENTER] = active[l][d]
              /\ active'[l][o] = active[l][CENTER]
              /\ \A k \in Lists : k # l => active'[k] = active[k]
              /\ Complete(l) /\ Complete(l)'
              /\ OnlyActive(l, NIL) /\ OnlyActive(l, NIL)'
<1> DEFINE l == req.list
           d == walk.direction
           o == Opposite(d)
<1>1. /\ pc = "slide" /\ UNCHANGED <<size, hot, l>>
      /\ active' = [active EXCEPT ![l] = Moved(active[l], d)]
  BY DEF Slide
<1>2. l \in Lists /\ d \in {UP, DOWN} /\ o \in {UP, DOWN} /\ o # d
  <2>1. l \in Lists /\ d \in {UP, DOWN}
    BY <1>1 DEF TiledInv, ReaderTypes, WalkInv
  <2> QED
    BY <2>1 DEF Opposite
<1>3. active[l] \in [Locations -> Slots \cup {NIL}]
  BY <1>2 DEF TiledInv, TileTypes
<1> HIDE DEF l, o, d
<1>4. /\ Moved(active[l], d) \in [Locations -> Slots \cup {NIL}]
      /\ Moved(active[l], d)[d] = active[l][o]
      /\ Moved(active[l], d)[CENTER] = active[l][d]
      /\ Moved(active[l], d)[o] = active[l][CENTER]
  <2>1. o = Opposite(d) /\ o \in Locations /\ d \in Locations /\ CENTER \notin {o, d} /\ o # d
    BY <1>2 DEF o
  <2> DEFINE m == Moved(active[l], d)
  <2>2. m[d] = active[l][o] /\ m[CENTER] = active[l][d] /\ m[o] = active[l][CENTER]
    BY <2>1 DEF Moved
  <2>3. m = [w \in Locations |-> m[w]]
    BY DEF Moved
  <2>4. Locations = {d, CENTER, o}
    BY <1>2
  <2> HIDE DEF m
  <2>5. m \in [Locations -> Slots \cup {NIL}]
    BY <1>3, <2>1, <2>2, <2>3, <2>4
  <2> QED
    BY <2>2, <2>5 DEF m
<1>5. /\ active' \in [Lists -> [Locations -> Slots \cup {NIL}]]
      /\ active'[l] = Moved(active[l], d)
      /\ \A k \in Lists : k # l => active'[k] = active[k]
  BY <1>1, <1>2, <1>4 DEF TiledInv, TileTypes
<1>6. active[l][d] # NIL
  BY <1>1 DEF TiledInv, WalkInv, l, d
<1>7. Complete(l) /\ OnlyActive(l, NIL)
  <2>1. Settled(l)
    BY <1>1, <1>2 DEF TiledInv, WindowInv, AtWork
  <2> QED
    BY <1>2, <1>6, <2>1 DEF Settled, Empty
<1>8. /\ active'[l][d] = active[l][o] /\ active'[l][CENTER] = active[l][d]
      /\ active'[l][o] = active[l][CENTER]
  BY <1>4, <1>5
<1>9. \A s \in Slots : (\E w \in Locations : active'[l][w] = s)
                          <=> (\E w \in Locations : active[l][w] = s)
  BY <1>2, <1>8
<1>10. OnlyActive(l, NIL)'
  BY <1>1, <1>7, <1>9 DEF OnlyActive
<1>11. Complete(l)'
  BY <1>1, <1>2, <1>6, <1>7, <1>8 DEF Complete
<1> QED
  BY <1>2, <1>5, <1>7, <1>8, <1>10, <1>11 DEF l, d, o

-----------------------------------------------------------------------------
LEMMA SlideStep ==
    ASSUME TiledInv, Slide
    PROVE  TiledInv'
<1> DEFINE l == req.list
           d == walk.direction
           o == Opposite(d)
           pushed == active[l][o]
<1>1. /\ pc = "slide" /\ UNCHANGED <<size, hot, queue, filling, req, l>>
      /\ walk.job = "slide" /\ walk.steps > 0
  BY DEF Slide, TiledInv, WalkInv
<1>2. /\ l \in Lists /\ d \in {UP, DOWN} /\ o \in {UP, DOWN} /\ o # d
      /\ active' \in [Lists -> [Locations -> Slots \cup {NIL}]]
      /\ active'[l][d] = active[l][o] /\ active'[l][CENTER] = active[l][d]
      /\ active'[l][o] = active[l][CENTER]
      /\ \A k \in Lists : k # l => active'[k] = active[k]
      /\ Complete(l) /\ Complete(l)'
      /\ OnlyActive(l, NIL) /\ OnlyActive(l, NIL)'
  BY MovedForms
<1>3. active[l][d] # NIL
  BY <1>1 DEF TiledInv, WalkInv
<1>4. pushed \in Slots \cup {NIL}
  BY <1>2 DEF TiledInv, TileTypes
<1>5. bugs' = {}
  <2>1. active[l][CENTER] # NIL
    BY <1>2 DEF Complete
  <2>2. ASSUME NEW s \in Slots \cap {pushed} PROVE hot[l][s].state # "FREE"
    BY <1>2, <2>2 DEF OnlyActive
  <2>3. bugs' = bugs
    BY <1>3, <2>1, <2>2 DEF Slide, Bug
  <2> QED
    BY <2>3 DEF TiledInv
<1>6. TileTypes' /\ PoolInv'
  BY <1>1, <1>2 DEF TiledInv, TileTypes, PoolInv, Queued, Locked
<1>7. ASSUME NEW k \in Lists PROVE Settled(k)'
  <2>1. CASE k = l
    BY <1>1, <1>2, <2>1 DEF Settled
  <2>2. CASE k # l
    <3>1. Settled(k)
      BY <1>1 DEF TiledInv, WindowInv, AtWork
    <3> QED
      BY <1>1, <1>2, <2>2, <3>1, SettledStays
  <2> QED
    BY <2>1, <2>2
<1>8. CASE pushed # NIL /\ IsTileFor(hot[l][pushed].base, Adjacent) /\ StepDone
  <2>1. active'[req.list][walk.direction] # NIL
    BY <1>2, <1>8
  <2>2. UNCHANGED <<size, req, bugs>>
    BY <1>1, <1>5 DEF TiledInv
  <2> QED
    BY <1>1, <1>6, <1>7, <1>8, <2>1, <2>2, AfterStep
<1>9. CASE \/ pushed = NIL /\ pc' = "refill" /\ walk' = [walk EXCEPT !.slot = MaxTiles]
           \/ pushed # NIL /\ pc' = "clear" /\ walk' = [walk EXCEPT !.slot = pushed]
  <2>1. /\ walk' \in [job : {"none", "slide", "fill", "leave"}, slot : 0..MaxTiles,
                      direction : {NIL, UP, DOWN}, steps : Nat, center : Int]
        /\ walk'.job = "slide" /\ walk'.direction = d /\ walk'.steps = walk.steps
        /\ walk'.slot = IF pushed = NIL THEN MaxTiles ELSE pushed
    <3>1. MaxTiles \in 0..MaxTiles /\ (pushed # NIL => pushed \in 0..MaxTiles)
      BY <1>4
    <3>2. walk \in [job : {"none", "slide", "fill", "leave"}, slot : 0..MaxTiles,
                    direction : {NIL, UP, DOWN}, steps : Nat, center : Int]
      BY DEF TiledInv, ReaderTypes
    <3> HIDE DEF pushed, Slots, MaxTiles, d
    <3>3. CASE pushed = NIL
      BY <1>1, <1>9, <3>1, <3>2, <3>3 DEF d
    <3>4. CASE pushed # NIL
      BY <1>1, <1>9, <3>1, <3>2, <3>4 DEF d
    <3> QED
      BY <3>3, <3>4
  <2>2. pc' \in {"refill", "clear"} /\ (pc' = "refill" <=> pushed = NIL)
    BY <1>9
  <2>3. ReaderTypes'
    BY <1>1, <2>1, <2>2 DEF TiledInv, ReaderTypes
  <2>4. Sliding(l)'
    <3>1. walk'.slot = IF active'[l][walk'.direction] = NIL THEN MaxTiles
                       ELSE active'[l][walk'.direction]
      BY <1>2, <2>1
    <3>2. CASE pushed = NIL
      <4>1. OnlyActive(l, walk.slot)'
        BY <1>2, <2>1, <3>2 DEF OnlyActive
      <4> QED
        BY <1>2, <1>1, <2>2, <3>1, <3>2, <4>1 DEF Sliding
    <3>3. CASE pushed # NIL
      BY <1>1, <1>2, <1>4, <2>1, <2>2, <3>1, <3>3 DEF Sliding
    <3> QED
      BY <3>2, <3>3
  <2>5. WindowInv'
    <3>1. \A k \in Lists : AtWork(k)' <=> k = l
      BY <1>1, <2>2 DEF AtWork
    <3>2. \A k \in Lists : k = l => Sliding(k)'
      BY <1>1, <2>4
    <3> QED
      BY <1>7, <2>1, <3>1, <3>2 DEF WindowInv
  <2>6. WalkInv'
    BY <1>1, <1>2, <2>1, <2>2 DEF TiledInv, WalkInv
  <2>7. RequestInv'
    BY <1>1, <2>1, <2>2 DEF TiledInv, RequestInv, Asked
  <2> QED
    BY <1>5, <1>6, <2>3, <2>5, <2>6, <2>7 DEF TiledInv
<1> QED
  BY <1>8, <1>9 DEF Slide

(* A free tile is taken into use and queued. *)
LEMMA EnqueueForms ==
    ASSUME TileTypes, PoolInv, NEW l \in Lists, NEW s \in Slots,
           hot[l][s].state = "FREE",
           hot' \in [Lists -> [Slots -> HotTile]], hot'[l][s].state = "FILLING",
           \A k \in Lists, t \in Slots : <<k, t>> # <<l, s>> => hot'[k][t] = hot[k][t],
           queue' = queue \o << <<l, s>> >>,
           UNCHANGED <<size, active, filling>>
    PROVE  /\ TileTypes' /\ PoolInv'
           /\ \A k \in Lists, t \in Slots :
                 hot'[k][t].state = "FREE"
                    <=> <<k, t>> # <<l, s>> /\ hot[k][t].state = "FREE"
<1> HIDE DEF Slots
<1>1. /\ hot' \in [Lists -> [Slots -> HotTile]] /\ hot'[l][s].state = "FILLING"
      /\ \A k \in Lists, t \in Slots : <<k, t>> # <<l, s>> => hot'[k][t] = hot[k][t]
  OBVIOUS
<1>2. ~Queued(l, s) /\ ~Locked(l, s)
  BY DEF PoolInv
<1>3. /\ queue' \in Seq(Tiles) /\ IsInjective(queue')
      /\ ToSet(queue') = ToSet(queue) \cup {<<l, s>>}
  <2> DEFINE e == <<l, s>>
  <2>1. e \in Tiles /\ queue \in Seq(Tiles) /\ IsInjective(queue) /\ e \notin ToSet(queue)
    BY <1>2, TilesArePairs DEF TileTypes, PoolInv, Queued
  <2>2. queue' = queue \o <<e>>
    OBVIOUS
  <2> HIDE DEF e
  <2>3. queue' = Append(queue, e)
    BY <2>1, <2>2
  <2>4. /\ Append(queue, e) \in Seq(Tiles) /\ IsInjective(Append(queue, e))
        /\ ToSet(Append(queue, e)) = ToSet(queue) \cup {e}
    BY <2>1, AppendTo, AppendSet
  <2> QED
    BY <2>3, <2>4 DEF e
<1>4. TileTypes'
  BY <1>1, <1>3 DEF TileTypes
<1>5. ASSUME NEW k \in Lists, NEW t \in Slots
      PROVE  hot'[k][t].state = "FILLING" <=> Queued(k, t)' \/ Locked(k, t)'
  <2>1. Locked(k, t)' = Locked(k, t)
    BY DEF Locked
  <2>2. CASE <<k, t>> = <<l, s>>
    BY <1>1, <1>3, <2>2 DEF Queued
  <2>3. CASE <<k, t>> # <<l, s>>
    <3>1. <<k, t>> \in ToSet(queue') <=> <<k, t>> \in ToSet(queue)
      <4> DEFINE e == <<k, t>>
                 c == <<l, s>>
      <4>1. ToSet(queue') = ToSet(queue) \cup {c} /\ e # c
        BY <1>3, <2>3
      <4> HIDE DEF e, c
      <4>2. e \in ToSet(queue') <=> e \in ToSet(queue)
        BY <4>1
      <4> QED
        BY <4>2 DEF e
    <3>2. hot[k][t].state = "FILLING" <=> Queued(k, t) \/ Locked(k, t)
      BY DEF PoolInv
    <3> QED
      BY <1>1, <2>1, <2>3, <3>1, <3>2 DEF Queued
  <2> QED
    BY <2>2, <2>3
<1>6. PoolInv'
  <2>1. \A f \in Fillers : filling'[f] \notin ToSet(queue')
    BY <1>2, <1>3 DEF PoolInv, Locked
  <2>2. \A f, g \in Fillers : filling'[f] # None /\ filling'[f] = filling'[g] => f = g
    BY DEF PoolInv
  <2> QED
    BY <1>3, <1>5, <2>1, <2>2 DEF PoolInv
<1>7. ASSUME NEW k \in Lists, NEW t \in Slots
      PROVE  hot'[k][t].state = "FREE" <=> <<k, t>> # <<l, s>> /\ hot[k][t].state = "FREE"
  BY <1>1
<1> QED
  BY <1>4, <1>6, <1>7

LEMMA AdjacentIsInt ==
    ASSUME TileTypes, ReaderTypes, walk.direction \in {UP, DOWN} PROVE Adjacent \in Int
<1>1. /\ walk.center \in Int /\ walk.steps \in Nat /\ TileSize \in Int
      /\ size[req.list] \in Int
  BY TileSizeAssumption DEF TileTypes, ReaderTypes
<1>2. (walk.steps - 1) * TileSize \in Int
  BY <1>1
<1>3. Center \in Int
  BY <1>1, <1>2 DEF Center, SlideCenter
<1> HIDE DEF Center
<1>4. CASE walk.direction = UP
  BY <1>1, <1>3, <1>4 DEF Adjacent, IndexInAdjacentTile
<1>5. CASE walk.direction = DOWN
  BY <1>1, <1>3, <1>5 DEF Adjacent, IndexInAdjacentTile
<1> QED
  BY <1>4, <1>5

LEMMA RefillStep ==
    ASSUME TiledInv, Refill
    PROVE  TiledInv'
<1> DEFINE l == req.list
           s == walk.slot
           d == walk.direction
           x == ActivateTile(Adjacent)
<1>1. /\ pc = "refill" /\ walk.job = "slide" /\ d \in {UP, DOWN}
      /\ l \in Lists /\ s \in 0..MaxTiles
      /\ UNCHANGED <<size, filling, req>> /\ StepDone
  BY DEF Refill, TiledInv, WalkInv, ReaderTypes
<1>2. /\ Complete(l) /\ OnlyActive(l, s)
      /\ s = IF active[l][d] = NIL THEN MaxTiles ELSE active[l][d]
  BY <1>1 DEF TiledInv, WindowInv, AtWork, Sliding
<1>3. NewCenter = MaxTiles /\ active[l][CENTER] # NIL
  BY <1>2 DEF NewCenter, Complete
<1>4. bugs' = {} /\ active' = active
  BY <1>3 DEF Refill, Bug, TiledInv
<1>5. x \in HotTile /\ x.state = "FILLING"
  BY <1>1, AdjacentIsInt, TileForms DEF TiledInv
<1>6. /\ hot' = [hot EXCEPT ![l] = [t \in Slots |-> IF t = s THEN x ELSE hot[l][t]]]
      /\ queue' = queue \o <<>> \o Enqueued(s)
  <2>1. /\ hot' = [hot EXCEPT ![l] = [t \in Slots |->
                     CASE t = s -> x
                       [] t = NewCenter /\ t # s -> ActivateTile(Center)
                       [] OTHER -> hot[l][t]]]
        /\ queue' = queue \o Enqueued(NewCenter) \o Enqueued(s)
    BY DEF Refill
  <2>2. Enqueued(NewCenter) = <<>>
    BY <1>3 DEF Enqueued
  <2>3. \A t \in Slots : t # NewCenter
    BY <1>3
  <2> HIDE DEF Slots, x, s, l
  <2>4. [t \in Slots |-> CASE t = s -> x
                           [] t = NewCenter /\ t # s -> ActivateTile(Center)
                           [] OTHER -> hot[l][t]]
        = [t \in Slots |-> IF t = s THEN x ELSE hot[l][t]]
    BY <2>3
  <2> QED
    BY <2>1, <2>2, <2>4
<1>7. queue \o <<>> = queue
  <2>1. queue \in Seq(Tiles)
    BY DEF TiledInv, TileTypes
  <2> QED
    BY <2>1
<1>8. /\ TileTypes' /\ PoolInv'
      /\ \A k \in Lists, t \in Slots :
            hot'[k][t].state = "FREE" <=> <<k, t>> # <<l, s>> /\ hot[k][t].state = "FREE"
  <2>1. CASE s = MaxTiles
    <3>1. queue' = queue
      BY <1>6, <1>7, <2>1 DEF Enqueued
    <3>2. hot' = hot
      <4>1. hot[l] \in [Slots -> HotTile] /\ \A t \in Slots : t # s
        BY <1>1, <2>1 DEF TiledInv, TileTypes
      <4>2. [t \in Slots |-> IF t = s THEN x ELSE hot[l][t]] = hot[l]
        <5> HIDE DEF Slots, s, x, l
        <5> QED
          BY <4>1
      <4> QED
        BY <1>1, <1>6, <4>2 DEF TiledInv, TileTypes
    <3>3. TileTypes' /\ PoolInv'
      BY <1>1, <1>4, <3>1, <3>2 DEF TiledInv, TileTypes, PoolInv, Queued, Locked
    <3>4. \A k \in Lists, t \in Slots : <<k, t>> # <<l, s>>
      BY <2>1
    <3> QED
      BY <3>2, <3>3, <3>4
  <2>2. CASE s # MaxTiles
    <3>1. s \in Slots /\ hot[l][s].state = "FREE"
      BY <1>1, <1>2, <2>2 DEF OnlyActive
    <3>2. queue' = queue \o << <<l, s>> >>
      BY <1>6, <1>7, <2>2 DEF Enqueued
    <3>3. hot' = [hot EXCEPT ![l][s] = x]
      <4>1. [t \in Slots |-> IF t = s THEN x ELSE hot[l][t]] = [hot[l] EXCEPT ![s] = x]
        BY <1>1, <3>1 DEF TiledInv, TileTypes
      <4> QED
        BY <1>6, <4>1
    <3>4. /\ TileTypes /\ PoolInv /\ l \in Lists /\ UNCHANGED <<size, active, filling>>
      BY <1>1, <1>4 DEF TiledInv
    <3> HIDE DEF l, s, x, Slots, MaxTiles
    <3>5. x \in HotTile /\ x.state = "FILLING"
      BY <1>5
    <3>6. /\ hot' \in [Lists -> [Slots -> HotTile]] /\ hot'[l][s] = x
          /\ \A k \in Lists, t \in Slots : <<k, t>> # <<l, s>> => hot'[k][t] = hot[k][t]
      BY <3>1, <3>3, <3>4, <3>5, SetTile DEF TileTypes
    <3>7. hot'[l][s].state = "FILLING"
      BY <3>5, <3>6
    <3> QED
      BY ONLY <3>1, <3>2, <3>4, <3>6, <3>7, EnqueueForms
  <2> QED
    BY <2>1, <2>2
<1>9. ASSUME NEW k \in Lists PROVE Settled(k)'
  <2>1. CASE k = l
    <3>1. Complete(l)'
      BY <1>1, <1>2, <1>4 DEF Complete
    <3>2. OnlyActive(l, NIL)'
      BY <1>1, <1>2, <1>4, <1>8 DEF OnlyActive
    <3> QED
      BY <2>1, <3>1, <3>2, <1>1 DEF Settled
  <2>2. CASE k # l
    <3>1. Settled(k)
      BY <1>1, <2>2 DEF TiledInv, WindowInv, AtWork
    <3> QED
      BY <1>1, <1>4, <1>8, <2>2, <3>1, SettledStays
  <2> QED
    BY <2>1, <2>2
<1>10. walk.steps > 1 => active'[req.list][walk.direction] # NIL
  BY <1>1, <1>2, <1>4 DEF TiledInv, WalkInv, Complete
<1>11. UNCHANGED <<size, req, bugs>>
  BY <1>1, <1>4 DEF TiledInv
<1> QED
  BY <1>1, <1>8, <1>9, <1>10, <1>11, AfterStep

-----------------------------------------------------------------------------
(* fill() *)

LEMMA FilledSlotsForms ==
    ASSUME NEW total \in Nat \ {0}
    PROVE  \E c \in 1..MaxTiles :
              /\ Cardinality(FilledSlots(total)) = c /\ FilledSlots(total) = 0..c - 1
              /\ c > 1 <=> total > TileSize
              /\ c > 2 <=> total > 2 * TileSize
<1> DEFINE c == IF total <= TileSize THEN 1 ELSE IF total <= 2 * TileSize THEN 2 ELSE 3
<1>1. /\ c \in 1..MaxTiles /\ FilledSlots(total) = 0..c - 1
      /\ c > 1 <=> total > TileSize
      /\ c > 2 <=> total > 2 * TileSize
  BY TileSizeAssumption DEF FilledSlots
<1> HIDE DEF c
<1>2. Cardinality(0..c - 1) = c
  <2>1. 0 \in Int /\ c - 1 \in Int /\ ~(0 > c - 1) /\ (c - 1) - 0 + 1 = c
    BY <1>1
  <2>2. Cardinality(0..c - 1) = IF 0 > c - 1 THEN 0 ELSE (c - 1) - 0 + 1
    BY <2>1, FS_Interval
  <2> QED
    BY <2>1, <2>2
<1> QED
  BY <1>1, <1>2

LEMMA FilledForms ==
    ASSUME NEW base \in Int, NEW total \in Nat \ {0}
    PROVE  /\ Filled(base, total) \in [Slots -> HotTile]
           /\ \A s \in Slots :
                 Filled(base, total)[s].state = IF s \in FilledSlots(total) THEN "FILLING" ELSE "FREE"
<1>1. DownIndex(base, total) \in Int /\ UpIndex(base, total) \in Int
  BY TileSizeAssumption DEF DownIndex, UpIndex
<1>2. /\ ActivateTile(base) \in HotTile /\ ActivateTile(base).state = "FILLING"
      /\ ActivateTile(DownIndex(base, total)) \in HotTile
      /\ ActivateTile(DownIndex(base, total)).state = "FILLING"
      /\ ActivateTile(UpIndex(base, total)) \in HotTile
      /\ ActivateTile(UpIndex(base, total)).state = "FILLING"
      /\ FreeTile \in HotTile /\ FreeTile.state = "FREE"
  BY <1>1, TileForms
<1>3. /\ 0 \in FilledSlots(total)
      /\ 1 \in FilledSlots(total) <=> total > TileSize
      /\ 2 \in FilledSlots(total) <=> total > 2 * TileSize
  BY TileSizeAssumption DEF FilledSlots
<1> DEFINE F == Filled(base, total)
<1>4. /\ F[0] = ActivateTile(base)
      /\ F[1] = IF total > TileSize THEN ActivateTile(DownIndex(base, total)) ELSE FreeTile
      /\ F[2] = IF total > 2 * TileSize THEN ActivateTile(UpIndex(base, total)) ELSE FreeTile
  BY DEF Filled
<1>5. F = [s \in Slots |-> F[s]]
  BY DEF Filled
<1>6. Slots = {0, 1, 2}
  OBVIOUS
<1> HIDE DEF F, Slots
<1>7. \A s \in Slots : F[s] \in HotTile
  BY <1>2, <1>4, <1>6
<1>8. \A s \in Slots : F[s].state = IF s \in FilledSlots(total) THEN "FILLING" ELSE "FREE"
  BY <1>2, <1>3, <1>4, <1>6
<1> QED
  BY <1>5, <1>7, <1>8 DEF F

LEMMA FillTilesStep ==
    ASSUME TiledInv, FillTiles
    PROVE  TiledInv'
<1> DEFINE l == req.list
           total == size[l]
           new == [i \in 1..Cardinality(FilledSlots(total)) |-> <<l, i - 1>>]
<1>1. /\ pc = "clear" /\ walk.slot = MaxTiles /\ walk.job = "fill"
      /\ pc' = Loaded /\ walk' = NoWalk
      /\ UNCHANGED <<size, filling, req, bugs, l>>
      /\ hot' = [hot EXCEPT ![l] = Filled(BaseOf(walk.center), total)]
      /\ active' = [active EXCEPT ![l] = FilledWindow(total)]
      /\ queue' = queue \o new
  BY DEF FillTiles
<1>2. l \in Lists /\ total \in Nat \ {0} /\ BaseOf(walk.center) \in Int
  BY BaseIsInt DEF TiledInv, TileTypes, ReaderTypes
<1>3. PICK c \in 1..MaxTiles :
         /\ Cardinality(FilledSlots(total)) = c /\ FilledSlots(total) = 0..c - 1
         /\ c > 1 <=> total > TileSize
         /\ c > 2 <=> total > 2 * TileSize
  <2> HIDE DEF total
  <2> QED
    BY <1>2, FilledSlotsForms
<1>4. \A s \in Slots : hot[l][s].state = "FREE"
  BY <1>1, <1>2 DEF TiledInv, WindowInv, AtWork, Clearing
<1>5. \A s \in Slots : ~Queued(l, s) /\ ~Locked(l, s)
  BY <1>2, <1>4 DEF TiledInv, PoolInv
<1>6. /\ hot' \in [Lists -> [Slots -> HotTile]]
      /\ \A s \in Slots : hot'[l][s].state = IF s \in FilledSlots(total) THEN "FILLING" ELSE "FREE"
      /\ \A k \in Lists : k # l => hot'[k] = hot[k]
  <2> DEFINE b == BaseOf(walk.center)
  <2>1. /\ hot \in [Lists -> [Slots -> HotTile]]
        /\ hot' = [hot EXCEPT ![l] = Filled(b, total)]
    BY <1>1 DEF TiledInv, TileTypes
  <2> HIDE DEF b, total, Slots, l
  <2>2. /\ Filled(b, total) \in [Slots -> HotTile]
        /\ \A s \in Slots : Filled(b, total)[s].state = IF s \in FilledSlots(total) THEN "FILLING" ELSE "FREE"
    BY <1>2, FilledForms DEF b
  <2> QED
    BY <1>2, <2>1, <2>2
<1>7. /\ new \in Seq(Tiles) /\ IsInjective(new)
      /\ \A e : e \in ToSet(new) <=> \E s \in FilledSlots(total) : e = <<l, s>>
  <2>1. /\ new = [i \in 1..c |-> <<l, i - 1>>] /\ DOMAIN new = 1..c
        /\ \A i \in 1..c : new[i] = <<l, i - 1>> /\ i - 1 \in Slots
    BY <1>3
  <2>2. \A i \in 1..c : new[i] \in Tiles
    BY <1>2, <2>1, TilesArePairs
  <2>3. new \in Seq(Tiles)
    <3>1. c \in Nat
      BY <1>3
    <3> HIDE DEF new
    <3> QED
      BY <2>1, <2>2, <3>1
  <2>4. IsInjective(new)
    <3>1. \A i, j \in 1..c : new[i] = new[j] => i = j
      BY <2>1
    <3> HIDE DEF new
    <3> QED
      BY <2>1, <3>1 DEF IsInjective
  <2>5. ASSUME NEW e PROVE e \in ToSet(new) <=> \E s \in FilledSlots(total) : e = <<l, s>>
    <3> HIDE DEF new, total
    <3>1. ASSUME e \in ToSet(new) PROVE \E s \in FilledSlots(total) : e = <<l, s>>
      <4>1. PICK i \in 1..c : e = new[i]
        BY <2>1, <3>1 DEF ToSet
      <4>2. i - 1 \in FilledSlots(total) /\ e = <<l, i - 1>>
        BY <1>3, <2>1, <4>1
      <4> QED
        BY <4>2
    <3>2. ASSUME NEW s \in FilledSlots(total), e = <<l, s>> PROVE e \in ToSet(new)
      <4>1. s + 1 \in 1..c /\ (s + 1) - 1 = s
        BY <1>3
      <4>2. e = new[s + 1]
        BY <2>1, <3>2, <4>1
      <4> QED
        BY <2>1, <4>1, <4>2 DEF ToSet
    <3> QED
      BY <3>1, <3>2
  <2> QED
    BY <2>3, <2>4, <2>5
<1> HIDE DEF new
<1>8. FilledSlots(total) \subseteq Slots
  BY <1>3
<1>9. /\ queue' \in Seq(Tiles) /\ ToSet(queue') = ToSet(queue) \cup ToSet(new)
      /\ IsInjective(queue')
  <2>1. queue \in Seq(Tiles) /\ IsInjective(queue)
    BY DEF TiledInv, TileTypes, PoolInv
  <2>2. ToSet(queue) \cap ToSet(new) = {}
    BY <1>5, <1>7, <1>8 DEF Queued
  <2> QED
    BY <1>1, <1>7, <2>1, <2>2, ConcatSet
<1>10. /\ FilledWindow(total) \in [Locations -> Slots \cup {NIL}]
       /\ FilledWindow(total)[CENTER] = 0
       /\ FilledWindow(total)[DOWN] = IF c > 1 THEN 1 ELSE NIL
       /\ FilledWindow(total)[UP] = IF c > 2 THEN 2 ELSE NIL
  <2> DEFINE W == FilledWindow(total)
  <2>1. /\ W[CENTER] = 0
        /\ W[DOWN] = IF 1 \in FilledSlots(total) THEN 1 ELSE NIL
        /\ W[UP] = IF 2 \in FilledSlots(total) THEN 2 ELSE NIL
    <3> HIDE DEF total
    <3> QED
      BY DEF FilledWindow
  <2>2. W = [w \in Locations |-> W[w]]
    BY DEF FilledWindow
  <2> HIDE DEF W
  <2>3. W[DOWN] = (IF c > 1 THEN 1 ELSE NIL) /\ W[UP] = (IF c > 2 THEN 2 ELSE NIL)
    BY <1>3, <2>1
  <2>4. \A w \in Locations : W[w] \in Slots \cup {NIL}
    BY <2>1, <2>3
  <2> QED
    BY <2>1, <2>2, <2>3, <2>4 DEF W
<1>11. /\ active' \in [Lists -> [Locations -> Slots \cup {NIL}]]
       /\ active'[l] = FilledWindow(total)
       /\ \A k \in Lists : k # l => active'[k] = active[k]
  BY <1>1, <1>2, <1>10 DEF TiledInv, TileTypes
<1>12. TileTypes'
  BY <1>1, <1>6, <1>9, <1>11 DEF TiledInv, TileTypes
<1>13. PoolInv'
  <2>1. \A f \in Fillers : filling'[f] \notin ToSet(queue')
    <3> SUFFICES ASSUME NEW f \in Fillers, filling[f] \in ToSet(queue') PROVE FALSE
      BY <1>1
    <3>1. filling[f] \notin ToSet(queue)
      BY DEF TiledInv, PoolInv
    <3>2. filling[f] \in ToSet(new)
      BY <1>9, <3>1
    <3> HIDE DEF total, l, Slots
    <3>3. PICK s \in FilledSlots(total) : filling[f] = <<l, s>>
      BY <1>7, <3>2
    <3>4. s \in Slots /\ ~Locked(l, s)
      BY <1>5, <1>8, <3>3
    <3> QED
      BY <3>3, <3>4 DEF Locked
  <2>2. \A f, g \in Fillers : filling'[f] # None /\ filling'[f] = filling'[g] => f = g
    BY <1>1 DEF TiledInv, PoolInv
  <2>3. ASSUME NEW k \in Lists, NEW s \in Slots
        PROVE  hot'[k][s].state = "FILLING" <=> Queued(k, s)' \/ Locked(k, s)'
    <3>1. Locked(k, s)' = Locked(k, s)
      BY <1>1 DEF Locked
    <3>2. CASE k = l
      <4>1. Queued(k, s)' <=> s \in FilledSlots(total)
        <5>1. <<k, s>> \notin ToSet(queue)
          BY <1>5, <3>2 DEF Queued
        <5>2. <<k, s>> \in ToSet(new) <=> s \in FilledSlots(total)
          <6> HIDE DEF total
          <6> QED
            BY <1>7, <3>2
        <5> QED
          BY <1>9, <5>1, <5>2 DEF Queued
      <4> QED
        BY <1>5, <1>6, <3>1, <3>2, <4>1
    <3>3. CASE k # l
      <4>1. Queued(k, s)' <=> Queued(k, s)
        BY <1>7, <1>9, <3>3 DEF Queued
      <4>2. hot[k][s].state = "FILLING" <=> Queued(k, s) \/ Locked(k, s)
        BY DEF TiledInv, PoolInv
      <4> QED
        BY <1>6, <3>1, <3>3, <4>1, <4>2
    <3> QED
      BY <3>2, <3>3
  <2> QED
    BY <1>9, <2>1, <2>2, <2>3 DEF PoolInv
<1>14. pc' \in {"center", "begin"}
  BY <1>1, LoadedForms
<1>15. WindowInv'
  <2>1. Complete(l)'
    <3>1. size'[l] = total
      BY <1>1
    <3> QED
      BY <1>1, <1>3, <1>10, <1>11, <3>1 DEF Complete
  <2>2. OnlyActive(l, NIL)'
    <3>1. \A s \in Slots : s \in FilledSlots(total) <=> \E w \in Locations : active'[l][w] = s
      BY <1>3, <1>10, <1>11
    <3> QED
      BY <1>1, <1>6, <3>1 DEF OnlyActive
  <2>3. ASSUME NEW k \in Lists PROVE Settled(k)'
    <3>1. CASE k = l
      BY <1>1, <2>1, <2>2, <3>1 DEF Settled
    <3>2. CASE k # l
      <4>1. Settled(k)
        BY <3>2 DEF TiledInv, WindowInv, AtWork
      <4> QED
        BY <1>1, <1>6, <1>11, <3>2, <4>1, SettledStays
    <3> QED
      BY <3>1, <3>2
  <2> QED
    BY <1>14, <2>3 DEF WindowInv, AtWork
<1>16. ReaderTypes'
  <2>1. NoWalk \in [job : {"none", "slide", "fill", "leave"}, slot : 0..MaxTiles,
                    direction : {NIL, UP, DOWN}, steps : Nat, center : Int]
    BY DEF NoWalk
  <2> QED
    BY <1>1, <1>14, <2>1 DEF TiledInv, ReaderTypes
<1>17. WalkInv' /\ RequestInv'
  BY <1>1, <1>14 DEF TiledInv, WalkInv, RequestInv, Asked
<1> QED
  BY <1>1, <1>12, <1>13, <1>15, <1>16, <1>17 DEF TiledInv

LEMMA LeftStep ==
    ASSUME TiledInv, Left
    PROVE  TiledInv'
<1> DEFINE l == req.list
<1>1. /\ pc = "clear" /\ walk.slot = MaxTiles /\ walk.job = "leave" /\ Idle
      /\ active' = [active EXCEPT ![l] = [w \in Locations |-> NIL]]
      /\ UNCHANGED <<hot, queue, filling, bugs>> /\ l \in Lists
  BY DEF Left, Finish, TiledInv, ReaderTypes
<1>2. PICK n \in Nat \ {0} : size' = [size EXCEPT ![l] = n]
  <2>1. PICK n \in Sizes[l] : size' = [size EXCEPT ![l] = n]
    BY DEF Left
  <2>2. Sizes[l] \subseteq Nat \ {0}
    BY <1>1, TiledListAssumption
  <2> QED
    BY <2>1, <2>2
<1>3. TileTypes'
  <2>1. size' \in [Lists -> Nat \ {0}]
    BY <1>2 DEF TiledInv, TileTypes
  <2>2. active' \in [Lists -> [Locations -> Slots \cup {NIL}]]
    BY <1>1 DEF TiledInv, TileTypes
  <2> QED
    BY <1>1, <2>1, <2>2 DEF TiledInv, TileTypes
<1>4. PoolInv'
  BY <1>1 DEF TiledInv, PoolInv, Queued, Locked
<1>5. ASSUME NEW k \in Lists PROVE Settled(k)'
  <2>1. CASE k = l
    <3>1. \A s \in Slots : hot[l][s].state = "FREE"
      BY <1>1 DEF TiledInv, WindowInv, AtWork, Clearing
    <3>2. \A w \in Locations : active'[l][w] = NIL
      BY <1>1 DEF TiledInv, TileTypes
    <3>3. Empty(k)'
      BY <1>1, <2>1, <3>1, <3>2 DEF Empty
    <3> QED
      BY <3>3 DEF Settled
  <2>2. CASE k # l
    <3>1. Settled(k)
      BY <2>2 DEF TiledInv, WindowInv, AtWork
    <3>2. size'[k] = size[k] /\ active'[k] = active[k]
      BY <1>1, <1>2, <2>2 DEF TiledInv, TileTypes
    <3> QED
      BY <1>1, <3>1, <3>2, SettledStays
  <2> QED
    BY <2>1, <2>2
<1>6. WindowInv'
  BY <1>1, <1>5 DEF WindowInv, AtWork, Idle
<1>7. ReaderTypes' /\ WalkInv' /\ RequestInv'
  BY <1>1, IdleForms DEF TiledInv
<1> QED
  BY <1>1, <1>3, <1>4, <1>6, <1>7 DEF TiledInv

-----------------------------------------------------------------------------
(* The fillers *)

LEMMA TakeStep ==
    ASSUME TiledInv, NEW f \in Fillers, Take(f)
    PROVE  TiledInv'
<1>1. /\ filling[f] = None /\ queue # <<>> /\ queue \in Seq(Tiles) /\ IsInjective(queue)
      /\ filling' = [filling EXCEPT ![f] = Head(queue)] /\ queue' = Tail(queue)
      /\ UNCHANGED <<size, hot, active, pc, req, walk, bugs>>
      /\ filling \in [Fillers -> Tiles \cup {None}]
  BY DEF Take, TiledInv, TileTypes, PoolInv
<1> DEFINE h == Head(queue)
<1>2. /\ h \in Tiles /\ Tail(queue) \in Seq(Tiles)
      /\ ToSet(queue) = ToSet(queue') \cup {h}
      /\ IsInjective(queue') /\ h \notin ToSet(queue')
  BY <1>1, TailSet
<1> HIDE DEF h
<1>3. /\ filling' \in [Fillers -> Tiles \cup {None}] /\ filling'[f] = h
      /\ \A g \in Fillers : g # f => filling'[g] = filling[g]
  BY <1>1, <1>2 DEF h
<1>4. TileTypes'
  BY <1>1, <1>2, <1>3 DEF TiledInv, TileTypes
<1>5. \A g \in Fillers : filling[g] \notin ToSet(queue)
  BY DEF TiledInv, PoolInv
<1>6. PoolInv'
  <2>1. \A g \in Fillers : filling'[g] \notin ToSet(queue')
    BY <1>2, <1>3, <1>5
  <2>2. \A a, b \in Fillers : filling'[a] # None /\ filling'[a] = filling'[b] => a = b
    <3>1. \A g \in Fillers : filling[g] # h
      BY <1>2, <1>5
    <3>2. \A a, b \in Fillers : filling[a] # None /\ filling[a] = filling[b] => a = b
      BY DEF TiledInv, PoolInv
    <3> QED
      BY <1>3, <3>1, <3>2
  <2>3. ASSUME NEW l \in Lists, NEW s \in Slots
        PROVE  hot'[l][s].state = "FILLING" <=> Queued(l, s)' \/ Locked(l, s)'
    <3> DEFINE e == <<l, s>>
    <3>1. e # None
      BY TilesArePairs
    <3>2. hot[l][s].state = "FILLING" <=> e \in ToSet(queue) \/ \E g \in Fillers : filling[g] = e
      BY DEF TiledInv, PoolInv, Queued, Locked
    <3>3. (e \in ToSet(queue') \/ \E g \in Fillers : filling'[g] = e)
            <=> (e \in ToSet(queue) \/ \E g \in Fillers : filling[g] = e)
      <4> HIDE DEF e
      <4>1. CASE e = h
        BY <1>2, <1>3, <4>1
      <4>2. CASE e # h
        <5>1. (\E g \in Fillers : filling'[g] = e) <=> (\E g \in Fillers : filling[g] = e)
          BY <1>1, <1>3, <3>1, <4>2
        <5> QED
          BY <1>2, <4>2, <5>1
      <4> QED
        BY <4>1, <4>2
    <3> QED
      BY <1>1, <3>2, <3>3 DEF Queued, Locked
  <2> QED
    BY <1>2, <2>1, <2>2, <2>3 DEF PoolInv
<1>7. WindowInv'
  BY <1>1, WindowStays DEF TiledInv
<1>8. ReaderTypes' /\ RequestInv'
  BY <1>1 DEF TiledInv, ReaderTypes, RequestInv, Asked
<1>9. WalkInv'
  <2>1. \A l, s : Queued(l, s)' => Queued(l, s)
    BY <1>2 DEF Queued
  <2> QED
    BY <1>1, <2>1 DEF TiledInv, WalkInv, Queued
<1> QED
  BY <1>1, <1>4, <1>6, <1>7, <1>8, <1>9 DEF TiledInv

LEMMA FillStep ==
    ASSUME TiledInv, "empty" \notin Outcomes,
           NEW f \in Fillers, NEW outcome \in Outcomes, Fill(f, outcome)
    PROVE  TiledInv'
<1> DEFINE l == filling[f][1]
           s == filling[f][2]
           x == Processed(hot[l][s], size[l], outcome)
<1>1. /\ filling[f] # None /\ hot' = [hot EXCEPT ![l][s] = x]
      /\ filling' = [filling EXCEPT ![f] = None]
      /\ UNCHANGED <<size, active, queue, pc, req, walk, bugs>>
      /\ filling \in [Fillers -> Tiles \cup {None}]
  BY DEF Fill, TiledInv, TileTypes
<1>2. l \in Lists /\ s \in Slots /\ filling[f] = <<l, s>>
  BY <1>1, TilesArePairs
<1>3. x \in HotTile /\ x.state \in {"READY", "ERROR"}
  <2>1. hot[l][s] \in HotTile /\ size[l] \in Nat
    BY <1>2 DEF TiledInv, TileTypes
  <2> QED
    BY <2>1, ProcessedForms
<1>4. Locked(l, s) /\ ~Queued(l, s) /\ hot[l][s].state = "FILLING"
  BY <1>2 DEF TiledInv, PoolInv, Locked, Queued
<1> HIDE DEF x, l, s
<1>5. /\ hot' \in [Lists -> [Slots -> HotTile]]
      /\ hot'[l][s] = x
      /\ \A k \in Lists, t \in Slots : <<k, t>> # <<l, s>> => hot'[k][t] = hot[k][t]
  BY <1>1, <1>2, <1>3, SetTile DEF TiledInv, TileTypes
<1>6. /\ filling' \in [Fillers -> Tiles \cup {None}] /\ filling'[f] = None
      /\ \A g \in Fillers : g # f => filling'[g] = filling[g]
  BY <1>1
<1>7. TileTypes'
  BY <1>1, <1>5, <1>6 DEF TiledInv, TileTypes
<1>8. PoolInv'
  <2>1. \A g \in Fillers : filling'[g] \notin ToSet(queue')
    <3>1. \A e \in ToSet(queue) : e # None
      <4>1. ToSet(queue) \subseteq Tiles
        BY DEF TiledInv, TileTypes, ToSet
      <4> QED
        BY <4>1, TilesArePairs
    <3> QED
      BY <1>1, <1>6, <3>1 DEF TiledInv, PoolInv
  <2>2. \A a, b \in Fillers : filling'[a] # None /\ filling'[a] = filling'[b] => a = b
    BY <1>6 DEF TiledInv, PoolInv
  <2>3. ASSUME NEW k \in Lists, NEW t \in Slots
        PROVE  hot'[k][t].state = "FILLING" <=> Queued(k, t)' \/ Locked(k, t)'
    <3> DEFINE e == <<k, t>>
    <3>1. Queued(k, t)' = Queued(k, t)
      BY <1>1 DEF Queued
    <3>2. CASE e = <<l, s>>
      <4>1. k = l /\ t = s
        BY <3>2
      <4>2. ~Locked(k, t)'
        <5>1. e # None
          BY TilesArePairs
        <5> HIDE DEF e
        <5>2. \A g \in Fillers : filling'[g] # e
          BY <1>1, <1>2, <1>6, <3>2, <5>1 DEF TiledInv, PoolInv
        <5> QED
          BY <5>2 DEF Locked, e
      <4> QED
        BY <1>3, <1>4, <1>5, <3>1, <4>1, <4>2
    <3>3. CASE e # <<l, s>>
      <4>1. e # None
        BY TilesArePairs
      <4>2. Locked(k, t)' <=> Locked(k, t)
        <5> HIDE DEF e
        <5>1. (\E g \in Fillers : filling'[g] = e) <=> (\E g \in Fillers : filling[g] = e)
          BY <1>1, <1>2, <1>6, <3>3, <4>1
        <5> QED
          BY <5>1 DEF Locked, e
      <4>3. hot[k][t].state = "FILLING" <=> Queued(k, t) \/ Locked(k, t)
        BY DEF TiledInv, PoolInv
      <4> QED
        BY <1>5, <3>1, <3>3, <4>2, <4>3
    <3> QED
      BY <3>2, <3>3
  <2>4. IsInjective(queue')
    BY <1>1 DEF TiledInv, PoolInv
  <2> QED
    BY <2>1, <2>2, <2>3, <2>4 DEF PoolInv
<1>9. \A k \in Lists, t \in Slots : hot'[k][t].state = "FREE" <=> hot[k][t].state = "FREE"
  <2> SUFFICES ASSUME NEW k \in Lists, NEW t \in Slots
               PROVE  hot'[k][t].state = "FREE" <=> hot[k][t].state = "FREE"
    OBVIOUS
  <2>1. CASE <<k, t>> = <<l, s>>
    BY <1>3, <1>4, <1>5, <2>1
  <2>2. CASE <<k, t>> # <<l, s>>
    BY <1>5, <2>2
  <2> QED
    BY <2>1, <2>2
<1>10. WindowInv'
  BY <1>1, <1>9, WindowStays DEF TiledInv
<1>11. ReaderTypes' /\ RequestInv' /\ WalkInv'
  BY <1>1 DEF TiledInv, ReaderTypes, RequestInv, Asked, WalkInv, Queued
<1> QED
  BY <1>1, <1>7, <1>8, <1>10, <1>11 DEF TiledInv

-----------------------------------------------------------------------------
LEMMA TiledInit == Init => TiledInv
<1> SUFFICES ASSUME Init PROVE TiledInv
  OBVIOUS
<1>1. /\ hot = [l \in Lists |-> [s \in Slots |-> FreeTile]]
      /\ active = [l \in Lists |-> [w \in Locations |-> NIL]]
      /\ queue = <<>> /\ filling = [f \in Fillers |-> None]
      /\ pc = "idle" /\ walk = NoWalk /\ bugs = {}
      /\ req \in [list : Lists, next : {0}, end : {0}, single : {FALSE}]
  BY DEF Init
<1>2. size \in [Lists -> Nat \ {0}]
  <2>1. size \in [Lists -> UNION Range(Sizes)] /\ \A l \in Lists : size[l] \in Sizes[l]
    BY DEF Init
  <2>2. \A l \in Lists : Sizes[l] \subseteq Nat \ {0}
    BY TiledListAssumption
  <2> QED
    BY <2>1, <2>2
<1> HIDE DEF Slots
<1>3. hot \in [Lists -> [Slots -> HotTile]]
      /\ \A l \in Lists, s \in Slots : hot[l][s].state = "FREE"
  BY <1>1, TileForms
<1>4. TileTypes
  <2>1. active \in [Lists -> [Locations -> Slots \cup {NIL}]]
    BY <1>1
  <2>2. queue \in Seq(Tiles) /\ filling \in [Fillers -> Tiles \cup {None}]
    BY <1>1
  <2> QED
    BY <1>2, <1>3, <2>1, <2>2 DEF TileTypes
<1>5. ReaderTypes
  <2>1. NoWalk \in [job : {"none", "slide", "fill", "leave"}, slot : 0..MaxTiles,
                    direction : {NIL, UP, DOWN}, steps : Nat, center : Int]
    BY DEF NoWalk
  <2>2. req \in [list : Lists, next : Nat, end : Nat, single : BOOLEAN]
    <3>1. PICK l \in Lists, single \in {FALSE} :
             req = [list |-> l, next |-> 0, end |-> 0, single |-> single]
      BY <1>1
    <3>2. single \in BOOLEAN
      OBVIOUS
    <3> QED
      BY <3>1, <3>2
  <2> QED
    BY <1>1, <2>1, <2>2 DEF ReaderTypes
<1>6. PoolInv
  <2>1. ToSet(queue) = {} /\ IsInjective(queue)
    BY <1>1 DEF ToSet, IsInjective
  <2>2. \A f \in Fillers : filling[f] = None
    BY <1>1
  <2>3. \A l \in Lists, s \in Slots : ~Locked(l, s) /\ ~Queued(l, s)
    BY <2>1, <2>2, TilesArePairs DEF Locked, Queued
  <2>4. \A l \in Lists, s \in Slots : hot[l][s].state # "FILLING"
    BY <1>3
  <2> QED
    BY <2>1, <2>2, <2>3, <2>4 DEF PoolInv
<1>7. \A l \in Lists : ~AtWork(l) /\ Settled(l)
  BY <1>1, <1>3 DEF AtWork, Settled, Empty
<1>8. WindowInv
  BY <1>7 DEF WindowInv
<1>9. WalkInv /\ RequestInv
  BY <1>1 DEF WalkInv, RequestInv, Asked
<1> QED
  BY <1>1, <1>4, <1>5, <1>6, <1>8, <1>9 DEF TiledInv

LEMMA TiledNext ==
    ASSUME TiledInv, "empty" \notin Outcomes, [Next]_vars
    PROVE  TiledInv'
<1>1. CASE Client
  <2>1. PICK l \in Lists : \/ Leave(l)
                           \/ \E i \in 0..size[l] - 1 : AskItem(l, i)
                           \/ \E i \in 0..size[l] - 1 : \E j \in i + 1..size[l] : AskRange(l, i, j)
    BY <1>1 DEF Client
  <2>2. CASE Leave(l)
    BY <2>2, StartClearing
  <2>3. CASE \E i \in 0..size[l] - 1 : AskItem(l, i)
    BY <2>3, AskStep
  <2>4. CASE \E i \in 0..size[l] - 1 : \E j \in i + 1..size[l] : AskRange(l, i, j)
    BY <2>4, AskStep
  <2> QED
    BY <2>1, <2>2, <2>3, <2>4
<1>2. CASE TooManyTiles \/ AlreadyCached
  BY <1>2, PrefetchStep
<1>3. CASE StartSliding
  BY <1>3, StartSlidingStep
<1>4. CASE StartFilling
  BY <1>4, StartClearing
<1>5. CASE Slide
  BY <1>5, SlideStep
<1>6. CASE CancelFiller
  BY <1>6, CancelFillerStep
<1>7. CASE AwaitFiller
  BY <1>7, AwaitFillerStep
<1>8. CASE Refill
  BY <1>8, RefillStep
<1>9. CASE FillTiles
  BY <1>9, FillTilesStep
<1>10. CASE Left
  BY <1>10, LeftStep
<1>11. CASE Reading
  BY <1>11, ReadingStep
<1>12. CASE \E f \in Fillers : Filler(f)
  BY <1>12, TakeStep, FillStep DEF Filler
<1>13. CASE UNCHANGED vars
  <2>1. TileTypes' /\ PoolInv'
    BY <1>13 DEF TiledInv, TileTypes, PoolInv, Queued, Locked, vars
  <2>2. WindowInv'
    BY <1>13, WindowStays DEF TiledInv, vars
  <2>3. ReaderTypes' /\ RequestInv' /\ WalkInv'
    BY <1>13 DEF TiledInv, ReaderTypes, RequestInv, Asked, WalkInv, Queued, vars
  <2> QED
    BY <1>13, <2>1, <2>2, <2>3 DEF TiledInv, vars
<1>14. CASE Reader
  BY <1>2, <1>3, <1>4, <1>5, <1>6, <1>7, <1>8, <1>9, <1>10, <1>11, <1>14 DEF Reader, Reading
<1> QED
  BY <1>1, <1>12, <1>13, <1>14 DEF Next

(***************************************************************************)
(* The invariant: cancel_filler(), slide(), clear() and the fillers keep   *)
(* tiles, window and queue consistent, whatever the order of their steps.  *)
(***************************************************************************)
THEOREM TilesManaged ==
    ASSUME "empty" \notin Outcomes PROVE Spec => []TiledInv
<1>1. Init => TiledInv
  BY TiledInit
<1>2. TiledInv /\ [Next]_vars => TiledInv'
  BY TiledNext
<1> QED
  BY <1>1, <1>2, PTL DEF Spec

(***************************************************************************)
(* What the reader and the fillers assert of tiles holds: the center tile  *)
(* is there when the tiles slide, what is pushed out is in use, the tile   *)
(* to be activated is free, and none is released while it is being filled. *)
(***************************************************************************)
THEOREM AssertionsHold ==
    ASSUME "empty" \notin Outcomes PROVE Spec => []NoFailedAssertions
<1>1. TiledInv => NoFailedAssertions
  BY DEF TiledInv, NoFailedAssertions
<1> QED
  BY <1>1, TilesManaged, PTL

LEMMA HandledOnce ==
    ASSUME TileTypes, PoolInv, NEW l \in Lists, NEW s \in Slots
    PROVE  Handled(l, s) = IF hot[l][s].state = "FILLING" THEN 1 ELSE 0
<1> DEFINE e == <<l, s>>
           Q == {i \in DOMAIN queue : queue[i] = e}
           F == {f \in Fillers : filling[f] = e}
<1>1. Handled(l, s) = Cardinality(Q) + Cardinality(F)
  BY DEF Handled
<1>2. Queued(l, s) <=> Q # {}
  BY DEF Queued, ToSet
<1>3. Locked(l, s) <=> F # {}
  BY DEF Locked
<1>4. e # None
  BY TilesArePairs
<1> HIDE DEF e
<1>5. Q # {} => Cardinality(Q) = 1
  <2> SUFFICES ASSUME Q # {} PROVE Cardinality(Q) = 1
    OBVIOUS
  <2>1. PICK i \in DOMAIN queue : queue[i] = e
    OBVIOUS
  <2>2. Q = {i}
    BY <2>1 DEF PoolInv, IsInjective
  <2> HIDE DEF Q
  <2> QED
    BY <2>2, FS_Singleton
<1>6. F # {} => Cardinality(F) = 1
  <2> SUFFICES ASSUME F # {} PROVE Cardinality(F) = 1
    OBVIOUS
  <2>1. PICK f \in Fillers : filling[f] = e
    OBVIOUS
  <2>2. F = {f}
    BY <1>4, <2>1 DEF PoolInv
  <2> HIDE DEF F
  <2> QED
    BY <2>2, FS_Singleton
<1>7. ~(Queued(l, s) /\ Locked(l, s))
  BY DEF PoolInv, Queued, Locked
<1>8. hot[l][s].state = "FILLING" <=> Queued(l, s) \/ Locked(l, s)
  BY DEF PoolInv
<1>9. Cardinality({}) = 0
  BY FS_EmptySet
<1> HIDE DEF Q, F
<1> QED
  BY <1>1, <1>2, <1>3, <1>5, <1>6, <1>7, <1>8, <1>9

(***************************************************************************)
(* A tile that is being filled is in the queue or in the hands of a filler *)
(* and in one of them only, once.  No other tile is.                       *)
(***************************************************************************)
THEOREM TilesAreDecided ==
    ASSUME "empty" \notin Outcomes PROVE Spec => []TilesDecided
<1>1. TiledInv => TilesDecided
  BY HandledOnce DEF TiledInv, TilesDecided
<1> QED
  BY <1>1, TilesManaged, PTL
-----------------------------------------------------------------------------
LEMMA AtOneLocation ==
    ASSUME NEW l \in Lists, Settled(l), NEW s \in Slots
    PROVE  Cardinality({w \in Locations : active[l][w] = s})
              = IF hot[l][s].state = "FREE" THEN 0 ELSE 1
<1> DEFINE W == {w \in Locations : active[l][w] = s}
<1>1. s # NIL
  OBVIOUS
<1>2. hot[l][s].state = "FREE" <=> W = {}
  BY <1>1 DEF Settled, Empty, OnlyActive
<1>3. CASE W = {}
  <2> HIDE DEF W
  <2>1. Cardinality(W) = 0
    BY <1>3, FS_EmptySet
  <2> QED
    BY <1>2, <1>3, <2>1 DEF W
<1>4. CASE W # {}
  <2>1. PICK w \in Locations : active[l][w] = s
    BY <1>4
  <2>2. Complete(l)
    BY <1>1, <2>1 DEF Settled, Empty
  <2>3. \A v \in Locations : active[l][v] = s => v = w
    BY <1>1, <2>1, <2>2 DEF Complete
  <2>4. W = {w}
    BY <2>1, <2>3
  <2> HIDE DEF W
  <2>5. Cardinality(W) = 1
    BY <2>4, FS_Singleton
  <2> QED
    BY <1>2, <1>4, <2>5 DEF W
<1> QED
  BY <1>3, <1>4

(***************************************************************************)
(* slide(), fill() and clear() keep account of the tiles: between requests *)
(* a tile is in use iff it is at exactly one location of the window.       *)
(***************************************************************************)
THEOREM NoTileIsLost ==
    ASSUME "empty" \notin Outcomes PROVE Spec => []EachTileOnce
<1>1. TiledInv => EachTileOnce
  <2> SUFFICES ASSUME TiledInv, pc = "idle", NEW l \in Lists, NEW s \in Slots
               PROVE  Cardinality({w \in Locations : active[l][w] = s})
                         = IF hot[l][s].state = "FREE" THEN 0 ELSE 1
    BY DEF EachTileOnce
  <2>1. Settled(l)
    BY DEF TiledInv, WindowInv, AtWork
  <2> QED
    BY <2>1, AtOneLocation
<1> QED
  BY <1>1, TilesManaged, PTL
-----------------------------------------------------------------------------
(* Who may change a tile *)

LEMMA HeldIsFilling ==
    ASSUME TileTypes, PoolInv, NEW f \in Fillers, filling[f] # None
    PROVE  /\ filling[f][1] \in Lists /\ filling[f][2] \in Slots
           /\ filling[f] = <<filling[f][1], filling[f][2]>>
           /\ filling[f] \notin ToSet(queue)
           /\ Locked(filling[f][1], filling[f][2])
           /\ hot[filling[f][1]][filling[f][2]].state = "FILLING"
<1>1. filling[f] \in Tiles
  BY DEF TileTypes
<1>2. /\ filling[f][1] \in Lists /\ filling[f][2] \in Slots
      /\ filling[f] = <<filling[f][1], filling[f][2]>>
  BY <1>1, TilesArePairs
<1>3. Locked(filling[f][1], filling[f][2])
  BY <1>2 DEF Locked
<1> QED
  BY <1>2, <1>3 DEF PoolInv

(* A step of the reader is harmless if it keeps the tiles being filled that *)
(* are not in the queue.                                                    *)
LEMMA HeldStaysIf ==
    ASSUME TileTypes, PoolInv, filling' = filling,
           \A l \in Lists, s \in Slots :
              hot[l][s].state = "FILLING" /\ Locked(l, s) => hot'[l][s] = hot[l][s]
    PROVE  HeldStays /\ ReadyStays
<1>1. HeldStays
  BY HeldIsFilling DEF HeldStays
<1>2. ReadyStays
  BY DEF ReadyStays
<1> QED
  BY <1>1, <1>2

LEMMA GiveUpKeeps ==
    ASSUME TiledInv, walk.slot # MaxTiles, ~Locked(req.list, walk.slot), GiveUpTile,
           filling' = filling
    PROVE  HeldStays /\ ReadyStays
<1> DEFINE l == req.list
           s == walk.slot
<1>1. l \in Lists /\ s \in Slots /\ hot' = [hot EXCEPT ![l][s] = FreeTile] /\ ~Locked(l, s)
  BY DEF TiledInv, ReaderTypes, GiveUpTile
<1> HIDE DEF l, s
<1>2. \A k \in Lists, t \in Slots : <<k, t>> # <<l, s>> => hot'[k][t] = hot[k][t]
  BY <1>1, SetTile, TileForms DEF TiledInv, TileTypes
<1>3. ASSUME NEW k \in Lists, NEW t \in Slots, Locked(k, t) PROVE hot'[k][t] = hot[k][t]
  <2>1. <<k, t>> # <<l, s>>
    BY <1>1, <1>3
  <2> QED
    BY <1>2, <2>1
<1> QED
  BY <1>3, HeldStaysIf DEF TiledInv

LEMMA StepKeeps ==
    ASSUME TiledInv, Next
    PROVE  HeldStays /\ ReadyStays
<1>1. CASE UNCHANGED <<hot, filling>>
  BY <1>1 DEF HeldStays, ReadyStays
<1>2. CASE CancelAllQueued /\ filling' = filling
  <2>1. Range(queue) = ToSet(queue)
    BY DEF Range, ToSet
  <2>2. ASSUME NEW l \in Lists, NEW s \in Slots, Locked(l, s) PROVE hot'[l][s] = hot[l][s]
    <3>1. <<l, s>> \notin Range(queue)
      BY <2>1, <2>2 DEF TiledInv, PoolInv, Locked
    <3> HIDE DEF Slots
    <3> QED
      BY <1>2, <3>1 DEF CancelAllQueued
  <2> QED
    BY <1>2, <2>2, HeldStaysIf DEF TiledInv
<1>3. CASE CancelFiller
  <2>1. walk.slot # MaxTiles /\ filling' = filling
    BY <1>3 DEF CancelFiller, TiledInv, ReaderTypes
  <2> QED
    BY <1>1, <1>3, <2>1, GiveUpKeeps DEF CancelFiller
<1>4. CASE AwaitFiller
  BY <1>4, GiveUpKeeps DEF AwaitFiller, TiledInv, WalkInv
<1>5. CASE Refill
  <2> DEFINE L == req.list
             x == ActivateTile(Adjacent)
             y == ActivateTile(Center)
  <2>1. /\ pc = "refill" /\ L \in Lists /\ filling' = filling
        /\ hot' = [hot EXCEPT ![L] =
                     [t \in Slots |-> CASE t = walk.slot -> x
                                       [] t = NewCenter /\ t # walk.slot -> y
                                       [] OTHER -> hot[L][t]]]
    BY <1>5 DEF Refill, TiledInv, ReaderTypes
  <2>2. Sliding(L)
    BY <2>1 DEF TiledInv, WindowInv, WalkInv, AtWork
  <2>3. NewCenter = MaxTiles
    BY <2>2 DEF Sliding, Complete, NewCenter
  <2>4. ASSUME NEW l \in Lists, NEW s \in Slots, hot[l][s].state = "FILLING"
        PROVE  hot'[l][s] = hot[l][s]
    <3>1. CASE l # L
      BY <2>1, <2>4, <3>1 DEF TiledInv, TileTypes
    <3>2. CASE l = L
      <4>1. s # walk.slot /\ s # NewCenter
        BY <2>1, <2>2, <2>3, <2>4, <3>2 DEF Sliding, OnlyActive
      <4>2. hot'[L][s] = CASE s = walk.slot -> x
                           [] s = NewCenter /\ s # walk.slot -> y
                           [] OTHER -> hot[L][s]
        <5> HIDE DEF x, y, L, Slots
        <5>1. hot \in [Lists -> [Slots -> HotTile]]
          BY DEF TiledInv, TileTypes
        <5> QED
          BY <2>1, <5>1
      <4> QED
        BY <3>2, <4>1, <4>2
    <3> QED
      BY <3>1, <3>2
  <2> QED
    BY <2>1, <2>4, HeldStaysIf DEF TiledInv
<1>6. CASE FillTiles
  <2> DEFINE L == req.list
             b == BaseOf(walk.center)
  <2>1. /\ pc = "clear" /\ walk.slot = MaxTiles /\ walk.job = "fill" /\ L \in Lists
        /\ filling' = filling /\ hot' = [hot EXCEPT ![L] = Filled(b, size[L])]
    BY <1>6 DEF FillTiles, TiledInv, ReaderTypes
  <2>2. \A s \in Slots : hot[L][s].state = "FREE"
    BY <2>1 DEF TiledInv, WindowInv, AtWork, Clearing
  <2>3. \A l \in Lists : l # L => hot'[l] = hot[l]
    BY <2>1 DEF TiledInv, TileTypes
  <2>4. \A l \in Lists, s \in Slots : hot[l][s].state = "FILLING" => hot'[l][s] = hot[l][s]
    BY <2>2, <2>3
  <2> QED
    BY <2>1, <2>4, HeldStaysIf DEF TiledInv
<1>7. ASSUME NEW g \in Fillers, NEW outcome \in Outcomes, Fill(g, outcome)
      PROVE  HeldStays /\ ReadyStays
  <2> DEFINE l == filling[g][1]
             s == filling[g][2]
             x == Processed(hot[l][s], size[l], outcome)
  <2>1. /\ filling[g] # None /\ hot' = [hot EXCEPT ![l][s] = x]
        /\ filling' = [filling EXCEPT ![g] = None]
        /\ hot \in [Lists -> [Slots -> HotTile]] /\ filling \in [Fillers -> Tiles \cup {None}]
    BY <1>7 DEF Fill, TiledInv, TileTypes
  <2>2. l \in Lists /\ s \in Slots /\ filling[g] = <<l, s>> /\ hot[l][s].state = "FILLING"
    BY <2>1, HeldIsFilling DEF TiledInv
  <2> HIDE DEF l, s, x
  <2>3. \A k \in Lists, t \in Slots : <<k, t>> # <<l, s>> => hot'[k][t] = hot[k][t]
    <3> HIDE DEF Slots
    <3> QED
      BY <2>1, <2>2
  <2>4. ReadyStays
    <3> SUFFICES ASSUME NEW k \in Lists, NEW t \in Slots, hot[k][t].state = "READY"
                 PROVE  hot'[k][t] = hot[k][t]
      BY DEF ReadyStays
    <3>1. <<k, t>> # <<l, s>>
      BY <2>2
    <3> QED
      BY <2>3, <3>1
  <2>5. HeldStays
    <3> SUFFICES ASSUME NEW f \in Fillers, filling[f] # None, filling'[f] = filling[f]
                 PROVE  hot'[filling[f][1]][filling[f][2]] = hot[filling[f][1]][filling[f][2]]
      BY DEF HeldStays
    <3>1. f # g
      BY <2>1
    <3>2. filling[f] # <<l, s>>
      BY <2>1, <2>2, <3>1 DEF TiledInv, PoolInv
    <3>3. /\ filling[f][1] \in Lists /\ filling[f][2] \in Slots
          /\ filling[f] = <<filling[f][1], filling[f][2]>>
      BY HeldIsFilling DEF TiledInv
    <3> QED
      BY <2>3, <3>2, <3>3
  <2> QED
    BY <2>4, <2>5
<1>8. ASSUME NEW g \in Fillers, Take(g) PROVE HeldStays /\ ReadyStays
  BY <1>8 DEF Take, HeldStays, ReadyStays
<1>9. CASE Client
  <2>1. \/ \E l \in Lists : Leave(l)
        \/ UNCHANGED <<hot, filling>>
    BY <1>9 DEF Client, AskItem, AskRange, tiles
  <2> QED
    BY <1>1, <1>2, <2>1 DEF Leave
<1>10. CASE Reader
  <2>1. \/ CancelFiller \/ AwaitFiller \/ Refill \/ FillTiles
        \/ CancelAllQueued /\ filling' = filling
        \/ UNCHANGED <<hot, filling>>
    BY <1>10 DEF Reader, TooManyTiles, AlreadyCached, StartSliding, StartFilling, Slide, Left,
                 ReadCenter, ReadCenterFails, Begin, Skip, Found, AtEnd, ReadItem, tiles
  <2> QED
    BY <1>1, <1>2, <1>3, <1>4, <1>5, <1>6, <2>1
<1>11. CASE \E f \in Fillers : Filler(f)
  BY <1>7, <1>8, <1>11 DEF Filler
<1> QED
  BY <1>9, <1>10, <1>11 DEF Next

(***************************************************************************)
(* No step of the reader changes a tile that a filler holds locked, and no *)
(* filler changes a tile that is ready: the locking in cancel_filler() and *)
(* worker() keeps them apart.                                              *)
(***************************************************************************)
THEOREM NotShared ==
    ASSUME "empty" \notin Outcomes PROVE Spec => TilesNotShared
<1>1. TiledInv /\ [Next]_vars => [HeldStays /\ ReadyStays]_vars
  BY StepKeeps
<1> QED
  BY <1>1, TilesManaged, PTL DEF Spec, TilesNotShared
=============================================================================
