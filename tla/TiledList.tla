----------------------------- MODULE TiledList ------------------------------
(***************************************************************************)
(* Tiled lists (TiledList in src/common/lists.hh, ListTile_, ListTiles_    *)
(* and ListThreads in src/common/lists_base.hh).  A list keeps three tiles *)
(* in memory: a center tile and its neighbors.  One thread reads, the      *)
(* reader; it decides which tiles are needed and queues them.  A pool of   *)
(* filler threads, shared by all lists, takes tiles from the queue, locks  *)
(* them and fills them from the server.                                    *)
(*                                                                         *)
(* A step of the reader begins where it waits for a filler, or where it    *)
(* looks at what fillers write.  The content of a tile is the range of     *)
(* items it holds, so that reading tells which item is read.               *)
(***************************************************************************)
EXTENDS TileWindow, Sequences, SequencesExt, FiniteSetsExt, Functions

CONSTANTS Lists,       \* the tiled lists
          Fillers,     \* the threads of the pool
          Sizes,       \* Sizes[l] is how many items list l may have
          Spans,       \* how many tiles the range of a request may span
          Outcomes     \* what may become of filling a tile

ASSUME TiledListAssumption ==
    /\ Sizes \in [Lists -> SUBSET (Nat \ {0})]
    /\ Spans \subseteq Nat
    /\ Outcomes \subseteq {"full",    \* all items of the tile
                           "short",   \* the server has fewer, or one is broken
                           "empty",   \* the server has none
                           "error"}   \* it cannot be asked

(***************************************************************************)
(* hot[l][s] is hot_tiles_[s] of list l and active[l][w] the index of      *)
(* active_tiles_[w], NIL for a null pointer.  filling[f] is the tile that  *)
(* filler f holds locked.  The reader's request is req, its work on the    *)
(* tiles is walk and its const_iterator is it.  out tells whether the item *)
(* handed to the caller last is the one with the ID it is handed over for, *)
(* and how the request ended.                                              *)
(***************************************************************************)
VARIABLES size, hot, active, queue, filling, pc, req, walk, it, out, bugs

vars == <<size, hot, active, queue, filling, pc, req, walk, it, out, bugs>>
tiles == <<size, hot, active, queue, filling>>

Tiles == Lists \X Slots
None == <<>>

FreeTile == [base |-> 0, state |-> "FREE", stored |-> 0]
ErrorTile(state) == [FreeTile EXCEPT !.state = state]
ActivateTile(i) == [base |-> BaseOf(i), state |-> "FILLING", stored |-> 0]

NoWalk == [job |-> "none", slot |-> 0, direction |-> NIL, steps |-> 0, center |-> 0]
NoIter == [which |-> NIL, last |-> NIL, idx |-> 0, begin |-> FALSE]
NoOut == [end |-> "none", right |-> TRUE]

TypeOK ==
    /\ \A l \in Lists : size[l] \in Sizes[l]
    /\ \A l \in Lists, s \in Slots :
         /\ hot[l][s].base \in Nat /\ hot[l][s].stored \in 0..TileSize
         /\ hot[l][s].state \in {"FREE", "FILLING", "READY", "CANCELED", "ERROR"}
    /\ active \in [Lists -> [Locations -> Slots \cup {NIL}]]
    /\ queue \in Seq(Tiles)
    /\ filling \in [Fillers -> Tiles \cup {None}]
    /\ pc \in {"idle", "prefetch", "slide", "clear", "await", "refill", "begin", "seek", "item", "center"}
    /\ req \in [list : Lists, next : Nat, end : Nat, single : BOOLEAN]
    /\ walk.job \in {"none", "slide", "fill", "leave"} /\ walk.slot \in 0..MaxTiles
    /\ {it.which, it.last} \subseteq Locations \cup {NIL}
    /\ it.idx \in 0..TileSize
    /\ out \in [end : {"none", "done", "failed"}, right : BOOLEAN]

Init ==
    /\ size \in {f \in [Lists -> UNION Range(Sizes)] : \A l \in Lists : f[l] \in Sizes[l]}
    /\ hot = [l \in Lists |-> [s \in Slots |-> FreeTile]]
    /\ active = [l \in Lists |-> [w \in Locations |-> NIL]]
    /\ queue = <<>>
    /\ filling = [f \in Fillers |-> None]
    /\ pc = "idle"
    /\ req \in [list : Lists, next : {0}, end : {0}, single : {FALSE}]
    /\ walk = NoWalk /\ it = NoIter /\ out = NoOut
    /\ bugs = {}

-----------------------------------------------------------------------------
Locked(l, s) == \E f \in Fillers : filling[f] = <<l, s>>

\* contains(): the first tile that claims to be the one for item i
Holding(l, i) ==
    {w \in Locations : active[l][w] # NIL /\ IsTileFor(hot[l][active[l][w]].base, i)}

ContainsItem(l, i) == IF Holding(l, i) = {} THEN NIL ELSE Min(Holding(l, i))

\* a failed msg_log_assert() or a null pointer followed
Bug(what, condition) == bugs' = IF condition THEN bugs ELSE bugs \cup {what}

\* The request is answered; the reader's variables are cleared.
Idle ==
    /\ pc' = "idle"
    /\ req' = [req EXCEPT !.next = 0, !.end = 0, !.single = FALSE]
    /\ it' = NoIter /\ walk' = NoWalk

Finish(end) == Idle /\ out' = [out EXCEPT !.end = end]

-----------------------------------------------------------------------------
(* The reader: requests.                                                   *)

\* for_each_item() on a range, with the clipping of its end done
AskRange(l, first, end) ==
    /\ pc = "idle"
    /\ SpannedTiles(first, end - first) \in Spans
    /\ req' = [list |-> l, next |-> first, end |-> end, single |-> FALSE]
    /\ pc' = "prefetch" /\ out' = NoOut
    /\ UNCHANGED <<tiles, walk, it, bugs>>

\* operator[] on one item
AskItem(l, i) ==
    /\ pc = "idle"
    /\ req' = [list |-> l, next |-> i, end |-> i + 1, single |-> TRUE]
    /\ pc' = "prefetch" /\ out' = NoOut
    /\ UNCHANGED <<tiles, walk, it, bugs>>

\* The list is discarded: ~ListTiles_() calls clear(), which cancels all
\* that is queued, for whichever list.  A new list takes its place.
CancelAllQueued ==
    /\ hot' = [l \in Lists |-> [s \in Slots |->
                 IF <<l, s>> \in Range(queue) THEN ErrorTile("CANCELED") ELSE hot[l][s]]]
    /\ queue' = <<>>

Leave(l) ==
    /\ pc = "idle"
    /\ CancelAllQueued
    /\ req' = [req EXCEPT !.list = l]
    /\ walk' = [NoWalk EXCEPT !.job = "leave"]
    /\ pc' = "clear" /\ out' = NoOut
    /\ UNCHANGED <<size, active, filling, it, bugs>>

-----------------------------------------------------------------------------
(* The reader: ListTiles_::prefetch().                                     *)

PrefetchCount == IF req.single THEN 1 ELSE req.end - req.next

Spanned == SpannedTiles(req.next, PrefetchCount)

Overlap ==
    AutoSlide(req.single,
              CheckOverlap(ContainsItem(req.list, req.next),
                           ContainsItem(req.list, req.next + PrefetchCount - 1), Spanned))

Loaded == IF req.single THEN "center" ELSE "begin"

\* The range does not fit; for_each_item() goes on with operator[].
TooManyTiles ==
    /\ pc = "prefetch" /\ Spanned > MaxTiles
    /\ req' = [req EXCEPT !.single = TRUE]
    /\ UNCHANGED <<tiles, pc, walk, it, out, bugs>>

AlreadyCached ==
    /\ pc = "prefetch" /\ Spanned <= MaxTiles
    /\ Overlap.slides = 0
    /\ pc' = Loaded
    /\ UNCHANGED <<tiles, req, walk, it, out, bugs>>

StartSliding ==
    /\ pc = "prefetch" /\ Spanned <= MaxTiles
    /\ Overlap.slides > 0 /\ Overlap.direction \in {UP, DOWN}
    /\ walk' = [job |-> "slide", slot |-> 0, direction |-> Overlap.direction,
                steps |-> Overlap.slides, center |-> CenterIndex(req.single, Overlap, req.next)]
    /\ pc' = "slide"
    /\ UNCHANGED <<tiles, req, it, out, bugs>>

\* fill() begins with clear().
StartFilling ==
    /\ pc = "prefetch" /\ Spanned <= MaxTiles
    /\ Overlap.direction = NIL
    /\ CancelAllQueued
    /\ walk' = [NoWalk EXCEPT !.job = "fill", !.center = CenterIndex(req.single, Overlap, req.next)]
    /\ pc' = "clear"
    /\ UNCHANGED <<size, active, filling, req, it, out, bugs>>

(***************************************************************************)
(* slide(), one step of it: the tiles move by one location.  The tile that *)
(* is pushed out comes in on the other side, and must be given up for that *)
(* unless it already holds what belongs there.                             *)
(***************************************************************************)
Moved(act, keep) ==
    [w \in Locations |-> CASE w = keep   -> act[Opposite(keep)]
                           [] w = CENTER -> act[keep]
                           [] OTHER      -> act[CENTER]]

Center == SlideCenter(walk.direction, walk.center, walk.steps)

Adjacent == IndexInAdjacentTile(Center, size[req.list], walk.direction)

StepDone ==
    IF walk.steps = 1
    THEN pc' = Loaded /\ walk' = NoWalk
    ELSE pc' = "slide" /\ walk' = [walk EXCEPT !.steps = @ - 1]

Slide ==
    /\ pc = "slide"
    /\ active' = [active EXCEPT ![req.list] = Moved(@, walk.direction)]
    /\ Bug("bad slide", /\ active[req.list][CENTER] # NIL
                        /\ \A s \in Slots \cap {active[req.list][Opposite(walk.direction)]} :
                             IF IsTileFor(hot[req.list][s].base, Adjacent)
                             THEN active[req.list][walk.direction] # NIL
                             ELSE hot[req.list][s].state # "FREE")
    /\ LET pushed == active[req.list][Opposite(walk.direction)]
       IN \/ /\ pushed = NIL
             /\ pc' = "refill" /\ walk' = [walk EXCEPT !.slot = MaxTiles]
          \/ /\ pushed # NIL /\ IsTileFor(hot[req.list][pushed].base, Adjacent)
             /\ StepDone
          \/ /\ pushed # NIL /\ ~IsTileFor(hot[req.list][pushed].base, Adjacent)
             /\ pc' = "clear" /\ walk' = [walk EXCEPT !.slot = pushed]
    /\ UNCHANGED <<size, hot, queue, filling, req, it, out>>

(* Mutant: the tile stays in the queue. *)
GiveUpTile_Queued ==
    /\ hot' = [hot EXCEPT ![req.list][walk.slot] = FreeTile]
    /\ IF walk.job = "slide"
       THEN pc' = "refill" /\ UNCHANGED <<queue, walk>>
       ELSE pc' = "clear" /\ walk' = [walk EXCEPT !.slot = @ + 1] /\ UNCHANGED queue

(***************************************************************************)
(* cancel_filler() and reset() for the tile walk.slot: taken out of the    *)
(* queue, or waited for if a filler has locked it.  That a filler is told  *)
(* to stop makes no difference: the UPnP filler does not ask.              *)
(***************************************************************************)
GiveUpTile ==
    /\ hot' = [hot EXCEPT ![req.list][walk.slot] = FreeTile]
    /\ queue' = RemoveFirst(queue, <<req.list, walk.slot>>)
    /\ IF walk.job = "slide"
       THEN pc' = "refill" /\ UNCHANGED walk
       ELSE pc' = "clear" /\ walk' = [walk EXCEPT !.slot = @ + 1]

CancelFiller ==
    /\ pc = "clear" /\ walk.slot < MaxTiles
    /\ \/ Locked(req.list, walk.slot) /\ pc' = "await" /\ UNCHANGED <<hot, queue, walk>>
       \/ ~Locked(req.list, walk.slot) /\ GiveUpTile
    /\ UNCHANGED <<size, active, filling, req, it, out, bugs>>

(* Mutant: the tile is taken away from the filler that works on it. *)
AwaitFiller_Stolen ==
    /\ pc = "await"
    /\ Bug("released while filling", hot[req.list][walk.slot].state # "FILLING")
    /\ GiveUpTile
    /\ UNCHANGED <<size, active, filling, req, it, out>>

AwaitFiller ==
    /\ pc = "await" /\ ~Locked(req.list, walk.slot)
    /\ Bug("released while filling", hot[req.list][walk.slot].state # "FILLING")
    /\ GiveUpTile
    /\ UNCHANGED <<size, active, filling, req, it, out>>

(***************************************************************************)
(* The second half of slide(): activate and enqueue what is missing.       *)
(***************************************************************************)
FreeSlots(l) == {s \in Slots : hot[l][s].state = "FREE" /\ ~Locked(l, s)}

\* find_free_tile(), if the center tile is missing
NewCenter == IF active[req.list][CENTER] # NIL \/ FreeSlots(req.list) = {}
             THEN MaxTiles ELSE Min(FreeSlots(req.list))

Enqueued(slot) == IF slot = MaxTiles THEN <<>> ELSE << <<req.list, slot>> >>

Refill ==
    /\ pc = "refill"
    /\ Bug("tile not free", /\ active[req.list][CENTER] # NIL \/ NewCenter # MaxTiles
                            /\ NewCenter = MaxTiles \/ NewCenter # walk.slot)
    /\ hot' = [hot EXCEPT ![req.list] =
                 [s \in Slots |-> CASE s = walk.slot -> ActivateTile(Adjacent)
                                   [] s = NewCenter /\ s # walk.slot -> ActivateTile(Center)
                                   [] OTHER -> @[s]]]
    /\ active' = IF NewCenter = MaxTiles THEN active
                 ELSE [active EXCEPT ![req.list][CENTER] = NewCenter]
    /\ queue' = queue \o Enqueued(NewCenter) \o Enqueued(walk.slot)
    /\ StepDone
    /\ UNCHANGED <<size, filling, req, it, out>>

(***************************************************************************)
(* The end of clear(): no tile is active.  fill() goes on with the center  *)
(* tile and its neighbors, as far as the list is long enough.              *)
(***************************************************************************)
DownIndex(base, total) == IF base < total - TileSize THEN base + TileSize ELSE 0

(* Mutant: no wraparound at the beginning of the list. *)
UpIndex_NoRing(base, total) == IF base > 0 THEN base - TileSize ELSE 0

UpIndex(base, total) == IF base > 0 THEN base - TileSize ELSE total - 1

Filled(base, total) ==
    [s \in Slots |->
       CASE s = 0 -> ActivateTile(base)
         [] s = 1 -> IF total > TileSize THEN ActivateTile(DownIndex(base, total)) ELSE FreeTile
         [] s = 2 -> IF total > 2 * TileSize THEN ActivateTile(UpIndex(base, total)) ELSE FreeTile]

FilledSlots(total) == 0..(IF total <= TileSize THEN 0 ELSE IF total <= 2 * TileSize THEN 1 ELSE 2)

\* hot_tiles_[0] becomes the center tile, [1] the down tile and [2] the up tile
FilledWindow(total) ==
    [w \in Locations |-> CASE w = CENTER -> 0
                           [] w = DOWN -> IF 1 \in FilledSlots(total) THEN 1 ELSE NIL
                           [] w = UP -> IF 2 \in FilledSlots(total) THEN 2 ELSE NIL]

FillTiles ==
    /\ pc = "clear" /\ walk.slot = MaxTiles /\ walk.job = "fill"
    /\ hot' = [hot EXCEPT ![req.list] = Filled(BaseOf(walk.center), size[req.list])]
    /\ active' = [active EXCEPT ![req.list] = FilledWindow(size[req.list])]
    /\ queue' = queue \o [i \in 1..Cardinality(FilledSlots(size[req.list])) |-> <<req.list, i - 1>>]
    /\ pc' = Loaded /\ walk' = NoWalk
    /\ UNCHANGED <<size, filling, req, it, out, bugs>>

(* Mutant: the window is not cleared. *)
Left_Window ==
    /\ pc = "clear" /\ walk.slot = MaxTiles /\ walk.job = "leave"
    /\ \E n \in Sizes[req.list] : size' = [size EXCEPT ![req.list] = n]
    /\ Finish("done")
    /\ UNCHANGED <<hot, active, queue, filling, bugs>>

Left ==
    /\ pc = "clear" /\ walk.slot = MaxTiles /\ walk.job = "leave"
    /\ active' = [active EXCEPT ![req.list] = [w \in Locations |-> NIL]]
    /\ \E n \in Sizes[req.list] : size' = [size EXCEPT ![req.list] = n]
    /\ Finish("done")
    /\ UNCHANGED <<hot, queue, filling, bugs>>

-----------------------------------------------------------------------------
(* The reader: reading items.                                              *)

\* what is at this place of a tile: an item, or whatever is in the memory
ItemAt(tile, idx) ==
    IF tile.state = "READY" /\ idx \in 0..tile.stored - 1 THEN tile.base + idx ELSE NIL

\* The caller gets an item for the ID req.next.
HandOver(item, end) == out' = [end |-> end, right |-> item = req.next]

(***************************************************************************)
(* get_list_item_unsafe(): operator[] reads from the center tile, wherever *)
(* the item is, and for_each_item() goes on with the next one.  Without a  *)
(* center tile the code would follow a null pointer; here the reader would *)
(* be stuck.                                                               *)
(***************************************************************************)
CenterTile == hot[req.list][active[req.list][CENTER]]

ReadCenter ==
    /\ pc = "center" /\ active[req.list][CENTER] # NIL
    /\ CenterTile.state = "READY"
    /\ IF req.next + 1 = req.end
       THEN HandOver(ItemAt(CenterTile, req.next - CenterTile.base), "done") /\ Idle
       ELSE /\ HandOver(ItemAt(CenterTile, req.next - CenterTile.base), "none")
            /\ pc' = "prefetch" /\ req' = [req EXCEPT !.next = @ + 1]
            /\ UNCHANGED <<it, walk>>
    /\ UNCHANGED <<tiles, bugs>>

ReadCenterFails ==
    /\ pc = "center" /\ active[req.list][CENTER] # NIL
    /\ CenterTile.state \notin {"FILLING", "READY"}
    /\ Finish("failed")
    /\ UNCHANGED <<tiles, bugs>>

(* Mutant: the iterator does not remember where it began. *)
NextTile_Endless(i) ==
    [i EXCEPT !.idx = 0, !.which = IF i.which = NIL THEN NIL ELSE NextLocation(i.which)]

(***************************************************************************)
(* The iterator, which for_each_item() uses for a range that is in memory. *)
(***************************************************************************)
NextTile(i) ==
    [i EXCEPT !.idx = 0, !.which = IF i.which \in {NIL, i.last} THEN NIL ELSE NextLocation(i.which)]

\* step()
Stepped(i, tile) == IF i.idx + 1 < tile.stored THEN [i EXCEPT !.idx = @ + 1] ELSE NextTile(i)

Begin ==
    /\ pc = "begin"
    /\ LET which == ContainsItem(req.list, req.next)
       IN it' = [which |-> which, last |-> LastLocation(which), idx |-> 0, begin |-> TRUE]
    /\ pc' = "seek"
    /\ UNCHANGED <<tiles, req, walk, out, bugs>>

IterTile == hot[req.list][active[req.list][it.which]]

\* find_first() passes over what is not there or has failed,
Skip ==
    /\ pc = "seek" /\ it.which # NIL
    /\ \/ active[req.list][it.which] = NIL
       \/ /\ active[req.list][it.which] # NIL
          /\ \/ IterTile.state \notin {"FILLING", "READY"}
             \/ IterTile.state = "READY" /\ it.idx >= IterTile.stored
    /\ it' = NextTile(it)
    /\ UNCHANGED <<tiles, pc, req, walk, out, bugs>>

\* and stops at a tile that is filled.  The constructor sets the index then.
\* The iterator is moved on before the last item is handed over.
Found ==
    /\ pc = "seek" /\ it.which # NIL
    /\ active[req.list][it.which] # NIL
    /\ IterTile.state = "READY" /\ it.idx < IterTile.stored
    /\ IF req.next = req.end
       THEN Finish("done")
       ELSE /\ pc' = "item"
            /\ it' = [it EXCEPT !.begin = FALSE, !.idx = IF it.begin THEN req.next % TileSize ELSE @]
            /\ UNCHANGED <<req, walk, out>>
    /\ UNCHANGED <<tiles, bugs>>

\* At the end there is nothing to dereference.
AtEnd ==
    /\ pc = "seek" /\ it.which = NIL
    /\ Finish(IF req.next = req.end THEN "done" ELSE "failed")
    /\ UNCHANGED <<tiles, bugs>>

\* get_next_cached_element()
ReadItem ==
    /\ pc = "item"
    /\ HandOver(ItemAt(IterTile, it.idx), "none")
    /\ it' = Stepped(it, IterTile)
    /\ req' = [req EXCEPT !.next = @ + 1]
    /\ pc' = "seek"
    /\ UNCHANGED <<tiles, walk, bugs>>

-----------------------------------------------------------------------------
(* The filler threads: ListThreads::worker() and do_fill_tile().           *)

\* The tile is locked before the queue is unlocked.
Take(f) ==
    /\ filling[f] = None /\ queue # <<>>
    /\ ~Locked(Head(queue)[1], Head(queue)[2])
    /\ filling' = [filling EXCEPT ![f] = Head(queue)]
    /\ queue' = Tail(queue)
    /\ UNCHANGED <<size, hot, active, pc, req, walk, it, out, bugs>>

\* what the filler makes of a tile of a list with so many items
Processed(tile, total, outcome) ==
    CASE outcome = "full"  -> [tile EXCEPT !.state = "READY", !.stored = Min({TileSize, total - tile.base})]
      [] outcome = "short" -> [tile EXCEPT !.state = "READY", !.stored = 1]
      [] outcome = "empty" -> tile
      [] outcome = "error" -> ErrorTile("ERROR")

Fill(f, outcome) ==
    /\ filling[f] # None
    /\ LET l == filling[f][1]
           s == filling[f][2]
       IN hot' = [hot EXCEPT ![l][s] = Processed(@, size[l], outcome)]
    /\ filling' = [filling EXCEPT ![f] = None]
    /\ UNCHANGED <<size, active, queue, pc, req, walk, it, out, bugs>>

-----------------------------------------------------------------------------
Client == \E l \in Lists : \/ Leave(l)
                           \/ \E i \in 0..size[l] - 1 : AskItem(l, i)
                           \/ \E i \in 0..size[l] - 1 : \E j \in i + 1..size[l] : AskRange(l, i, j)

Reader ==
    \/ TooManyTiles \/ AlreadyCached \/ StartSliding \/ StartFilling
    \/ Slide \/ CancelFiller \/ AwaitFiller \/ Refill \/ FillTiles \/ Left
    \/ ReadCenter \/ ReadCenterFails
    \/ Begin \/ Skip \/ Found \/ AtEnd \/ ReadItem

Filler(f) == Take(f) \/ \E o \in Outcomes : Fill(f, o)

Next == Client \/ Reader \/ \E f \in Fillers : Filler(f)

(***************************************************************************)
(* The threads are scheduled by the kernel; the call by which a filler     *)
(* asks the server returns at the latest when D-Bus gives up.              *)
(***************************************************************************)
Fairness == WF_vars(Reader) /\ \A f \in Fillers : WF_vars(Filler(f))

Spec == Init /\ [][Next]_vars /\ Fairness

-----------------------------------------------------------------------------
(***************************************************************************)
(* for_each_item() calls back with each item for its own ID, and           *)
(* operator[] returns the item it was asked for.  A read does not fail as  *)
(* long as the server answers.                                             *)
(***************************************************************************)
DeliversRequestedItems == out.right /\ out.end # "failed"

(***************************************************************************)
(* Whoever waits for a tile waits for something: a tile that is being      *)
(* filled is in the queue or in the hands of a filler, once, and no other  *)
(* tile is.                                                                *)
(***************************************************************************)
Handled(l, s) == Cardinality({i \in DOMAIN queue : queue[i] = <<l, s>>})
                 + Cardinality({f \in Fillers : filling[f] = <<l, s>>})

TilesDecided ==
    \A l \in Lists, s \in Slots :
        Handled(l, s) = IF hot[l][s].state = "FILLING" THEN 1 ELSE 0

(***************************************************************************)
(* Reader and fillers do not get into each other's way: what a filler      *)
(* holds locked is not canceled, released or activated anew before it lets *)
(* go, and no filler changes a tile that is ready to be read.              *)
(***************************************************************************)
HeldStays ==
    \A f \in Fillers : filling[f] # None /\ filling'[f] = filling[f] =>
        hot'[filling[f][1]][filling[f][2]] = hot[filling[f][1]][filling[f][2]]

ReadyStays ==
    \A l \in Lists, s \in Slots :
        hot[l][s].state = "READY" /\ filling' # filling => hot'[l][s] = hot[l][s]

TilesNotShared == [][HeldStays /\ ReadyStays]_vars

(***************************************************************************)
(* Between requests, the tiles of a list that are in use are those of its  *)
(* window, each at one location: slide() and clear() lose none of them and *)
(* leave no pointer to a free one.                                         *)
(***************************************************************************)
EachTileOnce ==
    pc = "idle" => \A l \in Lists, s \in Slots :
        Cardinality({w \in Locations : active[l][w] = s})
            = IF hot[l][s].state = "FREE" THEN 0 ELSE 1

(***************************************************************************)
(* Between requests, the up and down tiles of a list are the neighbors of  *)
(* its center tile (the list being a ring).                                *)
(***************************************************************************)
Neighbors(l, w) ==
    active[l][w] # NIL =>
        hot[l][active[l][w]].base =
            BaseOf(IndexInAdjacentTile(hot[l][active[l][CENTER]].base, size[l], w))

WindowSound ==
    pc = "idle" => \A l \in Lists, w \in {UP, DOWN} :
        active[l][w] # NIL => active[l][CENTER] # NIL /\ Neighbors(l, w)

(***************************************************************************)
(* The assertions of the code hold: no tile is slid, activated or released *)
(* in a wrong state.                                                       *)
(***************************************************************************)
NoFailedAssertions == bugs = {}

(***************************************************************************)
(* Every request is answered: the reader never waits for good.             *)
(***************************************************************************)
ReaderLive == pc # "idle" ~> pc = "idle"
=============================================================================
