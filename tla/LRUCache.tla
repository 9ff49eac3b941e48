------------------------------ MODULE LRUCache ------------------------------
(***************************************************************************)
(* The cache of lists, class LRU::Cache (src/common/lru.cc).  Cached lists *)
(* form a tree through their parent pointers and, independently, a doubly  *)
(* linked "aging list" from the oldest to the youngest one.  This module   *)
(* defines the cache's operations as operators from cache to cache; module *)
(* ListCache calls them from the handlers that use the cache.              *)
(*                                                                         *)
(* Time is kept as ages instead of time points: Elapse makes everything    *)
(* older, and an age saturates at MaxAge, because the garbage collector    *)
(* only asks whether an age has reached the maximum age threshold.         *)
(*                                                                         *)
(* A failed msg_log_assert() and the MSG_BUG() of the purge functions add  *)
(* a label to the field bugs.                                              *)
(***************************************************************************)
EXTENDS Integers, FiniteSets, SequencesExt

CONSTANTS Root,        \* the list of devices or servers
          Lists,       \* all other lists
          Null,        \* the null pointer, and the invalid list ID
          MaxAge,      \* maximum_age_threshold_, in clock ticks
          HardCount,   \* count_hard_upper_limit
          HardSize,    \* memory_hard_upper_limit
          HighPermil,  \* high watermark, the same for count and memory
          LowPermil    \* low watermark

Objs == Lists \cup {Root}

Watermark(hard, permil) == (hard * permil + 500) \div 1000

ASSUME CacheAssumption ==
    /\ Root \notin Lists /\ Null \notin Objs
    /\ MaxAge \in Nat \ {0}
    /\ \A h \in {HardCount, HardSize} :
          /\ h \in Nat \ {0}
          /\ h >= Watermark(h, HighPermil)
          /\ Watermark(h, HighPermil) > Watermark(h, LowPermil)
    /\ HighPermil \in 0..1000 /\ LowPermil \in 0..(HighPermil - 1)

(***************************************************************************)
(* The cache.  objs are the keys of all_objects_; parent, kids, younger,   *)
(* older, age, size and pinned are the fields of the entries; the others   *)
(* are the members of the Cache object, hot being deepest_youngest_object_ *)
(* and minAge the age of minimum_required_creation_time_.  linked are the  *)
(* lists some item of their parent list refers to, killed the IDs stored   *)
(* in LRU::KilledLists.                                                    *)
(***************************************************************************)
EmptyCache ==
    [objs    |-> {},
     parent  |-> [o \in Objs |-> Null],
     kids    |-> [o \in Objs |-> 0],
     younger |-> [o \in Objs |-> Null],
     older   |-> [o \in Objs |-> Null],
     age     |-> [o \in Objs |-> 0],
     size    |-> [o \in Objs |-> 0],
     pinned  |-> {},
     root    |-> Null,
     oldest  |-> Null,
     hot     |-> Null,
     pinId   |-> Null,
     minAge  |-> 0,
     total   |-> 0,
     linked  |-> {},
     killed  |-> {},
     bugs    |-> {}]

Check(c, ok, label) == IF ok THEN c ELSE [c EXCEPT !.bugs = @ \cup {label}]

Ageing(a, d) == IF a + d < MaxAge THEN a + d ELSE MaxAge

(* d ticks pass; the list "fresh" is being built outside the cache. *)
Elapse(c, d, fresh) ==
    [c EXCEPT !.age = [o \in Objs |-> IF o \in c.objs \cup fresh
                                      THEN Ageing(c.age[o], d) ELSE c.age[o]],
              !.minAge = Ageing(@, d)]

(* seq, continued with what next gives for its last element, as long as    *)
(* that is not Null; it has no more elements than there are lists.         *)
Follow(seq, next) ==
    LET ext[n \in 0..Cardinality(Objs)] ==
          IF n = 0 THEN seq
          ELSE LET s == ext[n - 1]
               IN IF s = <<>> THEN s
                  ELSE IF next[Last(s)] = Null THEN s ELSE Append(s, next[Last(s)])
    IN ext[Cardinality(Objs)]

(* The entries from o up to the root, following the parent pointers. *)
PathToRoot(c, o) == Follow(<<o>>, c.parent)

OnPath(c, o) == ToSet(PathToRoot(c, o))

(* The aging list from the oldest entry on, following younger_. *)
AgingOrder(c) == Follow(IF c.oldest = Null THEN <<>> ELSE <<c.oldest>>, c.younger)

Children(c, o) == {k \in c.objs : c.parent[k] = o}

IsLeaf(c, o) == c.kids[o] = 0

-----------------------------------------------------------------------------
(* The aging list. *)

Unlink(c, o) ==
    LET y == c.younger[o]
        p == c.older[o]
    IN [c EXCEPT !.younger = [x \in Objs |-> CASE x = o -> Null
                                               [] x # o /\ x = p -> y
                                               [] OTHER -> @[x]],
                 !.older   = [x \in Objs |-> CASE x = o -> Null
                                               [] x # o /\ x = y -> p
                                               [] OTHER -> @[x]]]

(* join_lists(): the list that starts with head continues the one that     *)
(* ends with tail.                                                         *)
Append2(c, tail, head) ==
    Check([c EXCEPT !.younger[tail] = head, !.older[head] = tail],
          c.older[head] = Null /\ c.younger[tail] = Null, "append")

(* insert_before(): o becomes the next older neighbour of y. *)
InsertBefore(c, o, y) ==
    LET p == c.older[y]
        c1 == [c EXCEPT !.older[o] = p, !.younger[o] = y, !.older[y] = o]
    IN IF p = Null
       THEN [c1 EXCEPT !.oldest = o]
       ELSE Check([c1 EXCEPT !.younger[p] = o], c.younger[p] = y, "insert_before")

(* unlink_objects_on_path_to_root(): first loop, one entry.  acc.tail is   *)
(* reconnect_tail_object.                                                  *)
UnlinkOne(entry, acc, e) ==
    LET y == acc.c.younger[e]
    IN [tail |-> IF e = acc.tail THEN acc.c.older[e] ELSE acc.tail,
        c    |-> [Unlink(acc.c, e) EXCEPT
                    !.oldest = CASE @ # e -> @
                                 [] @ = e /\ y # Null -> y
                                 [] @ = e /\ y = Null -> entry]]

(* Mutant: the search for the upper-most entry of equal age is missing. *)
ClimbTail_None(c, tail) == [tail |-> tail, c |-> c]

(* Second loop: the upper-most entry above the tail that is still linked. *)
ClimbTail(c, tail) ==
    LET path == PathToRoot(c, tail)
        linkedUp(k) == \A i \in 2..k : \/ c.younger[path[i]] # Null
                                       \/ c.older[path[i]] # Null
        top == CHOOSE k \in 1..Len(path) :
                  linkedUp(k) /\ (k = Len(path) \/ ~linkedUp(k + 1))
    IN [tail |-> path[top],
        c    |-> Check(c, \A i \in 2..top : c.age[path[i]] = c.age[tail], "climb")]

TailChecked(r) ==
    [r EXCEPT !.c = Check(@, r.tail = Null \/ r.c.younger[r.tail] = Null, "tail")]

Climbed(r) == IF r.tail = Null THEN r ELSE ClimbTail(r.c, r.tail)

UnlinkPath(c, entry, tail0) ==
    TailChecked(Climbed(FoldLeft(LAMBDA acc, e : UnlinkOne(entry, acc, e),
                                 [c |-> c, tail |-> tail0], PathToRoot(c, entry))))

(* link_objects_on_path_to_root(): every entry of the path is used now and *)
(* is appended in front of its parent.                                     *)
LinkOne(c, e) ==
    IF c.parent[e] = Null THEN [c EXCEPT !.age[e] = 0]
    ELSE Append2([c EXCEPT !.age[e] = 0], e, c.parent[e])

LinkPath(c, entry) == FoldLeft(LinkOne, c, PathToRoot(c, entry))

-----------------------------------------------------------------------------
(* use() *)

AlreadyUpToDate(c) == c.minAge = 0

(* Mutant: the time stamps are updated, the aging list is not. *)
Use_StampsOnly(c, o) ==
    [c EXCEPT !.hot = o,
              !.age = [x \in Objs |-> IF x \in OnPath(c, o) THEN 0 ELSE @[x]]]

JoinTail(c, tail, o) == IF tail = Null THEN c ELSE Append2(c, tail, o)

Relinked(r, o) == JoinTail(LinkPath(r.c, o), r.tail, o)

LeafFirst(c, label) == Check(c, IsLeaf(c, c.oldest), label)

Use(c, o) ==
    IF AlreadyUpToDate(c) THEN c
    ELSE LeafFirst(Relinked(UnlinkPath([c EXCEPT !.hot = o], o, c.hot), o), "use")

-----------------------------------------------------------------------------
(* discard() and gc() *)

(* obliviate_child(): the parent's item forgets the list, or the list has  *)
(* been killed with the tile that held the item.                           *)
Obliviate(c, o) ==
    IF o \in c.linked THEN [c EXCEPT !.linked = @ \ {o}]
                      ELSE [c EXCEPT !.killed = @ \ {o}]

(* Mutant: deepest_youngest_object_ is not moved up to the parent. *)
Discard_HotKept(c, o) ==
    [Unlink(c, o) EXCEPT !.oldest = IF @ = o THEN c.younger[o] ELSE @,
                         !.total = @ - c.size[o], !.objs = @ \ {o},
                         !.linked = @ \ {o}, !.killed = @ \ {o},
                         !.kids = [x \in Objs |-> IF x = c.parent[o] THEN @[x] - 1 ELSE @[x]]]

(* Mutant: the parent's child counter is not decremented. *)
Discard_ChildKept(c, o) ==
    [Unlink(c, o) EXCEPT !.oldest = IF @ = o THEN c.younger[o] ELSE @,
                         !.hot = IF @ = o THEN c.parent[o] ELSE @,
                         !.total = @ - c.size[o], !.objs = @ \ {o},
                         !.linked = @ \ {o}, !.killed = @ \ {o}]

DiscardChecked(c, o) ==
    LET p == c.parent[o]
        known == o \in c.objs /\ c.size[o] <= c.total
    IN Check(Check(Check(c, c.oldest # Null /\ IsLeaf(c, c.oldest) /\ o \notin c.pinned,
                         "discard"),
                   known, "discarded twice"),
             p = Null \/ c.kids[p] > 0, "del_child")

Removed(c, o) ==
    [Unlink(c, o) EXCEPT !.oldest = IF @ = o THEN c.younger[o] ELSE @,
                         !.hot    = IF @ = o THEN c.parent[o] ELSE @,
                         !.total  = @ - c.size[o],
                         !.objs   = @ \ {o}]

ParentTold(c, o) ==
    IF c.parent[o] = Null THEN c
    ELSE Obliviate([c EXCEPT !.kids[c.parent[o]] = @ - 1], o)

Discard(c, o) ==
    LET emptied(d) == IF d.oldest = Null THEN [d EXCEPT !.root = Null] ELSE d
    IN emptied(ParentTold(Removed(DiscardChecked(c, o), o), o))

Exceeds(c, limit(_)) ==
    c.total > limit(HardSize) \/ Cardinality(c.objs) > limit(HardCount)

ExceedsHard(c) == Exceeds(c, LAMBDA h : h)
ExceedsSoft(c) == Exceeds(c, LAMBDA h : Watermark(h, HighPermil))

IsLowEnough(c) == /\ c.total < Watermark(HardSize, LowPermil)
                  /\ Cardinality(c.objs) < Watermark(HardCount, LowPermil)

DiscardUnpinned(c, o) == IF o \in c.pinned THEN c ELSE Discard(c, o)

(* The position in the aging list of the first entry that is young enough. *)
FirstYoung(c, order) ==
    Min({i \in 1..Len(order) : c.age[order[i]] < MaxAge} \cup {Len(order) + 1})

Expired(c, order) == SubSeq(order, 1, FirstYoung(c, order) - 1)

Unexpired(c, order) == SubSeq(order, FirstYoung(c, order), Len(order))

(* The loop that collects the expired entries. *)
GcExpired(c) == FoldLeft(DiscardUnpinned, c, Expired(c, AgingOrder(c)))

(* The loop that runs under resource pressure, one candidate.  acc.left    *)
(* are the candidates it did not get to.                                   *)
PressureStops(c, e) ==
    \/ IsLowEnough(c)
    \/ e \notin c.pinned /\ e = c.hot /\ ~ExceedsHard(c)

PressureOne(acc, e) ==
    IF acc.left # <<>> \/ PressureStops(acc.c, e)
    THEN [acc EXCEPT !.left = Append(@, e)]
    ELSE [acc EXCEPT !.c = DiscardUnpinned(@, e)]

GcPressure(c) ==
    LET rest == Unexpired(c, AgingOrder(c))
    IN IF ExceedsSoft(c) THEN FoldLeft(PressureOne, [c |-> c, left |-> <<>>], rest)
                         ELSE [c |-> c, left |-> rest]

Never == -1

(* The time until the collector wants to run again. *)
GcAgain(r) ==
    LET loose == SelectSeq(r.left, LAMBDA e : e \notin r.c.pinned)
    IN CASE r.c.oldest = Null ->
              [next |-> Never,
               c |-> Check(r.c, r.c.root = Null /\ r.c.hot = Null /\ r.c.objs = {},
                           "empty")]
         [] r.c.oldest # Null /\ loose = <<>> ->
              [next |-> Never,
               c |-> Check(r.c, r.c.objs \subseteq r.c.pinned, "all pinned")]
         [] r.c.oldest # Null /\ loose # <<>> ->
              [next |-> Max({1, MaxAge - r.c.age[Head(loose)]}), c |-> r.c]

(* gc(): the cache that is left and the time until the next call. *)
Gc(c) == GcAgain(GcPressure(GcExpired(c)))

-----------------------------------------------------------------------------
(* pin() *)

(* Mutant: only the entry is pinned or unpinned, not the path above it. *)
SetPinMode_EntryOnly(c, o, pinIt) ==
    [c EXCEPT !.pinned = IF pinIt THEN @ \cup ({o} \cap c.objs) ELSE @ \ {o}]

SetPinMode(c, o, pinIt) ==
    IF o = Null \/ o \notin c.objs THEN c
    ELSE [c EXCEPT !.pinned = IF pinIt THEN @ \cup OnPath(c, o) ELSE @ \ OnPath(c, o)]

MovePin(c, id) ==
    [SetPinMode(SetPinMode(c, c.pinId, FALSE), id, TRUE) EXCEPT
        !.pinId = IF id \in c.objs THEN id ELSE Null]

Pin(c, id) ==
    CASE c.pinId = id -> c
      [] c.pinId # id /\ c.pinId = Null -> MovePin(c, id)
      [] c.pinId # id /\ c.pinId # Null -> Gc(MovePin(c, id)).c

-----------------------------------------------------------------------------
(* insert(), up to the notifications it sends at its end *)

InsertRoot(c, o) ==
    Check([c EXCEPT !.root = o, !.hot = o, !.oldest = o], c.root = Null, "root")

ParentUsed(c, p) == IF AlreadyUpToDate(c) THEN [c EXCEPT !.hot = p] ELSE Use(c, p)

Adopt(c, o, p) ==
    InsertBefore(Check([c EXCEPT !.kids[p] = @ + 1,
                                 !.hot = IF c.age[o] = c.age[p] THEN o ELSE @],
                       c.hot = p, "insert"),
                 o, p)

(* o was created d ticks before its parent p gets used. *)
InsertChild(c, o, p, d) == Adopt(ParentUsed(Elapse(c, d, {o}), p), o, p)

(* Refused for an entry that is older than the youngest one of the cache   *)
(* or than its parent.                                                     *)
Outdated(c, o, p) == \/ c.age[o] > c.minAge
                     \/ p # Null /\ c.age[o] > c.age[p]

Attach(c, o, p, d) == IF p = Null THEN InsertRoot(c, o) ELSE InsertChild(c, o, p, d)

Register(c, o, sz) ==
    LeafFirst([c EXCEPT !.objs = @ \cup {o}, !.minAge = c.age[o], !.total = @ + sz],
              "insert leaf")

InsertEntry(c, o, p, sz, d) ==
    IF Outdated(c, o, p) THEN Check(c, FALSE, "outdated")
    ELSE Register(Attach([c EXCEPT !.parent[o] = p, !.size[o] = sz], o, p, d), o, sz)

-----------------------------------------------------------------------------
(* purge_entries() and the order toposort_for_purge() gives its list *)

PurgeOne(c, o) ==
    IF o \notin c.objs THEN Check(c, FALSE, "purge nonexistent")
    ELSE Discard(IF o \in c.pinned THEN Pin(c, Null) ELSE c, o)

PurgeEntries(c, kills) == FoldLeft(PurgeOne, c, kills)

(* The distance of o from the farthest leaf below it, counted in entries   *)
(* of the kill list.                                                       *)
Distance(c, K, o) ==
    Max({0} \cup {Cardinality({x \in OnPath(c, l) \cap K :
                                  ~IsLeaf(c, x) /\ o \in OnPath(c, x)})
                  : l \in {k \in K : IsLeaf(c, k) /\ o \in OnPath(c, k)}})

(* The orders toposort_for_purge() may leave the kill list in: leaves      *)
(* first and then by distance.  Without a leaf it fails, and the list      *)
(* stays in the order of its enumeration, from the top of the subtree on.  *)
Sortable(c, K) == \E o \in K : IsLeaf(c, o)

KillOrders(c, K) ==
    LET rank(o) == IF ~Sortable(c, K) THEN Len(PathToRoot(c, o))
                   ELSE IF IsLeaf(c, o) THEN 0 ELSE 1 + Distance(c, K, o)
    IN {s \in SetToSeqs(K) : \A i \in 1..(Len(s) - 1) : rank(s[i]) <= rank(s[i + 1])}

(* enumerate_tree_of_sublists(): the lists of the subtree at o that can be *)
(* reached through the items of the lists.                                 *)
LinkedSubtree(c, o) ==
    {k \in c.objs : /\ o \in OnPath(c, k)
                    /\ \A x \in OnPath(c, k) : x \in OnPath(c, o) \/ x \in c.linked}

(* A list that is neither cached nor above a cached list is destroyed. *)
Destroyed(c) == Objs \ UNION {OnPath(c, k) : k \in c.objs}

Forget(c) ==
    LET dead == Destroyed(c)
        clear(f) == [o \in Objs |-> IF o \in dead THEN EmptyCache[f][o] ELSE c[f][o]]
    IN [f \in DOMAIN c |-> IF f \in {"parent", "kids", "younger", "older", "age", "size"}
                           THEN clear(f) ELSE c[f]]
=============================================================================
