----------------------------- MODULE ListCache ------------------------------
(***************************************************************************)
(* The cache of lists at work: LRU::Cache (module LRUCache), its garbage   *)
(* collection timer LRU::CacheControl (src/common/cachecontrol.cc), and    *)
(* the operations of the list trees on top of it: ListTreeManager          *)
(* (src/common/listtree_manager.cc), entering a child list, and the        *)
(* removal of a USB device or a UPnP server.                               *)
(*                                                                         *)
(* An action is one whole handler.  The handlers that touch the cache are  *)
(* taken to be serialised, although nothing in the program enforces it.    *)
(***************************************************************************)
EXTENDS LRUCache, Functions

CONSTANTS Sizes,         \* the possible estimated sizes of a list
          Ticks,         \* how much time may pass between two handlers
          Resolution,    \* ... and between two clock readings of a handler
          MaxTimers,     \* bound on the number of pending timeout sources
          Tiled,         \* TRUE for UPnP (tiled lists), FALSE for USB
          Events         \* what else happens in this instance

ASSUME ListCacheAssumption ==
    /\ Sizes \subseteq Nat /\ Ticks \subseteq Nat /\ Resolution \subseteq Nat
    /\ MaxTimers \in Nat
    /\ Tiled \in BOOLEAN
    /\ Events \subseteq {"remove",          \* a device or server disappears
                         "remove pinned",   \* ... while its lists are pinned
                         "remove stray",    \* ... and some are not linked
                         "drop tile",       \* the user scrolls far away
                         "read error"}      \* a directory cannot be read

(***************************************************************************)
(* ctrl is the CacheControl object: timers[t] is the number of attached    *)
(* timeout sources that expire in t ticks, armed stands for                *)
(* timeout_source_id_ # 0.                                                 *)
(***************************************************************************)
VARIABLES cache, ctrl, started

vars == <<cache, ctrl, started>>

TypeOK ==
    /\ started \in BOOLEAN
    /\ ctrl \in [enabled : BOOLEAN, armed : BOOLEAN, timers : [0..MaxAge -> 0..MaxTimers]]
    /\ cache.objs \subseteq Objs
    /\ {cache.pinned, cache.linked, cache.killed} \subseteq SUBSET cache.objs
    /\ cache.parent \in [Objs -> Objs \cup {Null}]
    /\ cache.kids \in [Objs -> 0..Cardinality(Lists)]
    /\ cache.younger \in [Objs -> Objs \cup {Null}]
    /\ cache.older \in [Objs -> Objs \cup {Null}]
    /\ cache.age \in [Objs -> 0..MaxAge]
    /\ cache.size \in [Objs -> Sizes \cup {0}]
    /\ {cache.root, cache.oldest, cache.hot, cache.pinId} \subseteq cache.objs \cup {Null}
    /\ cache.minAge \in 0..MaxAge
    /\ cache.total \in Nat

Init ==
    /\ cache = EmptyCache
    /\ ctrl = [enabled |-> FALSE, armed |-> FALSE, timers |-> [t \in 0..MaxAge |-> 0]]
    /\ started = FALSE

-----------------------------------------------------------------------------
(* CacheControl.  s is a record of a cache and its control. *)

SumOn(f, S) == FoldFunctionOnSet(LAMBDA a, b : a + b, 0, f, S)

State == [cache |-> cache, ctrl |-> ctrl]

Expire(k, d) ==
    [k EXCEPT !.timers = [t \in 0..MaxAge |->
        IF t = 0 THEN SumOn(k.timers, {x \in 0..MaxAge : x <= d})
        ELSE IF t + d <= MaxAge THEN k.timers[t + d] ELSE 0]]

(* d ticks pass. *)
After(s, d) == [cache |-> Elapse(s.cache, d, {}), ctrl |-> Expire(s.ctrl, d)]

(* notify_last_object_removed_: disable_garbage_collection() *)
Notify(s, c) ==
    [cache |-> c,
     ctrl  |-> IF s.cache.objs # {} /\ c.objs = {}
               THEN [s.ctrl EXCEPT !.enabled = FALSE] ELSE s.ctrl]

(* set_timeout(), with a timeout that is never below one tick *)
SetTimeout(k, next) ==
    IF next = Never THEN k
    ELSE [k EXCEPT !.armed = TRUE, !.timers[next] = @ + 1]

(* gc_and_set_timeout(): forgets the source without removing it *)
Collected(s, r) == [Notify(s, r.c) EXCEPT !.ctrl = SetTimeout(@, r.next)]

TriggerGc(s) ==
    IF s.ctrl.enabled THEN Collected([s EXCEPT !.ctrl.armed = FALSE], Gc(s.cache))
    ELSE [s EXCEPT !.ctrl.armed = FALSE]

EnableGc(s) ==
    IF s.ctrl.armed THEN [s EXCEPT !.ctrl.enabled = TRUE]
    ELSE TriggerGc([s EXCEPT !.ctrl.enabled = TRUE])

FirstNotified(s) == IF Cardinality(s.cache.objs) = 1 THEN EnableGc(s) ELSE s

Inserted(s, o, p, sz, d) ==
    [cache |-> InsertEntry(s.cache, o, p, sz, d),
     ctrl  |-> Expire(s.ctrl, IF p = Null THEN 0 ELSE d)]

(* Mutant: garbage collection is requested at the hard limit only. *)
Insert_HardOnly(s, o, p, sz, d) ==
    LET pressed(x) == IF ExceedsHard(x.cache) THEN TriggerGc(x) ELSE x
    IN pressed(FirstNotified(Inserted(s, o, p, sz, d)))

(* insert() with the notifications at its end *)
Insert(s, o, p, sz, d) ==
    LET pressed(x) == IF ExceedsSoft(x.cache) THEN TriggerGc(x) ELSE x
    IN pressed(FirstNotified(Inserted(s, o, p, sz, d)))

Commit(s) == /\ cache' = Forget(s.cache)
             /\ ctrl' = s.ctrl

(* The model stops where the program has failed an assertion, except for   *)
(* that of set_child_list(), since enter_child_template() says that an     *)
(* invalid ID is stored unless the error is INVALID_ID.  What a failed     *)
(* assertion does is up to a library outside of the repository: whatever   *)
(* comes after this one is what a program does that merely logs it.        *)
Running == started /\ cache.bugs \subseteq {"child ID"}

TimersBounded(s) == SumOn(s.ctrl.timers, 0..MaxAge) <= MaxTimers

-----------------------------------------------------------------------------
(* The handlers *)

Used(s, o) == [s EXCEPT !.cache = Use(@, o)]

Pinned(s, o) == Notify(s, Pin(s.cache, o))

(* init() of the list trees: the root list is created, inserted, pinned. *)
Start ==
    /\ ~started
    /\ started' = TRUE
    /\ Commit(Pinned(Insert(State, Root, Null, 0, 0), Root))

(* ListTreeManager::use_list() *)
UseAndPin(c, o) ==
    LET repinned(d) == IF d.pinId = Null /\ c.pinId # Null THEN Pin(d, c.pinId) ELSE d
    IN repinned(Pin(Use(c, o), o))

UseList(o, pinIt) ==
    /\ Running
    /\ o \in cache.objs
    /\ \E d \in Ticks :
          LET s == After(State, d)
          IN Commit(IF pinIt THEN Notify(s, UseAndPin(s.cache, o)) ELSE Used(s, o))
    /\ UNCHANGED started

(* GetListID: use the list, then enter one of its items.  The child list   *)
(* is created, inserted, filled and linked to the item.  A directory of a  *)
(* USB volume that cannot be read stays in the cache without a link: its   *)
(* item is given the invalid ID that attach_new_dirlist() returns, against *)
(* the assertion in set_child_list().                                      *)
(*                                                                         *)
(* The garbage collection that insert() triggers discards the new list     *)
(* itself, which its creator asserts not to happen, if the limits leave no *)
(* room for it beside the pinned path.  The brokers' limits (10000 lists,  *)
(* 20 MiB) always do; steps in which the ones of an instance do not are    *)
(* left out.                                                               *)
SetChildList(s, o, ok) ==
    LET linked == IF ok THEN s.cache.linked \cup {o} ELSE s.cache.linked
    IN [s EXCEPT !.cache = Check([@ EXCEPT !.linked = linked], ok, "child ID")]

Readable(p) == IF ~Tiled /\ p # Root /\ "read error" \in Events THEN BOOLEAN ELSE {TRUE}

Entered(s, o, ok) == /\ o \in s.cache.objs
                     /\ TimersBounded(s)
                     /\ Commit(SetChildList(s, o, ok))

EnterChild(p, o) ==
    /\ Running
    /\ p \in cache.objs
    /\ o \in Lists \cap Destroyed(cache)
    /\ \E d \in Ticks, e \in Resolution, f \in Resolution, sz \in Sizes, ok \in Readable(p) :
          Entered(Insert(After(Used(After(State, d), p), e), o, p, sz, f), o, ok)
    /\ UNCHANGED started

(* discard_list_hint(): the root list is pinned instead of this one. *)
DiscardHint(o) ==
    /\ Running
    /\ o \in Lists
    /\ o = cache.pinId
    /\ Root \in cache.objs
    /\ \E d \in Ticks : Commit(Pinned(After(State, d), Root))
    /\ UNCHANGED started

(* ListTile_::reset(): the tile with the item of list o is dropped. *)
DropTile(o) ==
    /\ Tiled /\ "drop tile" \in Events
    /\ Running
    /\ o \in cache.linked
    /\ cache.parent[o] # Root
    /\ cache' = [cache EXCEPT !.linked = @ \ {o}, !.killed = @ \cup {o}]
    /\ UNCHANGED <<ctrl, started>>

(* reinsert_list(): assigns a new ID to the root list *)
Reinsert(c) == Check(c, Root \in c.objs, "reinsert")

(* Lists below o that no item refers to any more, or yet. *)
Strays(o) == {k \in cache.objs : o \in OnPath(cache, k)} \ LinkedSubtree(cache, o)

(* remove_from_list() of the root list; UPnP uses the root list first. *)
ItemRemoved(s, o) ==
    [(IF Tiled THEN Used(s, Root) ELSE s) EXCEPT !.cache.linked = @ \ {o}]

(* purge_subtree() *)
PurgeSubtree(s, o) ==
    LET K == LinkedSubtree(s.cache, o)
        sorted == Check(s.cache, Sortable(s.cache, K), "toposort")
    IN \E kills \in KillOrders(s.cache, K) :
          Commit(Notify(s, Reinsert(PurgeEntries(sorted, kills))))

(* purge_device_subtree_and_reinsert_device_list() and                     *)
(* remove_from_server_list(): the item of a device or server is removed    *)
(* from the root list, then purge_subtree() is called for its child list.  *)
RemoveDevice(o) ==
    /\ "remove" \in Events
    /\ Running
    /\ Root \in cache.objs
    /\ o \in cache.linked
    /\ cache.parent[o] = Root
    /\ o \in cache.pinned => "remove pinned" \in Events
    /\ Strays(o) # {} => "remove stray" \in Events
    /\ \E d \in Ticks : PurgeSubtree(ItemRemoved(After(State, d), o), o)
    /\ UNCHANGED started

(* A timeout source fires and is removed: trampoline(). *)
GcTimer ==
    /\ Running
    /\ \E d \in Ticks :
          LET s == After(State, d)
          IN /\ s.ctrl.timers[0] > 0
             /\ Commit(TriggerGc([s EXCEPT !.ctrl.timers[0] = @ - 1]))
    /\ UNCHANGED started

UseAList    == \E o \in Objs, pinIt \in BOOLEAN : UseList(o, pinIt)
EnterAChild == \E p \in Objs, o \in Lists : EnterChild(p, o)
HintAList   == \E o \in Lists : DiscardHint(o)
DropATile   == \E o \in Lists : DropTile(o)
RemoveAny   == \E o \in Lists : RemoveDevice(o)

Next == Start \/ UseAList \/ EnterAChild \/ HintAList \/ DropATile \/ RemoveAny \/ GcTimer

Spec == Init /\ [][Next]_vars

-----------------------------------------------------------------------------
(* Properties *)

(* The aging list is a proper doubly linked list of all cached lists, from *)
(* the least recently used one to the root list, sorted by last use, each  *)
(* list before its parent, so that the collector never reaches a list with *)
(* children (class comment of LRU::Cache: "the head element of the aging   *)
(* list is always a leaf").  deepest_youngest_object_, to which use()      *)
(* appends, is one of the youngest lists, as old as all lists above it.    *)
AgingListSound ==
    LET order == AgingOrder(cache)
    IN /\ ToSet(order) = cache.objs
       /\ Len(order) = Cardinality(cache.objs)
       /\ \A i \in 1..Len(order) :
             /\ cache.older[order[i]] = IF i = 1 THEN Null ELSE order[i - 1]
             /\ i < Len(order) => cache.age[order[i]] >= cache.age[order[i + 1]]
             /\ \A j \in 1..i : cache.parent[order[i]] # order[j]
       /\ order # <<>> => Last(order) = cache.root
       /\ cache.hot # Null =>
             \A o \in OnPath(cache, cache.hot), x \in cache.objs :
                cache.age[o] = cache.age[cache.hot] /\ cache.age[x] >= cache.age[o]

(* The tree is complete: the parent of a cached list is cached, counts its *)
(* children, and the sizes add up.                                         *)
TreeComplete ==
    /\ \A o \in cache.objs :
          /\ cache.parent[o] \in cache.objs \cup {Null}
          /\ cache.kids[o] = Cardinality(Children(cache, o))
    /\ cache.total = SumOn(cache.size, cache.objs)

(* Exactly the path from the pinned list to the root list is pinned; the   *)
(* pinned list is cached.                                                  *)
PinnedPath ==
    /\ cache.pinId \in cache.objs \cup {Null}
    /\ cache.pinned = IF cache.pinId = Null THEN {} ELSE OnPath(cache, cache.pinId)

(* One assertion does fail: an item is linked to the invalid ID when its   *)
(* directory cannot be read (set_child_list(), lists_base.hh:141).  Other  *)
(* than that no assertion of the cache fails and no list is purged twice,  *)
(* also not in what the list without an item leads to afterwards.          *)
NoOtherAssertionFails == cache.bugs \subseteq {"child ID"}

(* Between two handlers the cache is never above the high watermark of one *)
(* of its limits: an insertion that exceeds it makes the collector find    *)
(* something to discard, however much is pinned or too young.              *)
LimitsKept == ~ExceedsSoft(cache)

(* The collector discards a list only if it keeps no unpinned list that    *)
(* was used less recently, and no list below it.  As long as the pin stays *)
(* where it is, no pinned list leaves the cache ("Never garbage collect    *)
(* this object or any of the objects on the path to the root object"),     *)
(* whatever its age and the pressure are.                                  *)
LeastRecentlyUsedFirst ==
    [][/\ cache'.pinId = cache.pinId => cache.pinned \subseteq cache'.objs
       /\ \A a \in cache.objs \ cache'.objs, b \in cache.objs \cap cache'.objs :
             \/ b \in cache'.pinned
             \/ cache.age[a] >= cache.age[b]
             \/ cache'.age[b] < cache.age[b]
             \/ RemoveAny]_vars

-----------------------------------------------------------------------------
(* What the program asserts or demands of itself and does not keep.        *)

(* The list of servers or devices is always there, since it is looked up   *)
(* under its ID and asserted to exist (upnp_listtree.cc:46-47, 107-108).   *)
RootListStays == started => Root \in cache.objs
=============================================================================
