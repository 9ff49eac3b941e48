-------------------------- MODULE UsbBrokerProofs ---------------------------
(***************************************************************************)
(* Proofs about UsbBroker, for any devices, volumes and directories, any   *)
(* number of list IDs and of signals on their way, and any locations: the  *)
(* links between parent and child lists are right at all times.  Then the  *)
(* shape of the tree, that is, where its lists are and what they show, and *)
(* that it is kept when lists are entered, locations are realized, devices *)
(* are added and lists get new IDs.                                        *)
(***************************************************************************)
EXTENDS UsbBroker, SequenceLemmas

IdsAndNone == 0..MaxId

DeviceItemSet == [dev : Devices, vols : Seq(Nat), child : IdsAndNone]
VolumeItemSet == [dev : Devices, vol : Nat, child : IdsAndNone]
DirItemSet    == [name : Nat, dir : BOOLEAN, child : IdsAndNone]

ItemSet == DeviceItemSet \cup VolumeItemSet \cup DirItemSet

ListSet == [kind : {"devices", "volumes", "dir"}, parent : IdsAndNone, items : Seq(ItemSet)]

(***************************************************************************)
(* The invariant of a tree: its type, and that it is sound.  It holds of   *)
(* the trees in the middle of an operation, too, unless all IDs have been  *)
(* given away.                                                             *)
(***************************************************************************)
IsTree(t) == t = [lists |-> t.lists, root |-> t.root, next |-> t.next, inv |-> t.inv]

RootList(t) ==
    /\ t.root \in DOMAIN t.lists \ {NoId}
    /\ t.lists[t.root].items \in Seq(DeviceItemSet)
    /\ \A l \in DOMAIN t.lists : t.lists[l].kind = "devices" <=> l = t.root

TreeType(t) ==
    /\ IsTree(t)
    /\ DOMAIN t.lists \subseteq IdsAndNone
    /\ t.lists \in [DOMAIN t.lists -> ListSet]
    /\ t.next \in Ids
    /\ RootList(t)

IdsInUse(t) == NoId \notin DOMAIN t.lists

(* A parent pointer refers to a cached list, whose class says which class  *)
(* the list has.                                                           *)
ParentsRight(t) ==
    /\ t.lists[t.root].parent = NoId
    /\ \A l \in DOMAIN t.lists :
          LET p == t.lists[l].parent
          IN p # NoId => /\ p \in DOMAIN t.lists
                         /\ t.lists[l].kind = IF p = t.root THEN "volumes" ELSE "dir"

LinkRight(t, l, i) ==
    LET child == t.lists[l].items[i].child
    IN child # NoId => /\ child \in DOMAIN t.lists
                       /\ t.lists[child].parent = l
                       /\ \A j \in DOMAIN t.lists[l].items :
                             t.lists[l].items[j].child = child => j = i

LinksRight(t) ==
    \A l \in DOMAIN t.lists : \A i \in DOMAIN t.lists[l].items : LinkRight(t, l, i)

Sound(t) == TreeType(t) /\ IdsInUse(t) /\ ParentsRight(t) /\ LinksRight(t)

(* A volume list has as many items as its device has volumes. *)
Matched(t) ==
    \A i \in DOMAIN t.lists[t.root].items :
       LET item == t.lists[t.root].items[i]
       IN item.child # NoId => DOMAIN t.lists[item.child].items = DOMAIN item.vols

Full(t) == Ids \subseteq DOMAIN t.lists

TreeInv(t) == TreeType(t) /\ (Full(t) \/ (Sound(t) /\ Matched(t)))

-----------------------------------------------------------------------------
(* What MounTA and its signals are about *)

SignalSet == [name : {"NewUSBDevice", "DeviceRemoved"}, dev : Devices]
             \cup [name : {"NewVolume"}, dev : Devices, vol : Nat]

MountSet == [present : BOOLEAN, vols : SUBSET Nat, content : DOMAIN Contents]

MountsInv ==
    /\ mounta \in [Devices -> MountSet]
    /\ \A d \in Devices : IsFiniteSet(mounta[d].vols)
    /\ signals \in Seq(SignalSet)

BrokerInv == MountsInv /\ Sound(tree) /\ Matched(tree)

-----------------------------------------------------------------------------
(* CacheIdGenerator::next() *)

(* IDs are the numbers up to MaxId, and 0 is none of them.                 *)
LEMMA MaxIdIsNat == MaxId \in Nat \ {0} /\ NoId = 0 /\ Ids = 1..MaxId /\ IdsAndNone = 0..MaxId
  BY UsbListsAssumption DEF NoId, Ids, IdsAndNone

(* The IDs tried, one after the other, are all IDs there are. *)
Tried(m, n) == IF m + n <= MaxId THEN m + n ELSE m + n - MaxId

(* The ID that CacheIdGenerator::next() tries after n others.              *)
LEMMA TriedNext ==
    ASSUME NEW m \in Ids
    PROVE  /\ Tried(m, 0) = m
           /\ \A n \in 0..MaxId - 1 : Tried(m, n) \in Ids
           /\ \A n \in 1..MaxId : Tried(m, n) = Following(Tried(m, n - 1))
           /\ \A id \in Ids : \E n \in 0..MaxId - 1 : Tried(m, n) = id
<1>1. ASSUME NEW id \in Ids PROVE \E n \in 0..MaxId - 1 : Tried(m, n) = id
  <2>1. CASE id >= m
    <3>1. id - m \in 0..MaxId - 1 /\ Tried(m, id - m) = id
      BY <2>1, MaxIdIsNat DEF Tried
    <3> QED
      BY <3>1
  <2>2. CASE id < m
    <3>1. id - m + MaxId \in 0..MaxId - 1 /\ Tried(m, id - m + MaxId) = id
      BY <2>2, MaxIdIsNat DEF Tried
    <3> QED
      BY <3>1
  <2> QED
    BY <2>1, <2>2, MaxIdIsNat
<1>2. ASSUME NEW n \in 1..MaxId PROVE Tried(m, n) = Following(Tried(m, n - 1))
  BY MaxIdIsNat DEF Tried, Following
<1>3. Tried(m, 0) = m /\ \A n \in 0..MaxId - 1 : Tried(m, n) \in Ids
  BY MaxIdIsNat DEF Tried
<1> QED
  BY <1>1, <1>2, <1>3

(* next() comes by every ID, from whichever it starts.                     *)
LEMMA TriesAll ==
    ASSUME NEW m \in Ids, NEW try,
           \A n \in 0..MaxId : try[n] = IF n = 0 THEN m ELSE Following(try[n - 1])
    PROVE  \A n \in 0..MaxId : try[n] = Tried(m, n)
<1> DEFINE S == {n \in Nat : n <= MaxId => try[n] = Tried(m, n)}
<1>1. 0 \in S
  <2>1. 0 \in 0..MaxId
    BY MaxIdIsNat
  <2>2. try[0] = m
    BY <2>1
  <2> QED
    BY <2>2, TriedNext
<1>2. ASSUME NEW n \in Nat, n \in S PROVE n + 1 \in S
  <2> SUFFICES ASSUME n + 1 <= MaxId PROVE try[n + 1] = Tried(m, n + 1)
    OBVIOUS
  <2>1. try[n] = Tried(m, n) /\ n + 1 \in 0..MaxId /\ n + 1 \in 1..MaxId /\ n + 1 # 0
        /\ n + 1 - 1 = n
    BY <1>2, MaxIdIsNat
  <2>2. try[n + 1] = Following(try[n])
    BY <2>1
  <2>3. Tried(m, n + 1) = Following(Tried(m, n))
    BY <2>1, TriedNext
  <2> QED
    BY <2>1, <2>2, <2>3
<1> HIDE DEF S
<1>3. Nat \subseteq S
  BY <1>1, <1>2, UpFromZero
<1> QED
  BY <1>3, MaxIdIsNat DEF S

(* The ID that is given to a list is not in use; there is one as long as   *)
(* not all IDs are.                                                        *)
LEMMA FreshIdIsFree ==
    ASSUME NEW t, t.next \in Ids
    PROVE  IF Full(t) THEN FreshId(t) = NoId ELSE FreshId(t) \in Ids \ DOMAIN t.lists
<1> DEFINE try[n \in 0..MaxId] == IF n = 0 THEN t.next ELSE Following(try[n - 1])
           free == {n \in 0..(MaxId - 1) : try[n] \notin DOMAIN t.lists}
<1>1. FreshId(t) = IF free = {} THEN NoId ELSE try[Min(free)]
  BY DEF FreshId
<1>2. \E f : f = [n \in 0..MaxId |-> IF n = 0 THEN t.next ELSE Following(f[n - 1])]
  <2> DEFINE f == [n \in 0..MaxId |-> Tried(t.next, n)]
  <2>1. ASSUME NEW n \in 0..MaxId PROVE f[n] = IF n = 0 THEN t.next ELSE Following(f[n - 1])
    <3>1. CASE n = 0
      BY <3>1, TriedNext, MaxIdIsNat
    <3>2. CASE n # 0
      <4>1. n \in 1..MaxId /\ n - 1 \in 0..MaxId
        BY <3>2, MaxIdIsNat
      <4> QED
        BY <3>2, <4>1, TriedNext
    <3> QED
      BY <3>1, <3>2
  <2> QED
    BY <2>1
<1>3. try = [n \in 0..MaxId |-> IF n = 0 THEN t.next ELSE Following(try[n - 1])]
  BY <1>2
<1> HIDE DEF try
<1>4. \A n \in 0..MaxId : try[n] = IF n = 0 THEN t.next ELSE Following(try[n - 1])
  BY <1>3
<1>5. \A n \in 0..MaxId - 1 : try[n] = Tried(t.next, n) /\ try[n] \in Ids
  <2>1. \A n \in 0..MaxId : try[n] = Tried(t.next, n)
    BY <1>4, TriesAll
  <2>2. \A n \in 0..MaxId - 1 : Tried(t.next, n) \in Ids
    BY TriedNext
  <2>3. \A n \in 0..MaxId - 1 : n \in 0..MaxId
    BY MaxIdIsNat
  <2> QED
    BY <2>1, <2>2, <2>3
<1>6. CASE Full(t)
  BY <1>1, <1>5, <1>6 DEF Full
<1>7. CASE ~Full(t)
  <2>1. PICK id \in Ids : id \notin DOMAIN t.lists
    BY <1>7 DEF Full
  <2>2. PICK n \in 0..MaxId - 1 : Tried(t.next, n) = id
    BY TriedNext
  <2>3. n \in free
    BY <1>5, <2>1, <2>2
  <2>4. free \in SUBSET Nat /\ free # {}
    BY <2>3, MaxIdIsNat
  <2>5. Min(free) \in free
    BY <2>4, MinIsLeast
  <2> QED
    BY <1>1, <1>5, <1>7, <2>4, <2>5
<1> QED
  BY <1>6, <1>7

-----------------------------------------------------------------------------
(* A list is added. *)

(* The ID after an ID is an ID: the generator wraps around.                *)
LEMMA Follows == \A id \in IdsAndNone : Following(id) \in Ids
  BY MaxIdIsNat DEF Following

(* CacheIdGenerator::next() yields an ID.                                  *)
LEMMA FreshIdType ==
    ASSUME NEW t, t.next \in Ids PROVE FreshId(t) \in IdsAndNone
<1>1. NoId \in IdsAndNone /\ Ids \subseteq IdsAndNone
  BY MaxIdIsNat
<1> QED
  BY <1>1, FreshIdIsFree

(* What insert() changes in a tree: one list more, and the next ID.        *)
LEMMA InsertEffect ==
    ASSUME NEW t, TreeType(t), NEW list \in ListSet
    PROVE  /\ IsTree(Insert(t, list))
           /\ Insert(t, list).root = t.root
           /\ Insert(t, list).next = Following(FreshId(t))
           /\ Insert(t, list).lists = Put(t.lists, FreshId(t), list)
<1> DEFINE id == FreshId(t)
           lists == Put(t.lists, id, list)
<1>1. Insert(t, list) = [t EXCEPT !.lists = lists, !.next = Following(id)]
  BY DEF Insert
<1> HIDE DEF id, lists
<1>2. Insert(t, list) = [lists |-> lists, root |-> t.root, next |-> Following(id), inv |-> t.inv]
  BY <1>1 DEF TreeType, IsTree
<1> QED
  BY <1>2 DEF IsTree, id, lists

(* insert() keeps the type of a tree, and gives away a free ID.            *)
LEMMA InsertType ==
    ASSUME NEW t, TreeType(t), NEW list \in ListSet, list.kind # "devices"
    PROVE  /\ TreeType(Insert(t, list))
           /\ FreshId(t) # t.root
           /\ FreshId(t) \in IdsAndNone
           /\ DOMAIN Insert(t, list).lists = DOMAIN t.lists \cup {FreshId(t)}
           /\ Insert(t, list).root = t.root
           /\ Insert(t, list).lists[FreshId(t)] = list
           /\ \A l \in DOMAIN t.lists \ {FreshId(t)} : Insert(t, list).lists[l] = t.lists[l]
<1> DEFINE id == FreshId(t)
           u  == Insert(t, list)
<1>1. id \in IdsAndNone /\ Following(id) \in Ids
  BY FreshIdType, Follows DEF TreeType
<1>2. id # t.root
  BY FreshIdIsFree DEF TreeType, RootList
<1> HIDE DEF id
<1>3. /\ IsTree(u) /\ u.root = t.root /\ u.next = Following(id)
      /\ u.lists = Put(t.lists, id, list)
  BY InsertEffect DEF id
<1> HIDE DEF u
<1>4. /\ DOMAIN u.lists = DOMAIN t.lists \cup {id}
      /\ u.lists[id] = list
      /\ \A l \in DOMAIN t.lists \ {id} : u.lists[l] = t.lists[l]
  BY <1>3 DEF Put
<1>5. DOMAIN u.lists \subseteq IdsAndNone /\ u.next \in Ids
  BY <1>1, <1>3, <1>4 DEF TreeType
<1>6. u.lists \in [DOMAIN u.lists -> ListSet]
  <2>1. \A l \in DOMAIN u.lists : u.lists[l] \in ListSet
    BY <1>4 DEF TreeType
  <2>2. u.lists = [l \in DOMAIN u.lists |-> u.lists[l]]
    BY <1>3 DEF Put
  <2> QED
    BY <2>1, <2>2
<1>7. RootList(u)
  BY <1>2, <1>3, <1>4 DEF RootList, TreeType
<1> QED
  BY <1>1, <1>2, <1>3, <1>4, <1>5, <1>6, <1>7 DEF TreeType, u, id

(* The child ID of any item is a list ID or none.                          *)
LEMMA ItemChild ==
    ASSUME NEW item \in ItemSet, NEW id \in IdsAndNone
    PROVE  /\ [item EXCEPT !.child = id] \in ItemSet
           /\ [item EXCEPT !.child = id].child = id
           /\ item.child \in IdsAndNone
           /\ item \in DeviceItemSet => [item EXCEPT !.child = id] \in DeviceItemSet
  BY DEF ItemSet, DeviceItemSet, VolumeItemSet, DirItemSet

(* Replacing the child ID of a device item yields a device item.           *)
LEMMA DeviceChild ==
    ASSUME NEW item \in DeviceItemSet, NEW id \in IdsAndNone
    PROVE  /\ [item EXCEPT !.child = id] \in DeviceItemSet
           /\ [item EXCEPT !.child = id].vols = item.vols
  BY DEF DeviceItemSet

(* Linking an item to a child list keeps the type of a tree.               *)
LEMMA SetChildType ==
    ASSUME NEW t, TreeType(t), NEW l \in DOMAIN t.lists,
           NEW i \in DOMAIN t.lists[l].items, NEW id \in IdsAndNone
    PROVE  LET u == SetChildList(t, l, i, id)
           IN /\ TreeType(u)
              /\ u.root = t.root
              /\ DOMAIN u.lists = DOMAIN t.lists
              /\ \A k \in DOMAIN t.lists \ {l} : u.lists[k] = t.lists[k]
              /\ u.lists[l].kind = t.lists[l].kind
              /\ u.lists[l].parent = t.lists[l].parent
              /\ DOMAIN u.lists[l].items = DOMAIN t.lists[l].items
              /\ l = t.root => u.lists[l].items[i].vols = t.lists[l].items[i].vols
              /\ u.lists[l].items[i].child = id
              /\ \A j \in DOMAIN t.lists[l].items \ {i} :
                    u.lists[l].items[j] = t.lists[l].items[j]
<1> DEFINE u == SetChildList(t, l, i, id)
           new == [t.lists[l].items EXCEPT ![i] = [@ EXCEPT !.child = id]]
<1>1. t.lists[l] \in ListSet /\ t.lists[l].items \in Seq(ItemSet)
  BY DEF TreeType, ListSet
<1>2. /\ new \in Seq(ItemSet)
      /\ DOMAIN new = DOMAIN t.lists[l].items
      /\ new[i].child = id
      /\ \A j \in DOMAIN t.lists[l].items \ {i} : new[j] = t.lists[l].items[j]
  <2>1. t.lists[l].items[i] \in ItemSet
    BY <1>1
  <2>2. /\ [t.lists[l].items[i] EXCEPT !.child = id] \in ItemSet
        /\ [t.lists[l].items[i] EXCEPT !.child = id].child = id
    BY <2>1, ItemChild
  <2> QED
    BY <1>1, <2>2
<1>3. /\ IsTree(u) /\ u.root = t.root /\ u.next = t.next
      /\ u.lists = [t.lists EXCEPT ![l] = [@ EXCEPT !.items = new]]
  BY DEF SetChildList, TreeType, IsTree
<1>4. l = t.root => new \in Seq(DeviceItemSet) /\ new[i].vols = t.lists[l].items[i].vols
  <2> SUFFICES ASSUME l = t.root
               PROVE  new \in Seq(DeviceItemSet) /\ new[i].vols = t.lists[l].items[i].vols
    OBVIOUS
  <2>1. t.lists[l].items \in Seq(DeviceItemSet)
    BY DEF TreeType, RootList
  <2>2. t.lists[l].items[i] \in DeviceItemSet
    BY <2>1
  <2> DEFINE it == [t.lists[l].items[i] EXCEPT !.child = id]
  <2>3. new = [t.lists[l].items EXCEPT ![i] = it]
    OBVIOUS
  <2> HIDE DEF new, it
  <2>4. it \in DeviceItemSet /\ it.vols = t.lists[l].items[i].vols
    BY <2>2, DeviceChild DEF it
  <2> HIDE DEF DeviceItemSet
  <2>5. new \in Seq(DeviceItemSet) /\ new[i] = it
    BY <2>1, <2>3, <2>4
  <2> QED
    BY <2>4, <2>5
<1> HIDE DEF new, u
<1>5. /\ DOMAIN u.lists = DOMAIN t.lists
      /\ \A k \in DOMAIN t.lists \ {l} : u.lists[k] = t.lists[k]
      /\ u.lists[l] = [kind |-> t.lists[l].kind, parent |-> t.lists[l].parent, items |-> new]
  BY <1>1, <1>3 DEF TreeType, ListSet
<1>6. u.lists \in [DOMAIN u.lists -> ListSet]
  BY <1>1, <1>2, <1>3, <1>5 DEF TreeType, ListSet
<1>7. RootList(u)
  BY <1>3, <1>4, <1>5 DEF RootList, TreeType
<1>8. TreeType(u)
  BY <1>3, <1>5, <1>6, <1>7 DEF TreeType
<1>9. QED
  BY <1>2, <1>3, <1>4, <1>5, <1>8 DEF u

(* A new list is linked to the item that was entered. *)

NoLinks(items) == \A i \in DOMAIN items : items[i].child = NoId

(* A list is added and its parent item linked to it: the links stay right. *)
LEMMA AddChildInv ==
    ASSUME NEW t, TreeInv(t), NEW l \in DOMAIN t.lists, NEW i \in DOMAIN t.lists[l].items,
           t.lists[l].items[i].child = NoId,
           NEW kind, NEW items \in Seq(ItemSet), NoLinks(items),
           kind = IF l = t.root THEN "volumes" ELSE "dir",
           l = t.root => DOMAIN items = DOMAIN t.lists[l].items[i].vols
    PROVE  TreeInv(AddChild(t, l, i, kind, items).t)
<1> DEFINE id   == FreshId(t)
           list == NewList(kind, l, items)
           v    == Insert(t, list)
           u    == SetChildList(v, l, i, id)
<1>1. AddChild(t, l, i, kind, items).t = u
  BY DEF AddChild, Entry
<1>2. TreeType(t) /\ l \in IdsAndNone /\ t.next \in Ids
  BY DEF TreeInv, TreeType
<1>3. /\ list \in ListSet /\ list.kind # "devices" /\ list.kind = kind
      /\ list.parent = l /\ list.items = items
  BY <1>2 DEF NewList, ListSet
<1>4. IF Full(t) THEN id = NoId ELSE id \in Ids \ DOMAIN t.lists
  BY <1>2, FreshIdIsFree
<1> HIDE DEF id, list
<1>5. /\ TreeType(v) /\ id # t.root /\ id \in IdsAndNone /\ v.root = t.root
      /\ DOMAIN v.lists = DOMAIN t.lists \cup {id}
      /\ v.lists[id] = list
      /\ \A k \in DOMAIN t.lists \ {id} : v.lists[k] = t.lists[k]
  BY <1>2, <1>3, InsertType DEF id
<1> HIDE DEF v
<1>6. CASE Full(t) /\ i \notin DOMAIN v.lists[l].items
  <2> DEFINE new == [v.lists[l].items EXCEPT ![i] = [@ EXCEPT !.child = id]]
  <2>1. u.lists = v.lists /\ u.root = v.root /\ u.next = v.next /\ IsTree(u)
    <3>1. /\ IsTree(u) /\ u.root = v.root /\ u.next = v.next
          /\ u.lists = [v.lists EXCEPT ![l] = [@ EXCEPT !.items = new]]
      <4>1. IsTree(v)
        BY <1>5 DEF TreeType
      <4> QED
        BY <4>1 DEF SetChildList, IsTree
    <3>2. l \in DOMAIN v.lists /\ v.lists[l] \in ListSet /\ v.lists[l].items \in Seq(ItemSet)
      BY <1>5 DEF TreeType, ListSet
    <3>3. new = v.lists[l].items
      BY <1>6, <3>2
    <3> HIDE DEF new
    <3>4. [v.lists[l] EXCEPT !.items = new] = v.lists[l]
      BY <3>2, <3>3 DEF ListSet
    <3>5. [v.lists EXCEPT ![l] = [@ EXCEPT !.items = new]] = v.lists
      BY <1>5, <3>2, <3>4 DEF TreeType
    <3> QED
      BY <3>1, <3>5
  <2>2. TreeType(u) /\ Full(u)
    BY <1>5, <1>6, <2>1 DEF TreeType, RootList, Full
  <2> QED
    BY <1>1, <2>2 DEF TreeInv
<1>7. CASE i \in DOMAIN v.lists[l].items
  <2>1. /\ TreeType(u) /\ u.root = t.root
        /\ DOMAIN u.lists = DOMAIN t.lists \cup {id}
        /\ \A k \in DOMAIN v.lists \ {l} : u.lists[k] = v.lists[k]
        /\ u.lists[l].kind = v.lists[l].kind
        /\ u.lists[l].parent = v.lists[l].parent
        /\ DOMAIN u.lists[l].items = DOMAIN v.lists[l].items
        /\ l = t.root => u.lists[l].items[i].vols = v.lists[l].items[i].vols
        /\ u.lists[l].items[i].child = id
        /\ \A j \in DOMAIN v.lists[l].items \ {i} :
              u.lists[l].items[j] = v.lists[l].items[j]
    BY <1>5, <1>7, SetChildType
  <2> HIDE DEF u
  <2>2. CASE Full(t)
    BY <1>1, <2>1, <2>2 DEF TreeInv, Full
  <2>3. CASE ~Full(t)
    <3>1. id \in Ids \ DOMAIN t.lists /\ Sound(t) /\ Matched(t) /\ id # NoId /\ id # l
      BY <1>4, <2>3, MaxIdIsNat DEF TreeInv
    <3>2. \A k \in DOMAIN t.lists : v.lists[k] = t.lists[k]
      BY <1>5, <3>1
    <3>3. IdsInUse(u)
      BY <2>1, <3>1 DEF IdsInUse, Sound
    <3>4. /\ u.lists[id] = list
          /\ \A k \in DOMAIN t.lists : /\ u.lists[k].kind = t.lists[k].kind
                                       /\ u.lists[k].parent = t.lists[k].parent
                                       /\ DOMAIN u.lists[k].items = DOMAIN t.lists[k].items
          /\ \A k \in DOMAIN t.lists : \A j \in DOMAIN t.lists[k].items :
                u.lists[k].items[j].child = IF k = l /\ j = i THEN id
                                            ELSE t.lists[k].items[j].child
      BY <1>5, <2>1, <3>1, <3>2
    <3>5. ParentsRight(u)
      BY <1>3, <2>1, <3>1, <3>4 DEF ParentsRight, Sound, TreeType, RootList
    <3>6. ASSUME NEW k \in DOMAIN u.lists, NEW j \in DOMAIN u.lists[k].items
          PROVE  LinkRight(u, k, j)
      <4>1. CASE k = id
        BY <1>3, <3>4, <3>6, <4>1 DEF LinkRight, NoLinks
      <4>2. CASE k # id
        <5>1. k \in DOMAIN t.lists /\ j \in DOMAIN t.lists[k].items
          BY <2>1, <3>4, <3>6, <4>2
        <5>2. LinkRight(t, k, j)
          BY <3>1, <5>1 DEF Sound, LinksRight
        <5>3. \A m \in DOMAIN t.lists[k].items :
                 t.lists[k].items[m].child # id
          BY <3>1, <5>1 DEF Sound, LinksRight, LinkRight
        <5>4. CASE k = l /\ j = i
          BY <1>3, <2>1, <3>1, <3>4, <5>1, <5>3, <5>4 DEF LinkRight
        <5>5. CASE ~(k = l /\ j = i)
          BY <2>1, <3>1, <3>4, <5>1, <5>2, <5>3, <5>5 DEF LinkRight
        <5> QED
          BY <5>4, <5>5
      <4> QED
        BY <4>1, <4>2
    <3>7. LinksRight(u)
      BY <3>6 DEF LinksRight
    <3>8. ASSUME NEW j \in DOMAIN u.lists[u.root].items, u.lists[u.root].items[j].child # NoId
          PROVE  DOMAIN u.lists[u.lists[u.root].items[j].child].items
                    = DOMAIN u.lists[u.root].items[j].vols
      <4>1. t.root \in DOMAIN t.lists /\ j \in DOMAIN t.lists[t.root].items
            /\ t.lists[t.root].items \in Seq(DeviceItemSet)
        BY <1>2, <2>1, <3>4, <3>8 DEF TreeType, RootList
      <4>2. CASE l = t.root /\ j = i
        <5>1. u.lists[l].items[i].vols = v.lists[l].items[i].vols
          BY <2>1, <4>2
        <5>2. v.lists[l] = t.lists[l] /\ u.root = l
          BY <2>1, <3>2, <4>2
        <5>3. u.lists[l].items[i].child = id /\ u.lists[id].items = items
          BY <1>3, <2>1, <3>4
        <5>4. DOMAIN items = DOMAIN t.lists[l].items[i].vols
          BY <4>2
        <5>5. u.lists[l].items[i].vols = t.lists[l].items[i].vols
          BY <5>1, <5>2
        <5> QED
          BY ONLY <4>2, <5>2, <5>3, <5>4, <5>5
      <4>3. CASE ~(l = t.root /\ j = i)
        <5>1. u.lists[u.root].items[j] = t.lists[t.root].items[j]
          <6>1. CASE l = t.root
            <7>1. j \in DOMAIN v.lists[l].items \ {i} /\ v.lists[l] = t.lists[l]
              BY <3>2, <4>1, <4>3, <6>1
            <7> QED
              BY <2>1, <6>1, <7>1
          <6>2. CASE l # t.root
            BY <1>5, <2>1, <3>2, <4>1, <6>2
          <6> QED
            BY <6>1, <6>2
        <5>2. t.lists[t.root].items[j].child \in DOMAIN t.lists
          BY <3>1, <3>8, <4>1, <5>1 DEF Sound, LinksRight, LinkRight
        <5> QED
          BY <3>1, <3>4, <3>8, <4>1, <5>1, <5>2 DEF Matched
      <4> QED
        BY <4>2, <4>3
    <3>9. Matched(u)
      BY <3>8 DEF Matched
    <3> QED
      BY <1>1, <2>1, <3>3, <3>5, <3>7, <3>9 DEF TreeInv, Sound
  <2> QED
    BY <2>2, <2>3
<1>8. ~Full(t) => i \in DOMAIN v.lists[l].items
  BY <1>4, <1>5
<1> QED
  BY <1>6, <1>7, <1>8

-----------------------------------------------------------------------------
(* The items of new lists *)

(* The items of a new list of volumes link to nothing yet.                 *)
LEMMA VolumeItemsType ==
    ASSUME NEW item \in DeviceItemSet
    PROVE  /\ VolumeItems(item) \in Seq(ItemSet) /\ NoLinks(VolumeItems(item))
           /\ DOMAIN VolumeItems(item) = DOMAIN item.vols
<1>1. item.vols \in Seq(Nat) /\ item.dev \in Devices
  BY DEF DeviceItemSet
<1>2. \A n \in DOMAIN item.vols : /\ VolumeItem(item.dev, item.vols[n]) \in ItemSet
                                  /\ VolumeItem(item.dev, item.vols[n]).child = NoId
  BY <1>1, MaxIdIsNat DEF VolumeItem, VolumeItemSet, ItemSet
<1> QED
  BY <1>1, <1>2 DEF VolumeItems, NoLinks

EntrySet == [name : Nat, dir : BOOLEAN]

Directory(S) == /\ IsFiniteSet(S) /\ S \subseteq EntrySet
                /\ \A e, f \in S : e.name = f.name => e = f

Ordered(s) == \A i, j \in DOMAIN s : i < j => s[i].name < s[j].name

(* A name is put in its place in a sorted sequence.                        *)
LEMMA InsertedInOrder ==
    ASSUME NEW n \in Nat, NEW S, S \subseteq EntrySet, NEW s \in [1..n -> S], Ordered(s),
           NEW x \in EntrySet, \A i \in 1..n : s[i].name # x.name
    PROVE  \E r \in [1..n + 1 -> S \cup {x}] : Ordered(r)
<1> DEFINE T == {k \in 1..n + 1 : k <= n => s[k].name > x.name}
<1>1. n + 1 \in T /\ T \in SUBSET Nat
  OBVIOUS
<1>2. PICK k \in T : \A j \in T : k <= j
  BY <1>1, LeastOne
<1>3. k \in 1..n + 1
  OBVIOUS
<1>4. \A i \in 1..n : s[i] \in S /\ s[i].name \in Nat /\ x.name \in Nat
  BY DEF EntrySet
<1>5. \A i \in 1..n : i < k => s[i].name < x.name
  <2> SUFFICES ASSUME NEW i \in 1..n, i < k PROVE s[i].name < x.name
    OBVIOUS
  <2>1. i \notin T
    BY <1>2, <1>3
  <2> QED
    BY <1>4, <2>1
<1>6. \A i \in 1..n : i >= k => s[i].name > x.name
  <2> SUFFICES ASSUME NEW i \in 1..n, i >= k PROVE s[i].name > x.name
    OBVIOUS
  <2>1. k \in 1..n /\ s[k].name > x.name
    BY <1>2, <1>3
  <2>2. i = k \/ s[k].name < s[i].name
    BY <2>1 DEF Ordered
  <2> QED
    BY <1>4, <2>1, <2>2
<1> DEFINE r == [i \in 1..n + 1 |-> IF i < k THEN s[i] ELSE IF i = k THEN x ELSE s[i - 1]]
<1> HIDE DEF T
<1>7. \A i \in 1..n + 1 : r[i] \in S \cup {x}
  BY <1>3
<1>8. ASSUME NEW i \in 1..n + 1, NEW j \in 1..n + 1, i < j PROVE r[i].name < r[j].name
  <2>1. CASE j < k
    <3>1. i \in 1..n /\ j \in 1..n /\ r[i] = s[i] /\ r[j] = s[j]
      BY <1>3, <1>8, <2>1
    <3> QED
      BY <1>8, <3>1 DEF Ordered
  <2>2. CASE j = k
    <3>1. i \in 1..n /\ i < k /\ r[i] = s[i] /\ r[j] = x
      BY <1>3, <1>8, <2>2
    <3> QED
      BY <1>5, <3>1
  <2>3. CASE i = k
    <3>1. j - 1 \in 1..n /\ j - 1 >= k /\ r[j] = s[j - 1] /\ r[i] = x
      BY <1>3, <1>8, <2>3
    <3> QED
      BY <1>4, <1>6, <3>1
  <2>4. CASE j > k /\ i < k
    <3>1. /\ i \in 1..n /\ j - 1 \in 1..n /\ j - 1 >= k /\ i < j - 1
          /\ r[i] = s[i] /\ r[j] = s[j - 1]
      BY <1>3, <1>8, <2>4
    <3> QED
      BY <3>1 DEF Ordered
  <2>5. CASE i > k
    <3>1. /\ i - 1 \in 1..n /\ j - 1 \in 1..n /\ i - 1 < j - 1
          /\ r[i] = s[i - 1] /\ r[j] = s[j - 1]
      BY <1>3, <1>8, <2>5
    <3> QED
      BY <3>1 DEF Ordered
  <2> QED
    BY <1>3, <1>8, <2>1, <2>2, <2>3, <2>4, <2>5
<1>9. r \in [1..n + 1 -> S \cup {x}] /\ Ordered(r)
  <2>1. r \in [1..n + 1 -> S \cup {x}]
    BY <1>7
  <2> HIDE DEF r
  <2> QED
    BY <1>8, <2>1 DEF Ordered
<1> QED
  BY <1>9

(* A directory can be sorted. *)
LEMMA OrderExists ==
    ASSUME NEW S, Directory(S)
    PROVE  \E s \in [1..Cardinality(S) -> S] : Ordered(s)
<1> DEFINE P == {n \in Nat : \A D : Directory(D) /\ Cardinality(D) = n
                                       => \E s \in [1..n -> D] : Ordered(s)}
<1>1. 0 \in P
  <2> SUFFICES ASSUME NEW D, Directory(D), Cardinality(D) = 0
               PROVE  \E s \in [1..0 -> D] : Ordered(s)
    OBVIOUS
  <2>1. [i \in 1..0 |-> i] \in [1..0 -> D] /\ Ordered([i \in 1..0 |-> i])
    BY DEF Ordered
  <2> QED
    BY <2>1
<1>2. ASSUME NEW n \in Nat, n \in P PROVE n + 1 \in P
  <2> SUFFICES ASSUME NEW D, Directory(D), Cardinality(D) = n + 1
               PROVE  \E s \in [1..n + 1 -> D] : Ordered(s)
    OBVIOUS
  <2>1. D # {} /\ IsFiniteSet(D)
    BY FS_EmptySet DEF Directory
  <2>2. PICK x \in D : TRUE
    BY <2>1
  <2>3. IsFiniteSet(D \ {x}) /\ Cardinality(D \ {x}) = n
    BY <2>1, <2>2, FS_RemoveElement
  <2>4. Directory(D \ {x})
    BY <2>3 DEF Directory
  <2>5. PICK s \in [1..n -> D \ {x}] : Ordered(s)
    BY <1>2, <2>3, <2>4
  <2>6. \A i \in 1..n : s[i].name # x.name
    BY <2>2 DEF Directory
  <2>7. D \ {x} \subseteq EntrySet /\ x \in EntrySet /\ (D \ {x}) \cup {x} = D
    BY <2>2 DEF Directory
  <2>8. \E r \in [1..n + 1 -> (D \ {x}) \cup {x}] : Ordered(r)
    BY <2>5, <2>6, <2>7, InsertedInOrder
  <2> QED
    BY <2>7, <2>8
<1> HIDE DEF P
<1>3. Nat \subseteq P
  BY <1>1, <1>2, UpFromZero
<1>4. Cardinality(S) \in Nat
  BY FS_CardinalityType DEF Directory
<1> QED
  BY <1>3, <1>4 DEF P

(* A sorted directory has the entries of the directory, in some order.     *)
LEMMA ByNameType ==
    ASSUME NEW S, Directory(S) PROVE ByName(S) \in Seq(EntrySet)
<1>1. \E s \in [1..Cardinality(S) -> S] : Ordered(s)
  BY OrderExists
<1>2. ByName(S) \in [1..Cardinality(S) -> S]
  BY <1>1 DEF ByName, Ordered
<1>3. Cardinality(S) \in Nat /\ S \subseteq EntrySet
  BY FS_CardinalityType DEF Directory
<1>4. ByName(S) \in [1..Cardinality(S) -> EntrySet]
  BY <1>2, <1>3
<1> HIDE DEF EntrySet
<1> QED
  BY <1>3, <1>4

(* The items of a new directory list link to nothing yet.                  *)
LEMMA DirItemsType ==
    ASSUME NEW S, Directory(S) PROVE DirItems(S) \in Seq(ItemSet) /\ NoLinks(DirItems(S))
<1> DEFINE dirs   == {e \in S : e.dir}
           files  == {e \in S : ~e.dir}
           sorted == ByName(dirs) \o ByName(files)
<1>1. Directory(dirs) /\ Directory(files)
  <2>1. IsFiniteSet(dirs) /\ IsFiniteSet(files)
    BY FS_Subset DEF Directory
  <2> QED
    BY <2>1 DEF Directory
<1> HIDE DEF dirs, files
<1>2. sorted \in Seq(EntrySet)
  BY <1>1, ByNameType
<1>3. DirItems(S) = [n \in DOMAIN sorted |-> DirItem(sorted[n])]
  BY DEF DirItems, dirs, files
<1> HIDE DEF sorted
<1>4. \A e \in EntrySet : DirItem(e) \in ItemSet /\ DirItem(e).child = NoId
  BY MaxIdIsNat DEF DirItem, DirItemSet, EntrySet, ItemSet
<1> HIDE DEF EntrySet
<1> QED
  BY <1>2, <1>3, <1>4 DEF NoLinks

-----------------------------------------------------------------------------
(* enter_child() *)

MountsType(fs) == fs \in [Devices -> MountSet]

(* A directory that can be read has well-formed entries.                   *)
LEMMA ReadableDirectory ==
    ASSUME NEW fs, MountsType(fs), NEW d, NEW path, Readable(fs, d, path)
    PROVE  Directory(Contents[fs[d].content][path])
<1>1. d \in Devices /\ fs[d].content \in DOMAIN Contents /\ path \in DOMAIN Contents[fs[d].content]
  BY DEF Readable, MountsType, MountSet
<1> QED
  BY <1>1, UsbListsAssumption DEF Directory, EntrySet

(* A child list is filled, cached and linked to its parent item.           *)
LEMMA AttachInv ==
    ASSUME NEW t, TreeInv(t), NEW fs, MountsType(fs), NEW d, NEW path,
           NEW l \in DOMAIN t.lists, NEW i \in DOMAIN t.lists[l].items,
           t.lists[l].items[i].child = NoId, l # t.root
    PROVE  TreeInv(AttachNewDirlist(t, fs, l, i, d, path).t)
<1>1. CASE Readable(fs, d, path)
  <2> DEFINE items == DirItems(Contents[fs[d].content][path])
  <2>1. items \in Seq(ItemSet) /\ NoLinks(items)
    BY <1>1, ReadableDirectory, DirItemsType
  <2>2. AttachNewDirlist(t, fs, l, i, d, path) = AddChild(t, l, i, "dir", items)
    BY <1>1 DEF AttachNewDirlist
  <2> HIDE DEF items
  <2>3. TreeInv(AddChild(t, l, i, "dir", items).t)
    BY <2>1, AddChildInv
  <2> QED
    BY <2>2, <2>3
<1>2. CASE ~Readable(fs, d, path)
  <2> DEFINE id   == FreshId(t)
             list == NewList("dir", l, <<>>)
             u    == Insert(t, list)
  <2>1. AttachNewDirlist(t, fs, l, i, d, path).t = u
    BY <1>2 DEF AttachNewDirlist, Entry
  <2>2. TreeType(t) /\ l \in IdsAndNone /\ t.next \in Ids
    BY DEF TreeInv, TreeType
  <2>3. /\ list \in ListSet /\ list.kind = "dir"
        /\ list.parent = l /\ list.items = <<>>
    BY <2>2 DEF NewList, ListSet
  <2>4. IF Full(t) THEN id = NoId ELSE id \in Ids \ DOMAIN t.lists
    BY <2>2, FreshIdIsFree
  <2> HIDE DEF id, list
  <2>5. /\ TreeType(u) /\ id # t.root /\ u.root = t.root
        /\ DOMAIN u.lists = DOMAIN t.lists \cup {id}
        /\ u.lists[id] = list
        /\ \A k \in DOMAIN t.lists \ {id} : u.lists[k] = t.lists[k]
    BY <2>2, <2>3, InsertType DEF id
  <2> HIDE DEF u
  <2>6. CASE Full(t)
    BY <2>1, <2>5, <2>6 DEF TreeInv, Full
  <2>7. CASE ~Full(t)
    <3>1. id \in Ids \ DOMAIN t.lists /\ Sound(t) /\ Matched(t) /\ id # NoId /\ id # l
      BY <2>4, <2>7, MaxIdIsNat DEF TreeInv
    <3>2. IdsInUse(u) /\ ParentsRight(u)
      BY <2>3, <2>5, <3>1 DEF IdsInUse, ParentsRight, Sound, TreeType, RootList
    <3>3. \A k \in DOMAIN t.lists : u.lists[k] = t.lists[k]
      BY <2>5, <3>1
    <3>4. ASSUME NEW k \in DOMAIN u.lists, NEW j \in DOMAIN u.lists[k].items
          PROVE  LinkRight(u, k, j)
      <4>1. k # id
        BY <2>3, <2>5, <3>4
      <4>2. k \in DOMAIN t.lists /\ j \in DOMAIN t.lists[k].items /\ LinkRight(t, k, j)
        BY <2>5, <3>1, <3>3, <3>4, <4>1 DEF Sound, LinksRight
      <4> QED
        BY <2>5, <3>3, <4>2 DEF LinkRight
    <3>5. LinksRight(u)
      BY <3>4 DEF LinksRight
    <3>6. ASSUME NEW j \in DOMAIN t.lists[t.root].items, t.lists[t.root].items[j].child # NoId
          PROVE  t.lists[t.root].items[j].child \in DOMAIN t.lists
      BY <3>1, <3>6 DEF Sound, LinksRight, LinkRight, TreeType, RootList
    <3>7. t.root \in DOMAIN t.lists
      BY <2>2 DEF TreeType, RootList
    <3>8. Matched(u)
      BY <2>5, <3>1, <3>3, <3>6, <3>7 DEF Matched
    <3> QED
      BY <2>1, <2>5, <3>2, <3>5, <3>8 DEF TreeInv, Sound
  <2> QED
    BY <2>6, <2>7
<1> QED
  BY <1>1, <1>2

(* enter_child(), whether the list is cached, readable or neither.         *)
LEMMA EnterChildInv ==
    ASSUME NEW t, TreeInv(t), NEW fs, MountsType(fs), NEW l, NEW i
    PROVE  TreeInv(EnterChild(t, fs, l, i).t)
<1>1. CASE ~Cached(t, l) \/ i \notin DOMAIN Items(t, l)
  BY <1>1 DEF EnterChild, Entry
<1>2. CASE Cached(t, l) /\ i \in DOMAIN Items(t, l) /\ Items(t, l)[i].child # NoId
  BY <1>2 DEF EnterChild, Entry
<1>3. CASE Cached(t, l) /\ i \in DOMAIN Items(t, l) /\ Items(t, l)[i].child = NoId
  <2>1. EnterChild(t, fs, l, i) = EnterNewChild(t, fs, l, i)
    BY <1>3 DEF EnterChild
  <2>2. /\ l \in DOMAIN t.lists /\ i \in DOMAIN t.lists[l].items
        /\ t.lists[l].items[i].child = NoId
        /\ t.lists[l].kind = "devices" <=> l = t.root
        /\ t.lists[t.root].items \in Seq(DeviceItemSet)
    BY <1>3 DEF Cached, Items, TreeInv, TreeType, RootList
  <2>3. CASE l = t.root
    <3>1. EnterNewChild(t, fs, l, i) = AddChild(t, l, i, "volumes", VolumeItems(t.lists[l].items[i]))
      BY <2>2, <2>3 DEF EnterNewChild, EnterDevice, IsDirectory, Items
    <3>2. t.lists[l].items[i] \in DeviceItemSet
      BY <2>2, <2>3
    <3> DEFINE items == VolumeItems(t.lists[l].items[i])
    <3>3. /\ items \in Seq(ItemSet) /\ NoLinks(items)
          /\ DOMAIN items = DOMAIN t.lists[l].items[i].vols
      BY <3>2, VolumeItemsType
    <3> HIDE DEF items
    <3>4. TreeInv(AddChild(t, l, i, "volumes", items).t)
      BY <2>2, <2>3, <3>3, AddChildInv
    <3> QED
      BY <2>1, <3>1, <3>4 DEF items
  <2>4. CASE l # t.root /\ IsDirectory(t, l, i)
    <3> DEFINE d    == DeviceOf(t, OnWay(t, l, i))
               path == FsPath(t, OnWay(t, l, i))
    <3>1. EnterNewChild(t, fs, l, i) = AttachNewDirlist(t, fs, l, i, d, path)
      BY <2>2, <2>4 DEF EnterNewChild
    <3> HIDE DEF d, path
    <3> QED
      BY <2>1, <2>2, <2>4, <3>1, AttachInv
  <2>5. CASE l # t.root /\ ~IsDirectory(t, l, i)
    <3>1. EnterNewChild(t, fs, l, i) = Entry(t, NoId, "INVALID_ID")
      BY <2>2, <2>5 DEF EnterNewChild
    <3> QED
      BY <2>1, <3>1 DEF Entry
  <2> QED
    BY <2>3, <2>4, <2>5
<1> QED
  BY <1>1, <1>2, <1>3

-----------------------------------------------------------------------------
(* Realizing a location *)

WalkInv(w) ==
    /\ w = [t |-> w.t, dir |-> w.dir, cand |-> w.cand, link |-> w.link, res |-> w.res,
            ref |-> w.ref, steps |-> w.steps, err |-> w.err]
    /\ TreeInv(w.t)

(* A walk starts at the root of a sound tree.                              *)
LEMMA StartInv == ASSUME NEW t, TreeInv(t) PROVE WalkInv(Start(t))
  BY DEF Start, WalkInv

(* follow_path() enters the device, then the volume.                       *)
LEMMA EnterVolumeInv ==
    ASSUME NEW t, TreeInv(t), NEW fs, MountsType(fs), NEW dev, NEW vol
    PROVE  WalkInv(EnterVolume(t, fs, dev, vol))
<1>1. ASSUME NEW w, WalkInv(w), NEW here, NEW top, TreeInv(top.t)
      PROVE  WalkInv(AtVolume(w, here, top))
  BY <1>1 DEF AtVolume, WalkInv
<1>2. ASSUME NEW w, WalkInv(w), NEW vols
      PROVE  WalkInv(AtDevice(fs, w, vols, vol))
  <2> DEFINE v   == IF vol = Empty THEN 0 ELSE VolumeByName(w.t, vols, vol)
             top == EnterChild(w.t, fs, vols, v)
  <2>1. TreeInv(top.t)
    BY <1>2, EnterChildInv DEF WalkInv
  <2>2. AtDevice(fs, w, vols, vol) =
           IF v = 0 THEN [w EXCEPT !.res = w.cand,
                                   !.err = IF vol = Empty THEN "OK" ELSE "NOT_FOUND"]
           ELSE AtVolume(w, Link(vols, v), top)
    BY DEF AtDevice
  <2> HIDE DEF v, top
  <2>3. CASE v = 0
    BY <1>2, <2>2, <2>3 DEF WalkInv
  <2>4. CASE v # 0
    BY <1>1, <1>2, <2>1, <2>2, <2>4
  <2> QED
    BY <2>3, <2>4
<1>3. ASSUME NEW device, NEW vols, TreeInv(vols.t)
      PROVE  WalkInv(InDevice(fs, device, vols, vol))
  <2>1. WalkInv([Start(vols.t) EXCEPT !.cand = device])
    BY <1>3, StartInv DEF WalkInv
  <2> QED
    BY <1>2, <2>1 DEF InDevice
<1> DEFINE d == DeviceByName(t, dev)
<1>4. CASE dev = Empty \/ d = 0
  <2>1. \/ EnterVolume(t, fs, dev, vol) = [Start(t) EXCEPT !.err = "INTERNAL"]
        \/ EnterVolume(t, fs, dev, vol) = [Start(t) EXCEPT !.err = "NOT_FOUND"]
    BY <1>4 DEF EnterVolume
  <2> QED
    BY <2>1, StartInv DEF WalkInv
<1>5. CASE dev # Empty /\ d # 0
  <2>1. EnterVolume(t, fs, dev, vol)
           = InDevice(fs, Link(t.root, d), EnterChild(t, fs, t.root, d), vol)
    BY <1>5 DEF EnterVolume
  <2> HIDE DEF d
  <2> QED
    BY <1>3, <2>1, EnterChildInv
<1> QED
  BY <1>4, <1>5

(* follow_path() enters the directory of one path component.               *)
LEMMA FollowItemInv ==
    ASSUME NEW fs, MountsType(fs), NEW w, WalkInv(w), NEW i, NEW isLast, NEW how
    PROVE  WalkInv(FollowItem(fs, w, i, isLast, how))
<1> DEFINE linked == [w EXCEPT !.link = w.cand]
           next   == EnterChild(w.t, fs, w.dir, i)
<1>1. WalkInv(linked)
  BY DEF WalkInv
<1>2. TreeInv(next.t)
  BY EnterChildInv DEF WalkInv
<1> HIDE DEF linked, next
<1>3. WalkInv(Descend(linked, Link(w.dir, i), next))
  BY <1>1, <1>2 DEF Descend, WalkInv
<1>4. \/ FollowItem(fs, w, i, isLast, how) = w
      \/ FollowItem(fs, w, i, isLast, how) = [w EXCEPT !.err = "NOT_FOUND"]
      \/ FollowItem(fs, w, i, isLast, how) = Descend(linked, Link(w.dir, i), next)
      \/ FollowItem(fs, w, i, isLast, how) = [linked EXCEPT !.err = "NOT_FOUND"]
      \/ FollowItem(fs, w, i, isLast, how)
            = [linked EXCEPT !.res = Link(w.dir, i), !.steps = @ + 1,
                             !.err = IF isLast THEN "OK" ELSE "NOT_FOUND"]
  BY DEF FollowItem, linked, next
<1> QED
  BY <1>1, <1>3, <1>4 DEF WalkInv

(* follow_path(), by induction on the number of components *)
LEMMA FollowPathInv ==
    ASSUME NEW fs, MountsType(fs), NEW w, WalkInv(w), NEW path \in Seq(Nat), NEW how
    PROVE  WalkInv(FollowPath(fs, w, path, how))
<1> DEFINE Step(a, n) == FollowComponent(fs, a, path[n], n = Len(path), how)
           walk[n \in 0..Len(path)] == IF n = 0 THEN w ELSE Step(walk[n - 1], n)
           IsWalk(f, m) == f = [n \in 0..m |-> IF n = 0 THEN w ELSE Step(f[n - 1], n)]
           M == {m \in Nat : \E f : IsWalk(f, m)}
           S == {n \in Nat : n <= Len(path) => WalkInv(walk[n])}
<1>1. \A a, n : WalkInv(a) => WalkInv(Step(a, n))
  BY FollowItemInv DEF FollowComponent
<1>2. CASE w.err # "OK" \/ w.dir = NoId
  BY <1>2 DEF FollowPath, WalkInv
<1>3. CASE w.err = "OK" /\ w.dir # NoId
  <2>1. FollowPath(fs, w, path, how) = walk[Len(path)]
    BY <1>3 DEF FollowPath
  <2> HIDE DEF Step
  <2>2. Len(path) \in M
    <3>1. 0 \in M
      <4>1. IsWalk([n \in 0..0 |-> w], 0)
        OBVIOUS
      <4> QED
        BY <4>1
    <3>2. ASSUME NEW m \in Nat, m \in M PROVE m + 1 \in M
      <4>1. PICK f : IsWalk(f, m)
        BY <3>2
      <4> DEFINE g == [n \in 0..m + 1 |-> IF n <= m THEN f[n] ELSE Step(f[m], m + 1)]
      <4>2. \A n \in 0..m : f[n] = IF n = 0 THEN w ELSE Step(f[n - 1], n)
        BY <4>1
      <4>3. ASSUME NEW n \in 0..m + 1 PROVE g[n] = IF n = 0 THEN w ELSE Step(g[n - 1], n)
        <5>1. CASE n = 0
          BY <4>2, <5>1
        <5>2. CASE n \in 1..m
          <6>1. n \in 0..m /\ n - 1 \in 0..m /\ n # 0
            BY <5>2
          <6> QED
            BY <4>2, <6>1
        <5>3. CASE n = m + 1
          BY <5>3
        <5> QED
          BY <5>1, <5>2, <5>3
      <4>4. IsWalk(g, m + 1)
        BY <4>3
      <4> HIDE DEF g, IsWalk
      <4> QED
        BY <4>4
    <3> HIDE DEF M
    <3>3. Nat \subseteq M
      BY <3>1, <3>2, UpFromZero
    <3> QED
      BY <3>3
  <2>3. walk = [n \in 0..Len(path) |-> IF n = 0 THEN w ELSE Step(walk[n - 1], n)]
    BY <2>2
  <2> HIDE DEF walk
  <2>4. \A n \in 0..Len(path) : walk[n] = IF n = 0 THEN w ELSE Step(walk[n - 1], n)
    BY <2>3
  <2>5. 0 \in S
    BY <2>4
  <2>6. ASSUME NEW n \in Nat, n \in S PROVE n + 1 \in S
    <3> SUFFICES ASSUME n + 1 <= Len(path) PROVE WalkInv(walk[n + 1])
      OBVIOUS
    <3>1. WalkInv(walk[n]) /\ n + 1 \in 0..Len(path) /\ n + 1 # 0 /\ (n + 1) - 1 = n
      BY <2>6
    <3>2. walk[n + 1] = Step(walk[n], n + 1)
      BY <2>4, <3>1
    <3> QED
      BY <1>1, <3>1, <3>2
  <2> HIDE DEF S
  <2>7. Nat \subseteq S
    BY <2>5, <2>6, UpFromZero
  <2>8. WalkInv(walk[Len(path)])
    BY <2>7 DEF S
  <2> QED
    BY <2>1, <2>8
<1> QED
  BY <1>2, <1>3

(* A location key is followed with a tree that collects no signals yet.    *)
LEMMA Restarted ==
    ASSUME NEW w, WalkInv(w)
    PROVE  WalkInv([w EXCEPT !.ref = w.cand, !.steps = 0])
<1>1. WalkInv([w EXCEPT !.ref = w.cand])
  BY DEF WalkInv
<1>2. ASSUME NEW x, WalkInv(x) PROVE WalkInv([x EXCEPT !.steps = 0])
  BY <1>2 DEF WalkInv
<1>3. WalkInv([[w EXCEPT !.ref = w.cand] EXCEPT !.steps = 0])
  BY <1>1, <1>2
<1> QED
  BY <1>3

(* Realizing a location adds lists to the tree and keeps it sound.         *)
LEMMA RealizeInv ==
    ASSUME NEW t, TreeInv(t), NEW fs, MountsType(fs), NEW key \in Keys
    PROVE  TreeInv(RealizeLocation(t, fs, key).t)
<1> DEFINE w == EnterVolume(t, fs, key.dev, key.vol)
<1>1. WalkInv(w)
  BY EnterVolumeInv
<1>2. /\ key.ref \in Seq(Nat) /\ key.item \in Seq(Nat)
      /\ key.scheme \in {"simple", "reference", "trace"}
  BY UsbBrokerAssumption
<1> HIDE DEF w
<1>3. WalkInv(RealizeSimple(fs, w, key))
  BY <1>1, <1>2, FollowPathInv DEF RealizeSimple
<1>4. WalkInv(FollowPath(fs, w, key.ref, Reference))
  BY <1>1, <1>2, FollowPathInv
<1>5. WalkInv(RealizeReference(fs, w, key))
  BY <1>2, <1>4, FollowPathInv DEF RealizeReference
<1>6. WalkInv(RealizeTrace(fs, w, key))
  <2> DEFINE r == FollowPath(fs, w, key.ref, Reference)
  <2>1. WalkInv(r)
    BY <1>4
  <2> HIDE DEF r
  <2>2. WalkInv([r EXCEPT !.ref = r.cand, !.steps = 0])
    BY <2>1, Restarted
  <2>3. WalkInv(FromReference(fs, r, key))
    BY <1>2, <2>1, <2>2, FollowPathInv DEF FromReference
  <2> QED
    BY <2>3 DEF RealizeTrace, r
<1>7. WalkInv(RealizeInVolume(fs, w, key))
  BY <1>2, <1>3, <1>5, <1>6 DEF RealizeInVolume
<1> QED
  BY <1>7 DEF RealizeLocation, WalkInv, w

-----------------------------------------------------------------------------
(* The signals that a tree collects make no difference to its lists. *)

(* A tree is as sound with other signals collected.                        *)
LEMMA InvAside ==
    ASSUME NEW t, IsTree(t), NEW x
    PROVE  LET u == [t EXCEPT !.inv = x]
           IN /\ IsTree(u) /\ u.lists = t.lists /\ u.root = t.root /\ u.next = t.next
              /\ Sound(t) => Sound(u)
              /\ Matched(t) => Matched(u)
<1> DEFINE u == [t EXCEPT !.inv = x]
<1>1. IsTree(u) /\ u.lists = t.lists /\ u.root = t.root /\ u.next = t.next
  BY DEF IsTree
<1> HIDE DEF u
<1>2. Sound(t) => Sound(u)
  BY <1>1 DEF Sound, TreeType, RootList, IdsInUse, ParentsRight, LinksRight, LinkRight
<1>3. Matched(t) => Matched(u)
  BY <1>1 DEF Matched
<1> QED
  BY <1>1, <1>2, <1>3 DEF u

(* Other items in one of the lists *)
LEMMA NewItems ==
    ASSUME NEW t, Sound(t), NEW l \in DOMAIN t.lists, NEW items \in Seq(ItemSet),
           l = t.root => items \in Seq(DeviceItemSet),
           \A i \in DOMAIN items : items[i].child # NoId =>
               /\ \E k \in DOMAIN t.lists[l].items : t.lists[l].items[k].child = items[i].child
               /\ \A j \in DOMAIN items : items[j].child = items[i].child => j = i
    PROVE  LET u == [t EXCEPT !.lists[l].items = items]
           IN /\ Sound(u)
              /\ u.root = t.root
              /\ u.inv = t.inv
              /\ DOMAIN u.lists = DOMAIN t.lists
              /\ \A k \in DOMAIN t.lists \ {l} : u.lists[k] = t.lists[k]
              /\ u.lists[l].kind = t.lists[l].kind
              /\ u.lists[l].parent = t.lists[l].parent
              /\ u.lists[l].items = items
<1> DEFINE u == [t EXCEPT !.lists[l].items = items]
<1>1. TreeType(t) /\ IsTree(t)
  BY DEF Sound, TreeType
<1>2. t.lists[l] \in ListSet
  BY <1>1 DEF TreeType
<1>3. /\ IsTree(u) /\ u.root = t.root /\ u.next = t.next /\ u.inv = t.inv
      /\ u.lists = [t.lists EXCEPT ![l] = [@ EXCEPT !.items = items]]
  BY <1>1 DEF IsTree
<1> HIDE DEF u
<1>4. /\ DOMAIN u.lists = DOMAIN t.lists
      /\ \A k \in DOMAIN t.lists \ {l} : u.lists[k] = t.lists[k]
      /\ u.lists[l] = [kind |-> t.lists[l].kind, parent |-> t.lists[l].parent, items |-> items]
  BY <1>1, <1>2, <1>3 DEF TreeType, ListSet
<1>5. u.lists \in [DOMAIN u.lists -> ListSet]
  BY <1>1, <1>2, <1>3, <1>4 DEF TreeType, ListSet
<1>6. RootList(u)
  BY <1>1, <1>3, <1>4 DEF RootList, TreeType
<1>7. TreeType(u) /\ IdsInUse(u)
  BY <1>1, <1>3, <1>4, <1>5, <1>6 DEF TreeType, IdsInUse, Sound
<1>8. /\ u.lists[l].items = items
      /\ \A k \in DOMAIN t.lists : /\ u.lists[k].kind = t.lists[k].kind
                                   /\ u.lists[k].parent = t.lists[k].parent
  BY <1>4
<1>9. ParentsRight(u)
  BY <1>1, <1>3, <1>4, <1>8 DEF ParentsRight, Sound, TreeType, RootList
<1>10. ASSUME NEW k \in DOMAIN u.lists, NEW i \in DOMAIN u.lists[k].items
       PROVE  LinkRight(u, k, i)
  <2>1. CASE k # l
    <3>1. k \in DOMAIN t.lists /\ u.lists[k] = t.lists[k] /\ LinkRight(t, k, i)
      BY <1>4, <1>10, <2>1 DEF Sound, LinksRight
    <3> QED
      BY <1>4, <1>8, <3>1 DEF LinkRight
  <2>2. CASE k = l
    <3> SUFFICES ASSUME items[i].child # NoId
                 PROVE  /\ items[i].child \in DOMAIN u.lists
                        /\ u.lists[items[i].child].parent = l
                        /\ \A j \in DOMAIN items : items[j].child = items[i].child => j = i
      BY <1>8, <2>2 DEF LinkRight
    <3>1. i \in DOMAIN items
      BY <1>8, <1>10, <2>2
    <3>2. PICK m \in DOMAIN t.lists[l].items : t.lists[l].items[m].child = items[i].child
      BY <3>1
    <3>3. LinkRight(t, l, m)
      BY DEF Sound, LinksRight
    <3>4. items[i].child \in DOMAIN t.lists /\ t.lists[items[i].child].parent = l
      BY <3>2, <3>3 DEF LinkRight
    <3> QED
      BY <1>4, <1>8, <3>1, <3>4
  <2> QED
    BY <2>1, <2>2
<1>11. Sound(u)
  BY <1>7, <1>9, <1>10 DEF Sound, LinksRight
<1> QED
  BY <1>3, <1>4, <1>11 DEF u

-----------------------------------------------------------------------------
(* The list of devices changes. *)

DeviceItems(t) == t.lists[t.root].items

(* What the list of devices holds.                                         *)
LEMMA DeviceItemsType ==
    ASSUME NEW t, Sound(t)
    PROVE  /\ DeviceItems(t) \in Seq(DeviceItemSet)
           /\ DeviceItems(t) \in Seq(ItemSet)
           /\ t.root \in DOMAIN t.lists
           /\ \A i \in DOMAIN DeviceItems(t) : LinkRight(t, t.root, i)
<1>1. DeviceItems(t) \in Seq(DeviceItemSet) /\ t.root \in DOMAIN t.lists
  BY DEF Sound, TreeType, RootList, DeviceItems
<1>2. DeviceItemSet \subseteq ItemSet
  BY DEF ItemSet
<1>3. \A i \in DOMAIN DeviceItems(t) : LinkRight(t, t.root, i)
  BY <1>1 DEF Sound, LinksRight, DeviceItems
<1> HIDE DEF DeviceItemSet, ItemSet, DeviceItems
<1>4. DeviceItems(t) \in Seq(ItemSet)
  BY <1>1, <1>2
<1> QED
  BY <1>1, <1>3, <1>4

(* Distinct items of the list of devices link to distinct lists of volumes. *)
LEMMA DeviceLinks ==
    ASSUME NEW t, Sound(t), NEW i \in DOMAIN DeviceItems(t), NEW j \in DOMAIN DeviceItems(t),
           DeviceItems(t)[i].child # NoId
    PROVE  /\ DeviceItems(t)[i].child \in DOMAIN t.lists \ {t.root}
           /\ t.lists[DeviceItems(t)[i].child].parent = t.root
           /\ DeviceItems(t)[j].child = DeviceItems(t)[i].child => j = i
<1>1. LinkRight(t, t.root, i) /\ t.root # NoId /\ t.lists[t.root].parent = NoId
  BY DeviceItemsType DEF Sound, TreeType, RootList, ParentsRight
<1> QED
  BY <1>1 DEF LinkRight, DeviceItems

(* The list of devices gets other items with the same links.               *)
LEMMA NewDeviceItems ==
    ASSUME NEW t, Sound(t), NEW items \in Seq(DeviceItemSet),
           \A i \in DOMAIN items : items[i].child # NoId =>
               /\ \E k \in DOMAIN DeviceItems(t) : DeviceItems(t)[k].child = items[i].child
               /\ \A j \in DOMAIN items : items[j].child = items[i].child => j = i
    PROVE  LET u == [t EXCEPT !.lists[t.root].items = items]
           IN /\ Sound(u) /\ u.root = t.root /\ u.inv = t.inv
              /\ DOMAIN u.lists = DOMAIN t.lists
              /\ \A k \in DOMAIN t.lists \ {t.root} : u.lists[k] = t.lists[k]
              /\ DeviceItems(u) = items
<1> DEFINE root == t.root
<1>1. root \in DOMAIN t.lists
  BY DeviceItemsType
<1>2. items \in Seq(ItemSet)
  <2>1. DeviceItemSet \subseteq ItemSet
    BY DEF ItemSet
  <2> HIDE DEF DeviceItemSet, ItemSet
  <2> QED
    BY <2>1
<1>3. \A i \in DOMAIN items : items[i].child # NoId =>
         /\ \E k \in DOMAIN t.lists[root].items : t.lists[root].items[k].child = items[i].child
         /\ \A j \in DOMAIN items : items[j].child = items[i].child => j = i
  BY DEF DeviceItems
<1>4. root = t.root
  OBVIOUS
<1> HIDE DEF root
<1> DEFINE u == [t EXCEPT !.lists[root].items = items]
<1>5. /\ Sound(u)
      /\ u.root = t.root
      /\ u.inv = t.inv
      /\ DOMAIN u.lists = DOMAIN t.lists
      /\ \A k \in DOMAIN t.lists \ {root} : u.lists[k] = t.lists[k]
      /\ u.lists[root].items = items
  BY <1>1, <1>2, <1>3, NewItems
<1> HIDE DEF u
<1>6. DeviceItems(u) = items
  BY <1>4, <1>5 DEF DeviceItems
<1> QED
  BY <1>4, <1>5, <1>6 DEF u, root

(* add_to_list() for a device: a new item without a child.                 *)
LEMMA AddToListInv ==
    ASSUME NEW t, Sound(t), Matched(t), NEW d \in Devices
    PROVE  /\ Sound(AddToList(t, d))
           /\ Matched(AddToList(t, d))
           /\ AddToList(t, d).root = t.root
           /\ DeviceItems(AddToList(t, d)) = Append(DeviceItems(t), DeviceItem(d))
           /\ DOMAIN AddToList(t, d).lists = DOMAIN t.lists
<1> DEFINE new   == DeviceItem(d)
           items == Append(DeviceItems(t), new)
           u     == [t EXCEPT !.lists[t.root].items = items]
           n     == Len(DeviceItems(t))
<1>1. /\ DeviceItems(t) \in Seq(DeviceItemSet) /\ DeviceItems(t) \in Seq(ItemSet)
      /\ t.root \in DOMAIN t.lists
  BY DeviceItemsType
<1>2. new \in DeviceItemSet /\ new \in ItemSet /\ new.child = NoId
  <2>1. <<>> \in Seq(Nat)
    OBVIOUS
  <2>2. new \in DeviceItemSet /\ new.child = NoId
    BY <2>1, MaxIdIsNat DEF DeviceItem, DeviceItemSet
  <2> QED
    BY <2>2 DEF ItemSet
<1>3. AddToList(t, d) = u
  BY DEF AddToList, DeviceItems
<1> HIDE DEF new
<1>4. /\ items \in Seq(DeviceItemSet) /\ items \in Seq(ItemSet)
      /\ n \in Nat /\ DOMAIN DeviceItems(t) = 1..n /\ DOMAIN items = 1..n + 1
      /\ \A i \in 1..n : items[i] = DeviceItems(t)[i]
      /\ items[n + 1] = new
  <2> HIDE DEF DeviceItemSet, ItemSet, DeviceItems
  <2> QED
    BY <1>1, <1>2, AppendTo
<1> HIDE DEF items, n
<1>5. \A i \in DOMAIN items : items[i].child # NoId => i \in 1..n
  BY <1>2, <1>4
<1>6. ASSUME NEW i \in DOMAIN items, items[i].child # NoId
      PROVE  /\ \E k \in DOMAIN DeviceItems(t) : DeviceItems(t)[k].child = items[i].child
             /\ \A j \in DOMAIN items : items[j].child = items[i].child => j = i
  <2>1. i \in 1..n
    BY <1>5, <1>6
  <2>2. ASSUME NEW j \in DOMAIN items, items[j].child = items[i].child PROVE j = i
    <3>1. j \in 1..n
      BY <1>5, <1>6, <2>2
    <3> QED
      BY <1>4, <1>6, <2>1, <2>2, <3>1, DeviceLinks
  <2> QED
    BY <1>4, <2>1, <2>2
<1>7. /\ Sound(u) /\ u.root = t.root /\ DOMAIN u.lists = DOMAIN t.lists
      /\ \A k \in DOMAIN t.lists \ {t.root} : u.lists[k] = t.lists[k]
      /\ DeviceItems(u) = items
  BY <1>4, <1>6, NewDeviceItems
<1> HIDE DEF u
<1>8. ASSUME NEW i \in DOMAIN items, items[i].child # NoId
      PROVE  DOMAIN u.lists[items[i].child].items = DOMAIN items[i].vols
  <2>1. i \in DOMAIN DeviceItems(t) /\ items[i] = DeviceItems(t)[i]
    BY <1>4, <1>5, <1>8
  <2>2. items[i].child \in DOMAIN t.lists \ {t.root}
    BY <1>8, <2>1, DeviceLinks
  <2>3. DOMAIN t.lists[items[i].child].items = DOMAIN items[i].vols
    BY <1>8, <2>1 DEF Matched, DeviceItems
  <2> QED
    BY <1>7, <2>2, <2>3
<1>9. Matched(u)
  BY <1>7, <1>8 DEF Matched, DeviceItems
<1> QED
  BY <1>3, <1>7, <1>9 DEF items, new, DeviceItems

(* A device is found by its ID if it is in the list. *)
LEMMA FirstDeviceFound ==
    ASSUME NEW t, Sound(t), NEW ds
    PROVE  /\ FirstDevice(t, ds) = 0 \/ FirstDevice(t, ds) \in DOMAIN DeviceItems(t)
           /\ (\E i \in DOMAIN DeviceItems(t) : DeviceItems(t)[i].dev \in ds)
                 => FirstDevice(t, ds) # 0
<1> DEFINE found == {i \in DOMAIN DeviceItems(t) : DeviceItems(t)[i].dev \in ds}
<1>1. FirstDevice(t, ds) = IF found = {} THEN 0 ELSE Min(found)
  BY DEF FirstDevice, Items, DeviceItems
<1>2. DOMAIN DeviceItems(t) = 1..Len(DeviceItems(t)) /\ Len(DeviceItems(t)) \in Nat
  BY DeviceItemsType
<1>3. found \in SUBSET Nat /\ \A i \in found : i # 0
  BY <1>2
<1>4. found # {} => Min(found) \in found
  BY <1>3, MinIsLeast
<1> QED
  BY <1>1, <1>3, <1>4

(* Where a volume belongs *)
LEMMA LowerBoundRange ==
    ASSUME NEW vols \in Seq(Nat), NEW v \in Nat
    PROVE  /\ LowerBound(vols, v) \in 1..Len(vols) + 1
           /\ v \in ToSet(vols) => LowerBound(vols, v) \in 1..Len(vols)
<1> DEFINE n    == Len(vols)
           less == {k \in 1..n : vols[k] < v}
<1>1. n \in Nat /\ DOMAIN vols = 1..n
  OBVIOUS
<1>2. LowerBound(vols, v) = Cardinality(less) + 1
  BY <1>1 DEF LowerBound
<1>3. IsFiniteSet(1..n) /\ Cardinality(1..n) = n
  <2> HIDE DEF n
  <2>1. 1 \in Int /\ n \in Int /\ (IF 1 > n THEN 0 ELSE n - 1 + 1) = n
    BY <1>1
  <2> QED
    BY <2>1, FS_Interval
<1>4. /\ less \subseteq 1..n
      /\ Cardinality(less) \in Nat /\ Cardinality(less) <= n
  BY <1>3, FS_Subset, FS_CardinalityType
<1>5. v \in ToSet(vols) => Cardinality(less) <= n - 1
  <2> SUFFICES ASSUME v \in ToSet(vols) PROVE Cardinality(less) <= n - 1
    OBVIOUS
  <2>1. PICK k \in 1..n : vols[k] = v
    BY <1>1 DEF ToSet
  <2>2. less \subseteq (1..n) \ {k}
    BY <2>1
  <2>3. IsFiniteSet((1..n) \ {k}) /\ Cardinality((1..n) \ {k}) = n - 1
    BY <1>3, <2>1, FS_RemoveElement
  <2> HIDE DEF less
  <2>4. Cardinality(less) <= Cardinality((1..n) \ {k})
    BY <2>2, <2>3, FS_Subset
  <2> QED
    BY <2>3, <2>4
<1> HIDE DEF less, n
<1> QED
  BY <1>1, <1>2, <1>4, <1>5 DEF n

(* The volumes of a device, as the list of devices holds them.             *)
LEMMA DeviceVolumes ==
    ASSUME NEW item \in DeviceItemSet, NEW vols \in Seq(Nat)
    PROVE  /\ [item EXCEPT !.vols = vols] \in DeviceItemSet
           /\ [item EXCEPT !.vols = vols].vols = vols
           /\ [item EXCEPT !.vols = vols].dev = item.dev
           /\ [item EXCEPT !.vols = vols].child = item.child
  BY DEF DeviceItemSet

(* A device has one more volume; the list of its volumes, if there is one, *)
(* has not been told yet.                                                  *)
LEMMA AddVolumeInv ==
    ASSUME NEW t, Sound(t), NEW i \in DOMAIN DeviceItems(t), NEW v \in Nat
    PROVE  LET u == AddVolume(t, i, v)
           IN /\ Sound(u)
              /\ u.root = t.root
              /\ DOMAIN u.lists = DOMAIN t.lists
              /\ \A k \in DOMAIN t.lists \ {t.root} : u.lists[k] = t.lists[k]
              /\ DOMAIN DeviceItems(u) = DOMAIN DeviceItems(t)
              /\ \A j \in DOMAIN DeviceItems(t) :
                    /\ DeviceItems(u)[j].child = DeviceItems(t)[j].child
                    /\ DeviceItems(u)[j].dev = DeviceItems(t)[j].dev
                    /\ j # i => DeviceItems(u)[j] = DeviceItems(t)[j]
              /\ Len(DeviceItems(u)[i].vols) = Len(DeviceItems(t)[i].vols) + 1
              /\ v \in ToSet(DeviceItems(u)[i].vols)
<1> DEFINE old   == DeviceItems(t)[i]
           at    == LowerBound(old.vols, v)
           vols  == InsertAt(old.vols, at, v)
           new   == [old EXCEPT !.vols = vols]
           items == [DeviceItems(t) EXCEPT ![i] = new]
           u     == [t EXCEPT !.lists[t.root].items = items]
<1>1. DeviceItems(t) \in Seq(DeviceItemSet)
  BY DeviceItemsType
<1>2. old \in DeviceItemSet /\ old.vols \in Seq(Nat)
  <2>1. old \in DeviceItemSet
    BY <1>1
  <2> QED
    BY <2>1 DEF DeviceItemSet
<1>3. AddVolume(t, i, v) = u
  BY DEF AddVolume, DeviceItems
<1> HIDE DEF old
<1>4. at \in 1..Len(old.vols) + 1
  BY <1>2, LowerBoundRange
<1> HIDE DEF at
<1>5. /\ vols \in Seq(Nat) /\ Len(vols) = Len(old.vols) + 1
      /\ v \in ToSet(vols)
  <2> DEFINE N == Nat
             w == old.vols
  <2>0. w \in Seq(N) /\ v \in N /\ at \in 1..Len(w) + 1
    BY <1>2, <1>4
  <2> HIDE DEF N, w
  <2>5. /\ InsertAt(w, at, v) \in Seq(N)
        /\ Len(InsertAt(w, at, v)) = Len(w) + 1
        /\ \A j \in 1..Len(w) + 1 :
              InsertAt(w, at, v)[j] = IF j < at THEN w[j] ELSE IF j = at THEN v ELSE w[j - 1]
    BY <2>0, InsertOne
  <2>1. /\ vols \in Seq(Nat) /\ Len(vols) = Len(old.vols) + 1
        /\ \A j \in 1..Len(old.vols) + 1 :
              vols[j] = IF j < at THEN old.vols[j] ELSE IF j = at THEN v ELSE old.vols[j - 1]
    BY <2>5 DEF N, w
  <2> HIDE DEF vols
  <2>2. vols[at] = v
    BY <1>4, <2>1
  <2>3. at \in DOMAIN vols
    BY <1>4, <2>1
  <2> QED
    BY <2>1, <2>2, <2>3 DEF ToSet
<1> HIDE DEF vols
<1>6. new \in DeviceItemSet /\ new.vols = vols /\ new.dev = old.dev /\ new.child = old.child
  BY <1>2, <1>5, DeviceVolumes
<1> HIDE DEF new
<1>7. /\ items \in Seq(DeviceItemSet) /\ DOMAIN items = DOMAIN DeviceItems(t)
      /\ items[i] = new
      /\ \A j \in DOMAIN DeviceItems(t) \ {i} : items[j] = DeviceItems(t)[j]
  <2> HIDE DEF DeviceItemSet, DeviceItems
  <2> QED
    BY <1>1, <1>6
<1> HIDE DEF items
<1>8. \A j \in DOMAIN items : /\ items[j].child = DeviceItems(t)[j].child
                              /\ items[j].dev = DeviceItems(t)[j].dev
  BY <1>6, <1>7 DEF old
<1>9. ASSUME NEW k \in DOMAIN items, items[k].child # NoId
      PROVE  /\ \E j \in DOMAIN DeviceItems(t) : DeviceItems(t)[j].child = items[k].child
             /\ \A j \in DOMAIN items : items[j].child = items[k].child => j = k
  BY <1>7, <1>8, <1>9, DeviceLinks
<1>10. /\ Sound(u) /\ u.root = t.root /\ DOMAIN u.lists = DOMAIN t.lists
       /\ \A k \in DOMAIN t.lists \ {t.root} : u.lists[k] = t.lists[k]
       /\ DeviceItems(u) = items
  BY <1>7, <1>9, NewDeviceItems
<1> HIDE DEF u
<1>11. Len(DeviceItems(u)[i].vols) = Len(DeviceItems(t)[i].vols) + 1
       /\ v \in ToSet(DeviceItems(u)[i].vols)
  BY <1>5, <1>6, <1>7, <1>10 DEF old
<1> QED
  BY <1>3, <1>7, <1>8, <1>10, <1>11

(* remove_from_list(), up to what is purged *)
LEMMA RemoveDeviceInv ==
    ASSUME NEW t, Sound(t), Matched(t), NEW i \in DOMAIN DeviceItems(t)
    PROVE  LET u == [t EXCEPT !.lists[t.root].items = RemoveAt(@, i)]
           IN Sound(u) /\ Matched(u) /\ u.root = t.root /\ DOMAIN u.lists = DOMAIN t.lists
<1> DEFINE items == RemoveAt(DeviceItems(t), i)
           u     == [t EXCEPT !.lists[t.root].items = items]
           n     == Len(DeviceItems(t))
           was(j) == IF j < i THEN j ELSE j + 1
<1>1. DeviceItems(t) \in Seq(DeviceItemSet)
  BY DeviceItemsType
<1>2. n \in Nat /\ DOMAIN DeviceItems(t) = 1..n /\ i \in 1..n
  BY <1>1
<1>3. /\ items \in Seq(DeviceItemSet) /\ DOMAIN items = 1..n - 1
      /\ \A j \in 1..n - 1 : was(j) \in 1..n /\ items[j] = DeviceItems(t)[was(j)]
  <2>1. /\ items \in Seq(DeviceItemSet) /\ Len(items) = n - 1
        /\ \A j \in 1..n - 1 :
              items[j] = IF j < i THEN DeviceItems(t)[j] ELSE DeviceItems(t)[j + 1]
    BY <1>1, <1>2, RemoveOne
  <2> HIDE DEF items, n
  <2> QED
    BY <1>2, <2>1
<1> HIDE DEF items, n
<1>4. \A j, k \in 1..n - 1 : was(j) = was(k) => j = k
  BY <1>2
<1> HIDE DEF was
<1>5. ASSUME NEW j \in DOMAIN items, items[j].child # NoId
      PROVE  /\ \E k \in DOMAIN DeviceItems(t) : DeviceItems(t)[k].child = items[j].child
             /\ \A k \in DOMAIN items : items[k].child = items[j].child => k = j
  <2>1. was(j) \in DOMAIN DeviceItems(t) /\ items[j] = DeviceItems(t)[was(j)]
    BY <1>2, <1>3
  <2>2. ASSUME NEW k \in DOMAIN items, items[k].child = items[j].child PROVE k = j
    <3>1. was(k) \in DOMAIN DeviceItems(t) /\ items[k] = DeviceItems(t)[was(k)]
      BY <1>2, <1>3
    <3>2. was(k) = was(j)
      BY <1>5, <2>1, <2>2, <3>1, DeviceLinks
    <3> QED
      BY <1>3, <1>4, <3>2
  <2> QED
    BY <2>1, <2>2
<1>6. /\ Sound(u) /\ u.root = t.root /\ DOMAIN u.lists = DOMAIN t.lists
      /\ \A k \in DOMAIN t.lists \ {t.root} : u.lists[k] = t.lists[k]
      /\ DeviceItems(u) = items
  BY <1>3, <1>5, NewDeviceItems
<1>7. u = [t EXCEPT !.lists[t.root].items = RemoveAt(@, i)]
  BY DEF items, DeviceItems
<1> HIDE DEF u
<1>8. ASSUME NEW j \in DOMAIN items, items[j].child # NoId
      PROVE  DOMAIN u.lists[items[j].child].items = DOMAIN items[j].vols
  <2>1. was(j) \in DOMAIN DeviceItems(t) /\ items[j] = DeviceItems(t)[was(j)]
    BY <1>2, <1>3
  <2>2. items[j].child \in DOMAIN t.lists \ {t.root}
    BY <1>8, <2>1, DeviceLinks
  <2>3. DOMAIN t.lists[items[j].child].items = DOMAIN items[j].vols
    BY <1>8, <2>1 DEF Matched, DeviceItems
  <2> QED
    BY <1>6, <2>2, <2>3
<1>9. Matched(u)
  BY <1>6, <1>8 DEF Matched, DeviceItems
<1> QED
  BY <1>6, <1>7, <1>9

-----------------------------------------------------------------------------
(* Lists leave the cache. *)

(* An item that links to a child list is the one that ItemByChild finds. *)
LEMMA LinkFound ==
    ASSUME NEW t, Sound(t), NEW l \in DOMAIN t.lists, NEW i \in DOMAIN Items(t, l),
           Items(t, l)[i].child # NoId
    PROVE  /\ Cached(t, Items(t, l)[i].child)
           /\ t.lists[Items(t, l)[i].child].parent = l
           /\ ItemByChild(t, l, Items(t, l)[i].child) = i
<1> DEFINE child == Items(t, l)[i].child
           linking == {j \in DOMAIN Items(t, l) : Items(t, l)[j].child = child}
<1>1. LinkRight(t, l, i)
  BY DEF Sound, LinksRight, Items
<1>2. /\ Cached(t, child) /\ t.lists[child].parent = l
      /\ \A j \in DOMAIN Items(t, l) : Items(t, l)[j].child = child => j = i
  BY <1>1 DEF LinkRight, Items, Cached
<1>3. linking = {i}
  BY <1>2
<1>4. i \in Nat
  <2>1. t.lists[l] \in ListSet
    BY DEF Sound, TreeType
  <2>2. Items(t, l) \in Seq(ItemSet)
    BY <2>1 DEF ListSet, Items
  <2> QED
    BY <2>2
<1>5. Min({i}) = i
  BY <1>4, MinIsLeast
<1>6. ItemByChild(t, l, child) = i
  BY <1>3, <1>5 DEF ItemByChild
<1> QED
  BY <1>2, <1>6

(* Conversely, ItemByChild finds an item that links to the list. *)
LEMMA FoundLinks ==
    ASSUME NEW t, Sound(t), NEW l \in DOMAIN t.lists, NEW c,
           ItemByChild(t, l, c) \in DOMAIN Items(t, l)
    PROVE  Items(t, l)[ItemByChild(t, l, c)].child = c
<1> DEFINE linking == {j \in DOMAIN Items(t, l) : Items(t, l)[j].child = c}
<1>1. Items(t, l) \in Seq(ItemSet)
  BY DEF Sound, TreeType, ListSet, Items
<1>2. ItemByChild(t, l, c) = IF linking = {} THEN 0 ELSE Min(linking)
  BY DEF ItemByChild
<1>3. linking \in SUBSET Nat /\ 0 \notin DOMAIN Items(t, l)
  BY <1>1
<1>4. linking # {} => Min(linking) \in linking
  BY <1>3, MinIsLeast
<1> QED
  BY <1>2, <1>3, <1>4

(* obliviate_child() on the lists that go: no item links to one of them.   *)
LEMMA ObliviateEffect ==
    ASSUME NEW t, Sound(t), NEW p \in DOMAIN t.lists, NEW gone
    PROVE  LET items == t.lists[p].items
               left  == ObliviateChild(t, p, gone)
           IN /\ left \in Seq(ItemSet) /\ DOMAIN left = DOMAIN items
              /\ \A i \in DOMAIN items :
                    left[i].child = IF items[i].child \in gone THEN NoId ELSE items[i].child
              /\ p = t.root => /\ left \in Seq(DeviceItemSet)
                               /\ \A i \in DOMAIN items : left[i].vols = items[i].vols
<1> DEFINE items == t.lists[p].items
           forgetful == {ItemByChild(t, p, l) : l \in {k \in gone : ParentOf(t, k) = p}}
           forget(i) == IF i \in forgetful THEN [items[i] EXCEPT !.child = NoId] ELSE items[i]
           left == [i \in DOMAIN items |-> forget(i)]
<1>1. ObliviateChild(t, p, gone) = left
  BY DEF ObliviateChild, Items
<1>2. items \in Seq(ItemSet) /\ (p = t.root => items \in Seq(DeviceItemSet))
  BY DEF Sound, TreeType, RootList, ListSet
<1>3. ASSUME NEW i \in DOMAIN items
      PROVE  i \in forgetful => items[i].child \in gone
  <2> SUFFICES ASSUME NEW l \in gone, ItemByChild(t, p, l) = i PROVE items[i].child = l
    OBVIOUS
  <2> QED
    BY FoundLinks DEF Items
<1>4. ASSUME NEW i \in DOMAIN items, items[i].child \in gone
      PROVE  i \in forgetful \/ items[i].child = NoId
  <2> SUFFICES ASSUME items[i].child # NoId PROVE i \in forgetful
    OBVIOUS
  <2>1. ParentOf(t, items[i].child) = p /\ ItemByChild(t, p, items[i].child) = i
    BY LinkFound DEF Items, ParentOf
  <2> QED
    BY <1>4, <2>1
<1> HIDE DEF forgetful
<1>5. ASSUME NEW i \in DOMAIN items
      PROVE  /\ forget(i) \in ItemSet
             /\ forget(i).child = IF items[i].child \in gone THEN NoId ELSE items[i].child
             /\ p = t.root => /\ forget(i) \in DeviceItemSet
                              /\ forget(i).vols = items[i].vols
  <2>1. items[i] \in ItemSet /\ (p = t.root => items[i] \in DeviceItemSet)
    BY <1>2
  <2> HIDE DEF items
  <2>2. /\ [items[i] EXCEPT !.child = NoId] \in ItemSet
        /\ [items[i] EXCEPT !.child = NoId].child = NoId
    BY <2>1, MaxIdIsNat, ItemChild
  <2>3. p = t.root => /\ [items[i] EXCEPT !.child = NoId] \in DeviceItemSet
                      /\ [items[i] EXCEPT !.child = NoId].vols = items[i].vols
    BY <2>1, MaxIdIsNat, DeviceChild
  <2> QED
    BY <1>3, <1>4, <2>1, <2>2, <2>3
<1> HIDE DEF forget
<1>6. left \in Seq(ItemSet) /\ DOMAIN left = DOMAIN items
  <2> HIDE DEF ItemSet, items
  <2> QED
    BY <1>2, <1>5
<1>7. p = t.root => left \in Seq(DeviceItemSet)
  <2> HIDE DEF DeviceItemSet, items
  <2> QED
    BY <1>2, <1>5
<1>8. \A i \in DOMAIN items : left[i] = forget(i)
  OBVIOUS
<1> HIDE DEF left
<1> QED
  BY <1>1, <1>5, <1>6, <1>7, <1>8

(* A tree without the lists of a subtree is sound.                         *)
LEMMA WithoutInv ==
    ASSUME NEW t, Sound(t), Matched(t), NEW gone, t.root \notin gone
    PROVE  LET u == Without(t, gone)
           IN Sound(u) /\ Matched(u) /\ u.root = t.root /\ DOMAIN u.lists = DOMAIN t.lists \ gone
<1> DEFINE left(k) == [t.lists[k] EXCEPT !.parent = IF @ \in gone THEN NoId ELSE @,
                                         !.items = ObliviateChild(t, k, gone)]
           lists == [k \in DOMAIN t.lists \ gone |-> left(k)]
           u == [t EXCEPT !.lists = lists]
<1>1. Without(t, gone) = u
  BY DEF Without
<1> HIDE DEF lists
<1>2. TreeType(t) /\ IsTree(t) /\ t.root \in DOMAIN t.lists /\ t.root # NoId
  BY DEF Sound, TreeType, RootList
<1>3. /\ IsTree(u) /\ u.root = t.root /\ u.next = t.next
      /\ u.lists = lists
  BY <1>2 DEF IsTree
<1> HIDE DEF u
<1> USE DEF lists
<1>4. ASSUME NEW k \in DOMAIN t.lists
      PROVE  /\ left(k) \in ListSet /\ left(k).kind = t.lists[k].kind
             /\ left(k).parent = IF t.lists[k].parent \in gone THEN NoId ELSE t.lists[k].parent
             /\ left(k).items = ObliviateChild(t, k, gone)
  <2> DEFINE items == ObliviateChild(t, k, gone)
             parent == IF t.lists[k].parent \in gone THEN NoId ELSE t.lists[k].parent
  <2>1. t.lists[k] \in ListSet
    BY <1>2 DEF TreeType
  <2>2. items \in Seq(ItemSet)
    BY ObliviateEffect
  <2>3. left(k) = [t.lists[k] EXCEPT !.parent = parent, !.items = items]
    OBVIOUS
  <2>4. parent \in IdsAndNone
    BY <2>1, MaxIdIsNat DEF ListSet
  <2> HIDE DEF items, parent, left
  <2>5. left(k) = [kind |-> t.lists[k].kind, parent |-> parent, items |-> items]
    BY <2>1, <2>3 DEF ListSet
  <2>6. left(k) \in ListSet
    BY <2>1, <2>2, <2>4, <2>5 DEF ListSet
  <2> QED
    BY <2>5, <2>6 DEF items, parent
<1> HIDE DEF left
<1>6. DOMAIN u.lists = DOMAIN t.lists \ gone
  BY <1>3
<1>7. \A k \in DOMAIN u.lists :
         /\ u.lists[k] \in ListSet /\ u.lists[k].kind = t.lists[k].kind
         /\ u.lists[k].parent = IF t.lists[k].parent \in gone THEN NoId ELSE t.lists[k].parent
         /\ u.lists[k].items = ObliviateChild(t, k, gone)
  BY <1>3, <1>4
<1>8. \A k \in DOMAIN u.lists :
         /\ DOMAIN u.lists[k].items = DOMAIN t.lists[k].items
         /\ \A i \in DOMAIN t.lists[k].items :
               u.lists[k].items[i].child = IF t.lists[k].items[i].child \in gone THEN NoId
                                           ELSE t.lists[k].items[i].child
  BY <1>6, <1>7, ObliviateEffect
<1>9. /\ DeviceItems(u) \in Seq(DeviceItemSet)
      /\ \A i \in DOMAIN DeviceItems(t) : DeviceItems(u)[i].vols = DeviceItems(t)[i].vols
  <2>1. DeviceItems(u) = ObliviateChild(t, t.root, gone)
    BY <1>2, <1>3, <1>6, <1>7 DEF DeviceItems
  <2> QED
    BY <1>2, <2>1, ObliviateEffect DEF DeviceItems
<1>10. u.lists \in [DOMAIN u.lists -> ListSet]
  <2>1. u.lists = [k \in DOMAIN u.lists |-> u.lists[k]]
    BY <1>3
  <2> QED
    BY <1>7, <2>1
<1>11. TreeType(u) /\ IdsInUse(u)
  BY <1>2, <1>3, <1>6, <1>7, <1>9, <1>10
     DEF TreeType, IdsInUse, Sound, RootList, DeviceItems
<1>12. ASSUME NEW k \in DOMAIN u.lists, u.lists[k].parent # NoId
       PROVE  /\ u.lists[k].parent \in DOMAIN u.lists
              /\ u.lists[k].kind = IF u.lists[k].parent = u.root THEN "volumes" ELSE "dir"
  <2>1. u.lists[k].parent = t.lists[k].parent /\ u.lists[k].parent \notin gone
    BY <1>7, <1>12
  <2> QED
    BY <1>3, <1>6, <1>7, <1>12, <2>1 DEF Sound, ParentsRight
<1>13. ParentsRight(u)
  <2>1. u.lists[u.root].parent = NoId
    BY <1>2, <1>3, <1>6, <1>7 DEF Sound, ParentsRight
  <2> QED
    BY <1>12, <2>1 DEF ParentsRight
<1>14. ASSUME NEW k \in DOMAIN u.lists, NEW i \in DOMAIN u.lists[k].items
       PROVE  LinkRight(u, k, i)
  <2> SUFFICES ASSUME u.lists[k].items[i].child # NoId
               PROVE  /\ u.lists[k].items[i].child \in DOMAIN u.lists
                      /\ u.lists[u.lists[k].items[i].child].parent = k
                      /\ \A j \in DOMAIN u.lists[k].items :
                            u.lists[k].items[j].child = u.lists[k].items[i].child => j = i
    BY DEF LinkRight
  <2>1. k \in DOMAIN t.lists /\ i \in DOMAIN t.lists[k].items /\ k \notin gone
    BY <1>6, <1>8
  <2>2. /\ u.lists[k].items[i].child = t.lists[k].items[i].child
        /\ t.lists[k].items[i].child \notin gone
    BY <1>8, <2>1
  <2>3. LinkRight(t, k, i)
    BY <2>1 DEF Sound, LinksRight
  <2>4. /\ t.lists[k].items[i].child \in DOMAIN t.lists
        /\ t.lists[t.lists[k].items[i].child].parent = k
        /\ \A j \in DOMAIN t.lists[k].items :
              t.lists[k].items[j].child = t.lists[k].items[i].child => j = i
    BY <2>2, <2>3 DEF LinkRight
  <2>5. ASSUME NEW j \in DOMAIN u.lists[k].items,
               u.lists[k].items[j].child = u.lists[k].items[i].child
        PROVE  j = i
    <3>1. j \in DOMAIN t.lists[k].items
      BY <1>8
    <3>2. u.lists[k].items[j].child = t.lists[k].items[j].child
      BY <1>8, <2>5, <3>1
    <3> QED
      BY <2>2, <2>4, <2>5, <3>1, <3>2
  <2> QED
    BY <1>6, <1>7, <2>1, <2>2, <2>4, <2>5
<1>15. Sound(u)
  BY <1>11, <1>13, <1>14 DEF Sound, LinksRight
<1>16. ASSUME NEW i \in DOMAIN DeviceItems(u), DeviceItems(u)[i].child # NoId
       PROVE  DOMAIN u.lists[DeviceItems(u)[i].child].items = DOMAIN DeviceItems(u)[i].vols
  <2>1. i \in DOMAIN DeviceItems(t) /\ DeviceItems(u)[i].child = DeviceItems(t)[i].child
    <3>1. t.root \in DOMAIN u.lists /\ u.root = t.root
      BY <1>2, <1>3, <1>6
    <3> QED
      BY <1>8, <1>16, <3>1 DEF DeviceItems
  <2>2. DeviceItems(u)[i].child \in DOMAIN u.lists
    BY <1>15, <1>16, DeviceLinks
  <2>3. DOMAIN t.lists[DeviceItems(t)[i].child].items = DOMAIN DeviceItems(t)[i].vols
    BY <1>16, <2>1 DEF Matched, DeviceItems
  <2> QED
    BY <1>8, <1>9, <2>1, <2>2, <2>3
<1>17. Matched(u)
  BY <1>16 DEF Matched, DeviceItems
<1> QED
  BY <1>1, <1>3, <1>6, <1>15, <1>17

(* Discarding a subtree, with the signals about it.                        *)
LEMMA DiscardInv ==
    ASSUME NEW t, Sound(t), Matched(t), NEW l, l # t.root
    PROVE  Sound(Discard(t, l)) /\ Matched(Discard(t, l))
<1> DEFINE u == Without(t, {l})
<1>1. Sound(u) /\ Matched(u)
  BY WithoutInv
<1> HIDE DEF u
<1>2. IsTree(u)
  BY <1>1 DEF Sound, TreeType
<1>3. Discard(t, l) = [u EXCEPT !.inv = Append(u.inv, <<l, NoId>>)]
  BY DEF Discard, Emit, u
<1> QED
  BY <1>1, <1>2, <1>3, InvAside

(* A list whose parent pointer is null is a root. *)
LEMMA NoAncestors ==
    ASSUME NEW t, TreeType(t), NEW l, ParentOf(t, l) = NoId
    PROVE  Ancestors(t, l) = <<l>>
<1> DEFINE size == Cardinality(DOMAIN t.lists)
           Step(below) == LET p == ParentOf(t, Last(below))
                          IN IF p = NoId THEN below ELSE Append(below, p)
           up[n \in 0..size] == IF n = 0 THEN <<l>> ELSE Step(up[n - 1])
<1>1. Ancestors(t, l) = up[size]
  BY DEF Ancestors
<1>2. size \in Nat
  <2>1. IsFiniteSet(0..MaxId)
    <3>1. 0 \in Int /\ MaxId \in Int
      BY MaxIdIsNat
    <3> QED
      BY <3>1, FS_Interval
  <2>2. IsFiniteSet(DOMAIN t.lists)
    BY <2>1, FS_Subset DEF TreeType, IdsAndNone
  <2> QED
    BY <2>2, FS_CardinalityType
<1>3. Step(<<l>>) = <<l>>
  <2>1. Last(<<l>>) = l
    BY DEF Last
  <2> QED
    BY <2>1
<1> HIDE DEF size, Step
<1>4. \E f : f = [n \in 0..size |-> IF n = 0 THEN <<l>> ELSE Step(f[n - 1])]
  <2> DEFINE f == [n \in 0..size |-> <<l>>]
  <2>1. ASSUME NEW n \in 0..size PROVE f[n] = IF n = 0 THEN <<l>> ELSE Step(f[n - 1])
    <3>1. CASE n = 0
      BY <3>1
    <3>2. CASE n # 0
      <4>1. n - 1 \in 0..size
        BY <1>2, <3>2
      <4> QED
        BY <1>3, <3>2, <4>1
    <3> QED
      BY <3>1, <3>2
  <2>2. f = [n \in 0..size |-> IF n = 0 THEN <<l>> ELSE Step(f[n - 1])]
    BY <2>1
  <2> HIDE DEF f
  <2> QED
    BY <2>2
<1>5. up = [n \in 0..size |-> IF n = 0 THEN <<l>> ELSE Step(up[n - 1])]
  BY <1>4
<1> HIDE DEF up
<1>6. \A n \in 0..size : up[n] = IF n = 0 THEN <<l>> ELSE Step(up[n - 1])
  BY <1>5
<1> DEFINE S == {n \in Nat : n <= size => up[n] = <<l>>}
<1>7. 0 \in S
  BY <1>2, <1>6
<1>8. ASSUME NEW n \in Nat, n \in S PROVE n + 1 \in S
  <2> SUFFICES ASSUME n + 1 <= size PROVE up[n + 1] = <<l>>
    OBVIOUS
  <2>1. up[n] = <<l>> /\ n + 1 \in 0..size /\ n + 1 # 0 /\ (n + 1) - 1 = n
    BY <1>2, <1>8
  <2> QED
    BY <1>3, <1>6, <2>1
<1> HIDE DEF S
<1>9. Nat \subseteq S
  BY <1>7, <1>8, UpFromZero
<1> QED
  BY <1>1, <1>2, <1>9 DEF S

(* The root is below no other list, so it is never purged with one.        *)
LEMMA RootIsNoSublist ==
    ASSUME NEW t, Sound(t), NEW l, l # t.root
    PROVE  t.root \notin Sublists(t, l)
<1>1. TreeType(t) /\ Cached(t, t.root) /\ ParentOf(t, t.root) = NoId
  BY DEF Sound, TreeType, RootList, ParentsRight, Cached, ParentOf
<1>2. Ancestors(t, t.root) = <<t.root>>
  BY <1>1, NoAncestors
<1>3. Depth(t, t.root) = 1
  BY <1>1, <1>2 DEF Depth
<1>4. \A n \in 1..Depth(t, t.root) : Ancestors(t, t.root)[n] # l
  BY <1>2, <1>3
<1> QED
  BY <1>4 DEF Sublists

(* remove_from_list() for a device, with all lists below it.               *)
LEMMA RemoveFromListInv ==
    ASSUME NEW t, Sound(t), Matched(t), NEW i \in DOMAIN DeviceItems(t)
    PROVE  Sound(RemoveFromList(t, i)) /\ Matched(RemoveFromList(t, i))
<1> DEFINE volumes == DeviceItems(t)[i].child
           removed == [t EXCEPT !.lists[t.root].items = RemoveAt(@, i)]
           gone    == Sublists(removed, volumes)
           u       == Without(removed, gone)
<1>1. Sound(removed) /\ Matched(removed) /\ removed.root = t.root
  BY RemoveDeviceInv
<1>2. RemoveFromList(t, i) = IF volumes = NoId THEN removed ELSE PurgeSubtree(removed, volumes)
  BY DEF RemoveFromList, DeviceItems, Items
<1> HIDE DEF removed
<1>3. CASE volumes = NoId
  BY <1>1, <1>2, <1>3
<1>4. CASE volumes # NoId
  <2>1. volumes # t.root
    BY <1>4, DeviceLinks
  <2>2. removed.root \notin gone
    BY <1>1, <2>1, RootIsNoSublist
  <2> HIDE DEF gone
  <2>3. Sound(u) /\ Matched(u) /\ IsTree(u)
    <3>1. Sound(u) /\ Matched(u)
      BY <1>1, <2>2, WithoutInv
    <3> QED
      BY <3>1 DEF Sound, TreeType
  <2>4. \E x : PurgeSubtree(removed, volumes) = [u EXCEPT !.inv = x]
    BY DEF PurgeSubtree, gone
  <2> HIDE DEF u
  <2> QED
    BY <1>2, <1>4, <2>3, <2>4, InvAside
<1> QED
  BY <1>3, <1>4

-----------------------------------------------------------------------------
(* insert_again(): a list moves to another ID, and its children with it. *)

Moves(t, u, old, new) ==
    /\ IsTree(u) /\ u.root = t.root /\ u.next \in Ids
    /\ DOMAIN u.lists = (DOMAIN t.lists \ {old}) \cup {new}
    /\ u.lists \in [DOMAIN u.lists -> ListSet]
    /\ \A k \in DOMAIN u.lists :
          LET list == t.lists[IF k = new THEN old ELSE k]
          IN /\ u.lists[k].kind = list.kind
             /\ u.lists[k].parent = IF list.parent = old THEN new ELSE list.parent
             /\ u.lists[k].items = list.items

(* What reinserting a list under another ID changes.                       *)
LEMMA InsertAgainEffect ==
    ASSUME NEW t, Sound(t), NEW old \in DOMAIN t.lists
    PROVE  LET new == NewIdFor(t, old)
           IN /\ new \in Ids /\ new \notin DOMAIN t.lists \ {old}
              /\ Moves(t, InsertAgain(t, old), old, new)
<1> DEFINE rest == Restrict(t.lists, DOMAIN t.lists \ {old})
           r    == [t EXCEPT !.lists = rest]
           new  == NewIdFor(t, old)
           all  == Put(rest, new, t.lists[old])
           moved(l) == [l EXCEPT !.parent = IF @ = old THEN new ELSE @]
           lists == [l \in DOMAIN all |-> moved(all[l])]
           u    == InsertAgain(t, old)
<1>1. TreeType(t) /\ IsTree(t) /\ old \in Ids /\ t.next \in Ids
  <2>1. TreeType(t) /\ NoId \notin DOMAIN t.lists
    BY DEF Sound, IdsInUse
  <2> QED
    BY <2>1, MaxIdIsNat DEF TreeType
<1>2. new = FreshId(r)
  BY DEF NewIdFor
<1>3. DOMAIN rest = DOMAIN t.lists \ {old} /\ \A k \in DOMAIN rest : rest[k] = t.lists[k]
  BY DEF Restrict
<1> HIDE DEF rest
<1>4. r.lists = rest /\ r.next = t.next
  BY <1>1 DEF IsTree
<1>5. ~Full(r)
  BY <1>1, <1>3, <1>4 DEF Full
<1> HIDE DEF r
<1>6. new \in Ids \ DOMAIN rest
  BY <1>1, <1>2, <1>4, <1>5, FreshIdIsFree
<1>7. u = [t EXCEPT !.lists = lists, !.next = Following(new)]
  BY DEF InsertAgain, rest
<1> HIDE DEF lists, u, new
<1>8. IsTree(u) /\ u.root = t.root /\ u.next = Following(new) /\ u.lists = lists
  BY <1>1, <1>7 DEF IsTree
<1>9. Following(new) \in Ids
  <2>1. new \in IdsAndNone
    BY <1>6, MaxIdIsNat
  <2> QED
    BY <2>1, Follows
<1>10. /\ DOMAIN all = DOMAIN rest \cup {new}
       /\ \A k \in DOMAIN all : all[k] = t.lists[IF k = new THEN old ELSE k]
  BY <1>3 DEF Put
<1> HIDE DEF all
<1>11. DOMAIN lists = DOMAIN all /\ \A k \in DOMAIN all : lists[k] = moved(all[k])
  BY DEF lists
<1>12. ASSUME NEW list \in ListSet
       PROVE  /\ moved(list) \in ListSet
              /\ moved(list).kind = list.kind /\ moved(list).items = list.items
              /\ moved(list).parent = IF list.parent = old THEN new ELSE list.parent
  <2>1. new \in IdsAndNone
    BY <1>6, MaxIdIsNat
  <2> QED
    BY <2>1 DEF ListSet
<1> HIDE DEF moved
<1>13. \A k \in DOMAIN t.lists : t.lists[k] \in ListSet
  BY <1>1 DEF TreeType
<1>14. \A k \in DOMAIN all : all[k] \in ListSet
  BY <1>3, <1>10, <1>13
<1>15. lists \in [DOMAIN lists -> ListSet]
  <2>1. lists = [k \in DOMAIN lists |-> lists[k]]
    BY DEF lists
  <2> QED
    BY <1>11, <1>12, <1>14, <2>1
<1>16. \A k \in DOMAIN u.lists :
          LET list == t.lists[IF k = new THEN old ELSE k]
          IN /\ u.lists[k].kind = list.kind
             /\ u.lists[k].parent = IF list.parent = old THEN new ELSE list.parent
             /\ u.lists[k].items = list.items
  BY <1>8, <1>10, <1>11, <1>12, <1>14
<1>17. Moves(t, u, old, new)
  BY <1>3, <1>8, <1>9, <1>10, <1>11, <1>15, <1>16 DEF Moves
<1> QED
  BY <1>3, <1>6, <1>17 DEF u, new

(* reinsert_device_list() *)
LEMMA ReinsertDeviceListInv ==
    ASSUME NEW t, Sound(t), Matched(t)
    PROVE  Sound(ReinsertDeviceList(t)) /\ Matched(ReinsertDeviceList(t))
<1> DEFINE old == t.root
           new == NewIdFor(t, old)
           u   == InsertAgain(t, old)
           r   == ReinsertDeviceList(t)
<1>1. /\ TreeType(t) /\ old \in DOMAIN t.lists /\ old # NoId /\ t.lists[old].parent = NoId
      /\ DeviceItems(t) \in Seq(DeviceItemSet)
  BY DEF Sound, TreeType, RootList, ParentsRight, DeviceItems
<1>2. /\ new \in Ids /\ new \notin DOMAIN t.lists \ {old}
      /\ Moves(t, u, old, new)
  BY <1>1, InsertAgainEffect
<1>3. r = [[u EXCEPT !.inv = Append(u.inv, <<old, new>>)] EXCEPT !.root = new]
  BY DEF ReinsertDeviceList, ReinsertList, Emit
<1> HIDE DEF new, u, r
<1>4. IsTree(r) /\ r.root = new /\ r.lists = u.lists /\ r.next = u.next
  BY <1>2, <1>3 DEF Moves, IsTree
<1>5. /\ DOMAIN r.lists = (DOMAIN t.lists \ {old}) \cup {new}
      /\ r.lists \in [DOMAIN r.lists -> ListSet] /\ r.next \in Ids
      /\ \A k \in DOMAIN r.lists \ {new} :
            /\ r.lists[k].kind = t.lists[k].kind
            /\ r.lists[k].parent = IF t.lists[k].parent = old THEN new ELSE t.lists[k].parent
            /\ r.lists[k].items = t.lists[k].items
      /\ r.lists[new].kind = t.lists[old].kind
      /\ r.lists[new].parent = NoId
      /\ r.lists[new].items = DeviceItems(t)
  BY <1>1, <1>2, <1>4 DEF Moves, DeviceItems
<1>6. new # NoId /\ new \in IdsAndNone
  BY <1>2, MaxIdIsNat
<1>7. RootList(r)
  <2>1. \A l \in DOMAIN r.lists : r.lists[l].kind = "devices" <=> l = new
    BY <1>1, <1>2, <1>5 DEF TreeType, RootList
  <2> QED
    BY <1>1, <1>4, <1>5, <1>6, <2>1 DEF RootList
<1>8. TreeType(r) /\ IdsInUse(r)
  BY <1>1, <1>4, <1>5, <1>6, <1>7 DEF TreeType, Sound, IdsInUse
<1>9. ASSUME NEW k \in DOMAIN r.lists, r.lists[k].parent # NoId
      PROVE  /\ r.lists[k].parent \in DOMAIN r.lists
             /\ r.lists[k].kind = IF r.lists[k].parent = new THEN "volumes" ELSE "dir"
  <2>1. k # new /\ k \in DOMAIN t.lists
    BY <1>5, <1>9
  <2>2. CASE t.lists[k].parent = old
    BY <1>1, <1>5, <2>1, <2>2 DEF Sound, ParentsRight
  <2>3. CASE t.lists[k].parent # old
    <3>1. r.lists[k].parent = t.lists[k].parent /\ t.lists[k].parent # NoId
      BY <1>5, <1>9, <2>1, <2>3
    <3>2. t.lists[k].parent \in DOMAIN t.lists \ {old} /\ t.lists[k].kind = "dir"
      BY <2>1, <2>3, <3>1 DEF Sound, ParentsRight
    <3> QED
      BY <1>2, <1>5, <2>1, <3>1, <3>2
  <2> QED
    BY <2>2, <2>3
<1>10. ParentsRight(r)
  BY <1>4, <1>5, <1>9 DEF ParentsRight
<1>11. ASSUME NEW k \in DOMAIN t.lists, NEW i \in DOMAIN t.lists[k].items,
              t.lists[k].items[i].child # NoId
       PROVE  /\ t.lists[k].items[i].child \in DOMAIN t.lists \ {old}
              /\ t.lists[t.lists[k].items[i].child].parent = k
              /\ \A j \in DOMAIN t.lists[k].items :
                    t.lists[k].items[j].child = t.lists[k].items[i].child => j = i
  <2>1. LinkRight(t, k, i) /\ k # NoId
    BY DEF Sound, LinksRight, IdsInUse
  <2> QED
    BY <1>1, <1>11, <2>1 DEF LinkRight
<1>12. ASSUME NEW k \in DOMAIN r.lists, NEW i \in DOMAIN r.lists[k].items
       PROVE  LinkRight(r, k, i)
  <2> DEFINE was == IF k = new THEN old ELSE k
  <2>1. was \in DOMAIN t.lists /\ r.lists[k].items = t.lists[was].items
    BY <1>1, <1>2, <1>5 DEF DeviceItems
  <2>2. was = old <=> k = new
    BY <1>2, <1>5
  <2> SUFFICES ASSUME r.lists[k].items[i].child # NoId
               PROVE  /\ r.lists[k].items[i].child \in DOMAIN r.lists
                      /\ r.lists[r.lists[k].items[i].child].parent = k
                      /\ \A j \in DOMAIN r.lists[k].items :
                            r.lists[k].items[j].child = r.lists[k].items[i].child => j = i
    BY DEF LinkRight
  <2>3. i \in DOMAIN t.lists[was].items
    BY <2>1
  <2>4. k # new => was = k
    OBVIOUS
  <2> HIDE DEF was
  <2>5. /\ t.lists[was].items[i].child \in DOMAIN t.lists \ {old}
        /\ t.lists[t.lists[was].items[i].child].parent = was
        /\ \A j \in DOMAIN t.lists[was].items :
              t.lists[was].items[j].child = t.lists[was].items[i].child => j = i
    BY <1>11, <2>1, <2>3
  <2>6. /\ t.lists[was].items[i].child \in DOMAIN r.lists \ {new}
        /\ r.lists[t.lists[was].items[i].child].parent = IF was = old THEN new ELSE was
    BY <1>2, <1>5, <2>5
  <2>7. r.lists[t.lists[was].items[i].child].parent = k
    BY <2>2, <2>4, <2>6
  <2> QED
    BY <2>1, <2>5, <2>6, <2>7
<1>13. Sound(r)
  BY <1>8, <1>10, <1>12 DEF Sound, LinksRight
<1>14. ASSUME NEW i \in DOMAIN DeviceItems(t), DeviceItems(t)[i].child # NoId
       PROVE  DOMAIN r.lists[DeviceItems(t)[i].child].items = DOMAIN DeviceItems(t)[i].vols
  <2>1. DeviceItems(t)[i].child \in DOMAIN t.lists \ {old}
    BY <1>1, <1>11, <1>14 DEF DeviceItems
  <2>2. r.lists[DeviceItems(t)[i].child].items = t.lists[DeviceItems(t)[i].child].items
    BY <1>2, <1>5, <2>1
  <2>3. DOMAIN t.lists[DeviceItems(t)[i].child].items = DOMAIN DeviceItems(t)[i].vols
    BY <1>14 DEF Matched, DeviceItems
  <2> QED
    BY <2>2, <2>3
<1>15. Matched(r)
  BY <1>4, <1>5, <1>14 DEF Matched
<1> QED
  BY <1>13, <1>15 DEF r

(* A list of volumes gets another ID, and the device links to it. *)
LEMMA VolumesMove ==
    ASSUME NEW t, Sound(t), NEW i \in DOMAIN DeviceItems(t), DeviceItems(t)[i].child # NoId
    PROVE  LET l   == DeviceItems(t)[i].child
               new == NewIdFor(t, l)
               r   == SetChildList(ReinsertList(t, l), t.root, i, new)
           IN /\ Sound(r) /\ r.root = t.root
              /\ DOMAIN DeviceItems(r) = DOMAIN DeviceItems(t)
              /\ DeviceItems(r)[i].child = new
              /\ DeviceItems(r)[i].vols = DeviceItems(t)[i].vols
              /\ \A j \in DOMAIN DeviceItems(t) \ {i} : DeviceItems(r)[j] = DeviceItems(t)[j]
              /\ r.lists[new].items = t.lists[l].items
              /\ \A k \in DOMAIN t.lists \ {l, t.root} : r.lists[k].items = t.lists[k].items
<1> DEFINE l    == DeviceItems(t)[i].child
           new  == NewIdFor(t, l)
           u    == InsertAgain(t, l)
           p    == ReinsertList(t, l)
           root == t.root
           r    == SetChildList(p, root, i, new)
<1>1. /\ TreeType(t) /\ root \in DOMAIN t.lists /\ root # NoId /\ t.lists[root].parent = NoId
      /\ DeviceItems(t) \in Seq(DeviceItemSet)
  BY DEF Sound, TreeType, RootList, ParentsRight, DeviceItems
<1>2. l \in DOMAIN t.lists \ {root} /\ t.lists[l].parent = root
  BY DeviceLinks
<1>3. /\ new \in Ids /\ new \notin DOMAIN t.lists \ {l}
      /\ Moves(t, u, l, new)
  <2> HIDE DEF l
  <2> QED
    BY <1>2, InsertAgainEffect
<1>4. p = [u EXCEPT !.inv = Append(u.inv, <<l, new>>)]
  BY DEF ReinsertList, Emit
<1> HIDE DEF new, u, p, l
<1>5. IsTree(p) /\ p.root = root /\ p.lists = u.lists /\ p.next = u.next
  BY <1>3, <1>4 DEF Moves, IsTree
<1>6. /\ DOMAIN p.lists = (DOMAIN t.lists \ {l}) \cup {new}
      /\ p.lists \in [DOMAIN p.lists -> ListSet] /\ p.next \in Ids
      /\ \A k \in DOMAIN p.lists \ {new} :
            /\ p.lists[k].kind = t.lists[k].kind
            /\ p.lists[k].parent = IF t.lists[k].parent = l THEN new ELSE t.lists[k].parent
            /\ p.lists[k].items = t.lists[k].items
      /\ p.lists[new].kind = t.lists[l].kind
      /\ p.lists[new].parent = root
      /\ p.lists[new].items = t.lists[l].items
  BY <1>1, <1>2, <1>3, <1>5 DEF Moves
<1>7. new # NoId /\ new \in IdsAndNone /\ new # root /\ root \in DOMAIN p.lists \ {new}
  BY <1>1, <1>2, <1>3, <1>6, MaxIdIsNat
<1>8. p.lists[root].items = DeviceItems(t) /\ p.lists[root].parent = NoId
  BY <1>1, <1>2, <1>6, <1>7 DEF DeviceItems, Sound, IdsInUse
<1>9. RootList(p)
  <2>1. \A k \in DOMAIN p.lists : p.lists[k].kind = "devices" <=> k = root
    BY <1>1, <1>2, <1>6, <1>7 DEF TreeType, RootList
  <2> QED
    BY <1>1, <1>5, <1>7, <1>8, <2>1 DEF RootList
<1>10. TreeType(p)
  BY <1>1, <1>5, <1>6, <1>7, <1>9 DEF TreeType
<1>11. /\ TreeType(r) /\ r.root = root
       /\ DOMAIN r.lists = DOMAIN p.lists
       /\ \A k \in DOMAIN p.lists \ {root} : r.lists[k] = p.lists[k]
       /\ r.lists[root].kind = p.lists[root].kind
       /\ r.lists[root].parent = NoId
       /\ DOMAIN r.lists[root].items = DOMAIN DeviceItems(t)
       /\ r.lists[root].items[i].vols = DeviceItems(t)[i].vols
       /\ r.lists[root].items[i].child = new
       /\ \A j \in DOMAIN DeviceItems(t) \ {i} : r.lists[root].items[j] = DeviceItems(t)[j]
  <2>1. root \in DOMAIN p.lists /\ i \in DOMAIN p.lists[root].items /\ new \in IdsAndNone
    BY <1>7, <1>8
  <2> HIDE DEF root
  <2>2. /\ TreeType(r)
        /\ r.root = p.root
        /\ DOMAIN r.lists = DOMAIN p.lists
        /\ \A k \in DOMAIN p.lists \ {root} : r.lists[k] = p.lists[k]
        /\ r.lists[root].kind = p.lists[root].kind
        /\ r.lists[root].parent = p.lists[root].parent
        /\ DOMAIN r.lists[root].items = DOMAIN p.lists[root].items
        /\ root = p.root => r.lists[root].items[i].vols = p.lists[root].items[i].vols
        /\ r.lists[root].items[i].child = new
        /\ \A j \in DOMAIN p.lists[root].items \ {i} :
              r.lists[root].items[j] = p.lists[root].items[j]
    BY <1>10, <2>1, SetChildType
  <2> HIDE DEF r
  <2> QED
    BY <1>5, <1>8, <2>2
<1> HIDE DEF r
<1>12. IdsInUse(r)
  BY <1>6, <1>7, <1>11 DEF Sound, IdsInUse
<1>13. ASSUME NEW k \in DOMAIN r.lists, r.lists[k].parent # NoId
       PROVE  /\ r.lists[k].parent \in DOMAIN r.lists
              /\ r.lists[k].kind = IF r.lists[k].parent = root THEN "volumes" ELSE "dir"
  <2>1. k # root /\ r.lists[k] = p.lists[k]
    BY <1>11, <1>13
  <2>2. CASE k = new
    BY <1>1, <1>2, <1>6, <1>7, <1>11, <2>1, <2>2 DEF Sound, ParentsRight
  <2>3. CASE k # new /\ t.lists[k].parent = l
    BY <1>1, <1>2, <1>6, <1>7, <1>11, <2>1, <2>3 DEF Sound, ParentsRight, IdsInUse
  <2>4. CASE k # new /\ t.lists[k].parent # l
    <3>1. r.lists[k].parent = t.lists[k].parent /\ r.lists[k].kind = t.lists[k].kind
          /\ k \in DOMAIN t.lists
      BY <1>6, <1>11, <2>1, <2>4
    <3> QED
      BY <1>6, <1>11, <1>13, <2>4, <3>1 DEF Sound, ParentsRight
  <2> QED
    BY <2>2, <2>3, <2>4
<1>14. ParentsRight(r)
  BY <1>11, <1>13 DEF ParentsRight
<1>15. ASSUME NEW k \in DOMAIN t.lists, NEW j \in DOMAIN t.lists[k].items,
              t.lists[k].items[j].child # NoId
       PROVE  /\ t.lists[k].items[j].child \in DOMAIN t.lists
              /\ t.lists[t.lists[k].items[j].child].parent = k
              /\ t.lists[k].items[j].child = l => k = root /\ j = i
              /\ \A m \in DOMAIN t.lists[k].items :
                    t.lists[k].items[m].child = t.lists[k].items[j].child => m = j
  <2>1. LinkRight(t, k, j)
    BY DEF Sound, LinksRight
  <2>2. /\ t.lists[k].items[j].child \in DOMAIN t.lists
        /\ t.lists[t.lists[k].items[j].child].parent = k
        /\ \A m \in DOMAIN t.lists[k].items :
              t.lists[k].items[m].child = t.lists[k].items[j].child => m = j
    BY <1>15, <2>1 DEF LinkRight
  <2>3. ASSUME t.lists[k].items[j].child = l PROVE k = root /\ j = i
    <3>1. k = root
      BY <1>2, <2>2, <2>3
    <3> QED
      BY <2>2, <2>3, <3>1 DEF DeviceItems, l
  <2> QED
    BY <2>2, <2>3
<1>16. ASSUME NEW k \in DOMAIN r.lists, NEW j \in DOMAIN r.lists[k].items
       PROVE  LinkRight(r, k, j)
  <2>1. CASE k = root /\ j = i
    <3>1. \A m \in DOMAIN DeviceItems(t) \ {i} : DeviceItems(t)[m].child # new
      <4> SUFFICES ASSUME NEW m \in DOMAIN DeviceItems(t) \ {i}, DeviceItems(t)[m].child = new
                   PROVE  FALSE
        OBVIOUS
      <4>1. new \in DOMAIN t.lists /\ new # l
        BY <1>1, <1>7, <1>15 DEF DeviceItems
      <4> QED
        BY <1>3, <4>1
    <3>2. r.lists[new].parent = root /\ new \in DOMAIN r.lists
      BY <1>6, <1>7, <1>11
    <3> QED
      BY <1>11, <2>1, <3>1, <3>2 DEF LinkRight
  <2>2. CASE ~(k = root /\ j = i)
    <3> DEFINE was == IF k = new THEN l ELSE k
               child == t.lists[was].items[j].child
    <3>1. /\ was \in DOMAIN t.lists
          /\ DOMAIN r.lists[k].items = DOMAIN t.lists[was].items
          /\ r.lists[k].items[j] = t.lists[was].items[j]
          /\ k = root => was = root
          /\ k # root => r.lists[k].items = t.lists[was].items
      <4>1. CASE k = root
        BY <1>1, <1>7, <1>11, <1>16, <2>2, <4>1 DEF DeviceItems
      <4>2. CASE k # root
        BY <1>2, <1>6, <1>11, <4>2
      <4> QED
        BY <4>1, <4>2
    <3>2. was = l <=> k = new
      BY <1>3, <1>6, <1>11
    <3>3. k # new => was = k
      OBVIOUS
    <3> HIDE DEF was
    <3> SUFFICES ASSUME child # NoId
                 PROVE  /\ child \in DOMAIN r.lists
                        /\ r.lists[child].parent = k
                        /\ \A m \in DOMAIN r.lists[k].items : r.lists[k].items[m].child = child => m = j
      BY <3>1 DEF LinkRight
    <3>4. /\ child \in DOMAIN t.lists
          /\ t.lists[child].parent = was
          /\ child = l => was = root /\ j = i
          /\ \A m \in DOMAIN t.lists[was].items : t.lists[was].items[m].child = child => m = j
      BY <1>15, <1>16, <3>1
    <3>5. child # l /\ child # root /\ child # new
      <4>1. child # l
        BY <1>2, <1>7, <2>2, <3>2, <3>3, <3>4
      <4>2. child # root
        BY <1>1, <3>1, <3>4 DEF Sound, IdsInUse
      <4> QED
        BY <1>3, <3>4, <4>1, <4>2
    <3> HIDE DEF child
    <3>6. /\ child \in DOMAIN r.lists
          /\ r.lists[child].parent = IF was = l THEN new ELSE was
      BY <1>6, <1>11, <3>4, <3>5
    <3>7. ASSUME NEW m \in DOMAIN r.lists[k].items, r.lists[k].items[m].child = child PROVE m = j
      <4>1. CASE k = root
        <5>1. m # i
          BY <1>11, <3>5, <3>7, <4>1
        <5>2. m \in DOMAIN DeviceItems(t) \ {i} /\ r.lists[root].items[m] = DeviceItems(t)[m]
          BY <1>11, <3>7, <4>1, <5>1
        <5> QED
          BY <3>1, <3>4, <3>7, <4>1, <5>2 DEF DeviceItems
      <4>2. CASE k # root
        BY <3>1, <3>4, <3>7, <4>2
      <4> QED
        BY <4>1, <4>2
    <3> QED
      BY <3>2, <3>3, <3>6, <3>7
  <2> QED
    BY <2>1, <2>2
<1>17. Sound(r)
  BY <1>11, <1>12, <1>14, <1>16 DEF Sound, LinksRight
<1>18. /\ r.lists[new].items = t.lists[l].items
       /\ \A k \in DOMAIN t.lists \ {l, root} : r.lists[k].items = t.lists[k].items
  BY <1>3, <1>6, <1>7, <1>11
<1>19. r.lists[root].items = DeviceItems(r)
  BY <1>11 DEF DeviceItems
<1> QED
  BY <1>11, <1>17, <1>18, <1>19 DEF r, p, new, l

(* reinsert_volume_list() makes the list of volumes match again. *)
LEMMA ReinsertVolumeListInv ==
    ASSUME NEW t, Sound(t), NEW i \in DOMAIN DeviceItems(t), NEW v \in Nat,
           v \in ToSet(DeviceItems(t)[i].vols),
           \A j \in DOMAIN DeviceItems(t) : DeviceItems(t)[j].child # NoId =>
              LET volumes == t.lists[DeviceItems(t)[j].child].items
              IN IF j = i THEN Len(volumes) + 1 = Len(DeviceItems(t)[j].vols)
                 ELSE DOMAIN volumes = DOMAIN DeviceItems(t)[j].vols
    PROVE  Sound(ReinsertVolumeList(t, i, v)) /\ Matched(ReinsertVolumeList(t, i, v))
<1> DEFINE item  == DeviceItems(t)[i]
           l     == item.child
           old   == t.lists[l].items
           at    == LowerBound(item.vols, v)
           x     == VolumeItem(item.dev, v)
           items == InsertAt(old, at, x)
           q     == [t EXCEPT !.lists[l].items = items]
           r     == SetChildList(ReinsertList(q, l), t.root, i, NewIdFor(q, l))
<1>1. ReinsertVolumeList(t, i, v) = IF l = NoId THEN t ELSE r
  BY DEF ReinsertVolumeList, Items, DeviceItems
<1>2. CASE l = NoId
  <2>1. \A j \in DOMAIN DeviceItems(t) : DeviceItems(t)[j].child # NoId =>
           DOMAIN t.lists[DeviceItems(t)[j].child].items = DOMAIN DeviceItems(t)[j].vols
    BY <1>2
  <2>2. Matched(t)
    BY <2>1 DEF Matched, DeviceItems
  <2> QED
    BY <1>1, <1>2, <2>2
<1>3. CASE l # NoId
  <2>1. DeviceItems(t) \in Seq(DeviceItemSet) /\ item \in DeviceItemSet
    BY DeviceItemsType
  <2>2. item.vols \in Seq(Nat) /\ item.dev \in Devices
    BY <2>1 DEF DeviceItemSet
  <2>3. l \in DOMAIN t.lists \ {t.root}
    BY <1>3, DeviceLinks
  <2>4. old \in Seq(ItemSet) /\ Len(old) + 1 = Len(item.vols)
    <3>1. old \in Seq(ItemSet)
      BY <2>3 DEF Sound, TreeType, ListSet
    <3> QED
      BY <1>3, <3>1
  <2>5. at \in 1..Len(old) + 1
    BY <2>2, <2>4, LowerBoundRange
  <2>6. x \in ItemSet /\ x.child = NoId
    BY <2>2, MaxIdIsNat DEF VolumeItem, VolumeItemSet, ItemSet
  <2> HIDE DEF at, x, old
  <2> DEFINE n == Len(old)
  <2>7. /\ items \in Seq(ItemSet) /\ Len(items) = n + 1
        /\ \A j \in 1..n + 1 :
              items[j] = IF j < at THEN old[j] ELSE IF j = at THEN x ELSE old[j - 1]
    BY <2>4, <2>5, <2>6, InsertOne
  <2> HIDE DEF items
  <2>8. n \in Nat /\ DOMAIN old = 1..n /\ DOMAIN items = 1..n + 1 /\ DOMAIN item.vols = 1..n + 1
    BY <2>2, <2>4, <2>7
  <2> HIDE DEF n
  <2> DEFINE was(j) == IF j < at THEN j ELSE j - 1
  <2>9. \A j \in DOMAIN items : items[j].child # NoId =>
           j # at /\ was(j) \in 1..n /\ items[j] = old[was(j)]
    BY <2>5, <2>6, <2>7, <2>8 DEF n
  <2>10. \A j, k \in 1..n + 1 : j # at /\ k # at /\ was(j) = was(k) => j = k
    BY <2>5, <2>8 DEF n
  <2> HIDE DEF was
  <2>11. ASSUME NEW j \in DOMAIN items, items[j].child # NoId
         PROVE  /\ \E k \in DOMAIN old : old[k].child = items[j].child
                /\ \A k \in DOMAIN items : items[k].child = items[j].child => k = j
    <3>1. was(j) \in DOMAIN old /\ items[j] = old[was(j)] /\ j # at
      BY <2>8, <2>9, <2>11
    <3>2. LinkRight(t, l, was(j))
      BY <2>3, <3>1 DEF Sound, LinksRight, old
    <3>3. ASSUME NEW k \in DOMAIN items, items[k].child = items[j].child PROVE k = j
      <4>1. was(k) \in DOMAIN old /\ items[k] = old[was(k)] /\ k # at
        BY <2>8, <2>9, <2>11, <3>3
      <4>2. was(k) = was(j)
        BY <2>11, <3>1, <3>2, <3>3, <4>1 DEF LinkRight, old
      <4> QED
        BY <2>8, <2>10, <3>1, <4>1, <4>2
    <3> QED
      BY <3>1, <3>3
  <2>12. /\ Sound(q) /\ q.root = t.root /\ DOMAIN q.lists = DOMAIN t.lists
         /\ \A k \in DOMAIN t.lists \ {l} : q.lists[k] = t.lists[k]
         /\ q.lists[l].items = items
    <3>1. l \in DOMAIN t.lists /\ (l = t.root => items \in Seq(DeviceItemSet))
      BY <2>3
    <3>2. \A j \in DOMAIN items : items[j].child # NoId =>
             /\ \E k \in DOMAIN t.lists[l].items : t.lists[l].items[k].child = items[j].child
             /\ \A k \in DOMAIN items : items[k].child = items[j].child => k = j
      BY <2>11 DEF old
    <3> HIDE DEF l, item
    <3> QED
      BY ONLY Sound(t), <2>7, <3>1, <3>2, NewItems, SMTT(30)
  <2> HIDE DEF q
  <2>13. DeviceItems(q) = DeviceItems(t)
    <3>1. t.root \in DOMAIN t.lists \ {l}
      BY <2>3, DeviceItemsType
    <3> QED
      BY <2>12, <3>1 DEF DeviceItems
  <2> DEFINE new == NewIdFor(q, l)
  <2>14. /\ Sound(r) /\ r.root = t.root
         /\ DOMAIN DeviceItems(r) = DOMAIN DeviceItems(t)
         /\ DeviceItems(r)[i].child = new
         /\ DeviceItems(r)[i].vols = item.vols
         /\ \A j \in DOMAIN DeviceItems(t) \ {i} : DeviceItems(r)[j] = DeviceItems(t)[j]
         /\ r.lists[new].items = items
         /\ \A k \in DOMAIN t.lists \ {l, t.root} : r.lists[k].items = t.lists[k].items
    <3>1. i \in DOMAIN DeviceItems(q) /\ DeviceItems(q)[i].child = l /\ l # NoId
      BY <1>3, <2>13
    <3> HIDE DEF item
    <3>2. /\ Sound(r) /\ r.root = q.root
          /\ DOMAIN DeviceItems(r) = DOMAIN DeviceItems(q)
          /\ DeviceItems(r)[i].child = new
          /\ DeviceItems(r)[i].vols = DeviceItems(q)[i].vols
          /\ \A j \in DOMAIN DeviceItems(q) \ {i} : DeviceItems(r)[j] = DeviceItems(q)[j]
          /\ r.lists[new].items = q.lists[l].items
          /\ \A k \in DOMAIN q.lists \ {l, q.root} : r.lists[k].items = q.lists[k].items
      BY <2>12, <3>1, VolumesMove
    <3> QED
      BY <2>12, <2>13, <3>2 DEF item
  <2> HIDE DEF r
  <2>15. ASSUME NEW j \in DOMAIN DeviceItems(r), DeviceItems(r)[j].child # NoId
         PROVE  DOMAIN r.lists[DeviceItems(r)[j].child].items = DOMAIN DeviceItems(r)[j].vols
    <3>1. CASE j = i
      BY <2>8, <2>14, <3>1
    <3>2. CASE j # i
      <4>1. j \in DOMAIN DeviceItems(t) /\ DeviceItems(r)[j] = DeviceItems(t)[j]
        BY <2>14, <2>15, <3>2
      <4>2. DeviceItems(t)[j].child \in DOMAIN t.lists \ {l, t.root}
        BY <1>3, <2>15, <3>2, <4>1, DeviceLinks
      <4>3. DOMAIN t.lists[DeviceItems(t)[j].child].items = DOMAIN DeviceItems(t)[j].vols
        BY <2>15, <3>2, <4>1
      <4> QED
        BY <2>14, <4>1, <4>2, <4>3
    <3> QED
      BY <3>1, <3>2
  <2>16. Matched(r)
    BY <2>15 DEF Matched, DeviceItems
  <2> QED
    BY <1>1, <1>3, <2>14, <2>16
<1> QED
  BY <1>2, <1>3

(* A volume is added to a device, and to the list of its volumes. *)
LEMMA NewVolumeInv ==
    ASSUME NEW t, Sound(t), Matched(t), NEW i \in DOMAIN DeviceItems(t), NEW v \in Nat
    PROVE  LET u == ReinsertVolumeList(AddVolume(t, i, v), i, v) IN Sound(u) /\ Matched(u)
<1> DEFINE a == AddVolume(t, i, v)
<1>1. /\ Sound(a) /\ a.root = t.root
      /\ DOMAIN a.lists = DOMAIN t.lists
      /\ \A k \in DOMAIN t.lists \ {t.root} : a.lists[k] = t.lists[k]
      /\ DOMAIN DeviceItems(a) = DOMAIN DeviceItems(t)
      /\ \A j \in DOMAIN DeviceItems(t) :
            /\ DeviceItems(a)[j].child = DeviceItems(t)[j].child
            /\ DeviceItems(a)[j].dev = DeviceItems(t)[j].dev
            /\ j # i => DeviceItems(a)[j] = DeviceItems(t)[j]
      /\ Len(DeviceItems(a)[i].vols) = Len(DeviceItems(t)[i].vols) + 1
      /\ v \in ToSet(DeviceItems(a)[i].vols)
  BY AddVolumeInv
<1> HIDE DEF a
<1>2. ASSUME NEW j \in DOMAIN DeviceItems(a), DeviceItems(a)[j].child # NoId
      PROVE  LET volumes == a.lists[DeviceItems(a)[j].child].items
             IN IF j = i THEN Len(volumes) + 1 = Len(DeviceItems(a)[j].vols)
                ELSE DOMAIN volumes = DOMAIN DeviceItems(a)[j].vols
  <2> DEFINE volumes == a.lists[DeviceItems(a)[j].child].items
  <2>1. DeviceItems(a)[j].child = DeviceItems(t)[j].child /\ j \in DOMAIN DeviceItems(t)
    BY <1>1
  <2>2. DeviceItems(t)[j].child \in DOMAIN t.lists \ {t.root}
    BY <1>2, <2>1, DeviceLinks
  <2>3. volumes = t.lists[DeviceItems(t)[j].child].items
    BY <1>1, <2>1, <2>2
  <2>4. DOMAIN t.lists[DeviceItems(t)[j].child].items = DOMAIN DeviceItems(t)[j].vols
    BY <1>2, <2>1 DEF Matched, DeviceItems
  <2>5. volumes \in Seq(ItemSet) /\ DeviceItems(t)[j].vols \in Seq(Nat)
    <3>1. DeviceItems(t)[j] \in DeviceItemSet
      BY <2>1, DeviceItemsType
    <3>2. t.lists[DeviceItems(t)[j].child] \in ListSet
      BY <2>2 DEF Sound, TreeType
    <3> QED
      BY <2>3, <3>1, <3>2 DEF DeviceItemSet, ListSet
  <2> HIDE DEF volumes
  <2>6. Len(volumes) = Len(DeviceItems(t)[j].vols)
    BY <2>3, <2>4, <2>5
  <2>7. CASE j = i
    BY <1>1, <2>6, <2>7 DEF volumes
  <2>8. CASE j # i
    BY <1>1, <2>1, <2>3, <2>4, <2>8 DEF volumes
  <2> QED
    BY <2>7, <2>8
<1> QED
  BY <1>1, <1>2, ReinsertVolumeListInv DEF a

-----------------------------------------------------------------------------
(* init_from_mounta(): no list of volumes has been entered yet. *)

FillInv(t) == Sound(t) /\ NoLinks(DeviceItems(t))

Lists(t, d) == \E j \in DOMAIN DeviceItems(t) : DeviceItems(t)[j].dev = d

(* Without links no list of volumes can disagree with its device.          *)
LEMMA NothingToMatch ==
    ASSUME NEW t, FillInv(t) PROVE Matched(t)
  BY DEF FillInv, NoLinks, Matched, DeviceItems

(* A device is added to the list that is filled at startup.                *)
LEMMA FillDevice ==
    ASSUME NEW t, FillInv(t), NEW d \in Devices
    PROVE  FillInv(AddToList(t, d)) /\ Lists(AddToList(t, d), d)
<1> DEFINE u == AddToList(t, d)
           n == Len(DeviceItems(t))
<1>1. Sound(t) /\ Matched(t) /\ NoLinks(DeviceItems(t))
  BY NothingToMatch DEF FillInv
<1>2. Sound(u) /\ DeviceItems(u) = Append(DeviceItems(t), DeviceItem(d))
  BY <1>1, AddToListInv
<1>3. /\ DOMAIN DeviceItems(t) = 1..n /\ n \in Nat /\ DOMAIN DeviceItems(u) = 1..n + 1
      /\ \A j \in 1..n : DeviceItems(u)[j] = DeviceItems(t)[j]
      /\ DeviceItems(u)[n + 1] = DeviceItem(d)
  <2>1. DeviceItems(t) \in Seq(DeviceItemSet)
    BY <1>1, DeviceItemsType
  <2>2. DeviceItem(d) \in DeviceItemSet
    <3>1. <<>> \in Seq(Nat)
      OBVIOUS
    <3> QED
      BY <3>1, MaxIdIsNat DEF DeviceItem, DeviceItemSet
  <2> HIDE DEF u, DeviceItemSet
  <2> QED
    BY <1>2, <2>1, <2>2, AppendTo
<1> HIDE DEF n, u
<1>4. DeviceItem(d).child = NoId /\ DeviceItem(d).dev = d
  BY DEF DeviceItem
<1>5. NoLinks(DeviceItems(u))
  BY <1>1, <1>3, <1>4 DEF NoLinks
<1>6. n + 1 \in DOMAIN DeviceItems(u)
  BY <1>3
<1> QED
  BY <1>2, <1>3, <1>4, <1>5, <1>6 DEF FillInv, Lists, u

(* A volume is added to a device at startup.                               *)
LEMMA FillVolume ==
    ASSUME NEW t, FillInv(t), NEW d, Lists(t, d), NEW v \in Nat
    PROVE  LET u == AddVolume(t, DeviceById(t, d), v) IN FillInv(u) /\ Lists(u, d)
<1> DEFINE i == DeviceById(t, d)
           u == AddVolume(t, i, v)
<1>1. Sound(t) /\ NoLinks(DeviceItems(t))
  BY DEF FillInv
<1>2. i \in DOMAIN DeviceItems(t)
  BY <1>1, FirstDeviceFound DEF DeviceById, Lists
<1> HIDE DEF i
<1>3. /\ Sound(u) /\ DOMAIN DeviceItems(u) = DOMAIN DeviceItems(t)
      /\ \A j \in DOMAIN DeviceItems(t) :
            /\ DeviceItems(u)[j].child = DeviceItems(t)[j].child
            /\ DeviceItems(u)[j].dev = DeviceItems(t)[j].dev
  BY <1>1, <1>2, AddVolumeInv
<1> HIDE DEF u
<1>4. FillInv(u) /\ Lists(u, d)
  BY <1>1, <1>3 DEF FillInv, Lists, NoLinks
<1> QED
  BY <1>4 DEF u, i

(* All volumes of a device are added at startup, by induction on them.     *)
LEMMA FilledDeviceInv ==
    ASSUME NEW t, FillInv(t), NEW d \in Devices, NEW vs \in Seq(Nat)
    PROVE  FillInv(FilledDevice(t, d, vs))
<1> DEFINE base == AddToList(t, d)
           Step(a, n) == AddVolume(a, DeviceById(a, d), vs[n])
           added[n \in 0..Len(vs)] == IF n = 0 THEN base ELSE Step(added[n - 1], n)
           Made(f, m) == f = [n \in 0..m |-> IF n = 0 THEN base ELSE Step(f[n - 1], n)]
           M == {m \in Nat : \E f : Made(f, m)}
           Good(a) == FillInv(a) /\ Lists(a, d)
           S == {n \in Nat : n <= Len(vs) => Good(added[n])}
<1>1. FilledDevice(t, d, vs) = added[Len(vs)]
  BY DEF FilledDevice
<1>2. Good(base)
  BY FillDevice
<1>3. ASSUME NEW a, Good(a), NEW n \in 1..Len(vs) PROVE Good(Step(a, n))
  <2>1. vs[n] \in Nat
    OBVIOUS
  <2> QED
    BY <1>3, <2>1, FillVolume
<1> HIDE DEF base, Step, Good
<1>4. Len(vs) \in M
  <2>1. 0 \in M
    <3>1. Made([n \in 0..0 |-> base], 0)
      OBVIOUS
    <3> QED
      BY <3>1
  <2>2. ASSUME NEW m \in Nat, m \in M PROVE m + 1 \in M
    <3>1. PICK f : Made(f, m)
      BY <2>2
    <3> DEFINE g == [n \in 0..m + 1 |-> IF n <= m THEN f[n] ELSE Step(f[m], m + 1)]
    <3>2. \A n \in 0..m : f[n] = IF n = 0 THEN base ELSE Step(f[n - 1], n)
      BY <3>1
    <3>3. ASSUME NEW n \in 0..m + 1 PROVE g[n] = IF n = 0 THEN base ELSE Step(g[n - 1], n)
      <4>1. CASE n = 0
        BY <3>2, <4>1
      <4>2. CASE n \in 1..m
        <5>1. n \in 0..m /\ n - 1 \in 0..m /\ n # 0
          BY <4>2
        <5> QED
          BY <3>2, <5>1
      <4>3. CASE n = m + 1
        BY <4>3
      <4> QED
        BY <4>1, <4>2, <4>3
    <3>4. Made(g, m + 1)
      BY <3>3
    <3> HIDE DEF g, Made
    <3> QED
      BY <3>4
  <2> HIDE DEF M
  <2>3. Nat \subseteq M
    BY <2>1, <2>2, UpFromZero
  <2> QED
    BY <2>3
<1>5. added = [n \in 0..Len(vs) |-> IF n = 0 THEN base ELSE Step(added[n - 1], n)]
  BY <1>4
<1> HIDE DEF added
<1>6. \A n \in 0..Len(vs) : added[n] = IF n = 0 THEN base ELSE Step(added[n - 1], n)
  BY <1>5
<1>7. 0 \in S
  BY <1>2, <1>6
<1>8. ASSUME NEW n \in Nat, n \in S PROVE n + 1 \in S
  <2> SUFFICES ASSUME n + 1 <= Len(vs) PROVE Good(added[n + 1])
    OBVIOUS
  <2>1. /\ Good(added[n]) /\ n + 1 \in 0..Len(vs) /\ n + 1 \in 1..Len(vs)
        /\ n + 1 # 0 /\ (n + 1) - 1 = n
    BY <1>8
  <2>2. added[n + 1] = Step(added[n], n + 1)
    BY <1>6, <2>1
  <2> QED
    BY <1>3, <2>1, <2>2
<1> HIDE DEF S
<1>9. Nat \subseteq S
  BY <1>7, <1>8, UpFromZero
<1> QED
  BY <1>1, <1>9 DEF S, Good

(* All devices are added at startup, by induction on them.                 *)
LEMMA FilledInv ==
    ASSUME NEW t, FillInv(t), MountsInv, NEW ds \in Seq(Devices)
    PROVE  FillInv(Filled(t, ds))
<1> DEFINE Step(a, n) == FilledDevice(a, ds[n], SetToSeq(mounta[ds[n]].vols))
           filled[n \in 0..Len(ds)] == IF n = 0 THEN t ELSE Step(filled[n - 1], n)
           Made(f, m) == f = [n \in 0..m |-> IF n = 0 THEN t ELSE Step(f[n - 1], n)]
           M == {m \in Nat : \E f : Made(f, m)}
           S == {n \in Nat : n <= Len(ds) => FillInv(filled[n])}
<1>1. Filled(t, ds) = filled[Len(ds)]
  BY DEF Filled
<1>2. ASSUME NEW a, FillInv(a), NEW n \in 1..Len(ds) PROVE FillInv(Step(a, n))
  <2> DEFINE vols == mounta[ds[n]].vols
  <2>1. ds[n] \in Devices
    OBVIOUS
  <2>2. IsFiniteSet(vols) /\ vols \subseteq Nat
    BY <2>1 DEF MountsInv, MountSet
  <2> HIDE DEF vols
  <2>3. SetToSeq(vols) \in Seq(vols)
    BY <2>2, Enumerated
  <2>4. SetToSeq(vols) \in Seq(Nat)
    <3> DEFINE s == SetToSeq(vols)
               N == Nat
    <3>1. s \in Seq(vols) /\ vols \subseteq N
      BY <2>2, <2>3
    <3> HIDE DEF s, N
    <3>2. s \in Seq(N)
      BY <3>1
    <3> QED
      BY <3>2 DEF s, N
  <2> QED
    BY <1>2, <2>1, <2>4, FilledDeviceInv DEF vols
<1> HIDE DEF Step
<1>4. Len(ds) \in M
  <2>1. 0 \in M
    <3>1. Made([n \in 0..0 |-> t], 0)
      OBVIOUS
    <3> QED
      BY <3>1
  <2>2. ASSUME NEW m \in Nat, m \in M PROVE m + 1 \in M
    <3>1. PICK f : Made(f, m)
      BY <2>2
    <3> DEFINE g == [n \in 0..m + 1 |-> IF n <= m THEN f[n] ELSE Step(f[m], m + 1)]
    <3>2. \A n \in 0..m : f[n] = IF n = 0 THEN t ELSE Step(f[n - 1], n)
      BY <3>1
    <3>3. ASSUME NEW n \in 0..m + 1 PROVE g[n] = IF n = 0 THEN t ELSE Step(g[n - 1], n)
      <4>1. CASE n = 0
        BY <3>2, <4>1
      <4>2. CASE n \in 1..m
        <5>1. n \in 0..m /\ n - 1 \in 0..m /\ n # 0
          BY <4>2
        <5> QED
          BY <3>2, <5>1
      <4>3. CASE n = m + 1
        BY <4>3
      <4> QED
        BY <4>1, <4>2, <4>3
    <3>4. Made(g, m + 1)
      BY <3>3
    <3> HIDE DEF g, Made
    <3> QED
      BY <3>4
  <2> HIDE DEF M
  <2>3. Nat \subseteq M
    BY <2>1, <2>2, UpFromZero
  <2> QED
    BY <2>3
<1>5. filled = [n \in 0..Len(ds) |-> IF n = 0 THEN t ELSE Step(filled[n - 1], n)]
  BY <1>4
<1> HIDE DEF filled
<1>6. \A n \in 0..Len(ds) : filled[n] = IF n = 0 THEN t ELSE Step(filled[n - 1], n)
  BY <1>5
<1>7. 0 \in S
  BY <1>6
<1>8. ASSUME NEW n \in Nat, n \in S PROVE n + 1 \in S
  <2> SUFFICES ASSUME n + 1 <= Len(ds) PROVE FillInv(filled[n + 1])
    OBVIOUS
  <2>1. /\ FillInv(filled[n]) /\ n + 1 \in 0..Len(ds) /\ n + 1 \in 1..Len(ds)
        /\ n + 1 # 0 /\ (n + 1) - 1 = n
    BY <1>8
  <2>2. filled[n + 1] = Step(filled[n], n + 1)
    BY <1>6, <2>1
  <2> QED
    BY <1>2, <2>1, <2>2
<1> HIDE DEF S
<1>9. Nat \subseteq S
  BY <1>7, <1>8, UpFromZero
<1> QED
  BY <1>1, <1>9 DEF S

-----------------------------------------------------------------------------
(* The actions *)

StateInv == BrokerInv /\ (~Running => tree = EmptyTree)

(* The tree before startup has a root without items.                       *)
LEMMA EmptyTreeInv == FillInv(EmptyTree) /\ EmptyTree.next \in Ids
<1> DEFINE t == EmptyTree
           list == NewList("devices", NoId, <<>>)
<1>1. list \in ListSet /\ list = [kind |-> "devices", parent |-> NoId, items |-> <<>>]
  BY MaxIdIsNat DEF NewList, ListSet
<1>2. 1 \in IdsAndNone /\ 1 # NoId /\ 1 \in Ids /\ NoId \in IdsAndNone
  BY MaxIdIsNat
<1>3. t.next \in Ids
  BY MaxIdIsNat DEF EmptyTree
<1>4. /\ IsTree(t) /\ t.root = 1 /\ DOMAIN t.lists = {1} /\ t.lists[1] = list
      /\ t.lists = [l \in {1} |-> list]
  BY DEF EmptyTree, IsTree
<1> HIDE DEF t
<1>5. t.lists[1].kind = "devices" /\ t.lists[1].parent = NoId /\ t.lists[1].items = <<>>
  BY <1>1, <1>4
<1>6. RootList(t)
  <2>1. <<>> \in Seq(DeviceItemSet)
    OBVIOUS
  <2> QED
    BY <1>2, <1>4, <1>5, <2>1 DEF RootList
<1>7. TreeType(t)
  <2>1. t.lists \in [DOMAIN t.lists -> ListSet]
    BY <1>1, <1>4
  <2> QED
    BY <1>2, <1>3, <1>4, <1>6, <2>1 DEF TreeType
<1>8. IdsInUse(t) /\ ParentsRight(t)
  BY <1>2, <1>4, <1>5 DEF IdsInUse, ParentsRight
<1>9. LinksRight(t) /\ NoLinks(DeviceItems(t))
  BY <1>4, <1>5 DEF LinksRight, NoLinks, DeviceItems
<1> QED
  BY <1>3, <1>7, <1>8, <1>9 DEF Sound, FillInv, t

(* The bound on the number of lists leaves an ID to be given. *)
LEMMA BoundedIsNotFull ==
    ASSUME NEW t, TreeInv(t), WithinBound(t) PROVE Sound(t) /\ Matched(t)
<1> SUFFICES ASSUME Full(t) PROVE FALSE
  BY DEF TreeInv
<1>1. MaxId \in Nat \ {0} /\ Ids = 1..MaxId /\ DOMAIN t.lists \subseteq 0..MaxId
  BY MaxIdIsNat DEF TreeInv, TreeType
<1>2. IsFiniteSet(0..MaxId) /\ Cardinality(1..MaxId) = MaxId
  <2>1. 0 \in Int /\ 1 \in Int /\ MaxId \in Int
        /\ (IF 1 > MaxId THEN 0 ELSE MaxId - 1 + 1) = MaxId
    BY <1>1
  <2> QED
    BY <2>1, FS_Interval
<1>3. IsFiniteSet(DOMAIN t.lists)
  BY <1>1, <1>2, FS_Subset
<1>4. 1..MaxId \subseteq DOMAIN t.lists
  BY <1>1 DEF Full
<1>5. /\ Cardinality(1..MaxId) <= Cardinality(DOMAIN t.lists)
      /\ Cardinality(DOMAIN t.lists) \in Nat
  BY <1>3, <1>4, FS_Subset, FS_CardinalityType
<1>6. Cardinality(DOMAIN t.lists) <= MaxLists /\ MaxLists \in 1..MaxId - 1
  BY UsbBrokerAssumption DEF WithinBound
<1> QED
  BY <1>1, <1>2, <1>5, <1>6

(* An action that yields a sound tree keeps the invariant of the broker.   *)
LEMMA BecomesInv ==
    ASSUME NEW t, Sound(t), Matched(t), Becomes(t)
    PROVE  Sound(tree') /\ Matched(tree')
<1>1. IsTree(t)
  BY DEF Sound, TreeType
<1> QED
  BY <1>1, InvAside DEF Becomes

(* A tree whose signals have been sent is as sound.                        *)
LEMMA AnnouncedInv ==
    ASSUME NEW t, Sound(t), Matched(t)
    PROVE  Sound(Announced(t)) /\ Matched(Announced(t))
<1>1. IsTree(t)
  BY DEF Sound, TreeType
<1> QED
  BY <1>1, InvAside DEF Announced, Emit

(* A signal taken from or put into the queue does not touch the tree.      *)
LEMMA SignalSent ==
    ASSUME MountsInv, NEW s \in SignalSet, Signal(s)
    PROVE  signals' \in Seq(SignalSet)
<1> HIDE DEF SignalSet
<1>1. signals \in Seq(SignalSet)
  BY DEF MountsInv
<1>2. CASE phase = "setup"
  BY <1>1, <1>2 DEF Signal
<1>3. CASE phase # "setup"
  BY <1>1, <1>3, AppendTo DEF Signal
<1> QED
  BY <1>2, <1>3

(* The invariant holds initially.                                          *)
LEMMA InitInv == Init => StateInv
<1> SUFFICES ASSUME Init PROVE StateInv
  OBVIOUS
<1>1. Sound(tree) /\ Matched(tree) /\ tree = EmptyTree
  BY EmptyTreeInv, NothingToMatch DEF Init, FillInv
<1>2. MountsInv
  <2>1. Absent \in MountSet /\ Absent.vols = {}
    BY UsbBrokerAssumption DEF Absent, MountSet
  <2>2. IsFiniteSet({})
    BY FS_EmptySet
  <2>3. mounta \in [Devices -> MountSet] /\ \A d \in Devices : mounta[d].vols = {}
    BY <2>1 DEF Init
  <2>4. signals \in Seq(SignalSet)
    BY DEF Init
  <2> QED
    BY <2>2, <2>3, <2>4 DEF MountsInv
<1> QED
  BY <1>1, <1>2 DEF StateInv, BrokerInv

(* A mount daemon signal about plugging or pulling changes file systems    *)
(* only.                                                                   *)
LEMMA MountsStep ==
    ASSUME MountsInv, Plugs PROVE MountsInv' /\ UNCHANGED <<tree, phase>>
<1>1. mounta \in [Devices -> MountSet] /\ \A d \in Devices : IsFiniteSet(mounta[d].vols)
  BY DEF MountsInv
<1>2. ASSUME NEW d \in Devices, NEW c \in DOMAIN Contents, Plug(d, c)
      PROVE  MountsInv' /\ UNCHANGED <<tree, phase>>
  <2> DEFINE m == [present |-> TRUE, vols |-> {}, content |-> c]
  <2>1. m \in MountSet /\ m.vols = {} /\ IsFiniteSet({})
    BY FS_EmptySet DEF MountSet
  <2>2. mounta' = [mounta EXCEPT ![d] = m] /\ UNCHANGED <<tree, phase>>
    BY <1>2 DEF Plug
  <2> HIDE DEF m
  <2>3. mounta' \in [Devices -> MountSet] /\ \A e \in Devices : IsFiniteSet(mounta'[e].vols)
    BY <1>1, <2>1, <2>2
  <2>4. NewUSBDevice(d) \in SignalSet
    BY DEF NewUSBDevice, SignalSet
  <2>5. signals' \in Seq(SignalSet)
    BY <1>2, <2>4, SignalSent DEF Plug
  <2> QED
    BY <2>2, <2>3, <2>5 DEF MountsInv
<1>3. ASSUME NEW d \in Devices, NEW v \in Volumes(d), Mount(d, v)
      PROVE  MountsInv' /\ UNCHANGED <<tree, phase>>
  <2>1. v \in Nat
    BY UsbBrokerAssumption
  <2> DEFINE m == [mounta[d] EXCEPT !.vols = @ \cup {v}]
  <2>2. m \in MountSet /\ m.vols = mounta[d].vols \cup {v}
    <3>1. mounta[d] \in MountSet
      BY <1>1
    <3> QED
      BY <2>1, <3>1 DEF MountSet
  <2>3. IsFiniteSet(m.vols)
    BY <1>1, <2>2, FS_AddElement
  <2>4. mounta' = [mounta EXCEPT ![d] = m] /\ UNCHANGED <<tree, phase>>
    BY <1>3 DEF Mount
  <2> HIDE DEF m
  <2>5. mounta' \in [Devices -> MountSet] /\ \A e \in Devices : IsFiniteSet(mounta'[e].vols)
    BY <1>1, <2>2, <2>3, <2>4
  <2>6. NewVolume(d, v) \in SignalSet
    BY <2>1 DEF NewVolume, SignalSet
  <2>7. signals' \in Seq(SignalSet)
    BY <1>3, <2>6, SignalSent DEF Mount
  <2> QED
    BY <2>4, <2>5, <2>7 DEF MountsInv
<1>4. ASSUME NEW d \in Devices, Unplug(d)
      PROVE  MountsInv' /\ UNCHANGED <<tree, phase>>
  <2>1. Absent \in MountSet /\ Absent.vols = {} /\ IsFiniteSet({})
    BY UsbBrokerAssumption, FS_EmptySet DEF Absent, MountSet
  <2>2. mounta' = [mounta EXCEPT ![d] = Absent] /\ UNCHANGED <<tree, phase>>
    BY <1>4 DEF Unplug
  <2>3. mounta' \in [Devices -> MountSet] /\ \A e \in Devices : IsFiniteSet(mounta'[e].vols)
    BY <1>1, <2>1, <2>2
  <2>4. DeviceRemoved(d) \in SignalSet
    BY DEF DeviceRemoved, SignalSet
  <2>5. signals' \in Seq(SignalSet)
    BY <1>4, <2>4, SignalSent DEF Unplug
  <2> QED
    BY <2>2, <2>3, <2>5 DEF MountsInv
<1> QED
  BY <1>2, <1>3, <1>4 DEF Plugs

(* The mount daemon answers, announces devices and volumes, or dies.       *)
LEMMA StartsStep ==
    ASSUME StateInv, Starts PROVE StateInv'
<1>1. MountsInv /\ Sound(tree) /\ Matched(tree)
  BY DEF StateInv, BrokerInv
<1>2. CASE Subscribe
  <2>1. tree' = tree /\ tree = EmptyTree /\ UNCHANGED <<mounta, signals>>
    BY <1>2 DEF Subscribe, StateInv, Running
  <2> QED
    BY <1>1, <2>1 DEF StateInv, BrokerInv, MountsInv
<1>3. CASE PreMainLoop
  <2>1. /\ phase = "subscribed" /\ phase' = "running" /\ UNCHANGED <<mounta, signals>>
    BY <1>3 DEF PreMainLoop
  <2>2. FillInv(tree)
    BY <2>1, EmptyTreeInv DEF StateInv, Running
  <2>3. PICK ds \in Orders(Present) :
           LET t == Announced(Filled(tree, ds))
           IN Becomes(IF ds = <<>> THEN t ELSE ReinsertDeviceList(t))
    BY <1>3 DEF PreMainLoop
  <2>4. ds \in Seq(Devices)
    <3>1. Present \subseteq Devices /\ IsFiniteSet(Devices)
      BY UsbBrokerAssumption DEF Present
    <3>2. Cardinality(Present) \in Nat
      BY <3>1, FS_Subset, FS_CardinalityType
    <3>3. ds \in [1..Cardinality(Present) -> Present]
      BY DEF Orders
    <3>4. ds \in [1..Cardinality(Present) -> Devices]
      BY <3>1, <3>3
    <3> QED
      BY <3>2, <3>4
  <2> DEFINE f == Filled(tree, ds)
             t == Announced(f)
             u == IF ds = <<>> THEN t ELSE ReinsertDeviceList(t)
  <2>5. Sound(f) /\ Matched(f)
    BY <1>1, <2>2, <2>4, FilledInv, NothingToMatch DEF FillInv
  <2>6. Becomes(u)
    BY <2>3
  <2> HIDE DEF f
  <2>7. Sound(t) /\ Matched(t)
    BY <2>5, AnnouncedInv
  <2> HIDE DEF t
  <2>8. Sound(u) /\ Matched(u)
    BY <2>7, ReinsertDeviceListInv
  <2> HIDE DEF u
  <2>9. Sound(tree') /\ Matched(tree')
    BY <2>6, <2>8, BecomesInv
  <2> QED
    BY <1>1, <2>1, <2>9 DEF StateInv, BrokerInv, MountsInv, Running
<1>4. CASE PreMainLoopFails
  <2>1. /\ phase' = "unsynced" /\ UNCHANGED <<mounta, signals>> /\ Becomes(Announced(tree))
    BY <1>4 DEF PreMainLoopFails
  <2>2. Sound(tree') /\ Matched(tree')
    BY <1>1, <2>1, AnnouncedInv, BecomesInv
  <2> QED
    BY <1>1, <2>1, <2>2 DEF StateInv, BrokerInv, MountsInv, Running
<1> QED
  BY <1>2, <1>3, <1>4 DEF Starts

(* A delivered signal names a device, or a volume of one.                  *)
LEMMA DeliveredSignal ==
    ASSUME MountsInv, NEW name, Delivered(name)
    PROVE  /\ MountsInv' /\ Running /\ Running'
           /\ Head(signals) \in SignalSet /\ Head(signals).name = name
           /\ Head(signals).dev \in Devices
           /\ name = "NewVolume" => Head(signals).vol \in Nat
<1>1. /\ Running /\ signals # <<>> /\ Head(signals).name = name
      /\ signals' = Tail(signals) /\ UNCHANGED <<mounta, phase>>
  BY DEF Delivered
<1>2. signals \in Seq(SignalSet)
  BY DEF MountsInv
<1>3. Head(signals) \in SignalSet /\ signals' \in Seq(SignalSet)
  <2> HIDE DEF SignalSet
  <2> QED
    BY <1>1, <1>2, TakeFrom
<1>4. Head(signals).dev \in Devices /\ (name = "NewVolume" => Head(signals).vol \in Nat)
  BY <1>1, <1>3 DEF SignalSet
<1> QED
  BY <1>1, <1>3, <1>4 DEF MountsInv, Running

(* The broker handles a mount daemon signal.                               *)
LEMMA DispatchStep ==
    ASSUME StateInv, Dispatch PROVE StateInv'
<1>1. MountsInv /\ Sound(tree) /\ Matched(tree)
  BY DEF StateInv, BrokerInv
<1> DEFINE s == Head(signals)
           i == DeviceById(tree, s.dev)
<1>2. i # 0 => i \in DOMAIN DeviceItems(tree)
  BY <1>1, FirstDeviceFound DEF DeviceById
<1>3. CASE HandleNewUSBDevice
  <2>1. MountsInv' /\ Running' /\ s.dev \in Devices
    BY <1>1, <1>3, DeliveredSignal DEF HandleNewUSBDevice
  <2> DEFINE u == IF i # 0 THEN tree ELSE ReinsertDeviceList(AddToList(tree, s.dev))
  <2>2. Becomes(u)
    BY <1>3 DEF HandleNewUSBDevice
  <2> HIDE DEF s, i
  <2>3. Sound(u) /\ Matched(u)
    BY <1>1, <2>1, AddToListInv, ReinsertDeviceListInv
  <2> HIDE DEF u
  <2> QED
    BY <2>1, <2>2, <2>3, BecomesInv DEF StateInv, BrokerInv
<1>4. CASE HandleDeviceRemoved
  <2>1. MountsInv' /\ Running'
    BY <1>1, <1>4, DeliveredSignal DEF HandleDeviceRemoved
  <2> DEFINE u == IF i = 0 THEN tree ELSE ReinsertDeviceList(RemoveFromList(tree, i))
  <2>2. Becomes(u)
    BY <1>4 DEF HandleDeviceRemoved
  <2> HIDE DEF s, i
  <2>3. Sound(u) /\ Matched(u)
    BY <1>1, <1>2, RemoveFromListInv, ReinsertDeviceListInv
  <2> HIDE DEF u
  <2> QED
    BY <2>1, <2>2, <2>3, BecomesInv DEF StateInv, BrokerInv
<1>5. CASE HandleNewVolume
  <2>1. MountsInv' /\ Running' /\ s.vol \in Nat
    BY <1>1, <1>5, DeliveredSignal DEF HandleNewVolume
  <2> DEFINE u == IF i = 0 THEN tree
                  ELSE IF HasVolume(Items(tree, tree.root)[i].vols, s.vol) THEN tree
                  ELSE ReinsertVolumeList(AddVolume(tree, i, s.vol), i, s.vol)
  <2>2. Becomes(u)
    BY <1>5 DEF HandleNewVolume
  <2> HIDE DEF s, i
  <2>3. Sound(u) /\ Matched(u)
    BY <1>1, <1>2, <2>1, NewVolumeInv
  <2> HIDE DEF u
  <2> QED
    BY <2>1, <2>2, <2>3, BecomesInv DEF StateInv, BrokerInv
<1> QED
  BY <1>3, <1>4, <1>5 DEF Dispatch

(* A client enters lists, makes keys and realizes locations.               *)
LEMMA BrowsesStep ==
    ASSUME StateInv, Browses PROVE StateInv'
<1>1. MountsInv /\ Sound(tree) /\ Matched(tree) /\ TreeInv(tree) /\ MountsType(mounta)
  BY DEF StateInv, BrokerInv, TreeInv, Sound, MountsInv, MountsType
<1>2. ASSUME NEW l, NEW i, GetListID(l, i) PROVE StateInv'
  <2> DEFINE e == EnterChild(tree, mounta, l, i)
  <2>1. /\ Running /\ WithinBound(e.t) /\ tree' = e.t /\ UNCHANGED <<mounta, signals, phase>>
    BY <1>2 DEF GetListID, Entered
  <2>2. TreeInv(e.t)
    BY <1>1, EnterChildInv
  <2> HIDE DEF e
  <2>3. Sound(tree') /\ Matched(tree')
    BY <2>1, <2>2, BoundedIsNotFull
  <2> QED
    BY <1>1, <2>1, <2>3 DEF StateInv, BrokerInv, MountsInv, Running
<1>3. ASSUME NEW key \in Keys, Realize(key) PROVE StateInv'
  <2> DEFINE w == RealizeLocation(tree, mounta, key)
  <2>1. /\ Running /\ WithinBound(w.t) /\ tree' = w.t /\ UNCHANGED <<mounta, signals, phase>>
    BY <1>3 DEF Realize, Realized
  <2>2. TreeInv(w.t)
    BY <1>1, RealizeInv
  <2> HIDE DEF w
  <2>3. Sound(tree') /\ Matched(tree')
    BY <2>1, <2>2, BoundedIsNotFull
  <2> QED
    BY <1>1, <2>1, <2>3 DEF StateInv, BrokerInv, MountsInv, Running
<1>4. ASSUME NEW l, Collect(l) PROVE StateInv'
  <2>1. /\ Running /\ l # tree.root /\ Becomes(Discard(tree, l))
        /\ UNCHANGED <<mounta, signals, phase>>
    BY <1>4 DEF Collect
  <2>2. Sound(tree') /\ Matched(tree')
    BY <1>1, <2>1, DiscardInv, BecomesInv
  <2> QED
    BY <1>1, <2>1, <2>2 DEF StateInv, BrokerInv, MountsInv, Running
<1> QED
  BY <1>2, <1>3, <1>4 DEF Browses

(* Every step keeps the invariant.                                         *)
LEMMA NextInv == StateInv /\ [Next]_vars => StateInv'
<1> SUFFICES ASSUME StateInv, [Next]_vars PROVE StateInv'
  OBVIOUS
<1>1. CASE Plugs
  <2>1. MountsInv' /\ UNCHANGED <<tree, phase>>
    BY <1>1, MountsStep DEF StateInv, BrokerInv
  <2> QED
    BY <2>1 DEF StateInv, BrokerInv, Running
<1>2. CASE UNCHANGED vars
  BY <1>2 DEF vars, StateInv, BrokerInv, MountsInv, Running
<1> QED
  BY <1>1, <1>2, StartsStep, DispatchStep, BrowsesStep DEF Next

(* What the invariant says of the tree is what TreeSound asks for. *)
LEMMA SoundTree == StateInv => TreeSound
<1> SUFFICES ASSUME StateInv PROVE TreeSound
  OBVIOUS
<1>1. Sound(tree) /\ TreeType(tree)
  BY DEF StateInv, BrokerInv, Sound
<1>2. ASSUME NEW l \in DOMAIN tree.lists, NEW i \in DOMAIN Items(tree, l),
             Items(tree, l)[i].child # NoId
      PROVE  /\ Cached(tree, Items(tree, l)[i].child)
             /\ tree.lists[Items(tree, l)[i].child].parent = l
             /\ ItemByChild(tree, l, Items(tree, l)[i].child) = i
  BY <1>1, <1>2, LinkFound
<1>3. ASSUME NEW l \in Browsable PROVE KindOf(tree, l) = tree.lists[l].kind
  <2>1. l \in DOMAIN tree.lists /\ tree.root \in ToSet(Ancestors(tree, l))
    BY DEF Browsable
  <2>2. CASE l = tree.root
    BY <1>1, <2>1, <2>2 DEF KindOf, TreeType, RootList
  <2>3. CASE l # tree.root
    <3>1. ParentOf(tree, l) = tree.lists[l].parent
      BY <2>1 DEF ParentOf, Cached
    <3>2. ParentOf(tree, l) # NoId
      <4> SUFFICES ASSUME ParentOf(tree, l) = NoId PROVE FALSE
        OBVIOUS
      <4>1. Ancestors(tree, l) = <<l>>
        BY <1>1, NoAncestors
      <4>2. ToSet(<<l>>) = {l}
        BY DEF ToSet
      <4> QED
        BY <2>1, <2>3, <4>1, <4>2
    <3> QED
      BY <1>1, <2>1, <2>3, <3>1, <3>2
         DEF KindOf, IsVolumeListOrInvalid, Sound, ParentsRight
  <2> QED
    BY <2>2, <2>3
<1> QED
  BY <1>2, <1>3 DEF TreeSound

(***************************************************************************)
(* Parent and child lists of the USB broker agree, whatever the mount      *)
(* daemon reports, in whichever order, and wherever clients browse: an ID  *)
(* that an item stores is the ID of a cached list whose parent is the      *)
(* item's list, no other item links to it (so ListTree's enter_child() and *)
(* obliviate_child() find the right one), and the class that the broker    *)
(* casts the pointer of a browsable list to is the class of that list.     *)
(***************************************************************************)
THEOREM LinksAreRight == Spec => []TreeSound
<1>1. Init => StateInv
  BY InitInv
<1>2. StateInv /\ [Next]_vars => StateInv'
  BY NextInv
<1>3. StateInv => TreeSound
  BY SoundTree
<1> QED
  BY <1>1, <1>2, <1>3, PTL DEF Spec

-----------------------------------------------------------------------------
(***************************************************************************)
(* The shape of a tree.  pl says of each list where it is: the device, the *)
(* volume, and the names of the directories that lead to it.               *)
(***************************************************************************)
PlaceNames == Devices \cup Nat

ShowsAt(t, l, i) == Shows(t.lists[l].kind, t.lists[l].items[i])

Placed(t, pl) ==
    /\ pl \in [DOMAIN t.lists -> Seq(PlaceNames)]
    /\ pl[t.root] = <<>>
    /\ \A l \in DOMAIN t.lists : \A i \in DOMAIN t.lists[l].items :
          t.lists[l].items[i].child # NoId =>
             pl[t.lists[l].items[i].child] = Append(pl[l], ShowsAt(t, l, i))

IsLinked(t, c) ==
    \E l \in DOMAIN t.lists : \E i \in DOMAIN t.lists[l].items : t.lists[l].items[i].child = c

(* The lists a client may know *)
Reached(t) == {c \in DOMAIN t.lists : c = t.root \/ IsLinked(t, c)}

(* All others are directories that could not be read. *)
StraysEmpty(t) == \A l \in DOMAIN t.lists \ Reached(t) : t.lists[l].items = <<>>

(* The class of a list is the class of its items. *)
KindItems(t) ==
    \A l \in DOMAIN t.lists :
       /\ t.lists[l].kind = "volumes" => t.lists[l].items \in Seq(VolumeItemSet)
       /\ t.lists[l].kind = "dir" => t.lists[l].items \in Seq(DirItemSet)

Increasing(s) == \A j, k \in DOMAIN s : j < k => s[j] < s[k]

(* Each device is listed once, and its volumes by number. *)
Listed(t) ==
    /\ \A i, j \in DOMAIN DeviceItems(t) : DeviceItems(t)[i].dev = DeviceItems(t)[j].dev => i = j
    /\ \A i \in DOMAIN DeviceItems(t) : Increasing(DeviceItems(t)[i].vols)

(* A volume list that has been entered shows the volumes of its device. *)
VolumesListed(t) ==
    \A i \in DOMAIN DeviceItems(t) :
       LET item == DeviceItems(t)[i]
       IN item.child # NoId =>
             \A n \in DOMAIN t.lists[item.child].items :
                /\ t.lists[item.child].items[n].dev = item.dev
                /\ t.lists[item.child].items[n].vol = item.vols[n]

Shaped(t, pl) == Placed(t, pl) /\ StraysEmpty(t) /\ KindItems(t)

Rich(t, pl) == Sound(t) /\ Matched(t) /\ Shaped(t, pl) /\ Listed(t) /\ VolumesListed(t)

-----------------------------------------------------------------------------
(* The way from a list up to the list of devices *)

(* A list that a client may know is linked from its parent. *)
LEMMA LinkUp ==
    ASSUME NEW t, NEW pl, Sound(t), Placed(t, pl), StraysEmpty(t), NEW l \in Reached(t), l # t.root
    PROVE  LET p == t.lists[l].parent
               i == ItemByChild(t, p, l)
           IN /\ ParentOf(t, l) = p /\ p # NoId
              /\ p \in Reached(t)
              /\ i \in DOMAIN t.lists[p].items
              /\ t.lists[p].items[i].child = l
              /\ pl[l] = Append(pl[p], ShowsAt(t, p, i))
<1>1. /\ l \in DOMAIN t.lists /\ IsLinked(t, l) /\ l # NoId
  BY DEF Reached, Sound, IdsInUse
<1>2. PICK k \in DOMAIN t.lists : \E i \in DOMAIN t.lists[k].items : t.lists[k].items[i].child = l
  BY <1>1 DEF IsLinked
<1>3. PICK i \in DOMAIN t.lists[k].items : t.lists[k].items[i].child = l
  BY <1>2
<1>4. t.lists[l].parent = k /\ ItemByChild(t, k, l) = i
  BY <1>1, <1>3, LinkFound DEF Items
<1>5. k \in Reached(t)
  BY <1>3 DEF StraysEmpty
<1>6. pl[l] = Append(pl[k], ShowsAt(t, k, i))
  BY <1>1, <1>3 DEF Placed
<1>7. k # NoId
  BY DEF Sound, IdsInUse
<1> QED
  BY <1>1, <1>3, <1>4, <1>5, <1>6, <1>7 DEF ParentOf, Cached

(* Clients may know the list of devices. *)
LEMMA RootReached == ASSUME NEW t, TreeType(t) PROVE t.root \in Reached(t)
  BY DEF Reached, TreeType, RootList

(* A place is a sequence of names. *)
LEMMA PlaceLength ==
    ASSUME NEW t, NEW pl, Placed(t, pl), NEW l \in DOMAIN t.lists
    PROVE  pl[l] \in Seq(PlaceNames) /\ Len(pl[l]) \in Nat /\ DOMAIN pl[l] = 1..Len(pl[l])
  BY DEF Placed

(* Only the list of devices has the empty place. *)
LEMMA PlaceUp ==
    ASSUME NEW t, NEW pl, Sound(t), Placed(t, pl), StraysEmpty(t), NEW l \in Reached(t), l # t.root
    PROVE  LET p == t.lists[l].parent
               n == Len(pl[p])
           IN /\ Len(pl[l]) = n + 1
              /\ n \in Nat
              /\ \A j \in 1..n : pl[l][j] = pl[p][j]
              /\ pl[l][n + 1] = ShowsAt(t, p, ItemByChild(t, p, l))
<1> DEFINE p == t.lists[l].parent
           x == ShowsAt(t, p, ItemByChild(t, p, l))
<1>1. p \in DOMAIN t.lists /\ l \in DOMAIN t.lists /\ pl[l] = Append(pl[p], x)
  BY LinkUp DEF Reached
<1>2. pl[p] \in Seq(PlaceNames) /\ pl[l] \in Seq(PlaceNames)
  BY <1>1, PlaceLength
<1> HIDE DEF p, x
<1>3. pl[p] \in Seq(PlaceNames \cup {x}) /\ x \in PlaceNames \cup {x}
  BY <1>2
<1>4. /\ Len(pl[l]) = Len(pl[p]) + 1 /\ Len(pl[p]) \in Nat
      /\ \A j \in 1..Len(pl[p]) : pl[l][j] = pl[p][j]
      /\ pl[l][Len(pl[p]) + 1] = x
  BY <1>1, <1>2, <1>3, AppendTo
<1> QED
  BY <1>4 DEF p, x

(* Two sequences with the same elements are the same. *)
LEMMA SameSeq ==
    ASSUME NEW S, NEW a \in Seq(S), NEW b \in Seq(S), Len(a) = Len(b),
           \A n \in 1..Len(a) : a[n] = b[n]
    PROVE  a = b
<1>1. a = [n \in 1..Len(a) |-> a[n]] /\ b = [n \in 1..Len(b) |-> b[n]]
  OBVIOUS
<1> QED
  BY <1>1

(* Ancestors() takes one step after the other. *)
UpOf(t, below) ==
    LET p == ParentOf(t, Last(below)) IN IF p = NoId THEN below ELSE Append(below, p)

(* The way up has been climbed when there cannot be more lists on it. *)
LEMMA AncestorsUp ==
    ASSUME NEW t, TreeType(t), NEW l
    PROVE  LET size == Cardinality(DOMAIN t.lists)
           IN /\ IsFiniteSet(DOMAIN t.lists) /\ size \in Nat
              /\ \E up : /\ Ancestors(t, l) = up[size]
                         /\ up[0] = <<l>>
                         /\ \A n \in 1..size : up[n] = UpOf(t, up[n - 1])
<1> DEFINE size == Cardinality(DOMAIN t.lists)
           up[n \in 0..size] == IF n = 0 THEN <<l>> ELSE UpOf(t, up[n - 1])
           IsUp(f, m) == f = [n \in 0..m |-> IF n = 0 THEN <<l>> ELSE UpOf(t, f[n - 1])]
           M == {m \in Nat : \E f : IsUp(f, m)}
<1>1. Ancestors(t, l) = up[size]
  BY DEF Ancestors, UpOf
<1>2. IsFiniteSet(DOMAIN t.lists) /\ size \in Nat
  <2>1. IsFiniteSet(0..MaxId)
    <3>1. 0 \in Int /\ MaxId \in Int
      BY MaxIdIsNat
    <3> QED
      BY <3>1, FS_Interval
  <2>2. IsFiniteSet(DOMAIN t.lists)
    BY <2>1, FS_Subset DEF TreeType, IdsAndNone
  <2> QED
    BY <2>2, FS_CardinalityType
<1>3. size \in M
  <2>1. 0 \in M
    <3>1. IsUp([n \in 0..0 |-> <<l>>], 0)
      OBVIOUS
    <3> QED
      BY <3>1
  <2>2. ASSUME NEW m \in Nat, m \in M PROVE m + 1 \in M
    <3>1. PICK f : IsUp(f, m)
      BY <2>2
    <3> DEFINE g == [n \in 0..m + 1 |-> IF n <= m THEN f[n] ELSE UpOf(t, f[m])]
    <3>2. \A n \in 0..m : f[n] = IF n = 0 THEN <<l>> ELSE UpOf(t, f[n - 1])
      BY <3>1
    <3>3. ASSUME NEW n \in 0..m + 1 PROVE g[n] = IF n = 0 THEN <<l>> ELSE UpOf(t, g[n - 1])
      <4>1. CASE n = 0
        BY <3>2, <4>1
      <4>2. CASE n \in 1..m
        <5>1. n \in 0..m /\ n - 1 \in 0..m /\ n # 0
          BY <4>2
        <5> QED
          BY <3>2, <5>1
      <4>3. CASE n = m + 1
        BY <4>3
      <4> QED
        BY <4>1, <4>2, <4>3
    <3>4. IsUp(g, m + 1)
      BY <3>3
    <3> HIDE DEF g, IsUp
    <3> QED
      BY <3>4
  <2> HIDE DEF M
  <2>3. Nat \subseteq M
    BY <2>1, <2>2, UpFromZero
  <2> QED
    BY <1>2, <2>3
<1>4. up = [n \in 0..size |-> IF n = 0 THEN <<l>> ELSE UpOf(t, up[n - 1])]
  BY <1>3
<1> HIDE DEF up
<1>5. \A n \in 0..size : up[n] = IF n = 0 THEN <<l>> ELSE UpOf(t, up[n - 1])
  BY <1>4
<1> HIDE DEF size
<1>6. /\ up[0] = <<l>>
      /\ \A n \in 1..size : up[n] = UpOf(t, up[n - 1])
  BY <1>2, <1>5
<1> QED
  BY <1>1, <1>2, <1>6 DEF size

(* How far down a list is *)
Rank(pl, l) == Len(pl[l])

(* The lists in D have a way up to the list of devices, which shortens their *)
(* places by one name each.                                                  *)
Rises(t, D, pl) ==
    /\ D \subseteq DOMAIN t.lists
    /\ \A k \in D : pl[k] \in Seq(PlaceNames)
    /\ t.root \in D /\ pl[t.root] = <<>> /\ ParentOf(t, t.root) = NoId
    /\ \A k \in D \ {t.root} :
          /\ ParentOf(t, k) # NoId
          /\ ParentOf(t, k) \in D
          /\ \E x \in PlaceNames : pl[k] = Append(pl[ParentOf(t, k)], x)

(* The way s from list l, after h steps *)
Climbed(t, D, pl, l, s, h) ==
    /\ s \in Seq(D) /\ Len(s) = h + 1 /\ s[1] = l
    /\ \A k \in 1..h + 1 : /\ Rank(pl, s[k]) = Rank(pl, l) + 1 - k
                           /\ \A j \in 1..Rank(pl, l) + 1 - k : pl[s[k]][j] = pl[l][j]
    /\ \A k \in 1..h : s[k] # t.root /\ ParentOf(t, s[k]) = s[k + 1]

(* One step up *)
LEMMA RiseOne ==
    ASSUME NEW t, NEW D, NEW pl, Rises(t, D, pl), NEW k \in D, k # t.root
    PROVE  LET p == ParentOf(t, k)
           IN /\ p # NoId /\ p \in D
              /\ Rank(pl, p) \in Nat
              /\ Rank(pl, k) = Rank(pl, p) + 1
              /\ \A j \in 1..Rank(pl, p) : pl[k][j] = pl[p][j]
<1> DEFINE p == ParentOf(t, k)
<1>1. p # NoId /\ p \in D /\ pl[p] \in Seq(PlaceNames)
  BY DEF Rises
<1>2. PICK x \in PlaceNames : pl[k] = Append(pl[p], x)
  BY DEF Rises
<1> HIDE DEF p
<1>3. /\ Rank(pl, k) = Rank(pl, p) + 1
      /\ \A j \in 1..Rank(pl, p) : pl[k][j] = pl[p][j]
      /\ Rank(pl, p) \in Nat
  BY <1>1, <1>2, AppendTo DEF Rank
<1> QED
  BY <1>1, <1>3 DEF p

(* One more step of the way *)
LEMMA ClimbOne ==
    ASSUME NEW t, NEW D, NEW pl, Rises(t, D, pl), NEW l \in D, NEW h \in Nat, h < Rank(pl, l),
           NEW s, Climbed(t, D, pl, l, s, h)
    PROVE  Climbed(t, D, pl, l, UpOf(t, s), h + 1)
<1> DEFINE e == s[h + 1]
           p == ParentOf(t, e)
           r == Append(s, p)
<1>1. /\ s \in Seq(D) /\ Len(s) = h + 1 /\ s[1] = l
      /\ Rank(pl, l) \in Nat
      /\ e \in D
      /\ Rank(pl, e) = Rank(pl, l) - h
      /\ \A j \in 1..Rank(pl, l) - h : pl[e][j] = pl[l][j]
  <2>1. /\ s \in Seq(D) /\ Len(s) = h + 1 /\ s[1] = l
        /\ \A k \in 1..h + 1 : /\ Rank(pl, s[k]) = Rank(pl, l) + 1 - k
                               /\ \A j \in 1..Rank(pl, l) + 1 - k : pl[s[k]][j] = pl[l][j]
    BY DEF Climbed
  <2>2. Rank(pl, l) \in Nat
    BY DEF Rises, Rank
  <2>3. h + 1 \in 1..h + 1 /\ Rank(pl, l) + 1 - (h + 1) = Rank(pl, l) - h
    BY <2>2
  <2>4. s[h + 1] \in D
    BY <2>1, <2>3
  <2> QED
    BY <2>1, <2>2, <2>3, <2>4
<1> HIDE DEF e
<1>2. e # t.root
  <2>1. Len(<<>>) = 0
    OBVIOUS
  <2> QED
    BY <1>1, <2>1 DEF Rises, Rank
<1>3. /\ p # NoId /\ p \in D
      /\ Rank(pl, p) = Rank(pl, l) - h - 1
      /\ \A j \in 1..Rank(pl, l) - h - 1 : pl[p][j] = pl[e][j]
  <2>1. /\ p # NoId /\ p \in D
        /\ Rank(pl, p) \in Nat
        /\ Rank(pl, e) = Rank(pl, p) + 1
        /\ \A j \in 1..Rank(pl, p) : pl[e][j] = pl[p][j]
    BY <1>1, <1>2, RiseOne
  <2> HIDE DEF p
  <2>2. Rank(pl, p) = Rank(pl, l) - h - 1
    BY <1>1, <2>1
  <2> QED
    BY <2>1, <2>2
<1>4. UpOf(t, s) = r
  BY <1>1, <1>3 DEF UpOf, Last, e
<1>5. /\ \A k \in 1..h + 1 : /\ Rank(pl, s[k]) = Rank(pl, l) + 1 - k
                             /\ \A j \in 1..Rank(pl, l) + 1 - k : pl[s[k]][j] = pl[l][j]
      /\ \A k \in 1..h : s[k] # t.root /\ ParentOf(t, s[k]) = s[k + 1]
  BY DEF Climbed
<1> HIDE DEF p
<1>6. r \in Seq(D) /\ Len(r) = h + 2 /\ (\A k \in 1..h + 1 : r[k] = s[k]) /\ r[h + 2] = p
  BY <1>1, <1>3, AppendTo
<1> HIDE DEF r
<1>7. ASSUME NEW k \in 1..h + 2
      PROVE  /\ Rank(pl, r[k]) = Rank(pl, l) + 1 - k
             /\ \A j \in 1..Rank(pl, l) + 1 - k : pl[r[k]][j] = pl[l][j]
  <2>1. CASE k \in 1..h + 1
    <3>1. r[k] = s[k]
      BY <1>6, <2>1
    <3> QED
      BY <1>5, <2>1, <3>1
  <2>2. CASE k = h + 2
    <3>1. Rank(pl, l) + 1 - k = Rank(pl, l) - h - 1
      BY <1>1, <2>2
    <3>2. \A j \in 1..Rank(pl, l) - h - 1 : j \in 1..Rank(pl, l) - h
      BY <1>1
    <3> QED
      BY <1>1, <1>3, <1>6, <2>2, <3>1, <3>2
  <2> QED
    BY <2>1, <2>2
<1>8. ASSUME NEW k \in 1..h + 1 PROVE r[k] # t.root /\ ParentOf(t, r[k]) = r[k + 1]
  <2>1. CASE k \in 1..h
    BY <1>5, <1>6, <2>1
  <2>2. CASE k = h + 1
    BY <1>2, <1>6, <2>2 DEF p, e
  <2> QED
    BY <2>1, <2>2
<1>9. r[1] = l /\ (h + 1) + 1 = h + 2
  BY <1>1, <1>6
<1> QED
  BY <1>4, <1>6, <1>7, <1>8, <1>9 DEF Climbed

(* The whole way *)
LEMMA AncestorsRise ==
    ASSUME NEW t, TreeType(t), NEW D, NEW pl, Rises(t, D, pl), NEW l \in D
    PROVE  /\ Climbed(t, D, pl, l, Ancestors(t, l), Rank(pl, l))
           /\ Rank(pl, l) \in Nat
           /\ Ancestors(t, l)[Rank(pl, l) + 1] = t.root
<1> DEFINE size == Cardinality(DOMAIN t.lists)
           m    == Rank(pl, l)
<1>1. IsFiniteSet(DOMAIN t.lists) /\ size \in Nat
  BY AncestorsUp
<1>2. PICK up : /\ Ancestors(t, l) = up[size]
                /\ up[0] = <<l>>
                /\ \A n \in 1..size : up[n] = UpOf(t, up[n - 1])
  <2>1. \E up : /\ Ancestors(t, l) = up[size]
                /\ up[0] = <<l>>
                /\ \A n \in 1..size : up[n] = UpOf(t, up[n - 1])
    BY AncestorsUp, Zenon
  <2> QED
    BY <2>1, Zenon
<1>3. m \in Nat
  BY DEF Rises, Rank
<1> HIDE DEF size, m
<1> DEFINE S == {n \in Nat : n <= size /\ n <= m => Climbed(t, D, pl, l, up[n], n)}
<1>4. 0 \in S
  <2>1. up[0] \in Seq(D) /\ Len(up[0]) = 1 /\ up[0][1] = l
    BY <1>2
  <2>2. Rank(pl, l) \in Nat
    BY <1>3 DEF m
  <2>3. Climbed(t, D, pl, l, up[0], 0)
    BY <2>1, <2>2 DEF Climbed
  <2> QED
    BY <2>3
<1>5. ASSUME NEW n \in Nat, n \in S PROVE n + 1 \in S
  <2> SUFFICES ASSUME n + 1 <= size, n + 1 <= m PROVE Climbed(t, D, pl, l, up[n + 1], n + 1)
    OBVIOUS
  <2>1. Climbed(t, D, pl, l, up[n], n) /\ n < m
    BY <1>1, <1>3, <1>5
  <2>2. up[n + 1] = UpOf(t, up[n])
    <3>1. n + 1 \in 1..size /\ (n + 1) - 1 = n
      BY <1>1
    <3> QED
      BY <1>2, <3>1
  <2> QED
    BY <2>1, <2>2, ClimbOne DEF m
<1> HIDE DEF S
<1>6. Nat \subseteq S
  BY <1>4, <1>5, UpFromZero
<1>7. m <= size
  <2> SUFFICES ASSUME size < m PROVE FALSE
    BY <1>1, <1>3
  <2> DEFINE s == up[size]
  <2>1. Climbed(t, D, pl, l, s, size)
    BY <1>1, <1>3, <1>6 DEF S
  <2> HIDE DEF s
  <2>2. /\ s \in Seq(D) /\ Len(s) = size + 1
        /\ \A k \in 1..size + 1 : Rank(pl, s[k]) = m + 1 - k
    BY <2>1 DEF Climbed, m
  <2>3. s \in [1..size + 1 -> DOMAIN t.lists]
    BY <1>1, <2>2 DEF Rises
  <2>4. IsFiniteSet(1..size + 1) /\ Cardinality(1..size + 1) = size + 1
    BY <1>1, FS_Interval
  <2>5. \E x, y \in 1..size + 1 : x # y /\ s[x] = s[y]
    <3>1. Cardinality(DOMAIN t.lists) < Cardinality(1..size + 1)
      BY <1>1, <2>4 DEF size
    <3> QED
      BY <1>1, <2>3, <2>4, <3>1, FS_PigeonHole
  <2> QED
    BY <1>1, <1>3, <2>2, <2>5
<1> DEFINE T == {n \in Nat : m + n <= size => Climbed(t, D, pl, l, up[m + n], m)}
<1>8. 0 \in T
  BY <1>1, <1>3, <1>6, <1>7 DEF S
<1>9. ASSUME NEW s, Climbed(t, D, pl, l, s, m) PROVE s[m + 1] = t.root /\ UpOf(t, s) = s
  <2>1. s \in Seq(D) /\ Len(s) = m + 1 /\ s[m + 1] \in D /\ Rank(pl, s[m + 1]) = 0
    BY <1>3, <1>9 DEF Climbed, m
  <2>2. s[m + 1] = t.root
    <3>1. ASSUME s[m + 1] # t.root PROVE Rank(pl, s[m + 1]) # 0
      <4> DEFINE e == s[m + 1]
      <4>1. e \in D /\ e # t.root
        BY <2>1, <3>1
      <4> HIDE DEF e
      <4>2. Rank(pl, ParentOf(t, e)) \in Nat /\ Rank(pl, e) = Rank(pl, ParentOf(t, e)) + 1
        BY <4>1, RiseOne
      <4> QED
        BY <4>2 DEF e
    <3> QED
      BY <2>1, <3>1
  <2>3. ParentOf(t, Last(s)) = NoId
    BY <2>1, <2>2 DEF Last, Rises
  <2> QED
    BY <2>2, <2>3 DEF UpOf
<1>10. ASSUME NEW n \in Nat, n \in T PROVE n + 1 \in T
  <2> SUFFICES ASSUME m + (n + 1) <= size PROVE Climbed(t, D, pl, l, up[m + (n + 1)], m)
    OBVIOUS
  <2>1. Climbed(t, D, pl, l, up[m + n], m)
    BY <1>1, <1>3, <1>10
  <2>2. up[m + (n + 1)] = UpOf(t, up[m + n])
    <3>1. m + (n + 1) \in 1..size /\ (m + (n + 1)) - 1 = m + n
      BY <1>1, <1>3
    <3> QED
      BY <1>2, <3>1
  <2> QED
    BY <1>9, <2>1, <2>2
<1> HIDE DEF T
<1>11. Nat \subseteq T
  BY <1>8, <1>10, UpFromZero
<1>12. Climbed(t, D, pl, l, up[size], m)
  <2>1. size - m \in Nat /\ m + (size - m) = size
    BY <1>1, <1>3, <1>7
  <2>2. m + (size - m) <= size => Climbed(t, D, pl, l, up[m + (size - m)], m)
    BY <1>11, <2>1 DEF T
  <2> QED
    BY <1>1, <2>1, <2>2
<1> QED
  BY <1>2, <1>3, <1>9, <1>12 DEF m

(* The lists that a client may know rise to the list of devices. *)
LEMMA ReachedRises ==
    ASSUME NEW t, NEW pl, Sound(t), Placed(t, pl), StraysEmpty(t)
    PROVE  Rises(t, Reached(t), pl)
<1>1. /\ t.root \in Reached(t) /\ pl[t.root] = <<>> /\ ParentOf(t, t.root) = NoId
      /\ Reached(t) \subseteq DOMAIN t.lists
  BY RootReached DEF Sound, Placed, ParentsRight, ParentOf, Reached
<1>2. \A k \in Reached(t) : pl[k] \in Seq(PlaceNames)
  BY <1>1 DEF Placed
<1>3. ASSUME NEW k \in Reached(t) \ {t.root}
      PROVE  /\ ParentOf(t, k) # NoId
             /\ ParentOf(t, k) \in Reached(t)
             /\ \E x \in PlaceNames : pl[k] = Append(pl[ParentOf(t, k)], x)
  <2> DEFINE p == ParentOf(t, k)
             x == ShowsAt(t, t.lists[k].parent, ItemByChild(t, t.lists[k].parent, k))
  <2>1. p # NoId /\ p \in Reached(t) /\ pl[k] = Append(pl[p], x)
    BY LinkUp
  <2> HIDE DEF p, x
  <2>2. pl[k] \in Seq(PlaceNames) /\ pl[p] \in Seq(PlaceNames)
    BY <1>2, <2>1
  <2>3. pl[p] \in Seq(PlaceNames \cup {x}) /\ x \in PlaceNames \cup {x}
    BY <2>2
  <2>4. Len(pl[k]) = Len(pl[p]) + 1 /\ pl[k][Len(pl[p]) + 1] = x /\ Len(pl[p]) \in Nat
    BY <2>1, <2>3, AppendTo
  <2>5. x \in PlaceNames
    BY <2>2, <2>4
  <2> QED
    BY <2>1, <2>5 DEF p
<1> QED
  BY <1>1, <1>2, <1>3 DEF Rises

(* The class of a list tells how far down it is. *)
LEMMA KindByRank ==
    ASSUME NEW t, NEW pl, Sound(t), Placed(t, pl), StraysEmpty(t), NEW l \in Reached(t)
    PROVE  /\ Rank(pl, l) \in Nat
           /\ l = t.root <=> Rank(pl, l) = 0
           /\ t.lists[l].kind = CASE Rank(pl, l) = 0 -> "devices"
                                  [] Rank(pl, l) = 1 -> "volumes"
                                  [] Rank(pl, l) > 1 -> "dir"
<1>1. Rises(t, Reached(t), pl)
  BY ReachedRises
<1>2. Rank(pl, t.root) = 0 /\ t.lists[t.root].kind = "devices"
  <2>1. pl[t.root] = <<>>
    BY DEF Placed
  <2> QED
    BY <2>1 DEF Rank, Sound, TreeType, RootList
<1>3. CASE l = t.root
  BY <1>2, <1>3
<1>4. CASE l # t.root
  <2> DEFINE p == t.lists[l].parent
  <2>1. p # NoId /\ p \in Reached(t) /\ ParentOf(t, l) = p /\ l \in DOMAIN t.lists
    BY <1>4, LinkUp DEF Reached
  <2>2. t.lists[l].kind = IF p = t.root THEN "volumes" ELSE "dir"
    BY <2>1 DEF Sound, ParentsRight
  <2>3. Rank(pl, p) \in Nat /\ Rank(pl, l) = Rank(pl, p) + 1
    BY <1>1, <1>4, <2>1, RiseOne
  <2>4. p # t.root => Rank(pl, p) # 0
    <3>1. p # t.root => Rank(pl, ParentOf(t, p)) \in Nat /\ Rank(pl, p) = Rank(pl, ParentOf(t, p)) + 1
      BY <1>1, <2>1, RiseOne
    <3> QED
      BY <2>3, <3>1
  <2> HIDE DEF p
  <2>5. CASE p = t.root
    BY <1>2, <1>4, <2>2, <2>3, <2>5
  <2>6. CASE p # t.root
    <3>1. Rank(pl, l) > 1
      BY <2>3, <2>4, <2>6
    <3> QED
      BY <1>4, <2>2, <2>3, <2>6, <3>1
  <2> QED
    BY <2>5, <2>6
<1> QED
  BY <1>3, <1>4

(* What item n on a way says of the place *)
StepOf(n, item) == CASE n = 1 -> item.dev [] n = 2 -> item.vol [] n > 2 -> item.name

(* The items on the way down to a list make up its place. *)
LEMMA WayShows ==
    ASSUME NEW t, NEW pl, Sound(t), Placed(t, pl), StraysEmpty(t), NEW l \in Reached(t), NEW i
    PROVE  LET way == OnWay(t, l, i)
               m   == Rank(pl, l)
           IN /\ Len(way) = m + 1 /\ m \in Nat
              /\ way[m + 1] = [list |-> l, item |-> i]
              /\ \A k \in 1..m : /\ way[k].list \in Reached(t)
                                 /\ way[k].item \in DOMAIN Items(t, way[k].list)
                                 /\ way[k].list = t.root <=> k = 1
                                 /\ StepOf(k, ItemAt(t, way[k])) = pl[l][k]
<1> DEFINE up  == Ancestors(t, l)
           way == OnWay(t, l, i)
           m   == Rank(pl, l)
<1>1. Rises(t, Reached(t), pl) /\ TreeType(t)
  BY ReachedRises DEF Sound
<1>2. Climbed(t, Reached(t), pl, l, up, m) /\ m \in Nat /\ up[m + 1] = t.root
  BY <1>1, AncestorsRise DEF Rank
<1> HIDE DEF up
<1>3. /\ up \in Seq(Reached(t)) /\ Len(up) = m + 1 /\ up[1] = l
      /\ \A k \in 1..m + 1 : /\ Rank(pl, up[k]) = m + 1 - k
                             /\ \A j \in 1..m + 1 - k : pl[up[k]][j] = pl[l][j]
      /\ \A k \in 1..m : up[k] # t.root /\ ParentOf(t, up[k]) = up[k + 1]
  BY <1>2 DEF Climbed
<1> DEFINE trail == Linked(t, up, i)
<1> HIDE DEF m
<1>4. /\ Len(trail) = m + 1
      /\ \A n \in 1..m + 1 :
            trail[n] = [list |-> up[n], item |-> IF n = 1 THEN i ELSE ItemByChild(t, up[n], up[n - 1])]
  <2>1. trail = [n \in 1..m + 1 |->
            [list |-> up[n], item |-> IF n = 1 THEN i ELSE ItemByChild(t, up[n], up[n - 1])]]
    BY <1>3 DEF Linked
  <2> HIDE DEF trail
  <2> QED
    BY <1>2, <2>1
<1>5. way = Reverse(trail)
  BY DEF OnWay, Trail, up
<1> HIDE DEF trail, way
<1>6. Len(way) = m + 1 /\ \A k \in 1..m + 1 : way[k] = trail[m + 1 - k + 1]
  <2> DEFINE N == Len(trail)
  <2>1. way = [k \in 1..N |-> trail[N - k + 1]]
    BY <1>5 DEF Reverse
  <2>2. N = m + 1
    BY <1>4
  <2> HIDE DEF N
  <2>3. Len(way) = m + 1 /\ \A k \in 1..m + 1 : way[k] = trail[N - k + 1]
    BY <1>2, <2>1, <2>2
  <2>4. ASSUME NEW k \in 1..m + 1 PROVE N - k + 1 = m + 1 - k + 1
    BY <1>2, <2>2
  <2> QED
    BY <2>3, <2>4
<1>7. way[m + 1] = [list |-> l, item |-> i]
  <2>1. m + 1 \in 1..m + 1 /\ m + 1 - (m + 1) + 1 = 1 /\ 1 \in 1..m + 1
    BY <1>2
  <2> QED
    BY <1>3, <1>4, <1>6, <2>1
<1>8. ASSUME NEW k \in 1..m
      PROVE  /\ way[k].list \in Reached(t)
             /\ way[k].item \in DOMAIN Items(t, way[k].list)
             /\ way[k].list = t.root <=> k = 1
             /\ StepOf(k, ItemAt(t, way[k])) = pl[l][k]
  <2> DEFINE n == m + 1 - k + 1
             a == up[n]
             b == up[n - 1]
             j == ItemByChild(t, a, b)
  <2>1. n \in 1..m + 1 /\ n # 1 /\ n - 1 \in 1..m /\ n - 1 \in 1..m + 1 /\ m + 1 - n = k - 1
        /\ m + 1 - (n - 1) = k
    BY <1>2
  <2>2. way[k] = [list |-> a, item |-> j]
    <3>1. k \in 1..m + 1
      BY <1>2
    <3>2. way[k] = trail[n]
      BY <1>6, <3>1
    <3> HIDE DEF n
    <3>3. trail[n] = [list |-> up[n], item |-> ItemByChild(t, up[n], up[n - 1])]
      BY <1>4, <2>1
    <3> QED
      BY <3>2, <3>3
  <2>3. a \in Reached(t) /\ b \in Reached(t) /\ b # t.root /\ ParentOf(t, b) = a
    BY <1>3, <2>1
  <2>4. /\ Rank(pl, a) = k - 1 /\ Rank(pl, b) = k
        /\ pl[b][k] = pl[l][k]
    BY <1>3, <2>1
  <2> HIDE DEF n, a, b
  <2>5. /\ j \in DOMAIN t.lists[a].items
        /\ pl[b] = Append(pl[a], ShowsAt(t, a, j))
    <3>1. t.lists[b].parent = a
      BY <2>3, LinkUp
    <3> QED
      BY <2>3, <3>1, LinkUp
  <2> HIDE DEF j
  <2>6. pl[b][k] = ShowsAt(t, a, j)
    <3>1. pl[b][Len(pl[a]) + 1] = ShowsAt(t, a, j)
      <4>1. t.lists[b].parent = a /\ ItemByChild(t, a, b) = j
        BY <2>3, LinkUp DEF j
      <4> QED
        BY <2>3, <4>1, PlaceUp
    <3> QED
      BY <1>2, <2>4, <3>1 DEF Rank
  <2>7. StepOf(k, ItemAt(t, way[k])) = ShowsAt(t, a, j)
    <3>1. ItemAt(t, way[k]) = t.lists[a].items[j]
      BY <2>2 DEF ItemAt, Items
    <3>2. t.lists[a].kind = CASE k - 1 = 0 -> "devices"
                              [] k - 1 = 1 -> "volumes"
                              [] k - 1 > 1 -> "dir"
      BY <2>3, <2>4, KindByRank
    <3>3. CASE k = 1
      BY <3>1, <3>2, <3>3 DEF StepOf, ShowsAt, Shows
    <3>4. CASE k = 2
      BY <3>1, <3>2, <3>4 DEF StepOf, ShowsAt, Shows
    <3>5. CASE k > 2
      <4>1. t.lists[a].kind = "dir" /\ k # 1 /\ k # 2
        BY <3>2, <3>5
      <4> QED
        BY <3>1, <3>5, <4>1 DEF StepOf, ShowsAt, Shows
    <3> QED
      BY <1>2, <3>3, <3>4, <3>5
  <2>8. a = t.root <=> k = 1
    <3>1. a = t.root <=> Rank(pl, a) = 0
      BY <2>3, KindByRank
    <3> QED
      BY <1>2, <2>4, <3>1
  <2>9. way[k].list = a /\ way[k].item = j
    BY <2>2 DEF j
  <2>10. Items(t, way[k].list) = t.lists[a].items
    BY <2>9 DEF Items
  <2> QED
    BY <2>3, <2>4, <2>5, <2>6, <2>7, <2>8, <2>9, <2>10
<1> QED
  BY <1>2, <1>6, <1>7, <1>8 DEF way, m

(* The place that is read off the tree is the right one. *)
LEMMA PlaceRight ==
    ASSUME NEW t, NEW pl, Sound(t), Placed(t, pl), StraysEmpty(t), NEW l \in Reached(t)
    PROVE  Place(t, l) = pl[l]
<1> DEFINE way == OnWay(t, l, 0)
           m   == Rank(pl, l)
<1>1. /\ Len(way) = m + 1 /\ m \in Nat
      /\ \A k \in 1..m : StepOf(k, ItemAt(t, way[k])) = pl[l][k]
  <2> DEFINE i == 0
             w == OnWay(t, l, i)
  <2> HIDE DEF i
  <2>1. /\ Len(w) = m + 1 /\ m \in Nat /\ w[m + 1] = [list |-> l, item |-> i]
        /\ \A k \in 1..m : StepOf(k, ItemAt(t, w[k])) = pl[l][k]
    BY WayShows
  <2> QED
    BY <2>1 DEF i
<1>2. pl[l] \in Seq(PlaceNames) /\ Len(pl[l]) = m
  BY DEF Placed, Reached, Rank
<1>3. Place(t, l) = [n \in 1..(Len(way) - 1) |-> StepOf(n, ItemAt(t, way[n]))]
  BY DEF Place, StepOf, ItemAt
<1> HIDE DEF way, m
<1>4. Place(t, l) = [n \in 1..m |-> pl[l][n]]
  BY <1>1, <1>3
<1>5. pl[l] = [n \in 1..m |-> pl[l][n]]
  BY <1>2
<1> QED
  BY <1>4, <1>5

(* The path to an item of a volume list or a directory *)
LEMMA PathRight ==
    ASSUME NEW t, NEW pl, Sound(t), Placed(t, pl), StraysEmpty(t), NEW l \in Reached(t),
           l # t.root, NEW i \in DOMAIN t.lists[l].items
    PROVE  /\ DeviceOf(t, OnWay(t, l, i)) = pl[l][1]
           /\ FsPath(t, OnWay(t, l, i)) = Tail(Append(pl[l], ShowsAt(t, l, i)))
<1> DEFINE way == OnWay(t, l, i)
           m   == Rank(pl, l)
           x   == ShowsAt(t, l, i)
           p   == Append(pl[l], x)
<1>1. /\ Len(way) = m + 1 /\ m \in Nat /\ way[m + 1] = [list |-> l, item |-> i]
      /\ \A k \in 1..m : StepOf(k, ItemAt(t, way[k])) = pl[l][k]
  BY WayShows
<1>2. pl[l] \in Seq(PlaceNames) /\ Len(pl[l]) = m
  BY DEF Placed, Reached, Rank
<1>3. m # 0 /\ t.lists[l].kind = CASE m = 0 -> "devices" [] m = 1 -> "volumes" [] m > 1 -> "dir"
  BY KindByRank
<1>4. ItemAt(t, way[m + 1]) = t.lists[l].items[i]
  BY <1>1 DEF ItemAt, Items
<1> HIDE DEF way, m
<1>5. StepOf(m + 1, ItemAt(t, way[m + 1])) = x
  <2>1. CASE m = 1
    BY <1>3, <1>4, <2>1 DEF StepOf, ShowsAt, Shows
  <2>2. CASE m > 1
    <3>1. t.lists[l].kind = "dir" /\ m + 1 > 2 /\ m + 1 # 1 /\ m + 1 # 2
      BY <1>1, <1>3, <2>2
    <3> QED
      BY <1>4, <3>1 DEF StepOf, ShowsAt, Shows
  <2> QED
    BY <1>1, <1>3, <2>1, <2>2
<1> HIDE DEF x
<1>6. /\ p \in Seq(PlaceNames \cup {x}) /\ Len(p) = m + 1
      /\ (\A k \in 1..m : p[k] = pl[l][k]) /\ p[m + 1] = x
  <2>1. pl[l] \in Seq(PlaceNames \cup {x}) /\ x \in PlaceNames \cup {x}
    BY <1>2
  <2> QED
    BY <1>2, <2>1, AppendTo
<1> HIDE DEF p
<1>7. \A k \in 1..m + 1 : StepOf(k, ItemAt(t, way[k])) = p[k]
  BY <1>1, <1>5, <1>6
<1>8. DeviceOf(t, way) = pl[l][1]
  <2>1. 1 \in 1..m /\ 1 \in 1..m + 1
    BY <1>1, <1>3
  <2> QED
    BY <1>6, <1>7, <2>1 DEF DeviceOf, StepOf
<1>9. FsPath(t, way) = Tail(p)
  <2> DEFINE r == [n \in 1..(Len(way) - 2) |-> ItemAt(t, way[n + 2]).name]
             f == <<ItemAt(t, way[2]).vol>>
             U == PlaceNames \cup {x}
  <2>1. ItemAt(t, way[2]).vol = p[2] /\ p[2] \in U
    <3>1. 2 \in 1..m + 1
      BY <1>1, <1>3
    <3> QED
      BY <1>6, <1>7, <3>1 DEF StepOf
  <2>2. \A n \in 1..m - 1 : ItemAt(t, way[n + 2]).name = p[n + 2] /\ p[n + 2] \in U
    <3> SUFFICES ASSUME NEW n \in 1..m - 1
                 PROVE  ItemAt(t, way[n + 2]).name = p[n + 2] /\ p[n + 2] \in U
      OBVIOUS
    <3>1. n + 2 \in 1..m + 1 /\ n + 2 > 2 /\ n + 2 # 1 /\ n + 2 # 2
      BY <1>1
    <3> QED
      BY <1>6, <1>7, <3>1 DEF StepOf
  <2> HIDE DEF U
  <2>3. Len(way) - 2 = m - 1 /\ m - 1 \in Nat
    BY <1>1, <1>3
  <2>4. r \in Seq(U) /\ Len(r) = m - 1 /\ \A n \in 1..m - 1 : r[n] = p[n + 2]
    <3>1. r = [n \in 1..m - 1 |-> p[n + 2]]
      BY <2>2, <2>3
    <3> HIDE DEF r
    <3> QED
      BY <2>2, <2>3, <3>1
  <2> HIDE DEF r
  <2>5. f \in Seq(U) /\ Len(f) = 1 /\ f[1] = p[2]
    BY <2>1
  <2> HIDE DEF f
  <2>6. /\ f \o r \in Seq(U) /\ Len(f \o r) = m
        /\ \A n \in 1..m : (f \o r)[n] = p[n + 1]
    <3>1. /\ f \o r \in Seq(U) /\ Len(f \o r) = 1 + (m - 1)
          /\ \A n \in 1..1 + (m - 1) : (f \o r)[n] = IF n <= 1 THEN f[n] ELSE r[n - 1]
      <4>1. /\ f \o r \in Seq(U) /\ Len(f \o r) = Len(f) + Len(r)
            /\ \A n \in 1..Len(f) + Len(r) : (f \o r)[n] = IF n <= Len(f) THEN f[n] ELSE r[n - Len(f)]
        BY <2>4, <2>5, Concatenate
      <4>2. Len(f) = 1 /\ Len(r) = m - 1
        BY <2>4, <2>5
      <4> QED
        BY <4>1, <4>2, Zenon
    <3>2. 1 + (m - 1) = m
      BY <1>1
    <3>3. ASSUME NEW n \in 1..m PROVE (f \o r)[n] = p[n + 1]
      <4>1. CASE n = 1
        BY <2>5, <3>1, <3>2, <4>1
      <4>2. CASE n # 1
        <5>1. n - 1 \in 1..m - 1 /\ (n - 1) + 2 = n + 1
          BY <1>1, <4>2
        <5> QED
          BY <2>4, <3>1, <3>2, <4>2, <5>1
      <4> QED
        BY <4>1, <4>2
    <3> QED
      BY <3>1, <3>2, <3>3
  <2>7. /\ Tail(p) \in Seq(U) /\ Len(Tail(p)) = m
        /\ \A n \in 1..m : Tail(p)[n] = p[n + 1]
    <3>1. p \in Seq(U) /\ p # <<>>
      BY <1>1, <1>6 DEF U
    <3>2. /\ Tail(p) \in Seq(U) /\ Len(Tail(p)) = Len(p) - 1
          /\ \A n \in 1..Len(Tail(p)) : Tail(p)[n] = p[n + 1]
      BY <3>1, TakeFrom
    <3>3. (m + 1) - 1 = m
      BY <1>1
    <3> QED
      BY <1>6, <3>2, <3>3
  <2>8. f \o r = Tail(p)
    BY <2>6, <2>7, SameSeq
  <2> QED
    BY <2>8 DEF FsPath, f, r
<1> QED
  BY <1>8, <1>9 DEF way, p, x

(* All items on the trail of a list that a client may know link to the list *)
(* below.                                                                   *)
LEMMA TrailLinks ==
    ASSUME NEW t, NEW pl, Sound(t), Placed(t, pl), StraysEmpty(t), NEW l \in Reached(t), NEW i
    PROVE  LET up == Ancestors(t, l)
           IN /\ Len(up) = Rank(pl, l) + 1
              /\ \A n \in 2..Rank(pl, l) + 1 :
                    /\ up[n] \in Reached(t) /\ up[n - 1] \in Reached(t) \ {t.root}
                    /\ t.lists[up[n - 1]].parent = up[n]
                    /\ Trail(t, l, i)[n].item = ItemByChild(t, up[n], up[n - 1])
                    /\ Trail(t, l, i)[n].item # 0
<1> DEFINE up == Ancestors(t, l)
           m  == Rank(pl, l)
<1>1. Rises(t, Reached(t), pl) /\ TreeType(t)
  BY ReachedRises DEF Sound
<1>2. Climbed(t, Reached(t), pl, l, up, m) /\ m \in Nat
  BY <1>1, AncestorsRise DEF Rank
<1> HIDE DEF up, m
<1>3. /\ up \in Seq(Reached(t)) /\ Len(up) = m + 1
      /\ \A k \in 1..m : up[k] # t.root /\ ParentOf(t, up[k]) = up[k + 1]
  BY <1>2 DEF Climbed
<1>4. ASSUME NEW n \in 2..m + 1
      PROVE  /\ up[n] \in Reached(t) /\ up[n - 1] \in Reached(t) \ {t.root}
             /\ t.lists[up[n - 1]].parent = up[n]
             /\ Trail(t, l, i)[n].item = ItemByChild(t, up[n], up[n - 1])
             /\ Trail(t, l, i)[n].item # 0
  <2> DEFINE a == up[n]
             b == up[n - 1]
  <2>1. n \in 1..m + 1 /\ n - 1 \in 1..m /\ n - 1 \in 1..m + 1 /\ (n - 1) + 1 = n /\ n # 1
    BY <1>2
  <2>2. a \in Reached(t) /\ b \in Reached(t) /\ b # t.root /\ ParentOf(t, b) = a
    BY <1>3, <2>1
  <2>3. Trail(t, l, i)[n].item = ItemByChild(t, a, b)
    <3>1. Trail(t, l, i) = [k \in 1..m + 1 |->
              [list |-> up[k], item |-> IF k = 1 THEN i ELSE ItemByChild(t, up[k], up[k - 1])]]
      BY <1>3 DEF Trail, Linked, up
    <3>2. Trail(t, l, i)[n] = [list |-> a, item |-> ItemByChild(t, a, b)]
      BY <2>1, <3>1
    <3> QED
      BY <3>2
  <2> HIDE DEF a, b
  <2>4. t.lists[b].parent = a /\ ItemByChild(t, a, b) \in DOMAIN t.lists[a].items /\ a \in DOMAIN t.lists
    <3>1. ParentOf(t, b) = t.lists[b].parent
      BY <2>2, LinkUp
    <3> QED
      BY <2>2, <3>1, LinkUp DEF Reached
  <2>5. ItemByChild(t, a, b) # 0
    <3>1. t.lists[a].items \in Seq(ItemSet)
      BY <2>4 DEF Sound, TreeType, ListSet
    <3> QED
      BY <2>4, <3>1
  <2> QED
    BY <2>2, <2>3, <2>4, <2>5 DEF a, b
<1> QED
  BY <1>3, <1>4 DEF up, m

(* A list that has a parent is below it. *)
LEMMA AncestorsBegin ==
    ASSUME NEW t, Sound(t), NEW l \in DOMAIN t.lists, l # t.root, t.lists[l].parent # NoId
    PROVE  LET up == Ancestors(t, l)
           IN Len(up) \in Nat /\ Len(up) >= 2 /\ up[1] = l /\ up[2] = t.lists[l].parent
<1> DEFINE size == Cardinality(DOMAIN t.lists)
           p    == t.lists[l].parent
           U    == IdsAndNone \cup {l}
<1>1. TreeType(t) /\ t.root \in DOMAIN t.lists
  BY DEF Sound, TreeType, RootList
<1>2. IsFiniteSet(DOMAIN t.lists) /\ size \in Nat
  BY <1>1, AncestorsUp
<1>3. PICK up : /\ Ancestors(t, l) = up[size]
                /\ up[0] = <<l>>
                /\ \A n \in 1..size : up[n] = UpOf(t, up[n - 1])
  <2>1. \E up : /\ Ancestors(t, l) = up[size]
                /\ up[0] = <<l>>
                /\ \A n \in 1..size : up[n] = UpOf(t, up[n - 1])
    BY <1>1, AncestorsUp, Zenon
  <2> QED
    BY <2>1, Zenon
<1>4. size >= 1
  <2>1. size # 0
    BY <1>2, FS_EmptySet
  <2> QED
    BY <1>2, <2>1
<1>5. ParentOf(t, l) = p /\ p \in U /\ \A k : ParentOf(t, k) \in U
  <2>1. NoId \in IdsAndNone
    BY MaxIdIsNat DEF IdsAndNone
  <2>2. ASSUME NEW k PROVE ParentOf(t, k) \in IdsAndNone
    BY <1>1, <2>1 DEF ParentOf, Cached, TreeType, ListSet
  <2>3. ParentOf(t, l) = p
    BY DEF ParentOf, Cached
  <2> QED
    BY <2>2, <2>3
<1> HIDE DEF size, p, U
<1>6. <<l>> \in Seq(U) /\ l \in U
  BY DEF U
<1> DEFINE Good(s) == s \in Seq(U) /\ Len(s) >= 2 /\ s[1] = l /\ s[2] = p
           S == {n \in Nat : n + 1 <= size => Good(up[n + 1])}
<1>7. 0 \in S
  <2>1. UpOf(t, <<l>>) = Append(<<l>>, p)
    <3>1. Last(<<l>>) = l
      BY DEF Last
    <3>2. p # NoId
      BY DEF p
    <3> QED
      BY <1>5, <3>1, <3>2 DEF UpOf
  <2>2. up[1] = Append(<<l>>, p)
    <3>1. 1 \in 1..size /\ 1 - 1 = 0
      BY <1>2, <1>4
    <3> QED
      BY <1>3, <2>1, <3>1
  <2>3. Good(Append(<<l>>, p))
    BY <1>5, <1>6
  <2>4. 0 \in Nat /\ 0 + 1 = 1
    OBVIOUS
  <2> HIDE DEF Good
  <2> QED
    BY <2>2, <2>3, <2>4
<1>8. ASSUME NEW n \in Nat, n \in S PROVE n + 1 \in S
  <2> SUFFICES ASSUME (n + 1) + 1 <= size PROVE Good(up[(n + 1) + 1])
    OBVIOUS
  <2> DEFINE s == up[n + 1]
             q == ParentOf(t, Last(s))
  <2>1. Good(s)
    BY <1>2, <1>8
  <2>2. up[(n + 1) + 1] = UpOf(t, s)
    <3>1. (n + 1) + 1 \in 1..size /\ ((n + 1) + 1) - 1 = n + 1
      BY <1>2
    <3> QED
      BY <1>3, <3>1
  <2>3. UpOf(t, s) = IF q = NoId THEN s ELSE Append(s, q)
    BY DEF UpOf
  <2>4. q \in U
    BY <1>5
  <2> HIDE DEF s, q
  <2>5. Good(Append(s, q))
    <3>1. /\ Append(s, q) \in Seq(U) /\ Len(Append(s, q)) = Len(s) + 1 /\ Len(s) \in Nat
          /\ \A i \in 1..Len(s) : Append(s, q)[i] = s[i]
      BY <2>1, <2>4, AppendTo
    <3>2. 1 \in 1..Len(s) /\ 2 \in 1..Len(s)
      BY <2>1, <3>1
    <3> QED
      BY <2>1, <3>1, <3>2
  <2> QED
    BY <2>1, <2>2, <2>3, <2>5
<1> HIDE DEF S
<1>9. Nat \subseteq S
  BY <1>7, <1>8, UpFromZero
<1>10. Good(up[size])
  <2>1. size - 1 \in Nat /\ (size - 1) + 1 = size
    BY <1>2, <1>4
  <2>2. (size - 1) + 1 <= size => Good(up[(size - 1) + 1])
    BY <1>9, <2>1 DEF S
  <2> QED
    BY <1>2, <2>1, <2>2
<1> QED
  BY <1>3, <1>10 DEF p

(* A client may know the lists that can be browsed. *)
LEMMA BrowsableReached ==
    ASSUME NEW pl, Sound(tree), Placed(tree, pl), StraysEmpty(tree)
    PROVE  Browsable = Reached(tree)
<1>1. ASSUME NEW l \in Reached(tree) PROVE l \in Browsable
  <2> DEFINE up == Ancestors(tree, l)
  <2>1. l \in DOMAIN tree.lists
    BY DEF Reached
  <2>2. tree.root \in ToSet(up)
    <3>1. Rises(tree, Reached(tree), pl) /\ TreeType(tree)
      BY ReachedRises DEF Sound
    <3> DEFINE m == Rank(pl, l)
    <3>2. m \in Nat /\ up[m + 1] = tree.root /\ Climbed(tree, Reached(tree), pl, l, up, m)
      BY <3>1, AncestorsRise DEF Rank
    <3> HIDE DEF up, m
    <3>3. up \in Seq(Reached(tree)) /\ Len(up) = m + 1
      BY <3>2 DEF Climbed
    <3>4. m + 1 \in DOMAIN up
      BY <3>2, <3>3
    <3> QED
      BY <3>2, <3>4 DEF ToSet
  <2>3. ~Stray(tree, l)
    <3>1. Depth(tree, l) = Len(up)
      BY <2>1 DEF Depth, Cached
    <3>2. Len(up) = Rank(pl, l) + 1
          /\ \A n \in 2..Rank(pl, l) + 1 : Trail(tree, l, 0)[n].item # 0
      <4> DEFINE i == 0
      <4> HIDE DEF i
      <4>1. /\ Len(up) = Rank(pl, l) + 1
            /\ \A n \in 2..Rank(pl, l) + 1 :
                  /\ up[n] \in Reached(tree) /\ up[n - 1] \in Reached(tree) \ {tree.root}
                  /\ tree.lists[up[n - 1]].parent = up[n]
                  /\ Trail(tree, l, i)[n].item = ItemByChild(tree, up[n], up[n - 1])
                  /\ Trail(tree, l, i)[n].item # 0
        BY TrailLinks
      <4> QED
        BY <4>1 DEF i
    <3> QED
      BY <3>1, <3>2 DEF Stray
  <2> QED
    BY <2>1, <2>2, <2>3 DEF Browsable
<1>2. ASSUME NEW l \in Browsable PROVE l \in Reached(tree)
  <2> DEFINE up == Ancestors(tree, l)
             p  == tree.lists[l].parent
  <2>1. l \in DOMAIN tree.lists /\ tree.root \in ToSet(up) /\ ~Stray(tree, l)
    BY DEF Browsable
  <2>2. CASE l = tree.root
    BY <2>1, <2>2 DEF Reached
  <2>3. CASE l # tree.root
    <3>1. p # NoId
      <4> SUFFICES ASSUME p = NoId PROVE FALSE
        OBVIOUS
      <4>1. up = <<l>>
        BY <2>1, NoAncestors DEF ParentOf, Sound
      <4> QED
        BY <2>1, <2>3, <4>1 DEF ToSet
    <3>2. Len(up) \in Nat /\ Len(up) >= 2 /\ up[1] = l /\ up[2] = p
      BY <2>1, <2>3, <3>1, AncestorsBegin
    <3>3. Depth(tree, l) = Len(up)
      BY <2>1 DEF Depth, Cached
    <3>4. Trail(tree, l, 0)[2].item # 0
      BY <2>1, <3>2, <3>3 DEF Stray
    <3>5. Trail(tree, l, 0)[2].item = ItemByChild(tree, p, l)
      <4>1. Trail(tree, l, 0) = [n \in 1..Len(up) |->
                [list |-> up[n], item |-> IF n = 1 THEN 0 ELSE ItemByChild(tree, up[n], up[n - 1])]]
        BY DEF Trail, Linked
      <4>2. 2 \in 1..Len(up) /\ 2 - 1 = 1
        BY <3>2
      <4> HIDE DEF up
      <4>3. Trail(tree, l, 0)[2] = [list |-> up[2], item |-> ItemByChild(tree, up[2], up[1])]
        BY <4>1, <4>2
      <4> QED
        BY <3>2, <4>3
    <3>6. \E i \in DOMAIN Items(tree, p) : Items(tree, p)[i].child = l
      BY <3>4, <3>5 DEF ItemByChild
    <3>7. p \in DOMAIN tree.lists
      BY <2>1, <3>1 DEF Sound, ParentsRight
    <3>8. IsLinked(tree, l)
      BY <3>6, <3>7 DEF IsLinked, Items
    <3> QED
      BY <2>1, <3>8 DEF Reached
  <2> QED
    BY <2>2, <2>3
<1> QED
  BY <1>1, <1>2

(* The place of a list begins with a device in the list of devices. *)
LEMMA PlaceBegins ==
    ASSUME NEW t, NEW pl, Sound(t), Placed(t, pl), StraysEmpty(t),
           NEW l \in Reached(t), l # t.root
    PROVE  \E i \in DOMAIN DeviceItems(t) : DeviceItems(t)[i].dev = pl[l][1]
<1> DEFINE i == 0
           w == OnWay(t, l, i)
           m == Rank(pl, l)
<1> HIDE DEF i
<1>1. /\ Len(w) = m + 1 /\ m \in Nat /\ w[m + 1] = [list |-> l, item |-> i]
      /\ \A k \in 1..m : /\ w[k].list \in Reached(t)
                         /\ w[k].item \in DOMAIN Items(t, w[k].list)
                         /\ w[k].list = t.root <=> k = 1
                         /\ StepOf(k, ItemAt(t, w[k])) = pl[l][k]
  BY WayShows
<1>2. 1 \in 1..m
  <2>1. m # 0
    BY KindByRank
  <2> QED
    BY <1>1, <2>1
<1> HIDE DEF w, m
<1>3. /\ w[1].list = t.root /\ w[1].item \in DOMAIN DeviceItems(t)
      /\ StepOf(1, ItemAt(t, w[1])) = pl[l][1]
  BY <1>1, <1>2 DEF Items, DeviceItems
<1>4. DeviceItems(t)[w[1].item].dev = pl[l][1]
  BY <1>3 DEF StepOf, ItemAt, Items, DeviceItems
<1> QED
  BY <1>3, <1>4

-----------------------------------------------------------------------------
(* How trees compare *)

(* To a client, list k of tree u looks like list l of tree t. *)
Looks(t, l, u, k) ==
    /\ u.lists[k].kind = t.lists[l].kind
    /\ DOMAIN u.lists[k].items = DOMAIN t.lists[l].items
    /\ \A i \in DOMAIN t.lists[l].items :
          /\ ShowsAt(u, k, i) = ShowsAt(t, l, i)
          /\ t.lists[l].kind = "dir" => u.lists[k].items[i].dir = t.lists[l].items[i].dir

(* Directory l is the one that is stored at its place. *)
InPlace(t, pl, fs, l) ==
    LET stored == Contents[fs[pl[l][1]].content]
    IN Tail(pl[l]) \in DOMAIN stored /\ Arranged(stored[Tail(pl[l])], t.lists[l].items)

(* So are all directories, except those of the devices in X. *)
Stored(t, pl, fs, X) ==
    \A l \in Reached(t) : t.lists[l].kind = "dir" /\ pl[l][1] \notin X => InPlace(t, pl, fs, l)

(* A list looks like itself. *)
LEMMA LooksSame == ASSUME NEW t, NEW l PROVE Looks(t, l, t, l)
  BY DEF Looks

(* A list that looks like one that looks like a third one looks like that. *)
LEMMA LooksOn ==
    ASSUME NEW t, NEW l, NEW u, NEW k, NEW v, NEW m, Looks(t, l, u, k), Looks(u, k, v, m)
    PROVE  Looks(t, l, v, m)
  BY DEF Looks

(* Then it shows the same to the client. *)
LEMMA LooksShown ==
    ASSUME NEW t, NEW l \in DOMAIN t.lists, NEW u, NEW k \in DOMAIN u.lists, Looks(t, l, u, k)
    PROVE  Shown(u, k) = Shown(t, l)
<1>1. /\ Shown(t, l) = [i \in DOMAIN t.lists[l].items |-> ShowsAt(t, l, i)]
      /\ Shown(u, k) = [i \in DOMAIN u.lists[k].items |-> ShowsAt(u, k, i)]
  BY DEF Shown, Cached, Items, ShowsAt
<1>2. [i \in DOMAIN u.lists[k].items |-> ShowsAt(u, k, i)]
         = [i \in DOMAIN t.lists[l].items |-> ShowsAt(t, l, i)]
  BY DEF Looks
<1> QED
  BY <1>1, <1>2

(* Items with the same names are arranged in the same way. *)
LEMMA ArrangedAlike ==
    ASSUME NEW S, NEW n \in Nat, NEW a, NEW b, DOMAIN a = 1..n, DOMAIN b = 1..n,
           Len(a) = Len(b),
           \A i \in 1..n : a[i].name = b[i].name /\ a[i].dir = b[i].dir,
           Arranged(S, a)
    PROVE  Arranged(S, b)
<1>1. {[name |-> b[k].name, dir |-> b[k].dir] : k \in DOMAIN b}
         = {[name |-> a[k].name, dir |-> a[k].dir] : k \in DOMAIN a}
  OBVIOUS
<1>2. ASSUME NEW j \in 1..n, NEW k \in 1..n, j < k
      PROVE  IF b[j].dir = b[k].dir THEN b[j].name < b[k].name ELSE b[j].dir
  <2>1. IF a[j].dir = a[k].dir THEN a[j].name < a[k].name ELSE a[j].dir
    BY <1>2 DEF Arranged
  <2>2. a[j].dir = b[j].dir /\ a[k].dir = b[k].dir /\ a[j].name = b[j].name /\ a[k].name = b[k].name
    OBVIOUS
  <2> QED
    BY <2>1, <2>2
<1> QED
  BY <1>1, <1>2 DEF Arranged

(* A directory that looks the same at the same place is right there, too. *)
LEMMA LooksInPlace ==
    ASSUME NEW t, NEW pl, NEW l \in DOMAIN t.lists, NEW u, NEW pl2, NEW k \in DOMAIN u.lists,
           TreeType(t), TreeType(u), t.lists[l].kind = "dir", Looks(t, l, u, k), pl2[k] = pl[l],
           NEW fs, InPlace(t, pl, fs, l)
    PROVE  InPlace(u, pl2, fs, k)
<1> DEFINE a == t.lists[l].items
           b == u.lists[k].items
           S == Contents[fs[pl[l][1]].content][Tail(pl[l])]
           n == Len(a)
<1>1. a \in Seq(ItemSet) /\ b \in Seq(ItemSet)
  BY DEF TreeType, ListSet
<1>2. /\ DOMAIN b = DOMAIN a
      /\ \A i \in DOMAIN a : a[i].name = b[i].name /\ a[i].dir = b[i].dir
  BY DEF Looks, ShowsAt, Shows
<1>3. Arranged(S, a)
  BY DEF InPlace
<1> HIDE DEF a, b, S
<1>4. n \in Nat /\ DOMAIN a = 1..n /\ DOMAIN b = 1..n /\ Len(a) = Len(b)
  BY <1>1, <1>2
<1>5. Arranged(S, b)
  BY <1>2, <1>3, <1>4, ArrangedAlike
<1> QED
  BY <1>5 DEF InPlace, S, b

(* An item that gets another child is the same otherwise. *)
LEMMA ItemApart ==
    ASSUME NEW item, NEW id, NEW kind \in {"devices", "volumes", "dir"},
           kind = "devices" => item \in DeviceItemSet,
           kind = "volumes" => item \in VolumeItemSet,
           kind = "dir" => item \in DirItemSet
    PROVE  LET new == [item EXCEPT !.child = id]
           IN /\ Shows(kind, new) = Shows(kind, item)
              /\ new.child = id
              /\ kind = "devices" => new.dev = item.dev /\ new.vols = item.vols
              /\ kind = "volumes" => new.dev = item.dev /\ new.vol = item.vol
              /\ kind = "dir" => new.name = item.name /\ new.dir = item.dir
              /\ id \in IdsAndNone /\ kind = "volumes" => new \in VolumeItemSet
              /\ id \in IdsAndNone /\ kind = "dir" => new \in DirItemSet
<1>1. CASE kind = "devices"
  BY <1>1 DEF DeviceItemSet, Shows
<1>2. CASE kind = "volumes"
  BY <1>2 DEF VolumeItemSet, Shows
<1>3. CASE kind = "dir"
  BY <1>3 DEF DirItemSet, Shows
<1> QED
  BY <1>1, <1>2, <1>3

(* The items of a list are of the class of the list. *)
LEMMA ItemKind ==
    ASSUME NEW t, Sound(t), KindItems(t), NEW l \in DOMAIN t.lists, NEW i \in DOMAIN t.lists[l].items
    PROVE  LET item == t.lists[l].items[i]
               kind == t.lists[l].kind
           IN /\ kind \in {"devices", "volumes", "dir"}
              /\ kind = "devices" => item \in DeviceItemSet
              /\ kind = "volumes" => item \in VolumeItemSet
              /\ kind = "dir" => item \in DirItemSet
<1> DEFINE items == t.lists[l].items
           kind  == t.lists[l].kind
<1>1. kind \in {"devices", "volumes", "dir"}
  BY DEF Sound, TreeType, ListSet
<1>2. kind = "devices" => items \in Seq(DeviceItemSet)
  BY DEF Sound, TreeType, RootList
<1>3. kind = "volumes" => items \in Seq(VolumeItemSet)
  BY DEF KindItems
<1>4. kind = "dir" => items \in Seq(DirItemSet)
  BY DEF KindItems
<1>5. i \in DOMAIN items
  OBVIOUS
<1> HIDE DEF items, kind
<1>6. /\ kind = "devices" => items[i] \in DeviceItemSet
      /\ kind = "volumes" => items[i] \in VolumeItemSet
      /\ kind = "dir" => items[i] \in DirItemSet
  BY <1>2, <1>3, <1>4, <1>5
<1> QED
  BY <1>1, <1>6 DEF items, kind

(* The lists of u are lists of t under other IDs, and their links links of t; *)
(* then they are at the same places.                                          *)
LEMMA Relabel ==
    ASSUME NEW t, NEW pl, Sound(t), Shaped(t, pl), NEW u, Sound(u), NEW ren, KindItems(u),
           \A k \in DOMAIN u.lists : ren[k] \in DOMAIN t.lists,
           ren[u.root] = t.root,
           \A k \in DOMAIN u.lists : \A i \in DOMAIN u.lists[k].items :
              u.lists[k].items[i].child # NoId =>
                 \E j \in DOMAIN t.lists[ren[k]].items :
                    /\ t.lists[ren[k]].items[j].child = ren[u.lists[k].items[i].child]
                    /\ ShowsAt(u, k, i) = ShowsAt(t, ren[k], j),
           \A k \in DOMAIN u.lists : ren[k] \in Reached(t) => k \in Reached(u),
           \A k \in DOMAIN u.lists : u.lists[k].items # <<>> => ren[k] \in Reached(t)
    PROVE  LET pl2 == [k \in DOMAIN u.lists |-> pl[ren[k]]]
           IN /\ Shaped(u, pl2)
              /\ \A k \in Reached(u) : ren[k] \in Reached(t)
<1> DEFINE pl2 == [k \in DOMAIN u.lists |-> pl[ren[k]]]
<1>1. NoId \notin DOMAIN t.lists /\ NoId \notin DOMAIN u.lists /\ u.root \in DOMAIN u.lists
  BY DEF Sound, IdsInUse, TreeType, RootList
<1>2. pl2 \in [DOMAIN u.lists -> Seq(PlaceNames)]
  BY DEF Shaped, Placed
<1>0. \A k \in DOMAIN u.lists : pl2[k] = pl[ren[k]]
  OBVIOUS
<1> HIDE DEF pl2
<1>3. pl2[u.root] = <<>>
  BY <1>0, <1>1 DEF Shaped, Placed
<1>4. ASSUME NEW k \in DOMAIN u.lists, NEW i \in DOMAIN u.lists[k].items,
             u.lists[k].items[i].child # NoId
      PROVE  /\ pl2[u.lists[k].items[i].child] = Append(pl2[k], ShowsAt(u, k, i))
             /\ ren[u.lists[k].items[i].child] \in Reached(t)
  <2> DEFINE c == u.lists[k].items[i].child
  <2>1. c \in DOMAIN u.lists
    BY <1>4 DEF Sound, LinksRight, LinkRight
  <2>2. PICK j \in DOMAIN t.lists[ren[k]].items :
               /\ t.lists[ren[k]].items[j].child = ren[c]
               /\ ShowsAt(u, k, i) = ShowsAt(t, ren[k], j)
    BY <1>4
  <2> HIDE DEF c
  <2>3. ren[c] \in DOMAIN t.lists /\ ren[k] \in DOMAIN t.lists /\ ren[c] # NoId
    BY <1>1, <2>1
  <2>4. pl[ren[c]] = Append(pl[ren[k]], ShowsAt(t, ren[k], j))
    BY <2>2, <2>3 DEF Shaped, Placed
  <2>5. ren[c] \in Reached(t)
    BY <2>2, <2>3 DEF Reached, IsLinked
  <2> QED
    <3>1. pl2[c] = pl[ren[c]] /\ pl2[k] = pl[ren[k]]
      BY <1>0, <2>1
    <3>2. pl2[c] = Append(pl2[k], ShowsAt(u, k, i))
      BY <2>2, <2>4, <3>1, Zenon
    <3> QED
      BY <2>5, <3>2 DEF c
<1>5. Placed(u, pl2)
  BY <1>2, <1>3, <1>4 DEF Placed
<1>6. StraysEmpty(u)
  BY DEF StraysEmpty
<1>7. \A k \in Reached(u) : ren[k] \in Reached(t)
  <2> SUFFICES ASSUME NEW k \in Reached(u) PROVE ren[k] \in Reached(t)
    OBVIOUS
  <2>1. CASE k = u.root
    BY <2>1, RootReached DEF Sound
  <2>2. CASE IsLinked(u, k)
    <3>1. k \in DOMAIN u.lists /\ k # NoId
      BY <1>1 DEF Reached
    <3>2. PICK p \in DOMAIN u.lists : \E i \in DOMAIN u.lists[p].items : u.lists[p].items[i].child = k
      BY <2>2 DEF IsLinked
    <3>3. PICK i \in DOMAIN u.lists[p].items : u.lists[p].items[i].child = k
      BY <3>2
    <3> QED
      BY <1>4, <3>1, <3>3
  <2> QED
    BY <2>1, <2>2 DEF Reached
<1> QED
  BY <1>5, <1>6, <1>7 DEF Shaped, pl2

(* Directories under other IDs are still as they are stored. *)
LEMMA RelabelStored ==
    ASSUME NEW t, NEW pl, TreeType(t), NEW u, TreeType(u), NEW ren, NEW pl2,
           \A k \in Reached(u) : ren[k] \in Reached(t) /\ pl2[k] = pl[ren[k]],
           \A k \in Reached(u) : u.lists[k].kind = "dir" => Looks(t, ren[k], u, k),
           NEW fs, NEW X, Stored(t, pl, fs, X)
    PROVE  Stored(u, pl2, fs, X)
<1> SUFFICES ASSUME NEW k \in Reached(u), u.lists[k].kind = "dir", pl2[k][1] \notin X
             PROVE  InPlace(u, pl2, fs, k)
  BY DEF Stored
<1>1. ren[k] \in Reached(t) /\ pl2[k] = pl[ren[k]] /\ Looks(t, ren[k], u, k)
  OBVIOUS
<1>2. ren[k] \in DOMAIN t.lists /\ k \in DOMAIN u.lists /\ t.lists[ren[k]].kind = "dir"
  BY <1>1 DEF Reached, Looks
<1>3. InPlace(t, pl, fs, ren[k])
  BY <1>1, <1>2 DEF Stored
<1> QED
  BY <1>1, <1>2, <1>3, LooksInPlace

-----------------------------------------------------------------------------
(* Directories as they are read *)

(* Entries sorted by name are all there, in order. *)
LEMMA ByNameAll ==
    ASSUME NEW S, Directory(S)
    PROVE  LET s == ByName(S)
               n == Cardinality(S)
           IN /\ s \in Seq(S) /\ Len(s) = n /\ n \in Nat
              /\ ToSet(s) = S
              /\ \A j, k \in 1..n : j < k => s[j].name < s[k].name
<1> DEFINE s == ByName(S)
           n == Cardinality(S)
<1>1. \E r \in [1..n -> S] : Ordered(r)
  BY OrderExists
<1>2. s \in [1..n -> S] /\ Ordered(s)
  BY <1>1 DEF ByName, Ordered
<1>3. IsFiniteSet(S) /\ n \in Nat /\ S \subseteq EntrySet
  BY FS_CardinalityType DEF Directory
<1>4. IsFiniteSet(1..n) /\ Cardinality(1..n) = n
  BY <1>3, FS_Interval
<1> HIDE DEF s
<1>5. \A j, k \in 1..n : j < k => s[j].name < s[k].name
  BY <1>2 DEF Ordered
<1>6. s \in Injection(1..n, S)
  <2> SUFFICES ASSUME NEW j \in 1..n, NEW k \in 1..n, s[j] = s[k] PROVE j = k
    BY <1>2 DEF Injection, IsInjective
  <2>1. s[j].name \in Nat /\ s[k].name \in Nat /\ s[j].name = s[k].name
    BY <1>2, <1>3 DEF EntrySet
  <2> HIDE DEF n
  <2> QED
    BY <1>3, <1>5, <2>1
<1>7. s \in Surjection(1..n, S)
  BY <1>3, <1>4, <1>6, FS_Injection
<1> HIDE DEF n
<1>8. ToSet(s) = S
  BY <1>2, <1>7 DEF Surjection, ToSet
<1> QED
  BY <1>2, <1>3, <1>5, <1>8 DEF s, n

(* A directory is shown as it is stored. *)
LEMMA DirItemsArranged ==
    ASSUME NEW S, Directory(S)
    PROVE  Arranged(S, DirItems(S)) /\ DirItems(S) \in Seq(DirItemSet)
<1> DEFINE dirs   == {e \in S : e.dir}
           files  == {e \in S : ~e.dir}
           a      == ByName(dirs)
           b      == ByName(files)
           m      == Cardinality(dirs)
           n      == Cardinality(files)
           sorted == a \o b
           items  == DirItems(S)
<1>1. /\ Directory(dirs) /\ Directory(files) /\ IsFiniteSet(S) /\ S \subseteq EntrySet
      /\ IsFiniteSet(dirs) /\ IsFiniteSet(files)
  <2>1. IsFiniteSet(dirs) /\ IsFiniteSet(files)
    BY FS_Subset DEF Directory
  <2> QED
    BY <2>1 DEF Directory
<1>2. Cardinality(S) = m + n
  <2>1. dirs \cup files = S /\ dirs \cap files = {}
    BY <1>1 DEF EntrySet
  <2>2. Cardinality(dirs \cup files) = m + n - Cardinality(dirs \cap files)
    BY <1>1, FS_Union
  <2>3. Cardinality(dirs \cap files) = 0
    BY <2>1, FS_EmptySet
  <2>4. m \in Nat /\ n \in Nat
    BY <1>1, FS_CardinalityType
  <2> HIDE DEF dirs, files, m, n
  <2> QED
    BY <2>1, <2>2, <2>3, <2>4
<1>3. /\ a \in Seq(dirs) /\ Len(a) = m /\ m \in Nat /\ ToSet(a) = dirs
      /\ \A j, k \in 1..m : j < k => a[j].name < a[k].name
  BY <1>1, ByNameAll
<1>4. /\ b \in Seq(files) /\ Len(b) = n /\ n \in Nat /\ ToSet(b) = files
      /\ \A j, k \in 1..n : j < k => b[j].name < b[k].name
  BY <1>1, ByNameAll
<1>5. \A e \in dirs : e \in S /\ e.dir
  OBVIOUS
<1>6. \A e \in files : e \in S /\ ~e.dir
  OBVIOUS
<1>7. S = dirs \cup files
  BY <1>1 DEF EntrySet
<1>8. items = [k \in DOMAIN sorted |-> DirItem(sorted[k])]
  BY DEF DirItems
<1> HIDE DEF dirs, files, a, b, m, n
<1>9. a \in Seq(S) /\ b \in Seq(S)
  BY <1>3, <1>4, <1>7
<1>10. /\ sorted \in Seq(S) /\ Len(sorted) = m + n
       /\ \A i \in 1..m + n : sorted[i] = IF i <= m THEN a[i] ELSE b[i - m]
  <2>1. /\ sorted \in Seq(S) /\ Len(sorted) = Len(a) + Len(b)
        /\ \A i \in 1..Len(a) + Len(b) : sorted[i] = IF i <= Len(a) THEN a[i] ELSE b[i - Len(a)]
    BY <1>9, Concatenate
  <2>2. Len(a) = m /\ Len(b) = n
    BY <1>3, <1>4
  <2> QED
    BY <2>1, <2>2, Zenon
<1>11. ToSet(sorted) = S
  <2>1. ToSet(sorted) = ToSet(a) \cup ToSet(b)
    BY <1>9, ConcatSet
  <2> QED
    BY <1>3, <1>4, <1>7, <2>1
<1> HIDE DEF sorted, items
<1>12. DOMAIN sorted = 1..m + n /\ m + n \in Nat
  BY <1>3, <1>4, <1>10
<1>13. \A i \in 1..m + n : items[i].name = sorted[i].name /\ items[i].dir = sorted[i].dir
  BY <1>8, <1>12 DEF DirItem
<1>14. items \in Seq(DirItemSet) /\ Len(items) = m + n /\ DOMAIN items = 1..m + n
  <2>1. \A i \in 1..m + n : DirItem(sorted[i]) \in DirItemSet
    <3> SUFFICES ASSUME NEW i \in 1..m + n PROVE DirItem(sorted[i]) \in DirItemSet
      OBVIOUS
    <3>1. sorted[i] \in EntrySet
      BY <1>1, <1>10, <1>12
    <3> QED
      BY <3>1, MaxIdIsNat DEF DirItem, DirItemSet, EntrySet
  <2>2. items \in [1..m + n -> DirItemSet]
    BY <1>8, <1>12, <2>1
  <2> HIDE DEF DirItemSet
  <2> QED
    BY <1>12, <2>2
<1>15. {[name |-> items[k].name, dir |-> items[k].dir] : k \in 1..m + n} = S
  <2> DEFINE T == {[name |-> items[k].name, dir |-> items[k].dir] : k \in 1..m + n}
  <2>1. \A k \in 1..m + n : [name |-> items[k].name, dir |-> items[k].dir] = sorted[k]
    <3> SUFFICES ASSUME NEW k \in 1..m + n
                 PROVE  [name |-> items[k].name, dir |-> items[k].dir] = sorted[k]
      OBVIOUS
    <3>1. sorted[k] \in EntrySet
      BY <1>1, <1>10, <1>12
    <3>2. items[k].name = sorted[k].name /\ items[k].dir = sorted[k].dir
      BY <1>13
    <3> QED
      BY <3>1, <3>2 DEF EntrySet
  <2>2. T = {sorted[k] : k \in 1..m + n}
    BY <2>1
  <2>3. ToSet(sorted) = {sorted[k] : k \in 1..m + n}
    BY <1>12 DEF ToSet
  <2> QED
    BY <1>11, <2>2, <2>3
<1>16. ASSUME NEW j \in 1..m + n, NEW k \in 1..m + n, j < k
       PROVE  IF items[j].dir = items[k].dir THEN items[j].name < items[k].name ELSE items[j].dir
  <2>1. CASE k <= m
    <3>1. j \in 1..m /\ k \in 1..m
      BY <1>3, <1>4, <1>16, <2>1
    <3>2. sorted[j] = a[j] /\ sorted[k] = a[k] /\ a[j].name < a[k].name
      BY <1>3, <1>10, <1>16, <3>1
    <3>3. a[j] \in dirs /\ a[k] \in dirs
      BY <1>3, <3>1
    <3>4. a[j].dir /\ a[k].dir /\ a[j] \in EntrySet /\ a[k] \in EntrySet
      BY <1>1, <1>5, <3>3
    <3> QED
      BY <1>13, <3>2, <3>4 DEF EntrySet
  <2>2. CASE j > m
    <3>1. j - m \in 1..n /\ k - m \in 1..n /\ j - m < k - m /\ ~(j <= m) /\ ~(k <= m)
      BY <1>3, <1>4, <1>16, <2>2
    <3>2. sorted[j] = b[j - m] /\ sorted[k] = b[k - m] /\ b[j - m].name < b[k - m].name
      BY <1>4, <1>10, <3>1
    <3>3. b[j - m] \in files /\ b[k - m] \in files
      BY <1>4, <3>1
    <3>4. ~b[j - m].dir /\ ~b[k - m].dir /\ b[j - m] \in EntrySet /\ b[k - m] \in EntrySet
      BY <1>1, <1>6, <3>3
    <3> QED
      BY <1>13, <3>2, <3>4 DEF EntrySet
  <2>3. CASE j <= m /\ k > m
    <3>1. j \in 1..m /\ k - m \in 1..n /\ ~(k <= m)
      BY <1>3, <1>4, <1>16, <2>3
    <3>2. sorted[j] = a[j] /\ sorted[k] = b[k - m]
      BY <1>10, <3>1, <2>3
    <3>3. a[j] \in dirs /\ b[k - m] \in files
      BY <1>3, <1>4, <3>1
    <3>4. a[j].dir /\ ~b[k - m].dir /\ a[j] \in EntrySet /\ b[k - m] \in EntrySet
      BY <1>1, <1>5, <1>6, <3>3
    <3> QED
      BY <1>13, <3>2, <3>4 DEF EntrySet
  <2> QED
    BY <1>3, <1>4, <2>1, <2>2, <2>3
<1>17. Arranged(S, items)
  BY <1>2, <1>14, <1>15, <1>16 DEF Arranged
<1> QED
  BY <1>14, <1>17 DEF items

-----------------------------------------------------------------------------
(* A tree grows when lists are entered. *)

Proper(t, pl, fs, X) == Rich(t, pl) /\ Stored(t, pl, fs, X)

(* What a client knows is still there, and the devices are the same. *)
Grown(t, pl, u, pl2) ==
    /\ u.root = t.root /\ u.inv = t.inv
    /\ \A l \in Reached(t) : l \in Reached(u) /\ pl2[l] = pl[l] /\ Looks(t, l, u, l)
    /\ DOMAIN DeviceItems(u) = DOMAIN DeviceItems(t)
    /\ \A i \in DOMAIN DeviceItems(t) : /\ DeviceItems(u)[i].dev = DeviceItems(t)[i].dev
                                        /\ DeviceItems(u)[i].vols = DeviceItems(t)[i].vols

(* A tree has grown from itself. *)
LEMMA GrownSame == ASSUME NEW t, NEW pl PROVE Grown(t, pl, t, pl)
  BY LooksSame DEF Grown

(* What has grown from a grown tree has grown. *)
LEMMA GrownOn ==
    ASSUME NEW t, NEW pl, NEW u, NEW pl2, NEW v, NEW pl3, Grown(t, pl, u, pl2), Grown(u, pl2, v, pl3)
    PROVE  Grown(t, pl, v, pl3)
<1>1. /\ v.root = t.root /\ v.inv = t.inv
      /\ DOMAIN DeviceItems(v) = DOMAIN DeviceItems(t)
      /\ \A i \in DOMAIN DeviceItems(t) : /\ DeviceItems(v)[i].dev = DeviceItems(t)[i].dev
                                          /\ DeviceItems(v)[i].vols = DeviceItems(t)[i].vols
  BY DEF Grown
<1>2. ASSUME NEW l \in Reached(t) PROVE l \in Reached(v) /\ pl3[l] = pl[l] /\ Looks(t, l, v, l)
  <2>1. l \in Reached(u) /\ pl2[l] = pl[l] /\ Looks(t, l, u, l)
    BY DEF Grown
  <2>2. l \in Reached(v) /\ pl3[l] = pl2[l] /\ Looks(u, l, v, l)
    BY <2>1 DEF Grown
  <2> QED
    BY <2>1, <2>2, LooksOn
<1> QED
  BY <1>1, <1>2 DEF Grown

(* Tree u is tree t with a new list id, which item i of list l links to.   *)
ChildEffect(t, u, id, l, i, kind, items) ==
    /\ id \in Ids \ DOMAIN t.lists /\ id # NoId /\ id # l
    /\ TreeType(u) /\ u.root = t.root /\ u.inv = t.inv
    /\ DOMAIN u.lists = DOMAIN t.lists \cup {id}
    /\ u.lists[id].kind = kind /\ u.lists[id].items = items
    /\ \A k \in DOMAIN t.lists \ {l} : u.lists[k] = t.lists[k]
    /\ u.lists[l].kind = t.lists[l].kind
    /\ DOMAIN u.lists[l].items = DOMAIN t.lists[l].items
    /\ \A j \in DOMAIN t.lists[l].items \ {i} : u.lists[l].items[j] = t.lists[l].items[j]
    /\ u.lists[l].items[i] = [t.lists[l].items[i] EXCEPT !.child = id]

(* What add_child_list_to_cache() does, as long as there is a free ID      *)
LEMMA AddChildEffect ==
    ASSUME NEW t, Sound(t), ~Full(t), NEW l \in DOMAIN t.lists, NEW i \in DOMAIN t.lists[l].items,
           NEW kind \in {"volumes", "dir"}, NEW items \in Seq(ItemSet)
    PROVE  ChildEffect(t, AddChild(t, l, i, kind, items).t, FreshId(t), l, i, kind, items)
<1> DEFINE id   == FreshId(t)
           list == NewList(kind, l, items)
           v    == Insert(t, list)
           u    == SetChildList(v, l, i, id)
<1>1. AddChild(t, l, i, kind, items).t = u
  BY DEF AddChild, Entry
<1>2. TreeType(t) /\ l \in IdsAndNone /\ t.next \in Ids
  BY DEF Sound, TreeType
<1>3. list \in ListSet /\ list.kind = kind /\ list.kind # "devices" /\ list.items = items
  BY <1>2 DEF NewList, ListSet
<1>4. id \in Ids \ DOMAIN t.lists
  BY <1>2, FreshIdIsFree
<1>5. id # NoId /\ id # l
  BY <1>4, MaxIdIsNat
<1>6. v.inv = t.inv /\ IsTree(v)
  <2>1. IsTree(t)
    BY <1>2 DEF TreeType
  <2>2. v.inv = t.inv
    BY <2>1 DEF Insert, IsTree
  <2>3. IsTree(v)
    BY <1>2, <1>3, InsertType DEF TreeType
  <2> QED
    BY <2>2, <2>3
<1> HIDE DEF id, list
<1>7. /\ TreeType(v) /\ id \in IdsAndNone /\ v.root = t.root
      /\ DOMAIN v.lists = DOMAIN t.lists \cup {id}
      /\ v.lists[id] = list
      /\ \A k \in DOMAIN t.lists \ {id} : v.lists[k] = t.lists[k]
  BY <1>2, <1>3, InsertType DEF id
<1> HIDE DEF v
<1>8. i \in DOMAIN v.lists[l].items /\ l \in DOMAIN v.lists /\ v.lists[l] = t.lists[l]
  BY <1>5, <1>7
<1>9. /\ TreeType(u) /\ u.root = t.root
      /\ DOMAIN u.lists = DOMAIN t.lists \cup {id}
      /\ \A k \in DOMAIN v.lists \ {l} : u.lists[k] = v.lists[k]
      /\ u.lists[l].kind = v.lists[l].kind
      /\ DOMAIN u.lists[l].items = DOMAIN v.lists[l].items
      /\ \A j \in DOMAIN v.lists[l].items \ {i} : u.lists[l].items[j] = v.lists[l].items[j]
  BY <1>7, <1>8, SetChildType
<1>10. u.inv = v.inv
  BY <1>6 DEF SetChildList, IsTree
<1>11. u.lists[l].items[i] = [v.lists[l].items[i] EXCEPT !.child = id]
  <2> DEFINE new == [v.lists[l].items EXCEPT ![i] = [@ EXCEPT !.child = id]]
  <2>1. u.lists = [v.lists EXCEPT ![l] = [@ EXCEPT !.items = new]]
    BY <1>6 DEF SetChildList, IsTree
  <2>2. v.lists[l] \in ListSet /\ v.lists \in [DOMAIN v.lists -> ListSet]
    BY <1>7, <1>8 DEF TreeType
  <2> HIDE DEF new
  <2>3. u.lists[l].items = new
    BY <1>8, <2>1, <2>2 DEF ListSet
  <2>4. new[i] = [v.lists[l].items[i] EXCEPT !.child = id]
    BY <1>8 DEF new
  <2> QED
    BY <2>3, <2>4
<1> HIDE DEF u
<1>12. u.lists[id].kind = kind /\ u.lists[id].items = items
  BY <1>3, <1>5, <1>7, <1>9
<1>13. \A k \in DOMAIN t.lists \ {l} : u.lists[k] = t.lists[k]
  BY <1>4, <1>7, <1>9
<1>14. u.lists[l].items[i] = [t.lists[l].items[i] EXCEPT !.child = id]
  BY <1>8, <1>11
<1>15. /\ u.lists[l].kind = t.lists[l].kind
       /\ DOMAIN u.lists[l].items = DOMAIN t.lists[l].items
       /\ \A j \in DOMAIN t.lists[l].items \ {i} : u.lists[l].items[j] = t.lists[l].items[j]
  BY <1>8, <1>9
<1> QED
  BY <1>1, <1>4, <1>5, <1>6, <1>9, <1>10, <1>12, <1>13, <1>14, <1>15 DEF id, ChildEffect

(* Item b is item a with another child. *)
Apart(kind, a, b) ==
    /\ Shows(kind, b) = Shows(kind, a)
    /\ kind = "devices" => a.dev = b.dev /\ a.vols = b.vols
    /\ kind = "volumes" => a.dev = b.dev /\ a.vol = b.vol /\ b \in VolumeItemSet
    /\ kind = "dir" => a.name = b.name /\ a.dir = b.dir /\ b \in DirItemSet

(* Tree u is tree t with a new list id, which item i of list l links to, if *)
(* there is such an item.                                                   *)
ListAdded(t, u, id, l, i) ==
    /\ id \notin DOMAIN t.lists /\ id # NoId
    /\ u.root = t.root /\ u.inv = t.inv
    /\ DOMAIN u.lists = DOMAIN t.lists \cup {id}
    /\ NoLinks(u.lists[id].items)
    /\ \A k \in DOMAIN t.lists :
          /\ u.lists[k].kind = t.lists[k].kind
          /\ DOMAIN u.lists[k].items = DOMAIN t.lists[k].items
          /\ \A j \in DOMAIN t.lists[k].items :
                LET a == t.lists[k].items[j]
                    b == u.lists[k].items[j]
                IN /\ Apart(t.lists[k].kind, a, b)
                   /\ b.child = IF k = l /\ j = i THEN id ELSE a.child

(* An item has the class of its list. *)
LEMMA SelfApart ==
    ASSUME NEW t, Sound(t), KindItems(t), NEW k \in DOMAIN t.lists, NEW j \in DOMAIN t.lists[k].items
    PROVE  Apart(t.lists[k].kind, t.lists[k].items[j], t.lists[k].items[j])
  BY ItemKind DEF Apart

(* AddChild() adds a list without links. *)
LEMMA ChildAdded ==
    ASSUME NEW t, Sound(t), KindItems(t), ~Full(t),
           NEW l \in DOMAIN t.lists, NEW i \in DOMAIN t.lists[l].items,
           NEW kind \in {"volumes", "dir"}, NEW items \in Seq(ItemSet), NoLinks(items)
    PROVE  LET u  == AddChild(t, l, i, kind, items).t
               id == FreshId(t)
           IN /\ ListAdded(t, u, id, l, i)
              /\ TreeType(u)
              /\ u.lists[id].kind = kind /\ u.lists[id].items = items
<1> DEFINE id  == FreshId(t)
           u   == AddChild(t, l, i, kind, items).t
           old == t.lists[l].items[i]
           it  == [old EXCEPT !.child = id]
<1>1. /\ id \in Ids \ DOMAIN t.lists /\ id # NoId /\ id # l
      /\ TreeType(u) /\ u.root = t.root /\ u.inv = t.inv
      /\ DOMAIN u.lists = DOMAIN t.lists \cup {id}
      /\ u.lists[id].kind = kind /\ u.lists[id].items = items
      /\ \A k \in DOMAIN t.lists \ {l} : u.lists[k] = t.lists[k]
      /\ u.lists[l].kind = t.lists[l].kind
      /\ DOMAIN u.lists[l].items = DOMAIN t.lists[l].items
      /\ \A j \in DOMAIN t.lists[l].items \ {i} : u.lists[l].items[j] = t.lists[l].items[j]
      /\ u.lists[l].items[i] = it
  <2>1. ChildEffect(t, u, id, l, i, kind, items)
    BY AddChildEffect, Zenon
  <2> HIDE DEF u, id
  <2> QED
    BY <2>1 DEF ChildEffect
<1> HIDE DEF u
<1>2. Apart(t.lists[l].kind, old, it) /\ it.child = id
  <2>1. /\ t.lists[l].kind \in {"devices", "volumes", "dir"}
        /\ t.lists[l].kind = "devices" => old \in DeviceItemSet
        /\ t.lists[l].kind = "volumes" => old \in VolumeItemSet
        /\ t.lists[l].kind = "dir" => old \in DirItemSet
    BY ItemKind
  <2>2. id \in IdsAndNone
    BY <1>1, MaxIdIsNat
  <2> HIDE DEF old, id
  <2> QED
    BY <2>1, <2>2, ItemApart DEF Apart
<1> HIDE DEF id, it
<1>3. ASSUME NEW k \in DOMAIN t.lists, NEW j \in DOMAIN t.lists[k].items
      PROVE  LET a == t.lists[k].items[j]
                 b == u.lists[k].items[j]
             IN /\ Apart(t.lists[k].kind, a, b)
                /\ b.child = IF k = l /\ j = i THEN id ELSE a.child
  <2>1. CASE k = l /\ j = i
    BY <1>1, <1>2, <2>1
  <2>2. CASE ~(k = l /\ j = i)
    <3>1. u.lists[k].items[j] = t.lists[k].items[j]
      <4>1. CASE k = l
        BY <1>1, <2>2, <4>1
      <4>2. CASE k # l
        BY <1>1, <4>2
      <4> QED
        BY <4>1, <4>2
    <3>2. Apart(t.lists[k].kind, t.lists[k].items[j], t.lists[k].items[j])
      BY SelfApart
    <3> QED
      BY <2>2, <3>1, <3>2
  <2> QED
    BY <2>1, <2>2
<1>4. ASSUME NEW k \in DOMAIN t.lists
      PROVE  u.lists[k].kind = t.lists[k].kind /\ DOMAIN u.lists[k].items = DOMAIN t.lists[k].items
  BY <1>1
<1>5. ListAdded(t, u, id, l, i)
  BY <1>1, <1>3, <1>4 DEF ListAdded
<1> QED
  BY <1>1, <1>5 DEF u, id

(* The other lists look the same. *)
LEMMA AddedLooks ==
    ASSUME NEW t, NEW u, NEW id, NEW l, NEW i, ListAdded(t, u, id, l, i),
           NEW k \in DOMAIN t.lists
    PROVE  Looks(t, k, u, k)
<1>1. u.lists[k].kind = t.lists[k].kind /\ DOMAIN u.lists[k].items = DOMAIN t.lists[k].items
  BY DEF ListAdded
<1>2. ASSUME NEW j \in DOMAIN t.lists[k].items
      PROVE  /\ ShowsAt(u, k, j) = ShowsAt(t, k, j)
             /\ t.lists[k].kind = "dir" => u.lists[k].items[j].dir = t.lists[k].items[j].dir
  <2>1. Apart(t.lists[k].kind, t.lists[k].items[j], u.lists[k].items[j])
    BY DEF ListAdded
  <2> QED
    BY <1>1, <2>1 DEF Apart, ShowsAt
<1> QED
  BY <1>1, <1>2 DEF Looks

(* There is an item to link from. *)
Hooked(t, l, i) == l \in DOMAIN t.lists /\ i \in DOMAIN t.lists[l].items

(* The links are the old ones, and the new one. *)
LEMMA AddedReached ==
    ASSUME NEW t, Sound(t), NEW u, NEW id, NEW l, NEW i, ListAdded(t, u, id, l, i),
           Hooked(t, l, i) => t.lists[l].items[i].child = NoId
    PROVE  /\ Reached(t) \subseteq Reached(u)
           /\ Reached(u) \subseteq Reached(t) \cup {id}
           /\ IF Hooked(t, l, i) THEN id \in Reached(u) ELSE id \notin Reached(u)
<1>1. NoId \notin DOMAIN t.lists /\ id \notin DOMAIN t.lists
  BY DEF Sound, IdsInUse, ListAdded
<1>2. u.root = t.root /\ DOMAIN u.lists = DOMAIN t.lists \cup {id} /\ NoLinks(u.lists[id].items)
  BY DEF ListAdded
<1>3. \A k \in DOMAIN t.lists : \A j \in DOMAIN t.lists[k].items :
         /\ DOMAIN u.lists[k].items = DOMAIN t.lists[k].items
         /\ u.lists[k].items[j].child
               = IF k = l /\ j = i THEN id ELSE t.lists[k].items[j].child
  BY DEF ListAdded
<1>4. ASSUME NEW k \in Reached(t) PROVE k \in Reached(u)
  <2>1. CASE k = t.root
    BY <1>2, <2>1 DEF Reached
  <2>2. CASE IsLinked(t, k)
    <3>1. PICK p \in DOMAIN t.lists : \E j \in DOMAIN t.lists[p].items : t.lists[p].items[j].child = k
      BY <2>2 DEF IsLinked
    <3>2. PICK j \in DOMAIN t.lists[p].items : t.lists[p].items[j].child = k
      BY <3>1
    <3>3. k # NoId /\ k \in DOMAIN t.lists
      BY <1>1 DEF Reached
    <3>4. ~(p = l /\ j = i)
      BY <3>2, <3>3 DEF Hooked
    <3>5. u.lists[p].items[j].child = k /\ j \in DOMAIN u.lists[p].items
      BY <1>3, <3>2, <3>4
    <3> QED
      BY <1>2, <3>3, <3>5 DEF Reached, IsLinked
  <2> QED
    BY <2>1, <2>2 DEF Reached
<1>5. ASSUME NEW k \in Reached(u), k # id PROVE k \in Reached(t)
  <2>1. k \in DOMAIN t.lists /\ k # NoId
    BY <1>1, <1>2, <1>5 DEF Reached
  <2>2. CASE k = u.root
    BY <1>2, <2>1, <2>2 DEF Reached
  <2>3. CASE IsLinked(u, k)
    <3>1. PICK p \in DOMAIN u.lists : \E j \in DOMAIN u.lists[p].items : u.lists[p].items[j].child = k
      BY <2>3 DEF IsLinked
    <3>2. PICK j \in DOMAIN u.lists[p].items : u.lists[p].items[j].child = k
      BY <3>1
    <3>3. p # id
      BY <1>2, <2>1, <3>2 DEF NoLinks
    <3>4. p \in DOMAIN t.lists
      BY <1>2, <3>3
    <3>5. j \in DOMAIN t.lists[p].items
      BY <3>2, <3>4 DEF ListAdded
    <3>6. t.lists[p].items[j].child = k
      BY <1>3, <1>5, <3>2, <3>4, <3>5
    <3> QED
      BY <2>1, <3>4, <3>5, <3>6 DEF Reached, IsLinked
  <2> QED
    BY <2>2, <2>3 DEF Reached
<1>6. ASSUME Hooked(t, l, i) PROVE id \in Reached(u)
  <2>1. l \in DOMAIN u.lists /\ i \in DOMAIN u.lists[l].items /\ u.lists[l].items[i].child = id
    BY <1>2, <1>3, <1>6 DEF Hooked
  <2> QED
    BY <1>2, <2>1 DEF Reached, IsLinked
<1>7. ASSUME id \in Reached(u) PROVE Hooked(t, l, i)
  <2>1. id # NoId /\ id # u.root
    BY <1>1, <1>2 DEF ListAdded, Sound, TreeType, RootList
  <2>2. PICK p \in DOMAIN u.lists : \E j \in DOMAIN u.lists[p].items : u.lists[p].items[j].child = id
    BY <1>7, <2>1 DEF Reached, IsLinked
  <2>3. PICK j \in DOMAIN u.lists[p].items : u.lists[p].items[j].child = id
    BY <2>2
  <2>4. p # id
    BY <1>2, <2>1, <2>3 DEF NoLinks
  <2>5. p \in DOMAIN t.lists
    BY <1>2, <2>4
  <2>6. j \in DOMAIN t.lists[p].items
    BY <2>3, <2>5 DEF ListAdded
  <2>7. t.lists[p].items[j].child # id
    BY <1>1, <2>1, <2>5, <2>6 DEF Sound, LinksRight, LinkRight
  <2> QED
    BY <1>3, <2>3, <2>5, <2>6, <2>7 DEF Hooked
<1> QED
  BY <1>4, <1>5, <1>6, <1>7

(* They are where they were, and the new list is below its item. *)
LEMMA AddedPlaced ==
    ASSUME NEW t, Sound(t), NEW pl, Placed(t, pl), NEW u, NEW id, NEW l, NEW i,
           ListAdded(t, u, id, l, i), NEW new \in Seq(PlaceNames),
           Hooked(t, l, i) => new = Append(pl[l], ShowsAt(t, l, i))
    PROVE  LET pl2 == Put(pl, id, new)
           IN /\ Placed(u, pl2)
              /\ pl2[id] = new
              /\ \A k \in DOMAIN t.lists : pl2[k] = pl[k]
<1> DEFINE pl2 == Put(pl, id, new)
<1>1. id \notin DOMAIN t.lists /\ t.root \in DOMAIN t.lists
  BY DEF Sound, TreeType, RootList, ListAdded
<1>2. u.root = t.root /\ DOMAIN u.lists = DOMAIN t.lists \cup {id} /\ NoLinks(u.lists[id].items)
  BY DEF ListAdded
<1>3. pl \in [DOMAIN t.lists -> Seq(PlaceNames)] /\ pl[t.root] = <<>>
  BY DEF Placed
<1>4. /\ pl2 \in [DOMAIN u.lists -> Seq(PlaceNames)]
      /\ pl2[id] = new
      /\ \A k \in DOMAIN t.lists : pl2[k] = pl[k]
  <2>1. DOMAIN pl = DOMAIN t.lists
    BY <1>3
  <2>2. pl2 = [x \in DOMAIN t.lists \cup {id} |-> IF x = id THEN new ELSE pl[x]]
    BY <2>1 DEF Put
  <2> QED
    BY <1>1, <1>2, <1>3, <2>2
<1> HIDE DEF pl2
<1>5. ASSUME NEW k \in DOMAIN u.lists, NEW j \in DOMAIN u.lists[k].items,
             u.lists[k].items[j].child # NoId
      PROVE  pl2[u.lists[k].items[j].child] = Append(pl2[k], ShowsAt(u, k, j))
  <2>1. k # id
    BY <1>2, <1>5 DEF NoLinks
  <2>2. k \in DOMAIN t.lists /\ pl2[k] = pl[k]
    BY <1>2, <1>4, <2>1
  <2>3. j \in DOMAIN t.lists[k].items
    BY <2>2 DEF ListAdded
  <2>4. u.lists[k].items[j].child = IF k = l /\ j = i THEN id ELSE t.lists[k].items[j].child
    BY <2>2, <2>3 DEF ListAdded
  <2>5. ShowsAt(u, k, j) = ShowsAt(t, k, j)
    BY <2>2, <2>3, AddedLooks DEF Looks
  <2>6. CASE k = l /\ j = i
    <3>1. new = Append(pl[k], ShowsAt(t, k, j))
      BY <2>2, <2>3, <2>6 DEF Hooked
    <3> QED
      BY <1>4, <2>2, <2>4, <2>5, <2>6, <3>1
  <2>7. CASE ~(k = l /\ j = i)
    <3> DEFINE c == t.lists[k].items[j].child
    <3>1. u.lists[k].items[j].child = c /\ c # NoId
      BY <1>5, <2>4, <2>7
    <3>2. c \in DOMAIN t.lists
      BY <2>2, <2>3, <3>1 DEF Sound, LinksRight, LinkRight
    <3>3. pl[c] = Append(pl[k], ShowsAt(t, k, j))
      <4>1. k \in DOMAIN t.lists /\ j \in DOMAIN t.lists[k].items /\ t.lists[k].items[j].child # NoId
        BY <2>2, <2>3, <3>1
      <4> QED
        BY <4>1, Zenon DEF Placed
    <3> HIDE DEF c
    <3>4. pl2[c] = pl[c]
      BY <1>4, <3>2
    <3> QED
      BY <2>2, <2>5, <3>1, <3>3, <3>4, Zenon
  <2> QED
    BY <2>6, <2>7
<1>6. pl2[u.root] = <<>>
  BY <1>1, <1>2, <1>3, <1>4
<1>7. Placed(u, pl2)
  BY <1>4, <1>5, <1>6, Zenon DEF Placed
<1> QED
  BY <1>4, <1>7 DEF pl2

(* All items have the class of their list. *)
LEMMA AddedKinds ==
    ASSUME NEW t, KindItems(t), NEW u, TreeType(u), NEW id, NEW l, NEW i, ListAdded(t, u, id, l, i),
           u.lists[id].kind = "volumes" => u.lists[id].items \in Seq(VolumeItemSet),
           u.lists[id].kind = "dir" => u.lists[id].items \in Seq(DirItemSet)
    PROVE  KindItems(u)
<1> SUFFICES ASSUME NEW k \in DOMAIN u.lists
             PROVE  /\ u.lists[k].kind = "volumes" => u.lists[k].items \in Seq(VolumeItemSet)
                    /\ u.lists[k].kind = "dir" => u.lists[k].items \in Seq(DirItemSet)
  BY DEF KindItems
<1>1. CASE k = id
  BY <1>1
<1>2. CASE k # id
  <2> DEFINE a  == t.lists[k].items
             b  == u.lists[k].items
             kd == t.lists[k].kind
  <2>1. k \in DOMAIN t.lists
    BY <1>2 DEF ListAdded
  <2>2. u.lists[k].kind = kd /\ DOMAIN b = DOMAIN a /\ \A j \in DOMAIN a : Apart(kd, a[j], b[j])
    BY <2>1 DEF ListAdded
  <2>3. b \in Seq(ItemSet)
    BY DEF TreeType, ListSet
  <2> HIDE DEF a, b, kd
  <2>4. kd = "volumes" => \A j \in DOMAIN b : b[j] \in VolumeItemSet
    BY <2>2 DEF Apart
  <2>5. kd = "dir" => \A j \in DOMAIN b : b[j] \in DirItemSet
    BY <2>2 DEF Apart
  <2>6. kd = "volumes" => b \in Seq(VolumeItemSet)
    BY <2>3, <2>4
  <2>7. kd = "dir" => b \in Seq(DirItemSet)
    BY <2>3, <2>5
  <2> QED
    BY <2>2, <2>6, <2>7 DEF b
<1> QED
  BY <1>1, <1>2

(* The devices are the same, except for the link. *)
LEMMA AddedDevices ==
    ASSUME NEW t, Sound(t), NEW u, NEW id, NEW l, NEW i, ListAdded(t, u, id, l, i)
    PROVE  /\ DOMAIN DeviceItems(u) = DOMAIN DeviceItems(t)
           /\ \A j \in DOMAIN DeviceItems(t) :
                 /\ DeviceItems(u)[j].dev = DeviceItems(t)[j].dev
                 /\ DeviceItems(u)[j].vols = DeviceItems(t)[j].vols
                 /\ DeviceItems(u)[j].child
                       = IF t.root = l /\ j = i THEN id ELSE DeviceItems(t)[j].child
<1>1. t.root \in DOMAIN t.lists /\ t.lists[t.root].kind = "devices" /\ u.root = t.root
  BY DEF Sound, TreeType, RootList, ListAdded
<1>2. DOMAIN u.lists[t.root].items = DOMAIN t.lists[t.root].items
  BY <1>1 DEF ListAdded
<1>3. ASSUME NEW j \in DOMAIN t.lists[t.root].items
      PROVE  /\ Apart("devices", t.lists[t.root].items[j], u.lists[t.root].items[j])
             /\ u.lists[t.root].items[j].child
                   = IF t.root = l /\ j = i THEN id ELSE t.lists[t.root].items[j].child
  BY <1>1 DEF ListAdded
<1> QED
  BY <1>1, <1>2, <1>3 DEF Apart, DeviceItems

(* So the tree has grown. *)
LEMMA AddedGrown ==
    ASSUME NEW t, Sound(t), NEW pl, NEW u, NEW id, NEW l, NEW i, ListAdded(t, u, id, l, i),
           NEW pl2, \A k \in DOMAIN t.lists : pl2[k] = pl[k], Reached(t) \subseteq Reached(u)
    PROVE  Grown(t, pl, u, pl2)
<1>1. u.root = t.root /\ u.inv = t.inv
  BY DEF ListAdded
<1>2. \A k \in Reached(t) : k \in Reached(u) /\ pl2[k] = pl[k] /\ Looks(t, k, u, k)
  BY AddedLooks DEF Reached
<1> QED
  BY <1>1, <1>2, AddedDevices DEF Grown

(* What makes a new list right: it shows what its device or the medium has. *)
RightlyFilled(t, u, id, l, i, new, fs) ==
    /\ new \in Seq(PlaceNames)
    /\ u.lists[id].kind = "volumes" => u.lists[id].items \in Seq(VolumeItemSet)
    /\ u.lists[id].kind = "dir" => u.lists[id].items \in Seq(DirItemSet)
    /\ IF Hooked(t, l, i)
       THEN /\ t.lists[l].items[i].child = NoId
            /\ u.lists[id].kind = "dir" =>
                  LET stored == Contents[fs[new[1]].content]
                  IN Tail(new) \in DOMAIN stored /\ Arranged(stored[Tail(new)], u.lists[id].items)
            /\ l = t.root =>
                  \A n \in DOMAIN u.lists[id].items :
                     /\ u.lists[id].items[n].dev = t.lists[l].items[i].dev
                     /\ u.lists[id].items[n].vol = t.lists[l].items[i].vols[n]
       ELSE u.lists[id].items = <<>>

(* Lists of volumes show the volumes of their devices. *)
LEMMA AddedVolumes ==
    ASSUME NEW t, Sound(t), VolumesListed(t), NEW u, NEW id, NEW l, NEW i, ListAdded(t, u, id, l, i),
           NEW new, NEW fs, RightlyFilled(t, u, id, l, i, new, fs)
    PROVE  VolumesListed(u)
<1> SUFFICES ASSUME NEW j \in DOMAIN DeviceItems(u), DeviceItems(u)[j].child # NoId
             PROVE  LET item == DeviceItems(u)[j]
                    IN \A n \in DOMAIN u.lists[item.child].items :
                          /\ u.lists[item.child].items[n].dev = item.dev
                          /\ u.lists[item.child].items[n].vol = item.vols[n]
  BY DEF VolumesListed
<1>1. /\ j \in DOMAIN DeviceItems(t)
      /\ DeviceItems(u)[j].dev = DeviceItems(t)[j].dev
      /\ DeviceItems(u)[j].vols = DeviceItems(t)[j].vols
      /\ DeviceItems(u)[j].child = IF t.root = l /\ j = i THEN id ELSE DeviceItems(t)[j].child
  BY AddedDevices
<1>2. CASE t.root = l /\ j = i
  <2>1. Hooked(t, l, i)
    BY <1>1, <1>2 DEF Hooked, DeviceItems, Sound, TreeType, RootList
  <2> QED
    BY <1>1, <1>2, <2>1 DEF RightlyFilled, DeviceItems
<1>3. CASE ~(t.root = l /\ j = i)
  <2> DEFINE c == DeviceItems(t)[j].child
  <2>1. DeviceItems(u)[j].child = c /\ c # NoId
    BY <1>1, <1>3
  <2>2. c \in DOMAIN t.lists /\ t.lists[c].parent = t.root
    BY <1>1, <2>1, DeviceLinks
  <2>3. t.lists[c].kind = "volumes"
    BY <2>2 DEF Sound, ParentsRight, IdsInUse, TreeType, RootList
  <2> HIDE DEF c
  <2>4. ASSUME NEW n \in DOMAIN u.lists[c].items
        PROVE  /\ u.lists[c].items[n].dev = DeviceItems(t)[j].dev
               /\ u.lists[c].items[n].vol = DeviceItems(t)[j].vols[n]
    <3>1. n \in DOMAIN t.lists[c].items /\ Apart("volumes", t.lists[c].items[n], u.lists[c].items[n])
      BY <2>2, <2>3 DEF ListAdded
    <3>2. /\ t.lists[c].items[n].dev = DeviceItems(t)[j].dev
          /\ t.lists[c].items[n].vol = DeviceItems(t)[j].vols[n]
      BY <1>1, <2>1, <3>1 DEF VolumesListed, c
    <3> QED
      BY <3>1, <3>2 DEF Apart
  <2> QED
    BY <1>1, <2>1, <2>4
<1> QED
  BY <1>2, <1>3

(* Lists without a link have no items. *)
LEMMA AddedStrays ==
    ASSUME NEW t, Sound(t), StraysEmpty(t), NEW u, TreeType(u), NEW id, NEW l, NEW i,
           ListAdded(t, u, id, l, i),
           NEW new, NEW fs, RightlyFilled(t, u, id, l, i, new, fs)
    PROVE  StraysEmpty(u)
<1> SUFFICES ASSUME NEW k \in DOMAIN u.lists \ Reached(u) PROVE u.lists[k].items = <<>>
  BY DEF StraysEmpty
<1>1. Hooked(t, l, i) => t.lists[l].items[i].child = NoId
  BY DEF RightlyFilled
<1>2. Reached(t) \subseteq Reached(u) /\ IF Hooked(t, l, i) THEN id \in Reached(u) ELSE id \notin Reached(u)
  BY <1>1, AddedReached
<1>3. CASE k = id
  BY <1>2, <1>3 DEF RightlyFilled
<1>4. CASE k # id
  <2>1. k \in DOMAIN t.lists \ Reached(t)
    BY <1>2, <1>4 DEF ListAdded
  <2>2. t.lists[k].items = <<>>
    BY <2>1 DEF StraysEmpty
  <2>3. DOMAIN u.lists[k].items = {}
    BY <2>1, <2>2 DEF ListAdded
  <2>4. u.lists[k].items \in Seq(ItemSet)
    BY DEF TreeType, ListSet
  <2> DEFINE items == u.lists[k].items
  <2> HIDE DEF items
  <2>5. items \in Seq(ItemSet) /\ DOMAIN items = {}
    BY <2>3, <2>4 DEF items
  <2>6. items = <<>>
    BY <2>5
  <2> QED
    BY <2>6 DEF items
<1> QED
  BY <1>3, <1>4

(* Directories are as they are stored. *)
LEMMA AddedStored ==
    ASSUME NEW t, NEW pl, Sound(t), NEW fs, NEW X, Stored(t, pl, fs, X),
           NEW u, TreeType(u), NEW id, NEW l, NEW i, ListAdded(t, u, id, l, i),
           NEW new, RightlyFilled(t, u, id, l, i, new, fs),
           NEW pl2, pl2[id] = new, \A k \in DOMAIN t.lists : pl2[k] = pl[k]
    PROVE  Stored(u, pl2, fs, X)
<1> SUFFICES ASSUME NEW k \in Reached(u), u.lists[k].kind = "dir", pl2[k][1] \notin X
             PROVE  InPlace(u, pl2, fs, k)
  BY DEF Stored
<1>1. Hooked(t, l, i) => t.lists[l].items[i].child = NoId
  BY DEF RightlyFilled
<1>2. /\ Reached(u) \subseteq Reached(t) \cup {id}
      /\ IF Hooked(t, l, i) THEN id \in Reached(u) ELSE id \notin Reached(u)
  BY <1>1, AddedReached
<1>3. CASE k = id
  BY <1>2, <1>3 DEF RightlyFilled, InPlace
<1>4. CASE k # id
  <2>1. k \in Reached(t) /\ k \in DOMAIN t.lists /\ k \in DOMAIN u.lists
    BY <1>2, <1>4 DEF Reached
  <2>2. Looks(t, k, u, k)
    BY <2>1, AddedLooks
  <2>3. t.lists[k].kind = "dir" /\ pl2[k] = pl[k]
    BY <2>1, <2>2 DEF Looks
  <2>4. InPlace(t, pl, fs, k)
    BY <2>1, <2>3 DEF Stored
  <2>5. TreeType(t)
    BY DEF Sound
  <2> QED
    BY <2>1, <2>2, <2>3, <2>4, <2>5, LooksInPlace
<1> QED
  BY <1>3, <1>4

(* A tree with a right new list is right. *)
LEMMA AddedProper ==
    ASSUME NEW t, NEW pl, NEW fs, NEW X, Proper(t, pl, fs, X), NEW u, Sound(u), Matched(u),
           NEW id, NEW l, NEW i, ListAdded(t, u, id, l, i),
           NEW new, RightlyFilled(t, u, id, l, i, new, fs),
           Hooked(t, l, i) => new = Append(pl[l], ShowsAt(t, l, i))
    PROVE  LET pl2 == Put(pl, id, new)
           IN /\ Proper(u, pl2, fs, X)
              /\ Grown(t, pl, u, pl2)
              /\ pl2[id] = new
              /\ Hooked(t, l, i) => id \in Reached(u)
<1> DEFINE pl2 == Put(pl, id, new)
<1>1. /\ Sound(t) /\ Placed(t, pl) /\ StraysEmpty(t) /\ KindItems(t) /\ Listed(t)
      /\ VolumesListed(t) /\ Stored(t, pl, fs, X)
  BY DEF Proper, Rich, Shaped
<1>2. new \in Seq(PlaceNames) /\ TreeType(u)
  BY DEF RightlyFilled, Sound
<1>3. Placed(u, pl2) /\ pl2[id] = new /\ \A k \in DOMAIN t.lists : pl2[k] = pl[k]
  <2>1. l \in DOMAIN t.lists /\ i \in DOMAIN t.lists[l].items => new = Append(pl[l], ShowsAt(t, l, i))
    BY DEF Hooked
  <2> QED
    BY <1>1, <1>2, <2>1, AddedPlaced
<1> HIDE DEF pl2
<1>4. StraysEmpty(u)
  BY <1>1, <1>2, AddedStrays
<1>5. KindItems(u)
  <2>1. /\ u.lists[id].kind = "volumes" => u.lists[id].items \in Seq(VolumeItemSet)
        /\ u.lists[id].kind = "dir" => u.lists[id].items \in Seq(DirItemSet)
    BY DEF RightlyFilled
  <2> QED
    BY <1>1, <1>2, <2>1, AddedKinds
<1>6. VolumesListed(u)
  BY <1>1, AddedVolumes
<1>7. Listed(u)
  <2>1. /\ DOMAIN DeviceItems(u) = DOMAIN DeviceItems(t)
        /\ \A j \in DOMAIN DeviceItems(t) : /\ DeviceItems(u)[j].dev = DeviceItems(t)[j].dev
                                            /\ DeviceItems(u)[j].vols = DeviceItems(t)[j].vols
    BY <1>1, AddedDevices
  <2> QED
    BY <1>1, <2>1 DEF Listed
<1>8. Stored(u, pl2, fs, X)
  BY <1>1, <1>2, <1>3, AddedStored
<1>9. Reached(t) \subseteq Reached(u) /\ Hooked(t, l, i) => id \in Reached(u)
  <2>1. Hooked(t, l, i) => t.lists[l].items[i].child = NoId
    BY DEF RightlyFilled
  <2>2. Reached(t) \subseteq Reached(u) /\ IF Hooked(t, l, i) THEN id \in Reached(u) ELSE id \notin Reached(u)
    BY <1>1, <2>1, AddedReached
  <2> QED
    BY <2>2
<1>10. Reached(t) \subseteq Reached(u)
  <2>1. Hooked(t, l, i) => t.lists[l].items[i].child = NoId
    BY DEF RightlyFilled
  <2> QED
    BY <1>1, <2>1, AddedReached
<1>11. Grown(t, pl, u, pl2)
  BY <1>1, <1>3, <1>10, AddedGrown
<1>12. Proper(u, pl2, fs, X)
  BY <1>3, <1>4, <1>5, <1>6, <1>7, <1>8 DEF Proper, Rich, Shaped
<1>13. Hooked(t, l, i) => id \in Reached(u)
  BY <1>9, <1>10
<1> QED
  BY <1>3, <1>11, <1>12, <1>13 DEF pl2

(* What an item shows is a name. *)
LEMMA ShowsName ==
    ASSUME NEW t, Sound(t), KindItems(t), NEW l \in DOMAIN t.lists, NEW i \in DOMAIN t.lists[l].items
    PROVE  ShowsAt(t, l, i) \in PlaceNames
<1> DEFINE item == t.lists[l].items[i]
           kind == t.lists[l].kind
<1>1. /\ kind \in {"devices", "volumes", "dir"}
      /\ kind = "devices" => item \in DeviceItemSet
      /\ kind = "volumes" => item \in VolumeItemSet
      /\ kind = "dir" => item \in DirItemSet
  BY ItemKind
<1> HIDE DEF item, kind
<1>2. Shows(kind, item) \in PlaceNames
  BY <1>1 DEF Shows, PlaceNames, DeviceItemSet, VolumeItemSet, DirItemSet
<1> QED
  BY <1>2 DEF ShowsAt, item, kind

(* What a client is told of a list that has been entered *)
Entering(t, pl, l, i, u, pl2, id) ==
    /\ Grown(t, pl, u, pl2)
    /\ id \in Reached(u)
    /\ pl2[id] = Append(pl[l], ShowsAt(t, l, i))

(* The items of a new list below item i of list l are those of the device, *)
(* or what is stored in the directory.                                     *)
ItemsOfChild(t, fs, l, i, kind, items, new) ==
    /\ kind = IF l = t.root THEN "volumes" ELSE "dir"
    /\ l = t.root => DOMAIN items = DOMAIN t.lists[l].items[i].vols
    /\ kind = "volumes" => items \in Seq(VolumeItemSet)
    /\ kind = "dir" => items \in Seq(DirItemSet)
    /\ kind = "dir" => LET stored == Contents[fs[new[1]].content]
                       IN Tail(new) \in DOMAIN stored /\ Arranged(stored[Tail(new)], items)
    /\ l = t.root => \A n \in DOMAIN items : /\ items[n].dev = t.lists[l].items[i].dev
                                             /\ items[n].vol = t.lists[l].items[i].vols[n]

(* A list is entered, and shows what it should. *)
LEMMA AddChildGrows ==
    ASSUME NEW t, NEW pl, NEW fs, NEW X, Proper(t, pl, fs, X), ~Full(t),
           NEW l \in DOMAIN t.lists, NEW i \in DOMAIN t.lists[l].items,
           t.lists[l].items[i].child = NoId,
           NEW kind, NEW items \in Seq(ItemSet), NoLinks(items),
           NEW new, new = Append(pl[l], ShowsAt(t, l, i)),
           ItemsOfChild(t, fs, l, i, kind, items, new),
           ~Full(AddChild(t, l, i, kind, items).t)
    PROVE  LET u == AddChild(t, l, i, kind, items).t
           IN \E pl2 : Proper(u, pl2, fs, X) /\ Entering(t, pl, l, i, u, pl2, FreshId(t))
<1> DEFINE u   == AddChild(t, l, i, kind, items).t
           id  == FreshId(t)
           pl2 == Put(pl, id, new)
<1>1. Sound(t) /\ Matched(t) /\ KindItems(t) /\ Placed(t, pl)
  BY DEF Proper, Rich, Shaped
<1>2. Sound(u) /\ Matched(u)
  <2>1. TreeInv(t)
    BY <1>1 DEF TreeInv, Sound
  <2>2. TreeInv(u)
    BY <2>1, AddChildInv DEF ItemsOfChild
  <2> QED
    BY <2>2 DEF TreeInv
<1>3. kind \in {"volumes", "dir"}
  BY DEF ItemsOfChild
<1>4. ListAdded(t, u, id, l, i) /\ u.lists[id].kind = kind /\ u.lists[id].items = items
  <2>1. /\ ListAdded(t, u, id, l, i)
        /\ TreeType(u)
        /\ u.lists[id].kind = kind /\ u.lists[id].items = items
    BY <1>1, <1>3, ChildAdded
  <2> QED
    BY <2>1
<1>5. new \in Seq(PlaceNames)
  <2>1. ShowsAt(t, l, i) \in PlaceNames /\ pl[l] \in Seq(PlaceNames)
    BY <1>1, ShowsName DEF Placed
  <2> QED
    BY <2>1
<1> HIDE DEF u, id
<1>6. RightlyFilled(t, u, id, l, i, new, fs)
  BY <1>4, <1>5 DEF RightlyFilled, Hooked, ItemsOfChild
<1>7. Hooked(t, l, i)
  BY DEF Hooked
<1>8. /\ Proper(u, pl2, fs, X)
      /\ Grown(t, pl, u, pl2)
      /\ pl2[id] = new
      /\ Hooked(t, l, i) => id \in Reached(u)
  <2>1. Hooked(t, l, i) => new = Append(pl[l], ShowsAt(t, l, i))
    OBVIOUS
  <2>2. ListAdded(t, u, id, l, i)
    BY <1>4
  <2> QED
    BY ONLY <1>2, <1>6, <2>1, <2>2, AddedProper, Proper(t, pl, fs, X)
<1> HIDE DEF pl2
<1>9. Proper(u, pl2, fs, X) /\ Entering(t, pl, l, i, u, pl2, id)
  BY <1>7, <1>8 DEF Entering
<1> QED
  BY <1>9 DEF u, id

(* A directory that cannot be read is cached without a link. *)
LEMMA StrayGrows ==
    ASSUME NEW t, NEW pl, NEW fs, NEW X, Proper(t, pl, fs, X), ~Full(t),
           NEW l \in DOMAIN t.lists, l # t.root,
           NEW u, u = Insert(t, NewList("dir", l, <<>>)), Sound(u), Matched(u)
    PROVE  \E pl2 : Proper(u, pl2, fs, X) /\ Grown(t, pl, u, pl2)
<1> DEFINE id   == FreshId(t)
           list == NewList("dir", l, <<>>)
<1>1. Sound(t) /\ KindItems(t) /\ TreeType(t) /\ IsTree(t) /\ t.next \in Ids /\ l \in IdsAndNone
  BY DEF Proper, Rich, Shaped, Sound, TreeType
<1>2. list \in ListSet /\ list.kind = "dir" /\ list.items = <<>>
  BY <1>1 DEF NewList, ListSet
<1>3. id \in Ids \ DOMAIN t.lists /\ id # NoId
  BY <1>1, FreshIdIsFree, MaxIdIsNat
<1>4. u.inv = t.inv
  BY <1>1 DEF Insert, IsTree
<1> HIDE DEF id
<1>5. /\ u.root = t.root
      /\ DOMAIN u.lists = DOMAIN t.lists \cup {id}
      /\ u.lists[id].kind = "dir" /\ u.lists[id].items = <<>>
      /\ \A k \in DOMAIN t.lists : u.lists[k] = t.lists[k]
  <2>1. list.kind # "devices"
    BY <1>2
  <2> HIDE DEF list
  <2>2. /\ TreeType(Insert(t, list))
        /\ FreshId(t) # t.root
        /\ FreshId(t) \in IdsAndNone
        /\ DOMAIN Insert(t, list).lists = DOMAIN t.lists \cup {FreshId(t)}
        /\ Insert(t, list).root = t.root
        /\ Insert(t, list).lists[FreshId(t)] = list
        /\ \A k \in DOMAIN t.lists \ {FreshId(t)} : Insert(t, list).lists[k] = t.lists[k]
    BY <1>1, <1>2, <2>1, InsertType
  <2>3. u = Insert(t, list)
    BY DEF list
  <2> QED
    BY <1>2, <1>3, <2>2, <2>3 DEF id
<1>6. ~Hooked(t, NoId, 0)
  BY <1>1 DEF Hooked, Sound, IdsInUse
<1>7. ListAdded(t, u, id, NoId, 0)
  <2>1. NoLinks(u.lists[id].items)
    BY <1>5 DEF NoLinks
  <2>2. \A k \in DOMAIN t.lists : k # NoId
    BY <1>1 DEF Sound, IdsInUse
  <2>3. ASSUME NEW k \in DOMAIN t.lists, NEW j \in DOMAIN t.lists[k].items
        PROVE  Apart(t.lists[k].kind, t.lists[k].items[j], t.lists[k].items[j])
    BY <1>1, SelfApart
  <2> QED
    BY <1>3, <1>4, <1>5, <2>1, <2>2, <2>3 DEF ListAdded
<1>8. RightlyFilled(t, u, id, NoId, 0, <<>>, fs)
  <2>1. <<>> \in Seq(PlaceNames) /\ <<>> \in Seq(DirItemSet)
    OBVIOUS
  <2> QED
    BY <1>5, <1>6, <2>1 DEF RightlyFilled
<1>9. Proper(u, Put(pl, id, <<>>), fs, X) /\ Grown(t, pl, u, Put(pl, id, <<>>))
  BY <1>6, <1>7, <1>8, AddedProper
<1> QED
  BY <1>9

(* The items of a new list of volumes *)
LEMMA VolumeItemsShow ==
    ASSUME NEW item \in DeviceItemSet
    PROVE  LET items == VolumeItems(item)
           IN /\ items \in Seq(VolumeItemSet)
              /\ \A n \in DOMAIN items : items[n].dev = item.dev /\ items[n].vol = item.vols[n]
<1> DEFINE items == VolumeItems(item)
           m     == Len(item.vols)
<1>1. item.dev \in Devices /\ m \in Nat /\ DOMAIN item.vols = 1..m
  BY DEF DeviceItemSet
<1>2. \A n \in 1..m : item.vols[n] \in Nat
  BY <1>1 DEF DeviceItemSet
<1>3. 0 \in IdsAndNone /\ NoId = 0
  BY MaxIdIsNat
<1>4. items = [n \in 1..m |-> VolumeItem(item.dev, item.vols[n])]
  BY <1>1 DEF VolumeItems
<1>5. \A n \in 1..m : VolumeItem(item.dev, item.vols[n]) \in VolumeItemSet
  BY <1>1, <1>2, <1>3 DEF VolumeItem, VolumeItemSet
<1> HIDE DEF items
<1>6. items \in Seq(VolumeItemSet) /\ DOMAIN items = 1..m
  BY <1>1, <1>4, <1>5
<1>7. \A n \in 1..m : items[n].dev = item.dev /\ items[n].vol = item.vols[n]
  BY <1>4 DEF VolumeItem
<1> QED
  BY <1>6, <1>7 DEF items

(* The list of the volumes of a device is entered. *)
LEMMA EnterDeviceGrows ==
    ASSUME NEW t, NEW pl, NEW fs, NEW X, Proper(t, pl, fs, X), ~Full(t),
           NEW i \in DOMAIN t.lists[t.root].items, t.lists[t.root].items[i].child = NoId,
           ~Full(EnterDevice(t, t.root, i).t)
    PROVE  LET e == EnterDevice(t, t.root, i)
           IN \E pl2 : Proper(e.t, pl2, fs, X) /\ Entering(t, pl, t.root, i, e.t, pl2, e.id)
<1> DEFINE item  == t.lists[t.root].items[i]
           items == VolumeItems(item)
<1>1. t.root \in DOMAIN t.lists /\ item \in DeviceItemSet
  BY DEF Proper, Rich, Sound, TreeType, RootList
<1>2. /\ EnterDevice(t, t.root, i) = AddChild(t, t.root, i, "volumes", items)
      /\ AddChild(t, t.root, i, "volumes", items).id = FreshId(t)
  BY DEF EnterDevice, Items, AddChild, Entry
<1>3. items \in Seq(ItemSet) /\ NoLinks(items) /\ DOMAIN items = DOMAIN item.vols
  BY <1>1, VolumeItemsType
<1>4. /\ items \in Seq(VolumeItemSet)
      /\ \A n \in DOMAIN items : items[n].dev = item.dev /\ items[n].vol = item.vols[n]
  BY <1>1, VolumeItemsShow
<1> HIDE DEF items
<1>5. \E pl2 : /\ Proper(AddChild(t, t.root, i, "volumes", items).t, pl2, fs, X)
               /\ Entering(t, pl, t.root, i, AddChild(t, t.root, i, "volumes", items).t, pl2, FreshId(t))
  <2> DEFINE kind == "volumes"
             new  == Append(pl[t.root], ShowsAt(t, t.root, i))
  <2>1. ItemsOfChild(t, fs, t.root, i, kind, items, new)
    <3>1. kind = (IF t.root = t.root THEN "volumes" ELSE "dir") /\ kind # "dir"
      OBVIOUS
    <3> HIDE DEF kind, new, item
    <3>2. DOMAIN items = DOMAIN t.lists[t.root].items[i].vols
      BY <1>3 DEF item
    <3>3. \A n \in DOMAIN items : /\ items[n].dev = t.lists[t.root].items[i].dev
                                 /\ items[n].vol = t.lists[t.root].items[i].vols[n]
      BY <1>4 DEF item
    <3>4. items \in Seq(VolumeItemSet)
      BY <1>4
    <3> QED
      BY ONLY <3>1, <3>2, <3>3, <3>4 DEF ItemsOfChild
  <2>2. new = Append(pl[t.root], ShowsAt(t, t.root, i))
    OBVIOUS
  <2>3. ~Full(AddChild(t, t.root, i, kind, items).t)
    BY <1>2
  <2> HIDE DEF kind, new
  <2>5. \E pl2 : /\ Proper(AddChild(t, t.root, i, kind, items).t, pl2, fs, X)
                 /\ Entering(t, pl, t.root, i, AddChild(t, t.root, i, kind, items).t, pl2, FreshId(t))
    BY <1>1, <1>3, <2>1, <2>2, <2>3, AddChildGrows
  <2> QED
    BY <2>5 DEF kind
<1> QED
  BY <1>2, <1>5

(* A directory is entered, or turns out not to be readable. *)
LEMMA EnterDirGrows ==
    ASSUME NEW t, NEW pl, NEW fs, NEW X, Proper(t, pl, fs, X), MountsType(fs), ~Full(t),
           NEW l \in Reached(t), l # t.root,
           NEW i \in DOMAIN t.lists[l].items, t.lists[l].items[i].child = NoId,
           NEW e, e = AttachNewDirlist(t, fs, l, i, DeviceOf(t, OnWay(t, l, i)), FsPath(t, OnWay(t, l, i))),
           ~Full(e.t)
    PROVE  \E pl2 : /\ Proper(e.t, pl2, fs, X)
                    /\ Grown(t, pl, e.t, pl2)
                    /\ e.id # NoId => Entering(t, pl, l, i, e.t, pl2, e.id)
<1> DEFINE d    == DeviceOf(t, OnWay(t, l, i))
           path == FsPath(t, OnWay(t, l, i))
           new  == Append(pl[l], ShowsAt(t, l, i))
           S    == Contents[fs[d].content][path]
<1>1. Sound(t) /\ Matched(t) /\ KindItems(t) /\ Placed(t, pl) /\ StraysEmpty(t) /\ l \in DOMAIN t.lists
  BY DEF Proper, Rich, Shaped, Reached
<1>2. d = pl[l][1] /\ path = Tail(new)
  BY <1>1, PathRight
<1>3. new[1] = pl[l][1]
  <2>1. Rank(pl, l) \in Nat /\ (l = t.root <=> Rank(pl, l) = 0)
    BY <1>1, KindByRank
  <2>2. pl[l] \in Seq(PlaceNames) /\ ShowsAt(t, l, i) \in PlaceNames
    BY <1>1, ShowsName DEF Placed
  <2>3. Len(pl[l]) \in Nat /\ Len(pl[l]) # 0
    BY <2>1 DEF Rank
  <2> DEFINE a == pl[l]
             x == ShowsAt(t, l, i)
  <2> HIDE DEF a, x
  <2>4. Append(a, x)[1] = a[1]
    BY <2>2, <2>3 DEF a, x
  <2> QED
    BY <2>4 DEF a, x
<1>4. e = AttachNewDirlist(t, fs, l, i, d, path)
  OBVIOUS
<1> HIDE DEF d, path, new
<1>5. CASE Readable(fs, d, path)
  <2> DEFINE items == DirItems(S)
  <2>1. Directory(S)
    BY <1>5, ReadableDirectory
  <2>2. e = AddChild(t, l, i, "dir", items) /\ e.id = FreshId(t)
    BY <1>4, <1>5 DEF AttachNewDirlist, AddChild, Entry
  <2>3. items \in Seq(ItemSet) /\ NoLinks(items)
    BY <2>1, DirItemsType
  <2>4. items \in Seq(DirItemSet) /\ Arranged(S, items)
    BY <2>1, DirItemsArranged
  <2>5. path \in DOMAIN Contents[fs[d].content]
    BY <1>5 DEF Readable
  <2>6. LET stored == Contents[fs[new[1]].content]
        IN Tail(new) \in DOMAIN stored /\ Arranged(stored[Tail(new)], items)
    BY <1>2, <1>3, <2>4, <2>5
  <2> HIDE DEF items
  <2>7. \E pl2 : /\ Proper(AddChild(t, l, i, "dir", items).t, pl2, fs, X)
                 /\ Entering(t, pl, l, i, AddChild(t, l, i, "dir", items).t, pl2, FreshId(t))
    <3>1. new = Append(pl[l], ShowsAt(t, l, i))
      BY DEF new
    <3>2. ~Full(AddChild(t, l, i, "dir", items).t)
      BY <2>2
    <3> DEFINE kind == "dir"
    <3>3. ItemsOfChild(t, fs, l, i, kind, items, new)
      BY <2>4, <2>6 DEF ItemsOfChild
    <3> HIDE DEF kind
    <3>4. \E pl2 : /\ Proper(AddChild(t, l, i, kind, items).t, pl2, fs, X)
                   /\ Entering(t, pl, l, i, AddChild(t, l, i, kind, items).t, pl2, FreshId(t))
      <4>1. ~Full(AddChild(t, l, i, kind, items).t)
        BY <3>2 DEF kind
      <4> QED
        BY <1>1, <2>3, <3>1, <3>3, <4>1, AddChildGrows
    <3> QED
      BY <3>4 DEF kind
  <2> QED
    BY <2>2, <2>7 DEF Entering
<1>6. CASE ~Readable(fs, d, path)
  <2>1. e.t = Insert(t, NewList("dir", l, <<>>)) /\ e.id = NoId
    BY <1>4, <1>6 DEF AttachNewDirlist, Entry
  <2>2. Sound(e.t) /\ Matched(e.t)
    <3>1. TreeInv(t)
      BY <1>1 DEF TreeInv, Sound
    <3>2. TreeInv(AttachNewDirlist(t, fs, l, i, d, path).t)
      BY <1>1, <3>1, AttachInv
    <3> QED
      BY <1>4, <3>2 DEF TreeInv
  <2>3. \E pl2 : Proper(e.t, pl2, fs, X) /\ Grown(t, pl, e.t, pl2)
    BY <1>1, <2>1, <2>2, StrayGrows
  <2> QED
    BY <2>1, <2>3
<1> QED
  BY <1>5, <1>6

(* enter_child(): the client gets to know a list that shows what it should. *)
LEMMA EnterChildGrows ==
    ASSUME NEW t, NEW pl, NEW fs, NEW X, Proper(t, pl, fs, X), MountsType(fs), ~Full(t),
           NEW l, NEW i, ~Full(EnterChild(t, fs, l, i).t)
    PROVE  LET e == EnterChild(t, fs, l, i)
           IN \E pl2 : /\ Proper(e.t, pl2, fs, X)
                       /\ Grown(t, pl, e.t, pl2)
                       /\ e.id # NoId => /\ l \in Reached(t)
                                         /\ i \in DOMAIN t.lists[l].items
                                         /\ Entering(t, pl, l, i, e.t, pl2, e.id)
<1> DEFINE e == EnterChild(t, fs, l, i)
<1>0. Grown(t, pl, t, pl)
  BY GrownSame
<1>1. CASE ~Cached(t, l) \/ i \notin DOMAIN Items(t, l)
  <2>1. e.t = t /\ e.id = NoId
    BY <1>1 DEF EnterChild, Entry
  <2> QED
    BY <1>0, <2>1
<1>2. CASE Cached(t, l) /\ i \in DOMAIN Items(t, l)
  <2>1. /\ l \in DOMAIN t.lists /\ i \in DOMAIN t.lists[l].items
        /\ Placed(t, pl) /\ StraysEmpty(t) /\ Sound(t)
    BY <1>2 DEF Cached, Items, Proper, Rich, Shaped
  <2>2. l \in Reached(t)
    BY <2>1 DEF StraysEmpty
  <2>3. CASE Items(t, l)[i].child # NoId
    <3>1. e.t = t /\ e.id = t.lists[l].items[i].child
      BY <1>2, <2>3 DEF EnterChild, Entry, Items
    <3>2. e.id \in DOMAIN t.lists
      BY <2>1, <2>3, <3>1 DEF Items, Sound, LinksRight, LinkRight
    <3>3. e.id \in Reached(t)
      BY <2>1, <3>1, <3>2 DEF Reached, IsLinked
    <3>4. pl[t.lists[l].items[i].child] = Append(pl[l], ShowsAt(t, l, i))
      BY <2>1, <2>3, Zenon DEF Placed, Items
    <3>5. Entering(t, pl, l, i, e.t, pl, e.id)
      BY <1>0, <3>1, <3>3, <3>4, Zenon DEF Entering
    <3> QED
      BY <1>0, <2>1, <2>2, <3>1, <3>5
  <2>4. CASE Items(t, l)[i].child = NoId
    <3>1. e = EnterNewChild(t, fs, l, i) /\ t.lists[l].items[i].child = NoId
      BY <1>2, <2>4 DEF EnterChild, Items
    <3>2. t.lists[l].kind = "devices" <=> l = t.root
      BY <2>1 DEF Sound, TreeType, RootList
    <3>3. CASE l = t.root
      <4>1. e = EnterDevice(t, t.root, i)
        BY <3>1, <3>2, <3>3 DEF EnterNewChild, IsDirectory
      <4> QED
        BY <2>1, <2>2, <3>1, <3>3, <4>1, EnterDeviceGrows DEF Entering
    <3>4. CASE l # t.root /\ IsDirectory(t, l, i)
      <4>1. e = AttachNewDirlist(t, fs, l, i, DeviceOf(t, OnWay(t, l, i)), FsPath(t, OnWay(t, l, i)))
        BY <3>1, <3>2, <3>4 DEF EnterNewChild
      <4> HIDE DEF e
      <4>2. ~Full(e.t)
        BY DEF e
      <4>3. \E pl2 : /\ Proper(e.t, pl2, fs, X)
                     /\ Grown(t, pl, e.t, pl2)
                     /\ e.id # NoId => Entering(t, pl, l, i, e.t, pl2, e.id)
        BY <2>1, <2>2, <3>1, <3>4, <4>1, <4>2, EnterDirGrows
      <4> QED
        BY <2>1, <2>2, <4>3 DEF e
    <3>5. CASE l # t.root /\ ~IsDirectory(t, l, i)
      <4>1. e.t = t /\ e.id = NoId
        BY <3>1, <3>2, <3>5 DEF EnterNewChild, Entry
      <4> QED
        BY <1>0, <4>1
    <3> QED
      BY <3>3, <3>4, <3>5
  <2> QED
    BY <2>3, <2>4
<1> QED
  BY <1>1, <1>2

-----------------------------------------------------------------------------
(* A walk along a location enters one list after the other. *)

(* When all IDs have been given away, they stay so.                        *)
LEMMA StaysFull ==
    ASSUME NEW t, TreeType(t), Full(t), NEW fs, MountsType(fs), NEW l, NEW i
    PROVE  Full(EnterChild(t, fs, l, i).t)
<1> DEFINE e == EnterChild(t, fs, l, i)
<1>1. ASSUME NEW list \in ListSet, list.kind # "devices"
      PROVE  /\ TreeType(Insert(t, list))
             /\ FreshId(t) \in IdsAndNone
             /\ DOMAIN Insert(t, list).lists = DOMAIN t.lists \cup {FreshId(t)}
             /\ l \in DOMAIN t.lists => l = FreshId(t) \/ Insert(t, list).lists[l] = t.lists[l]
  BY <1>1, InsertType
<1>2. FreshId(t) = NoId
  BY FreshIdIsFree DEF TreeType
<1>3. ASSUME NEW kind, NEW items
      PROVE  DOMAIN AddChild(t, l, i, kind, items).t.lists = DOMAIN t.lists \cup {FreshId(t)}
  <2> DEFINE v == Insert(t, NewList(kind, l, items))
             p == Put(t.lists, FreshId(t), NewList(kind, l, items))
  <2>0. DOMAIN p = DOMAIN t.lists \cup {FreshId(t)}
    BY DEF Put
  <2>1. v = [lists |-> p, root |-> t.root, next |-> Following(FreshId(t)), inv |-> t.inv]
    <3> DEFINE n == Following(FreshId(t))
    <3>1. v = [t EXCEPT !.lists = p, !.next = n]
      BY DEF Insert
    <3> HIDE DEF p, v, n
    <3>2. v = [lists |-> p, root |-> t.root, next |-> n, inv |-> t.inv]
      BY <3>1 DEF TreeType, IsTree
    <3> QED
      BY <3>2 DEF n
  <2> HIDE DEF p
  <2>2. DOMAIN v.lists = DOMAIN t.lists \cup {FreshId(t)} /\ IsTree(v)
    BY <2>0, <2>1 DEF IsTree
  <2> HIDE DEF v
  <2>3. DOMAIN SetChildList(v, l, i, FreshId(t)).lists = DOMAIN v.lists
    BY <2>2 DEF SetChildList, IsTree
  <2> QED
    BY <2>2, <2>3 DEF AddChild, Entry, v
<1>4. DOMAIN Insert(t, NewList("dir", l, <<>>)).lists = DOMAIN t.lists \cup {FreshId(t)}
  BY DEF Insert, TreeType, IsTree, Put
<1>5. e.t = t \/ DOMAIN e.t.lists = DOMAIN t.lists \cup {FreshId(t)}
  <2>1. e.t = t \/ (e = EnterNewChild(t, fs, l, i) /\ l \in DOMAIN t.lists)
    BY DEF EnterChild, Entry, Cached
  <2> SUFFICES ASSUME e = EnterNewChild(t, fs, l, i), l \in DOMAIN t.lists
               PROVE  e.t = t \/ DOMAIN e.t.lists = DOMAIN t.lists \cup {FreshId(t)}
    BY <2>1
  <2>2. CASE t.lists[l].kind = "devices"
    BY <1>3, <2>2 DEF EnterNewChild, EnterDevice, IsDirectory
  <2>3. CASE t.lists[l].kind # "devices" /\ IsDirectory(t, l, i)
    <3>1. e = AttachNewDirlist(t, fs, l, i, DeviceOf(t, OnWay(t, l, i)), FsPath(t, OnWay(t, l, i)))
      BY <2>3 DEF EnterNewChild
    <3> QED
      BY <1>3, <1>4, <3>1 DEF AttachNewDirlist, Entry
  <2>4. CASE t.lists[l].kind # "devices" /\ ~IsDirectory(t, l, i)
    BY <2>4 DEF EnterNewChild, Entry
  <2> QED
    BY <2>2, <2>3, <2>4
<1> QED
  BY <1>5 DEF Full

(* Tree u has grown from t; the lists S of u can be reached. *)
Ahead(t, pl, fs, X, u, S) ==
    \/ Full(u)
    \/ \E pl2 : Proper(u, pl2, fs, X) /\ Grown(t, pl, u, pl2) /\ S \subseteq Reached(u)

(* A walk that has reached some lists has reached fewer. *)
LEMMA AheadLess ==
    ASSUME NEW t, NEW pl, NEW fs, NEW X, NEW u, NEW S, Ahead(t, pl, fs, X, u, S), NEW R, R \subseteq S
    PROVE  Ahead(t, pl, fs, X, u, R)
  BY DEF Ahead

(* The list of devices is always reached. *)
LEMMA AheadRoot ==
    ASSUME NEW t, NEW pl, NEW fs, NEW X, NEW u, NEW S, Ahead(t, pl, fs, X, u, S)
    PROVE  Ahead(t, pl, fs, X, u, S \cup {t.root})
<1>1. ASSUME NEW pl2, Proper(u, pl2, fs, X), Grown(t, pl, u, pl2) PROVE t.root \in Reached(u)
  <2>1. TreeType(u) /\ u.root = t.root
    BY <1>1 DEF Proper, Rich, Sound, Grown
  <2> QED
    BY <2>1, RootReached
<1> QED
  BY <1>1 DEF Ahead

(* Entering a list gets a walk ahead. *)
LEMMA EnterAhead ==
    ASSUME NEW t, NEW pl, NEW fs, MountsType(fs), NEW X, NEW u, TreeType(u), NEW S,
           Ahead(t, pl, fs, X, u, S), NEW l, NEW i
    PROVE  LET e == EnterChild(u, fs, l, i)
           IN Ahead(t, pl, fs, X, e.t, S \cup ({e.id} \ {NoId}))
<1> DEFINE e == EnterChild(u, fs, l, i)
<1>1. CASE Full(e.t)
  BY <1>1 DEF Ahead
<1>2. CASE ~Full(e.t)
  <2>1. ~Full(u)
    BY <1>2, StaysFull
  <2>2. PICK pl2 : Proper(u, pl2, fs, X) /\ Grown(t, pl, u, pl2) /\ S \subseteq Reached(u)
    BY <2>1 DEF Ahead
  <2>3. PICK pl3 : /\ Proper(e.t, pl3, fs, X)
                   /\ Grown(u, pl2, e.t, pl3)
                   /\ e.id # NoId => /\ l \in Reached(u)
                                     /\ i \in DOMAIN u.lists[l].items
                                     /\ Entering(u, pl2, l, i, e.t, pl3, e.id)
    BY <1>2, <2>1, <2>2, EnterChildGrows
  <2> HIDE DEF e
  <2>4. Grown(t, pl, e.t, pl3)
    BY <2>2, <2>3, GrownOn
  <2>5. S \cup ({e.id} \ {NoId}) \subseteq Reached(e.t)
    BY <2>2, <2>3 DEF Grown, Entering
  <2>6. Ahead(t, pl, fs, X, e.t, S \cup ({e.id} \ {NoId}))
    BY <2>3, <2>4, <2>5 DEF Ahead
  <2> QED
    BY <2>6 DEF e
<1> QED
  BY <1>1, <1>2

(* The lists that a walk knows of *)
Known(w) == {w.dir, w.cand.list, w.res.list, w.ref.list} \ {NoId}

WalkAhead(t, pl, fs, X, w) == WalkInv(w) /\ Ahead(t, pl, fs, X, w.t, Known(w))

(* So does a step of a walk. *)
LEMMA WalkEnters ==
    ASSUME NEW t, NEW pl, NEW fs, MountsType(fs), NEW X, NEW w, WalkAhead(t, pl, fs, X, w),
           NEW l, NEW i
    PROVE  LET e == EnterChild(w.t, fs, l, i)
           IN TreeInv(e.t) /\ Ahead(t, pl, fs, X, e.t, Known(w) \cup ({e.id} \ {NoId}))
<1>1. TreeInv(w.t) /\ TreeType(w.t)
  BY DEF WalkAhead, WalkInv, TreeInv
<1> QED
  BY <1>1, EnterAhead, EnterChildInv DEF WalkAhead

(* One component of a path *)
LEMMA FollowItemAhead ==
    ASSUME NEW t, NEW pl, NEW fs, MountsType(fs), NEW X, NEW w, WalkAhead(t, pl, fs, X, w),
           NEW i, NEW isLast, NEW how
    PROVE  WalkAhead(t, pl, fs, X, FollowItem(fs, w, i, isLast, how))
<1> DEFINE linked == [w EXCEPT !.link = w.cand]
           next   == EnterChild(w.t, fs, w.dir, i)
           r      == FollowItem(fs, w, i, isLast, how)
<1>0. /\ WalkInv(w) /\ WalkInv(r)
      /\ linked.t = w.t /\ linked.dir = w.dir /\ linked.cand = w.cand /\ linked.res = w.res
      /\ linked.ref = w.ref
      /\ linked = [t |-> linked.t, dir |-> linked.dir, cand |-> linked.cand, link |-> linked.link,
                   res |-> linked.res, ref |-> linked.ref, steps |-> linked.steps, err |-> linked.err]
  BY FollowItemInv DEF WalkAhead, WalkInv
<1>1. /\ Ahead(t, pl, fs, X, w.t, Known(w))
      /\ Ahead(t, pl, fs, X, next.t, Known(w) \cup ({next.id} \ {NoId}))
  BY WalkEnters DEF WalkAhead
<1>2. \/ r = w
      \/ r = [w EXCEPT !.err = "NOT_FOUND"]
      \/ r = Descend(linked, Link(w.dir, i), next)
      \/ r = [linked EXCEPT !.err = "NOT_FOUND"]
      \/ r = [linked EXCEPT !.res = Link(w.dir, i), !.steps = @ + 1,
                            !.err = IF isLast THEN "OK" ELSE "NOT_FOUND"]
  BY DEF FollowItem
<1> SUFFICES WalkAhead(t, pl, fs, X, r)
  OBVIOUS
<1> HIDE DEF linked, next, r
<1>3. CASE r = w \/ r = [w EXCEPT !.err = "NOT_FOUND"] \/ r = [linked EXCEPT !.err = "NOT_FOUND"]
  <2>1. r.t = w.t /\ Known(r) = Known(w)
    BY <1>0, <1>3 DEF Known, WalkInv
  <2> QED
    BY <1>0, <1>1, <2>1 DEF WalkAhead
<1>4. CASE r = Descend(linked, Link(w.dir, i), next)
  <2>1. CASE next.id = NoId
    <3>1. r.t = next.t /\ Known(r) = Known(w)
      BY <1>0, <1>4, <2>1 DEF Known, Descend
    <3> QED
      BY <1>0, <1>1, <3>1, AheadLess DEF WalkAhead
  <2>2. CASE next.id # NoId
    <3>1. r.t = next.t /\ Known(r) \subseteq Known(w) \cup ({next.id} \ {NoId})
      BY <1>0, <1>4, <2>2 DEF Known, Descend, Link
    <3> QED
      BY <1>0, <1>1, <3>1, AheadLess DEF WalkAhead
  <2> QED
    BY <2>1, <2>2
<1>5. CASE r = [linked EXCEPT !.res = Link(w.dir, i), !.steps = @ + 1,
                              !.err = IF isLast THEN "OK" ELSE "NOT_FOUND"]
  <2>1. r.t = w.t /\ Known(r) \subseteq Known(w)
    BY <1>0, <1>5 DEF Known, Link
  <2> QED
    BY <1>0, <1>1, <2>1, AheadLess DEF WalkAhead
<1> QED
  BY <1>2, <1>3, <1>4, <1>5

(* follow_path() is a walk, one component after the other. *)
PathSteps(walk, fs, w, path, how) ==
    /\ FollowPath(fs, w, path, how) = walk[Len(path)]
    /\ walk[0] = w
    /\ \A n \in 1..Len(path) :
          walk[n] = FollowComponent(fs, walk[n - 1], path[n], n = Len(path), how)

(* The steps are there. *)
LEMMA FollowPathSteps ==
    ASSUME NEW fs, NEW w, NEW path \in Seq(Nat), NEW how, w.err = "OK", w.dir # NoId
    PROVE  \E walk : PathSteps(walk, fs, w, path, how)
<1> DEFINE Step(a, n) == FollowComponent(fs, a, path[n], n = Len(path), how)
           walk[n \in 0..Len(path)] == IF n = 0 THEN w ELSE Step(walk[n - 1], n)
           IsWalk(f, m) == f = [n \in 0..m |-> IF n = 0 THEN w ELSE Step(f[n - 1], n)]
           M == {m \in Nat : \E f : IsWalk(f, m)}
<1>1. FollowPath(fs, w, path, how) = walk[Len(path)]
  BY DEF FollowPath
<1> HIDE DEF Step
<1>2. Len(path) \in M
  <2>1. 0 \in M
    <3>1. IsWalk([n \in 0..0 |-> w], 0)
      OBVIOUS
    <3> QED
      BY <3>1
  <2>2. ASSUME NEW m \in Nat, m \in M PROVE m + 1 \in M
    <3>1. PICK f : IsWalk(f, m)
      BY <2>2
    <3> DEFINE g == [n \in 0..m + 1 |-> IF n <= m THEN f[n] ELSE Step(f[m], m + 1)]
    <3>2. \A n \in 0..m : f[n] = IF n = 0 THEN w ELSE Step(f[n - 1], n)
      BY <3>1
    <3>3. ASSUME NEW n \in 0..m + 1 PROVE g[n] = IF n = 0 THEN w ELSE Step(g[n - 1], n)
      <4>1. CASE n = 0
        BY <3>2, <4>1
      <4>2. CASE n \in 1..m
        <5>1. n \in 0..m /\ n - 1 \in 0..m /\ n # 0
          BY <4>2
        <5> QED
          BY <3>2, <5>1
      <4>3. CASE n = m + 1
        BY <4>3
      <4> QED
        BY <4>1, <4>2, <4>3
    <3>4. IsWalk(g, m + 1)
      BY <3>3
    <3> HIDE DEF g, IsWalk
    <3> QED
      BY <3>4
  <2> HIDE DEF M
  <2>3. Nat \subseteq M
    BY <2>1, <2>2, UpFromZero
  <2> QED
    BY <2>3
<1>3. walk = [n \in 0..Len(path) |-> IF n = 0 THEN w ELSE Step(walk[n - 1], n)]
  BY <1>2
<1> HIDE DEF walk
<1>4. \A n \in 0..Len(path) : walk[n] = IF n = 0 THEN w ELSE Step(walk[n - 1], n)
  BY <1>3
<1>5. walk[0] = w /\ \A n \in 1..Len(path) : walk[n] = Step(walk[n - 1], n)
  BY <1>4
<1>6. \A n \in 1..Len(path) :
         walk[n] = FollowComponent(fs, walk[n - 1], path[n], n = Len(path), how)
  BY <1>5 DEF Step
<1>7. PathSteps(walk, fs, w, path, how)
  BY <1>1, <1>5, <1>6 DEF PathSteps
<1> QED
  BY <1>7

(* follow_path() *)
LEMMA FollowPathAhead ==
    ASSUME NEW t, NEW pl, NEW fs, MountsType(fs), NEW X, NEW w, WalkAhead(t, pl, fs, X, w),
           NEW path \in Seq(Nat), NEW how
    PROVE  WalkAhead(t, pl, fs, X, FollowPath(fs, w, path, how))
<1>1. CASE w.err # "OK"
  BY <1>1 DEF FollowPath
<1>2. CASE w.err = "OK" /\ w.dir = NoId
  <2> DEFINE err == IF path = <<>> THEN "OK" ELSE "INVALID_STRBO_URL"
             r   == [w EXCEPT !.err = err]
  <2>1. FollowPath(fs, w, path, how) = r
    BY <1>2 DEF FollowPath
  <2> HIDE DEF err
  <2>2. WalkInv(w)
    BY DEF WalkAhead
  <2>3. WalkInv(r) /\ r.t = w.t /\ Known(r) = Known(w)
    BY <2>2 DEF WalkInv, Known
  <2> HIDE DEF r
  <2> QED
    BY <2>1, <2>3 DEF WalkAhead
<1>3. CASE w.err = "OK" /\ w.dir # NoId
  <2>0. PICK walk : PathSteps(walk, fs, w, path, how)
    BY <1>3, FollowPathSteps
  <2>1. /\ FollowPath(fs, w, path, how) = walk[Len(path)]
        /\ walk[0] = w
        /\ \A n \in 1..Len(path) :
              walk[n] = FollowComponent(fs, walk[n - 1], path[n], n = Len(path), how)
    BY <2>0 DEF PathSteps
  <2> DEFINE S == {n \in Nat : n <= Len(path) => WalkAhead(t, pl, fs, X, walk[n])}
  <2>2. 0 \in S
    BY <2>1
  <2>3. ASSUME NEW n \in Nat, n \in S PROVE n + 1 \in S
    <3> SUFFICES ASSUME n + 1 <= Len(path) PROVE WalkAhead(t, pl, fs, X, walk[n + 1])
      OBVIOUS
    <3>1. WalkAhead(t, pl, fs, X, walk[n]) /\ n + 1 \in 1..Len(path) /\ (n + 1) - 1 = n
      BY <2>3
    <3>2. walk[n + 1] = FollowComponent(fs, walk[n], path[n + 1], n + 1 = Len(path), how)
      BY <2>1, <3>1
    <3> DEFINE isLast == n + 1 = Len(path)
               i      == Search(walk[n].t, walk[n].dir, path[n + 1], how.pos, how.auto)
    <3>3. walk[n + 1] = FollowItem(fs, walk[n], i, isLast, how)
      BY <3>2 DEF FollowComponent
    <3> HIDE DEF isLast, i
    <3> QED
      BY <3>1, <3>3, FollowItemAhead
  <2> HIDE DEF S
  <2>4. Nat \subseteq S
    BY <2>2, <2>3, UpFromZero
  <2>5. WalkAhead(t, pl, fs, X, walk[Len(path)])
    BY <2>4 DEF S
  <2> QED
    BY <2>1, <2>5
<1> QED
  BY <1>1, <1>2, <1>3

(* enter_volume() *)
LEMMA EnterVolumeAhead ==
    ASSUME NEW t, NEW pl, NEW fs, MountsType(fs), NEW X, Proper(t, pl, fs, X), NEW dev, NEW vol
    PROVE  WalkAhead(t, pl, fs, X, EnterVolume(t, fs, dev, vol))
<1> DEFINE r == EnterVolume(t, fs, dev, vol)
           d == DeviceByName(t, dev)
<1>1. TreeInv(t) /\ TreeType(t)
  BY DEF Proper, Rich, TreeInv, Sound
<1>2. WalkInv(r)
  BY <1>1, EnterVolumeInv
<1>3. Ahead(t, pl, fs, X, t, {})
  BY GrownSame DEF Ahead
<1>4. CASE dev = Empty \/ d = 0
  <2>1. r = [Start(t) EXCEPT !.err = "INTERNAL"] \/ r = [Start(t) EXCEPT !.err = "NOT_FOUND"]
    BY <1>4 DEF EnterVolume
  <2>2. r.t = t /\ Known(r) = {}
    BY <2>1 DEF Start, Known, NoLink, Link
  <2> QED
    BY <1>2, <1>3, <2>2 DEF WalkAhead
<1>5. CASE dev # Empty /\ d # 0
  <2> DEFINE vols == EnterChild(t, fs, t.root, d)
             w    == [Start(vols.t) EXCEPT !.cand = Link(t.root, d)]
             v    == IF vol = Empty THEN 0 ELSE VolumeByName(w.t, vols.id, vol)
             top  == EnterChild(w.t, fs, vols.id, v)
             A    == {t.root} \cup ({vols.id} \ {NoId})
  <2>1. r = AtDevice(fs, w, vols.id, vol)
    BY <1>5 DEF EnterVolume, InDevice
  <2>2. /\ w.t = vols.t /\ w.dir = NoId /\ w.cand = Link(t.root, d) /\ w.res = NoLink /\ w.ref = NoLink
        /\ w = [t |-> w.t, dir |-> w.dir, cand |-> w.cand, link |-> w.link,
                res |-> w.res, ref |-> w.ref, steps |-> w.steps, err |-> w.err]
    BY DEF Start
  <2>3. TreeInv(vols.t) /\ TreeType(vols.t)
    BY <1>1, EnterChildInv DEF TreeInv
  <2>4. Ahead(t, pl, fs, X, vols.t, A)
    <3>1. Ahead(t, pl, fs, X, vols.t, {} \cup ({vols.id} \ {NoId}))
      BY <1>1, <1>3, EnterAhead
    <3> HIDE DEF vols
    <3>2. Ahead(t, pl, fs, X, vols.t, ({} \cup ({vols.id} \ {NoId})) \cup {t.root})
      BY <3>1, AheadRoot
    <3> QED
      BY <3>2, AheadLess
  <2>5. r = IF v = 0 THEN [w EXCEPT !.res = w.cand,
                                    !.err = IF vol = Empty THEN "OK" ELSE "NOT_FOUND"]
            ELSE AtVolume(w, Link(vols.id, v), top)
    BY <2>1 DEF AtDevice
  <2> SUFFICES WalkAhead(t, pl, fs, X, r)
    OBVIOUS
  <2> HIDE DEF vols, w, v, r, d
  <2>6. Ahead(t, pl, fs, X, top.t, A \cup ({top.id} \ {NoId}))
    BY <2>2, <2>3, <2>4, EnterAhead
  <2> HIDE DEF top
  <2>7. CASE v = 0
    <3>1. r.t = vols.t /\ Known(r) \subseteq A
      BY <2>2, <2>5, <2>7 DEF Known, Link, NoLink
    <3> QED
      BY <1>2, <2>4, <3>1, AheadLess DEF WalkAhead
  <2>8. CASE v # 0
    <3>1. r = AtVolume(w, Link(vols.id, v), top)
      BY <2>5, <2>8
    <3>2. r.t = top.t /\ Known(r) \subseteq A \cup ({top.id} \ {NoId})
      <4>1. CASE top.id = NoId
        <5>1. r = [w EXCEPT !.t = top.t, !.err = top.err]
          BY <3>1, <4>1 DEF AtVolume
        <5> QED
          BY <2>2, <5>1 DEF Known, Link, NoLink
      <4>2. CASE top.id # NoId
        <5> DEFINE here == Link(vols.id, v)
        <5>1. r = [w EXCEPT !.t = top.t, !.dir = top.id, !.link = w.cand, !.cand = here, !.res = here]
          BY <3>1, <4>2 DEF AtVolume
        <5> QED
          BY <2>2, <5>1 DEF Known, Link, NoLink
      <4> QED
        BY <4>1, <4>2
    <3> QED
      BY <1>2, <2>6, <3>2, AheadLess DEF WalkAhead
  <2> QED
    BY <2>7, <2>8
<1> QED
  BY <1>4, <1>5

(* Realizing a location *)
LEMMA RealizeAhead ==
    ASSUME NEW t, NEW pl, NEW fs, MountsType(fs), NEW X, Proper(t, pl, fs, X), NEW key \in Keys
    PROVE  WalkAhead(t, pl, fs, X, RealizeLocation(t, fs, key))
<1> DEFINE w == EnterVolume(t, fs, key.dev, key.vol)
<1>1. WalkAhead(t, pl, fs, X, w)
  BY EnterVolumeAhead
<1>2. /\ key.ref \in Seq(Nat) /\ key.item \in Seq(Nat)
      /\ key.scheme \in {"simple", "reference", "trace"}
  BY UsbBrokerAssumption
<1> HIDE DEF w
<1>3. WalkAhead(t, pl, fs, X, RealizeSimple(fs, w, key))
  BY <1>1, <1>2, FollowPathAhead DEF RealizeSimple
<1>4. WalkAhead(t, pl, fs, X, FollowPath(fs, w, key.ref, Reference))
  BY <1>1, <1>2, FollowPathAhead
<1>5. WalkAhead(t, pl, fs, X, RealizeReference(fs, w, key))
  BY <1>2, <1>4, FollowPathAhead DEF RealizeReference
<1>6. WalkAhead(t, pl, fs, X, RealizeTrace(fs, w, key))
  <2> DEFINE r == FollowPath(fs, w, key.ref, Reference)
             s == [r EXCEPT !.ref = r.cand, !.steps = 0]
  <2>1. WalkAhead(t, pl, fs, X, r) /\ WalkInv(r)
    BY <1>4 DEF WalkAhead
  <2> HIDE DEF r
  <2>2. WalkInv(s)
    BY <2>1, Restarted
  <2>3. s.t = r.t /\ Known(s) \subseteq Known(r)
    BY <2>1 DEF Known, WalkInv
  <2> HIDE DEF s
  <2>4. WalkAhead(t, pl, fs, X, s)
    BY <2>1, <2>2, <2>3, AheadLess DEF WalkAhead
  <2>5. WalkAhead(t, pl, fs, X, FollowPath(fs, s, key.item, Anywhere))
    BY <1>2, <2>4, FollowPathAhead
  <2>6. WalkAhead(t, pl, fs, X, FromReference(fs, r, key))
    BY <2>1, <2>5 DEF FromReference, s
  <2> QED
    BY <2>6 DEF RealizeTrace, r
<1>7. WalkAhead(t, pl, fs, X, RealizeInVolume(fs, w, key))
  BY <1>2, <1>3, <1>5, <1>6 DEF RealizeInVolume
<1> QED
  BY <1>7 DEF RealizeLocation, w

-----------------------------------------------------------------------------
(* The list of devices changes. *)

ListsVolume(t, d, v) ==
    \E j \in DOMAIN DeviceItems(t) : DeviceItems(t)[j].dev = d /\ HasVolume(DeviceItems(t)[j].vols, v)

(* List l of t, which a client may know, is list k of u. *)
Kept(t, pl, u, pl2, l, k) == k \in Reached(u) /\ pl2[k] = pl[l] /\ Looks(t, l, u, k)

(* Only items of the list of devices are different in u, and those that    *)
(* link to a list of volumes belong to the same devices.                   *)
DevicesChange(t, u) ==
    /\ u.root = t.root /\ DOMAIN u.lists = DOMAIN t.lists
    /\ \A k \in DOMAIN t.lists \ {t.root} : u.lists[k] = t.lists[k]
    /\ \A j \in DOMAIN DeviceItems(u) : DeviceItems(u)[j].child # NoId =>
          \E k \in DOMAIN DeviceItems(t) : /\ DeviceItems(t)[k].child = DeviceItems(u)[j].child
                                           /\ DeviceItems(t)[k].dev = DeviceItems(u)[j].dev
    /\ \A j \in DOMAIN DeviceItems(t) : DeviceItems(t)[j].child # NoId =>
          \E k \in DOMAIN DeviceItems(u) : DeviceItems(u)[k].child = DeviceItems(t)[j].child

(* Only items of list l are different in u, and the links are the same.    *)
ItemsChange(t, u, l) ==
    /\ u.root = t.root /\ DOMAIN u.lists = DOMAIN t.lists
    /\ \A k \in DOMAIN t.lists \ {l} : u.lists[k] = t.lists[k]
    /\ \A j \in DOMAIN u.lists[l].items : u.lists[l].items[j].child # NoId =>
          \E k \in DOMAIN t.lists[l].items :
             /\ t.lists[l].items[k].child = u.lists[l].items[j].child
             /\ ShowsAt(t, l, k) = ShowsAt(u, l, j)
    /\ \A j \in DOMAIN t.lists[l].items : t.lists[l].items[j].child # NoId =>
          \E k \in DOMAIN u.lists[l].items :
             u.lists[l].items[k].child = t.lists[l].items[j].child

(* All lists are where they were, with the same links. *)
LEMMA ItemsShaped ==
    ASSUME NEW t, NEW pl, Sound(t), Shaped(t, pl), NEW u, KindItems(u),
           NEW l \in Reached(t), ItemsChange(t, u, l)
    PROVE  Shaped(u, pl) /\ Reached(u) = Reached(t)
<1>1. NoId \notin DOMAIN t.lists
  BY DEF Sound, IdsInUse
<1>2. /\ u.root = t.root /\ DOMAIN u.lists = DOMAIN t.lists
      /\ \A k \in DOMAIN t.lists : k # l => u.lists[k] = t.lists[k]
  BY DEF ItemsChange
<1>3. ASSUME NEW p \in DOMAIN u.lists, NEW i \in DOMAIN u.lists[p].items,
             u.lists[p].items[i].child # NoId
      PROVE  \E j \in DOMAIN t.lists[p].items :
                /\ t.lists[p].items[j].child = u.lists[p].items[i].child
                /\ ShowsAt(t, p, j) = ShowsAt(u, p, i)
  <2>1. CASE p = l
    BY <1>3, <2>1 DEF ItemsChange
  <2>2. CASE p # l
    BY <1>2, <1>3, <2>2 DEF ShowsAt
  <2> QED
    BY <2>1, <2>2
<1>4. ASSUME NEW p \in DOMAIN t.lists, NEW i \in DOMAIN t.lists[p].items,
             t.lists[p].items[i].child # NoId
      PROVE  \E j \in DOMAIN u.lists[p].items : u.lists[p].items[j].child = t.lists[p].items[i].child
  <2>1. CASE p = l
    BY <1>4, <2>1 DEF ItemsChange
  <2>2. CASE p # l
    BY <1>2, <1>4, <2>2
  <2> QED
    BY <2>1, <2>2
<1>5. Reached(u) = Reached(t)
  <2>1. ASSUME NEW c, c # NoId PROVE IsLinked(u, c) <=> IsLinked(t, c)
    <3>1. ASSUME IsLinked(u, c) PROVE IsLinked(t, c)
      <4>1. PICK p \in DOMAIN u.lists : \E j \in DOMAIN u.lists[p].items : u.lists[p].items[j].child = c
        BY <3>1 DEF IsLinked
      <4> QED
        BY <1>2, <1>3, <2>1, <4>1 DEF IsLinked
    <3>2. ASSUME IsLinked(t, c) PROVE IsLinked(u, c)
      <4>1. PICK p \in DOMAIN t.lists : \E j \in DOMAIN t.lists[p].items : t.lists[p].items[j].child = c
        BY <3>2 DEF IsLinked
      <4> QED
        BY <1>2, <1>4, <2>1, <4>1 DEF IsLinked
    <3> QED
      BY <3>1, <3>2
  <2> QED
    BY <1>1, <1>2, <2>1 DEF Reached
<1>6. Placed(u, pl)
  <2>1. pl \in [DOMAIN u.lists -> Seq(PlaceNames)] /\ pl[u.root] = <<>>
    BY <1>2 DEF Shaped, Placed
  <2>2. ASSUME NEW p \in DOMAIN u.lists, NEW i \in DOMAIN u.lists[p].items,
               u.lists[p].items[i].child # NoId
        PROVE  pl[u.lists[p].items[i].child] = Append(pl[p], ShowsAt(u, p, i))
    <3>1. PICK j \in DOMAIN t.lists[p].items :
                /\ t.lists[p].items[j].child = u.lists[p].items[i].child
                /\ ShowsAt(t, p, j) = ShowsAt(u, p, i)
      BY <1>3, <2>2
    <3>2. pl[t.lists[p].items[j].child] = Append(pl[p], ShowsAt(t, p, j))
      <4>1. p \in DOMAIN t.lists /\ t.lists[p].items[j].child # NoId
        BY <1>2, <2>2, <3>1
      <4> QED
        BY <4>1, Zenon DEF Shaped, Placed
    <3> QED
      BY <3>1, <3>2, Zenon
  <2> QED
    BY <2>1, <2>2 DEF Placed
<1>7. StraysEmpty(u)
  BY <1>2, <1>5 DEF StraysEmpty, Shaped
<1> QED
  BY <1>5, <1>6, <1>7 DEF Shaped

(* So they are when devices change. *)
LEMMA DevicesShaped ==
    ASSUME NEW t, NEW pl, Sound(t), Shaped(t, pl), NEW u, Sound(u), DevicesChange(t, u)
    PROVE  Shaped(u, pl) /\ Reached(u) = Reached(t)
<1>1. /\ t.root \in DOMAIN t.lists /\ t.lists[t.root].kind = "devices"
      /\ u.lists[t.root].kind = "devices"
  BY DEF DevicesChange, Sound, TreeType, RootList
<1>2. /\ u.root = t.root /\ DOMAIN u.lists = DOMAIN t.lists
      /\ \A k \in DOMAIN t.lists : k # t.root => u.lists[k] = t.lists[k]
  BY DEF DevicesChange
<1>3. ItemsChange(t, u, t.root)
  <2>1. ASSUME NEW i \in DOMAIN u.lists[t.root].items, u.lists[t.root].items[i].child # NoId
        PROVE  \E j \in DOMAIN t.lists[t.root].items :
                  /\ t.lists[t.root].items[j].child = u.lists[t.root].items[i].child
                  /\ ShowsAt(t, t.root, j) = ShowsAt(u, t.root, i)
    <3>1. i \in DOMAIN DeviceItems(u) /\ DeviceItems(u)[i].child # NoId
      BY <1>2, <2>1 DEF DeviceItems
    <3>2. PICK k \in DOMAIN DeviceItems(t) : /\ DeviceItems(t)[k].child = DeviceItems(u)[i].child
                                             /\ DeviceItems(t)[k].dev = DeviceItems(u)[i].dev
      BY <3>1 DEF DevicesChange
    <3> QED
      BY <1>1, <1>2, <3>2 DEF DeviceItems, ShowsAt, Shows
  <2>2. \A j \in DOMAIN t.lists[t.root].items : t.lists[t.root].items[j].child # NoId =>
           \E k \in DOMAIN u.lists[t.root].items :
              u.lists[t.root].items[k].child = t.lists[t.root].items[j].child
    BY <1>2 DEF DevicesChange, DeviceItems
  <2> QED
    BY <1>2, <2>1, <2>2 DEF ItemsChange
<1>4. KindItems(u)
  <2>1. \A k \in DOMAIN t.lists : k # t.root =>
           /\ t.lists[k].kind = "volumes" => t.lists[k].items \in Seq(VolumeItemSet)
           /\ t.lists[k].kind = "dir" => t.lists[k].items \in Seq(DirItemSet)
    BY DEF Shaped, KindItems
  <2>2. u.lists[t.root].kind # "volumes" /\ u.lists[t.root].kind # "dir"
    BY <1>1
  <2> SUFFICES ASSUME NEW k \in DOMAIN u.lists
               PROVE  /\ u.lists[k].kind = "volumes" => u.lists[k].items \in Seq(VolumeItemSet)
                      /\ u.lists[k].kind = "dir" => u.lists[k].items \in Seq(DirItemSet)
    BY DEF KindItems
  <2>3. CASE k = t.root
    BY <2>2, <2>3
  <2>4. CASE k # t.root
    <3>1. u.lists[k] = t.lists[k] /\ k \in DOMAIN t.lists
      BY <1>2, <2>4
    <3> QED
      BY <2>1, <2>4, <3>1
  <2> QED
    BY <2>3, <2>4
<1>5. t.root \in Reached(t)
  BY <1>1 DEF Reached
<1> QED
  BY <1>3, <1>4, <1>5, ItemsShaped

(* Their directories are as they are stored. *)
LEMMA DevicesStored ==
    ASSUME NEW t, NEW pl, Sound(t), NEW u, Sound(u), DevicesChange(t, u), Reached(u) = Reached(t),
           NEW fs, NEW X, Stored(t, pl, fs, X)
    PROVE  Stored(u, pl, fs, X)
<1>1. u.lists[t.root].kind = "devices"
  BY DEF DevicesChange, Sound, TreeType, RootList
<1>2. ASSUME NEW k \in Reached(u), u.lists[k].kind = "dir"
      PROVE  k # t.root /\ u.lists[k] = t.lists[k] /\ k \in Reached(t)
  BY <1>1, <1>2 DEF DevicesChange, Reached
<1> QED
  BY <1>2 DEF Stored, InPlace

(* Clients see no difference in them. *)
LEMMA DevicesKept ==
    ASSUME NEW t, NEW pl, NEW u, DevicesChange(t, u), Reached(u) = Reached(t)
    PROVE  \A l \in Reached(t) \ {t.root} : Kept(t, pl, u, pl, l, l)
<1> SUFFICES ASSUME NEW l \in Reached(t) \ {t.root} PROVE Kept(t, pl, u, pl, l, l)
  OBVIOUS
<1>1. u.lists[l] = t.lists[l]
  BY DEF DevicesChange, Reached
<1> QED
  BY <1>1 DEF Kept, Looks, ShowsAt

(* A volume list that was there before shows the volumes of its device if  *)
(* those are the same.                                                     *)
LEMMA DevicesVolumes ==
    ASSUME NEW t, Sound(t), VolumesListed(t), NEW u, DevicesChange(t, u),
           \A j \in DOMAIN DeviceItems(u) : DeviceItems(u)[j].child # NoId =>
              \E k \in DOMAIN DeviceItems(t) : /\ DeviceItems(t)[k].child = DeviceItems(u)[j].child
                                               /\ DeviceItems(t)[k].dev = DeviceItems(u)[j].dev
                                               /\ DeviceItems(t)[k].vols = DeviceItems(u)[j].vols
    PROVE  VolumesListed(u)
<1> SUFFICES ASSUME NEW j \in DOMAIN DeviceItems(u), DeviceItems(u)[j].child # NoId
             PROVE  LET item == DeviceItems(u)[j]
                    IN \A n \in DOMAIN u.lists[item.child].items :
                          /\ u.lists[item.child].items[n].dev = item.dev
                          /\ u.lists[item.child].items[n].vol = item.vols[n]
  BY DEF VolumesListed
<1>1. PICK k \in DOMAIN DeviceItems(t) : /\ DeviceItems(t)[k].child = DeviceItems(u)[j].child
                                         /\ DeviceItems(t)[k].dev = DeviceItems(u)[j].dev
                                         /\ DeviceItems(t)[k].vols = DeviceItems(u)[j].vols
  OBVIOUS
<1>2. DeviceItems(t)[k].child \in DOMAIN t.lists \ {t.root}
  BY <1>1, DeviceLinks
<1>3. u.lists[DeviceItems(t)[k].child] = t.lists[DeviceItems(t)[k].child]
  BY <1>2 DEF DevicesChange
<1> QED
  BY <1>1, <1>2, <1>3 DEF VolumesListed

(* add_to_list() for a device that is not listed *)
AddedDevice(t, u, d) ==
    /\ u.inv = t.inv /\ u.root = t.root /\ DOMAIN u.lists = DOMAIN t.lists
    /\ \A e : Lists(u, e) <=> Lists(t, e) \/ e = d
    /\ \A e, v : ListsVolume(u, e, v) <=> ListsVolume(t, e, v)

(* The tree is right with the new device. *)
LEMMA AddToListProper ==
    ASSUME NEW t, NEW pl, NEW fs, NEW X, Proper(t, pl, fs, X), NEW d \in Devices, ~Lists(t, d)
    PROVE  LET u == AddToList(t, d)
           IN /\ Proper(u, pl, fs, X)
              /\ AddedDevice(t, u, d)
              /\ \A l \in Reached(t) \ {t.root} : Kept(t, pl, u, pl, l, l)
<1> DEFINE new   == DeviceItem(d)
           old   == DeviceItems(t)
           items == Append(old, new)
           u     == [t EXCEPT !.lists[t.root].items = items]
           n     == Len(old)
<1>1. Sound(t) /\ Matched(t) /\ Shaped(t, pl) /\ Listed(t) /\ VolumesListed(t) /\ Stored(t, pl, fs, X)
  BY DEF Proper, Rich
<1>2. old \in Seq(DeviceItemSet) /\ t.root \in DOMAIN t.lists
  BY <1>1, DeviceItemsType
<1>3. new \in DeviceItemSet /\ new.child = NoId /\ new.dev = d /\ new.vols = <<>>
  <2>1. <<>> \in Seq(Nat)
    OBVIOUS
  <2> QED
    BY <2>1, MaxIdIsNat DEF DeviceItem, DeviceItemSet
<1>4. AddToList(t, d) = u
  BY DEF AddToList, DeviceItems
<1>5. Sound(u) /\ Matched(u)
  <2>1. Sound(AddToList(t, d)) /\ Matched(AddToList(t, d))
    BY <1>1, AddToListInv
  <2> HIDE DEF u
  <2> QED
    BY <1>4, <2>1
<1> HIDE DEF new
<1>6. /\ items \in Seq(DeviceItemSet)
      /\ n \in Nat /\ DOMAIN old = 1..n /\ DOMAIN items = 1..n + 1
      /\ \A i \in 1..n : items[i] = old[i]
      /\ items[n + 1] = new
  <2> HIDE DEF DeviceItemSet, old
  <2> QED
    BY <1>2, <1>3, AppendTo
<1> HIDE DEF items, n
<1>7. \A i \in DOMAIN items : i # n + 1 => i \in DOMAIN old /\ items[i] = old[i]
  BY <1>6
<1>8. ASSUME NEW i \in DOMAIN items, items[i].child # NoId
      PROVE  /\ \E k \in DOMAIN DeviceItems(t) : DeviceItems(t)[k].child = items[i].child
             /\ \A j \in DOMAIN items : items[j].child = items[i].child => j = i
  <2>1. i \in DOMAIN old /\ items[i] = old[i]
    BY <1>3, <1>6, <1>7, <1>8
  <2>2. ASSUME NEW j \in DOMAIN items, items[j].child = items[i].child PROVE j = i
    <3>1. j \in DOMAIN old /\ items[j] = old[j]
      BY <1>3, <1>6, <1>7, <1>8, <2>2
    <3> QED
      BY <1>1, <1>8, <2>1, <2>2, <3>1, DeviceLinks
  <2> QED
    BY <2>1, <2>2
<1>9. /\ u.root = t.root /\ u.inv = t.inv /\ DOMAIN u.lists = DOMAIN t.lists
      /\ \A k \in DOMAIN t.lists \ {t.root} : u.lists[k] = t.lists[k]
      /\ DeviceItems(u) = items
  BY <1>1, <1>6, <1>8, NewDeviceItems
<1> HIDE DEF u
<1>10. \A j \in DOMAIN items : items[j].child # NoId => j \in DOMAIN old /\ items[j] = old[j]
  BY <1>3, <1>6, <1>7
<1>11. \A j \in DOMAIN old : j \in DOMAIN items /\ items[j] = old[j]
  BY <1>6
<1> DEFINE root == t.root
<1>12. DevicesChange(t, u)
  BY <1>9, <1>10, <1>11 DEF DevicesChange
<1>13. Shaped(u, pl) /\ Reached(u) = Reached(t)
  BY <1>1, <1>5, <1>12, DevicesShaped
<1>14. VolumesListed(u)
  BY <1>1, <1>9, <1>10, <1>12, DevicesVolumes
<1>15. Stored(u, pl, fs, X)
  BY <1>1, <1>5, <1>12, <1>13, DevicesStored
<1>16. \A i \in DOMAIN old : old[i].dev # d
  BY DEF Lists
<1>17. Listed(u)
  <2>1. ASSUME NEW i \in DOMAIN items, NEW j \in DOMAIN items, items[i].dev = items[j].dev
        PROVE  i = j
    BY <1>1, <1>3, <1>6, <1>7, <1>16, <2>1 DEF Listed
  <2>2. ASSUME NEW i \in DOMAIN items PROVE Increasing(items[i].vols)
    <3>1. Increasing(<<>>)
      BY DEF Increasing
    <3> QED
      BY <1>1, <1>3, <1>6, <1>7, <3>1 DEF Listed
  <2> QED
    BY <1>9, <2>1, <2>2 DEF Listed
<1>18. AddedDevice(t, u, d)
  <2>1. \A e : Lists(u, e) <=> Lists(t, e) \/ e = d
    <3>0. n + 1 \in DOMAIN items
      BY <1>6
    <3> QED
      BY <1>3, <1>6, <1>7, <1>9, <1>11, <3>0 DEF Lists
  <2>2. \A v : ~HasVolume(new.vols, v)
    BY <1>3 DEF HasVolume, ToSet
  <2>3. \A e, v : ListsVolume(u, e, v) <=> ListsVolume(t, e, v)
    BY <1>6, <1>7, <1>9, <1>11, <2>2 DEF ListsVolume
  <2> QED
    BY <1>9, <2>1, <2>3 DEF AddedDevice
<1>19. \A l \in Reached(t) \ {t.root} : Kept(t, pl, u, pl, l, l)
  BY <1>12, <1>13, DevicesKept
<1>20. Proper(u, pl, fs, X)
  BY <1>5, <1>13, <1>14, <1>15, <1>17 DEF Proper, Rich
<1> QED
  BY <1>4, <1>18, <1>19, <1>20

-----------------------------------------------------------------------------
(* A list gets another ID. *)

(* The ID that list k had *)
Was(k, old, new) == IF k = new THEN old ELSE k

(* Tree u is tree t with list old moved to the ID new. *)
Renamed(t, u, old, new) ==
    /\ old \in DOMAIN t.lists /\ new \notin DOMAIN t.lists \ {old} /\ new # NoId
    /\ DOMAIN u.lists = (DOMAIN t.lists \ {old}) \cup {new}
    /\ u.root = IF t.root = old THEN new ELSE t.root
    /\ \A k \in DOMAIN u.lists :
          LET before == t.lists[Was(k, old, new)]
          IN /\ u.lists[k].kind = before.kind
             /\ DOMAIN u.lists[k].items = DOMAIN before.items
             /\ \A j \in DOMAIN before.items :
                   LET a == before.items[j]
                       b == u.lists[k].items[j]
                   IN /\ Apart(before.kind, a, b)
                      /\ b.child = IF a.child = old THEN new ELSE a.child

(* What the two trees have to do with each other, list by list. *)
LEMMA RenamedLists ==
    ASSUME NEW t, Sound(t), NEW u, NEW old, NEW new, Renamed(t, u, old, new)
    PROVE  /\ old # NoId /\ old \in DOMAIN t.lists
           /\ \A k \in DOMAIN u.lists : Was(k, old, new) \in DOMAIN t.lists
           /\ \A m \in DOMAIN t.lists : \E k \in DOMAIN u.lists :
                 Was(k, old, new) = m /\ k = IF m = old THEN new ELSE m
           /\ Was(u.root, old, new) = t.root
           /\ u.root \in DOMAIN u.lists
           /\ \A m \in DOMAIN t.lists : m # old => Was(m, old, new) = m /\ m \in DOMAIN u.lists
<1>1. t.root \in DOMAIN t.lists /\ NoId \notin DOMAIN t.lists
  BY DEF Sound, TreeType, RootList, IdsInUse
<1>2. /\ old \in DOMAIN t.lists /\ new \notin DOMAIN t.lists \ {old}
      /\ DOMAIN u.lists = (DOMAIN t.lists \ {old}) \cup {new}
      /\ u.root = IF t.root = old THEN new ELSE t.root
  BY DEF Renamed
<1> QED
  BY <1>1, <1>2 DEF Was

(* To a client, a list looks the same under its new ID. *)
LEMMA RenamedLooks ==
    ASSUME NEW t, NEW u, NEW old, NEW new, Renamed(t, u, old, new), NEW k \in DOMAIN u.lists
    PROVE  Looks(t, Was(k, old, new), u, k)
<1> DEFINE m == Was(k, old, new)
<1>1. u.lists[k].kind = t.lists[m].kind /\ DOMAIN u.lists[k].items = DOMAIN t.lists[m].items
  BY DEF Renamed
<1>2. ASSUME NEW j \in DOMAIN t.lists[m].items
      PROVE  /\ ShowsAt(u, k, j) = ShowsAt(t, m, j)
             /\ t.lists[m].kind = "dir" => u.lists[k].items[j].dir = t.lists[m].items[j].dir
  <2>1. Apart(t.lists[m].kind, t.lists[m].items[j], u.lists[k].items[j])
    BY DEF Renamed
  <2> HIDE DEF m
  <2> QED
    BY <1>1, <2>1 DEF Apart, ShowsAt
<1> QED
  BY <1>1, <1>2 DEF Looks

(* The items keep their class. *)
LEMMA RenamedKinds ==
    ASSUME NEW t, NEW u, TreeType(u), NEW old, NEW new, Renamed(t, u, old, new)
    PROVE  KindItems(u)
<1> SUFFICES ASSUME NEW k \in DOMAIN u.lists
             PROVE  /\ u.lists[k].kind = "volumes" => u.lists[k].items \in Seq(VolumeItemSet)
                    /\ u.lists[k].kind = "dir" => u.lists[k].items \in Seq(DirItemSet)
  BY DEF KindItems
<1> DEFINE a  == t.lists[Was(k, old, new)].items
           b  == u.lists[k].items
           kd == t.lists[Was(k, old, new)].kind
<1>2. u.lists[k].kind = kd /\ DOMAIN b = DOMAIN a /\ \A j \in DOMAIN a : Apart(kd, a[j], b[j])
  BY DEF Renamed
<1>3. b \in Seq(ItemSet)
  BY DEF TreeType, ListSet
<1> HIDE DEF a, b, kd
<1>4. kd = "volumes" => \A j \in DOMAIN b : b[j] \in VolumeItemSet
  BY <1>2 DEF Apart
<1>5. kd = "dir" => \A j \in DOMAIN b : b[j] \in DirItemSet
  BY <1>2 DEF Apart
<1>6. kd = "volumes" => b \in Seq(VolumeItemSet)
  BY <1>3, <1>4
<1>7. kd = "dir" => b \in Seq(DirItemSet)
  BY <1>3, <1>5
<1> QED
  BY <1>2, <1>6, <1>7 DEF b

(* The devices stay, and so do links from them, but for the new ID. *)
LEMMA RenamedDevices ==
    ASSUME NEW t, Sound(t), NEW u, NEW old, NEW new, Renamed(t, u, old, new)
    PROVE  /\ DOMAIN DeviceItems(u) = DOMAIN DeviceItems(t)
           /\ \A j \in DOMAIN DeviceItems(t) :
                 /\ DeviceItems(u)[j].dev = DeviceItems(t)[j].dev
                 /\ DeviceItems(u)[j].vols = DeviceItems(t)[j].vols
                 /\ DeviceItems(u)[j].child
                       = IF DeviceItems(t)[j].child = old THEN new ELSE DeviceItems(t)[j].child
<1>1. Was(u.root, old, new) = t.root /\ u.root \in DOMAIN u.lists
  BY RenamedLists
<1>2. t.lists[t.root].kind = "devices"
  BY DEF Sound, TreeType, RootList
<1>3. DOMAIN u.lists[u.root].items = DOMAIN t.lists[t.root].items
  BY <1>1 DEF Renamed
<1>4. ASSUME NEW j \in DOMAIN t.lists[t.root].items
      PROVE  LET a == t.lists[t.root].items[j]
                 b == u.lists[u.root].items[j]
             IN /\ Apart("devices", a, b)
                /\ b.child = IF a.child = old THEN new ELSE a.child
  BY <1>1, <1>2 DEF Renamed
<1> QED
  BY <1>3, <1>4 DEF Apart, DeviceItems

(* Lists of volumes still show the volumes of their devices. *)
LEMMA RenamedVolumes ==
    ASSUME NEW t, Sound(t), VolumesListed(t), NEW u, NEW old, NEW new, Renamed(t, u, old, new)
    PROVE  VolumesListed(u)
<1> SUFFICES ASSUME NEW j \in DOMAIN DeviceItems(u), DeviceItems(u)[j].child # NoId
             PROVE  LET item == DeviceItems(u)[j]
                    IN \A n \in DOMAIN u.lists[item.child].items :
                          /\ u.lists[item.child].items[n].dev = item.dev
                          /\ u.lists[item.child].items[n].vol = item.vols[n]
  BY DEF VolumesListed
<1> DEFINE c == DeviceItems(t)[j].child
           k == DeviceItems(u)[j].child
<1>1. /\ j \in DOMAIN DeviceItems(t)
      /\ DeviceItems(u)[j].dev = DeviceItems(t)[j].dev
      /\ DeviceItems(u)[j].vols = DeviceItems(t)[j].vols
      /\ k = IF c = old THEN new ELSE c
  BY RenamedDevices
<1>2. old # NoId /\ k # NoId
  BY RenamedLists
<1>3. c # NoId
  BY <1>1, <1>2 DEF NoId
<1>4. c \in DOMAIN t.lists /\ t.lists[c].parent = t.root
  BY <1>1, <1>3, DeviceLinks
<1>5. t.lists[c].kind = "volumes"
  BY <1>4 DEF Sound, ParentsRight, IdsInUse, TreeType, RootList
<1>6. \A n \in DOMAIN t.lists[c].items : /\ t.lists[c].items[n].dev = DeviceItems(t)[j].dev
                                         /\ t.lists[c].items[n].vol = DeviceItems(t)[j].vols[n]
  BY <1>1, <1>3 DEF VolumesListed
<1> HIDE DEF c, k
<1>7. Was(k, old, new) = c /\ k \in DOMAIN u.lists
  BY <1>1, <1>4, RenamedLists
<1>8. ASSUME NEW n \in DOMAIN u.lists[k].items
      PROVE  /\ u.lists[k].items[n].dev = DeviceItems(t)[j].dev
             /\ u.lists[k].items[n].vol = DeviceItems(t)[j].vols[n]
  <2>1. n \in DOMAIN t.lists[c].items /\ Apart("volumes", t.lists[c].items[n], u.lists[k].items[n])
    BY <1>5, <1>7 DEF Renamed
  <2> QED
    BY <1>6, <2>1 DEF Apart
<1> QED
  BY <1>1, <1>8 DEF k

(* What a client may know is what it was, but for the new ID. *)
LEMMA RenamedShaped ==
    ASSUME NEW t, NEW pl, Sound(t), Shaped(t, pl), NEW u, Sound(u), NEW old, NEW new,
           Renamed(t, u, old, new)
    PROVE  LET pl2 == [k \in DOMAIN u.lists |-> pl[Was(k, old, new)]]
           IN /\ Shaped(u, pl2)
              /\ \A k \in Reached(u) : Was(k, old, new) \in Reached(t)
              /\ \A k \in DOMAIN u.lists : Was(k, old, new) \in Reached(t) => k \in Reached(u)
<1> DEFINE ren == [k \in DOMAIN u.lists |-> Was(k, old, new)]
<1>1. \A k \in DOMAIN u.lists : ren[k] = Was(k, old, new)
  OBVIOUS
<1> HIDE DEF ren
<1>2. /\ old # NoId /\ old \in DOMAIN t.lists
      /\ \A k \in DOMAIN u.lists : ren[k] \in DOMAIN t.lists
      /\ \A m \in DOMAIN t.lists : \E k \in DOMAIN u.lists :
            ren[k] = m /\ k = IF m = old THEN new ELSE m
      /\ ren[u.root] = t.root
      /\ u.root \in DOMAIN u.lists
      /\ \A m \in DOMAIN t.lists : m # old => ren[m] = m /\ m \in DOMAIN u.lists
  BY <1>1, RenamedLists
<1>3. new \in DOMAIN u.lists /\ ren[new] = old
  <2>1. new \in DOMAIN u.lists
    BY DEF Renamed
  <2> QED
    BY <1>1, <2>1 DEF Was
<1>4. ASSUME NEW k \in DOMAIN u.lists
      PROVE  /\ DOMAIN u.lists[k].items = DOMAIN t.lists[ren[k]].items
             /\ \A j \in DOMAIN t.lists[ren[k]].items :
                   u.lists[k].items[j].child
                      = IF t.lists[ren[k]].items[j].child = old THEN new
                        ELSE t.lists[ren[k]].items[j].child
             /\ \A j \in DOMAIN t.lists[ren[k]].items : ShowsAt(u, k, j) = ShowsAt(t, ren[k], j)
  <2> DEFINE m == Was(k, old, new)
  <2>1. /\ DOMAIN u.lists[k].items = DOMAIN t.lists[m].items
        /\ \A j \in DOMAIN t.lists[m].items :
              u.lists[k].items[j].child
                 = IF t.lists[m].items[j].child = old THEN new ELSE t.lists[m].items[j].child
    BY DEF Renamed
  <2>2. Looks(t, m, u, k)
    BY RenamedLooks
  <2>3. ren[k] = m
    BY <1>1
  <2> HIDE DEF m
  <2> QED
    BY <2>1, <2>2, <2>3 DEF Looks
<1>5. KindItems(u)
  BY RenamedKinds DEF Sound
<1>6. ASSUME NEW k \in DOMAIN u.lists, NEW i \in DOMAIN u.lists[k].items,
             u.lists[k].items[i].child # NoId
      PROVE  \E j \in DOMAIN t.lists[ren[k]].items :
                /\ t.lists[ren[k]].items[j].child = ren[u.lists[k].items[i].child]
                /\ ShowsAt(u, k, i) = ShowsAt(t, ren[k], j)
  <2> DEFINE c == t.lists[ren[k]].items[i].child
  <2>1. /\ i \in DOMAIN t.lists[ren[k]].items /\ ShowsAt(u, k, i) = ShowsAt(t, ren[k], i)
        /\ u.lists[k].items[i].child = IF c = old THEN new ELSE c
    BY <1>4
  <2>2. ren[u.lists[k].items[i].child] = c
    <3>1. CASE c = old
      BY <1>3, <2>1, <3>1
    <3>2. CASE c # old
      <4>1. ren[k] \in DOMAIN t.lists /\ c # NoId
        BY <1>2, <1>6, <2>1, <3>2
      <4>2. c \in DOMAIN t.lists
        BY <2>1, <4>1 DEF Sound, LinksRight, LinkRight
      <4> HIDE DEF c
      <4> QED
        BY <1>2, <2>1, <3>2, <4>2
    <3> QED
      BY <3>1, <3>2
  <2> QED
    BY <2>1, <2>2
<1>7. ASSUME NEW k \in DOMAIN u.lists, ren[k] \in Reached(t) PROVE k \in Reached(u)
  <2>1. CASE ren[k] = t.root
    <3>1. k = u.root
      BY <1>1, <1>2, <2>1 DEF Renamed, Was
    <3> QED
      BY <3>1 DEF Reached
  <2>2. CASE IsLinked(t, ren[k])
    <3>1. PICK p \in DOMAIN t.lists : \E j \in DOMAIN t.lists[p].items : t.lists[p].items[j].child = ren[k]
      BY <2>2 DEF IsLinked
    <3>2. PICK j \in DOMAIN t.lists[p].items : t.lists[p].items[j].child = ren[k]
      BY <3>1
    <3>3. PICK q \in DOMAIN u.lists : ren[q] = p
      BY <1>2
    <3>4. j \in DOMAIN u.lists[q].items
      BY <1>4, <3>2, <3>3
    <3>5. u.lists[q].items[j].child = IF ren[k] = old THEN new ELSE ren[k]
      BY <1>4, <3>2, <3>3
    <3>6. k = IF ren[k] = old THEN new ELSE ren[k]
      BY <1>1, <1>2 DEF Was, Renamed
    <3>7. u.lists[q].items[j].child = k
      BY <3>5, <3>6
    <3> QED
      BY <3>3, <3>4, <3>7 DEF Reached, IsLinked
  <2> QED
    BY <1>7, <2>1, <2>2 DEF Reached
<1>8. ASSUME NEW k \in DOMAIN u.lists, u.lists[k].items # <<>> PROVE ren[k] \in Reached(t)
  <2>1. u.lists[k].items \in Seq(ItemSet)
    BY DEF Sound, TreeType, ListSet
  <2>2. DOMAIN u.lists[k].items # {}
    <3>1. \A s \in Seq(ItemSet) : DOMAIN s = {} => s = <<>>
      OBVIOUS
    <3> QED
      BY <1>8, <2>1, <3>1
  <2>3. t.lists[ren[k]].items # <<>>
    BY <1>4, <2>2
  <2> QED
    BY <1>2, <2>3 DEF Shaped, StraysEmpty
<1> DEFINE pl1 == [k \in DOMAIN u.lists |-> pl[ren[k]]]
           pl2 == [k \in DOMAIN u.lists |-> pl[Was(k, old, new)]]
<1>9. Shaped(u, pl1) /\ \A k \in Reached(u) : ren[k] \in Reached(t)
  BY <1>2, <1>5, <1>6, <1>7, <1>8, Relabel
<1>10. pl1 = pl2
  BY <1>1
<1>11. Reached(u) \subseteq DOMAIN u.lists
  BY DEF Reached
<1> QED
  BY <1>1, <1>7, <1>9, <1>10, <1>11

(* What a client has to be told, and all else stays as it is. *)
IsRenaming(t, pl, u, pl2, old, new) ==
    /\ \A l \in Reached(t) \ {old} : Kept(t, pl, u, pl2, l, l)
    /\ old \in Reached(t) => Kept(t, pl, u, pl2, old, new)
    /\ \A e : Lists(u, e) <=> Lists(t, e)
    /\ \A e, v : ListsVolume(u, e, v) <=> ListsVolume(t, e, v)

(* A right tree is right under other IDs. *)
LEMMA RenamedProper ==
    ASSUME NEW t, NEW pl, NEW fs, NEW X, Proper(t, pl, fs, X), NEW u, Sound(u), Matched(u),
           NEW old, NEW new, Renamed(t, u, old, new)
    PROVE  \E pl2 : Proper(u, pl2, fs, X) /\ IsRenaming(t, pl, u, pl2, old, new)
<1>1. Sound(t) /\ Shaped(t, pl) /\ Listed(t) /\ VolumesListed(t) /\ Stored(t, pl, fs, X)
  BY DEF Proper, Rich
<1> DEFINE pl2 == [k \in DOMAIN u.lists |-> pl[Was(k, old, new)]]
           ren == [k \in DOMAIN u.lists |-> Was(k, old, new)]
<1>2. /\ Shaped(u, pl2)
      /\ \A k \in Reached(u) : Was(k, old, new) \in Reached(t)
      /\ \A k \in DOMAIN u.lists : Was(k, old, new) \in Reached(t) => k \in Reached(u)
  BY <1>1, RenamedShaped
<1>3. \A k \in DOMAIN u.lists : ren[k] = Was(k, old, new) /\ pl2[k] = pl[Was(k, old, new)]
  OBVIOUS
<1> HIDE DEF pl2, ren
<1>4. VolumesListed(u)
  BY <1>1, RenamedVolumes
<1>5. /\ DOMAIN DeviceItems(u) = DOMAIN DeviceItems(t)
      /\ \A j \in DOMAIN DeviceItems(t) : /\ DeviceItems(u)[j].dev = DeviceItems(t)[j].dev
                                          /\ DeviceItems(u)[j].vols = DeviceItems(t)[j].vols
  BY <1>1, RenamedDevices
<1>6. Listed(u)
  BY <1>1, <1>5 DEF Listed
<1>7. Reached(u) \subseteq DOMAIN u.lists
  BY DEF Reached
<1>8. \A k \in DOMAIN u.lists : Looks(t, Was(k, old, new), u, k)
  BY RenamedLooks
<1>9. Stored(u, pl2, fs, X)
  <2>1. \A k \in Reached(u) : ren[k] \in Reached(t) /\ pl2[k] = pl[ren[k]]
    BY <1>2, <1>3, <1>7
  <2>2. \A k \in Reached(u) : u.lists[k].kind = "dir" => Looks(t, ren[k], u, k)
    BY <1>3, <1>7, <1>8
  <2>3. TreeType(t) /\ TreeType(u)
    BY <1>1 DEF Sound
  <2> QED
    BY <1>1, <2>1, <2>2, <2>3, RelabelStored
<1>10. Proper(u, pl2, fs, X)
  BY <1>2, <1>4, <1>6, <1>9 DEF Proper, Rich
<1>11. ASSUME NEW l \in Reached(t), l # old PROVE Kept(t, pl, u, pl2, l, l)
  <2>1. Was(l, old, new) = l /\ l \in DOMAIN u.lists
    BY <1>1, <1>11, RenamedLists DEF Reached
  <2> QED
    BY <1>2, <1>3, <1>8, <2>1 DEF Kept
<1>12. ASSUME old \in Reached(t) PROVE Kept(t, pl, u, pl2, old, new)
  <2>1. Was(new, old, new) = old /\ new \in DOMAIN u.lists
    BY DEF Renamed, Was
  <2> QED
    BY <1>2, <1>3, <1>8, <1>12, <2>1 DEF Kept
<1>13. \A e : Lists(u, e) <=> Lists(t, e)
  BY <1>5 DEF Lists
<1>14. \A e, v : ListsVolume(u, e, v) <=> ListsVolume(t, e, v)
  BY <1>5 DEF ListsVolume
<1> QED
  BY <1>10, <1>11, <1>12, <1>13, <1>14 DEF IsRenaming

(* insert_again() leaves the signals alone, and all items. *)
LEMMA InsertAgainInv ==
    ASSUME NEW t, IsTree(t), NEW old PROVE InsertAgain(t, old).inv = t.inv
<1> DEFINE new == NewIdFor(t, old)
           all == Put(Restrict(t.lists, DOMAIN t.lists \ {old}), new, t.lists[old])
           lists == [l \in DOMAIN all |-> [all[l] EXCEPT !.parent = IF @ = old THEN new ELSE @]]
<1>1. InsertAgain(t, old) = [t EXCEPT !.lists = lists, !.next = Following(new)]
  BY DEF InsertAgain
<1> HIDE DEF lists, new
<1> QED
  BY <1>1 DEF IsTree

(* No item links to the list of devices, and its items link to no list twice. *)
LEMMA NotLinked ==
    ASSUME NEW t, Sound(t), NEW l \in DOMAIN t.lists, NEW i \in DOMAIN t.lists[l].items
    PROVE  LET c == t.lists[l].items[i].child
           IN /\ c # t.root
              /\ c # NoId /\ t.lists[c].parent = t.root => l = t.root
<1> DEFINE c == t.lists[l].items[i].child
<1>1. c # NoId => c \in DOMAIN t.lists /\ t.lists[c].parent = l
  BY DEF Sound, LinksRight, LinkRight
<1>2. t.lists[t.root].parent = NoId /\ l # NoId /\ t.root # NoId
  BY DEF Sound, ParentsRight, IdsInUse, TreeType, RootList
<1> HIDE DEF c
<1> QED
  BY <1>1, <1>2 DEF c

(* reinsert_device_list() *)
LEMMA DevicesRenamed ==
    ASSUME NEW t, Sound(t), KindItems(t)
    PROVE  LET u   == ReinsertDeviceList(t)
               new == NewIdFor(t, t.root)
           IN /\ Renamed(t, u, t.root, new)
              /\ u.root = new
              /\ u.inv = Append(t.inv, <<t.root, new>>)
<1> DEFINE old == t.root
           new == NewIdFor(t, old)
           u   == InsertAgain(t, old)
           r   == ReinsertDeviceList(t)
<1>1. TreeType(t) /\ IsTree(t) /\ old \in DOMAIN t.lists
  BY DEF Sound, TreeType, RootList
<1>2. /\ new \in Ids /\ new \notin DOMAIN t.lists \ {old}
      /\ Moves(t, u, old, new)
  BY <1>1, InsertAgainEffect
<1>3. r = [[u EXCEPT !.inv = Append(u.inv, <<old, new>>)] EXCEPT !.root = new]
  BY DEF ReinsertDeviceList, ReinsertList, Emit
<1>4. u.inv = t.inv
  BY <1>1, InsertAgainInv
<1>5. new # NoId
  BY <1>2, MaxIdIsNat
<1> HIDE DEF new, u, r
<1>6. r.root = new /\ r.lists = u.lists /\ r.inv = Append(t.inv, <<old, new>>)
  BY <1>2, <1>3, <1>4 DEF Moves, IsTree
<1>7. ASSUME NEW k \in DOMAIN r.lists
      PROVE  /\ r.lists[k].kind = t.lists[Was(k, old, new)].kind
             /\ r.lists[k].items = t.lists[Was(k, old, new)].items
             /\ Was(k, old, new) \in DOMAIN t.lists
  BY <1>1, <1>2, <1>6 DEF Moves, Was
<1>8. ASSUME NEW m \in DOMAIN t.lists, NEW j \in DOMAIN t.lists[m].items
      PROVE  LET a == t.lists[m].items[j]
             IN Apart(t.lists[m].kind, a, a) /\ a.child # old
  BY SelfApart, NotLinked
<1>9. Renamed(t, r, old, new)
  <2>1. DOMAIN r.lists = (DOMAIN t.lists \ {old}) \cup {new}
    BY <1>2, <1>6 DEF Moves
  <2>2. ASSUME NEW k \in DOMAIN r.lists
        PROVE  LET before == t.lists[Was(k, old, new)]
               IN /\ r.lists[k].kind = before.kind
                  /\ DOMAIN r.lists[k].items = DOMAIN before.items
                  /\ \A j \in DOMAIN before.items :
                        LET a == before.items[j]
                            b == r.lists[k].items[j]
                        IN /\ Apart(before.kind, a, b)
                           /\ b.child = IF a.child = old THEN new ELSE a.child
    BY <1>7, <1>8
  <2> QED
    BY <1>1, <1>2, <1>5, <1>6, <2>1, <2>2 DEF Renamed
<1> QED
  BY <1>6, <1>9 DEF r, new

(* reinsert_list() for a list of volumes, and the link from its device *)
LEMMA VolumesRenamed ==
    ASSUME NEW t, Sound(t), KindItems(t), NEW i \in DOMAIN DeviceItems(t),
           DeviceItems(t)[i].child # NoId
    PROVE  LET l   == DeviceItems(t)[i].child
               new == NewIdFor(t, l)
               r   == SetChildList(ReinsertList(t, l), t.root, i, new)
           IN /\ Renamed(t, r, l, new)
              /\ r.inv = Append(t.inv, <<l, new>>)
<1> DEFINE l    == DeviceItems(t)[i].child
           new  == NewIdFor(t, l)
           u    == InsertAgain(t, l)
           p    == ReinsertList(t, l)
           root == t.root
           r    == SetChildList(p, root, i, new)
           it   == [DeviceItems(t)[i] EXCEPT !.child = new]
           items == [DeviceItems(t) EXCEPT ![i] = it]
<1>1. /\ TreeType(t) /\ IsTree(t) /\ root \in DOMAIN t.lists /\ root # NoId
      /\ DeviceItems(t) \in Seq(DeviceItemSet)
      /\ t.lists[root].kind = "devices"
  BY DEF Sound, TreeType, RootList, DeviceItems
<1>2. l \in DOMAIN t.lists \ {root} /\ t.lists[l].parent = root
  BY DeviceLinks
<1>3. /\ new \in Ids /\ new \notin DOMAIN t.lists \ {l}
      /\ Moves(t, u, l, new)
  <2> HIDE DEF l
  <2> QED
    BY <1>2, InsertAgainEffect
<1>4. p = [u EXCEPT !.inv = Append(u.inv, <<l, new>>)]
  BY DEF ReinsertList, Emit
<1>5. u.inv = t.inv
  BY <1>1, InsertAgainInv
<1>6. Apart("devices", DeviceItems(t)[i], it) /\ it.child = new
  <2>1. new \in IdsAndNone /\ DeviceItems(t)[i] \in DeviceItemSet
    BY <1>1, <1>3, MaxIdIsNat
  <2> HIDE DEF new
  <2> QED
    BY <2>1, ItemApart DEF Apart
<1>7. new # NoId /\ new # root
  BY <1>1, <1>2, <1>3, MaxIdIsNat
<1> HIDE DEF new, u, p, l, it
<1>8. /\ IsTree(p) /\ p.root = root /\ p.lists = u.lists /\ p.inv = Append(t.inv, <<l, new>>)
  BY <1>3, <1>4, <1>5 DEF Moves, IsTree
<1>9. /\ DOMAIN p.lists = (DOMAIN t.lists \ {l}) \cup {new}
      /\ p.lists \in [DOMAIN p.lists -> ListSet]
      /\ \A k \in DOMAIN p.lists : /\ p.lists[k].kind = t.lists[Was(k, l, new)].kind
                                   /\ p.lists[k].items = t.lists[Was(k, l, new)].items
                                   /\ Was(k, l, new) \in DOMAIN t.lists
  BY <1>2, <1>3, <1>8 DEF Moves, Was
<1>10. Was(root, l, new) = root /\ root \in DOMAIN p.lists
  BY <1>1, <1>2, <1>7, <1>9 DEF Was
<1>11. /\ p.lists[root].items = DeviceItems(t)
       /\ p.lists[root] \in ListSet
  BY <1>9, <1>10 DEF DeviceItems
<1>12. r = [p EXCEPT !.lists[root].items[i].child = new]
  BY DEF SetChildList
<1>13. r.lists = [p.lists EXCEPT ![root] = [@ EXCEPT !.items = items]]
  <2> DEFINE now == [p.lists[root].items EXCEPT ![i] = [@ EXCEPT !.child = new]]
  <2>1. now = items
    BY <1>11 DEF it
  <2>2. r.lists = [p.lists EXCEPT ![root] = [@ EXCEPT !.items = now]]
    <3> HIDE DEF root, items
    <3> QED
      BY <1>8, <1>12 DEF IsTree
  <2> HIDE DEF items, now
  <2> QED
    BY <2>1, <2>2
<1>14. r.root = root /\ r.inv = p.inv
  BY <1>8, <1>12 DEF IsTree
<1>15. /\ DOMAIN items = DOMAIN DeviceItems(t)
       /\ items[i] = it
       /\ \A j \in DOMAIN DeviceItems(t) : j # i => items[j] = DeviceItems(t)[j]
  OBVIOUS
<1> HIDE DEF items, r
<1>16. /\ DOMAIN r.lists = DOMAIN p.lists
       /\ r.lists[root].items = items /\ r.lists[root].kind = p.lists[root].kind
       /\ \A k \in DOMAIN p.lists : k # root => r.lists[k] = p.lists[k]
  <2>1. [p.lists[root] EXCEPT !.items = items].items = items
        /\ [p.lists[root] EXCEPT !.items = items].kind = p.lists[root].kind
    BY <1>11 DEF ListSet
  <2> QED
    BY <1>10, <1>13, <2>1
<1>17. ASSUME NEW m \in DOMAIN t.lists, NEW j \in DOMAIN t.lists[m].items
       PROVE  LET a == t.lists[m].items[j]
              IN Apart(t.lists[m].kind, a, a) /\ (a.child = l => m = root /\ j = i)
  <2>1. Apart(t.lists[m].kind, t.lists[m].items[j], t.lists[m].items[j])
    BY SelfApart
  <2>2. ASSUME t.lists[m].items[j].child = l PROVE m = root /\ j = i
    <3>1. m = root
      BY <1>2, <2>2, NotLinked DEF Sound, IdsInUse
    <3>2. j \in DOMAIN DeviceItems(t) /\ DeviceItems(t)[j].child = l
      BY <2>2, <3>1 DEF DeviceItems
    <3> QED
      BY <3>1, <3>2, DeviceLinks DEF l
  <2> QED
    BY <2>1, <2>2
<1>18. ASSUME NEW k \in DOMAIN r.lists
       PROVE  LET before == t.lists[Was(k, l, new)]
              IN /\ r.lists[k].kind = before.kind
                 /\ DOMAIN r.lists[k].items = DOMAIN before.items
                 /\ \A j \in DOMAIN before.items :
                       LET a == before.items[j]
                           b == r.lists[k].items[j]
                       IN /\ Apart(before.kind, a, b)
                          /\ b.child = IF a.child = l THEN new ELSE a.child
  <2>1. CASE k = root
    <3>1. t.lists[root].items = DeviceItems(t)
      BY DEF DeviceItems
    <3>2. ASSUME NEW j \in DOMAIN DeviceItems(t)
          PROVE  /\ Apart("devices", DeviceItems(t)[j], items[j])
                 /\ items[j].child = IF DeviceItems(t)[j].child = l THEN new
                                     ELSE DeviceItems(t)[j].child
      <4>1. CASE j = i
        BY <1>6, <1>15, <4>1 DEF l
      <4>2. CASE j # i
        BY <1>1, <1>15, <1>17, <3>1, <4>2
      <4> QED
        BY <4>1, <4>2
    <3> QED
      BY <1>1, <1>9, <1>10, <1>15, <1>16, <2>1, <3>1, <3>2
  <2>2. CASE k # root
    <3>1. r.lists[k] = p.lists[k] /\ k \in DOMAIN p.lists
      BY <1>16, <2>2
    <3>2. Was(k, l, new) # root /\ Was(k, l, new) \in DOMAIN t.lists
      BY <1>2, <1>9, <2>2, <3>1 DEF Was
    <3>3. ASSUME NEW j \in DOMAIN t.lists[Was(k, l, new)].items
          PROVE  /\ t.lists[Was(k, l, new)].items[j].child # l
                 /\ Apart(t.lists[Was(k, l, new)].kind, t.lists[Was(k, l, new)].items[j],
                          t.lists[Was(k, l, new)].items[j])
      BY <1>17, <3>2
    <3> QED
      BY <1>9, <3>1, <3>3
  <2> QED
    BY <2>1, <2>2
<1>19. Renamed(t, r, l, new)
  <2>1. r.root = IF t.root = l THEN new ELSE t.root
    BY <1>2, <1>14
  <2> QED
    BY <1>2, <1>3, <1>7, <1>9, <1>16, <1>18, <2>1 DEF Renamed
<1> QED
  BY <1>8, <1>14, <1>19 DEF r, p, new, l

(* reinsert_device_list() leaves the tree right. *)
LEMMA DevicesRenewed ==
    ASSUME NEW t, NEW pl, NEW fs, NEW X, Proper(t, pl, fs, X)
    PROVE  LET u == ReinsertDeviceList(t)
           IN /\ u.inv = Append(t.inv, <<t.root, u.root>>)
              /\ u.root # NoId
              /\ \E pl2 : Proper(u, pl2, fs, X) /\ IsRenaming(t, pl, u, pl2, t.root, u.root)
<1> DEFINE u   == ReinsertDeviceList(t)
           new == NewIdFor(t, t.root)
<1>1. Sound(t) /\ Matched(t) /\ KindItems(t)
  BY DEF Proper, Rich, Shaped
<1>2. Renamed(t, u, t.root, new) /\ u.root = new /\ u.inv = Append(t.inv, <<t.root, new>>)
  BY <1>1, DevicesRenamed
<1>3. Sound(u) /\ Matched(u)
  BY <1>1, ReinsertDeviceListInv
<1> HIDE DEF u, new
<1>4. \E pl2 : Proper(u, pl2, fs, X) /\ IsRenaming(t, pl, u, pl2, t.root, new)
  BY <1>2, <1>3, RenamedProper
<1>5. new # NoId
  BY <1>2 DEF Renamed
<1> QED
  BY <1>2, <1>4, <1>5 DEF u

-----------------------------------------------------------------------------
(* A volume is added. *)

(* std::lower_bound(): the smaller ones are before it, the others after it. *)
LEMMA LowerBoundSplits ==
    ASSUME NEW vols \in Seq(Nat), Increasing(vols), NEW v \in Nat
    PROVE  LET c == LowerBound(vols, v)
           IN /\ c \in 1..Len(vols) + 1
              /\ \A k \in 1..Len(vols) : vols[k] < v <=> k < c
<1> DEFINE n    == Len(vols)
           less == {k \in 1..n : vols[k] < v}
           c    == LowerBound(vols, v)
<1>1. n \in Nat /\ DOMAIN vols = 1..n
  OBVIOUS
<1>2. c = Cardinality(less) + 1 /\ c \in 1..n + 1
  BY <1>1, LowerBoundRange DEF LowerBound
<1>3. CASE less = {}
  <2>1. Cardinality({}) = 0
    BY FS_EmptySet
  <2>2. Cardinality(less) = 0
    BY <1>3, <2>1
  <2>3. \A k \in 1..n : ~(vols[k] < v)
    BY <1>3
  <2> HIDE DEF less, c, n
  <2>4. c = 1
    BY <1>2, <2>2
  <2> QED
    BY <1>1, <1>2, <2>3, <2>4 DEF n, c
<1>4. CASE less # {}
  <2>1. less \in SUBSET (1..n)
    OBVIOUS
  <2>2. PICK m \in less : \A k \in less : k <= m
    <3> HIDE DEF less, n
    <3> QED
      BY <1>1, <1>4, <2>1, LastOne
  <2>3. m \in 1..n /\ vols[m] < v
    BY <2>2
  <2>4. ASSUME NEW k \in 1..m PROVE k \in less
    <3>1. k \in 1..n
      BY <1>1, <2>3
    <3>2. k = m \/ vols[k] < vols[m]
      BY <1>1, <2>3, <3>1 DEF Increasing
    <3>3. vols[k] \in Nat /\ vols[m] \in Nat
      BY <1>1, <2>3, <3>1
    <3> QED
      BY <2>3, <3>1, <3>2, <3>3
  <2>5. less = 1..m
    <3>1. less \subseteq 1..m
      BY <1>1, <2>2
    <3> HIDE DEF less
    <3> QED
      BY <2>4, <3>1
  <2>6. Cardinality(less) = m
    <3>1. 1 \in Int /\ m \in Int /\ (IF 1 > m THEN 0 ELSE m - 1 + 1) = m
      BY <1>1, <2>3
    <3> HIDE DEF less
    <3> QED
      BY <2>5, <3>1, FS_Interval
  <2>7. c = m + 1
    BY <1>2, <2>6
  <2>8. \A k \in 1..n : vols[k] < v <=> k \in 1..m
    BY <2>5
  <2> HIDE DEF less
  <2> QED
    BY <1>1, <1>2, <2>3, <2>7, <2>8
<1> QED
  BY <1>3, <1>4

(* A number is put in its place. *)
LEMMA SortedInsert ==
    ASSUME NEW vols \in Seq(Nat), Increasing(vols), NEW v \in Nat, v \notin ToSet(vols)
    PROVE  LET c   == LowerBound(vols, v)
               new == InsertAt(vols, c, v)
           IN /\ new \in Seq(Nat) /\ Increasing(new)
              /\ c \in 1..Len(vols) + 1 /\ Len(new) = Len(vols) + 1
              /\ \A j \in 1..Len(vols) + 1 :
                    new[j] = IF j < c THEN vols[j] ELSE IF j = c THEN v ELSE vols[j - 1]
              /\ ToSet(new) = ToSet(vols) \cup {v}
              /\ LowerBound(new, v) = c
<1> DEFINE c   == LowerBound(vols, v)
           new == InsertAt(vols, c, v)
           n   == Len(vols)
<1>1. c \in 1..n + 1 /\ \A k \in 1..n : vols[k] < v <=> k < c
  BY LowerBoundSplits
<1>2. n \in Nat /\ DOMAIN vols = 1..n /\ \A k \in 1..n : vols[k] \in Nat /\ vols[k] # v
  BY DEF ToSet
<1> HIDE DEF c
<1>3. /\ new \in Seq(Nat) /\ Len(new) = n + 1
      /\ \A j \in 1..n + 1 :
            new[j] = IF j < c THEN vols[j] ELSE IF j = c THEN v ELSE vols[j - 1]
  BY <1>1, InsertOne
<1> HIDE DEF new, n
<1>4. DOMAIN new = 1..n + 1
  BY <1>3
<1>5. \A j, k \in 1..n : j < k => vols[j] < vols[k]
  BY <1>2 DEF Increasing
<1>6. \A j \in 1..n + 1 : new[j] \in Nat
  BY <1>3, <1>4
<1>7. ASSUME NEW j \in 1..n + 1, NEW k \in 1..n + 1, j < k PROVE new[j] < new[k]
  <2>1. CASE k < c
    <3>1. j \in 1..n /\ k \in 1..n /\ j < c
      BY <1>1, <1>2, <1>7, <2>1
    <3> QED
      BY <1>3, <1>5, <1>7, <2>1, <3>1
  <2>2. CASE k = c
    <3>1. j \in 1..n /\ j < c
      BY <1>1, <1>2, <1>7, <2>2
    <3> QED
      BY <1>1, <1>3, <2>2, <3>1
  <2>3. CASE k > c
    <3>0. k - 1 \in 1..n /\ ~(k - 1 < c) /\ ~(k < c) /\ k # c
      BY <1>1, <1>2, <1>7, <2>3
    <3>1. new[k] = vols[k - 1] /\ vols[k - 1] > v
      BY <1>1, <1>2, <1>3, <3>0
    <3>2. CASE j = c
      BY <1>1, <1>3, <3>1, <3>2
    <3>3. CASE j < c
      <4>1. j \in 1..n
        BY <1>1, <1>2, <3>3
      <4>2. new[j] = vols[j] /\ vols[j] < v
        BY <1>1, <1>3, <3>3, <4>1
      <4> QED
        BY <1>2, <3>0, <3>1, <4>1, <4>2
    <3>4. CASE j > c
      <4>1. j - 1 \in 1..n /\ j - 1 < k - 1
        BY <1>1, <1>2, <1>7, <3>4
      <4>2. new[j] = vols[j - 1]
        BY <1>1, <1>3, <3>4
      <4> QED
        BY <1>5, <3>0, <3>1, <4>1, <4>2
    <3> QED
      BY <1>1, <1>2, <3>2, <3>3, <3>4
  <2> QED
    BY <1>1, <1>2, <2>1, <2>2, <2>3
<1>8. Increasing(new)
  BY <1>4, <1>7 DEF Increasing
<1>9. ToSet(new) = ToSet(vols) \cup {v}
  <2>1. ASSUME NEW j \in 1..n + 1 PROVE new[j] = v \/ \E k \in 1..n : new[j] = vols[k]
    <3>1. CASE j < c
      BY <1>1, <1>2, <1>3, <3>1
    <3>2. CASE j = c
      BY <1>3, <3>2
    <3>3. CASE j > c
      <4>1. j - 1 \in 1..n /\ new[j] = vols[j - 1]
        BY <1>1, <1>2, <1>3, <3>3
      <4> QED
        BY <4>1
    <3> QED
      BY <1>1, <1>2, <3>1, <3>2, <3>3
  <2>2. ASSUME NEW k \in 1..n PROVE \E j \in 1..n + 1 : new[j] = vols[k]
    <3>1. CASE k < c
      BY <1>2, <1>3, <3>1
    <3>2. CASE ~(k < c)
      <4>1. k + 1 \in 1..n + 1 /\ ~(k + 1 < c) /\ k + 1 # c /\ (k + 1) - 1 = k
        BY <1>1, <1>2, <3>2
      <4> QED
        BY <1>3, <4>1
    <3> QED
      BY <3>1, <3>2
  <2>3. new[c] = v
    BY <1>1, <1>3
  <2>4. DOMAIN vols = 1..n /\ c \in 1..n + 1
    BY <1>1, <1>2
  <2>5. \A x : x \in ToSet(new) <=> x \in ToSet(vols) \cup {v}
    BY <1>4, <2>1, <2>2, <2>3, <2>4 DEF ToSet
  <2> QED
    BY <2>5
<1>10. LowerBound(new, v) = c
  <2> DEFINE e == LowerBound(new, v)
  <2>1. e \in 1..Len(new) + 1 /\ \A k \in 1..Len(new) : new[k] < v <=> k < e
    BY <1>3, <1>8, LowerBoundSplits
  <2> HIDE DEF e
  <2>2. new[c] = v /\ c \in 1..Len(new)
    BY <1>1, <1>3
  <2>3. ~(c < e)
    BY <2>1, <2>2
  <2>4. ~(e < c)
    <3> SUFFICES ASSUME e < c PROVE FALSE
      OBVIOUS
    <3>1. e \in 1..n /\ e \in 1..Len(new)
      BY <1>1, <1>2, <1>3, <2>1
    <3>2. new[e] < v
      BY <1>1, <1>3, <3>1
    <3> QED
      BY <2>1, <3>1, <3>2
  <2> QED
    BY <1>1, <1>2, <1>3, <2>1, <2>3, <2>4 DEF e
<1> QED
  BY <1>1, <1>3, <1>8, <1>9, <1>10 DEF c, new, n

=============================================================================
