--------------------------- MODULE UsbBrokerView ----------------------------
(***************************************************************************)
(* More proofs about UsbBroker, for any devices, volumes, directories and  *)
(* locations and any number of list IDs and of signals on their way: what  *)
(* clients know of the tree is right, and the tree follows the mount       *)
(* daemon.                                                                 *)
(***************************************************************************)
EXTENDS UsbBrokerProofs

(* DeviceItemData::add_volume() *)
VolumeListed(t, u, i, v) ==
    /\ u.root = t.root /\ u.inv = t.inv /\ DOMAIN u.lists = DOMAIN t.lists
    /\ \A k \in DOMAIN t.lists \ {t.root} : u.lists[k] = t.lists[k]
    /\ DOMAIN DeviceItems(u) = DOMAIN DeviceItems(t)
    /\ \A j \in DOMAIN DeviceItems(t) : /\ DeviceItems(u)[j].child = DeviceItems(t)[j].child
                                        /\ DeviceItems(u)[j].dev = DeviceItems(t)[j].dev
                                        /\ j # i => DeviceItems(u)[j].vols = DeviceItems(t)[j].vols
    /\ LET vols == DeviceItems(t)[i].vols
       IN DeviceItems(u)[i].vols = InsertAt(vols, LowerBound(vols, v), v)

(* Only the device at position i is another one, by its volumes. *)
LEMMA AddVolumeListed ==
    ASSUME NEW t, Sound(t), NEW i \in DOMAIN DeviceItems(t), NEW v \in Nat
    PROVE  VolumeListed(t, AddVolume(t, i, v), i, v) /\ Sound(AddVolume(t, i, v))
<1> DEFINE old   == DeviceItems(t)[i]
           vols  == InsertAt(old.vols, LowerBound(old.vols, v), v)
           new   == [old EXCEPT !.vols = vols]
           items == [DeviceItems(t) EXCEPT ![i] = new]
           u     == AddVolume(t, i, v)
<1>1. /\ Sound(u) /\ u.root = t.root
      /\ DOMAIN u.lists = DOMAIN t.lists
      /\ \A k \in DOMAIN t.lists \ {t.root} : u.lists[k] = t.lists[k]
      /\ DOMAIN DeviceItems(u) = DOMAIN DeviceItems(t)
      /\ \A j \in DOMAIN DeviceItems(t) :
            /\ DeviceItems(u)[j].child = DeviceItems(t)[j].child
            /\ DeviceItems(u)[j].dev = DeviceItems(t)[j].dev
            /\ j # i => DeviceItems(u)[j] = DeviceItems(t)[j]
  BY AddVolumeInv
<1>2. u = [t EXCEPT !.lists[t.root].items = items]
  BY DEF AddVolume, DeviceItems
<1>3. IsTree(t) /\ t.root \in DOMAIN t.lists /\ t.lists[t.root] \in ListSet
  BY DEF Sound, TreeType, RootList
<1>4. old \in DeviceItemSet
  BY DeviceItemsType
<1>5. items[i] = new
  OBVIOUS
<1> HIDE DEF u, items, new
<1>6. u.inv = t.inv /\ u.lists = [t.lists EXCEPT ![t.root] = [@ EXCEPT !.items = items]]
  BY <1>2, <1>3 DEF IsTree
<1>7. u.lists[t.root].items = items
  <2>1. [t.lists[t.root] EXCEPT !.items = items].items = items
    BY <1>3 DEF ListSet
  <2> QED
    BY <1>3, <1>6, <2>1
<1>8. DeviceItems(u)[i].vols = vols
  <2>1. [old EXCEPT !.vols = vols].vols = vols
    <3> HIDE DEF old, vols
    <3> QED
      BY <1>4 DEF DeviceItemSet
  <2> HIDE DEF old, vols
  <2>2. new.vols = vols
    BY <2>1 DEF new
  <2> QED
    BY <1>1, <1>5, <1>7, <2>2 DEF DeviceItems
<1> HIDE DEF vols, old
<1>9. \A j \in DOMAIN DeviceItems(t) : j # i => DeviceItems(u)[j].vols = DeviceItems(t)[j].vols
  BY <1>1
<1>10. LET w == DeviceItems(t)[i].vols IN DeviceItems(u)[i].vols = InsertAt(w, LowerBound(w, v), v)
  BY <1>8 DEF vols, old
<1>11. \A j \in DOMAIN DeviceItems(t) : /\ DeviceItems(u)[j].child = DeviceItems(t)[j].child
                                        /\ DeviceItems(u)[j].dev = DeviceItems(t)[j].dev
  BY <1>1
<1> QED
  BY <1>1, <1>6, <1>9, <1>10, <1>11 DEF VolumeListed, u

(* The device is known to have one volume more. *)
VolumeKnown(t, u, d, v) ==
    /\ \A e : Lists(u, e) <=> Lists(t, e)
    /\ \A e, w : ListsVolume(u, e, w) <=> ListsVolume(t, e, w) \/ (e = d /\ w = v)

(* All is right with the new volume, except that a list of volumes that has *)
(* been entered may not show it yet.                                        *)
LEMMA VolumeListedRight ==
    ASSUME NEW t, NEW pl, NEW fs, NEW X, Sound(t), Shaped(t, pl), Listed(t), Stored(t, pl, fs, X),
           NEW i \in DOMAIN DeviceItems(t), NEW v \in Nat, ~HasVolume(DeviceItems(t)[i].vols, v),
           NEW u, Sound(u), VolumeListed(t, u, i, v)
    PROVE  /\ Shaped(u, pl) /\ Listed(u) /\ Stored(u, pl, fs, X)
           /\ Reached(u) = Reached(t) /\ DevicesChange(t, u)
           /\ \A l \in Reached(t) : Kept(t, pl, u, pl, l, l)
           /\ VolumeKnown(t, u, DeviceItems(t)[i].dev, v)
<1> DEFINE vols == DeviceItems(t)[i].vols
           new  == InsertAt(vols, LowerBound(vols, v), v)
<1>1. /\ u.root = t.root /\ u.inv = t.inv /\ DOMAIN u.lists = DOMAIN t.lists
      /\ \A k \in DOMAIN t.lists \ {t.root} : u.lists[k] = t.lists[k]
      /\ DOMAIN DeviceItems(u) = DOMAIN DeviceItems(t)
      /\ \A j \in DOMAIN DeviceItems(t) :
            /\ DeviceItems(u)[j].child = DeviceItems(t)[j].child
            /\ DeviceItems(u)[j].dev = DeviceItems(t)[j].dev
            /\ j # i => DeviceItems(u)[j].vols = DeviceItems(t)[j].vols
      /\ DeviceItems(u)[i].vols = new
  BY DEF VolumeListed
<1>2. DeviceItems(t)[i] \in DeviceItemSet
  BY DeviceItemsType
<1>3. vols \in Seq(Nat) /\ Increasing(vols) /\ v \notin ToSet(vols)
  BY <1>2 DEF DeviceItemSet, Listed, HasVolume
<1> HIDE DEF vols
<1>4. Increasing(new) /\ ToSet(new) = ToSet(vols) \cup {v}
  BY <1>3, SortedInsert
<1> HIDE DEF new
<1>5. DevicesChange(t, u)
  BY <1>1 DEF DevicesChange
<1>6. Shaped(u, pl) /\ Reached(u) = Reached(t)
  BY <1>5, DevicesShaped
<1>7. Stored(u, pl, fs, X)
  BY <1>5, <1>6, DevicesStored
<1>8. Listed(u)
  <2>1. ASSUME NEW j \in DOMAIN DeviceItems(u) PROVE Increasing(DeviceItems(u)[j].vols)
    <3>1. CASE j = i
      BY <1>1, <1>4, <3>1
    <3>2. CASE j # i
      BY <1>1, <3>2 DEF Listed
    <3> QED
      BY <3>1, <3>2
  <2> QED
    BY <1>1, <2>1 DEF Listed
<1>9. Kept(t, pl, u, pl, t.root, t.root)
  <2>1. t.root \in Reached(u)
    BY <1>6, RootReached DEF Sound
  <2>2. u.lists[t.root].kind = "devices" /\ t.lists[t.root].kind = "devices"
    BY <1>1 DEF Sound, TreeType, RootList
  <2>3. Looks(t, t.root, u, t.root)
    BY <1>1, <2>2 DEF Looks, ShowsAt, Shows, DeviceItems
  <2> QED
    BY <2>1, <2>3 DEF Kept
<1>10. \A l \in Reached(t) : Kept(t, pl, u, pl, l, l)
  BY <1>5, <1>6, <1>9, DevicesKept
<1>11. \A e : Lists(u, e) <=> Lists(t, e)
  BY <1>1 DEF Lists
<1>12. ASSUME NEW e, NEW w
       PROVE  ListsVolume(u, e, w) <=> ListsVolume(t, e, w) \/ (e = DeviceItems(t)[i].dev /\ w = v)
  <2>1. \A j \in DOMAIN DeviceItems(t) :
           HasVolume(DeviceItems(u)[j].vols, w) <=> HasVolume(DeviceItems(t)[j].vols, w) \/ (j = i /\ w = v)
    BY <1>1, <1>4 DEF HasVolume, vols
  <2>2. \A j \in DOMAIN DeviceItems(t) : DeviceItems(u)[j].dev = DeviceItems(t)[j].dev
    BY <1>1
  <2> QED
    BY <1>1, <2>1, <2>2 DEF ListsVolume
<1> QED
  BY <1>5, <1>6, <1>7, <1>8, <1>10, <1>11, <1>12 DEF VolumeKnown

(* List l of tree t is patched. *)
PatchedBy(t, u, l, c, x) ==
    LET old   == t.lists[l].items
        items == u.lists[l].items
    IN /\ Sound(u) /\ KindItems(u) /\ ItemsChange(t, u, l)
       /\ u.inv = t.inv
       /\ u.lists[l].kind = "volumes"
       /\ DOMAIN items = 1..Len(old) + 1
       /\ \A j \in 1..Len(old) + 1 :
             items[j] = IF j < c THEN old[j] ELSE IF j = c THEN x ELSE old[j - 1]

(* A list of volumes that has been entered gets an item more. *)
LEMMA PatchedList ==
    ASSUME NEW t, Sound(t), KindItems(t), NEW l \in DOMAIN t.lists, t.lists[l].kind = "volumes",
           NEW c \in 1..Len(t.lists[l].items) + 1, NEW x \in VolumeItemSet, x.child = NoId,
           NEW u, u = [t EXCEPT !.lists[l].items = InsertAt(t.lists[l].items, c, x)]
    PROVE  PatchedBy(t, u, l, c, x)
<1> DEFINE old    == t.lists[l].items
           items  == InsertAt(old, c, x)
           n      == Len(old)
           was(j) == IF j < c THEN j ELSE j - 1
           now(j) == IF j < c THEN j ELSE j + 1
<1>1. old \in Seq(VolumeItemSet) /\ l # t.root
  BY DEF KindItems, Sound, TreeType, RootList
<1>2. n \in Nat /\ DOMAIN old = 1..n /\ c \in 1..n + 1
  BY <1>1
<1> HIDE DEF old
<1>3. /\ items \in Seq(VolumeItemSet) /\ Len(items) = n + 1
      /\ \A j \in 1..n + 1 :
            items[j] = IF j < c THEN old[j] ELSE IF j = c THEN x ELSE old[j - 1]
  <2>1. old \in Seq(VolumeItemSet) /\ c \in 1..Len(old) + 1 /\ x \in VolumeItemSet
    BY <1>1, <1>2
  <2> QED
    BY ONLY <2>1, InsertOne
<1> HIDE DEF items, n
<1>4. DOMAIN items = 1..n + 1
  BY <1>3
<1>5. \A j \in DOMAIN items : items[j].child # NoId =>
         j # c /\ was(j) \in 1..n /\ items[j] = old[was(j)]
  BY <1>2, <1>3, <1>4
<1>6. \A j, k \in 1..n + 1 : j # c /\ k # c /\ was(j) = was(k) => j = k
  BY <1>2
<1>7. \A j \in 1..n : now(j) \in DOMAIN items /\ items[now(j)] = old[j]
  <2>1. ASSUME NEW j \in 1..n PROVE now(j) \in 1..n + 1 /\ items[now(j)] = old[j]
    <3>1. CASE j < c
      BY <1>2, <1>3, <3>1
    <3>2. CASE ~(j < c)
      <4>1. j + 1 \in 1..n + 1 /\ ~(j + 1 < c) /\ j + 1 # c /\ (j + 1) - 1 = j
        BY <1>2, <3>2
      <4> QED
        BY <1>3, <3>2, <4>1
    <3> QED
      BY <3>1, <3>2
  <2> QED
    BY <1>4, <2>1
<1> HIDE DEF was, now
<1>8. ASSUME NEW j \in DOMAIN items, items[j].child # NoId
      PROVE  /\ \E k \in DOMAIN old : old[k].child = items[j].child
             /\ \A k \in DOMAIN items : items[k].child = items[j].child => k = j
  <2>1. was(j) \in DOMAIN old /\ items[j] = old[was(j)] /\ j # c
    BY <1>2, <1>5, <1>8
  <2>2. LinkRight(t, l, was(j))
    BY <2>1 DEF Sound, LinksRight, old
  <2>3. ASSUME NEW k \in DOMAIN items, items[k].child = items[j].child PROVE k = j
    <3>1. was(k) \in DOMAIN old /\ items[k] = old[was(k)] /\ k # c
      BY <1>2, <1>5, <1>8, <2>3
    <3>2. was(k) = was(j)
      BY <1>8, <2>1, <2>2, <2>3, <3>1 DEF LinkRight, old
    <3> QED
      BY <1>4, <1>6, <2>1, <3>1, <3>2
  <2> QED
    BY <2>1, <2>3
<1>9. items \in Seq(ItemSet)
  <2>1. VolumeItemSet \subseteq ItemSet
    BY DEF ItemSet
  <2> HIDE DEF VolumeItemSet, ItemSet
  <2> QED
    BY <1>3, <2>1
<1>10. /\ Sound(u) /\ u.root = t.root /\ u.inv = t.inv
       /\ DOMAIN u.lists = DOMAIN t.lists
       /\ \A k \in DOMAIN t.lists \ {l} : u.lists[k] = t.lists[k]
       /\ u.lists[l].kind = t.lists[l].kind
       /\ u.lists[l].items = items
  <2>1. \A j \in DOMAIN items : items[j].child # NoId =>
           /\ \E k \in DOMAIN t.lists[l].items : t.lists[l].items[k].child = items[j].child
           /\ \A k \in DOMAIN items : items[k].child = items[j].child => k = j
    BY <1>8 DEF old
  <2> QED
    <3> DEFINE r == [t EXCEPT !.lists[l].items = items]
    <3>1. r = u
      BY DEF items, old
    <3>2. /\ Sound(r) /\ r.root = t.root /\ r.inv = t.inv
          /\ DOMAIN r.lists = DOMAIN t.lists
          /\ \A k \in DOMAIN t.lists \ {l} : r.lists[k] = t.lists[k]
          /\ r.lists[l].kind = t.lists[l].kind
          /\ r.lists[l].items = items
      BY ONLY Sound(t), l \in DOMAIN t.lists, <1>1, <1>9, <2>1, NewItems, SMTT(30)
    <3> HIDE DEF r
    <3> QED
      BY <3>1, <3>2
<1>11. KindItems(u)
  <2>1. \A k \in DOMAIN t.lists : k # l =>
           /\ u.lists[k].kind = "volumes" => u.lists[k].items \in Seq(VolumeItemSet)
           /\ u.lists[k].kind = "dir" => u.lists[k].items \in Seq(DirItemSet)
    BY <1>10 DEF KindItems
  <2>2. u.lists[l].items \in Seq(VolumeItemSet) /\ u.lists[l].kind = "volumes"
    BY <1>3, <1>10
  <2> QED
    BY <1>10, <2>1, <2>2 DEF KindItems
<1>12. \A i, j : t.lists[l].items[i] = u.lists[l].items[j]
                         => ShowsAt(t, l, i) = ShowsAt(u, l, j)
  BY <1>10 DEF ShowsAt
<1>13. ItemsChange(t, u, l)
  <2>1. ASSUME NEW j \in DOMAIN u.lists[l].items, u.lists[l].items[j].child # NoId
        PROVE  \E k \in DOMAIN t.lists[l].items :
                  /\ t.lists[l].items[k].child = u.lists[l].items[j].child
                  /\ ShowsAt(t, l, k) = ShowsAt(u, l, j)
    <3>1. was(j) \in DOMAIN t.lists[l].items /\ t.lists[l].items[was(j)] = u.lists[l].items[j]
      BY <1>2, <1>5, <1>10, <2>1 DEF old
    <3> QED
      BY <1>12, <3>1
  <2>2. ASSUME NEW j \in DOMAIN t.lists[l].items
        PROVE  \E k \in DOMAIN u.lists[l].items : u.lists[l].items[k].child = t.lists[l].items[j].child
    BY <1>2, <1>7, <1>10 DEF old
  <2> QED
    BY <1>10, <2>1, <2>2 DEF ItemsChange
<1>14. t.lists[l].items = old /\ Len(old) = n
  BY DEF old, n
<1> QED
  BY <1>3, <1>4, <1>10, <1>11, <1>13, <1>14 DEF PatchedBy

(* The tree q is a with its list of volumes l patched; t is how it was.      *)
PatchOf(t, pl, q, a, l) ==
    /\ q.inv = t.inv /\ q.root = t.root /\ DeviceItems(q) = DeviceItems(a)
    /\ Reached(q) = Reached(t) /\ l \in Reached(t)
    /\ \A k \in Reached(t) \ {l} : Kept(t, pl, q, pl, k, k)

(* reinsert_volume_list() patches the list of volumes l of the device at     *)
(* position i before it gets its new ID; then all is right again.            *)
LEMMA PatchedRight ==
    ASSUME NEW t, NEW pl, NEW fs, NEW X, Proper(t, pl, fs, X),
           NEW i \in DOMAIN DeviceItems(t), NEW v \in Nat, ~HasVolume(DeviceItems(t)[i].vols, v),
           NEW l, l = DeviceItems(t)[i].child, l # NoId,
           NEW a, Sound(a), VolumeListed(t, a, i, v),
           NEW q, q = [a EXCEPT !.lists[l].items =
                          InsertAt(@, LowerBound(DeviceItems(a)[i].vols, v),
                                   VolumeItem(DeviceItems(a)[i].dev, v))]
    PROVE  /\ Proper(q, pl, fs, X)
           /\ PatchOf(t, pl, q, a, l)
           /\ VolumeKnown(t, q, DeviceItems(t)[i].dev, v)
<1> DEFINE vols == DeviceItems(t)[i].vols
           c    == LowerBound(vols, v)
           new  == InsertAt(vols, c, v)
           d    == DeviceItems(t)[i].dev
           x    == VolumeItem(d, v)
           old  == t.lists[l].items
           n    == Len(vols)
           items == q.lists[l].items
<1>1. /\ Sound(t) /\ Matched(t) /\ Shaped(t, pl) /\ Listed(t) /\ VolumesListed(t)
      /\ Stored(t, pl, fs, X)
  BY DEF Proper, Rich
<1>2. /\ Shaped(a, pl) /\ Listed(a) /\ Stored(a, pl, fs, X)
      /\ Reached(a) = Reached(t) /\ DevicesChange(t, a)
      /\ \A k \in Reached(t) : Kept(t, pl, a, pl, k, k)
      /\ VolumeKnown(t, a, d, v)
  BY <1>1, VolumeListedRight
<1>3. /\ a.root = t.root /\ a.inv = t.inv /\ DOMAIN a.lists = DOMAIN t.lists
      /\ \A k \in DOMAIN t.lists : k # t.root => a.lists[k] = t.lists[k]
      /\ DOMAIN DeviceItems(a) = DOMAIN DeviceItems(t)
      /\ \A j \in DOMAIN DeviceItems(t) :
            /\ DeviceItems(a)[j].child = DeviceItems(t)[j].child
            /\ DeviceItems(a)[j].dev = DeviceItems(t)[j].dev
            /\ j # i => DeviceItems(a)[j].vols = DeviceItems(t)[j].vols
      /\ DeviceItems(a)[i].vols = new
  BY DEF VolumeListed
<1>4. l \in DOMAIN t.lists /\ l # t.root /\ t.lists[l].parent = t.root
  BY <1>1, DeviceLinks
<1>5. t.lists[l].kind = "volumes"
  BY <1>1, <1>4 DEF Sound, ParentsRight, IdsInUse, TreeType, RootList
<1>6. a.lists[l] = t.lists[l] /\ l \in DOMAIN a.lists
  BY <1>3, <1>4
<1>7. DeviceItems(t)[i] \in DeviceItemSet
  BY <1>1, DeviceItemsType
<1>8. vols \in Seq(Nat) /\ Increasing(vols) /\ v \notin ToSet(vols) /\ d \in Devices
  BY <1>1, <1>7 DEF DeviceItemSet, Listed, HasVolume
<1>9. DOMAIN old = DOMAIN vols
  BY <1>1 DEF Matched, DeviceItems
<1>10. \A j \in DOMAIN old : old[j].dev = d /\ old[j].vol = vols[j]
  BY <1>1 DEF VolumesListed
<1>11. l \in Reached(t)
  BY <1>1, <1>4 DEF Reached, IsLinked, DeviceItems, Sound, TreeType, RootList
<1>12. old \in Seq(VolumeItemSet)
  BY <1>1, <1>4, <1>5 DEF Shaped, KindItems
<1>13. x \in VolumeItemSet /\ x.child = NoId /\ x.dev = d /\ x.vol = v
  BY <1>8, MaxIdIsNat DEF VolumeItem, VolumeItemSet
<1>14. KindItems(a)
  BY <1>2 DEF Shaped
<1> HIDE DEF d, x, old, vols
<1>15. /\ c \in 1..n + 1 /\ Len(new) = n + 1
       /\ \A j \in 1..n + 1 : new[j] = IF j < c THEN vols[j] ELSE IF j = c THEN v ELSE vols[j - 1]
       /\ LowerBound(new, v) = c
       /\ new \in Seq(Nat)
  BY <1>8, SortedInsert
<1>16. q = [a EXCEPT !.lists[l].items = InsertAt(a.lists[l].items, c, x)]
  <2>1. DeviceItems(a)[i].dev = d
    BY <1>3 DEF d
  <2>2. DeviceItems(a)[i].vols = new
    BY <1>3 DEF vols
  <2>3. q = [a EXCEPT !.lists[l].items =
                InsertAt(@, LowerBound(new, v), VolumeItem(d, v))]
    BY <2>1, <2>2
  <2> HIDE DEF c, new
  <2>4. q = [a EXCEPT !.lists[l].items = InsertAt(@, c, x)]
    BY <1>15, <2>3 DEF x
  <2>5. IsTree(a)
    BY DEF Sound, TreeType
  <2> QED
    BY <2>4, <2>5, <1>6 DEF IsTree
<1>17. n \in Nat /\ DOMAIN vols = 1..n /\ DOMAIN new = 1..n + 1
  BY <1>8, <1>15
<1> HIDE DEF c, n
<1>18. Len(old) = n
  <2> HIDE DEF VolumeItemSet
  <2> QED
    BY <1>9, <1>12, <1>17
<1>19. /\ Sound(q) /\ KindItems(q) /\ ItemsChange(a, q, l)
       /\ q.inv = a.inv /\ q.lists[l].kind = "volumes"
       /\ DOMAIN items = 1..n + 1
       /\ \A j \in 1..n + 1 :
             items[j] = IF j < c THEN old[j] ELSE IF j = c THEN x ELSE old[j - 1]
  <2> DEFINE was   == a.lists[l].items
  <2>1. was = old
    BY <1>6 DEF old
  <2>2. a.lists[l].kind = "volumes" /\ c \in 1..Len(was) + 1
    BY <1>5, <1>6, <1>15, <1>18, <2>1
  <2>3. PatchedBy(a, q, l, c, x)
    BY <1>6, <1>13, <1>14, <1>16, <2>2, PatchedList
  <2>4. /\ Sound(q) /\ KindItems(q) /\ ItemsChange(a, q, l) /\ q.inv = a.inv
        /\ q.lists[l].kind = "volumes"
        /\ DOMAIN q.lists[l].items = 1..Len(was) + 1
        /\ \A j \in 1..Len(was) + 1 :
              q.lists[l].items[j] = IF j < c THEN was[j] ELSE IF j = c THEN x ELSE was[j - 1]
    BY <2>3 DEF PatchedBy
  <2> HIDE DEF was
  <2> QED
    BY <1>18, <2>1, <2>4
<1>20. /\ q.root = t.root /\ DOMAIN q.lists = DOMAIN t.lists
       /\ \A k \in DOMAIN t.lists : k # l => q.lists[k] = a.lists[k]
  BY <1>3, <1>19 DEF ItemsChange
<1>21. DeviceItems(q) = DeviceItems(a)
  BY <1>3, <1>4, <1>20, DeviceItemsType DEF DeviceItems, Sound, TreeType, RootList
<1> HIDE DEF new
<1>22. ASSUME NEW j \in DOMAIN DeviceItems(q), DeviceItems(q)[j].child # NoId
       PROVE  LET item == DeviceItems(q)[j]
              IN /\ DOMAIN q.lists[item.child].items = DOMAIN item.vols
                 /\ \A m \in DOMAIN q.lists[item.child].items :
                       /\ q.lists[item.child].items[m].dev = item.dev
                       /\ q.lists[item.child].items[m].vol = item.vols[m]
  <2>1. j \in DOMAIN DeviceItems(t) /\ DeviceItems(q)[j].child = DeviceItems(t)[j].child
        /\ DeviceItems(q)[j].dev = DeviceItems(t)[j].dev
    BY <1>3, <1>21
  <2>2. CASE j = i
    <3>1. DeviceItems(q)[j].child = l /\ DeviceItems(q)[j].vols = new /\ DeviceItems(q)[j].dev = d
      BY <1>3, <1>21, <2>1, <2>2 DEF d
    <3>2. ASSUME NEW m \in 1..n + 1 PROVE items[m].dev = d /\ items[m].vol = new[m]
      <4>1. CASE m < c
        <5>1. m \in DOMAIN old
          BY <1>9, <1>15, <1>17, <4>1
        <5> QED
          BY <1>10, <1>15, <1>19, <4>1, <5>1
      <4>2. CASE m = c
        <5>1. ~(c < c) /\ c \in 1..n + 1
          BY <1>15, <1>17
        <5>2. items[c] = x /\ new[c] = v
          BY <1>15, <1>19, <5>1
        <5> QED
          BY <1>13, <4>2, <5>2
      <4>3. CASE m > c
        <5>1. m - 1 \in DOMAIN old /\ ~(m < c) /\ m # c
          BY <1>9, <1>15, <1>17, <4>3
        <5> QED
          BY <1>10, <1>15, <1>19, <5>1
      <4>4. c \in 1..n + 1 /\ n + 1 \in Nat
        BY <1>15, <1>17
      <4>5. m < c \/ m = c \/ m > c
        BY <4>4
      <4> HIDE DEF items
      <4> QED
        BY <4>1, <4>2, <4>3, <4>5
    <3>3. DOMAIN items = 1..n + 1 /\ DOMAIN new = 1..n + 1
      BY <1>17, <1>19
    <3> HIDE DEF items
    <3>4. /\ DOMAIN items = DOMAIN new
          /\ \A m \in DOMAIN items : items[m].dev = d /\ items[m].vol = new[m]
      BY <3>2, <3>3
    <3> DEFINE item == DeviceItems(q)[j]
    <3>5. item.child = l /\ item.vols = new /\ item.dev = d
      BY <3>1
    <3> HIDE DEF item
    <3>6. /\ DOMAIN q.lists[item.child].items = DOMAIN item.vols
          /\ \A m \in DOMAIN q.lists[item.child].items :
                /\ q.lists[item.child].items[m].dev = item.dev
                /\ q.lists[item.child].items[m].vol = item.vols[m]
      BY <3>4, <3>5 DEF items
    <3> QED
      BY <3>6 DEF item
  <2>3. CASE j # i
    <3>1. DeviceItems(q)[j].vols = DeviceItems(t)[j].vols
      BY <1>3, <1>21, <2>1, <2>3
    <3> DEFINE k == DeviceItems(t)[j].child
    <3>2. k # l /\ k \in DOMAIN t.lists \ {t.root}
      BY <1>1, <1>22, <2>1, <2>3, DeviceLinks
    <3>3. q.lists[k] = t.lists[k]
      BY <1>3, <1>20, <3>2
    <3>4. DOMAIN t.lists[k].items = DOMAIN DeviceItems(t)[j].vols
      BY <1>1, <1>22, <2>1 DEF Matched, DeviceItems
    <3>5. \A m \in DOMAIN t.lists[k].items : /\ t.lists[k].items[m].dev = DeviceItems(t)[j].dev
                                             /\ t.lists[k].items[m].vol = DeviceItems(t)[j].vols[m]
      BY <1>1, <1>22, <2>1 DEF VolumesListed
    <3> DEFINE item == DeviceItems(q)[j]
               was  == DeviceItems(t)[j]
    <3>6. item.child = k /\ item.dev = was.dev /\ item.vols = was.vols
      BY <2>1, <3>1
    <3>7. /\ DOMAIN t.lists[k].items = DOMAIN was.vols
          /\ \A m \in DOMAIN t.lists[k].items : /\ t.lists[k].items[m].dev = was.dev
                                               /\ t.lists[k].items[m].vol = was.vols[m]
      BY <3>4, <3>5
    <3> HIDE DEF item, was, k
    <3> DEFINE here == q.lists[item.child]
               there == t.lists[k]
    <3>8. here = there
      BY <3>3, <3>6
    <3>9. /\ DOMAIN there.items = DOMAIN was.vols
          /\ \A m \in DOMAIN there.items : there.items[m].dev = was.dev /\ there.items[m].vol = was.vols[m]
      BY <3>7
    <3> HIDE DEF here, there
    <3>10. /\ DOMAIN here.items = DOMAIN item.vols
           /\ \A m \in DOMAIN here.items : here.items[m].dev = item.dev /\ here.items[m].vol = item.vols[m]
      BY <3>6, <3>8, <3>9, Zenon
    <3> QED
      BY <3>10 DEF here, item
  <2> QED
    BY <2>2, <2>3
<1>23. Matched(q)
  BY <1>22 DEF Matched, DeviceItems
<1>24. VolumesListed(q)
  BY <1>22 DEF VolumesListed
<1>25. Listed(q)
  BY <1>2, <1>21 DEF Listed
<1>26. Shaped(q, pl) /\ Reached(q) = Reached(t)
  BY <1>2, <1>11, <1>19, ItemsShaped
<1>27. q.lists[l].kind = "volumes"
  BY <1>19
<1>28. Stored(q, pl, fs, X)
  <2>1. \A k \in Reached(q) : q.lists[k].kind = "dir" =>
           k \in Reached(a) /\ q.lists[k] = a.lists[k]
    BY <1>2, <1>20, <1>26, <1>27 DEF Reached
  <2> QED
    BY <1>2, <2>1 DEF Stored, InPlace
<1>29. Proper(q, pl, fs, X)
  BY <1>19, <1>23, <1>24, <1>25, <1>26, <1>28 DEF Proper, Rich
<1>30. ASSUME NEW k \in Reached(t), k # l PROVE Kept(t, pl, q, pl, k, k)
  <2>1. q.lists[k] = a.lists[k] /\ Kept(t, pl, a, pl, k, k)
    BY <1>2, <1>20, <1>30 DEF Reached
  <2> QED
    BY <1>26, <1>30, <2>1 DEF Kept, Looks, ShowsAt
<1>31. VolumeKnown(t, q, d, v)
  <2>1. \A e : Lists(q, e) <=> Lists(a, e)
    BY <1>21 DEF Lists
  <2>2. \A e, w : ListsVolume(q, e, w) <=> ListsVolume(a, e, w)
    BY <1>21 DEF ListsVolume
  <2> QED
    BY <1>2, <2>1, <2>2 DEF VolumeKnown
<1> QED
  BY <1>3, <1>11, <1>19, <1>20, <1>21, <1>26, <1>29, <1>30, <1>31 DEF d, PatchOf

-----------------------------------------------------------------------------
(* What the broker tells clients *)

(* List old has become list new, and all other lists are what they were. *)
Reissued(t, pl, u, pl2, old, new) ==
    /\ u.inv = Append(t.inv, <<old, new>>)
    /\ old \in Reached(t) /\ old # NoId
    /\ new \in Reached(u) /\ new # NoId
    /\ pl2[new] = pl[old]
    /\ \A k \in Reached(t) \ {old} : Kept(t, pl, u, pl2, k, k)

Untouched(t, pl, u, pl2) ==
    /\ u.inv = t.inv
    /\ \A k \in Reached(t) : Kept(t, pl, u, pl2, k, k)

(* One change after the other *)
LEMMA KeptOn ==
    ASSUME NEW t, NEW pl, NEW u, NEW pl2, NEW v, NEW pl3, NEW k, NEW l, NEW m,
           Kept(t, pl, u, pl2, k, l), Kept(u, pl2, v, pl3, l, m)
    PROVE  Kept(t, pl, v, pl3, k, m)
<1>1. Looks(t, k, u, l) /\ Looks(u, l, v, m)
  BY DEF Kept
<1>2. Looks(t, k, v, m)
  BY <1>1, LooksOn
<1> QED
  BY <1>2 DEF Kept

(* reinsert_device_list() after a change in the list of devices *)
LEMMA DevicesReissued ==
    ASSUME NEW t, NEW pl, NEW fs, NEW X, Proper(t, pl, fs, X), NEW o, NEW plo, t.root = o.root,
           t.inv = o.inv, o.root \in Reached(o), o.root # NoId, plo[o.root] = <<>>,
           \A l \in Reached(o) \ {o.root} : Kept(o, plo, t, pl, l, l)
    PROVE  LET u == ReinsertDeviceList(t)
           IN \E pl2 : /\ Proper(u, pl2, fs, X)
                       /\ Reissued(o, plo, u, pl2, o.root, u.root)
                       /\ \A e : Lists(u, e) <=> Lists(t, e)
                       /\ \A e, v : ListsVolume(u, e, v) <=> ListsVolume(t, e, v)
<1> DEFINE u == ReinsertDeviceList(t)
<1>1. /\ u.inv = Append(t.inv, <<t.root, u.root>>)
      /\ u.root # NoId
      /\ \E pl2 : Proper(u, pl2, fs, X) /\ IsRenaming(t, pl, u, pl2, t.root, u.root)
  BY DevicesRenewed
<1> HIDE DEF u
<1>2. PICK pl2 : Proper(u, pl2, fs, X) /\ IsRenaming(t, pl, u, pl2, t.root, u.root)
  BY <1>1
<1>3. u.root \in Reached(u) /\ pl2[u.root] = <<>>
  BY <1>2, RootReached DEF Proper, Rich, Shaped, Placed, Sound
<1>4. ASSUME NEW l \in Reached(o) \ {o.root} PROVE Kept(o, plo, u, pl2, l, l)
  <2>1. Kept(o, plo, t, pl, l, l)
    OBVIOUS
  <2>2. l \in Reached(t) \ {t.root}
    BY <2>1 DEF Kept
  <2>3. Kept(t, pl, u, pl2, l, l)
    BY <1>2, <2>2 DEF IsRenaming
  <2> QED
    BY <2>1, <2>3, KeptOn
<1>5. Reissued(o, plo, u, pl2, o.root, u.root)
  BY <1>1, <1>3, <1>4 DEF Reissued
<1> QED
  BY <1>2, <1>5 DEF IsRenaming, u

(* A volume is added to a device, and its list, if there is one, gets another *)
(* ID.                                                                        *)
LEMMA NewVolumeProper ==
    ASSUME NEW t, NEW pl, NEW fs, NEW X, Proper(t, pl, fs, X),
           NEW i \in DOMAIN DeviceItems(t), NEW v \in Nat, ~HasVolume(DeviceItems(t)[i].vols, v)
    PROVE  LET u == ReinsertVolumeList(AddVolume(t, i, v), i, v)
           IN \E pl2 : /\ Proper(u, pl2, fs, X)
                       /\ VolumeKnown(t, u, DeviceItems(t)[i].dev, v)
                       /\ \/ Untouched(t, pl, u, pl2)
                          \/ \E old, new : Reissued(t, pl, u, pl2, old, new)
<1> DEFINE a    == AddVolume(t, i, v)
           u    == ReinsertVolumeList(a, i, v)
           d    == DeviceItems(t)[i].dev
           l    == DeviceItems(t)[i].child
           item == DeviceItems(a)[i]
           q    == [a EXCEPT !.lists[l].items =
                       InsertAt(@, LowerBound(item.vols, v), VolumeItem(item.dev, v))]
           new  == NewIdFor(q, l)
           r    == SetChildList(ReinsertList(q, l), a.root, i, new)
<1>1. /\ Sound(t) /\ Matched(t) /\ Shaped(t, pl) /\ Listed(t) /\ VolumesListed(t)
      /\ Stored(t, pl, fs, X)
  BY DEF Proper, Rich
<1>2. VolumeListed(t, a, i, v) /\ Sound(a)
  BY <1>1, AddVolumeListed
<1>3. Sound(u) /\ Matched(u)
  BY <1>1, NewVolumeInv
<1>4. item.child = l
  BY <1>2 DEF VolumeListed
<1>5. u = IF l = NoId THEN a ELSE r
  BY <1>4 DEF ReinsertVolumeList, Items, DeviceItems
<1> HIDE DEF a, u
<1>6. CASE l = NoId
  <2>1. u = a
    BY <1>5, <1>6
  <2>2. /\ Shaped(a, pl) /\ Listed(a) /\ Stored(a, pl, fs, X)
        /\ Reached(a) = Reached(t) /\ DevicesChange(t, a)
        /\ \A k \in Reached(t) : Kept(t, pl, a, pl, k, k)
        /\ VolumeKnown(t, a, d, v)
    BY <1>1, <1>2, VolumeListedRight
  <2>3. VolumesListed(a)
    <3>1. ASSUME NEW j \in DOMAIN DeviceItems(a), DeviceItems(a)[j].child # NoId
          PROVE  \E k \in DOMAIN DeviceItems(t) : /\ DeviceItems(t)[k].child = DeviceItems(a)[j].child
                                                  /\ DeviceItems(t)[k].dev = DeviceItems(a)[j].dev
                                                  /\ DeviceItems(t)[k].vols = DeviceItems(a)[j].vols
      <4>1. j # i
        BY <1>4, <1>6, <3>1
      <4> QED
        BY <1>2, <4>1 DEF VolumeListed
    <3> QED
      BY <1>1, <2>2, <3>1, DevicesVolumes
  <2>4. Proper(u, pl, fs, X)
    BY <1>3, <2>1, <2>2, <2>3 DEF Proper, Rich
  <2>5. Untouched(t, pl, u, pl)
    BY <1>2, <2>1, <2>2 DEF Untouched, VolumeListed
  <2> QED
    BY <2>1, <2>2, <2>4, <2>5 DEF u, a
<1>7. CASE l # NoId
  <2>1. /\ Proper(q, pl, fs, X)
        /\ q.inv = t.inv /\ q.root = t.root /\ DeviceItems(q) = DeviceItems(a)
        /\ Reached(q) = Reached(t) /\ l \in Reached(t)
        /\ VolumeKnown(t, q, d, v)
        /\ \A k \in Reached(t) \ {l} : Kept(t, pl, q, pl, k, k)
    <3>1. q = [a EXCEPT !.lists[l].items =
                  InsertAt(@, LowerBound(DeviceItems(a)[i].vols, v),
                           VolumeItem(DeviceItems(a)[i].dev, v))]
      OBVIOUS
    <3>2. l = DeviceItems(t)[i].child /\ d = DeviceItems(t)[i].dev
      OBVIOUS
    <3> HIDE DEF q, l, d
    <3>3. /\ Proper(q, pl, fs, X)
          /\ PatchOf(t, pl, q, a, l)
          /\ VolumeKnown(t, q, DeviceItems(t)[i].dev, v)
      BY <1>2, <1>7, <3>1, <3>2, PatchedRight
    <3> QED
      BY <3>2, <3>3 DEF PatchOf
  <2>2. u = SetChildList(ReinsertList(q, l), q.root, i, new)
    BY <1>2, <1>5, <1>7, <2>1 DEF VolumeListed
  <2>3. Sound(q) /\ KindItems(q)
    BY <2>1 DEF Proper, Rich, Shaped
  <2>4. i \in DOMAIN DeviceItems(q) /\ DeviceItems(q)[i].child = l
    BY <1>2, <2>1, <1>4 DEF VolumeListed
  <2> HIDE DEF q, l
  <2>5. Renamed(q, u, l, new) /\ u.inv = Append(q.inv, <<l, new>>)
    BY <1>7, <2>2, <2>3, <2>4, VolumesRenamed
  <2>6. PICK pl2 : Proper(u, pl2, fs, X) /\ IsRenaming(q, pl, u, pl2, l, new)
    BY <1>3, <2>1, <2>5, RenamedProper
  <2>7. Kept(q, pl, u, pl2, l, new) /\ \A k \in Reached(q) \ {l} : Kept(q, pl, u, pl2, k, k)
    BY <2>1, <2>6 DEF IsRenaming
  <2>8. ASSUME NEW k \in Reached(t) \ {l} PROVE Kept(t, pl, u, pl2, k, k)
    BY <2>1, <2>7, KeptOn
  <2>9. new # NoId
    BY <2>5 DEF Renamed
  <2> HIDE DEF new
  <2>10. Reissued(t, pl, u, pl2, l, new)
    <3>1. new \in Reached(u) /\ pl2[new] = pl[l]
      BY <2>7 DEF Kept
    <3>2. u.inv = Append(t.inv, <<l, new>>)
      BY <2>1, <2>5
    <3> QED
      BY <1>7, <2>1, <2>8, <2>9, <3>1, <3>2 DEF Reissued
  <2>11. VolumeKnown(t, u, d, v)
    BY <2>1, <2>6 DEF VolumeKnown, IsRenaming
  <2> QED
    BY <2>6, <2>10, <2>11 DEF u, a
<1> QED
  BY <1>6, <1>7

-----------------------------------------------------------------------------
(* Lists leave the cache. *)

(* obliviate_child(), item by item *)
LEMMA ObliviatedItems ==
    ASSUME NEW t, Sound(t), NEW p \in DOMAIN t.lists, NEW gone, gone \subseteq DOMAIN t.lists
    PROVE  LET items == t.lists[p].items
               left  == ObliviateChild(t, p, gone)
           IN /\ DOMAIN left = DOMAIN items
              /\ left = [i \in DOMAIN items |-> left[i]]
              /\ \A i \in DOMAIN items :
                    left[i] = IF items[i].child \in gone THEN [items[i] EXCEPT !.child = NoId]
                              ELSE items[i]
<1> DEFINE items == t.lists[p].items
           forgetful == {ItemByChild(t, p, l) : l \in {k \in gone : ParentOf(t, k) = p}}
           left == [i \in DOMAIN items |->
                       IF i \in forgetful THEN [items[i] EXCEPT !.child = NoId] ELSE items[i]]
<1>1. ObliviateChild(t, p, gone) = left
  BY DEF ObliviateChild, Items
<1>2. NoId \notin gone
  BY DEF Sound, IdsInUse
<1>3. ASSUME NEW i \in DOMAIN items
      PROVE  i \in forgetful <=> items[i].child \in gone
  <2>1. ASSUME NEW l \in gone, ItemByChild(t, p, l) = i PROVE items[i].child = l
    BY <2>1, FoundLinks DEF Items
  <2>2. ASSUME items[i].child \in gone PROVE i \in forgetful
    <3>1. ParentOf(t, items[i].child) = p /\ ItemByChild(t, p, items[i].child) = i
      BY <1>2, <2>2, LinkFound DEF Items, ParentOf
    <3> QED
      BY <2>2, <3>1
  <2> QED
    BY <2>1, <2>2
<1> HIDE DEF forgetful
<1> QED
  BY <1>1, <1>3

(* Tree u is tree t without the lists gone, and without links to them. *)
Pruned(t, u, gone) ==
    /\ u.root = t.root /\ DOMAIN u.lists = DOMAIN t.lists \ gone
    /\ \A k \in DOMAIN u.lists :
          /\ u.lists[k].kind = t.lists[k].kind
          /\ DOMAIN u.lists[k].items = DOMAIN t.lists[k].items
          /\ \A j \in DOMAIN t.lists[k].items :
                LET a == t.lists[k].items[j]
                    b == u.lists[k].items[j]
                IN /\ Apart(t.lists[k].kind, a, b)
                   /\ b.child = IF a.child \in gone THEN NoId ELSE a.child

(* discard() *)
LEMMA WithoutPruned ==
    ASSUME NEW t, Sound(t), KindItems(t), NEW gone, gone \subseteq DOMAIN t.lists, t.root \notin gone
    PROVE  LET u == Without(t, gone)
           IN /\ Pruned(t, u, gone)
              /\ u.inv = t.inv
              /\ \A k \in DOMAIN u.lists : u.lists[k].items = ObliviateChild(t, k, gone)
<1> DEFINE left(k) == [t.lists[k] EXCEPT !.parent = IF @ \in gone THEN NoId ELSE @,
                                         !.items = ObliviateChild(t, k, gone)]
           lists == [k \in DOMAIN t.lists \ gone |-> left(k)]
           u == Without(t, gone)
<1>1. u = [t EXCEPT !.lists = lists]
  BY DEF Without
<1>2. TreeType(t) /\ IsTree(t) /\ t.root \in DOMAIN t.lists
  BY DEF Sound, TreeType, RootList
<1> HIDE DEF u
<1>3. u.root = t.root /\ u.inv = t.inv /\ u.lists = lists
  <2> HIDE DEF lists
  <2> QED
    BY <1>1, <1>2 DEF IsTree
<1>4. ASSUME NEW k \in DOMAIN t.lists
      PROVE  left(k).kind = t.lists[k].kind /\ left(k).items = ObliviateChild(t, k, gone)
  <2>1. t.lists[k] \in ListSet
    BY <1>2 DEF TreeType
  <2> DEFINE items == ObliviateChild(t, k, gone)
             parent == IF t.lists[k].parent \in gone THEN NoId ELSE t.lists[k].parent
  <2>2. left(k) = [t.lists[k] EXCEPT !.parent = parent, !.items = items]
    OBVIOUS
  <2> HIDE DEF items, parent, left
  <2> QED
    BY <2>1, <2>2 DEF ListSet, items
<1> HIDE DEF left
<1>5. DOMAIN u.lists = DOMAIN t.lists \ gone
  BY <1>3
<1>6. \A k \in DOMAIN u.lists : /\ u.lists[k].kind = t.lists[k].kind
                                /\ u.lists[k].items = ObliviateChild(t, k, gone)
  BY <1>3, <1>4
<1> HIDE DEF lists
<1>7. ASSUME NEW k \in DOMAIN u.lists
      PROVE  /\ DOMAIN u.lists[k].items = DOMAIN t.lists[k].items
             /\ \A j \in DOMAIN t.lists[k].items :
                   LET a == t.lists[k].items[j]
                       b == u.lists[k].items[j]
                   IN /\ Apart(t.lists[k].kind, a, b)
                      /\ b.child = IF a.child \in gone THEN NoId ELSE a.child
  <2>1. k \in DOMAIN t.lists
    BY <1>5
  <2> DEFINE items == t.lists[k].items
             left2 == ObliviateChild(t, k, gone)
  <2>2. /\ DOMAIN left2 = DOMAIN items
        /\ \A j \in DOMAIN items :
              left2[j] = IF items[j].child \in gone THEN [items[j] EXCEPT !.child = NoId]
                         ELSE items[j]
    BY <2>1, ObliviatedItems
  <2>3. ASSUME NEW j \in DOMAIN items
        PROVE  LET b == left2[j]
               IN /\ Apart(t.lists[k].kind, items[j], b)
                  /\ b.child = IF items[j].child \in gone THEN NoId ELSE items[j].child
    <3>1. /\ t.lists[k].kind \in {"devices", "volumes", "dir"}
          /\ t.lists[k].kind = "devices" => items[j] \in DeviceItemSet
          /\ t.lists[k].kind = "volumes" => items[j] \in VolumeItemSet
          /\ t.lists[k].kind = "dir" => items[j] \in DirItemSet
      BY <2>1, ItemKind
    <3>2. Apart(t.lists[k].kind, items[j], items[j])
      BY <2>1, SelfApart
    <3> DEFINE it == items[j]
               x == [it EXCEPT !.child = NoId]
    <3>3. NoId \in IdsAndNone
      BY MaxIdIsNat
    <3>4. Apart(t.lists[k].kind, it, x) /\ x.child = NoId
      <4> HIDE DEF items, it
      <4>1. /\ t.lists[k].kind = "devices" => it \in DeviceItemSet
            /\ t.lists[k].kind = "volumes" => it \in VolumeItemSet
            /\ t.lists[k].kind = "dir" => it \in DirItemSet
        BY <3>1 DEF it
      <4> QED
        BY <3>1, <3>3, <4>1, ItemApart DEF Apart
    <3>5. left2[j] = IF it.child \in gone THEN x ELSE it
      BY <2>2
    <3> HIDE DEF x, left2
    <3> QED
      BY <3>2, <3>4, <3>5
  <2> HIDE DEF left2
  <2>4. u.lists[k].items = left2
    BY <1>6 DEF left2
  <2> QED
    BY <2>2, <2>3, <2>4
<1>8. Pruned(t, u, gone)
  BY <1>3, <1>5, <1>6, <1>7 DEF Pruned
<1> QED
  BY <1>3, <1>6, <1>8 DEF u

(* What is left looks as it did. *)
LEMMA PrunedLooks ==
    ASSUME NEW t, NEW u, NEW gone, Pruned(t, u, gone), NEW k \in DOMAIN u.lists
    PROVE  Looks(t, k, u, k)
<1>1. /\ u.lists[k].kind = t.lists[k].kind
      /\ DOMAIN u.lists[k].items = DOMAIN t.lists[k].items
      /\ \A j \in DOMAIN t.lists[k].items :
            Apart(t.lists[k].kind, t.lists[k].items[j], u.lists[k].items[j])
  BY DEF Pruned
<1>2. ASSUME NEW j \in DOMAIN t.lists[k].items
      PROVE  /\ ShowsAt(u, k, j) = ShowsAt(t, k, j)
             /\ t.lists[k].kind = "dir" => u.lists[k].items[j].dir = t.lists[k].items[j].dir
  BY <1>1 DEF ShowsAt, Apart
<1> QED
  BY <1>1, <1>2 DEF Looks

(* The items keep their class. *)
LEMMA PrunedKinds ==
    ASSUME NEW t, NEW u, TreeType(u), NEW gone, Pruned(t, u, gone)
    PROVE  KindItems(u)
<1> SUFFICES ASSUME NEW k \in DOMAIN u.lists
             PROVE  /\ u.lists[k].kind = "volumes" => u.lists[k].items \in Seq(VolumeItemSet)
                    /\ u.lists[k].kind = "dir" => u.lists[k].items \in Seq(DirItemSet)
  BY DEF KindItems
<1> DEFINE a  == t.lists[k].items
           b  == u.lists[k].items
           kd == t.lists[k].kind
<1>2. u.lists[k].kind = kd /\ DOMAIN b = DOMAIN a /\ \A j \in DOMAIN a : Apart(kd, a[j], b[j])
  BY DEF Pruned
<1>3. b \in Seq(ItemSet)
  BY DEF TreeType, ListSet
<1> HIDE DEF a, b, kd
<1>4. kd = "volumes" => \A j \in DOMAIN b : b[j] \in VolumeItemSet
  BY <1>2 DEF Apart
<1>5. kd = "dir" => \A j \in DOMAIN b : b[j] \in DirItemSet
  BY <1>2 DEF Apart
<1>6. kd = "volumes" => b \in Seq(VolumeItemSet)
  <2> HIDE DEF ItemSet, VolumeItemSet
  <2> QED
    BY <1>3, <1>4
<1>7. kd = "dir" => b \in Seq(DirItemSet)
  <2> HIDE DEF ItemSet, DirItemSet
  <2> QED
    BY <1>3, <1>5
<1> QED
  BY <1>2, <1>6, <1>7 DEF b

(* The devices stay, and so do links from them, except to what is gone. *)
LEMMA PrunedDevices ==
    ASSUME NEW t, Sound(t), NEW u, Sound(u), NEW gone, Pruned(t, u, gone)
    PROVE  /\ DOMAIN DeviceItems(u) = DOMAIN DeviceItems(t)
           /\ \A j \in DOMAIN DeviceItems(t) :
                 /\ DeviceItems(u)[j].dev = DeviceItems(t)[j].dev
                 /\ DeviceItems(u)[j].vols = DeviceItems(t)[j].vols
                 /\ DeviceItems(u)[j].child = IF DeviceItems(t)[j].child \in gone THEN NoId
                                              ELSE DeviceItems(t)[j].child
<1>1. /\ t.root \in DOMAIN u.lists /\ u.root = t.root /\ t.lists[t.root].kind = "devices"
  BY DEF Sound, TreeType, RootList, Pruned
<1>2. /\ DOMAIN u.lists[t.root].items = DOMAIN t.lists[t.root].items
      /\ \A j \in DOMAIN t.lists[t.root].items :
            /\ Apart("devices", t.lists[t.root].items[j], u.lists[t.root].items[j])
            /\ u.lists[t.root].items[j].child
                  = IF t.lists[t.root].items[j].child \in gone THEN NoId
                    ELSE t.lists[t.root].items[j].child
  BY <1>1 DEF Pruned
<1> QED
  BY <1>1, <1>2 DEF DeviceItems, Apart

(* Lists of volumes still show the volumes of their devices. *)
LEMMA PrunedVolumes ==
    ASSUME NEW t, Sound(t), VolumesListed(t), NEW u, Sound(u), NEW gone, Pruned(t, u, gone)
    PROVE  VolumesListed(u)
<1> SUFFICES ASSUME NEW j \in DOMAIN DeviceItems(u), DeviceItems(u)[j].child # NoId
             PROVE  LET item == DeviceItems(u)[j]
                    IN \A n \in DOMAIN u.lists[item.child].items :
                          /\ u.lists[item.child].items[n].dev = item.dev
                          /\ u.lists[item.child].items[n].vol = item.vols[n]
  BY DEF VolumesListed
<1> DEFINE c == DeviceItems(u)[j].child
<1>1. /\ j \in DOMAIN DeviceItems(t)
      /\ DeviceItems(u)[j].dev = DeviceItems(t)[j].dev
      /\ DeviceItems(u)[j].vols = DeviceItems(t)[j].vols
      /\ DeviceItems(t)[j].child = c
  BY PrunedDevices
<1>2. c \in DOMAIN u.lists /\ u.lists[c].parent = u.root /\ c # u.root
  BY DeviceLinks
<1>3. u.lists[c].kind = "volumes"
  BY <1>2 DEF Sound, ParentsRight, IdsInUse, TreeType, RootList
<1>4. \A n \in DOMAIN t.lists[c].items : /\ t.lists[c].items[n].dev = DeviceItems(t)[j].dev
                                         /\ t.lists[c].items[n].vol = DeviceItems(t)[j].vols[n]
  BY <1>1 DEF VolumesListed
<1> HIDE DEF c
<1>5. ASSUME NEW n \in DOMAIN u.lists[c].items
      PROVE  /\ u.lists[c].items[n].dev = DeviceItems(t)[j].dev
             /\ u.lists[c].items[n].vol = DeviceItems(t)[j].vols[n]
  <2>1. n \in DOMAIN t.lists[c].items /\ Apart("volumes", t.lists[c].items[n], u.lists[c].items[n])
    BY <1>2, <1>3 DEF Pruned
  <2> QED
    BY <1>4, <2>1 DEF Apart
<1> QED
  BY <1>1, <1>5 DEF c

(* What a client may know is what it was, except for what is gone. *)
LEMMA PrunedShaped ==
    ASSUME NEW t, NEW pl, Sound(t), Shaped(t, pl), NEW u, Sound(u), NEW gone, Pruned(t, u, gone),
           \A k \in Reached(t) \ {t.root} : t.lists[k].parent \in gone => k \in gone
    PROVE  LET pl2 == [k \in DOMAIN u.lists |-> pl[k]]
           IN /\ Shaped(u, pl2)
              /\ Reached(u) = Reached(t) \ gone
<1> DEFINE ren == [k \in DOMAIN u.lists |-> k]
<1>1. \A k \in DOMAIN u.lists : ren[k] = k
  OBVIOUS
<1>2. /\ DOMAIN u.lists = DOMAIN t.lists \ gone /\ u.root = t.root /\ u.root \in DOMAIN u.lists
      /\ NoId \notin DOMAIN t.lists
  BY DEF Pruned, Sound, TreeType, RootList, IdsInUse
<1> HIDE DEF ren
<1>3. ASSUME NEW k \in DOMAIN u.lists
      PROVE  /\ DOMAIN u.lists[k].items = DOMAIN t.lists[k].items
             /\ \A j \in DOMAIN t.lists[k].items :
                   /\ u.lists[k].items[j].child = IF t.lists[k].items[j].child \in gone THEN NoId
                                                  ELSE t.lists[k].items[j].child
                   /\ ShowsAt(u, k, j) = ShowsAt(t, k, j)
  <2>1. Looks(t, k, u, k)
    BY PrunedLooks
  <2> QED
    BY <2>1 DEF Pruned, Looks
<1>4. KindItems(u)
  BY PrunedKinds DEF Sound
<1>5. ASSUME NEW k \in DOMAIN u.lists, NEW i \in DOMAIN u.lists[k].items,
             u.lists[k].items[i].child # NoId
      PROVE  \E j \in DOMAIN t.lists[ren[k]].items :
                /\ t.lists[ren[k]].items[j].child = ren[u.lists[k].items[i].child]
                /\ ShowsAt(u, k, i) = ShowsAt(t, ren[k], j)
  <2>1. u.lists[k].items[i].child \in DOMAIN u.lists
    BY <1>5 DEF Sound, LinksRight, LinkRight
  <2> QED
    BY <1>1, <1>3, <1>5, <2>1
<1>6. ASSUME NEW k \in DOMAIN u.lists, ren[k] \in Reached(t) PROVE k \in Reached(u)
  <2>0. k \in Reached(t) /\ k \notin gone
    BY <1>1, <1>2, <1>6
  <2>1. CASE k = t.root
    BY <1>2, <2>1 DEF Reached
  <2>2. CASE k # t.root
    <3>1. LET p == t.lists[k].parent
              i == ItemByChild(t, p, k)
          IN p \in Reached(t) /\ i \in DOMAIN t.lists[p].items /\ t.lists[p].items[i].child = k
      BY <2>0, <2>2, LinkUp DEF Shaped
    <3>2. t.lists[k].parent \notin gone
      BY <2>0, <2>2
    <3>3. t.lists[k].parent \in DOMAIN u.lists
      BY <1>2, <3>1, <3>2 DEF Reached
    <3> QED
      BY <1>3, <2>0, <3>1, <3>3 DEF Reached, IsLinked
  <2> QED
    BY <2>1, <2>2
<1>7. ASSUME NEW k \in DOMAIN u.lists, u.lists[k].items # <<>> PROVE ren[k] \in Reached(t)
  <2>1. u.lists[k].items \in Seq(ItemSet)
    BY DEF Sound, TreeType, ListSet
  <2>2. DOMAIN u.lists[k].items # {}
    <3>1. \A s \in Seq(ItemSet) : DOMAIN s = {} => s = <<>>
      OBVIOUS
    <3> QED
      BY <1>7, <2>1, <3>1
  <2>3. t.lists[k].items # <<>>
    BY <1>3, <2>2
  <2> QED
    BY <1>1, <1>2, <2>3 DEF Shaped, StraysEmpty
<1> DEFINE pl1 == [k \in DOMAIN u.lists |-> pl[ren[k]]]
           pl2 == [k \in DOMAIN u.lists |-> pl[k]]
<1>8. \A k \in DOMAIN u.lists : ren[k] \in DOMAIN t.lists
  BY <1>1, <1>2
<1>9. ren[u.root] = t.root
  BY <1>1, <1>2
<1>10. Shaped(u, pl1) /\ \A k \in Reached(u) : ren[k] \in Reached(t)
  BY <1>4, <1>5, <1>6, <1>7, <1>8, <1>9, Relabel
<1>11. pl1 = pl2
  BY <1>1
<1>12. Reached(u) \subseteq DOMAIN u.lists /\ Reached(t) \subseteq DOMAIN t.lists
  BY DEF Reached
<1>13. Reached(u) = Reached(t) \ gone
  BY <1>1, <1>2, <1>6, <1>10, <1>12
<1> QED
  BY <1>10, <1>11, <1>13

(* What clients know is still there, except for what is gone, and the broker *)
(* knows the same devices and volumes.                                       *)
IsPruning(t, pl, u, pl2, gone) ==
    /\ \A k \in Reached(t) \ gone : Kept(t, pl, u, pl2, k, k)
    /\ \A e : Lists(u, e) <=> Lists(t, e)
    /\ \A e, v : ListsVolume(u, e, v) <=> ListsVolume(t, e, v)

(* A right tree is right without some lists and all lists below them. *)
LEMMA PrunedProper ==
    ASSUME NEW t, NEW pl, NEW fs, NEW X, Proper(t, pl, fs, X), NEW u, Sound(u), Matched(u),
           NEW gone, Pruned(t, u, gone),
           \A k \in Reached(t) \ {t.root} : t.lists[k].parent \in gone => k \in gone
    PROVE  \E pl2 : Proper(u, pl2, fs, X) /\ IsPruning(t, pl, u, pl2, gone)
<1> DEFINE pl2 == [k \in DOMAIN u.lists |-> pl[k]]
<1>1. /\ Sound(t) /\ Matched(t) /\ Shaped(t, pl) /\ Listed(t) /\ VolumesListed(t)
      /\ Stored(t, pl, fs, X)
  BY DEF Proper, Rich
<1>2. Shaped(u, pl2) /\ Reached(u) = Reached(t) \ gone
  BY <1>1, PrunedShaped
<1>3. Reached(u) \subseteq DOMAIN u.lists
  BY DEF Reached
<1>4. \A k \in DOMAIN u.lists : pl2[k] = pl[k]
  OBVIOUS
<1> HIDE DEF pl2
<1>5. ASSUME NEW k \in Reached(t) \ gone PROVE Kept(t, pl, u, pl2, k, k)
  BY <1>2, <1>3, <1>4, PrunedLooks DEF Kept
<1>6. /\ DOMAIN DeviceItems(u) = DOMAIN DeviceItems(t)
      /\ \A j \in DOMAIN DeviceItems(t) : /\ DeviceItems(u)[j].dev = DeviceItems(t)[j].dev
                                          /\ DeviceItems(u)[j].vols = DeviceItems(t)[j].vols
  BY <1>1, PrunedDevices
<1>7. Listed(u)
  BY <1>1, <1>6 DEF Listed
<1>8. VolumesListed(u)
  BY <1>1, PrunedVolumes
<1>9. Stored(u, pl2, fs, X)
  <2> DEFINE ren == [k \in DOMAIN u.lists |-> k]
  <2>1. \A k \in Reached(u) : ren[k] = k
    BY <1>3
  <2> HIDE DEF ren
  <2>2. \A k \in Reached(u) : ren[k] \in Reached(t) /\ pl2[k] = pl[ren[k]]
    BY <1>2, <1>3, <1>4, <2>1
  <2>3. \A k \in Reached(u) : Looks(t, ren[k], u, k)
    BY <1>3, <2>1, PrunedLooks
  <2>4. TreeType(t) /\ TreeType(u)
    BY <1>1 DEF Sound
  <2> QED
    BY <1>1, <2>2, <2>3, <2>4, RelabelStored
<1>10. Proper(u, pl2, fs, X)
  BY <1>2, <1>7, <1>8, <1>9 DEF Proper, Rich
<1>11. IsPruning(t, pl, u, pl2, gone)
  BY <1>5, <1>6 DEF IsPruning, Lists, ListsVolume
<1> QED
  BY <1>10, <1>11

(* A tree that has collected other signals is as right. *)
LEMMA ProperAside ==
    ASSUME NEW t, NEW pl, NEW fs, NEW X, Proper(t, pl, fs, X), NEW x, NEW u, u = [t EXCEPT !.inv = x]
    PROVE  /\ Proper(u, pl, fs, X)
           /\ u.inv = x /\ u.root = t.root /\ u.lists = t.lists
           /\ IsPruning(t, pl, u, pl, {})
<1>1. /\ Sound(t) /\ Matched(t) /\ Shaped(t, pl) /\ Listed(t) /\ VolumesListed(t)
      /\ Stored(t, pl, fs, X) /\ IsTree(t)
  BY DEF Proper, Rich, Sound, TreeType
<1>2. /\ u.lists = t.lists /\ u.root = t.root /\ Sound(u) /\ Matched(u)
  BY <1>1, InvAside
<1>3. u.inv = x
  BY <1>1 DEF IsTree
<1>4. Reached(u) = Reached(t) /\ DeviceItems(u) = DeviceItems(t)
  BY <1>2 DEF Reached, IsLinked, DeviceItems
<1>5. Shaped(u, pl)
  <2>1. Placed(t, pl) /\ StraysEmpty(t) /\ KindItems(t)
    BY <1>1 DEF Shaped
  <2>2. Placed(u, pl)
    BY <1>2, <2>1 DEF Placed, ShowsAt
  <2>3. StraysEmpty(u) /\ KindItems(u)
    BY <1>2, <1>4, <2>1 DEF StraysEmpty, KindItems
  <2> QED
    BY <2>2, <2>3 DEF Shaped
<1>6. Listed(u) /\ VolumesListed(u)
  BY <1>1, <1>2, <1>4 DEF Listed, VolumesListed
<1>7. Stored(u, pl, fs, X)
  BY <1>1, <1>2, <1>4 DEF Stored, InPlace
<1>8. IsPruning(t, pl, u, pl, {})
  <2>1. ASSUME NEW k \in Reached(t) PROVE Kept(t, pl, u, pl, k, k)
    BY <1>2, <1>4, LooksSame DEF Kept, Looks, ShowsAt
  <2> QED
    BY <1>4, <2>1 DEF IsPruning, Lists, ListsVolume
<1> QED
  BY <1>2, <1>3, <1>5, <1>6, <1>7, <1>8 DEF Proper, Rich

(* discard() of a list that has no child lists *)
LEMMA DiscardProper ==
    ASSUME NEW t, NEW pl, NEW fs, NEW X, Proper(t, pl, fs, X),
           NEW l \in DOMAIN t.lists, l # t.root, IsLeaf(t, l)
    PROVE  LET u == Discard(t, l)
           IN /\ u.inv = Append(t.inv, <<l, NoId>>)
              /\ \E pl2 : Proper(u, pl2, fs, X) /\ IsPruning(t, pl, u, pl2, {l})
<1> DEFINE w == Without(t, {l})
           u == Discard(t, l)
           x == Append(w.inv, <<l, NoId>>)
<1>1. Sound(t) /\ Matched(t) /\ KindItems(t)
  BY DEF Proper, Rich, Shaped
<1>2. u = [w EXCEPT !.inv = x]
  BY DEF Discard, Emit
<1>3. Pruned(t, w, {l}) /\ w.inv = t.inv
  BY <1>1, WithoutPruned
<1>4. Sound(w) /\ Matched(w)
  BY <1>1, WithoutInv
<1>5. \A k \in Reached(t) \ {t.root} : t.lists[k].parent \notin {l}
  BY DEF IsLeaf, Reached
<1> HIDE DEF w, x, u
<1>6. PICK pl2 : Proper(w, pl2, fs, X) /\ IsPruning(t, pl, w, pl2, {l})
  BY <1>3, <1>4, <1>5, PrunedProper
<1>7. Proper(u, pl2, fs, X) /\ u.inv = x /\ IsPruning(w, pl2, u, pl2, {})
  BY <1>2, <1>6, ProperAside
<1>8. IsPruning(t, pl, u, pl2, {l})
  <2>1. ASSUME NEW k \in Reached(t) \ {l} PROVE Kept(t, pl, u, pl2, k, k)
    <3>1. Kept(t, pl, w, pl2, k, k)
      BY <1>6 DEF IsPruning
    <3>2. Kept(w, pl2, u, pl2, k, k)
      BY <1>7, <3>1 DEF IsPruning, Kept
    <3> QED
      BY <3>1, <3>2, KeptOn
  <2> QED
    BY <1>6, <1>7, <2>1 DEF IsPruning
<1> QED
  BY <1>3, <1>7, <1>8 DEF u, x

-----------------------------------------------------------------------------
(* A device is removed. *)

(* remove_from_list() for a device *)
RemovedDevice(t, u, d) ==
    /\ \A e : Lists(u, e) <=> Lists(t, e) /\ e # d
    /\ \A e, v : ListsVolume(u, e, v) <=> ListsVolume(t, e, v) /\ e # d

WithoutItem(t, i) == [t EXCEPT !.lists[t.root].items = RemoveAt(@, i)]

(* The item of a device whose list of volumes is gone is removed. *)
LEMMA DeviceItemRemoved ==
    ASSUME NEW t, NEW pl, NEW fs, NEW X, Proper(t, pl, fs, X),
           NEW i \in DOMAIN DeviceItems(t), DeviceItems(t)[i].child = NoId,
           NEW u, u = WithoutItem(t, i)
    PROVE  LET d == DeviceItems(t)[i].dev
           IN /\ Proper(u, pl, fs, X \ {d})
              /\ u.inv = t.inv /\ u.root = t.root
              /\ RemovedDevice(t, u, d)
              /\ \A l \in Reached(t) \ {t.root} : Kept(t, pl, u, pl, l, l)
<1> DEFINE d     == DeviceItems(t)[i].dev
           old   == DeviceItems(t)
           n     == Len(old)
           items == RemoveAt(old, i)
           shift(j) == IF j < i THEN j ELSE j + 1
<1>1. /\ Sound(t) /\ Matched(t) /\ Shaped(t, pl) /\ Listed(t) /\ VolumesListed(t)
      /\ Stored(t, pl, fs, X)
  BY DEF Proper, Rich
<1>2. old \in Seq(DeviceItemSet) /\ t.root \in DOMAIN t.lists
  BY <1>1, DeviceItemsType
<1>3. /\ n \in Nat /\ DOMAIN old = 1..n /\ i \in 1..n
      /\ items \in Seq(DeviceItemSet) /\ DOMAIN items = 1..n - 1
      /\ \A j \in 1..n - 1 : items[j] = IF j < i THEN old[j] ELSE old[j + 1]
  <2> HIDE DEF DeviceItemSet, old
  <2>1. i \in 1..Len(old) /\ n \in Nat /\ DOMAIN old = 1..n
    BY <1>2 DEF old
  <2> QED
    BY <1>2, <2>1, RemoveOne
<1>4. u = [t EXCEPT !.lists[t.root].items = items]
  BY DEF DeviceItems, WithoutItem
<1>5. Sound(u) /\ Matched(u) /\ u.root = t.root /\ DOMAIN u.lists = DOMAIN t.lists
  BY <1>1, RemoveDeviceInv DEF WithoutItem
<1> HIDE DEF items
<1>6. ASSUME NEW j \in DOMAIN items
      PROVE  shift(j) \in DOMAIN old /\ items[j] = old[shift(j)] /\ shift(j) # i
  <2> HIDE DEF old, n
  <2> QED
    BY <1>3
<1>7. ASSUME NEW k \in DOMAIN old, k # i
      PROVE  \E j \in DOMAIN items : items[j] = old[k]
  <2> HIDE DEF old, n
  <2>1. CASE k < i
    BY <1>3, <2>1
  <2>2. CASE k > i
    <3>1. k - 1 \in 1..n - 1 /\ ~(k - 1 < i) /\ (k - 1) + 1 = k
      BY <1>3, <2>2
    <3> QED
      BY <1>3, <3>1
  <2> QED
    BY <1>3, <1>7, <2>1, <2>2
<1>8. ASSUME NEW j \in DOMAIN items, NEW k \in DOMAIN items, shift(j) = shift(k) PROVE j = k
  <2> HIDE DEF old, n
  <2> QED
    BY <1>3, <1>8
<1>9. \A j \in DOMAIN items : \E k \in DOMAIN old : items[j] = old[k] /\ k # i
  BY <1>6
<1> HIDE DEF n
<1>10. /\ u.inv = t.inv /\ DeviceItems(u) = items
       /\ \A k \in DOMAIN t.lists \ {t.root} : u.lists[k] = t.lists[k]
  <2>1. ASSUME NEW j \in DOMAIN items, items[j].child # NoId
        PROVE  /\ \E k \in DOMAIN DeviceItems(t) : DeviceItems(t)[k].child = items[j].child
               /\ \A k \in DOMAIN items : items[k].child = items[j].child => k = j
    <3>1. shift(j) \in DOMAIN old /\ items[j] = old[shift(j)]
      BY <1>6
    <3>2. ASSUME NEW k \in DOMAIN items, items[k].child = items[j].child PROVE k = j
      <4>1. shift(k) \in DOMAIN old /\ items[k] = old[shift(k)]
        BY <1>6
      <4> HIDE DEF shift
      <4>2. shift(k) = shift(j)
        BY <1>1, <2>1, <3>1, <3>2, <4>1, DeviceLinks
      <4> QED
        BY <1>8, <4>2
    <3> HIDE DEF shift
    <3> QED
      BY <3>1, <3>2
  <2> DEFINE z == [t EXCEPT !.lists[t.root].items = items]
  <2>2. /\ z.inv = t.inv /\ DeviceItems(z) = items
        /\ \A k \in DOMAIN t.lists \ {t.root} : z.lists[k] = t.lists[k]
    <3> HIDE DEF old
    <3> QED
      BY <1>1, <1>3, <2>1, NewDeviceItems
  <2> HIDE DEF z
  <2>3. u = z
    BY <1>4 DEF z
  <2> QED
    BY <2>2, <2>3
<1> HIDE DEF shift
<1>11. DevicesChange(t, u)
  <2>1. ASSUME NEW j \in DOMAIN DeviceItems(u)
        PROVE  \E k \in DOMAIN DeviceItems(t) : /\ DeviceItems(t)[k].child = DeviceItems(u)[j].child
                                                /\ DeviceItems(t)[k].dev = DeviceItems(u)[j].dev
    BY <1>9, <1>10
  <2>2. ASSUME NEW j \in DOMAIN DeviceItems(t), DeviceItems(t)[j].child # NoId
        PROVE  \E k \in DOMAIN DeviceItems(u) : DeviceItems(u)[k].child = DeviceItems(t)[j].child
    BY <1>7, <1>10, <2>2
  <2> QED
    BY <1>5, <1>10, <2>1, <2>2 DEF DevicesChange
<1>12. Shaped(u, pl) /\ Reached(u) = Reached(t)
  BY <1>1, <1>5, <1>11, DevicesShaped
<1>13. \A l \in Reached(t) \ {t.root} : Kept(t, pl, u, pl, l, l)
  BY <1>11, <1>12, DevicesKept
<1>14. VolumesListed(u)
  <2>1. ASSUME NEW j \in DOMAIN DeviceItems(u)
        PROVE  \E k \in DOMAIN DeviceItems(t) : /\ DeviceItems(t)[k].child = DeviceItems(u)[j].child
                                                /\ DeviceItems(t)[k].dev = DeviceItems(u)[j].dev
                                                /\ DeviceItems(t)[k].vols = DeviceItems(u)[j].vols
    BY <1>9, <1>10
  <2> QED
    BY <1>1, <1>11, <2>1, DevicesVolumes
<1>15. \A k \in DOMAIN old : old[k].dev = d => k = i
  BY <1>1 DEF Listed
<1>16. RemovedDevice(t, u, d)
  <2>1. \A e : Lists(u, e) <=> Lists(t, e) /\ e # d
    BY <1>7, <1>9, <1>10, <1>15 DEF Lists
  <2>2. \A e, v : ListsVolume(u, e, v) <=> ListsVolume(t, e, v) /\ e # d
    BY <1>7, <1>9, <1>10, <1>15 DEF ListsVolume
  <2> QED
    BY <2>1, <2>2 DEF RemovedDevice
<1>17. Listed(u)
  <2>1. ASSUME NEW j \in DOMAIN items, NEW k \in DOMAIN items, items[j].dev = items[k].dev
        PROVE  j = k
    <3>1. shift(j) = shift(k)
      BY <1>1, <1>6, <2>1 DEF Listed
    <3> QED
      BY <1>8, <3>1
  <2>2. ASSUME NEW j \in DOMAIN items PROVE Increasing(items[j].vols)
    BY <1>1, <1>9 DEF Listed
  <2> QED
    BY <1>10, <2>1, <2>2 DEF Listed
<1>18. Stored(u, pl, fs, X \ {d})
  <2>1. Stored(u, pl, fs, X)
    BY <1>1, <1>5, <1>11, <1>12, DevicesStored
  <2>2. ASSUME NEW k \in Reached(u), u.lists[k].kind = "dir" PROVE pl[k][1] # d
    <3>1. k # u.root
      BY <1>5, <2>2 DEF Sound, TreeType, RootList
    <3>2. \E j \in DOMAIN DeviceItems(u) : DeviceItems(u)[j].dev = pl[k][1]
      <4>1. Placed(u, pl) /\ StraysEmpty(u)
        BY <1>12 DEF Shaped
      <4> HIDE DEF old, d
      <4> QED
        BY ONLY <1>5, <3>1, <4>1, k \in Reached(u), PlaceBegins
    <3> QED
      BY <1>9, <1>10, <1>15, <3>2
  <2> QED
    BY <2>1, <2>2 DEF Stored
<1>19. Proper(u, pl, fs, X \ {d})
  BY <1>5, <1>12, <1>14, <1>17, <1>18 DEF Proper, Rich
<1> QED
  BY <1>5, <1>10, <1>13, <1>16, <1>19

(* The list of the volumes of a device is at the place of the device. *)
LEMMA VolumesPlace ==
    ASSUME NEW t, NEW pl, Sound(t), Shaped(t, pl),
           NEW i \in DOMAIN DeviceItems(t), DeviceItems(t)[i].child # NoId
    PROVE  LET c == DeviceItems(t)[i].child
           IN /\ c \in Reached(t) /\ c # t.root
              /\ Rank(pl, c) = 1
              /\ pl[c][1] = DeviceItems(t)[i].dev
<1> DEFINE c == DeviceItems(t)[i].child
           x == DeviceItems(t)[i].dev
<1>1. Placed(t, pl) /\ t.root \in DOMAIN t.lists /\ t.lists[t.root].kind = "devices"
  BY DEF Shaped, Sound, TreeType, RootList
<1>2. c \in DOMAIN t.lists \ {t.root}
  BY DeviceLinks
<1>3. c \in Reached(t)
  BY <1>1, <1>2 DEF Reached, IsLinked, DeviceItems
<1>4. pl[c] = Append(pl[t.root], ShowsAt(t, t.root, i)) /\ pl[t.root] = <<>>
  BY <1>1 DEF Placed, DeviceItems
<1>5. ShowsAt(t, t.root, i) = x
  BY <1>1 DEF ShowsAt, Shows, DeviceItems
<1>6. DeviceItems(t)[i] \in DeviceItemSet
  BY DeviceItemsType
<1>7. x \in PlaceNames
  BY <1>6 DEF DeviceItemSet, PlaceNames
<1> HIDE DEF c, x
<1>8. pl[c] = Append(<<>>, x)
  BY <1>4, <1>5
<1>9. <<>> \in Seq(PlaceNames) /\ Len(<<>>) = 0
  OBVIOUS
<1>10. Len(pl[c]) = 1 /\ pl[c][1] = x
  BY <1>7, <1>8, <1>9, AppendTo
<1> QED
  BY <1>2, <1>3, <1>10 DEF Rank, c, x

(* Tree r is t with fewer items in its list of devices. *)
Fewer(t, r) ==
    /\ r.root = t.root /\ DOMAIN r.lists = DOMAIN t.lists
    /\ \A k \in DOMAIN t.lists \ {t.root} : r.lists[k] = t.lists[k]
    /\ \A j \in DOMAIN DeviceItems(r) : \E k \in DOMAIN DeviceItems(t) :
          DeviceItems(r)[j].child = DeviceItems(t)[k].child

(* A list is in the subtree of the volumes of device i if it is on that      *)
(* device; the item that links to the list of the volumes may be gone.       *)
LEMMA SublistsOnDevice ==
    ASSUME NEW t, NEW pl, Sound(t), Shaped(t, pl), Listed(t),
           NEW i \in DOMAIN DeviceItems(t), DeviceItems(t)[i].child # NoId,
           NEW r, Sound(r), Fewer(t, r),
           NEW k \in Reached(t), k # t.root
    PROVE  k \in Sublists(r, DeviceItems(t)[i].child) <=> pl[k][1] = DeviceItems(t)[i].dev
<1> DEFINE c  == DeviceItems(t)[i].child
           d  == DeviceItems(t)[i].dev
           D  == Reached(t)
           up == Ancestors(r, k)
           m  == Rank(pl, k)
<1>1. Placed(t, pl) /\ StraysEmpty(t)
  BY DEF Shaped
<1>2. c \in D /\ c # t.root /\ Rank(pl, c) = 1 /\ pl[c][1] = d
  BY VolumesPlace
<1>3. /\ r.root = t.root /\ DOMAIN r.lists = DOMAIN t.lists
      /\ \A l \in DOMAIN t.lists : l # t.root => r.lists[l] = t.lists[l]
      /\ t.root \in DOMAIN t.lists
  BY DEF Fewer, Sound, TreeType, RootList
<1>4. ParentOf(r, t.root) = NoId /\ ParentOf(t, t.root) = NoId
  BY <1>3 DEF Sound, ParentsRight, ParentOf
<1>5. \A l \in DOMAIN t.lists : ParentOf(r, l) = ParentOf(t, l)
  BY <1>3, <1>4 DEF ParentOf, Cached
<1>6. Rises(t, D, pl)
  BY <1>1, ReachedRises
<1>7. Rises(r, D, pl)
  BY <1>3, <1>5, <1>6 DEF Rises
<1>8. D \subseteq DOMAIN t.lists
  BY DEF Reached
<1> HIDE DEF c, d, D, up, m
<1>9. /\ Climbed(r, D, pl, k, up, m) /\ m \in Nat /\ up[m + 1] = t.root
  BY <1>3, <1>7, AncestorsRise DEF Sound, D, up, m
<1>10. /\ up \in Seq(D) /\ Len(up) = m + 1
       /\ \A h \in 1..m + 1 : /\ Rank(pl, up[h]) = m + 1 - h
                              /\ \A j \in 1..m + 1 - h : pl[up[h]][j] = pl[k][j]
       /\ \A h \in 1..m : up[h] # t.root /\ ParentOf(r, up[h]) = up[h + 1]
  BY <1>3, <1>9 DEF Climbed, m
<1>11. \A h \in 1..m + 1 : up[h] \in D
  BY <1>9, <1>10
<1>12. m >= 1
  <2>1. m # 0
    BY <1>1, KindByRank DEF m
  <2> QED
    BY <1>9, <2>1
<1>13. Depth(r, k) = m + 1
  BY <1>3, <1>8, <1>10 DEF Depth, Cached, up, D
<1>14. ASSUME pl[k][1] = d PROVE k \in Sublists(r, c)
  <2>1. up[m] \in D /\ up[m] # t.root /\ ParentOf(t, up[m]) = t.root
    BY <1>5, <1>8, <1>9, <1>10, <1>11, <1>12
  <2> DEFINE j == ItemByChild(t, t.root, up[m])
  <2>2. /\ j \in DOMAIN DeviceItems(t) /\ DeviceItems(t)[j].child = up[m]
    BY <1>1, <2>1, LinkUp DEF D, DeviceItems
  <2>3. DeviceItems(t)[j].child # NoId
    BY <1>8, <2>1, <2>2 DEF Sound, IdsInUse
  <2>4. pl[up[m]][1] = DeviceItems(t)[j].dev
    BY <2>2, <2>3, VolumesPlace
  <2>5. pl[up[m]][1] = d
    BY <1>9, <1>10, <1>12, <1>14
  <2> HIDE DEF j
  <2>6. j = i
    BY <2>2, <2>4, <2>5 DEF Listed, d
  <2>7. up[m] = c
    BY <2>2, <2>6 DEF c
  <2>8. ASSUME NEW h \in 2..m PROVE Trail(r, k, 0)[h].item # 0
    <3>1. h \in 1..m + 1 /\ h - 1 \in 1..m /\ h # 1 /\ h \in 1..m /\ (h - 1) + 1 = h
      BY <1>9
    <3>2. Trail(r, k, 0)[h].item = ItemByChild(r, up[h], up[h - 1])
      BY <1>10, <3>1 DEF Trail, Linked, up
    <3>3. up[h] # t.root /\ up[h - 1] # t.root /\ ParentOf(r, up[h - 1]) = up[h]
      BY <1>10, <3>1
    <3>4. up[h] \in D /\ up[h - 1] \in D
      BY <1>9, <1>11, <3>1
    <3>5. ParentOf(t, up[h - 1]) = up[h]
      BY <1>5, <1>8, <3>3, <3>4
    <3>6. ItemByChild(r, up[h], up[h - 1]) = ItemByChild(t, up[h], up[h - 1])
      BY <1>3, <1>8, <3>3, <3>4 DEF ItemByChild, Items
    <3>7. LET p == t.lists[up[h - 1]].parent
              j2 == ItemByChild(t, p, up[h - 1])
          IN ParentOf(t, up[h - 1]) = p /\ j2 \in DOMAIN t.lists[p].items /\ p \in D
      BY <1>1, <3>3, <3>4, LinkUp DEF D
    <3>8. ItemByChild(t, up[h], up[h - 1]) \in DOMAIN t.lists[up[h]].items
      BY <3>5, <3>7
    <3>9. t.lists[up[h]].items \in Seq(ItemSet)
      BY <1>8, <3>4 DEF Sound, TreeType, ListSet
    <3>10. 0 \notin DOMAIN t.lists[up[h]].items
      BY <3>9
    <3> QED
      BY <3>2, <3>6, <3>8, <3>10
  <2>9. m \in 1..Depth(r, k)
    BY <1>9, <1>12, <1>13
  <2>10. k \in DOMAIN r.lists
    BY <1>3, <1>8 DEF D
  <2> QED
    BY <2>7, <2>8, <2>9, <2>10 DEF Sublists, up
<1>15. ASSUME k \in Sublists(r, c) PROVE pl[k][1] = d
  <2>1. PICK n \in 1..Depth(r, k) : up[n] = c
    BY <1>15 DEF Sublists, up
  <2>2. n \in 1..m + 1 /\ n # m + 1
    BY <1>2, <1>9, <1>13, <2>1
  <2>3. Rank(pl, up[n]) = m + 1 - n
    BY <1>10, <2>2
  <2>4. n = m
    BY <1>2, <1>9, <2>1, <2>2, <2>3
  <2>5. pl[up[n]][1] = pl[k][1]
    <3>1. 1 \in 1..m + 1 - n
      BY <1>9, <2>4
    <3> QED
      BY <1>10, <2>2, <3>1
  <2> QED
    BY <1>2, <2>1, <2>5
<1> QED
  BY <1>14, <1>15 DEF c, d

(* No other list is in the subtree. *)
LEMMA SublistsReached ==
    ASSUME NEW t, Sound(t), NEW c \in Reached(t), c # t.root,
           NEW r, Sound(r), Fewer(t, r)
    PROVE  Sublists(r, c) \subseteq Reached(t) \ {t.root}
<1>1. t.root \notin Sublists(r, c)
  BY RootIsNoSublist DEF Fewer
<1>2. DOMAIN r.lists = DOMAIN t.lists /\ r.root = t.root
  BY DEF Fewer
<1> SUFFICES ASSUME NEW k \in Sublists(r, c), k \notin Reached(t) PROVE FALSE
  BY <1>1
<1> DEFINE up == Ancestors(r, k)
<1>3. k \in DOMAIN r.lists /\ k # t.root /\ k # c
  BY <1>2 DEF Sublists, Reached, Sound, TreeType, RootList
<1>4. Depth(r, k) = Len(up)
  BY <1>3 DEF Depth, Cached
<1> HIDE DEF up
<1>5. PICK n \in 1..Len(up) : up[n] = c /\ \A m \in 2..n : Trail(r, k, 0)[m].item # 0
  BY <1>4 DEF Sublists, up
<1>6. CASE r.lists[k].parent = NoId
  <2>1. up = <<k>>
    BY <1>3, <1>6, NoAncestors DEF ParentOf, Cached, Sound, up
  <2>2. Len(up) = 1 /\ up[1] = k
    BY <2>1
  <2> QED
    BY <1>3, <1>5, <2>2
<1>7. CASE r.lists[k].parent # NoId
  <2> DEFINE p == r.lists[k].parent
  <2>1. Len(up) \in Nat /\ Len(up) >= 2 /\ up[1] = k /\ up[2] = p
    BY <1>2, <1>3, <1>7, AncestorsBegin DEF up
  <2>2. n # 1
    BY <1>3, <1>5, <2>1
  <2>3. Trail(r, k, 0)[2].item # 0
    BY <1>5, <2>1, <2>2
  <2>4. Trail(r, k, 0)[2].item = ItemByChild(r, p, k)
    BY <2>1 DEF Trail, Linked, up
  <2>5. \E j \in DOMAIN r.lists[p].items : r.lists[p].items[j].child = k
    BY <2>3, <2>4 DEF ItemByChild, Items
  <2>6. p \in DOMAIN r.lists
    BY <1>3, <1>7 DEF Sound, ParentsRight
  <2>7. IsLinked(t, k)
    <3>1. CASE p = t.root
      BY <1>2, <2>5, <2>6, <3>1 DEF IsLinked, Fewer, DeviceItems
    <3>2. CASE p # t.root
      BY <1>2, <2>5, <2>6, <3>2 DEF IsLinked, Fewer
    <3> QED
      BY <3>1, <3>2
  <2> QED
    BY <1>2, <1>3, <2>7 DEF Reached
<1> QED
  BY <1>6, <1>7

-----------------------------------------------------------------------------
(* Lists are purged with those below them. *)

(* The way up has no more steps than there are lists. *)
LEMMA AncestorsBound ==
    ASSUME NEW t, TreeType(t), NEW l
    PROVE  /\ Cardinality(DOMAIN t.lists) \in Nat
           /\ Len(Ancestors(t, l)) \in 0..Cardinality(DOMAIN t.lists) + 1
<1> DEFINE size == Cardinality(DOMAIN t.lists)
           U    == IdsAndNone \cup {l}
<1>1. IsFiniteSet(DOMAIN t.lists) /\ size \in Nat
  BY AncestorsUp
<1>2. PICK up : /\ Ancestors(t, l) = up[size]
                /\ up[0] = <<l>>
                /\ \A n \in 1..size : up[n] = UpOf(t, up[n - 1])
  <2>1. \E up : /\ Ancestors(t, l) = up[size]
                /\ up[0] = <<l>>
                /\ \A n \in 1..size : up[n] = UpOf(t, up[n - 1])
    BY AncestorsUp, Zenon
  <2> QED
    BY <2>1, Zenon
<1>3. \A k : ParentOf(t, k) \in U
  <2>1. NoId \in IdsAndNone
    BY MaxIdIsNat DEF IdsAndNone
  <2> QED
    BY <2>1 DEF ParentOf, Cached, TreeType, ListSet
<1>4. l \in U
  OBVIOUS
<1> HIDE DEF size, U
<1> DEFINE Good(s, n) == s \in Seq(U) /\ Len(s) <= n + 1
           S == {n \in Nat : n <= size => Good(up[n], n)}
<1>5. 0 \in S
  <2>1. up[0] \in Seq(U) /\ Len(up[0]) = 1
    BY <1>2, <1>4
  <2>2. Good(up[0], 0)
    BY <2>1
  <2> HIDE DEF Good
  <2> QED
    BY <2>2
<1>6. ASSUME NEW n \in Nat, n \in S PROVE n + 1 \in S
  <2> SUFFICES ASSUME n + 1 <= size PROVE Good(up[n + 1], n + 1)
    OBVIOUS
  <2> DEFINE s == up[n]
             q == ParentOf(t, Last(s))
  <2>1. Good(s, n)
    BY <1>1, <1>6
  <2>2. up[n + 1] = UpOf(t, s)
    <3>1. n + 1 \in 1..size /\ (n + 1) - 1 = n
      BY <1>1
    <3> QED
      BY <1>2, <3>1
  <2>3. UpOf(t, s) = IF q = NoId THEN s ELSE Append(s, q)
    BY DEF UpOf
  <2>4. q \in U
    BY <1>3
  <2> HIDE DEF s, q
  <2>5. Good(Append(s, q), n + 1) /\ Good(s, n + 1)
    BY <2>1, <2>4, AppendTo
  <2> QED
    BY <2>2, <2>3, <2>5
<1> HIDE DEF S
<1>7. Nat \subseteq S
  BY <1>5, <1>6, UpFromZero
<1>8. Good(up[size], size)
  BY <1>1, <1>7 DEF S
<1>9. Len(up[size]) \in Nat
  BY <1>8
<1> QED
  BY <1>1, <1>2, <1>8, <1>9 DEF size

(* Two digits of a number *)
LEMMA TwoDigits ==
    ASSUME NEW m \in Nat, NEW a \in Nat, NEW b \in Nat, NEW k \in 0..m - 1, NEW l \in 0..m - 1,
           a * m + k <= b * m + l
    PROVE  a <= b /\ (a * m + k = b * m + l => k = l)
<1>1. \A x, y \in Nat : x < y => x * m + m <= y * m
  <2> SUFFICES ASSUME NEW x \in Nat, NEW y \in Nat, x < y PROVE x * m + m <= y * m
    OBVIOUS
  <2>1. PICK z \in Nat : y = x + 1 + z
    <3>1. y - x - 1 \in Nat /\ y = x + 1 + (y - x - 1)
      OBVIOUS
    <3> QED
      BY <3>1
  <2>2. y * m = x * m + m + z * m
    BY <2>1
  <2>3. z * m \in Nat /\ x * m \in Nat
    OBVIOUS
  <2> QED
    BY <2>2, <2>3
<1> DEFINE am == a * m
           bm == b * m
<1>2. am \in Nat /\ bm \in Nat
  OBVIOUS
<1>3. (a < b => am + m <= bm) /\ (b < a => bm + m <= am) /\ (a = b => am = bm)
  BY <1>1
<1>4. am + k <= bm + l
  OBVIOUS
<1> HIDE DEF am, bm
<1>5. a <= b
  BY <1>2, <1>3, <1>4
<1>6. am + k = bm + l => k = l
  BY <1>2, <1>3, <1>5
<1> QED
  BY <1>5, <1>6 DEF am, bm

(* Lists can be put in an order in which those further down come first. *)
LEMMA RankedOrder ==
    ASSUME NEW S, S \subseteq IdsAndNone, NEW C \in Nat, NEW f \in [S -> 0..C]
    PROVE  /\ \E s \in SetToSeqs(S) : \A i, j \in DOMAIN s : i < j => f[s[i]] >= f[s[j]]
           /\ IsFiniteSet(S)
<1> DEFINE m      == MaxId + 1
           key(l) == (C - f[l]) * m + l
           e      == [l \in S |-> [name |-> key(l), dir |-> TRUE]]
           E      == {e[l] : l \in S}
           n      == Cardinality(E)
<1>1. m \in Nat /\ \A l \in S : l \in 0..m - 1 /\ C - f[l] \in Nat /\ f[l] \in Nat
  BY MaxIdIsNat
<1>2. \A l \in S : key(l) \in Nat
  <2> SUFFICES ASSUME NEW l \in S PROVE key(l) \in Nat
    OBVIOUS
  <2> DEFINE x == C - f[l]
  <2>1. x \in Nat /\ l \in Nat
    BY <1>1
  <2> HIDE DEF x, m
  <2>2. x * m \in Nat
    BY <1>1, <2>1
  <2> QED
    BY <2>1, <2>2 DEF x
<1>3. ASSUME NEW k \in S, NEW l \in S, key(k) <= key(l)
      PROVE  f[k] >= f[l] /\ (key(k) = key(l) => k = l)
  <2> DEFINE x == C - f[k]
             y == C - f[l]
  <2>1. x \in Nat /\ y \in Nat /\ k \in 0..m - 1 /\ l \in 0..m - 1 /\ x * m + k <= y * m + l
    BY <1>1, <1>3
  <2> HIDE DEF x, y, m
  <2>2. x <= y /\ (x * m + k = y * m + l => k = l)
    BY <1>1, <2>1, TwoDigits
  <2> QED
    BY <1>1, <2>2 DEF x, y
<1>4. \A l \in S : e[l].name = key(l) /\ e[l].dir = TRUE /\ e[l] = [name |-> key(l), dir |-> TRUE]
  OBVIOUS
<1> HIDE DEF key, e, m
<1>5. IsFiniteSet(S)
  <2>1. IsFiniteSet(0..MaxId)
    <3>1. 0 \in Int /\ MaxId \in Int
      BY MaxIdIsNat
    <3> QED
      BY <3>1, FS_Interval
  <2> QED
    BY <2>1, FS_Subset DEF IdsAndNone
<1>6. e \in [S -> E] /\ \A k, l \in S : e[k] = e[l] => k = l
  <2>1. e = [l \in S |-> e[l]]
    BY DEF e
  <2>2. ASSUME NEW k \in S, NEW l \in S, e[k] = e[l] PROVE k = l
    <3>1. e[k].name = key(k) /\ e[l].name = key(l)
      BY <1>4
    <3>2. key(k) = key(l)
      BY <2>2, <3>1
    <3>3. key(k) \in Nat
      BY <1>2
    <3>4. key(k) <= key(l)
      BY <3>2, <3>3
    <3> QED
      BY <1>3, <3>2, <3>4
  <2> QED
    BY <2>1, <2>2
<1>7. e \in Bijection(S, E)
  BY <1>6 DEF Bijection, Injection, Surjection, IsInjective
<1>8. IsFiniteSet(E) /\ Cardinality(E) = Cardinality(S)
  BY <1>5, <1>7, FS_Bijection DEF ExistsBijection
<1>9. Directory(E)
  <2>1. ASSUME NEW x \in E PROVE x \in EntrySet
    <3>1. PICK l \in S : x = e[l]
      OBVIOUS
    <3>2. e[l] = [name |-> key(l), dir |-> TRUE] /\ key(l) \in Nat
      BY <1>2, <1>4
    <3> QED
      BY <3>1, <3>2 DEF EntrySet
  <2>2. ASSUME NEW x \in E, NEW y \in E, x.name = y.name PROVE x = y
    BY <1>4, <2>2
  <2> QED
    BY <1>8, <2>1, <2>2 DEF Directory
<1> HIDE DEF E
<1>10. PICK s \in [1..n -> E] : Ordered(s)
  BY <1>9, OrderExists
<1>11. n = Cardinality(S) /\ n \in Nat
  BY <1>5, <1>8, FS_CardinalityType
<1> HIDE DEF n
<1> DEFINE r == [i \in 1..n |-> CHOOSE l \in S : e[l] = s[i]]
<1>12. ASSUME NEW i \in 1..n PROVE r[i] \in S /\ e[r[i]] = s[i]
  <2>1. \E l \in S : e[l] = s[i]
    BY <1>10 DEF E
  <2> QED
    BY <2>1
<1> HIDE DEF r
<1>13. ASSUME NEW i \in 1..n, NEW j \in 1..n, i < j
       PROVE  f[r[i]] >= f[r[j]] /\ r[i] # r[j]
  <2>1. s[i].name < s[j].name
    BY <1>10, <1>13 DEF Ordered
  <2>2. key(r[i]) < key(r[j]) /\ key(r[i]) \in Nat /\ key(r[j]) \in Nat
    <3>1. /\ r[i] \in S /\ e[r[i]] = s[i]
          /\ r[j] \in S /\ e[r[j]] = s[j]
      BY <1>12
    <3>2. e[r[i]].name = key(r[i]) /\ e[r[j]].name = key(r[j])
      BY <1>4, <3>1
    <3>3. s[i].name = key(r[i]) /\ s[j].name = key(r[j])
      BY <3>1, <3>2
    <3> QED
      BY <1>2, <2>1, <3>1, <3>3
  <2>3. key(r[i]) <= key(r[j]) /\ key(r[i]) # key(r[j])
    BY <2>2
  <2> QED
    BY <1>3, <1>12, <2>3
<1>14. r \in [1..n -> S]
  <2>1. r = [i \in 1..n |-> r[i]]
    BY DEF r
  <2> QED
    BY <1>12, <2>1
<1>15. ASSUME NEW i \in 1..n, NEW j \in 1..n, i # j PROVE r[i] # r[j]
  <2>1. i < j \/ j < i
    BY <1>11, <1>15
  <2> QED
    BY <1>13, <2>1
<1>16. r \in SetToSeqs(S)
  BY <1>11, <1>14, <1>15 DEF SetToSeqs
<1>17. DOMAIN r = 1..n
  BY <1>14
<1> QED
  BY <1>5, <1>13, <1>16, <1>17

(* The signals about lists that are gone *)
KillsOf(kills) == [n \in DOMAIN kills |-> <<kills[n], NoId>>]

(* purge_subtree(): the lists of the subtree are gone, and each is reported. *)
LEMMA PurgeKills ==
    ASSUME NEW t, TreeType(t), NEW l
    PROVE  \E kills \in Seq(Sublists(t, l)) :
              /\ ToSet(kills) = Sublists(t, l)
              /\ PurgeSubtree(t, l)
                    = [Without(t, Sublists(t, l)) EXCEPT !.inv = @ \o KillsOf(kills)]
<1> DEFINE S == Sublists(t, l)
           C == Cardinality(DOMAIN t.lists) + 1
           f == [k \in S |-> Depth(t, k)]
           inOrder(s) == \A i, j \in DOMAIN s : i < j => Depth(t, s[i]) >= Depth(t, s[j])
           kills == CHOOSE s \in SetToSeqs(S) : inOrder(s)
           n == Cardinality(S)
<1>1. C \in Nat /\ \A k : Depth(t, k) \in 0..C
  BY AncestorsBound DEF Depth
<1>2. S \subseteq IdsAndNone
  BY DEF Sublists, TreeType
<1> HIDE DEF S, C
<1>3. f \in [S -> 0..C]
  BY <1>1
<1>4. /\ \E s \in SetToSeqs(S) : \A i, j \in DOMAIN s : i < j => f[s[i]] >= f[s[j]]
      /\ IsFiniteSet(S)
  <2> HIDE DEF f
  <2> QED
    BY <1>1, <1>2, <1>3, RankedOrder
<1>5. \E s \in SetToSeqs(S) : inOrder(s)
  <2>1. PICK s \in SetToSeqs(S) : \A i, j \in DOMAIN s : i < j => f[s[i]] >= f[s[j]]
    BY <1>4
  <2>2. s \in [1..n -> S]
    BY <2>1 DEF SetToSeqs
  <2> HIDE DEF n
  <2>3. \A i \in DOMAIN s : f[s[i]] = Depth(t, s[i])
    BY <2>2
  <2> QED
    BY <2>1, <2>3
<1>6. kills \in SetToSeqs(S)
  <2> HIDE DEF inOrder
  <2> QED
    BY <1>5
<1>7. PurgeSubtree(t, l) = [Without(t, S) EXCEPT !.inv = @ \o KillsOf(kills)]
  BY DEF PurgeSubtree, KillsOf, S
<1> HIDE DEF kills
<1>8. kills \in [1..n -> S] /\ \A i, j \in 1..n : i # j => kills[i] # kills[j]
  BY <1>6 DEF SetToSeqs
<1>9. n \in Nat /\ IsFiniteSet(1..n) /\ Cardinality(1..n) = n
  <2>1. n \in Nat
    BY <1>4, FS_CardinalityType
  <2> HIDE DEF n
  <2> QED
    BY <2>1, FS_Interval
<1>10. kills \in Injection(1..n, S)
  BY <1>8 DEF Injection, IsInjective
<1>11. kills \in Surjection(1..n, S)
  BY <1>4, <1>9, <1>10, FS_Injection
<1> HIDE DEF n
<1>12. ToSet(kills) = S
  BY <1>8, <1>11 DEF Surjection, ToSet
<1>13. kills \in Seq(S)
  BY <1>8, <1>9
<1> QED
  BY <1>7, <1>12, <1>13 DEF S

(* discard(), field by field *)
LEMMA WithoutIs ==
    ASSUME NEW t, TreeType(t), NEW gone
    PROVE  LET up(k) == IF t.lists[k].parent \in gone THEN NoId ELSE t.lists[k].parent
           IN Without(t, gone) = [lists |-> [k \in DOMAIN t.lists \ gone |->
                                                [kind |-> t.lists[k].kind, parent |-> up(k),
                                                 items |-> ObliviateChild(t, k, gone)]],
                                  root |-> t.root, next |-> t.next, inv |-> t.inv]
<1> DEFINE left(k) == [t.lists[k] EXCEPT !.parent = IF @ \in gone THEN NoId ELSE @,
                                         !.items = ObliviateChild(t, k, gone)]
           up(k) == IF t.lists[k].parent \in gone THEN NoId ELSE t.lists[k].parent
           new(k) == [kind |-> t.lists[k].kind, parent |-> up(k),
                      items |-> ObliviateChild(t, k, gone)]
           lists == [k \in DOMAIN t.lists \ gone |-> left(k)]
<1>1. Without(t, gone) = [t EXCEPT !.lists = lists]
  BY DEF Without
<1>2. ASSUME NEW k \in DOMAIN t.lists PROVE left(k) = new(k)
  <2> DEFINE x == ObliviateChild(t, k, gone)
             b == t.lists[k]
  <2>1. b \in ListSet
    BY DEF TreeType
  <2>2. left(k) = [b EXCEPT !.parent = IF @ \in gone THEN NoId ELSE @, !.items = x]
    OBVIOUS
  <2>3. new(k) = [kind |-> b.kind, parent |-> IF b.parent \in gone THEN NoId ELSE b.parent, items |-> x]
    OBVIOUS
  <2> HIDE DEF x, b, left, new
  <2> QED
    BY <2>1, <2>2, <2>3 DEF ListSet
<1>3. lists = [k \in DOMAIN t.lists \ gone |-> new(k)]
  <2> HIDE DEF left, new
  <2> QED
    BY <1>2
<1> HIDE DEF lists
<1>4. [t EXCEPT !.lists = lists] = [lists |-> lists, root |-> t.root, next |-> t.next, inv |-> t.inv]
  BY DEF TreeType, IsTree
<1> QED
  BY <1>1, <1>3, <1>4

(* remove_from_list(), with the lists that are left alone *)
LEMMA ItemRemoved ==
    ASSUME NEW t, Sound(t), Matched(t), NEW i \in DOMAIN DeviceItems(t),
           NEW r, r = [t EXCEPT !.lists[t.root].items = RemoveAt(@, i)]
    PROVE  /\ Sound(r) /\ Matched(r) /\ r.inv = t.inv /\ r.next = t.next
           /\ r.root = t.root /\ DOMAIN r.lists = DOMAIN t.lists
           /\ \A k \in DOMAIN t.lists \ {t.root} : r.lists[k] = t.lists[k]
           /\ r.lists[t.root].kind = t.lists[t.root].kind
           /\ r.lists[t.root].parent = t.lists[t.root].parent
           /\ DeviceItems(r) = RemoveAt(DeviceItems(t), i)
           /\ Fewer(t, r)
<1> DEFINE items == RemoveAt(DeviceItems(t), i)
           list  == [t.lists[t.root] EXCEPT !.items = items]
           lists == [t.lists EXCEPT ![t.root] = list]
           old   == DeviceItems(t)
<1>1. /\ Sound(r) /\ Matched(r) /\ r.root = t.root /\ DOMAIN r.lists = DOMAIN t.lists
  BY RemoveDeviceInv
<1>2. t.root \in DOMAIN t.lists /\ t.lists[t.root] \in ListSet /\ IsTree(t) /\ t.lists = [k \in DOMAIN t.lists |-> t.lists[k]]
  BY DEF Sound, TreeType, RootList
<1>3. r = [t EXCEPT !.lists = lists]
  BY DEF DeviceItems
<1>4. list.items = items /\ list.kind = t.lists[t.root].kind /\ list.parent = t.lists[t.root].parent
  BY <1>2 DEF ListSet
<1>5. DOMAIN items = 1..Len(old) - 1 /\ \A j \in 1..Len(old) - 1 : items[j] = IF j < i THEN old[j] ELSE old[j + 1]
  <2>1. old \in Seq(DeviceItemSet)
    BY DeviceItemsType
  <2> HIDE DEF DeviceItemSet, old
  <2>2. i \in 1..Len(old) /\ Len(old) \in Nat
    BY <2>1 DEF old
  <2>3. RemoveAt(old, i) \in Seq(DeviceItemSet)
    BY <2>1, <2>2, RemoveOne
  <2>4. DOMAIN RemoveAt(old, i) = 1..Len(RemoveAt(old, i))
    BY <2>3
  <2> QED
    BY <2>1, <2>2, <2>4, RemoveOne DEF old
<1> HIDE DEF list, items
<1>6. /\ lists[t.root] = list
      /\ \A k \in DOMAIN t.lists \ {t.root} : lists[k] = t.lists[k]
  BY <1>2
<1> HIDE DEF lists
<1>7. r.lists = lists /\ r.inv = t.inv /\ r.next = t.next
  BY <1>2, <1>3 DEF IsTree
<1>8. DeviceItems(r) = items
  BY <1>1, <1>4, <1>6, <1>7 DEF DeviceItems
<1>9. ASSUME NEW j \in DOMAIN items PROVE \E k \in DOMAIN old : items[j].child = old[k].child
  <2>1. old \in Seq(DeviceItemSet)
    BY DeviceItemsType
  <2> HIDE DEF DeviceItemSet
  <2>2. DOMAIN old = 1..Len(old) /\ Len(old) \in Nat
    <3> HIDE DEF old
    <3> QED
      BY <2>1
  <2> DEFINE k == IF j < i THEN j ELSE j + 1
  <2>3. k \in DOMAIN old /\ items[j] = old[k]
    <3> HIDE DEF old
    <3> QED
      BY <1>5, <2>2
  <2> QED
    BY <2>3
<1>10. Fewer(t, r)
  BY <1>1, <1>6, <1>7, <1>8, <1>9 DEF Fewer
<1> QED
  BY <1>1, <1>4, <1>6, <1>7, <1>8, <1>10 DEF items

(* The lists of the device can be discarded before its item is removed. *)
LEMMA RemovedWithout ==
    ASSUME NEW t, Sound(t), Matched(t), NEW i \in DOMAIN DeviceItems(t),
           NEW r, r = [t EXCEPT !.lists[t.root].items = RemoveAt(@, i)],
           NEW gone, gone \subseteq DOMAIN t.lists, t.root \notin gone,
           NEW w, w = Without(t, gone)
    PROVE  Without(r, gone) = [w EXCEPT !.lists[w.root].items = RemoveAt(@, i)]
<1> DEFINE x(k) == ObliviateChild(t, k, gone)
           y(k) == ObliviateChild(r, k, gone)
           z    == RemoveAt(x(t.root), i)
           old  == DeviceItems(t)
           up(k) == IF t.lists[k].parent \in gone THEN NoId ELSE t.lists[k].parent
           wl   == [k \in DOMAIN t.lists \ gone |->
                       [kind |-> t.lists[k].kind, parent |-> up(k), items |-> x(k)]]
           al   == [k \in DOMAIN t.lists \ gone |->
                       [kind |-> t.lists[k].kind, parent |-> up(k), items |-> y(k)]]
<1>1. /\ Sound(r) /\ Matched(r) /\ r.inv = t.inv /\ r.next = t.next
      /\ r.root = t.root /\ DOMAIN r.lists = DOMAIN t.lists
      /\ \A k \in DOMAIN t.lists \ {t.root} : r.lists[k] = t.lists[k]
      /\ r.lists[t.root].kind = t.lists[t.root].kind
      /\ r.lists[t.root].parent = t.lists[t.root].parent
      /\ DeviceItems(r) = RemoveAt(DeviceItems(t), i)
  BY ItemRemoved
<1>2. t.root \in DOMAIN t.lists /\ TreeType(t) /\ TreeType(r)
  BY <1>1 DEF Sound, TreeType, RootList
<1>3. ASSUME NEW k \in DOMAIN t.lists, k # t.root PROVE x(k) = y(k)
  <2>1. r.lists[k].items = t.lists[k].items
    BY <1>1, <1>3
  <2>2. /\ DOMAIN x(k) = DOMAIN t.lists[k].items
        /\ x(k) = [j \in DOMAIN t.lists[k].items |-> x(k)[j]]
        /\ \A j \in DOMAIN t.lists[k].items :
              x(k)[j] = IF t.lists[k].items[j].child \in gone
                        THEN [t.lists[k].items[j] EXCEPT !.child = NoId] ELSE t.lists[k].items[j]
    BY ObliviatedItems
  <2>3. /\ DOMAIN y(k) = DOMAIN r.lists[k].items
        /\ y(k) = [j \in DOMAIN r.lists[k].items |-> y(k)[j]]
        /\ \A j \in DOMAIN r.lists[k].items :
              y(k)[j] = IF r.lists[k].items[j].child \in gone
                        THEN [r.lists[k].items[j] EXCEPT !.child = NoId] ELSE r.lists[k].items[j]
    <3>1. k \in DOMAIN r.lists /\ gone \subseteq DOMAIN r.lists /\ Sound(r)
      BY <1>1
    <3> QED
      BY ONLY <3>1, ObliviatedItems
  <2> HIDE DEF x, y
  <2>4. \A j \in DOMAIN t.lists[k].items : x(k)[j] = y(k)[j]
    BY <2>1, <2>2, <2>3
  <2> QED
    BY <2>1, <2>2, <2>3, <2>4
<1>4. y(t.root) = z
  <2> DEFINE cut(a) == IF a.child \in gone THEN [a EXCEPT !.child = NoId] ELSE a
             n == Len(old)
             new == DeviceItems(r)
  <2>1. old \in Seq(DeviceItemSet)
    BY DeviceItemsType
  <2>2. /\ x(t.root) \in Seq(DeviceItemSet) /\ DOMAIN x(t.root) = DOMAIN old
        /\ \A j \in DOMAIN old : x(t.root)[j] = cut(old[j])
    BY <1>2, ObliviateEffect, ObliviatedItems DEF DeviceItems
  <2>3. /\ y(t.root) \in Seq(DeviceItemSet) /\ DOMAIN y(t.root) = DOMAIN new
        /\ \A j \in DOMAIN new : y(t.root)[j] = cut(new[j])
    <3>1. r.root \in DOMAIN r.lists /\ gone \subseteq DOMAIN r.lists /\ Sound(r)
      BY <1>1, <1>2
    <3> DEFINE q == ObliviateChild(r, r.root, gone)
    <3>2. q \in Seq(DeviceItemSet) /\ DOMAIN q = DOMAIN r.lists[r.root].items
      BY ONLY <3>1, ObliviateEffect
    <3>3. \A j \in DOMAIN r.lists[r.root].items : q[j] = cut(r.lists[r.root].items[j])
      BY ONLY <3>1, ObliviatedItems
    <3>4. q = y(t.root)
      BY <1>1
    <3>5. r.lists[r.root].items = new
      BY DEF DeviceItems
    <3> HIDE DEF q, y, cut, new
    <3> QED
      BY <3>2, <3>3, <3>4, <3>5
  <2> HIDE DEF x, y, cut, DeviceItemSet, old, new
  <2>4. n \in Nat /\ DOMAIN old = 1..n /\ i \in 1..n
    BY <2>1 DEF old
  <2>5. /\ new \in Seq(DeviceItemSet) /\ Len(new) = n - 1
        /\ \A j \in 1..n - 1 : new[j] = IF j < i THEN old[j] ELSE old[j + 1]
    <3>1. new = RemoveAt(old, i)
      BY <1>1 DEF old, new
    <3> QED
      BY <2>1, <2>4, <3>1, RemoveOne
  <2>6. Len(x(t.root)) = n
    BY <2>2, <2>4
  <2>7. /\ z \in Seq(DeviceItemSet) /\ Len(z) = n - 1
        /\ \A j \in 1..n - 1 : z[j] = IF j < i THEN x(t.root)[j] ELSE x(t.root)[j + 1]
    BY <2>2, <2>4, <2>6, RemoveOne
  <2> HIDE DEF z, n
  <2>8. DOMAIN new = 1..n - 1 /\ Len(y(t.root)) = n - 1
    BY <2>3, <2>4, <2>5
  <2>9. ASSUME NEW j \in 1..n - 1 PROVE y(t.root)[j] = z[j]
    <3>1. y(t.root)[j] = cut(new[j])
      BY <2>3, <2>8
    <3>2. CASE j < i
      <4>1. j \in 1..n
        BY <2>4
      <4> QED
        BY <2>2, <2>4, <2>5, <2>7, <3>1, <3>2, <4>1
    <3>3. CASE ~(j < i)
      <4>1. j + 1 \in 1..n
        BY <2>4
      <4> QED
        BY <2>2, <2>4, <2>5, <2>7, <3>1, <3>3, <4>1
    <3> QED
      BY <3>2, <3>3
  <2> QED
    BY <2>3, <2>7, <2>8, <2>9, SameSeq
<1>5. w = [lists |-> wl, root |-> t.root, next |-> t.next, inv |-> t.inv]
  BY <1>2, WithoutIs
<1>6. Without(r, gone) = [lists |-> al, root |-> t.root, next |-> t.next, inv |-> t.inv]
  <2> DEFINE up2(k) == IF r.lists[k].parent \in gone THEN NoId ELSE r.lists[k].parent
             bl == [k \in DOMAIN r.lists \ gone |->
                       [kind |-> r.lists[k].kind, parent |-> up2(k), items |-> y(k)]]
  <2>1. Without(r, gone) = [lists |-> bl, root |-> r.root, next |-> r.next, inv |-> r.inv]
    BY ONLY <1>2, WithoutIs
  <2>2. bl = al
    <3> HIDE DEF y
    <3>1. \A k \in DOMAIN t.lists : r.lists[k].kind = t.lists[k].kind /\ r.lists[k].parent = t.lists[k].parent
      BY <1>1
    <3> QED
      BY <1>1, <3>1
  <2> HIDE DEF al, bl
  <2> QED
    BY <1>1, <2>1, <2>2
<1> HIDE DEF x, y, z, up
<1>7. /\ t.root \in DOMAIN wl
      /\ wl[t.root] = [kind |-> t.lists[t.root].kind, parent |-> up(t.root), items |-> x(t.root)]
      /\ al[t.root] = [kind |-> t.lists[t.root].kind, parent |-> up(t.root), items |-> y(t.root)]
  BY <1>2
<1>8. [wl[t.root] EXCEPT !.items = z] = al[t.root]
  <2> HIDE DEF wl, al
  <2> QED
    BY <1>4, <1>7
<1>9. [wl EXCEPT ![t.root] = al[t.root]] = al
  <2>1. ASSUME NEW k \in DOMAIN t.lists \ gone, k # t.root PROVE wl[k] = al[k]
    BY <1>3, <2>1
  <2> QED
    BY <2>1
<1>10. z = RemoveAt(wl[t.root].items, i)
  BY <1>7 DEF z
<1> HIDE DEF wl, al
<1>11. w.lists = wl /\ w.root = t.root
  BY <1>5
<1>12. [w EXCEPT !.lists[w.root].items = RemoveAt(@, i)] = [w EXCEPT !.lists = [wl EXCEPT ![t.root] = al[t.root]]]
  BY <1>8, <1>10, <1>11
<1>13. [w EXCEPT !.lists = al] = [lists |-> al, root |-> t.root, next |-> t.next, inv |-> t.inv]
  BY <1>5
<1> QED
  BY <1>6, <1>9, <1>12, <1>13

(* What KillsOf() is *)
LEMMA KillsAre ==
    ASSUME NEW S, NEW kills \in Seq(S)
    PROVE  /\ KillsOf(kills) \in Seq(S \X {NoId})
           /\ Len(KillsOf(kills)) = Len(kills) /\ Len(kills) \in Nat
           /\ \A n \in 1..Len(kills) : KillsOf(kills)[n] = <<kills[n], NoId>>
           /\ <<>> \o KillsOf(kills) = KillsOf(kills)
<1>1. Len(kills) \in Nat /\ DOMAIN kills = 1..Len(kills) /\ \A n \in 1..Len(kills) : kills[n] \in S
  OBVIOUS
<1>2. /\ KillsOf(kills) \in Seq(S \X {NoId}) /\ Len(KillsOf(kills)) = Len(kills)
      /\ \A n \in 1..Len(kills) : KillsOf(kills)[n] = <<kills[n], NoId>>
  BY <1>1 DEF KillsOf
<1> DEFINE q == KillsOf(kills)
<1>3. q \in Seq(S \X {NoId}) => <<>> \o q = q
  <2> HIDE DEF q
  <2> QED
    OBVIOUS
<1> QED
  BY <1>1, <1>2, <1>3

(* The lists kills are gone from t, and each of them has been reported.      *)
Purged(t, pl, u, pl2, kills) ==
    /\ kills \in Seq(DOMAIN t.lists) /\ t.root \notin ToSet(kills)
    /\ u.root = t.root /\ u.inv = KillsOf(kills)
    /\ \A k \in Reached(t) \ {t.root} : k \notin ToSet(kills) => Kept(t, pl, u, pl2, k, k)

(* remove_from_list(), and the lists that are purged with the device *)
LEMMA RemoveFromListProper ==
    ASSUME NEW t, NEW pl, NEW fs, NEW X, Proper(t, pl, fs, X), t.inv = <<>>,
           NEW i \in DOMAIN DeviceItems(t)
    PROVE  LET u == RemoveFromList(t, i)
               d == DeviceItems(t)[i].dev
           IN \E pl2, kills : /\ Proper(u, pl2, fs, X \ {d})
                              /\ RemovedDevice(t, u, d)
                              /\ Purged(t, pl, u, pl2, kills)
<1> DEFINE d == DeviceItems(t)[i].dev
           c == DeviceItems(t)[i].child
           r == [t EXCEPT !.lists[t.root].items = RemoveAt(@, i)]
           u == RemoveFromList(t, i)
           goal(z) == \E pl2, kills : /\ Proper(z, pl2, fs, X \ {d})
                                      /\ RemovedDevice(t, z, d)
                                      /\ Purged(t, pl, z, pl2, kills)
<1>1. /\ Sound(t) /\ Matched(t) /\ Shaped(t, pl) /\ Listed(t) /\ KindItems(t)
      /\ t.root \in DOMAIN t.lists
  BY DEF Proper, Rich, Shaped, Sound, TreeType, RootList
<1>2. u = IF c = NoId THEN r ELSE PurgeSubtree(r, c)
  BY DEF RemoveFromList, Items, DeviceItems
<1> SUFFICES goal(u)
  OBVIOUS
<1> HIDE DEF u
<1>3. CASE c = NoId
  <2> DEFINE kills == <<>>
  <2>1. /\ Proper(r, pl, fs, X \ {d})
        /\ r.inv = t.inv /\ r.root = t.root
        /\ RemovedDevice(t, r, d)
        /\ \A l \in Reached(t) \ {t.root} : Kept(t, pl, r, pl, l, l)
    <3>1. /\ r = WithoutItem(t, i) /\ DeviceItems(t)[i].child = NoId
          /\ Proper(t, pl, fs, X) /\ i \in DOMAIN DeviceItems(t)
      BY <1>3 DEF WithoutItem
    <3> HIDE DEF r
    <3> QED
      BY ONLY <3>1, DeviceItemRemoved
  <2> HIDE DEF r
  <2>2. kills \in Seq(DOMAIN t.lists) /\ ToSet(kills) = {} /\ KillsOf(kills) = <<>>
    BY DEF ToSet, KillsOf
  <2> HIDE DEF kills
  <2>3. Purged(t, pl, r, pl, kills)
    BY <2>1, <2>2 DEF Purged
  <2>4. u = r
    BY <1>2, <1>3
  <2> HIDE DEF d
  <2> QED
    BY <2>1, <2>3, <2>4
<1>4. CASE c # NoId
  <2> DEFINE gone == Sublists(r, c)
             w    == Without(t, gone)
             a    == Without(r, gone)
  <2>1. Sound(r) /\ Fewer(t, r) /\ TreeType(r)
    BY <1>1, ItemRemoved DEF Sound
  <2>2. /\ c \in Reached(t) /\ c # t.root
        /\ gone \subseteq Reached(t) \ {t.root}
    BY <1>1, <1>4, <2>1, VolumesPlace, SublistsReached
  <2>3. /\ gone \subseteq DOMAIN t.lists /\ t.root \notin gone
    BY <2>2 DEF Reached
  <2>4. \A k \in Reached(t) \ {t.root} : k \in gone <=> pl[k][1] = d
    <3> HIDE DEF r
    <3> QED
      BY <1>1, <1>4, <2>1, SublistsOnDevice
  <2>5. PICK kills \in Seq(gone) :
           /\ ToSet(kills) = gone
           /\ PurgeSubtree(r, c) = [a EXCEPT !.inv = @ \o KillsOf(kills)]
    <3> HIDE DEF r
    <3> QED
      BY <2>1, PurgeKills
  <2>6. a = [w EXCEPT !.lists[w.root].items = RemoveAt(@, i)]
    <3> HIDE DEF gone
    <3> QED
      BY <1>1, <2>3, RemovedWithout
  <2> HIDE DEF gone, r
  <2>7. /\ Pruned(t, w, gone) /\ w.inv = t.inv
        /\ \A k \in DOMAIN w.lists : w.lists[k].items = ObliviateChild(t, k, gone)
        /\ Sound(w) /\ Matched(w)
    BY <1>1, <2>3, WithoutPruned, WithoutInv
  <2>8. ASSUME NEW k \in Reached(t) \ {t.root}, t.lists[k].parent \in gone PROVE k \in gone
    <3> DEFINE p == t.lists[k].parent
    <3>1. Placed(t, pl) /\ StraysEmpty(t)
      BY <1>1 DEF Shaped
    <3>2. p \in Reached(t) \ {t.root} /\ pl[p][1] = d
      BY <2>2, <2>4, <2>8
    <3>3. Rank(pl, p) \in Nat /\ Rank(pl, p) # 0
      <4> HIDE DEF p
      <4> QED
        BY <1>1, <3>1, <3>2, KindByRank
    <3>4. pl[k][1] = pl[p][1]
      <4>1. \A j \in 1..Rank(pl, p) : pl[k][j] = pl[p][j]
        BY <1>1, <3>1, PlaceUp DEF Rank
      <4> HIDE DEF p
      <4>2. 1 \in 1..Rank(pl, p)
        BY <3>3
      <4> QED
        BY <4>1, <4>2
    <3> QED
      BY <2>4, <3>2, <3>4
  <2>9. PICK pl2 : Proper(w, pl2, fs, X) /\ IsPruning(t, pl, w, pl2, gone)
    <3> HIDE DEF w
    <3> QED
      BY <2>7, <2>8, PrunedProper
  <2>10. /\ w.root = t.root
         /\ DOMAIN DeviceItems(w) = DOMAIN DeviceItems(t)
         /\ DeviceItems(w)[i].dev = d
         /\ DeviceItems(w)[i].child = NoId
    <3>1. c \in gone
      <4>1. pl[c][1] = d
        BY <1>1, <1>4, VolumesPlace
      <4> HIDE DEF c, d
      <4> QED
        BY <2>2, <2>4, <4>1
    <3> HIDE DEF w
    <3>2. w.root = t.root
      BY <2>7 DEF Pruned
    <3> QED
      BY <1>1, <2>7, <3>1, <3>2, PrunedDevices
  <2> HIDE DEF w
  <2>11. /\ Proper(a, pl2, fs, X \ {d})
         /\ a.inv = w.inv /\ a.root = w.root
         /\ RemovedDevice(w, a, d)
         /\ \A l \in Reached(w) \ {w.root} : Kept(w, pl2, a, pl2, l, l)
    <3>1. i \in DOMAIN DeviceItems(w) /\ a = WithoutItem(w, i)
      BY <2>6, <2>10 DEF WithoutItem
    <3> DEFINE e == DeviceItems(w)[i].dev
    <3>2. /\ Proper(a, pl2, fs, X \ {e})
          /\ a.inv = w.inv /\ a.root = w.root
          /\ RemovedDevice(w, a, e)
          /\ \A l \in Reached(w) \ {w.root} : Kept(w, pl2, a, pl2, l, l)
      <4> HIDE DEF a
      <4> QED
        BY ONLY <2>9, <2>10, <3>1, DeviceItemRemoved
    <3>3. e = d
      BY <2>10
    <3> HIDE DEF e, a, d
    <3> QED
      BY <3>2, <3>3
  <2> HIDE DEF a
  <2> DEFINE x == KillsOf(kills)
  <2>12. u = [a EXCEPT !.inv = x]
    <3>1. u = [a EXCEPT !.inv = a.inv \o x]
      BY <1>2, <1>4, <2>5
    <3>2. <<>> \o x = x
      BY KillsAre
    <3>3. a.inv = <<>>
      BY <2>7, <2>11
    <3> QED
      BY <3>1, <3>2, <3>3
  <2> HIDE DEF x, d
  <2>13. /\ Proper(u, pl2, fs, X \ {d})
         /\ u.inv = x /\ u.root = a.root /\ u.lists = a.lists
         /\ IsPruning(a, pl2, u, pl2, {})
    BY <2>11, <2>12, ProperAside
  <2>14. RemovedDevice(t, u, d)
    <3>1. DeviceItems(u) = DeviceItems(a)
      BY <2>13 DEF DeviceItems
    <3>2. \A e : Lists(u, e) <=> Lists(t, e) /\ e # d
      BY <2>9, <2>11, <3>1 DEF RemovedDevice, IsPruning, Lists
    <3>3. \A e, v : ListsVolume(u, e, v) <=> ListsVolume(t, e, v) /\ e # d
      <4>1. \A e, v : ListsVolume(u, e, v) <=> ListsVolume(a, e, v)
        BY <3>1 DEF ListsVolume
      <4> QED
        BY <2>9, <2>11, <4>1 DEF RemovedDevice, IsPruning
    <3> QED
      BY <3>2, <3>3 DEF RemovedDevice
  <2>15. ASSUME NEW k \in Reached(t) \ {t.root}, k \notin gone PROVE Kept(t, pl, u, pl2, k, k)
    <3>1. Kept(t, pl, w, pl2, k, k)
      BY <2>9, <2>15 DEF IsPruning
    <3>2. k \in Reached(w) \ {w.root}
      BY <2>10, <3>1 DEF Kept
    <3>3. Kept(w, pl2, a, pl2, k, k)
      BY <2>11, <3>2
    <3>4. Kept(a, pl2, u, pl2, k, k)
      BY <2>13, <3>3 DEF IsPruning, Kept
    <3> QED
      BY <3>1, <3>3, <3>4, KeptOn
  <2>16. Purged(t, pl, u, pl2, kills)
    <3>1. kills \in Seq(DOMAIN t.lists)
      BY <2>3, <2>5
    <3> QED
      BY <2>3, <2>5, <2>10, <2>11, <2>13, <2>15, <3>1 DEF Purged, x
  <2> QED
    BY <2>13, <2>14, <2>16
<1> QED
  BY <1>3, <1>4

-----------------------------------------------------------------------------
(* Clients follow. *)

(* What a client knows that holds the lists D *)
ViewOf(t, pl, D) == [l \in D |-> [place |-> pl[l], shown |-> Shown(t, l)]]

(* All that a client knows is right. *)
ViewRight(t, pl, w) == DOMAIN w \subseteq Reached(t) /\ w = ViewOf(t, pl, DOMAIN w)

FollowedBy(told, u, w) ==
    /\ Follow(u, w) = told[Len(u.inv)]
    /\ told[0] = w
    /\ \A n \in 1..Len(u.inv) : told[n] = Told(u, told[n - 1], u.inv[n])

(* Follow() takes one signal after the other. *)
LEMMA FollowSteps ==
    ASSUME NEW u, NEW w, Len(u.inv) \in Nat
    PROVE  \E told : FollowedBy(told, u, w)
<1> DEFINE Step(a, n) == Told(u, a, u.inv[n])
           size == Len(u.inv)
           told[n \in 0..size] == IF n = 0 THEN w ELSE Step(told[n - 1], n)
           IsTold(f, m) == f = [n \in 0..m |-> IF n = 0 THEN w ELSE Step(f[n - 1], n)]
           M == {m \in Nat : \E f : IsTold(f, m)}
<1>1. Follow(u, w) = told[size]
  BY DEF Follow
<1> HIDE DEF Step
<1>2. size \in M
  <2>1. 0 \in M
    <3>1. IsTold([n \in 0..0 |-> w], 0)
      OBVIOUS
    <3> QED
      BY <3>1
  <2>2. ASSUME NEW m \in Nat, m \in M PROVE m + 1 \in M
    <3>1. PICK f : IsTold(f, m)
      BY <2>2
    <3> DEFINE g == [n \in 0..m + 1 |-> IF n <= m THEN f[n] ELSE Step(f[m], m + 1)]
    <3>2. \A n \in 0..m : f[n] = IF n = 0 THEN w ELSE Step(f[n - 1], n)
      BY <3>1
    <3>3. ASSUME NEW n \in 0..m + 1 PROVE g[n] = IF n = 0 THEN w ELSE Step(g[n - 1], n)
      <4>1. CASE n = 0
        BY <3>2, <4>1
      <4>2. CASE n \in 1..m
        <5>1. n \in 0..m /\ n - 1 \in 0..m /\ n # 0
          BY <4>2
        <5> QED
          BY <3>2, <5>1
      <4>3. CASE n = m + 1
        BY <4>3
      <4> QED
        BY <4>1, <4>2, <4>3
    <3>4. IsTold(g, m + 1)
      BY <3>3
    <3> HIDE DEF g, IsTold
    <3> QED
      BY <3>4
  <2> HIDE DEF M
  <2>3. Nat \subseteq M
    BY <2>1, <2>2, UpFromZero
  <2> QED
    BY <2>3
<1>3. told = [n \in 0..size |-> IF n = 0 THEN w ELSE Step(told[n - 1], n)]
  BY <1>2
<1> HIDE DEF told
<1>4. \A n \in 0..size : told[n] = IF n = 0 THEN w ELSE Step(told[n - 1], n)
  BY <1>3
<1> HIDE DEF size
<1>5. /\ told[0] = w
      /\ \A n \in 1..size : told[n] = Step(told[n - 1], n)
  BY <1>4 DEF size
<1>6. FollowedBy(told, u, w)
  BY <1>1, <1>5 DEF size, Step, FollowedBy
<1> QED
  BY <1>6

(* A list that is the same in both trees is the same to the client. *)
LEMMA ViewKept ==
    ASSUME NEW t, NEW pl, NEW u, NEW pl2, NEW D, D \subseteq Reached(t),
           \A k \in D : Kept(t, pl, u, pl2, k, k)
    PROVE  ViewOf(t, pl, D) = ViewOf(u, pl2, D) /\ D \subseteq Reached(u)
<1>1. ASSUME NEW k \in D PROVE pl2[k] = pl[k] /\ Shown(u, k) = Shown(t, k) /\ k \in Reached(u)
  <2>1. k \in Reached(u) /\ pl2[k] = pl[k] /\ Looks(t, k, u, k)
    BY DEF Kept
  <2>2. k \in DOMAIN u.lists /\ k \in DOMAIN t.lists
    BY <2>1 DEF Reached
  <2> QED
    BY <2>1, <2>2, LooksShown
<1> QED
  BY <1>1 DEF ViewOf

(* The signals about u tell all that is different from t: the lists kills    *)
(* are gone, and list old, if there is one, has become list new.             *)
Tells(t, pl, u, pl2, kills, old, new) ==
    /\ kills \in Seq(DOMAIN t.lists)
    /\ u.inv = IF old = NoId THEN KillsOf(kills) ELSE Append(KillsOf(kills), <<old, new>>)
    /\ \A k \in Reached(t) \ {old} : k \notin ToSet(kills) => Kept(t, pl, u, pl2, k, k)
    /\ old # NoId => /\ old \in Reached(t) /\ pl2[new] = pl[old]
                     /\ new \in Reached(u) /\ new # NoId

(* Then a client that follows them is right again. *)
LEMMA FollowRight ==
    ASSUME NEW t, NEW pl, Sound(t), NEW u, NEW pl2, NEW kills, NEW old, NEW new,
           Tells(t, pl, u, pl2, kills, old, new), NEW w, ViewRight(t, pl, w)
    PROVE  ViewRight(u, pl2, Follow(u, w))
<1> DEFINE m == Len(kills)
           q == KillsOf(kills)
           D(n) == DOMAIN w \ {kills[j] : j \in 1..n}
           V == DOMAIN w \ ToSet(kills)
<1>1. /\ m \in Nat /\ Len(q) = m /\ q \in Seq((DOMAIN t.lists) \X {NoId})
      /\ \A n \in 1..m : q[n] = <<kills[n], NoId>>
  <2>1. kills \in Seq(DOMAIN t.lists)
    BY DEF Tells
  <2> DEFINE T == DOMAIN t.lists
  <2>2. kills \in Seq(T)
    BY <2>1
  <2> HIDE DEF T
  <2>3. /\ KillsOf(kills) \in Seq(T \X {NoId})
        /\ Len(KillsOf(kills)) = Len(kills) /\ Len(kills) \in Nat
        /\ \A n \in 1..Len(kills) : KillsOf(kills)[n] = <<kills[n], NoId>>
    BY <2>2, KillsAre
  <2> QED
    BY <2>3 DEF T
<1>2. NoId \notin DOMAIN w /\ NoId \notin Reached(t)
  BY DEF Sound, IdsInUse, ViewRight, Reached
<1>3. /\ Len(u.inv) = IF old = NoId THEN m ELSE m + 1
      /\ \A n \in 1..m : u.inv[n] = <<kills[n], NoId>>
      /\ old # NoId => u.inv[m + 1] = <<old, new>>
  <2> DEFINE S == ((DOMAIN t.lists) \X {NoId}) \cup {<<old, new>>}
             x == <<old, new>>
  <2>1. q \in Seq(S) /\ x \in S
    <3>1. ((DOMAIN t.lists) \X {NoId}) \subseteq S /\ x \in S
      OBVIOUS
    <3> DEFINE T == (DOMAIN t.lists) \X {NoId}
    <3>2. q \in Seq(T) /\ T \subseteq S
      BY <1>1, <3>1
    <3> HIDE DEF q, S, T
    <3> QED
      BY <3>1, <3>2
  <2> HIDE DEF q, S, x
  <2>2. /\ Len(Append(q, x)) = m + 1
        /\ \A n \in 1..m : Append(q, x)[n] = q[n]
        /\ Append(q, x)[m + 1] = x
    BY <1>1, <2>1, AppendTo
  <2>3. u.inv = IF old = NoId THEN q ELSE Append(q, x)
    BY DEF Tells, q, x
  <2>4. CASE old = NoId
    BY <1>1, <2>3, <2>4
  <2>5. CASE old # NoId
    <3>1. u.inv = Append(q, x)
      BY <2>3, <2>5
    <3> QED
      BY <1>1, <2>2, <2>5, <3>1 DEF x
  <2> QED
    BY <2>4, <2>5
<1> HIDE DEF q
<1>4. Len(u.inv) \in Nat /\ 1..m \subseteq 1..Len(u.inv)
  BY <1>1, <1>3
<1>5. PICK told : /\ Follow(u, w) = told[Len(u.inv)]
                  /\ told[0] = w
                  /\ \A n \in 1..Len(u.inv) : told[n] = Told(u, told[n - 1], u.inv[n])
  <2>1. PICK told : FollowedBy(told, u, w)
    BY <1>4, FollowSteps
  <2> QED
    BY <2>1, Zenon DEF FollowedBy
<1>6. told[m] = ViewOf(t, pl, V)
  <2> DEFINE S == {n \in Nat : n <= m => told[n] = ViewOf(t, pl, D(n))}
  <2>1. 0 \in S
    <3>1. D(0) = DOMAIN w
      OBVIOUS
    <3>2. told[0] = ViewOf(t, pl, D(0))
      BY <1>5, <3>1 DEF ViewRight
    <3> HIDE DEF D
    <3> QED
      BY <3>2
  <2>2. ASSUME NEW n \in Nat, n \in S PROVE n + 1 \in S
    <3> SUFFICES ASSUME n + 1 <= m PROVE told[n + 1] = ViewOf(t, pl, D(n + 1))
      OBVIOUS
    <3>1. told[n] = ViewOf(t, pl, D(n))
      BY <1>1, <2>2
    <3>2. n + 1 \in 1..m /\ n + 1 \in 1..Len(u.inv) /\ (n + 1) - 1 = n
      BY <1>1, <1>4
    <3>3. told[n + 1] = Told(u, told[n], <<kills[n + 1], NoId>>)
      BY <1>3, <1>5, <3>2
    <3>4. told[n + 1] = Restrict(told[n], DOMAIN told[n] \ {kills[n + 1]})
      <4> DEFINE s == <<kills[n + 1], NoId>>
      <4>1. s[1] = kills[n + 1] /\ s[2] = NoId
        OBVIOUS
      <4> HIDE DEF s
      <4> QED
        BY <3>3, <4>1 DEF Told, s
    <3>5. D(n + 1) = D(n) \ {kills[n + 1]}
      <4>1. 1..n + 1 = 1..n \cup {n + 1}
        OBVIOUS
      <4> QED
        BY <4>1
    <3> HIDE DEF D
    <3>6. DOMAIN ViewOf(t, pl, D(n)) = D(n)
      BY DEF ViewOf
    <3> QED
      BY <3>1, <3>4, <3>5, <3>6 DEF ViewOf, Restrict
  <2> HIDE DEF S
  <2>3. m \in S
    BY <1>1, <2>1, <2>2, UpFromZero
  <2>4. told[m] = ViewOf(t, pl, D(m))
    BY <1>1, <2>3 DEF S
  <2>5. {kills[j] : j \in 1..m} = ToSet(kills)
    <3>1. DOMAIN kills = 1..m
      BY DEF Tells
    <3> QED
      BY <3>1 DEF ToSet
  <2>6. D(m) = V
    BY <2>5
  <2> QED
    BY <2>4, <2>6
<1>7. V \subseteq Reached(t)
  BY DEF ViewRight
<1> HIDE DEF m, D, V
<1>8. \A k \in V \ {old} : Kept(t, pl, u, pl2, k, k)
  BY <1>7 DEF Tells, V
<1>9. CASE old = NoId
  <2>1. Follow(u, w) = told[m]
    BY <1>3, <1>5, <1>9
  <2>2. V \ {old} = V
    BY <1>2, <1>7, <1>9
  <2>3. ViewOf(t, pl, V) = ViewOf(u, pl2, V) /\ V \subseteq Reached(u)
    BY <1>7, <1>8, <2>2, ViewKept
  <2>4. Follow(u, w) = ViewOf(u, pl2, V)
    BY <1>6, <2>1, <2>3
  <2>5. DOMAIN ViewOf(u, pl2, V) = V
    BY DEF ViewOf
  <2> QED
    BY <2>3, <2>4, <2>5 DEF ViewRight
<1>10. CASE old # NoId
  <2> DEFINE R == V \ {old}
             s == <<old, new>>
             a == ViewOf(t, pl, V)
  <2>1. Follow(u, w) = Told(u, a, s)
    <3>1. m + 1 \in 1..Len(u.inv) /\ (m + 1) - 1 = m /\ Len(u.inv) = m + 1
      BY <1>1, <1>3, <1>10
    <3>2. told[m + 1] = Told(u, told[m], u.inv[m + 1])
      BY <1>5, <3>1
    <3> QED
      BY <1>3, <1>5, <1>6, <1>10, <3>1, <3>2
  <2>2. s[1] = old /\ s[2] = new
    OBVIOUS
  <2>3. DOMAIN a = V /\ \A k \in V : a[k] = [place |-> pl[k], shown |-> Shown(t, k)]
    BY DEF ViewOf
  <2>4. Restrict(a, V \ {old}) = ViewOf(t, pl, R)
    BY DEF Restrict, ViewOf
  <2>5. ViewOf(t, pl, R) = ViewOf(u, pl2, R) /\ R \subseteq Reached(u)
    BY <1>7, <1>8, ViewKept
  <2>6. /\ old \in Reached(t) /\ pl2[new] = pl[old] /\ new \in Reached(u) /\ new # NoId
    BY <1>10 DEF Tells
  <2> HIDE DEF s, R
  <2>7. CASE old \notin V
    <3>1. Told(u, a, s) = Restrict(a, V \ {old})
      <4> HIDE DEF a
      <4> QED
        BY <1>10, <2>2, <2>3, <2>7 DEF Told
    <3>2. Follow(u, w) = ViewOf(u, pl2, R)
      BY <2>1, <2>4, <2>5, <3>1
    <3>3. DOMAIN ViewOf(u, pl2, R) = R
      BY DEF ViewOf
    <3> QED
      BY <2>5, <3>2, <3>3 DEF ViewRight
  <2>8. CASE old \in V
    <3> DEFINE b == ViewOf(u, pl2, R)
               x == [place |-> pl2[new], shown |-> Shown(u, new)]
    <3>1. a[old].place = pl[old]
      BY <2>3, <2>8
    <3>2. Told(u, a, s) = Put(Restrict(a, V \ {old}), new, Sees(u, new, a[old].place))
      <4> HIDE DEF a
      <4> QED
        BY <1>10, <2>2, <2>3, <2>6, <2>8 DEF Told
    <3>3. Sees(u, new, a[old].place) = x
      BY <2>6, <3>1 DEF Sees
    <3>4. Follow(u, w) = Put(b, new, x)
      BY <2>1, <2>4, <2>5, <3>2, <3>3
    <3>5. DOMAIN b = R /\ \A k \in R : b[k] = [place |-> pl2[k], shown |-> Shown(u, k)]
      BY DEF ViewOf
    <3> HIDE DEF b
    <3>6. Put(b, new, x) = ViewOf(u, pl2, R \cup {new})
      BY <3>5 DEF Put, ViewOf
    <3>7. DOMAIN ViewOf(u, pl2, R \cup {new}) = R \cup {new}
      BY DEF ViewOf
    <3> QED
      BY <2>5, <2>6, <3>4, <3>6, <3>7 DEF ViewRight
  <2> QED
    BY <2>7, <2>8
<1> QED
  BY <1>9, <1>10

-----------------------------------------------------------------------------
(* What the handlers do to the tree *)

(* Tree u is right, and what is different from t is told. *)
Answered(t, pl, u, fs, X) ==
    \E pl2, kills, old, new : Proper(u, pl2, fs, X) /\ Tells(t, pl, u, pl2, kills, old, new)

(* One list has got a new ID, or none. *)
LEMMA ReissueTold ==
    ASSUME NEW t, NEW pl, t.inv = <<>>, NEW u, NEW pl2
    PROVE  /\ Untouched(t, pl, u, pl2) => Tells(t, pl, u, pl2, <<>>, NoId, NoId)
           /\ \A old, new : Reissued(t, pl, u, pl2, old, new) => Tells(t, pl, u, pl2, <<>>, old, new)
<1> DEFINE none == <<>>
<1>1. none \in Seq(DOMAIN t.lists) /\ KillsOf(none) = <<>> /\ ToSet(none) = {}
  BY DEF KillsOf, ToSet
<1> HIDE DEF none
<1>2. ASSUME Untouched(t, pl, u, pl2) PROVE Tells(t, pl, u, pl2, none, NoId, NoId)
  BY <1>1, <1>2 DEF Untouched, Tells
<1>3. ASSUME NEW old, NEW new, Reissued(t, pl, u, pl2, old, new)
      PROVE  Tells(t, pl, u, pl2, none, old, new)
  <2>1. u.inv = Append(KillsOf(none), <<old, new>>)
    BY <1>1, <1>3, Zenon DEF Reissued
  <2> DEFINE x == Append(KillsOf(none), <<old, new>>)
  <2>2. u.inv = x
    BY <2>1
  <2> HIDE DEF x
  <2>3. u.inv = IF old = NoId THEN KillsOf(none) ELSE x
    BY <1>3, <2>2 DEF Reissued
  <2> QED
    BY <1>1, <1>3, <2>3 DEF Reissued, Tells, x
<1> QED
  BY <1>2, <1>3 DEF none

(* The tree stays as it is. *)
LEMMA SameAnswered ==
    ASSUME NEW t, NEW pl, NEW fs, NEW X, Proper(t, pl, fs, X), t.inv = <<>>
    PROVE  Answered(t, pl, t, fs, X)
<1>1. Untouched(t, pl, t, pl)
  BY LooksSame DEF Untouched, Kept
<1> QED
  BY <1>1, ReissueTold DEF Answered

(* NewUSBDevice *)
LEMMA AddedAnswered ==
    ASSUME NEW t, NEW pl, NEW fs, NEW X, Proper(t, pl, fs, X), t.inv = <<>>,
           NEW d \in Devices, ~Lists(t, d)
    PROVE  LET u == ReinsertDeviceList(AddToList(t, d))
           IN /\ Answered(t, pl, u, fs, X)
              /\ \A e : Lists(u, e) <=> Lists(t, e) \/ e = d
              /\ \A e, v : ListsVolume(u, e, v) <=> ListsVolume(t, e, v)
<1> DEFINE a == AddToList(t, d)
           u == ReinsertDeviceList(a)
<1>1. /\ Proper(a, pl, fs, X)
      /\ AddedDevice(t, a, d)
      /\ \A l \in Reached(t) \ {t.root} : Kept(t, pl, a, pl, l, l)
  BY AddToListProper
<1> HIDE DEF a
<1>2. t.root \in Reached(t) /\ t.root # NoId /\ pl[t.root] = <<>>
  BY RootReached DEF Proper, Rich, Shaped, Placed, Sound, IdsInUse, Reached
<1>3. a.root = t.root /\ a.inv = t.inv
  BY <1>1 DEF AddedDevice
<1>4. \E pl2 : /\ Proper(u, pl2, fs, X)
               /\ Reissued(t, pl, u, pl2, t.root, u.root)
               /\ \A e : Lists(u, e) <=> Lists(a, e)
               /\ \A e, v : ListsVolume(u, e, v) <=> ListsVolume(a, e, v)
  <2> DEFINE o == t
             plo == pl
  <2>1. \A l \in Reached(o) \ {o.root} : Kept(o, plo, a, pl, l, l)
    BY <1>1
  <2> QED
    BY <1>1, <1>2, <1>3, <2>1, DevicesReissued
<1> HIDE DEF u
<1>5. PICK pl2 : /\ Proper(u, pl2, fs, X)
                 /\ Reissued(t, pl, u, pl2, t.root, u.root)
                 /\ \A e : Lists(u, e) <=> Lists(a, e)
                 /\ \A e, v : ListsVolume(u, e, v) <=> ListsVolume(a, e, v)
  BY <1>4
<1>6. Answered(t, pl, u, fs, X)
  BY <1>5, ReissueTold DEF Answered
<1> QED
  BY <1>1, <1>5, <1>6 DEF u, a, AddedDevice

(* DeviceRemoved *)
LEMMA RemovedAnswered ==
    ASSUME NEW t, NEW pl, NEW fs, NEW X, Proper(t, pl, fs, X), t.inv = <<>>,
           NEW i \in DOMAIN DeviceItems(t)
    PROVE  LET u == ReinsertDeviceList(RemoveFromList(t, i))
               d == DeviceItems(t)[i].dev
           IN /\ Answered(t, pl, u, fs, X \ {d})
              /\ RemovedDevice(t, u, d)
<1> DEFINE a == RemoveFromList(t, i)
           u == ReinsertDeviceList(a)
           d == DeviceItems(t)[i].dev
<1>1. PICK plA, kills : /\ Proper(a, plA, fs, X \ {d})
                        /\ RemovedDevice(t, a, d)
                        /\ Purged(t, pl, a, plA, kills)
  BY RemoveFromListProper
<1> HIDE DEF a
<1>2. t.root \in Reached(t) /\ t.root # NoId /\ pl[t.root] = <<>>
  BY RootReached DEF Proper, Rich, Shaped, Placed, Sound, IdsInUse, Reached
<1>3. /\ u.inv = Append(a.inv, <<a.root, u.root>>)
      /\ u.root # NoId
      /\ \E pl2 : Proper(u, pl2, fs, X \ {d}) /\ IsRenaming(a, plA, u, pl2, a.root, u.root)
  BY <1>1, DevicesRenewed
<1> HIDE DEF u, d
<1>4. PICK pl2 : Proper(u, pl2, fs, X \ {d}) /\ IsRenaming(a, plA, u, pl2, a.root, u.root)
  BY <1>3
<1>5. u.root \in Reached(u) /\ pl2[u.root] = <<>>
  BY <1>4, RootReached DEF Proper, Rich, Shaped, Placed, Sound
<1>6. ASSUME NEW k \in Reached(t) \ {t.root}, k \notin ToSet(kills) PROVE Kept(t, pl, u, pl2, k, k)
  <2>1. Kept(t, pl, a, plA, k, k)
    BY <1>1, <1>6 DEF Purged
  <2>2. k \in Reached(a) \ {a.root}
    BY <1>1, <2>1 DEF Kept, Purged
  <2>3. Kept(a, plA, u, pl2, k, k)
    BY <1>4, <2>2 DEF IsRenaming
  <2> QED
    BY <2>1, <2>3, KeptOn
<1>7. Tells(t, pl, u, pl2, kills, t.root, u.root)
  <2>1. u.inv = Append(KillsOf(kills), <<t.root, u.root>>)
    BY <1>1, <1>3, Zenon DEF Purged
  <2> DEFINE x == Append(KillsOf(kills), <<t.root, u.root>>)
  <2>2. u.inv = x
    BY <2>1
  <2> HIDE DEF x
  <2>3. u.inv = IF t.root = NoId THEN KillsOf(kills) ELSE x
    BY <1>2, <2>2
  <2>4. kills \in Seq(DOMAIN t.lists)
    BY <1>1 DEF Purged
  <2> QED
    BY <1>2, <1>3, <1>5, <1>6, <2>3, <2>4 DEF Tells, x
<1>8. Answered(t, pl, u, fs, X \ {d})
  BY <1>4, <1>7 DEF Answered
<1>9. RemovedDevice(t, u, d)
  BY <1>1, <1>4 DEF RemovedDevice, IsRenaming
<1> QED
  BY <1>8, <1>9 DEF u, a, d

(* NewVolume *)
LEMMA VolumeAnswered ==
    ASSUME NEW t, NEW pl, NEW fs, NEW X, Proper(t, pl, fs, X), t.inv = <<>>,
           NEW i \in DOMAIN DeviceItems(t), NEW v \in Nat, ~HasVolume(DeviceItems(t)[i].vols, v)
    PROVE  LET u == ReinsertVolumeList(AddVolume(t, i, v), i, v)
           IN /\ Answered(t, pl, u, fs, X)
              /\ VolumeKnown(t, u, DeviceItems(t)[i].dev, v)
<1> DEFINE u == ReinsertVolumeList(AddVolume(t, i, v), i, v)
<1>1. \E pl2 : /\ Proper(u, pl2, fs, X)
               /\ VolumeKnown(t, u, DeviceItems(t)[i].dev, v)
               /\ \/ Untouched(t, pl, u, pl2)
                  \/ \E old, new : Reissued(t, pl, u, pl2, old, new)
  BY NewVolumeProper
<1> HIDE DEF u
<1>2. Answered(t, pl, u, fs, X)
  BY <1>1, ReissueTold DEF Answered
<1> QED
  BY <1>1, <1>2 DEF u

(* A list is collected. *)
LEMMA CollectAnswered ==
    ASSUME NEW t, NEW pl, NEW fs, NEW X, Proper(t, pl, fs, X), t.inv = <<>>,
           NEW l \in DOMAIN t.lists, l # t.root, IsLeaf(t, l)
    PROVE  LET u == Discard(t, l)
           IN /\ Answered(t, pl, u, fs, X)
              /\ \A e : Lists(u, e) <=> Lists(t, e)
              /\ \A e, v : ListsVolume(u, e, v) <=> ListsVolume(t, e, v)
<1> DEFINE u == Discard(t, l)
           kills == <<l>>
<1>1. /\ u.inv = Append(t.inv, <<l, NoId>>)
      /\ \E pl2 : Proper(u, pl2, fs, X) /\ IsPruning(t, pl, u, pl2, {l})
  BY DiscardProper
<1> HIDE DEF u
<1>2. PICK pl2 : Proper(u, pl2, fs, X) /\ IsPruning(t, pl, u, pl2, {l})
  BY <1>1
<1>3. kills \in Seq(DOMAIN t.lists) /\ ToSet(kills) = {l}
  <2>1. kills \in Seq(DOMAIN t.lists)
    <3> DEFINE T == DOMAIN t.lists
    <3>1. l \in T
      OBVIOUS
    <3> HIDE DEF T
    <3>2. kills \in Seq(T)
      BY <3>1
    <3> QED
      BY <3>2 DEF T
  <2>2. DOMAIN kills = {1} /\ kills[1] = l
    OBVIOUS
  <2> HIDE DEF kills
  <2> QED
    BY <2>1, <2>2 DEF ToSet
<1>4. u.inv = KillsOf(kills)
  <2>1. KillsOf(kills) = <<<<l, NoId>>>>
    BY DEF KillsOf
  <2>2. Append(<<>>, <<l, NoId>>) = <<<<l, NoId>>>>
    OBVIOUS
  <2> HIDE DEF kills
  <2> QED
    BY <1>1, <2>1, <2>2, Zenon
<1>5. NoId \notin Reached(t)
  BY DEF Proper, Rich, Sound, IdsInUse, Reached
<1> HIDE DEF kills
<1>6. Tells(t, pl, u, pl2, kills, NoId, NoId)
  BY <1>2, <1>3, <1>4, <1>5 DEF IsPruning, Tells
<1> QED
  BY <1>2, <1>6 DEF Answered, IsPruning, u

-----------------------------------------------------------------------------
(* What the signals on their way say *)

(***************************************************************************)
(* The broker is in touch with the mount daemon: s are the signals on      *)
(* their way, P the devices that are present and M the volumes that are    *)
(* mounted, K and W the devices and volumes that the broker knows of, or   *)
(* will get to know when it starts, and L and V those that it lists.       *)
(***************************************************************************)
GoneIn(s, d, k) == \E j \in DOMAIN s : j > k /\ s[j] = DeviceRemoved(d)

NewIn(s, d, k) == s[k] = NewUSBDevice(d) /\ ~GoneIn(s, d, k)

(* A device that is present is known, or will be. *)
Expected(s, K, d, n) == (d \in K /\ ~GoneIn(s, d, 0)) \/ \E k \in 1..n : NewIn(s, d, k)

ExpectedVolume(s, K, W, d, v) ==
    \/ <<d, v>> \in W /\ ~GoneIn(s, d, 0)
    \/ \E j \in DOMAIN s : /\ s[j] = NewVolume(d, v) /\ ~GoneIn(s, d, j)
                           /\ Expected(s, K, d, j - 1)

InTouch(s, P, M, K, W, L, V) ==
    /\ \A d \in P : Expected(s, K, d, Len(s))
    /\ \A d \in Devices, v \in Nat : <<d, v>> \in M => ExpectedVolume(s, K, W, d, v)
    /\ \A d \in L : GoneIn(s, d, 0) \/ d \in P
    /\ \A d \in Devices, v \in Nat : <<d, v>> \in V => GoneIn(s, d, 0) \/ <<d, v>> \in M
    /\ \A d \in Devices : \A k \in DOMAIN s : NewIn(s, d, k) => d \in P
    /\ \A d \in Devices, v \in Nat : \A k \in DOMAIN s :
          s[k] = NewVolume(d, v) => GoneIn(s, d, k) \/ <<d, v>> \in M
    /\ \A d \in Devices, v \in Nat : <<d, v>> \in M => d \in P

(* Signals of different kinds are different. *)
LEMMA SignalKinds ==
    ASSUME NEW d, NEW e, NEW v, NEW w
    PROVE  /\ NewUSBDevice(d) # DeviceRemoved(e)
           /\ NewUSBDevice(d) # NewVolume(e, w)
           /\ NewVolume(d, v) # DeviceRemoved(e)
           /\ NewUSBDevice(d) = NewUSBDevice(e) => d = e
           /\ DeviceRemoved(d) = DeviceRemoved(e) => d = e
           /\ NewVolume(d, v) = NewVolume(e, w) => d = e /\ v = w
<1>1. /\ NewUSBDevice(d).name = "NewUSBDevice" /\ NewUSBDevice(e).dev = e
      /\ NewUSBDevice(d).dev = d
  BY DEF NewUSBDevice
<1>2. /\ DeviceRemoved(e).name = "DeviceRemoved" /\ DeviceRemoved(e).dev = e
      /\ DeviceRemoved(d).dev = d
  BY DEF DeviceRemoved
<1>3. /\ NewVolume(e, w).name = "NewVolume" /\ NewVolume(e, w).dev = e /\ NewVolume(e, w).vol = w
      /\ NewVolume(d, v).name = "NewVolume" /\ NewVolume(d, v).dev = d /\ NewVolume(d, v).vol = v
  BY DEF NewVolume
<1> QED
  BY <1>1, <1>2, <1>3

(* One signal more *)
Sent(s, x, s2, n) ==
    /\ n \in Nat /\ Len(s) = n /\ Len(s2) = n + 1
    /\ DOMAIN s = 1..n /\ DOMAIN s2 = 1..n + 1
    /\ s2[n + 1] = x /\ \A j \in 1..n : s2[j] = s[j]

(* What Append() does to the signals *)
LEMMA SentIs ==
    ASSUME NEW T, NEW s \in Seq(T), NEW x \in T
    PROVE  Sent(s, x, Append(s, x), Len(s))
<1>1. Append(s, x) \in Seq(T)
  BY AppendTo
<1> QED
  BY <1>1, AppendTo DEF Sent

(* What it adds *)
LEMMA SentAdds ==
    ASSUME NEW s, NEW x, NEW s2, NEW n, Sent(s, x, s2, n), NEW d
    PROVE  /\ \A k \in 0..n : GoneIn(s2, d, k) <=> GoneIn(s, d, k) \/ x = DeviceRemoved(d)
           /\ ~GoneIn(s2, d, n + 1)
           /\ \A k \in 1..n : NewIn(s2, d, k) <=> NewIn(s, d, k) /\ x # DeviceRemoved(d)
           /\ NewIn(s2, d, n + 1) <=> x = NewUSBDevice(d)
<1> DEFINE r == DeviceRemoved(d)
<1>1. /\ n \in Nat /\ DOMAIN s = 1..n /\ DOMAIN s2 = 1..n + 1
      /\ s2[n + 1] = x /\ \A j \in 1..n : s2[j] = s[j]
  BY DEF Sent
<1>2. ASSUME NEW k \in 0..n PROVE GoneIn(s2, d, k) <=> GoneIn(s, d, k) \/ x = r
  <2>1. ASSUME x = r PROVE GoneIn(s2, d, k)
    <3>1. n + 1 \in DOMAIN s2 /\ n + 1 > k
      BY <1>1
    <3> QED
      BY <1>1, <2>1, <3>1 DEF GoneIn
  <2>2. ASSUME GoneIn(s, d, k) PROVE GoneIn(s2, d, k)
    <3>1. PICK j \in DOMAIN s : j > k /\ s[j] = r
      BY <2>2 DEF GoneIn
    <3>2. j \in DOMAIN s2 /\ s2[j] = r
      BY <1>1, <3>1
    <3> QED
      BY <3>1, <3>2 DEF GoneIn
  <2>3. ASSUME GoneIn(s2, d, k), x # r PROVE GoneIn(s, d, k)
    <3>1. PICK j \in DOMAIN s2 : j > k /\ s2[j] = r
      BY <2>3 DEF GoneIn
    <3>2. j # n + 1
      BY <1>1, <2>3, <3>1
    <3>3. j \in 1..n
      BY <1>1, <3>2
    <3> QED
      BY <1>1, <3>1, <3>3 DEF GoneIn
  <2> QED
    BY <2>1, <2>2, <2>3
<1>3. ~GoneIn(s2, d, n + 1)
  BY <1>1 DEF GoneIn
<1>4. ASSUME NEW k \in 1..n PROVE NewIn(s2, d, k) <=> NewIn(s, d, k) /\ x # r
  <2>1. k \in 0..n /\ s2[k] = s[k]
    BY <1>1
  <2> QED
    BY <1>2, <2>1 DEF NewIn
<1>5. NewIn(s2, d, n + 1) <=> x = NewUSBDevice(d)
  BY <1>1, <1>3 DEF NewIn
<1> QED
  BY <1>2, <1>3, <1>4, <1>5

(* One signal less *)
Handled(s, x, s2, n) ==
    /\ n \in Nat /\ Len(s) = n + 1 /\ Len(s2) = n
    /\ DOMAIN s = 1..n + 1 /\ DOMAIN s2 = 1..n
    /\ s[1] = x /\ \A j \in 1..n : s2[j] = s[j + 1]

(* What Tail() does to them *)
LEMMA HandledIs ==
    ASSUME NEW T, NEW s \in Seq(T), s # <<>>
    PROVE  Handled(s, Head(s), Tail(s), Len(s) - 1)
  BY DEF Handled

(* What is left *)
LEMMA HandledLeaves ==
    ASSUME NEW s, NEW x, NEW s2, NEW n, Handled(s, x, s2, n), NEW d
    PROVE  /\ \A k \in 0..n : GoneIn(s2, d, k) <=> GoneIn(s, d, k + 1)
           /\ GoneIn(s, d, 0) <=> GoneIn(s, d, 1) \/ x = DeviceRemoved(d)
           /\ \A k \in 1..n : NewIn(s2, d, k) <=> NewIn(s, d, k + 1)
           /\ NewIn(s, d, 1) <=> x = NewUSBDevice(d) /\ ~GoneIn(s2, d, 0)
<1> DEFINE r == DeviceRemoved(d)
<1>1. /\ n \in Nat /\ DOMAIN s = 1..n + 1 /\ DOMAIN s2 = 1..n
      /\ s[1] = x /\ \A j \in 1..n : s2[j] = s[j + 1]
  BY DEF Handled
<1>2. ASSUME NEW k \in 0..n PROVE GoneIn(s2, d, k) <=> GoneIn(s, d, k + 1)
  <2>1. ASSUME GoneIn(s2, d, k) PROVE GoneIn(s, d, k + 1)
    <3>1. PICK j \in DOMAIN s2 : j > k /\ s2[j] = r
      BY <2>1 DEF GoneIn
    <3>2. j + 1 \in DOMAIN s /\ j + 1 > k + 1 /\ s[j + 1] = r
      BY <1>1, <3>1
    <3> QED
      BY <3>2 DEF GoneIn
  <2>2. ASSUME GoneIn(s, d, k + 1) PROVE GoneIn(s2, d, k)
    <3>1. PICK j \in DOMAIN s : j > k + 1 /\ s[j] = r
      BY <2>2 DEF GoneIn
    <3>2. j - 1 \in 1..n /\ (j - 1) + 1 = j /\ j - 1 > k
      BY <1>1, <3>1
    <3>3. s2[j - 1] = r
      BY <1>1, <3>1, <3>2
    <3> QED
      BY <1>1, <3>2, <3>3 DEF GoneIn
  <2> QED
    BY <2>1, <2>2
<1>3. GoneIn(s, d, 0) <=> GoneIn(s, d, 1) \/ x = r
  <2>1. \A j \in 1..n + 1 : j > 0 <=> j > 1 \/ j = 1
    BY <1>1
  <2>2. 1 \in 1..n + 1
    BY <1>1
  <2> QED
    BY <1>1, <2>1, <2>2 DEF GoneIn
<1>4. ASSUME NEW k \in 1..n PROVE NewIn(s2, d, k) <=> NewIn(s, d, k + 1)
  <2>1. k \in 0..n /\ s2[k] = s[k + 1]
    BY <1>1
  <2> QED
    BY <1>2, <2>1 DEF NewIn
<1>5. NewIn(s, d, 1) <=> x = NewUSBDevice(d) /\ ~GoneIn(s2, d, 0)
  <2>1. 0 \in 0..n /\ 0 + 1 = 1
    BY <1>1
  <2> QED
    BY <1>1, <1>2, <2>1 DEF NewIn
<1> QED
  BY <1>2, <1>3, <1>4, <1>5

(* A device that is plugged in, or a volume that is mounted, is reported. *)
LEMMA SentTouch ==
    ASSUME NEW s, NEW P \in SUBSET Devices, NEW M, NEW K, NEW W, NEW L, NEW V, InTouch(s, P, M, K, W, L, V),
           NEW x, NEW s2, NEW n, Sent(s, x, s2, n), NEW P2 \in SUBSET Devices, NEW M2, P \subseteq P2,
           \A e \in Devices : x # DeviceRemoved(e),
           \A e \in P2 : e \in P \/ x = NewUSBDevice(e),
           \A e \in Devices : x = NewUSBDevice(e) => e \in P2,
           \A e \in Devices, v \in Nat : <<e, v>> \in M => <<e, v>> \in M2,
           \A e \in Devices, v \in Nat : <<e, v>> \in M2 => \/ <<e, v>> \in M
                                                            \/ e \in P /\ x = NewVolume(e, v),
           \A e \in Devices, v \in Nat : x = NewVolume(e, v) => <<e, v>> \in M2
    PROVE  InTouch(s2, P2, M2, K, W, L, V)
<1>1. /\ n \in Nat /\ Len(s) = n /\ Len(s2) = n + 1 /\ DOMAIN s = 1..n /\ DOMAIN s2 = 1..n + 1
      /\ s2[n + 1] = x /\ \A j \in 1..n : s2[j] = s[j]
  BY DEF Sent
<1>2. /\ \A d \in P : Expected(s, K, d, Len(s))
      /\ \A d \in Devices, v \in Nat : <<d, v>> \in M => ExpectedVolume(s, K, W, d, v)
      /\ \A d \in L : GoneIn(s, d, 0) \/ d \in P
      /\ \A d \in Devices, v \in Nat : <<d, v>> \in V => GoneIn(s, d, 0) \/ <<d, v>> \in M
      /\ \A d \in Devices : \A k \in DOMAIN s : NewIn(s, d, k) => d \in P
      /\ \A d \in Devices, v \in Nat : \A k \in DOMAIN s :
            s[k] = NewVolume(d, v) => GoneIn(s, d, k) \/ <<d, v>> \in M
      /\ \A d \in Devices, v \in Nat : <<d, v>> \in M => d \in P
  BY DEF InTouch
<1>3. ASSUME NEW e \in Devices
      PROVE  /\ \A k \in 0..n : GoneIn(s2, e, k) <=> GoneIn(s, e, k)
             /\ ~GoneIn(s2, e, n + 1)
             /\ \A k \in 1..n : NewIn(s2, e, k) <=> NewIn(s, e, k)
             /\ NewIn(s2, e, n + 1) <=> x = NewUSBDevice(e)
  BY SentAdds
<1>4. ASSUME NEW d \in L PROVE GoneIn(s2, d, 0) \/ d \in P2
  <2>1. GoneIn(s2, d, 0) <=> GoneIn(s, d, 0) \/ x = DeviceRemoved(d)
    <3>1. 0 \in 0..n
      BY <1>1
    <3> QED
      BY <3>1, SentAdds
  <2> QED
    BY <1>2, <2>1
<1>5. ASSUME NEW e \in Devices, NEW m \in 0..n, Expected(s, K, e, m) PROVE Expected(s2, K, e, m)
  <2>1. 0 \in 0..n /\ 1..m \subseteq 1..n
    BY <1>1
  <2> QED
    BY <1>3, <1>5, <2>1 DEF Expected
<1>6. \A d \in P2 : Expected(s2, K, d, Len(s2))
  <2> SUFFICES ASSUME NEW d \in P2 PROVE Expected(s2, K, d, Len(s2))
    OBVIOUS
  <2>1. CASE d \in P
    <3>1. Expected(s2, K, d, n) /\ 1..n \subseteq 1..n + 1
      BY <1>1, <1>2, <1>5, <2>1
    <3> QED
      BY <1>1, <3>1 DEF Expected
  <2>2. CASE x = NewUSBDevice(d)
    <3>1. n + 1 \in 1..n + 1
      BY <1>1
    <3> QED
      BY <1>1, <1>3, <2>2, <3>1 DEF Expected
  <2> QED
    BY <2>1, <2>2
<1>7. \A d \in Devices, v \in Nat : <<d, v>> \in M2 => ExpectedVolume(s2, K, W, d, v)
  <2> SUFFICES ASSUME NEW d \in Devices, NEW v \in Nat, <<d, v>> \in M2
               PROVE  ExpectedVolume(s2, K, W, d, v)
    OBVIOUS
  <2>1. CASE <<d, v>> \in M
    <3>1. ExpectedVolume(s, K, W, d, v)
      BY <1>2, <2>1
    <3>2. CASE <<d, v>> \in W /\ ~GoneIn(s, d, 0)
      <4>1. 0 \in 0..n
        BY <1>1
      <4> QED
        BY <1>3, <3>2, <4>1 DEF ExpectedVolume
    <3>3. ASSUME NEW j \in DOMAIN s, s[j] = NewVolume(d, v), ~GoneIn(s, d, j), Expected(s, K, d, j - 1)
          PROVE  ExpectedVolume(s2, K, W, d, v)
      <4>1. j \in 0..n /\ j - 1 \in 0..n /\ j \in DOMAIN s2 /\ s2[j] = s[j]
        BY <1>1
      <4> QED
        BY <1>3, <1>5, <3>3, <4>1 DEF ExpectedVolume
    <3> QED
      BY <3>1, <3>2, <3>3 DEF ExpectedVolume
  <2>2. CASE d \in P /\ x = NewVolume(d, v)
    <3>1. Expected(s2, K, d, n)
      BY <1>1, <1>2, <1>5, <2>2
    <3>2. n + 1 \in DOMAIN s2 /\ (n + 1) - 1 = n
      BY <1>1
    <3> QED
      BY <1>1, <1>3, <2>2, <3>1, <3>2 DEF ExpectedVolume
  <2> QED
    BY <2>1, <2>2
<1>8. \A d \in Devices, v \in Nat : <<d, v>> \in V => GoneIn(s2, d, 0) \/ <<d, v>> \in M2
  <2>1. 0 \in 0..n
    BY <1>1
  <2> QED
    BY <1>2, <1>3, <2>1
<1>9. \A d \in Devices : \A k \in DOMAIN s2 : NewIn(s2, d, k) => d \in P2
  <2> SUFFICES ASSUME NEW d \in Devices, NEW k \in DOMAIN s2, NewIn(s2, d, k) PROVE d \in P2
    OBVIOUS
  <2>1. k \in 1..n \/ k = n + 1
    BY <1>1
  <2> QED
    BY <1>1, <1>2, <1>3, <2>1
<1>10. \A d \in Devices, v \in Nat : \A k \in DOMAIN s2 :
          s2[k] = NewVolume(d, v) => GoneIn(s2, d, k) \/ <<d, v>> \in M2
  <2> SUFFICES ASSUME NEW d \in Devices, NEW v \in Nat, NEW k \in DOMAIN s2, s2[k] = NewVolume(d, v)
               PROVE  GoneIn(s2, d, k) \/ <<d, v>> \in M2
    OBVIOUS
  <2>1. CASE k \in 1..n
    <3>1. k \in 0..n /\ k \in DOMAIN s /\ s[k] = NewVolume(d, v)
      BY <1>1, <2>1
    <3> QED
      BY <1>2, <1>3, <3>1
  <2>2. CASE k = n + 1
    BY <1>1, <2>2
  <2> QED
    BY <1>1, <2>1, <2>2
<1>11. \A d \in Devices, v \in Nat : <<d, v>> \in M2 => d \in P2
  BY <1>2
<1> QED
  BY <1>4, <1>6, <1>7, <1>8, <1>9, <1>10, <1>11 DEF InTouch

(* So is a device that is pulled. *)
LEMMA UnpluggedTouch ==
    ASSUME NEW s, NEW P \in SUBSET Devices, NEW M, NEW K, NEW W, NEW L, NEW V, InTouch(s, P, M, K, W, L, V),
           NEW d \in Devices, NEW s2, NEW n, Sent(s, DeviceRemoved(d), s2, n), NEW M2,
           \A e \in Devices, v \in Nat : <<e, v>> \in M2 <=> <<e, v>> \in M /\ e # d
    PROVE  InTouch(s2, P \ {d}, M2, K, W, L, V)
<1> DEFINE x == DeviceRemoved(d)
<1>1. /\ n \in Nat /\ Len(s) = n /\ Len(s2) = n + 1 /\ DOMAIN s = 1..n /\ DOMAIN s2 = 1..n + 1
      /\ s2[n + 1] = x /\ \A j \in 1..n : s2[j] = s[j]
  BY DEF Sent
<1>2. /\ \A e \in P : Expected(s, K, e, Len(s))
      /\ \A e \in Devices, v \in Nat : <<e, v>> \in M => ExpectedVolume(s, K, W, e, v)
      /\ \A e \in L : GoneIn(s, e, 0) \/ e \in P
      /\ \A e \in Devices, v \in Nat : <<e, v>> \in V => GoneIn(s, e, 0) \/ <<e, v>> \in M
      /\ \A e \in Devices : \A k \in DOMAIN s : NewIn(s, e, k) => e \in P
      /\ \A e \in Devices, v \in Nat : \A k \in DOMAIN s :
            s[k] = NewVolume(e, v) => GoneIn(s, e, k) \/ <<e, v>> \in M
      /\ \A e \in Devices, v \in Nat : <<e, v>> \in M => e \in P
  BY DEF InTouch
<1>3. \A e : x = DeviceRemoved(e) <=> e = d
  BY SignalKinds
<1>4. ASSUME NEW e
      PROVE  /\ \A k \in 0..n : GoneIn(s2, e, k) <=> GoneIn(s, e, k) \/ e = d
             /\ ~GoneIn(s2, e, n + 1)
             /\ \A k \in 1..n : NewIn(s2, e, k) <=> NewIn(s, e, k) /\ e # d
             /\ ~NewIn(s2, e, n + 1)
  <2>1. x # NewUSBDevice(e)
    BY SignalKinds
  <2> HIDE DEF x
  <2>2. Sent(s, x, s2, n)
    BY DEF x
  <2> QED
    BY <1>3, <2>1, <2>2, SentAdds
<1>5. 0 \in 0..n
  BY <1>1
<1> HIDE DEF x
<1>6. ASSUME NEW e \in Devices, e # d, NEW m \in 0..n, Expected(s, K, e, m) PROVE Expected(s2, K, e, m)
  <2>1. 1..m \subseteq 1..n
    BY <1>1
  <2> QED
    BY <1>4, <1>5, <1>6, <2>1 DEF Expected
<1>7. \A e \in P \ {d} : Expected(s2, K, e, Len(s2))
  <2> SUFFICES ASSUME NEW e \in P \ {d} PROVE Expected(s2, K, e, Len(s2))
    OBVIOUS
  <2>1. Expected(s2, K, e, n) /\ 1..n \subseteq 1..n + 1
    BY <1>1, <1>2, <1>6
  <2> QED
    BY <1>1, <2>1 DEF Expected
<1>8. \A e \in Devices, v \in Nat : <<e, v>> \in M2 => ExpectedVolume(s2, K, W, e, v)
  <2> SUFFICES ASSUME NEW e \in Devices, NEW v \in Nat, <<e, v>> \in M, e # d
               PROVE  ExpectedVolume(s2, K, W, e, v)
    OBVIOUS
  <2>1. ExpectedVolume(s, K, W, e, v)
    BY <1>2
  <2>2. CASE <<e, v>> \in W /\ ~GoneIn(s, e, 0)
    BY <1>4, <1>5, <2>2 DEF ExpectedVolume
  <2>3. ASSUME NEW j \in DOMAIN s, s[j] = NewVolume(e, v), ~GoneIn(s, e, j), Expected(s, K, e, j - 1)
        PROVE  ExpectedVolume(s2, K, W, e, v)
    <3>1. j \in 0..n /\ j - 1 \in 0..n /\ j \in DOMAIN s2 /\ s2[j] = s[j]
      BY <1>1
    <3> QED
      BY <1>4, <1>6, <2>3, <3>1 DEF ExpectedVolume
  <2> QED
    BY <2>1, <2>2, <2>3 DEF ExpectedVolume
<1>9. \A e \in L : GoneIn(s2, e, 0) \/ e \in P \ {d}
  BY <1>2, <1>4, <1>5
<1>10. \A e \in Devices, v \in Nat : <<e, v>> \in V => GoneIn(s2, e, 0) \/ <<e, v>> \in M2
  BY <1>2, <1>4, <1>5
<1>11. \A e \in Devices : \A k \in DOMAIN s2 : NewIn(s2, e, k) => e \in P \ {d}
  <2> SUFFICES ASSUME NEW e \in Devices, NEW k \in DOMAIN s2, NewIn(s2, e, k) PROVE e \in P \ {d}
    OBVIOUS
  <2>1. k \in 1..n \/ k = n + 1
    BY <1>1
  <2> QED
    BY <1>1, <1>2, <1>4, <2>1
<1>12. \A e \in Devices, v \in Nat : \A k \in DOMAIN s2 :
          s2[k] = NewVolume(e, v) => GoneIn(s2, e, k) \/ <<e, v>> \in M2
  <2> SUFFICES ASSUME NEW e \in Devices, NEW v \in Nat, NEW k \in DOMAIN s2, s2[k] = NewVolume(e, v)
               PROVE  GoneIn(s2, e, k) \/ <<e, v>> \in M2
    OBVIOUS
  <2>1. k # n + 1
    BY <1>1, SignalKinds DEF x
  <2>2. k \in 0..n /\ k \in DOMAIN s /\ s[k] = NewVolume(e, v)
    BY <1>1, <2>1
  <2> QED
    BY <1>2, <1>4, <2>2
<1>13. \A e \in Devices, v \in Nat : <<e, v>> \in M2 => e \in P \ {d}
  BY <1>2
<1> QED
  BY <1>7, <1>8, <1>9, <1>10, <1>11, <1>12, <1>13 DEF InTouch

(* The broker handles the first signal on its way: it lists the devices K2 and *)
(* the volumes W2 then.                                                        *)
LEMMA HandledTouch ==
    ASSUME NEW s, NEW P \in SUBSET Devices, NEW M, NEW K \in SUBSET Devices, NEW W,
           InTouch(s, P, M, K, W, K, W),
           NEW x, NEW s2, NEW n, Handled(s, x, s2, n), NEW K2 \in SUBSET Devices, NEW W2,
           \A e \in K : x # DeviceRemoved(e) => e \in K2,
           \A e \in Devices : x = NewUSBDevice(e) => e \in K2,
           \A e \in K2 : (e \in K /\ x # DeviceRemoved(e)) \/ x = NewUSBDevice(e),
           \A e \in Devices, v \in Nat : <<e, v>> \in W /\ x # DeviceRemoved(e) => <<e, v>> \in W2,
           \A e \in K, v \in Nat : x = NewVolume(e, v) => <<e, v>> \in W2,
           \A e \in Devices, v \in Nat : <<e, v>> \in W2 =>
              (<<e, v>> \in W /\ x # DeviceRemoved(e)) \/ x = NewVolume(e, v)
    PROVE  InTouch(s2, P, M, K2, W2, K2, W2)
<1>1. /\ n \in Nat /\ Len(s) = n + 1 /\ Len(s2) = n /\ DOMAIN s = 1..n + 1 /\ DOMAIN s2 = 1..n
      /\ s[1] = x /\ \A j \in 1..n : s2[j] = s[j + 1]
  BY DEF Handled
<1>2. /\ \A d \in P : Expected(s, K, d, Len(s))
      /\ \A d \in Devices, v \in Nat : <<d, v>> \in M => ExpectedVolume(s, K, W, d, v)
      /\ \A d \in K : GoneIn(s, d, 0) \/ d \in P
      /\ \A d \in Devices, v \in Nat : <<d, v>> \in W => GoneIn(s, d, 0) \/ <<d, v>> \in M
      /\ \A d \in Devices : \A k \in DOMAIN s : NewIn(s, d, k) => d \in P
      /\ \A d \in Devices, v \in Nat : \A k \in DOMAIN s :
            s[k] = NewVolume(d, v) => GoneIn(s, d, k) \/ <<d, v>> \in M
      /\ \A d \in Devices, v \in Nat : <<d, v>> \in M => d \in P
  BY DEF InTouch
<1>3. ASSUME NEW e \in Devices
      PROVE  /\ \A k \in 0..n : GoneIn(s2, e, k) <=> GoneIn(s, e, k + 1)
             /\ GoneIn(s, e, 0) <=> GoneIn(s2, e, 0) \/ x = DeviceRemoved(e)
             /\ \A k \in 1..n : NewIn(s2, e, k) <=> NewIn(s, e, k + 1)
             /\ NewIn(s, e, 1) <=> x = NewUSBDevice(e) /\ ~GoneIn(s2, e, 0)
  <2>1. /\ \A k \in 0..n : GoneIn(s2, e, k) <=> GoneIn(s, e, k + 1)
        /\ GoneIn(s, e, 0) <=> GoneIn(s, e, 1) \/ x = DeviceRemoved(e)
        /\ \A k \in 1..n : NewIn(s2, e, k) <=> NewIn(s, e, k + 1)
        /\ NewIn(s, e, 1) <=> x = NewUSBDevice(e) /\ ~GoneIn(s2, e, 0)
    BY HandledLeaves
  <2>2. 0 \in 0..n /\ 0 + 1 = 1
    BY <1>1
  <2>3. GoneIn(s2, e, 0) <=> GoneIn(s, e, 1)
    BY <2>1, <2>2
  <2> QED
    BY <2>1, <2>3
<1>4. 1 \in DOMAIN s
  BY <1>1
<1>5. ASSUME NEW e \in Devices, NEW m \in 1..n + 1, Expected(s, K, e, m)
      PROVE  Expected(s2, K2, e, m - 1)
  <2>1. CASE e \in K /\ ~GoneIn(s, e, 0)
    BY <1>3, <2>1 DEF Expected
  <2>2. ASSUME NEW k \in 1..m, NewIn(s, e, k) PROVE Expected(s2, K2, e, m - 1)
    <3>1. CASE k = 1
      BY <1>3, <2>2, <3>1 DEF Expected
    <3>2. CASE k # 1
      <4>1. k - 1 \in 1..n /\ k - 1 \in 1..m - 1 /\ (k - 1) + 1 = k
        BY <1>1, <3>2
      <4> QED
        BY <1>3, <2>2, <4>1 DEF Expected
    <3> QED
      BY <3>1, <3>2
  <2> QED
    BY <1>5, <2>1, <2>2 DEF Expected
<1>6. \A d \in P : Expected(s2, K2, d, Len(s2))
  <2> SUFFICES ASSUME NEW d \in P PROVE Expected(s2, K2, d, Len(s2))
    OBVIOUS
  <2>1. Expected(s, K, d, n + 1) /\ n + 1 \in 1..n + 1 /\ (n + 1) - 1 = n
    BY <1>1, <1>2
  <2> QED
    BY <1>1, <1>5, <2>1
<1>7. \A d \in Devices, v \in Nat : <<d, v>> \in M => ExpectedVolume(s2, K2, W2, d, v)
  <2> SUFFICES ASSUME NEW d \in Devices, NEW v \in Nat, <<d, v>> \in M
               PROVE  ExpectedVolume(s2, K2, W2, d, v)
    OBVIOUS
  <2>1. ExpectedVolume(s, K, W, d, v)
    BY <1>2
  <2>2. CASE <<d, v>> \in W /\ ~GoneIn(s, d, 0)
    BY <1>3, <2>2 DEF ExpectedVolume
  <2>3. ASSUME NEW j \in DOMAIN s, s[j] = NewVolume(d, v), ~GoneIn(s, d, j), Expected(s, K, d, j - 1)
        PROVE  ExpectedVolume(s2, K2, W2, d, v)
    <3>1. CASE j = 1
      <4>1. 1..j - 1 = {}
        BY <3>1
      <4>2. d \in K /\ ~GoneIn(s, d, 0)
        BY <2>3, <4>1 DEF Expected
      <4>3. x = NewVolume(d, v)
        BY <1>1, <2>3, <3>1
      <4> QED
        BY <1>3, <4>2, <4>3 DEF ExpectedVolume
    <3>2. CASE j # 1
      <4>1. j - 1 \in 1..n /\ j - 1 \in 0..n /\ j - 1 \in 1..n + 1 /\ (j - 1) + 1 = j
        BY <1>1, <3>2
      <4>2. s2[j - 1] = NewVolume(d, v) /\ ~GoneIn(s2, d, j - 1) /\ j - 1 \in DOMAIN s2
        BY <1>1, <1>3, <2>3, <4>1
      <4>3. Expected(s2, K2, d, (j - 1) - 1)
        BY <1>5, <2>3, <4>1
      <4> QED
        BY <4>2, <4>3 DEF ExpectedVolume
    <3> QED
      BY <3>1, <3>2
  <2> QED
    BY <2>1, <2>2, <2>3 DEF ExpectedVolume
<1>8. \A d \in K2 : GoneIn(s2, d, 0) \/ d \in P
  BY <1>2, <1>3, <1>4
<1>9. \A d \in Devices, v \in Nat : s[1] = NewVolume(d, v) => GoneIn(s2, d, 0) \/ <<d, v>> \in M
  <2>1. 0 \in 0..n /\ 0 + 1 = 1
    BY <1>1
  <2> QED
    BY <1>2, <1>3, <1>4, <2>1
<1>10. \A d \in Devices, v \in Nat : <<d, v>> \in W2 => GoneIn(s2, d, 0) \/ <<d, v>> \in M
  BY <1>1, <1>2, <1>3, <1>9
<1>11. \A d \in Devices : \A k \in DOMAIN s2 : NewIn(s2, d, k) => d \in P
  <2> SUFFICES ASSUME NEW d \in Devices, NEW k \in 1..n, NewIn(s2, d, k) PROVE d \in P
    BY <1>1
  <2>1. k + 1 \in DOMAIN s /\ NewIn(s, d, k + 1)
    BY <1>1, <1>3
  <2> QED
    BY <1>2, <2>1
<1>12. \A d \in Devices, v \in Nat : \A k \in DOMAIN s2 :
          s2[k] = NewVolume(d, v) => GoneIn(s2, d, k) \/ <<d, v>> \in M
  <2> SUFFICES ASSUME NEW d \in Devices, NEW v \in Nat, NEW k \in 1..n, s2[k] = NewVolume(d, v)
               PROVE  GoneIn(s2, d, k) \/ <<d, v>> \in M
    BY <1>1
  <2>1. k + 1 \in DOMAIN s /\ s[k + 1] = NewVolume(d, v) /\ k \in 0..n
    BY <1>1
  <2> QED
    BY <1>2, <1>3, <2>1
<1> QED
  BY <1>2, <1>6, <1>7, <1>8, <1>10, <1>11, <1>12 DEF InTouch

(* The broker will look at everything when it starts, *)
LEMMA StartTouch ==
    ASSUME NEW P, NEW M, \A d \in Devices, v \in Nat : <<d, v>> \in M => d \in P, P \subseteq Devices
    PROVE  InTouch(<<>>, P, M, Devices, Devices \X Nat, {}, {})
<1> DEFINE s == <<>>
<1>1. DOMAIN s = {} /\ Len(s) = 0
  OBVIOUS
<1> HIDE DEF s
<1>2. \A d, k : ~GoneIn(s, d, k)
  BY <1>1 DEF GoneIn
<1>3. \A d \in P : Expected(s, Devices, d, Len(s))
  BY <1>2 DEF Expected
<1>4. \A d \in Devices, v \in Nat : ExpectedVolume(s, Devices, Devices \X Nat, d, v)
  BY <1>2 DEF ExpectedVolume
<1>5. InTouch(s, P, M, Devices, Devices \X Nat, {}, {})
  BY <1>1, <1>3, <1>4 DEF InTouch
<1> QED
  BY <1>5 DEF s

(* and has then. *)
LEMMA FilledTouch ==
    ASSUME NEW s, NEW P \in SUBSET Devices, NEW M,
           InTouch(s, P, M, Devices, Devices \X Nat, {}, {})
    PROVE  InTouch(s, P, M, P, M, P, M)
<1>1. /\ \A d \in P : Expected(s, Devices, d, Len(s))
      /\ \A d \in Devices, v \in Nat : <<d, v>> \in M =>
            ExpectedVolume(s, Devices, Devices \X Nat, d, v)
      /\ \A d \in Devices : \A k \in DOMAIN s : NewIn(s, d, k) => d \in P
      /\ \A d \in Devices, v \in Nat : \A k \in DOMAIN s :
            s[k] = NewVolume(d, v) => GoneIn(s, d, k) \/ <<d, v>> \in M
      /\ \A d \in Devices, v \in Nat : <<d, v>> \in M => d \in P
  BY DEF InTouch
<1>2. ASSUME NEW d \in P, NEW m, Expected(s, Devices, d, m) PROVE Expected(s, P, d, m)
  BY <1>2 DEF Expected
<1>3. \A d \in Devices, v \in Nat : <<d, v>> \in M => ExpectedVolume(s, P, M, d, v)
  BY <1>1, <1>2 DEF ExpectedVolume
<1> QED
  BY <1>1, <1>2, <1>3 DEF InTouch

-----------------------------------------------------------------------------
(* The broker starts: all devices and volumes are listed, each once. *)

(* The sequence s is the set S in some order. *)
Enumerates(s, S) ==
    /\ s \in Seq(S) /\ ToSet(s) = S
    /\ \A j, k \in DOMAIN s : s[j] = s[k] => j = k

(* SetToSeq() and Orders() enumerate. *)
LEMMA EnumeratedOnce ==
    ASSUME NEW S, IsFiniteSet(S)
    PROVE  /\ Enumerates(SetToSeq(S), S)
           /\ \A s \in Orders(S) : Enumerates(s, S)
<1> DEFINE n == Cardinality(S)
           N == 1..n
<1>1. n \in Nat /\ ExistsBijection(1..n, S)
  BY FS_CardinalityType
<1>2. IsFiniteSet(N) /\ Cardinality(N) = Cardinality(S)
  <2>1. 1 \in Int /\ n \in Int /\ (IF 1 > n THEN 0 ELSE n - 1 + 1) = n
    BY <1>1
  <2> HIDE DEF n
  <2> QED
    BY <2>1, FS_Interval DEF n
<1>3. ASSUME NEW s \in [N -> S], IsInjective(s) PROVE Enumerates(s, S)
  <2>1. s \in Injection(N, S)
    BY <1>3 DEF Injection
  <2>2. s \in Surjection(N, S)
    BY <1>2, <2>1, FS_Injection
  <2>3. ToSet(s) = S
    BY <2>2 DEF Surjection, ToSet
  <2>4. s \in Seq(S)
    BY <1>1
  <2>5. \A j, k \in DOMAIN s : s[j] = s[k] => j = k
    BY <1>3 DEF IsInjective
  <2> QED
    BY <2>3, <2>4, <2>5 DEF Enumerates
<1>4. Enumerates(SetToSeq(S), S)
  <2>1. \E f \in [N -> S] : IsInjective(f)
    BY <1>1 DEF ExistsBijection, Bijection, Injection, IsInjective
  <2>2. SetToSeq(S) \in [N -> S] /\ IsInjective(SetToSeq(S))
    BY <2>1 DEF SetToSeq
  <2> QED
    BY <1>3, <2>2
<1>5. ASSUME NEW s \in Orders(S) PROVE Enumerates(s, S)
  <2>1. s \in [N -> S] /\ ToSet(s) = S
    BY DEF Orders
  <2>2. s \in Surjection(N, S)
    BY <2>1 DEF Surjection, ToSet
  <2>3. s \in Injection(N, S)
    BY <1>2, <2>2, FS_Surjection
  <2> QED
    BY <1>3, <2>1, <2>3 DEF Injection
<1> QED
  BY <1>4, <1>5

(* The device at the position that DeviceById() finds *)
LEMMA DeviceFound ==
    ASSUME NEW t, Sound(t), NEW d
    PROVE  LET i == DeviceById(t, d)
           IN IF i = 0 THEN ~Lists(t, d)
              ELSE i \in DOMAIN DeviceItems(t) /\ DeviceItems(t)[i].dev = d
<1> DEFINE found == {i \in DOMAIN DeviceItems(t) : DeviceItems(t)[i].dev \in {d}}
<1>1. DeviceById(t, d) = IF found = {} THEN 0 ELSE Min(found)
  BY DEF DeviceById, FirstDevice, Items, DeviceItems
<1>2. DOMAIN DeviceItems(t) = 1..Len(DeviceItems(t)) /\ Len(DeviceItems(t)) \in Nat
  BY DeviceItemsType
<1>3. found \in SUBSET Nat /\ \A i \in found : i # 0
  BY <1>2
<1>4. CASE found = {}
  BY <1>1, <1>4 DEF Lists
<1>5. CASE found # {}
  <2>1. Min(found) \in found
    BY <1>3, <1>5, MinIsLeast
  <2> QED
    BY <1>1, <1>3, <1>5, <2>1
<1> QED
  BY <1>4, <1>5

(* A tree that is being filled: there are devices, but nothing below them. *)
Filling(t) == FillInv(t) /\ Listed(t) /\ t.inv = <<>> /\ DOMAIN t.lists = {t.root}

Bare(t) == [l \in DOMAIN t.lists |-> <<>>]

(* Such a tree is right. *)
LEMMA FillingProper ==
    ASSUME NEW t, Filling(t), NEW fs, NEW X PROVE Proper(t, Bare(t), fs, X)
<1>1. Sound(t) /\ NoLinks(DeviceItems(t)) /\ DOMAIN t.lists = {t.root} /\ Listed(t)
  BY DEF Filling, FillInv
<1>2. Matched(t)
  BY NothingToMatch DEF Filling
<1>3. \A i \in DOMAIN t.lists[t.root].items : t.lists[t.root].items[i].child = NoId
  BY <1>1 DEF NoLinks, DeviceItems
<1>4. t.lists[t.root].kind = "devices"
  BY <1>1 DEF Sound, TreeType, RootList
<1>5. Placed(t, Bare(t))
  <2>1. <<>> \in Seq(PlaceNames)
    OBVIOUS
  <2>2. Bare(t) \in [DOMAIN t.lists -> Seq(PlaceNames)] /\ Bare(t)[t.root] = <<>>
    BY <1>1, <2>1 DEF Bare
  <2> HIDE DEF Bare
  <2>3. \A l \in DOMAIN t.lists : l = t.root
    BY <1>1
  <2> QED
    BY <1>3, <2>2, <2>3 DEF Placed
<1>6. Reached(t) = {t.root}
  BY <1>1 DEF Reached
<1>7. StraysEmpty(t)
  BY <1>1, <1>6 DEF StraysEmpty
<1>8. KindItems(t)
  BY <1>1, <1>4 DEF KindItems
<1>9. VolumesListed(t)
  BY <1>3 DEF VolumesListed, DeviceItems
<1>10. Stored(t, Bare(t), fs, X)
  BY <1>4, <1>6 DEF Stored
<1> QED
  BY <1>1, <1>2, <1>5, <1>7, <1>8, <1>9, <1>10 DEF Proper, Rich, Shaped

(* A device is added. *)
LEMMA DeviceFilled ==
    ASSUME NEW t, Filling(t), NEW d \in Devices, ~Lists(t, d)
    PROVE  Filling(AddToList(t, d)) /\ AddedDevice(t, AddToList(t, d), d)
<1> DEFINE u == AddToList(t, d)
<1>1. PICK pl : Proper(t, pl, 0, 0)
  BY FillingProper
<1>2. Proper(u, pl, 0, 0) /\ AddedDevice(t, u, d)
  BY <1>1, AddToListProper
<1>3. FillInv(u)
  BY FillDevice DEF Filling
<1> HIDE DEF u
<1>4. Listed(u) /\ u.inv = <<>> /\ DOMAIN u.lists = {u.root}
  BY <1>2 DEF Filling, AddedDevice, Proper, Rich
<1> QED
  BY <1>2, <1>3, <1>4 DEF Filling, u

(* A volume is added. *)
LEMMA VolumeFilled ==
    ASSUME NEW t, Filling(t), NEW i \in DOMAIN DeviceItems(t), NEW v \in Nat,
           ~HasVolume(DeviceItems(t)[i].vols, v)
    PROVE  /\ Filling(AddVolume(t, i, v))
           /\ VolumeKnown(t, AddVolume(t, i, v), DeviceItems(t)[i].dev, v)
<1> DEFINE u == AddVolume(t, i, v)
<1>1. PICK pl : Proper(t, pl, 0, 0)
  BY FillingProper
<1>2. Sound(t) /\ Shaped(t, pl) /\ Listed(t) /\ Stored(t, pl, 0, 0)
  BY <1>1 DEF Proper, Rich
<1>3. VolumeListed(t, u, i, v) /\ Sound(u)
  BY <1>2, AddVolumeListed
<1> HIDE DEF u
<1>4. Listed(u) /\ VolumeKnown(t, u, DeviceItems(t)[i].dev, v)
  BY <1>2, <1>3, VolumeListedRight
<1>5. NoLinks(DeviceItems(u)) /\ u.inv = <<>> /\ DOMAIN u.lists = {u.root}
  BY <1>3 DEF Filling, FillInv, NoLinks, VolumeListed
<1> QED
  BY <1>3, <1>4, <1>5 DEF Filling, FillInv, u

(* Tree u is t with one device more, and its volumes. *)
DeviceListed(t, u, d, vols) ==
    /\ Filling(u)
    /\ \A e : Lists(u, e) <=> Lists(t, e) \/ e = d
    /\ \A e, v : ListsVolume(u, e, v) <=> ListsVolume(t, e, v) \/ (e = d /\ v \in vols)

(* One volume more of the last device *)
LEMMA VolumeFilledNext ==
    ASSUME NEW t, NEW d \in Devices, NEW a, NEW vols, NEW v \in Nat, v \notin vols,
           DeviceListed(t, a, d, vols), \A w : ~ListsVolume(t, d, w)
    PROVE  DeviceListed(t, AddVolume(a, DeviceById(a, d), v), d, vols \cup {v})
<1> DEFINE i == DeviceById(a, d)
           u == AddVolume(a, i, v)
<1>1. Filling(a) /\ Sound(a) /\ Lists(a, d)
  BY DEF DeviceListed, Filling, FillInv
<1>2. i \in DOMAIN DeviceItems(a) /\ DeviceItems(a)[i].dev = d
  BY <1>1, DeviceFound
<1> HIDE DEF i
<1>3. ~HasVolume(DeviceItems(a)[i].vols, v)
  <2> SUFFICES ASSUME HasVolume(DeviceItems(a)[i].vols, v) PROVE FALSE
    OBVIOUS
  <2>1. ListsVolume(a, d, v)
    BY <1>2 DEF ListsVolume
  <2> QED
    BY <2>1 DEF DeviceListed
<1>4. Filling(u) /\ VolumeKnown(a, u, d, v)
  BY <1>1, <1>2, <1>3, VolumeFilled
<1> HIDE DEF u
<1>5. \A e : Lists(u, e) <=> Lists(a, e)
  BY <1>4 DEF VolumeKnown
<1>6. \A e, w : ListsVolume(u, e, w) <=> ListsVolume(a, e, w) \/ (e = d /\ w = v)
  BY <1>4 DEF VolumeKnown
<1>7. \A e : Lists(u, e) <=> Lists(t, e) \/ e = d
  BY <1>5 DEF DeviceListed
<1>8. \A e, w : ListsVolume(u, e, w) <=> ListsVolume(t, e, w) \/ (e = d /\ w \in vols \cup {v})
  BY <1>6 DEF DeviceListed
<1>9. DeviceListed(t, u, d, vols \cup {v})
  BY <1>4, <1>7, <1>8 DEF DeviceListed
<1> QED
  BY <1>9 DEF u, i

(* A device and its volumes, one after the other *)
LEMMA FilledDeviceLists ==
    ASSUME NEW t, Filling(t), NEW d \in Devices, ~Lists(t, d),
           NEW vols, vols \subseteq Nat, NEW vs, Enumerates(vs, vols)
    PROVE  DeviceListed(t, FilledDevice(t, d, vs), d, vols)
<1> DEFINE base == AddToList(t, d)
           Step(a, n) == AddVolume(a, DeviceById(a, d), vs[n])
           added[n \in 0..Len(vs)] == IF n = 0 THEN base ELSE Step(added[n - 1], n)
           Made(f, m) == f = [n \in 0..m |-> IF n = 0 THEN base ELSE Step(f[n - 1], n)]
           M == {m \in Nat : \E f : Made(f, m)}
           First(n) == {vs[k] : k \in 1..n}
           Good(a, n) == DeviceListed(t, a, d, First(n))
           S == {n \in Nat : n <= Len(vs) => Good(added[n], n)}
<1>1. FilledDevice(t, d, vs) = added[Len(vs)]
  BY DEF FilledDevice
<1>20. /\ Len(vs) \in Nat /\ DOMAIN vs = 1..Len(vs)
       /\ \A j \in 1..Len(vs) : vs[j] \in Nat
       /\ \A j, k \in 1..Len(vs) : vs[j] = vs[k] => j = k
  <2>1. vs \in Seq(vols) /\ \A j, k \in DOMAIN vs : vs[j] = vs[k] => j = k
    BY DEF Enumerates
  <2>2. Len(vs) \in Nat /\ DOMAIN vs = 1..Len(vs) /\ \A j \in 1..Len(vs) : vs[j] \in vols
    BY <2>1
  <2> QED
    BY <2>1, <2>2
<1>21. \A v : ~ListsVolume(t, d, v)
  BY DEF ListsVolume, Lists
<1>2. Good(base, 0)
  <2>1. Filling(base) /\ AddedDevice(t, base, d)
    BY DeviceFilled
  <2>2. First(0) = {}
    OBVIOUS
  <2> HIDE DEF base, First
  <2> QED
    BY <2>1, <2>2 DEF DeviceListed, AddedDevice
<1>3. ASSUME NEW a, NEW n \in 1..Len(vs), Good(a, n - 1) PROVE Good(Step(a, n), n)
  <2> DEFINE before == First(n - 1)
  <2>1. vs[n] \in Nat
    BY <1>20
  <2>2. vs[n] \notin before
    BY <1>20
  <2>3. First(n) = before \cup {vs[n]}
    <3>1. \A x : x \in First(n) <=> x \in before \cup {vs[n]}
      <4>1. \A k : k \in 1..n <=> k \in 1..n - 1 \/ k = n
        BY <1>20
      <4> QED
        BY <4>1
    <3> QED
      BY <3>1
  <2>4. DeviceListed(t, a, d, before)
    BY <1>3
  <2> HIDE DEF First, before
  <2>5. DeviceListed(t, AddVolume(a, DeviceById(a, d), vs[n]), d, before \cup {vs[n]})
    BY <1>21, <2>1, <2>2, <2>4, VolumeFilledNext
  <2> QED
    BY <2>3, <2>5
<1> HIDE DEF base, Step, Good
<1>4. Len(vs) \in M
  <2>1. 0 \in M
    <3>1. Made([n \in 0..0 |-> base], 0)
      OBVIOUS
    <3> QED
      BY <3>1
  <2>2. ASSUME NEW m \in Nat, m \in M PROVE m + 1 \in M
    <3>1. PICK f : Made(f, m)
      BY <2>2
    <3> DEFINE g == [n \in 0..m + 1 |-> IF n <= m THEN f[n] ELSE Step(f[m], m + 1)]
    <3>2. \A n \in 0..m : f[n] = IF n = 0 THEN base ELSE Step(f[n - 1], n)
      BY <3>1
    <3>3. ASSUME NEW n \in 0..m + 1 PROVE g[n] = IF n = 0 THEN base ELSE Step(g[n - 1], n)
      <4>1. CASE n = 0
        BY <3>2, <4>1
      <4>2. CASE n \in 1..m
        <5>1. n \in 0..m /\ n - 1 \in 0..m /\ n # 0
          BY <4>2
        <5> QED
          BY <3>2, <5>1
      <4>3. CASE n = m + 1
        BY <4>3
      <4> QED
        BY <4>1, <4>2, <4>3
    <3>4. Made(g, m + 1)
      BY <3>3
    <3> HIDE DEF g, Made
    <3> QED
      BY <3>4
  <2> HIDE DEF M
  <2>3. Nat \subseteq M
    BY <2>1, <2>2, UpFromZero
  <2> QED
    BY <2>3, <1>20
<1>5. added = [n \in 0..Len(vs) |-> IF n = 0 THEN base ELSE Step(added[n - 1], n)]
  BY <1>4
<1> HIDE DEF added
<1>6. \A n \in 0..Len(vs) : added[n] = IF n = 0 THEN base ELSE Step(added[n - 1], n)
  BY <1>5
<1>7. 0 \in S
  BY <1>20, <1>2, <1>6
<1>8. ASSUME NEW n \in Nat, n \in S PROVE n + 1 \in S
  <2> SUFFICES ASSUME n + 1 <= Len(vs) PROVE Good(added[n + 1], n + 1)
    OBVIOUS
  <2>1. /\ Good(added[n], n) /\ n + 1 \in 0..Len(vs) /\ n + 1 \in 1..Len(vs)
        /\ n + 1 # 0 /\ (n + 1) - 1 = n
    BY <1>20, <1>8
  <2>2. added[n + 1] = Step(added[n], n + 1)
    BY <1>6, <2>1
  <2> QED
    BY <1>3, <2>1, <2>2
<1> HIDE DEF S
<1>9. Nat \subseteq S
  BY <1>7, <1>8, UpFromZero
<1>10. Good(added[Len(vs)], Len(vs))
  BY <1>20, <1>9 DEF S
<1>11. First(Len(vs)) = vols
  BY <1>20 DEF Enumerates, ToSet
<1> HIDE DEF First
<1> QED
  BY <1>1, <1>10, <1>11 DEF Good

(* The first devices of ds and what is mounted on them *)
FirstFilled(u, fs, ds, n) ==
    /\ Filling(u)
    /\ \A e : Lists(u, e) <=> \E k \in 1..n : ds[k] = e
    /\ \A e, v : ListsVolume(u, e, v) <=> \E k \in 1..n : ds[k] = e /\ v \in fs[e].vols

(* All devices *)
LEMMA FilledLists ==
    ASSUME NEW t, Filling(t), DeviceItems(t) = <<>>, MountsInv, NEW S, S \subseteq Devices,
           NEW ds, Enumerates(ds, S)
    PROVE  FirstFilled(Filled(t, ds), mounta, ds, Len(ds))
<1> DEFINE Step(a, n) == FilledDevice(a, ds[n], SetToSeq(mounta[ds[n]].vols))
           filled[n \in 0..Len(ds)] == IF n = 0 THEN t ELSE Step(filled[n - 1], n)
           Made(f, m) == f = [n \in 0..m |-> IF n = 0 THEN t ELSE Step(f[n - 1], n)]
           M == {m \in Nat : \E f : Made(f, m)}
           Good(a, n) == FirstFilled(a, mounta, ds, n)
           R == {n \in Nat : n <= Len(ds) => Good(filled[n], n)}
<1>1. Filled(t, ds) = filled[Len(ds)]
  BY DEF Filled
<1>20. /\ Len(ds) \in Nat /\ DOMAIN ds = 1..Len(ds)
       /\ \A j \in 1..Len(ds) : ds[j] \in Devices
       /\ \A j, k \in 1..Len(ds) : ds[j] = ds[k] => j = k
  BY DEF Enumerates
<1>2. Good(t, 0)
  <2>1. \A e : ~Lists(t, e)
    BY DEF Lists
  <2>2. \A e, v : ~ListsVolume(t, e, v)
    BY DEF ListsVolume
  <2> QED
    BY <2>1, <2>2 DEF FirstFilled
<1>3. ASSUME NEW a, NEW n \in 1..Len(ds), Good(a, n - 1) PROVE Good(Step(a, n), n)
  <2> DEFINE d == ds[n]
             vols == mounta[d].vols
             u == FilledDevice(a, d, SetToSeq(vols))
  <2>1. d \in Devices
    BY <1>20
  <2>2. IsFiniteSet(vols) /\ vols \subseteq Nat
    BY <2>1 DEF MountsInv, MountSet
  <2>3. ~Lists(a, d)
    BY <1>20, <1>3 DEF FirstFilled
  <2>4. Filling(a)
    BY <1>3 DEF FirstFilled
  <2> HIDE DEF vols, d
  <2>5. Enumerates(SetToSeq(vols), vols)
    BY <2>2, EnumeratedOnce
  <2>6. DeviceListed(a, u, d, vols)
    BY <2>1, <2>2, <2>3, <2>4, <2>5, FilledDeviceLists
  <2> HIDE DEF u
  <2>7. \A k : k \in 1..n <=> k \in 1..n - 1 \/ k = n
    BY <1>20
  <2>8. \A e : Lists(u, e) <=> \E k \in 1..n : ds[k] = e
    BY <1>3, <2>6, <2>7 DEF DeviceListed, FirstFilled, d
  <2>9. \A e, v : ListsVolume(u, e, v) <=> \E k \in 1..n : ds[k] = e /\ v \in mounta[e].vols
    BY <1>3, <2>6, <2>7 DEF DeviceListed, FirstFilled, d, vols
  <2>10. FirstFilled(u, mounta, ds, n)
    BY <2>6, <2>8, <2>9 DEF DeviceListed, FirstFilled
  <2> QED
    BY <2>10 DEF u, vols, d
<1> HIDE DEF Step, Good
<1>4. Len(ds) \in M
  <2>1. 0 \in M
    <3>1. Made([n \in 0..0 |-> t], 0)
      OBVIOUS
    <3> QED
      BY <3>1
  <2>2. ASSUME NEW m \in Nat, m \in M PROVE m + 1 \in M
    <3>1. PICK f : Made(f, m)
      BY <2>2
    <3> DEFINE g == [n \in 0..m + 1 |-> IF n <= m THEN f[n] ELSE Step(f[m], m + 1)]
    <3>2. \A n \in 0..m : f[n] = IF n = 0 THEN t ELSE Step(f[n - 1], n)
      BY <3>1
    <3>3. ASSUME NEW n \in 0..m + 1 PROVE g[n] = IF n = 0 THEN t ELSE Step(g[n - 1], n)
      <4>1. CASE n = 0
        BY <3>2, <4>1
      <4>2. CASE n \in 1..m
        <5>1. n \in 0..m /\ n - 1 \in 0..m /\ n # 0
          BY <4>2
        <5> QED
          BY <3>2, <5>1
      <4>3. CASE n = m + 1
        BY <4>3
      <4> QED
        BY <4>1, <4>2, <4>3
    <3>4. Made(g, m + 1)
      BY <3>3
    <3> HIDE DEF g, Made
    <3> QED
      BY <3>4
  <2> HIDE DEF M
  <2>3. Nat \subseteq M
    BY <2>1, <2>2, UpFromZero
  <2> QED
    BY <2>3, <1>20
<1>5. filled = [n \in 0..Len(ds) |-> IF n = 0 THEN t ELSE Step(filled[n - 1], n)]
  BY <1>4
<1> HIDE DEF filled
<1>6. \A n \in 0..Len(ds) : filled[n] = IF n = 0 THEN t ELSE Step(filled[n - 1], n)
  BY <1>5
<1>7. 0 \in R
  BY <1>20, <1>2, <1>6
<1>8. ASSUME NEW n \in Nat, n \in R PROVE n + 1 \in R
  <2> SUFFICES ASSUME n + 1 <= Len(ds) PROVE Good(filled[n + 1], n + 1)
    OBVIOUS
  <2>1. /\ Good(filled[n], n) /\ n + 1 \in 0..Len(ds) /\ n + 1 \in 1..Len(ds)
        /\ n + 1 # 0 /\ (n + 1) - 1 = n
    BY <1>20, <1>8
  <2>2. filled[n + 1] = Step(filled[n], n + 1)
    BY <1>6, <2>1
  <2> QED
    BY <1>3, <2>1, <2>2
<1> HIDE DEF R
<1>9. Nat \subseteq R
  BY <1>7, <1>8, UpFromZero
<1> QED
  BY <1>1, <1>20, <1>9 DEF R, Good

-----------------------------------------------------------------------------
(* The invariant: the tree is right, clients know it, and all that is       *)
(* different from what is mounted is still to be reported.                  *)

PresentOn(fs) == {d \in Devices : fs[d].present}
MountedOn(fs) == {x \in Devices \X Nat : x[2] \in fs[x[1]].vols}

KnownDevices(t) == {d \in Devices : Lists(t, d)}
KnownVolumes(t) == {x \in Devices \X Nat : ListsVolume(t, x[1], x[2])}

(* At startup the broker will look at everything there is. *)
Synced(t, fs, s, running) ==
    IF running
    THEN InTouch(s, PresentOn(fs), MountedOn(fs), KnownDevices(t), KnownVolumes(t),
                 KnownDevices(t), KnownVolumes(t))
    ELSE InTouch(s, PresentOn(fs), MountedOn(fs), Devices, Devices \X Nat, {}, {})

(* The devices whose directories may be those of an earlier medium *)
Unsure(s, p) == {d \in Devices : p = "unsynced" \/ GoneIn(s, d, 0)}

RightFor(t, fs, X, w) == \E pl : Proper(t, pl, fs, X) /\ ViewRight(t, pl, w)

ViewInv ==
    /\ StateInv
    /\ phase \in {"setup", "subscribed", "running", "unsynced"}
    /\ tree.inv = <<>>
    /\ ~Running => view = <<>>
    /\ phase = "setup" => signals = <<>>
    /\ phase # "unsynced" => Synced(tree, mounta, signals, Running)
    /\ RightFor(tree, mounta, Unsure(signals, phase), view)

(* The medium in a device makes no difference if the device is not listed,  *)
(* or if its directories need not be right any more.                        *)
LEMMA MediaChanged ==
    ASSUME NEW t, NEW pl, NEW fs, NEW X, Proper(t, pl, fs, X), NEW fs2, NEW Y,
           \A d \in Devices : Lists(t, d) /\ d \notin Y => d \notin X /\ fs2[d].content = fs[d].content
    PROVE  Proper(t, pl, fs2, Y)
<1>1. Sound(t) /\ Placed(t, pl) /\ StraysEmpty(t) /\ Stored(t, pl, fs, X) /\ Rich(t, pl)
  BY DEF Proper, Rich, Shaped
<1>2. ASSUME NEW l \in Reached(t), t.lists[l].kind = "dir", pl[l][1] \notin Y
      PROVE  InPlace(t, pl, fs2, l)
  <2>1. l # t.root
    BY <1>1, <1>2 DEF Sound, TreeType, RootList
  <2>2. PICK i \in DOMAIN DeviceItems(t) : DeviceItems(t)[i].dev = pl[l][1]
    BY <1>1, <2>1, PlaceBegins
  <2>3. DeviceItems(t)[i] \in DeviceItemSet
    BY <1>1, DeviceItemsType
  <2>4. pl[l][1] \in Devices /\ Lists(t, pl[l][1])
    BY <2>2, <2>3 DEF DeviceItemSet, Lists
  <2>5. pl[l][1] \notin X /\ fs2[pl[l][1]].content = fs[pl[l][1]].content
    BY <1>2, <2>4
  <2>6. InPlace(t, pl, fs, l)
    BY <1>1, <1>2, <2>5 DEF Stored
  <2> QED
    BY <2>5, <2>6 DEF InPlace
<1>3. Stored(t, pl, fs2, Y)
  BY <1>2 DEF Stored
<1> QED
  BY <1>1, <1>3 DEF Proper

(* It makes none for what clients know. *)
LEMMA RightWith ==
    ASSUME NEW t, NEW fs, NEW X, NEW w, RightFor(t, fs, X, w), NEW fs2, NEW Y,
           \A d \in Devices : Lists(t, d) /\ d \notin Y => d \notin X /\ fs2[d].content = fs[d].content
    PROVE  RightFor(t, fs2, Y, w)
<1>1. PICK pl : Proper(t, pl, fs, X) /\ ViewRight(t, pl, w)
  BY DEF RightFor
<1>2. Proper(t, pl, fs2, Y)
  BY <1>1, MediaChanged
<1> QED
  BY <1>1, <1>2 DEF RightFor

(* A client that knows nothing yet *)
LEMMA NothingKnown ==
    ASSUME NEW t, NEW pl PROVE ViewRight(t, pl, <<>>)
<1>1. DOMAIN <<>> = {}
  OBVIOUS
<1>2. ViewOf(t, pl, {}) = <<>>
  BY DEF ViewOf
<1> QED
  BY <1>1, <1>2 DEF ViewRight

(* The tree before startup *)
LEMMA EmptyFilling == Filling(EmptyTree) /\ DeviceItems(EmptyTree) = <<>>
<1>1. FillInv(EmptyTree)
  BY EmptyTreeInv
<1>2. DeviceItems(EmptyTree) = <<>> /\ EmptyTree.inv = <<>> /\ DOMAIN EmptyTree.lists = {EmptyTree.root}
  BY DEF EmptyTree, NewList, DeviceItems
<1>3. Listed(EmptyTree)
  BY <1>2 DEF Listed
<1> QED
  BY <1>1, <1>2, <1>3 DEF Filling

(* All is right with it. *)
LEMMA EmptyRight ==
    ASSUME NEW fs, NEW X PROVE RightFor(EmptyTree, fs, X, <<>>)
BY EmptyFilling, FillingProper, NothingKnown DEF RightFor

(* What is known of a device that the broker lists *)
LEMMA ListedPresent ==
    ASSUME ViewInv, phase # "unsynced", NEW d \in Devices, Lists(tree, d)
    PROVE  GoneIn(signals, d, 0) \/ mounta[d].present
<1>1. CASE Running
  <2>1. InTouch(signals, PresentOn(mounta), MountedOn(mounta), KnownDevices(tree),
                KnownVolumes(tree), KnownDevices(tree), KnownVolumes(tree))
    BY <1>1 DEF ViewInv, Synced
  <2>2. d \in KnownDevices(tree)
    BY DEF KnownDevices
  <2>3. GoneIn(signals, d, 0) \/ d \in PresentOn(mounta)
    BY <2>1, <2>2 DEF InTouch
  <2> QED
    BY <2>3 DEF PresentOn
<1>2. CASE ~Running
  <2>1. tree = EmptyTree
    BY <1>2 DEF ViewInv, StateInv
  <2>2. DeviceItems(tree) = <<>>
    BY <2>1, EmptyFilling
  <2> QED
    BY <2>2 DEF Lists
<1> QED
  BY <1>1, <1>2

(* The invariant holds initially. *)
LEMMA ViewInit == Init => ViewInv
<1> SUFFICES ASSUME Init PROVE ViewInv
  OBVIOUS
<1>1. StateInv
  BY InitInv
<1>2. phase = "setup" /\ signals = <<>> /\ view = <<>> /\ tree = EmptyTree /\ ~Running
  BY DEF Init, Running
<1>3. tree.inv = <<>>
  BY <1>2 DEF EmptyTree
<1>4. RightFor(tree, mounta, Unsure(signals, phase), view)
  BY <1>2, EmptyRight
<1>5. \A d \in Devices : mounta[d].vols = {}
  BY DEF Init, Absent
<1>6. PresentOn(mounta) \subseteq Devices
  BY DEF PresentOn
<1>7. \A d \in Devices, v \in Nat : <<d, v>> \in MountedOn(mounta) => d \in PresentOn(mounta)
  BY <1>5 DEF MountedOn
<1>8. Synced(tree, mounta, signals, Running)
  BY <1>2, <1>6, <1>7, StartTouch DEF Synced
<1> QED
  BY <1>1, <1>2, <1>3, <1>4, <1>8 DEF ViewInv

-----------------------------------------------------------------------------
(* Devices are plugged in and pulled, and volumes mounted. *)

MountedPresent(fs) ==
    \A d \in Devices, v \in Nat : <<d, v>> \in MountedOn(fs) => d \in PresentOn(fs)

(* What becomes of the media is reported by signal x. *)
Reported(x, fs, fs2) ==
    /\ \A d \in Devices : \/ fs2[d].content = fs[d].content
                          \/ x = DeviceRemoved(d)
                          \/ ~fs[d].present
    /\ MountedPresent(fs) => MountedPresent(fs2)
    /\ \A s, s2, n, K, W, L, V :
          InTouch(s, PresentOn(fs), MountedOn(fs), K, W, L, V) /\ Sent(s, x, s2, n)
             => InTouch(s2, PresentOn(fs2), MountedOn(fs2), K, W, L, V)

(* What is present and mounted *)
LEMMA OnDevices ==
    ASSUME NEW fs, NEW d \in Devices
    PROVE  /\ d \in PresentOn(fs) <=> fs[d].present
           /\ \A v \in Nat : <<d, v>> \in MountedOn(fs) <=> v \in fs[d].vols
           /\ PresentOn(fs) \in SUBSET Devices
BY DEF PresentOn, MountedOn

(* A signal with a set of mounts that has grown *)
LEMMA GrownTouch ==
    ASSUME NEW fs, NEW fs2, NEW x,
           \A e \in Devices : x # DeviceRemoved(e),
           \A e \in Devices : e \in PresentOn(fs) => e \in PresentOn(fs2),
           \A e \in Devices : e \in PresentOn(fs2) => e \in PresentOn(fs) \/ x = NewUSBDevice(e),
           \A e \in Devices : x = NewUSBDevice(e) => e \in PresentOn(fs2),
           MountedPresent(fs) => \A e \in Devices, v \in Nat :
                                    <<e, v>> \in MountedOn(fs) => <<e, v>> \in MountedOn(fs2),
           \A e \in Devices, v \in Nat : <<e, v>> \in MountedOn(fs2) =>
              <<e, v>> \in MountedOn(fs) \/ (e \in PresentOn(fs) /\ x = NewVolume(e, v)),
           \A e \in Devices, v \in Nat : x = NewVolume(e, v) => <<e, v>> \in MountedOn(fs2)
    PROVE  \A s, s2, n, K, W, L, V :
              InTouch(s, PresentOn(fs), MountedOn(fs), K, W, L, V) /\ Sent(s, x, s2, n)
                 => InTouch(s2, PresentOn(fs2), MountedOn(fs2), K, W, L, V)
<1> SUFFICES ASSUME NEW s, NEW s2, NEW n, NEW K, NEW W, NEW L, NEW V,
                    InTouch(s, PresentOn(fs), MountedOn(fs), K, W, L, V), Sent(s, x, s2, n)
             PROVE  InTouch(s2, PresentOn(fs2), MountedOn(fs2), K, W, L, V)
  OBVIOUS
<1>1. MountedPresent(fs)
  BY DEF InTouch, MountedPresent
<1>2. PresentOn(fs) \in SUBSET Devices /\ PresentOn(fs2) \in SUBSET Devices
  BY DEF PresentOn
<1>3. PresentOn(fs) \subseteq PresentOn(fs2)
  BY <1>2
<1>4. \A e \in PresentOn(fs2) : e \in PresentOn(fs) \/ x = NewUSBDevice(e)
  BY <1>2
<1>5. \A e \in Devices, v \in Nat : <<e, v>> \in MountedOn(fs) => <<e, v>> \in MountedOn(fs2)
  BY <1>1
<1> QED
  BY <1>2, <1>3, <1>4, <1>5, SentTouch

(* A device is plugged in. *)
LEMMA PlugReported ==
    ASSUME NEW fs, MountsType(fs), NEW d \in Devices, ~fs[d].present, NEW c \in DOMAIN Contents,
           NEW fs2, fs2 = [fs EXCEPT ![d] = [present |-> TRUE, vols |-> {}, content |-> c]]
    PROVE  Reported(NewUSBDevice(d), fs, fs2)
<1>1. DOMAIN fs = Devices
  BY DEF MountsType
<1>2. /\ \A e \in Devices \ {d} : fs2[e] = fs[e]
      /\ fs2[d].present /\ fs2[d].vols = {}
  BY <1>1
<1>3. \A e \in Devices : e \in PresentOn(fs2) <=> e \in PresentOn(fs) \/ e = d
  BY <1>2, OnDevices
<1>4. d \notin PresentOn(fs)
  BY OnDevices
<1>5. \A e \in Devices, v \in Nat : <<e, v>> \in MountedOn(fs2) <=> <<e, v>> \in MountedOn(fs) /\ e # d
  BY <1>2, OnDevices
<1>6. \A e \in Devices : NewUSBDevice(d) = NewUSBDevice(e) => e = d
  BY SignalKinds
<1>7. /\ \A e \in Devices : NewUSBDevice(d) # DeviceRemoved(e)
      /\ \A e \in Devices, v \in Nat : NewUSBDevice(d) # NewVolume(e, v)
  BY SignalKinds
<1>8. MountedPresent(fs) => MountedPresent(fs2)
  BY <1>3, <1>5 DEF MountedPresent
<1>9. MountedPresent(fs) => \A e \in Devices, v \in Nat :
                               <<e, v>> \in MountedOn(fs) => <<e, v>> \in MountedOn(fs2)
  BY <1>4, <1>5 DEF MountedPresent
<1> DEFINE x == NewUSBDevice(d)
<1>10. \A e \in Devices : e = d => x = NewUSBDevice(e)
  OBVIOUS
<1> HIDE DEF x
<1>11. \A s, s2, n, K, W, L, V :
          InTouch(s, PresentOn(fs), MountedOn(fs), K, W, L, V) /\ Sent(s, x, s2, n)
             => InTouch(s2, PresentOn(fs2), MountedOn(fs2), K, W, L, V)
  <2>1. \A e \in Devices : x # DeviceRemoved(e)
    BY <1>7 DEF x
  <2>2. \A e \in Devices : e \in PresentOn(fs) => e \in PresentOn(fs2)
    BY <1>3
  <2>3. \A e \in Devices : e \in PresentOn(fs2) => e \in PresentOn(fs) \/ x = NewUSBDevice(e)
    BY <1>3, <1>10
  <2>4. \A e \in Devices : x = NewUSBDevice(e) => e \in PresentOn(fs2)
    BY <1>3, <1>6 DEF x
  <2>5. \A e \in Devices, v \in Nat : <<e, v>> \in MountedOn(fs2) =>
              <<e, v>> \in MountedOn(fs) \/ (e \in PresentOn(fs) /\ x = NewVolume(e, v))
    BY <1>5
  <2>6. \A e \in Devices, v \in Nat : x = NewVolume(e, v) => <<e, v>> \in MountedOn(fs2)
    BY <1>7 DEF x
  <2> QED
    BY <1>9, <2>1, <2>2, <2>3, <2>4, <2>5, <2>6, GrownTouch
<1>12. \A e \in Devices : fs2[e].content = fs[e].content \/ ~fs[e].present
  BY <1>2
<1> QED
  BY <1>8, <1>11, <1>12 DEF Reported, x

(* A volume is mounted. *)
LEMMA MountReported ==
    ASSUME NEW fs, MountsType(fs), NEW d \in Devices, fs[d].present, NEW v \in Nat,
           NEW fs2, fs2 = [fs EXCEPT ![d].vols = @ \cup {v}]
    PROVE  Reported(NewVolume(d, v), fs, fs2)
<1> DEFINE x == NewVolume(d, v)
<1>1. DOMAIN fs = Devices /\ fs[d] \in MountSet
  BY DEF MountsType
<1>2. /\ \A e \in Devices \ {d} : fs2[e] = fs[e]
      /\ fs2[d].present /\ fs2[d].vols = fs[d].vols \cup {v} /\ fs2[d].content = fs[d].content
  BY <1>1 DEF MountSet
<1>3. \A e \in Devices : e \in PresentOn(fs2) <=> e \in PresentOn(fs)
  <2> SUFFICES ASSUME NEW e \in Devices PROVE e \in PresentOn(fs2) <=> e \in PresentOn(fs)
    OBVIOUS
  <2>1. /\ e \in PresentOn(fs2) <=> fs2[e].present
        /\ e \in PresentOn(fs) <=> fs[e].present
    BY OnDevices
  <2> QED
    BY <1>2, <2>1
<1>4. d \in PresentOn(fs)
  BY OnDevices
<1>5. \A e \in Devices, w \in Nat :
         <<e, w>> \in MountedOn(fs2) <=> <<e, w>> \in MountedOn(fs) \/ (e = d /\ w = v)
  <2> SUFFICES ASSUME NEW e \in Devices, NEW w \in Nat
               PROVE  <<e, w>> \in MountedOn(fs2) <=> <<e, w>> \in MountedOn(fs) \/ (e = d /\ w = v)
    OBVIOUS
  <2>1. /\ <<e, w>> \in MountedOn(fs2) <=> w \in fs2[e].vols
        /\ <<e, w>> \in MountedOn(fs) <=> w \in fs[e].vols
    BY OnDevices
  <2> QED
    BY <1>2, <2>1
<1>6. \A e \in Devices, w \in Nat : x = NewVolume(e, w) <=> e = d /\ w = v
  BY SignalKinds
<1>7. \A e \in Devices : x # DeviceRemoved(e) /\ x # NewUSBDevice(e)
  BY SignalKinds
<1> HIDE DEF x
<1>8. MountedPresent(fs) => MountedPresent(fs2)
  BY <1>3, <1>4, <1>5 DEF MountedPresent
<1>9. \A s, s2, n, K, W, L, V :
          InTouch(s, PresentOn(fs), MountedOn(fs), K, W, L, V) /\ Sent(s, x, s2, n)
             => InTouch(s2, PresentOn(fs2), MountedOn(fs2), K, W, L, V)
  <2>1. \A e \in Devices, w \in Nat : <<e, w>> \in MountedOn(fs) => <<e, w>> \in MountedOn(fs2)
    BY <1>5
  <2>2. \A e \in Devices, w \in Nat : <<e, w>> \in MountedOn(fs2) =>
              <<e, w>> \in MountedOn(fs) \/ (e \in PresentOn(fs) /\ x = NewVolume(e, w))
    BY <1>4, <1>5, <1>6
  <2>3. \A e \in Devices, w \in Nat : x = NewVolume(e, w) => <<e, w>> \in MountedOn(fs2)
    BY <1>5, <1>6
  <2> QED
    BY <1>3, <1>7, <2>1, <2>2, <2>3, GrownTouch
<1>10. \A e \in Devices : fs2[e].content = fs[e].content
  BY <1>2
<1> QED
  BY <1>8, <1>9, <1>10 DEF Reported, x

(* A device is pulled. *)
LEMMA UnplugReported ==
    ASSUME NEW fs, MountsType(fs), NEW d \in Devices,
           NEW fs2, fs2 = [fs EXCEPT ![d] = Absent]
    PROVE  Reported(DeviceRemoved(d), fs, fs2)
<1> DEFINE x == DeviceRemoved(d)
<1>1. DOMAIN fs = Devices
  BY DEF MountsType
<1>2. /\ \A e \in Devices \ {d} : fs2[e] = fs[e]
      /\ ~fs2[d].present /\ fs2[d].vols = {}
  BY <1>1 DEF Absent
<1>3. \A e \in Devices : e \in PresentOn(fs2) <=> e \in PresentOn(fs) /\ e # d
  BY <1>2, OnDevices
<1>4. PresentOn(fs2) = PresentOn(fs) \ {d}
  BY <1>3 DEF PresentOn
<1>5. \A e \in Devices, w \in Nat :
         <<e, w>> \in MountedOn(fs2) <=> <<e, w>> \in MountedOn(fs) /\ e # d
  <2> SUFFICES ASSUME NEW e \in Devices, NEW w \in Nat
               PROVE  <<e, w>> \in MountedOn(fs2) <=> <<e, w>> \in MountedOn(fs) /\ e # d
    OBVIOUS
  <2>1. /\ <<e, w>> \in MountedOn(fs2) <=> w \in fs2[e].vols
        /\ <<e, w>> \in MountedOn(fs) <=> w \in fs[e].vols
    BY OnDevices
  <2> QED
    BY <1>2, <2>1
<1>6. MountedPresent(fs) => MountedPresent(fs2)
  BY <1>3, <1>5 DEF MountedPresent
<1>7. PresentOn(fs) \in SUBSET Devices
  BY DEF PresentOn
<1> DEFINE P == PresentOn(fs)
           M == MountedOn(fs)
           M2 == MountedOn(fs2)
<1>8. \A s, s2, n, K, W, L, V :
          InTouch(s, P, M, K, W, L, V) /\ Sent(s, DeviceRemoved(d), s2, n)
             => InTouch(s2, P \ {d}, M2, K, W, L, V)
  <2>1. P \in SUBSET Devices
    BY <1>7
  <2>2. \A e \in Devices, w \in Nat : <<e, w>> \in M2 <=> <<e, w>> \in M /\ e # d
    BY <1>5
  <2> HIDE DEF P, M, M2
  <2> QED
    BY <2>1, <2>2, UnpluggedTouch
<1>9. \A e \in Devices : fs2[e].content = fs[e].content \/ x = DeviceRemoved(e)
  BY <1>2
<1>10. \A s, s2, n, K, W, L, V :
          InTouch(s, PresentOn(fs), MountedOn(fs), K, W, L, V) /\ Sent(s, x, s2, n)
             => InTouch(s2, PresentOn(fs2), MountedOn(fs2), K, W, L, V)
  <2> SUFFICES ASSUME NEW s, NEW s2, NEW n, NEW K, NEW W, NEW L, NEW V,
                      InTouch(s, PresentOn(fs), MountedOn(fs), K, W, L, V), Sent(s, x, s2, n)
               PROVE  InTouch(s2, PresentOn(fs2), MountedOn(fs2), K, W, L, V)
    OBVIOUS
  <2>1. InTouch(s2, P \ {d}, M2, K, W, L, V)
    BY <1>8
  <2> QED
    BY <1>4, <2>1
<1> HIDE DEF P, M, M2
<1>11. Reported(x, fs, fs2)
  <2> HIDE DEF x
  <2> QED
    BY <1>6, <1>9, <1>10 DEF Reported
<1> QED
  BY <1>11 DEF x

(* What is reported is known to be on its way. *)
LEMMA ReportedStep ==
    ASSUME ViewInv, StateInv', UNCHANGED <<tree, phase, view>>,
           NEW x \in SignalSet, Signal(x), Reported(x, mounta, mounta')
    PROVE  ViewInv'
<1>1. phase \in {"setup", "subscribed", "running", "unsynced"}
  BY DEF ViewInv
<1>2. CASE phase = "setup"
  <2>1. ~Running /\ ~Running' /\ signals = <<>> /\ signals' = <<>> /\ view' = <<>>
    BY <1>2 DEF ViewInv, Running, Signal
  <2>2. tree' = EmptyTree
    BY <2>1 DEF ViewInv, StateInv
  <2>3. RightFor(tree', mounta', Unsure(signals', phase'), view')
    BY <2>1, <2>2, EmptyRight
  <2>4. InTouch(signals, PresentOn(mounta), MountedOn(mounta), Devices, Devices \X Nat, {}, {})
    BY <1>2, <2>1 DEF ViewInv, Synced
  <2>5. MountedPresent(mounta)
    BY <2>4 DEF InTouch, MountedPresent
  <2>6. MountedPresent(mounta')
    BY <2>5 DEF Reported
  <2>7. \A d \in Devices, v \in Nat : <<d, v>> \in MountedOn(mounta') => d \in PresentOn(mounta')
    BY <2>6 DEF MountedPresent
  <2>8. PresentOn(mounta') \subseteq Devices
    BY DEF PresentOn
  <2>9. Synced(tree', mounta', signals', Running')
    BY <2>1, <2>7, <2>8, StartTouch DEF Synced
  <2>10. tree'.inv = <<>>
    BY DEF ViewInv
  <2> QED
    BY <1>1, <2>1, <2>3, <2>9, <2>10 DEF ViewInv
<1>3. CASE phase # "setup"
  <2> DEFINE s == signals
             s2 == signals'
             n == Len(signals)
             X == Unsure(signals, phase)
             Y == Unsure(signals', phase)
  <2>1. s \in Seq(SignalSet) /\ s2 = Append(s, x)
    BY <1>3 DEF Signal, ViewInv, StateInv, BrokerInv, MountsInv
  <2>2. Sent(s, x, s2, n)
    <3> HIDE DEF SignalSet
    <3> QED
      BY <2>1, SentIs
  <2>3. 0 \in 0..n
    BY <2>2 DEF Sent
  <2> HIDE DEF n
  <2>4. \A d : GoneIn(s2, d, 0) <=> GoneIn(s, d, 0) \/ x = DeviceRemoved(d)
    BY <2>2, <2>3, SentAdds
  <2>5. phase # "unsynced" => Synced(tree, mounta', s2, Running)
    BY <2>2 DEF Synced, Reported, ViewInv
  <2>6. ASSUME NEW d \in Devices, Lists(tree, d), d \notin Y
        PROVE  d \notin X /\ mounta'[d].content = mounta[d].content
    <3>1. phase # "unsynced" /\ ~GoneIn(s2, d, 0)
      BY <2>6 DEF Unsure
    <3>2. ~GoneIn(s, d, 0) /\ x # DeviceRemoved(d)
      BY <2>4, <3>1
    <3>3. mounta[d].present
      BY <2>6, <3>1, <3>2, ListedPresent
    <3>4. mounta'[d].content = mounta[d].content
      BY <3>2, <3>3 DEF Reported
    <3> QED
      BY <3>1, <3>2, <3>4 DEF Unsure
  <2>7. RightFor(tree, mounta, X, view)
    BY DEF ViewInv
  <2> HIDE DEF X, Y
  <2>8. RightFor(tree, mounta', Y, view)
    BY <2>6, <2>7, RightWith
  <2>9. Running' <=> Running
    BY DEF Running
  <2>10. RightFor(tree', mounta', Unsure(signals', phase'), view')
    BY <2>8 DEF Y
  <2>11. tree'.inv = <<>> /\ (~Running' => view' = <<>>) /\ phase' # "setup"
    BY <1>3, <2>9 DEF ViewInv
  <2>12. phase' # "unsynced" => Synced(tree', mounta', signals', Running')
    BY <2>5, <2>9
  <2> QED
    BY <1>1, <2>10, <2>11, <2>12 DEF ViewInv
<1> QED
  BY <1>2, <1>3

(* The mount daemon reports what it mounts. *)
LEMMA ViewPlugs == ASSUME ViewInv, StateInv', Plugs PROVE ViewInv'
<1>1. MountsType(mounta) /\ UNCHANGED <<tree, phase>>
  BY MountsStep DEF ViewInv, StateInv, BrokerInv, MountsInv, MountsType
<1>2. ASSUME NEW d \in Devices, NEW c \in DOMAIN Contents, Plug(d, c) PROVE ViewInv'
  <2>1. Reported(NewUSBDevice(d), mounta, mounta')
    BY <1>1, <1>2, PlugReported DEF Plug
  <2>2. NewUSBDevice(d) \in SignalSet
    BY DEF NewUSBDevice, SignalSet
  <2>3. Signal(NewUSBDevice(d)) /\ view' = view
    BY <1>2 DEF Plug
  <2> QED
    BY <1>1, <2>1, <2>2, <2>3, ReportedStep
<1>3. ASSUME NEW d \in Devices, NEW v \in Volumes(d), Mount(d, v) PROVE ViewInv'
  <2>1. v \in Nat
    BY UsbBrokerAssumption
  <2>2. Reported(NewVolume(d, v), mounta, mounta')
    BY <1>1, <1>3, <2>1, MountReported DEF Mount
  <2>3. NewVolume(d, v) \in SignalSet
    BY <2>1 DEF NewVolume, SignalSet
  <2>4. Signal(NewVolume(d, v)) /\ view' = view
    BY <1>3 DEF Mount
  <2> QED
    BY <1>1, <2>2, <2>3, <2>4, ReportedStep
<1>4. ASSUME NEW d \in Devices, Unplug(d) PROVE ViewInv'
  <2>1. Reported(DeviceRemoved(d), mounta, mounta')
    BY <1>1, <1>4, UnplugReported DEF Unplug
  <2>2. DeviceRemoved(d) \in SignalSet
    BY DEF DeviceRemoved, SignalSet
  <2>3. Signal(DeviceRemoved(d)) /\ view' = view
    BY <1>4 DEF Unplug
  <2> QED
    BY <1>1, <2>1, <2>2, <2>3, ReportedStep
<1> QED
  BY <1>2, <1>3, <1>4 DEF Plugs

-----------------------------------------------------------------------------
(* The broker starts, and signals are delivered. *)

(* As long as the bound on the number of lists is kept, there is a free ID. *)
LEMMA BoundedHasIds ==
    ASSUME NEW t, TreeType(t), WithinBound(t) PROVE ~Full(t)
<1> SUFFICES ASSUME Full(t) PROVE FALSE
  OBVIOUS
<1>1. MaxId \in Nat \ {0} /\ Ids = 1..MaxId /\ DOMAIN t.lists \subseteq 0..MaxId
  BY MaxIdIsNat DEF TreeType
<1>2. IsFiniteSet(0..MaxId) /\ Cardinality(1..MaxId) = MaxId
  <2>1. 0 \in Int /\ 1 \in Int /\ MaxId \in Int
        /\ (IF 1 > MaxId THEN 0 ELSE MaxId - 1 + 1) = MaxId
    BY <1>1
  <2> QED
    BY <2>1, FS_Interval
<1>3. IsFiniteSet(DOMAIN t.lists)
  BY <1>1, <1>2, FS_Subset
<1>4. 1..MaxId \subseteq DOMAIN t.lists
  BY <1>1 DEF Full
<1>5. /\ Cardinality(1..MaxId) <= Cardinality(DOMAIN t.lists)
      /\ Cardinality(DOMAIN t.lists) \in Nat
  BY <1>3, <1>4, FS_Subset, FS_CardinalityType
<1>6. Cardinality(DOMAIN t.lists) <= MaxLists /\ MaxLists \in 1..MaxId - 1
  BY UsbBrokerAssumption DEF WithinBound
<1> QED
  BY <1>1, <1>2, <1>5, <1>6

(* The broker knows the same devices and volumes. *)
SameKnown(t, u) ==
    /\ \A e : Lists(u, e) <=> Lists(t, e)
    /\ \A e, v : ListsVolume(u, e, v) <=> ListsVolume(t, e, v)

(* When the signals that a tree has collected are out, it is as right. *)
LEMMA AsideRight ==
    ASSUME NEW t, NEW pl, NEW fs, NEW X, Proper(t, pl, fs, X), NEW w, ViewRight(t, pl, w),
           NEW u, u = [t EXCEPT !.inv = <<>>]
    PROVE  RightFor(u, fs, X, w) /\ u.inv = <<>> /\ SameKnown(t, u)
<1>1. /\ Proper(u, pl, fs, X) /\ u.inv = <<>> /\ u.root = t.root /\ u.lists = t.lists
      /\ IsPruning(t, pl, u, pl, {})
  BY ProperAside
<1>2. Reached(u) = Reached(t)
  BY <1>1 DEF Reached, IsLinked
<1>3. \A l : Shown(u, l) = Shown(t, l)
  BY <1>1 DEF Shown, Cached, Items
<1>4. ViewOf(u, pl, DOMAIN w) = ViewOf(t, pl, DOMAIN w)
  BY <1>3 DEF ViewOf
<1>5. ViewRight(u, pl, w)
  BY <1>2, <1>4 DEF ViewRight
<1>6. SameKnown(t, u)
  BY <1>1 DEF IsPruning, SameKnown
<1> QED
  BY <1>1, <1>5, <1>6 DEF RightFor

(* The clients follow what the broker tells them. *)
LEMMA BecomesRight ==
    ASSUME NEW pl, Sound(tree), ViewRight(tree, pl, view), NEW t, NEW X,
           Answered(tree, pl, t, mounta, X), Becomes(t)
    PROVE  RightFor(tree', mounta, X, view') /\ tree'.inv = <<>> /\ SameKnown(t, tree')
<1>1. PICK pl2, kills, old, new : Proper(t, pl2, mounta, X) /\ Tells(tree, pl, t, pl2, kills, old, new)
  BY DEF Answered
<1>2. ViewRight(t, pl2, Follow(t, view))
  BY <1>1, FollowRight
<1>3. tree' = [t EXCEPT !.inv = <<>>] /\ view' = Follow(t, view)
  BY DEF Becomes
<1> QED
  BY <1>1, <1>2, <1>3, AsideRight

(* What a client knows of the list of devices *)
RootView(u) == ViewOf(u, [l \in {u.root} |-> <<>>], {u.root})

(* The list of devices is announced, and gets another ID at once if there   *)
(* are devices.                                                             *)
LEMMA StartFollowed ==
    ASSUME NEW u, NEW r, r # NoId, u.root # NoId,
           \/ u.root = r /\ u.inv = << <<NoId, r>> >>
           \/ u.inv = << <<NoId, r>>, <<r, u.root>> >>
    PROVE  Follow(u, <<>>) = RootView(u)
<1>1. DOMAIN <<>> = {}
  OBVIOUS
<1> DEFINE w0 == <<>>
           w1 == [l \in {r} |-> Sees(u, r, <<>>)]
           w2 == [l \in {u.root} |-> Sees(u, u.root, <<>>)]
<1>2. Told(u, w0, <<NoId, r>>) = w1
  <2>1. DOMAIN Restrict(w0, DOMAIN w0 \ {NoId}) = {}
    BY DEF Restrict
  <2>2. Told(u, w0, <<NoId, r>>) = Put(Restrict(w0, DOMAIN w0 \ {NoId}), r, Sees(u, r, <<>>))
    BY DEF Told
  <2> QED
    BY <2>1, <2>2 DEF Put
<1>3. Told(u, w1, <<r, u.root>>) = w2
  <2>1. DOMAIN w1 = {r} /\ w1[r].place = <<>>
    BY DEF Sees
  <2> HIDE DEF w1
  <2>2. DOMAIN Restrict(w1, DOMAIN w1 \ {r}) = {}
    BY <2>1 DEF Restrict
  <2>3. Told(u, w1, <<r, u.root>>) = Put(Restrict(w1, DOMAIN w1 \ {r}), u.root, Sees(u, u.root, <<>>))
    BY <2>1 DEF Told
  <2> QED
    BY <2>2, <2>3 DEF Put
<1>4. w2 = RootView(u)
  BY DEF RootView, ViewOf, Sees
<1> HIDE DEF w0, w1, w2
<1>5. CASE u.root = r /\ u.inv = << <<NoId, r>> >>
  <2>1. Len(u.inv) = 1 /\ u.inv[1] = <<NoId, r>>
    BY <1>5
  <2>2. Len(u.inv) \in Nat
    BY <2>1
  <2>3. PICK told : FollowedBy(told, u, <<>>)
    BY <2>2, FollowSteps
  <2>4. Follow(u, <<>>) = told[1] /\ told[0] = <<>> /\ \A n \in 1..1 : told[n] = Told(u, told[n - 1], u.inv[n])
    BY <2>1, <2>3 DEF FollowedBy
  <2>5. told[1] = Told(u, told[0], u.inv[1])
    <3>1. 1 \in 1..1 /\ 1 - 1 = 0
      OBVIOUS
    <3> QED
      BY <2>4, <3>1
  <2>6. w1 = w2
    BY <1>5 DEF w1, w2
  <2> QED
    BY <1>2, <1>4, <2>1, <2>4, <2>5, <2>6 DEF w0
<1>6. CASE u.inv = << <<NoId, r>>, <<r, u.root>> >>
  <2>1. Len(u.inv) = 2 /\ u.inv[1] = <<NoId, r>> /\ u.inv[2] = <<r, u.root>>
    BY <1>6
  <2>2. Len(u.inv) \in Nat
    BY <2>1
  <2>3. PICK told : FollowedBy(told, u, <<>>)
    BY <2>2, FollowSteps
  <2>4. Follow(u, <<>>) = told[2] /\ told[0] = <<>> /\ \A n \in 1..2 : told[n] = Told(u, told[n - 1], u.inv[n])
    BY <2>1, <2>3 DEF FollowedBy
  <2>5. told[1] = Told(u, told[0], u.inv[1]) /\ told[2] = Told(u, told[1], u.inv[2])
    <3>1. 1 \in 1..2 /\ 2 \in 1..2 /\ 1 - 1 = 0 /\ 2 - 1 = 1
      OBVIOUS
    <3> QED
      BY <2>4, <3>1
  <2> QED
    BY <1>2, <1>3, <1>4, <2>1, <2>4, <2>5 DEF w0
<1> QED
  BY <1>5, <1>6

(* A client that has followed this knows the tree. *)
LEMMA RootViewRight ==
    ASSUME NEW u, NEW pl, Sound(u), Placed(u, pl) PROVE ViewRight(u, pl, RootView(u))
<1>1. DOMAIN RootView(u) = {u.root}
  BY DEF RootView, ViewOf
<1>2. u.root \in Reached(u)
  BY RootReached DEF Sound
<1>3. pl[u.root] = <<>>
  BY DEF Placed
<1>4. RootView(u) = ViewOf(u, pl, {u.root})
  BY <1>3 DEF RootView, ViewOf
<1> QED
  BY <1>1, <1>2, <1>4 DEF ViewRight

(* Two signals, one after the other *)
LEMMA TwoSignals == \A a, b : Append(<<a>>, b) = <<a, b>>
<1> SUFFICES ASSUME NEW a, NEW b PROVE Append(<<a>>, b) = <<a, b>>
  OBVIOUS
<1> DEFINE S == {a, b}
           s == <<a>>
           s2 == <<a, b>>
           r == Append(s, b)
<1>1. s \in Seq(S) /\ Len(s) = 1 /\ s[1] = a /\ b \in S
  OBVIOUS
<1>2. s2 \in Seq(S) /\ Len(s2) = 2 /\ s2[1] = a /\ s2[2] = b
  OBVIOUS
<1> HIDE DEF S, s, s2
<1>3. r \in Seq(S) /\ Len(r) = 2 /\ r[1] = a /\ r[2] = b
  <2>1. s \in Seq(S) /\ b \in S
    BY <1>1
  <2>2. /\ r \in Seq(S) /\ Len(r) = Len(s) + 1
        /\ \A i \in 1..Len(s) : r[i] = s[i]
        /\ r[Len(s) + 1] = b
    BY <2>1, AppendTo
  <2> HIDE DEF r
  <2> QED
    BY <1>1, <2>2
<1> HIDE DEF r
<1>4. \A n \in 1..2 : r[n] = s2[n]
  BY <1>2, <1>3
<1>5. r = s2
  BY <1>2, <1>3, <1>4, SameSeq
<1> QED
  BY <1>5 DEF r, s, s2

(* The list of devices is announced to the clients. *)
LEMMA AnnouncedRight ==
    ASSUME NEW f, Filling(f), NEW fs, NEW X, NEW t, t = Announced(f),
           NEW u, u = t \/ u = ReinsertDeviceList(t)
    PROVE  /\ \E pl : Proper(u, pl, fs, X)
           /\ Follow(u, <<>>) = RootView(u)
           /\ SameKnown(f, u)
<1>1. Sound(f) /\ f.inv = <<>>
  BY DEF Filling, FillInv
<1>2. f.root # NoId
  BY <1>1 DEF Sound, TreeType, RootList
<1> DEFINE pl == Bare(f)
           x == << <<NoId, f.root>> >>
<1>3. Proper(f, pl, fs, X)
  BY FillingProper
<1>4. t = [f EXCEPT !.inv = x]
  BY <1>1 DEF Announced, Emit
<1> HIDE DEF pl
<1>5. Proper(t, pl, fs, X) /\ t.inv = x /\ t.root = f.root /\ IsPruning(f, pl, t, pl, {})
  <2> HIDE DEF x
  <2> QED
    BY <1>3, <1>4, ProperAside
<1>6. SameKnown(f, t)
  BY <1>5 DEF IsPruning, SameKnown
<1>7. CASE u = t
  BY <1>2, <1>5, <1>6, <1>7, StartFollowed
<1>8. CASE u = ReinsertDeviceList(t)
  <2>1. /\ u.inv = Append(t.inv, <<t.root, u.root>>) /\ u.root # NoId
        /\ \E pl2 : Proper(u, pl2, fs, X) /\ IsRenaming(t, pl, u, pl2, t.root, u.root)
    BY <1>5, <1>8, DevicesRenewed
  <2>2. u.inv = << <<NoId, f.root>>, <<f.root, u.root>> >>
    <3>1. \A a, b : Append(<<a>>, b) = <<a, b>>
      BY TwoSignals
    <3>2. u.inv = Append(<< <<NoId, f.root>> >>, <<f.root, u.root>>)
      BY <1>5, <2>1, Zenon
    <3> QED
      BY <3>1, <3>2, Zenon
  <2>3. SameKnown(t, u)
    BY <2>1 DEF IsRenaming, SameKnown
  <2>4. SameKnown(f, u)
    BY <1>6, <2>3 DEF SameKnown
  <2>5. Follow(u, <<>>) = RootView(u)
    BY <1>2, <2>1, <2>2, StartFollowed
  <2> QED
    BY <2>1, <2>4, <2>5
<1> QED
  BY <1>7, <1>8

(* Then the clients know it. *)
LEMMA StartsRight ==
    ASSUME NEW f, Filling(f), NEW X, view = <<>>, NEW u,
           u = Announced(f) \/ u = ReinsertDeviceList(Announced(f)), Becomes(u)
    PROVE  RightFor(tree', mounta, X, view') /\ tree'.inv = <<>> /\ SameKnown(f, tree')
<1>1. PICK pl : Proper(u, pl, mounta, X)
  BY AnnouncedRight
<1>2. Follow(u, <<>>) = RootView(u) /\ SameKnown(f, u)
  BY AnnouncedRight
<1>3. tree' = [u EXCEPT !.inv = <<>>] /\ view' = RootView(u)
  BY <1>2 DEF Becomes
<1>4. ViewRight(u, pl, RootView(u))
  BY <1>1, RootViewRight DEF Proper, Rich, Shaped
<1>5. RightFor(tree', mounta, X, view') /\ tree'.inv = <<>> /\ SameKnown(u, tree')
  BY <1>1, <1>3, <1>4, AsideRight
<1> QED
  BY <1>2, <1>5 DEF SameKnown

(* What has been filled is what is mounted. *)
LEMMA FilledKnown ==
    ASSUME MountsInv, NEW f, NEW ds, Enumerates(ds, Present), FirstFilled(f, mounta, ds, Len(ds)),
           MountedPresent(mounta), NEW u, SameKnown(f, u)
    PROVE  KnownDevices(u) = PresentOn(mounta) /\ KnownVolumes(u) = MountedOn(mounta)
<1>1. Present = PresentOn(mounta) /\ Present \subseteq Devices
  BY DEF Present, PresentOn
<1>2. \A e : (\E k \in 1..Len(ds) : ds[k] = e) <=> e \in Present
  BY DEF Enumerates, ToSet
<1>3. \A e : Lists(u, e) <=> e \in Present
  BY <1>2 DEF FirstFilled, SameKnown
<1>4. \A e, v : ListsVolume(u, e, v) <=> e \in Present /\ v \in mounta[e].vols
  BY <1>2 DEF FirstFilled, SameKnown
<1>5. KnownDevices(u) = PresentOn(mounta)
  BY <1>1, <1>3 DEF KnownDevices
<1>6. ASSUME NEW x \in Devices \X Nat PROVE x \in KnownVolumes(u) <=> x \in MountedOn(mounta)
  <2>1. PICK d \in Devices, v \in Nat : x = <<d, v>>
    OBVIOUS
  <2>2. x \in KnownVolumes(u) <=> d \in Present /\ v \in mounta[d].vols
    BY <1>4, <2>1 DEF KnownVolumes
  <2>3. x \in MountedOn(mounta) <=> v \in mounta[d].vols
    BY <2>1 DEF MountedOn
  <2>4. v \in mounta[d].vols => d \in Present
    BY <1>1, <2>1, <2>3 DEF MountedPresent
  <2> QED
    BY <2>2, <2>3, <2>4
<1>7. KnownVolumes(u) \subseteq Devices \X Nat /\ MountedOn(mounta) \subseteq Devices \X Nat
  BY DEF KnownVolumes, MountedOn
<1>8. KnownVolumes(u) = MountedOn(mounta)
  BY <1>6, <1>7
<1> QED
  BY <1>5, <1>8

(* The broker starts. *)
LEMMA ViewStarts == ASSUME ViewInv, StateInv', Starts PROVE ViewInv'
<1>1. CASE Subscribe
  <2>1. phase = "setup" /\ phase' = "subscribed" /\ UNCHANGED <<tree, mounta, signals, view>>
    BY <1>1 DEF Subscribe
  <2>2. ~Running /\ ~Running' /\ signals = <<>> /\ view = <<>>
    BY <2>1 DEF ViewInv, Running
  <2>3. tree = EmptyTree
    BY <2>2 DEF ViewInv, StateInv
  <2>4. RightFor(tree', mounta', Unsure(signals', phase'), view')
    BY <2>1, <2>2, <2>3, EmptyRight
  <2>5. Synced(tree', mounta', signals', Running')
    BY <2>1, <2>2 DEF ViewInv, Synced
  <2>6. tree'.inv = <<>>
    BY <2>1 DEF ViewInv
  <2> QED
    BY <2>1, <2>2, <2>4, <2>5, <2>6 DEF ViewInv
<1>2. CASE PreMainLoop
  <2>1. /\ phase = "subscribed" /\ phase' = "running" /\ UNCHANGED <<mounta, signals>>
    BY <1>2 DEF PreMainLoop
  <2>2. PICK ds \in Orders(Present) :
           LET t == Announced(Filled(tree, ds))
           IN Becomes(IF ds = <<>> THEN t ELSE ReinsertDeviceList(t))
    BY <1>2 DEF PreMainLoop
  <2>3. ~Running /\ Running' /\ view = <<>> /\ MountsInv
    BY <2>1 DEF ViewInv, Running, StateInv, BrokerInv
  <2>4. tree = EmptyTree
    BY <2>3 DEF ViewInv, StateInv
  <2>5. Present \subseteq Devices /\ IsFiniteSet(Present)
    <3>1. Present \subseteq Devices /\ IsFiniteSet(Devices)
      BY UsbBrokerAssumption DEF Present
    <3> QED
      BY <3>1, FS_Subset
  <2>6. Enumerates(ds, Present)
    BY <2>5, EnumeratedOnce
  <2> DEFINE f == Filled(tree, ds)
             u == IF ds = <<>> THEN Announced(f) ELSE ReinsertDeviceList(Announced(f))
             X == Unsure(signals, phase')
  <2>7. FirstFilled(f, mounta, ds, Len(ds))
    BY <2>3, <2>4, <2>5, <2>6, EmptyFilling, FilledLists
  <2>8. Becomes(u) /\ (u = Announced(f) \/ u = ReinsertDeviceList(Announced(f)))
    BY <2>2
  <2> HIDE DEF f, u, X
  <2>9. RightFor(tree', mounta, X, view') /\ tree'.inv = <<>> /\ SameKnown(f, tree')
    BY <2>3, <2>7, <2>8, StartsRight DEF FirstFilled
  <2>10. InTouch(signals, PresentOn(mounta), MountedOn(mounta), Devices, Devices \X Nat, {}, {})
    BY <2>1, <2>3 DEF ViewInv, Synced
  <2>11. MountedPresent(mounta)
    BY <2>10 DEF InTouch, MountedPresent
  <2>12. KnownDevices(tree') = PresentOn(mounta) /\ KnownVolumes(tree') = MountedOn(mounta)
    BY <2>3, <2>6, <2>7, <2>9, <2>11, FilledKnown
  <2>13. PresentOn(mounta) \in SUBSET Devices
    BY DEF PresentOn
  <2>14. InTouch(signals, PresentOn(mounta), MountedOn(mounta), PresentOn(mounta), MountedOn(mounta),
                 PresentOn(mounta), MountedOn(mounta))
    BY <2>10, <2>13, FilledTouch
  <2>15. Synced(tree', mounta', signals', Running')
    BY <2>1, <2>3, <2>12, <2>14 DEF Synced
  <2>16. RightFor(tree', mounta', Unsure(signals', phase'), view')
    BY <2>1, <2>9 DEF X
  <2> QED
    BY <2>1, <2>3, <2>9, <2>15, <2>16 DEF ViewInv
<1>3. CASE PreMainLoopFails
  <2>1. /\ phase = "subscribed" /\ phase' = "unsynced" /\ UNCHANGED <<mounta, signals>>
        /\ Becomes(Announced(tree))
    BY <1>3 DEF PreMainLoopFails
  <2>2. ~Running /\ Running' /\ view = <<>>
    BY <2>1 DEF ViewInv, Running
  <2>3. Filling(tree)
    BY <2>2, EmptyFilling DEF ViewInv, StateInv
  <2> DEFINE X == Unsure(signals, phase')
             u == Announced(tree)
  <2>4. Becomes(u) /\ u = Announced(tree)
    BY <2>1
  <2> HIDE DEF X, u
  <2>5. RightFor(tree', mounta, X, view') /\ tree'.inv = <<>>
    BY <2>2, <2>3, <2>4, StartsRight
  <2>6. RightFor(tree', mounta', Unsure(signals', phase'), view')
    BY <2>1, <2>5 DEF X
  <2> QED
    BY <2>1, <2>2, <2>5, <2>6 DEF ViewInv
<1> QED
  BY <1>1, <1>2, <1>3 DEF Starts

-----------------------------------------------------------------------------
(* The broker handles signals. *)

(* What the broker knows after it has handled signal x *)
Handles(x, t, u) ==
    /\ \A e \in Devices : Lists(u, e) <=> (Lists(t, e) /\ x # DeviceRemoved(e)) \/ x = NewUSBDevice(e)
    /\ \A e \in Devices, v \in Nat :
          ListsVolume(u, e, v) <=> \/ ListsVolume(t, e, v) /\ x # DeviceRemoved(e)
                                   \/ x = NewVolume(e, v) /\ Lists(t, e)

(* Handling a signal keeps the broker in touch. *)
LEMMA SyncedHandled ==
    ASSUME NEW t, NEW fs, NEW s, Synced(t, fs, s, TRUE), NEW x, NEW s2, NEW n, Handled(s, x, s2, n),
           NEW u, Handles(x, t, u)
    PROVE  Synced(u, fs, s2, TRUE)
<1> DEFINE P == PresentOn(fs)
           M == MountedOn(fs)
           K == KnownDevices(t)
           W == KnownVolumes(t)
           K2 == KnownDevices(u)
           W2 == KnownVolumes(u)
<1>1. InTouch(s, P, M, K, W, K, W)
  BY DEF Synced
<1>2. P \in SUBSET Devices /\ K \in SUBSET Devices /\ K2 \in SUBSET Devices
  BY DEF PresentOn, KnownDevices
<1>3. \A e \in Devices : e \in K2 <=> (e \in K /\ x # DeviceRemoved(e)) \/ x = NewUSBDevice(e)
  BY DEF KnownDevices, Handles
<1>4. ASSUME NEW e \in Devices, NEW v \in Nat
      PROVE  <<e, v>> \in W2 <=> \/ <<e, v>> \in W /\ x # DeviceRemoved(e)
                                 \/ x = NewVolume(e, v) /\ e \in K
  <2>1. /\ <<e, v>> \in W2 <=> ListsVolume(u, e, v)
        /\ <<e, v>> \in W <=> ListsVolume(t, e, v)
        /\ e \in K <=> Lists(t, e)
    BY DEF KnownVolumes, KnownDevices
  <2> QED
    BY <2>1 DEF Handles
<1> HIDE DEF P, M, K, W, K2, W2
<1>5. \A e \in K : x # DeviceRemoved(e) => e \in K2
  BY <1>2, <1>3
<1>6. \A e \in Devices : x = NewUSBDevice(e) => e \in K2
  BY <1>3
<1>7. \A e \in K2 : (e \in K /\ x # DeviceRemoved(e)) \/ x = NewUSBDevice(e)
  BY <1>2, <1>3
<1>8. \A e \in Devices, v \in Nat : <<e, v>> \in W /\ x # DeviceRemoved(e) => <<e, v>> \in W2
  BY <1>4
<1>9. \A e \in K, v \in Nat : x = NewVolume(e, v) => <<e, v>> \in W2
  BY <1>2, <1>4
<1>10. \A e \in Devices, v \in Nat : <<e, v>> \in W2 =>
         (<<e, v>> \in W /\ x # DeviceRemoved(e)) \/ x = NewVolume(e, v)
  BY <1>4
<1>11. InTouch(s2, P, M, K2, W2, K2, W2)
  BY <1>1, <1>2, <1>5, <1>6, <1>7, <1>8, <1>9, <1>10, HandledTouch
<1> QED
  BY <1>11 DEF Synced, P, M, K2, W2

(* The handler of signal x gets it right. *)
AnswersSignal(x, t, pl, u, fs, X) ==
    /\ Handles(x, t, u)
    /\ \E Y : /\ Answered(t, pl, u, fs, Y)
              /\ \A d \in Y : d \in X /\ x # DeviceRemoved(d)

(* Less can be unsure than is said. *)
LEMMA AnsweredMore ==
    ASSUME NEW t, NEW pl, NEW u, NEW fs, NEW X, Answered(t, pl, u, fs, X), NEW Y, X \subseteq Y
    PROVE  Answered(t, pl, u, fs, Y)
<1>1. PICK pl2, kills, old, new : Proper(u, pl2, fs, X) /\ Tells(t, pl, u, pl2, kills, old, new)
  BY DEF Answered
<1>2. Proper(u, pl2, fs, Y)
  BY <1>1 DEF Proper, Stored
<1> QED
  BY <1>1, <1>2 DEF Answered

(* Then the invariant is kept. *)
LEMMA HandledStep ==
    ASSUME ViewInv, StateInv', NEW name, Delivered(name),
           NEW pl, Proper(tree, pl, mounta, Unsure(signals, phase)), ViewRight(tree, pl, view),
           NEW u, AnswersSignal(Head(signals), tree, pl, u, mounta, Unsure(signals, phase)), Becomes(u)
    PROVE  ViewInv'
<1> DEFINE s == signals
           s2 == signals'
           x == Head(signals)
           n == Len(signals) - 1
           Z == Unsure(signals', phase')
<1>1. /\ Running /\ s # <<>> /\ s2 = Tail(s) /\ UNCHANGED <<mounta, phase>>
      /\ s \in Seq(SignalSet)
  BY DEF Delivered, ViewInv, StateInv, BrokerInv, MountsInv
<1>2. Handled(s, x, s2, n)
  <2> HIDE DEF SignalSet
  <2> QED
    BY <1>1, HandledIs
<1>3. Handles(x, tree, u)
  BY DEF AnswersSignal
<1>4. PICK Y : /\ Answered(tree, pl, u, mounta, Y)
               /\ \A d \in Y : d \in Unsure(s, phase) /\ x # DeviceRemoved(d)
  BY DEF AnswersSignal
<1> HIDE DEF n, x
<1>5. \A d : GoneIn(s2, d, 0) <=> GoneIn(s, d, 1)
  <2>1. 0 \in 0..n /\ 0 + 1 = 1
    BY <1>2 DEF Handled
  <2> QED
    BY <1>2, <2>1, HandledLeaves
<1>6. \A d : GoneIn(s, d, 0) <=> GoneIn(s, d, 1) \/ x = DeviceRemoved(d)
  BY <1>2, HandledLeaves
<1>7. Y \subseteq Z
  BY <1>1, <1>4, <1>5, <1>6 DEF Unsure
<1> HIDE DEF Z
<1>8. Answered(tree, pl, u, mounta, Z)
  BY <1>4, <1>7, AnsweredMore
<1>9. Sound(tree)
  BY DEF Proper, Rich
<1>10. RightFor(tree', mounta, Z, view') /\ tree'.inv = <<>> /\ SameKnown(u, tree')
  BY <1>8, <1>9, BecomesRight
<1>11. Handles(x, tree, tree')
  BY <1>3, <1>10 DEF Handles, SameKnown
<1>12. phase # "unsynced" => Synced(tree', mounta, s2, TRUE)
  <2> SUFFICES ASSUME phase # "unsynced" PROVE Synced(tree', mounta, s2, TRUE)
    OBVIOUS
  <2>1. Synced(tree, mounta, s, TRUE)
    BY <1>1 DEF ViewInv, Synced
  <2> QED
    BY <1>2, <1>11, <2>1, SyncedHandled
<1>13. Running' /\ phase' # "setup" /\ phase' \in {"setup", "subscribed", "running", "unsynced"}
  BY <1>1 DEF Running
<1>14. phase' # "unsynced" => Synced(tree', mounta', signals', Running')
  BY <1>1, <1>12, <1>13 DEF Synced
<1>15. RightFor(tree', mounta', Unsure(signals', phase'), view')
  BY <1>1, <1>10 DEF Z
<1> QED
  BY <1>10, <1>13, <1>14, <1>15 DEF ViewInv

(* NewUSBDevice *)
LEMMA NewDeviceAnswers ==
    ASSUME NEW t, NEW pl, NEW fs, NEW X, Proper(t, pl, fs, X), t.inv = <<>>, NEW d \in Devices,
           NEW u, u = IF DeviceById(t, d) # 0 THEN t ELSE ReinsertDeviceList(AddToList(t, d))
    PROVE  AnswersSignal(NewUSBDevice(d), t, pl, u, fs, X)
<1> DEFINE x == NewUSBDevice(d)
           i == DeviceById(t, d)
<1>1. /\ \A e : x # DeviceRemoved(e)
      /\ \A e : x = NewUSBDevice(e) <=> e = d
      /\ \A e, v : x # NewVolume(e, v)
  BY SignalKinds
<1>2. IF i = 0 THEN ~Lists(t, d) ELSE Lists(t, d)
  BY DeviceFound DEF Proper, Rich, Lists
<1> HIDE DEF x, i
<1>3. Answered(t, pl, u, fs, X) /\ Handles(x, t, u)
  <2>1. CASE i # 0
    <3>1. u = t /\ Lists(t, d)
      BY <1>2, <2>1 DEF i
    <3>2. Handles(x, t, t)
      BY <1>1, <3>1 DEF Handles
    <3> QED
      BY <3>1, <3>2, SameAnswered
  <2>2. CASE i = 0
    <3>1. u = ReinsertDeviceList(AddToList(t, d)) /\ ~Lists(t, d)
      BY <1>2, <2>2 DEF i
    <3>2. /\ Answered(t, pl, u, fs, X)
          /\ \A e : Lists(u, e) <=> Lists(t, e) \/ e = d
          /\ \A e, v : ListsVolume(u, e, v) <=> ListsVolume(t, e, v)
      BY <3>1, AddedAnswered
    <3>3. Handles(x, t, u)
      BY <1>1, <3>2 DEF Handles
    <3> QED
      BY <3>2, <3>3
  <2> QED
    BY <2>1, <2>2
<1>4. AnswersSignal(x, t, pl, u, fs, X)
  BY <1>1, <1>3 DEF AnswersSignal
<1> QED
  BY <1>4 DEF x

(* DeviceRemoved *)
LEMMA DeviceRemovedAnswers ==
    ASSUME NEW t, NEW pl, NEW fs, NEW X, Proper(t, pl, fs, X), t.inv = <<>>, NEW d \in Devices,
           NEW u, u = IF DeviceById(t, d) = 0 THEN t
                      ELSE ReinsertDeviceList(RemoveFromList(t, DeviceById(t, d)))
    PROVE  AnswersSignal(DeviceRemoved(d), t, pl, u, fs, X)
<1> DEFINE x == DeviceRemoved(d)
           i == DeviceById(t, d)
           Y == X \ {d}
<1>1. /\ \A e : x = DeviceRemoved(e) <=> e = d
      /\ \A e : x # NewUSBDevice(e)
      /\ \A e, v : x # NewVolume(e, v)
  <2>1. \A e : x = DeviceRemoved(e) => e = d
    BY SignalKinds
  <2>2. \A e : NewUSBDevice(e) # x
    BY SignalKinds
  <2>3. \A e, v : NewVolume(e, v) # x
    BY SignalKinds
  <2> QED
    BY <2>1, <2>2, <2>3
<1>2. IF i = 0 THEN ~Lists(t, d) ELSE i \in DOMAIN DeviceItems(t) /\ DeviceItems(t)[i].dev = d
  BY DeviceFound DEF Proper, Rich
<1>3. \A e \in Y : e \in X /\ x # DeviceRemoved(e)
  BY <1>1
<1> HIDE DEF x, i
<1>4. Answered(t, pl, u, fs, Y) /\ Handles(x, t, u)
  <2>1. CASE i # 0
    <3>1. /\ u = ReinsertDeviceList(RemoveFromList(t, i))
          /\ i \in DOMAIN DeviceItems(t) /\ DeviceItems(t)[i].dev = d
      BY <1>2, <2>1 DEF i
    <3>2. Answered(t, pl, u, fs, Y) /\ RemovedDevice(t, u, d)
      BY <3>1, RemovedAnswered
    <3>3. Handles(x, t, u)
      BY <1>1, <3>2 DEF Handles, RemovedDevice
    <3> QED
      BY <3>2, <3>3
  <2>2. CASE i = 0
    <3>1. u = t /\ ~Lists(t, d)
      BY <1>2, <2>2 DEF i
    <3>2. \A v : ~ListsVolume(t, d, v)
      BY <3>1 DEF Lists, ListsVolume
    <3>3. Handles(x, t, t)
      BY <1>1, <3>1, <3>2 DEF Handles
    <3>4. \A e \in Devices : Lists(t, e) /\ e \notin Y => e \notin X /\ fs[e].content = fs[e].content
      BY <3>1
    <3> HIDE DEF Y
    <3>5. Proper(t, pl, fs, Y)
      BY <3>4, MediaChanged
    <3> QED
      BY <3>1, <3>3, <3>5, SameAnswered
  <2> QED
    BY <2>1, <2>2
<1> HIDE DEF Y
<1>5. AnswersSignal(x, t, pl, u, fs, X)
  BY <1>3, <1>4 DEF AnswersSignal
<1> QED
  BY <1>5 DEF x

(* NewVolume *)
LEMMA NewVolumeAnswers ==
    ASSUME NEW t, NEW pl, NEW fs, NEW X, Proper(t, pl, fs, X), t.inv = <<>>,
           NEW d \in Devices, NEW v \in Nat, NEW i, i = DeviceById(t, d),
           NEW u, u = IF i = 0 THEN t
                      ELSE IF HasVolume(DeviceItems(t)[i].vols, v) THEN t
                      ELSE ReinsertVolumeList(AddVolume(t, i, v), i, v)
    PROVE  AnswersSignal(NewVolume(d, v), t, pl, u, fs, X)
<1> DEFINE x == NewVolume(d, v)
<1>1. /\ \A e : x # DeviceRemoved(e)
      /\ \A e : x # NewUSBDevice(e)
      /\ \A e, w : x = NewVolume(e, w) <=> e = d /\ w = v
  <2>1. \A e : NewUSBDevice(e) # x
    BY SignalKinds
  <2>2. \A e : x # DeviceRemoved(e)
    BY SignalKinds
  <2>3. \A e, w : x = NewVolume(e, w) => e = d /\ w = v
    BY SignalKinds
  <2> QED
    BY <2>1, <2>2, <2>3
<1>2. IF i = 0 THEN ~Lists(t, d) ELSE i \in DOMAIN DeviceItems(t) /\ DeviceItems(t)[i].dev = d
  BY DeviceFound DEF Proper, Rich
<1> HIDE DEF x
<1>3. Answered(t, pl, u, fs, X) /\ Handles(x, t, u)
  <2>1. CASE i = 0
    <3>1. u = t /\ ~Lists(t, d)
      BY <1>2, <2>1
    <3>2. Handles(x, t, t)
      BY <1>1, <3>1 DEF Handles
    <3> QED
      BY <3>1, <3>2, SameAnswered
  <2>2. CASE i # 0 /\ HasVolume(DeviceItems(t)[i].vols, v)
    <3>1. u = t /\ ListsVolume(t, d, v)
      BY <1>2, <2>2 DEF ListsVolume
    <3>2. Handles(x, t, t)
      BY <1>1, <3>1 DEF Handles
    <3> QED
      BY <3>1, <3>2, SameAnswered
  <2>3. CASE i # 0 /\ ~HasVolume(DeviceItems(t)[i].vols, v)
    <3>1. u = ReinsertVolumeList(AddVolume(t, i, v), i, v)
      BY <2>3
    <3>2. Answered(t, pl, u, fs, X) /\ VolumeKnown(t, u, d, v)
      BY <1>2, <2>3, <3>1, VolumeAnswered
    <3>3. Lists(t, d)
      BY <1>2, <2>3 DEF Lists
    <3>4. Handles(x, t, u)
      BY <1>1, <3>2, <3>3 DEF Handles, VolumeKnown
    <3> QED
      BY <3>2, <3>4
  <2> QED
    BY <2>1, <2>2, <2>3
<1>4. AnswersSignal(x, t, pl, u, fs, X)
  BY <1>1, <1>3 DEF AnswersSignal
<1> QED
  BY <1>4 DEF x

(* The broker handles a signal of the mount daemon. *)
LEMMA ViewDispatch == ASSUME ViewInv, StateInv', Dispatch PROVE ViewInv'
<1> DEFINE s == Head(signals)
           X == Unsure(signals, phase)
<1>1. PICK pl : Proper(tree, pl, mounta, X) /\ ViewRight(tree, pl, view)
  BY DEF ViewInv, RightFor
<1>2. MountsInv /\ tree.inv = <<>>
  BY DEF ViewInv, StateInv, BrokerInv
<1> HIDE DEF X
<1>3. CASE HandleNewUSBDevice
  <2>1. Delivered("NewUSBDevice")
    BY <1>3 DEF HandleNewUSBDevice
  <2>2. s \in SignalSet /\ s.name = "NewUSBDevice" /\ s.dev \in Devices
    BY <1>2, <2>1, DeliveredSignal
  <2>3. s = NewUSBDevice(s.dev)
    BY <2>2 DEF SignalSet, NewUSBDevice
  <2> DEFINE d == s.dev
             u == IF DeviceById(tree, d) # 0 THEN tree ELSE ReinsertDeviceList(AddToList(tree, d))
  <2>4. Becomes(u)
    BY <1>3 DEF HandleNewUSBDevice
  <2>5. AnswersSignal(NewUSBDevice(d), tree, pl, u, mounta, X)
    <3> HIDE DEF d
    <3>1. d \in Devices
      BY <2>2 DEF d
    <3> QED
      BY <1>1, <1>2, <3>1, NewDeviceAnswers
  <2> HIDE DEF u
  <2> QED
    BY <1>1, <2>1, <2>3, <2>4, <2>5, HandledStep DEF X
<1>4. CASE HandleDeviceRemoved
  <2>1. Delivered("DeviceRemoved")
    BY <1>4 DEF HandleDeviceRemoved
  <2>2. s \in SignalSet /\ s.name = "DeviceRemoved" /\ s.dev \in Devices
    BY <1>2, <2>1, DeliveredSignal
  <2>3. s = DeviceRemoved(s.dev)
    BY <2>2 DEF SignalSet, DeviceRemoved
  <2> DEFINE d == s.dev
             u == IF DeviceById(tree, d) = 0 THEN tree
                  ELSE ReinsertDeviceList(RemoveFromList(tree, DeviceById(tree, d)))
  <2>4. Becomes(u)
    BY <1>4 DEF HandleDeviceRemoved
  <2>5. AnswersSignal(DeviceRemoved(d), tree, pl, u, mounta, X)
    <3> HIDE DEF d
    <3>1. d \in Devices
      BY <2>2 DEF d
    <3> QED
      BY <1>1, <1>2, <3>1, DeviceRemovedAnswers
  <2> HIDE DEF u
  <2> QED
    BY <1>1, <2>1, <2>3, <2>4, <2>5, HandledStep DEF X
<1>5. CASE HandleNewVolume
  <2>1. Delivered("NewVolume")
    BY <1>5 DEF HandleNewVolume
  <2>2. s \in SignalSet /\ s.name = "NewVolume" /\ s.dev \in Devices /\ s.vol \in Nat
    BY <1>2, <2>1, DeliveredSignal
  <2>3. s = NewVolume(s.dev, s.vol)
    BY <2>2 DEF SignalSet, NewVolume
  <2> DEFINE d == s.dev
             v == s.vol
             i == DeviceById(tree, d)
             u == IF i = 0 THEN tree
                  ELSE IF HasVolume(DeviceItems(tree)[i].vols, v) THEN tree
                  ELSE ReinsertVolumeList(AddVolume(tree, i, v), i, v)
  <2>4. Becomes(u)
    BY <1>5 DEF HandleNewVolume, Items, DeviceItems
  <2>5. AnswersSignal(NewVolume(d, v), tree, pl, u, mounta, X)
    <3>1. d \in Devices /\ v \in Nat /\ i = DeviceById(tree, d)
      BY <2>2
    <3> HIDE DEF d, v, i
    <3> QED
      BY <1>1, <1>2, <3>1, NewVolumeAnswers
  <2> HIDE DEF u
  <2> QED
    BY <1>1, <2>1, <2>3, <2>4, <2>5, HandledStep DEF X
<1> QED
  BY <1>3, <1>4, <1>5 DEF Dispatch

-----------------------------------------------------------------------------
(* Clients browse. *)

(* What a client knows stays right in a tree that has grown. *)
LEMMA GrownView ==
    ASSUME NEW t, NEW pl, NEW u, NEW pl2, Grown(t, pl, u, pl2), NEW w, ViewRight(t, pl, w)
    PROVE  ViewRight(u, pl2, w)
<1>1. DOMAIN w \subseteq Reached(t) /\ w = ViewOf(t, pl, DOMAIN w)
  BY DEF ViewRight
<1>2. \A k \in DOMAIN w : Kept(t, pl, u, pl2, k, k)
  BY <1>1 DEF Grown, Kept
<1>3. ViewOf(t, pl, DOMAIN w) = ViewOf(u, pl2, DOMAIN w) /\ DOMAIN w \subseteq Reached(u)
  BY <1>1, <1>2, ViewKept
<1> QED
  BY <1>1, <1>3 DEF ViewRight

(* The devices and volumes are the same. *)
LEMMA GrownKnown ==
    ASSUME NEW t, NEW pl, NEW u, NEW pl2, Grown(t, pl, u, pl2) PROVE SameKnown(t, u)
  BY DEF Grown, SameKnown, Lists, ListsVolume

(* A client gets to know another list. *)
LEMMA PutRight ==
    ASSUME NEW u, NEW pl, NEW w, ViewRight(u, pl, w), NEW n \in Reached(u), NEW x, x = pl[n]
    PROVE  ViewRight(u, pl, Put(w, n, Sees(u, n, x)))
<1> DEFINE w2 == Put(w, n, Sees(u, n, x))
           Row(k) == [place |-> pl[k], shown |-> Shown(u, k)]
<1>1. /\ DOMAIN w \subseteq Reached(u) /\ w = [l \in DOMAIN w |-> Row(l)]
  BY DEF ViewRight, ViewOf
<1>2. Sees(u, n, x) = Row(n)
  BY DEF Sees
<1> HIDE DEF Row
<1>3. \A l \in DOMAIN w : w[l] = Row(l)
  BY <1>1
<1>4. DOMAIN w2 = DOMAIN w \cup {n} /\ w2 = [l \in DOMAIN w \cup {n} |-> Row(l)]
  BY <1>2, <1>3 DEF Put
<1> HIDE DEF w2
<1> QED
  BY <1>1, <1>4 DEF ViewRight, ViewOf, Row, w2

(* A client browses, and the broker lists what it did. *)
LEMMA BrowsedInv ==
    ASSUME ViewInv, StateInv', Running, UNCHANGED <<mounta, signals, phase>>, SameKnown(tree, tree'),
           tree'.inv = <<>>, RightFor(tree', mounta, Unsure(signals, phase), view')
    PROVE  ViewInv'
<1>1. KnownDevices(tree') = KnownDevices(tree)
  BY DEF KnownDevices, SameKnown
<1>2. KnownVolumes(tree') = KnownVolumes(tree)
  BY DEF KnownVolumes, SameKnown
<1>3. Running' /\ phase' = phase /\ mounta' = mounta /\ signals' = signals
  BY DEF Running
<1>4. phase' # "unsynced" => Synced(tree', mounta', signals', Running')
  BY <1>1, <1>2, <1>3 DEF Synced, ViewInv
<1>5. RightFor(tree', mounta', Unsure(signals', phase'), view')
  BY <1>3
<1> QED
  BY <1>3, <1>4, <1>5 DEF ViewInv, Running

(* GetListId *)
LEMMA EnteredRight ==
    ASSUME ViewInv, NEW l, NEW i,
           l = NoId \/ l \in DOMAIN view, Running, Entered(l, i, EnterChild(tree, mounta, l, i))
    PROVE  /\ SameKnown(tree, tree') /\ tree'.inv = <<>>
           /\ RightFor(tree', mounta, Unsure(signals, phase), view')
<1> DEFINE e == EnterChild(tree, mounta, l, i)
           X == Unsure(signals, phase)
<1>1. MountsType(mounta) /\ TreeInv(tree) /\ TreeType(tree) /\ tree.inv = <<>> /\ Sound(tree)
  BY DEF ViewInv, StateInv, BrokerInv, TreeInv, Sound, MountsInv, MountsType
<1>2. PICK pl : Proper(tree, pl, mounta, X) /\ ViewRight(tree, pl, view)
  BY DEF ViewInv, RightFor
<1>3. WithinBound(e.t) /\ tree' = e.t
  BY DEF Entered
<1>4. TreeType(e.t)
  BY <1>1, EnterChildInv DEF TreeInv
<1>5. ~Full(e.t)
  <2> HIDE DEF e
  <2> QED
    BY <1>3, <1>4, BoundedHasIds
<1>6. ~Full(tree)
  BY <1>1, <1>5, StaysFull
<1>7. PICK pl2 : /\ Proper(e.t, pl2, mounta, X)
                 /\ Grown(tree, pl, e.t, pl2)
                 /\ e.id # NoId => /\ l \in Reached(tree)
                                   /\ i \in DOMAIN tree.lists[l].items
                                   /\ Entering(tree, pl, l, i, e.t, pl2, e.id)
  <2> HIDE DEF X
  <2> QED
    BY <1>1, <1>2, <1>5, <1>6, EnterChildGrows
<1>8. ViewRight(e.t, pl2, view) /\ SameKnown(tree, e.t) /\ e.t.inv = <<>>
  <2> HIDE DEF e
  <2> QED
    BY <1>1, <1>2, <1>7, GrownView, GrownKnown DEF Grown
<1>9. \E pl3 : Proper(e.t, pl3, mounta, X) /\ ViewRight(e.t, pl3, view')
  <2>1. CASE ~Cached(tree, l)
    <3>1. e.t = tree /\ view' = Put(view, tree.root, Sees(tree, tree.root, <<>>))
      BY <2>1 DEF Entered, EnterChild, Entry
    <3>2. tree.root \in Reached(tree)
      BY <1>1, RootReached
    <3>3. pl[tree.root] = <<>>
      BY <1>2 DEF Proper, Rich, Shaped, Placed
    <3>4. ViewRight(tree, pl, view')
      BY <1>2, <3>1, <3>2, <3>3, PutRight
    <3> QED
      BY <1>2, <3>1, <3>4
  <2>2. CASE Cached(tree, l) /\ e.id = NoId
    <3>1. view' = view
      BY <2>2 DEF Entered
    <3> QED
      BY <1>7, <1>8, <3>1
  <2>3. CASE Cached(tree, l) /\ e.id # NoId
    <3>1. view' = Put(view, e.id, Sees(e.t, e.id, Item(l, i)))
      BY <2>3 DEF Entered
    <3>2. l \in DOMAIN view
      BY <1>1, <2>3 DEF Sound, IdsInUse, Cached
    <3>3. view[l] = [place |-> pl[l], shown |-> Shown(tree, l)]
      BY <1>2, <3>2 DEF ViewRight, ViewOf
    <3>4. Shown(tree, l)[i] = ShowsAt(tree, l, i)
      BY <1>7, <2>3 DEF Shown, Items, ShowsAt
    <3>5. Item(l, i) = Append(pl[l], ShowsAt(tree, l, i))
      BY <3>3, <3>4 DEF Item
    <3>6. e.id \in Reached(e.t) /\ pl2[e.id] = Item(l, i)
      BY <1>7, <2>3, <3>5, Zenon DEF Entering
    <3> HIDE DEF e
    <3>7. ViewRight(e.t, pl2, view')
      BY <1>8, <3>1, <3>6, PutRight
    <3> QED
      BY <1>7, <3>7
  <2> QED
    BY <2>1, <2>2, <2>3
<1> QED
  BY <1>3, <1>8, <1>9 DEF RightFor

(* RealizeLocation *)
LEMMA RealizedRight ==
    ASSUME ViewInv, NEW key \in Keys, Realized(RealizeLocation(tree, mounta, key))
    PROVE  /\ SameKnown(tree, tree') /\ tree'.inv = <<>>
           /\ RightFor(tree', mounta, Unsure(signals, phase), view')
<1> DEFINE w == RealizeLocation(tree, mounta, key)
           X == Unsure(signals, phase)
           S == {w.res.list, w.ref.list} \ {NoId}
<1>1. MountsType(mounta) /\ TreeInv(tree) /\ tree.inv = <<>>
  BY DEF ViewInv, StateInv, BrokerInv, TreeInv, Sound, MountsInv, MountsType
<1>2. PICK pl : Proper(tree, pl, mounta, X) /\ ViewRight(tree, pl, view)
  BY DEF ViewInv, RightFor
<1>3. WithinBound(w.t) /\ tree' = w.t
  BY DEF Realized
<1>4. WalkAhead(tree, pl, mounta, X, w)
  <2> HIDE DEF X
  <2> QED
    BY <1>1, <1>2, RealizeAhead
<1>5. view' = IF w.err # "OK" THEN view
              ELSE [l \in DOMAIN view \cup S |->
                      IF l \in DOMAIN view THEN view[l] ELSE Sees(w.t, l, Place(w.t, l))]
  BY DEF Realized
<1> HIDE DEF w, X
<1>6. TreeType(w.t)
  BY <1>4 DEF WalkAhead, WalkInv, TreeInv
<1>7. ~Full(w.t)
  BY <1>3, <1>6, BoundedHasIds
<1>8. PICK pl2 : /\ Proper(w.t, pl2, mounta, X) /\ Grown(tree, pl, w.t, pl2)
                 /\ S \subseteq Reached(w.t)
  BY <1>4, <1>7 DEF WalkAhead, Ahead, Known
<1>9. ViewRight(w.t, pl2, view) /\ SameKnown(tree, w.t) /\ w.t.inv = <<>>
  BY <1>1, <1>2, <1>8, GrownView, GrownKnown DEF Grown
<1>10. ViewRight(w.t, pl2, view')
  <2>1. CASE w.err # "OK"
    BY <1>5, <1>9, <2>1
  <2>2. CASE w.err = "OK"
    <3>1. Sound(w.t) /\ Placed(w.t, pl2) /\ StraysEmpty(w.t)
      BY <1>8 DEF Proper, Rich, Shaped
    <3> DEFINE Row(k) == [place |-> pl2[k], shown |-> Shown(w.t, k)]
    <3>2. DOMAIN view \subseteq Reached(w.t) /\ view = [l \in DOMAIN view |-> Row(l)]
      BY <1>9 DEF ViewRight, ViewOf
    <3>3. \A l \in S : Sees(w.t, l, Place(w.t, l)) = Row(l)
      BY <1>8, <3>1, PlaceRight DEF Sees
    <3> HIDE DEF Row, S
    <3>4. \A l \in DOMAIN view : view[l] = Row(l)
      BY <3>2
    <3>5. view' = [l \in DOMAIN view \cup S |-> Row(l)]
      BY <1>5, <2>2, <3>3, <3>4
    <3>6. DOMAIN view' = DOMAIN view \cup S
      BY <3>5
    <3> QED
      BY <1>8, <3>2, <3>5, <3>6 DEF ViewRight, ViewOf, Row
  <2> QED
    BY <2>1, <2>2
<1> QED
  BY <1>3, <1>8, <1>9, <1>10 DEF RightFor, X

(* A client browses, or a list is collected. *)
LEMMA ViewBrowses == ASSUME ViewInv, StateInv', Browses PROVE ViewInv'
<1>1. ASSUME NEW l, NEW i, l = NoId \/ l \in DOMAIN view, GetListID(l, i) PROVE ViewInv'
  <2>1. Running /\ Entered(l, i, EnterChild(tree, mounta, l, i)) /\ UNCHANGED <<mounta, signals, phase>>
    BY <1>1 DEF GetListID
  <2>2. /\ SameKnown(tree, tree') /\ tree'.inv = <<>>
        /\ RightFor(tree', mounta, Unsure(signals, phase), view')
    BY <1>1, <2>1, EnteredRight
  <2> QED
    BY <2>1, <2>2, BrowsedInv
<1>2. ASSUME NEW key \in Keys, Realize(key) PROVE ViewInv'
  <2>1. Running /\ Realized(RealizeLocation(tree, mounta, key)) /\ UNCHANGED <<mounta, signals, phase>>
    BY <1>2 DEF Realize
  <2>2. /\ SameKnown(tree, tree') /\ tree'.inv = <<>>
        /\ RightFor(tree', mounta, Unsure(signals, phase), view')
    BY <2>1, RealizedRight
  <2> QED
    BY <2>1, <2>2, BrowsedInv
<1>3. ASSUME NEW l \in DOMAIN tree.lists, Collect(l) PROVE ViewInv'
  <2> DEFINE u == Discard(tree, l)
             X == Unsure(signals, phase)
  <2>1. /\ Running /\ l # tree.root /\ IsLeaf(tree, l) /\ Becomes(u)
        /\ UNCHANGED <<mounta, signals, phase>>
    BY <1>3 DEF Collect
  <2>2. PICK pl : Proper(tree, pl, mounta, X) /\ ViewRight(tree, pl, view)
    BY DEF ViewInv, RightFor
  <2>3. tree.inv = <<>> /\ Sound(tree)
    BY DEF ViewInv, StateInv, BrokerInv
  <2> HIDE DEF X
  <2>4. Answered(tree, pl, u, mounta, X) /\ SameKnown(tree, u)
    BY <2>1, <2>2, <2>3, CollectAnswered DEF SameKnown
  <2> HIDE DEF u
  <2>5. RightFor(tree', mounta, X, view') /\ tree'.inv = <<>> /\ SameKnown(u, tree')
    BY <2>1, <2>2, <2>3, <2>4, BecomesRight
  <2>6. SameKnown(tree, tree')
    BY <2>4, <2>5 DEF SameKnown
  <2> USE DEF X
  <2> QED
    BY <2>1, <2>5, <2>6, BrowsedInv
<1> QED
  BY <1>1, <1>2, <1>3 DEF Browses

(* Every step keeps the invariant. *)
LEMMA ViewNext == ViewInv /\ [Next]_vars => ViewInv'
<1> SUFFICES ASSUME ViewInv, [Next]_vars PROVE ViewInv'
  OBVIOUS
<1>1. StateInv'
  BY NextInv DEF ViewInv
<1>2. CASE UNCHANGED vars
  BY <1>1, <1>2 DEF ViewInv, vars, Running
<1> QED
  BY <1>1, <1>2, ViewPlugs, ViewStarts, ViewDispatch, ViewBrowses DEF Next

-----------------------------------------------------------------------------
(* What the invariant says of clients *)

(* All that clients know is right. *)
LEMMA ViewIsRight == ViewInv => ClientView
<1> SUFFICES ASSUME ViewInv, NEW l \in DOMAIN view
             PROVE  /\ l \in Browsable
                    /\ Place(tree, l) = view[l].place
                    /\ Shown(tree, l) = view[l].shown
  BY DEF ClientView
<1>1. PICK pl : Proper(tree, pl, mounta, Unsure(signals, phase)) /\ ViewRight(tree, pl, view)
  BY DEF ViewInv, RightFor
<1>2. Sound(tree) /\ Placed(tree, pl) /\ StraysEmpty(tree)
  BY <1>1 DEF Proper, Rich, Shaped
<1>3. l \in Reached(tree) /\ view[l] = [place |-> pl[l], shown |-> Shown(tree, l)]
  BY <1>1 DEF ViewRight, ViewOf
<1>4. Browsable = Reached(tree)
  BY <1>2, BrowsableReached
<1>5. Place(tree, l) = pl[l]
  BY <1>2, <1>3, PlaceRight
<1> QED
  BY <1>3, <1>4, <1>5

(***************************************************************************)
(* Clients of the USB broker that follow ListInvalidate know only IDs of   *)
(* lists that are there and can be browsed, each at the place and with the *)
(* items that it had when the client got its ID, whatever is plugged in,   *)
(* mounted and pulled, collected and realized, and however often the       *)
(* generator has wrapped around and IDs have been reused                   *)
(* (reinsert_list() and purge_subtree() report every change).              *)
(***************************************************************************)
THEOREM ClientsKnowTheLists == Spec => []ClientView
<1>1. Init => ViewInv
  BY ViewInit
<1>2. ViewInv /\ [Next]_vars => ViewInv'
  BY ViewNext
<1>3. ViewInv => ClientView
  BY ViewIsRight
<1> QED
  BY <1>1, <1>2, <1>3, PTL DEF Spec

-----------------------------------------------------------------------------
(* What it says of the devices and volumes *)

(* All that has happened is known when no signal is on its way. *)
LEMMA AllIsKnown ==
    ASSUME ViewInv, phase = "running", signals = <<>>
    PROVE  /\ \A d \in Devices : Lists(tree, d) <=> mounta[d].present
           /\ \A d \in Devices, v \in Nat : ListsVolume(tree, d, v) <=> v \in mounta[d].vols
           /\ Unsure(signals, phase) = {}
<1> DEFINE P == PresentOn(mounta)
           M == MountedOn(mounta)
           K == KnownDevices(tree)
           W == KnownVolumes(tree)
<1>1. InTouch(<<>>, P, M, K, W, K, W)
  BY DEF ViewInv, Synced, Running
<1>2. DOMAIN <<>> = {} /\ Len(<<>>) = 0 /\ 1..0 = {}
  OBVIOUS
<1>3. \A d, k : ~GoneIn(<<>>, d, k)
  BY <1>2 DEF GoneIn
<1>4. \A d \in P : d \in K
  BY <1>1, <1>2 DEF InTouch, Expected
<1>5. \A d \in K : d \in P
  BY <1>1, <1>3 DEF InTouch
<1>6. \A d \in Devices, v \in Nat : <<d, v>> \in M => <<d, v>> \in W
  BY <1>1, <1>2 DEF InTouch, ExpectedVolume
<1>7. \A d \in Devices, v \in Nat : <<d, v>> \in W => <<d, v>> \in M
  BY <1>1, <1>3 DEF InTouch
<1>8. \A d \in Devices : Lists(tree, d) <=> mounta[d].present
  BY <1>4, <1>5 DEF PresentOn, KnownDevices
<1>9. ASSUME NEW d \in Devices, NEW v \in Nat
      PROVE  ListsVolume(tree, d, v) <=> v \in mounta[d].vols
  <2>1. <<d, v>> \in W <=> ListsVolume(tree, d, v)
    BY DEF KnownVolumes
  <2>2. <<d, v>> \in M <=> v \in mounta[d].vols
    BY DEF MountedOn
  <2> QED
    BY <1>6, <1>7, <2>1, <2>2
<1>10. Unsure(signals, phase) = {}
  BY <1>3 DEF Unsure
<1> QED
  BY <1>8, <1>9, <1>10

(* The devices that are listed are those that are present, each once. *)
LEMMA DevicesInStep ==
    ASSUME NEW t, Sound(t), Listed(t), \A d \in Devices : Lists(t, d) <=> mounta[d].present
    PROVE  /\ {DeviceItems(t)[i].dev : i \in DOMAIN DeviceItems(t)} = Present
           /\ Len(DeviceItems(t)) = Cardinality(Present)
<1> DEFINE items == DeviceItems(t)
           n == Len(items)
           f == [i \in 1..n |-> items[i].dev]
<1>1. items \in Seq(DeviceItemSet) /\ n \in Nat /\ DOMAIN items = 1..n
  BY DeviceItemsType
<1>2. \A i \in 1..n : items[i].dev \in Devices
  <2>1. \A i \in 1..n : items[i] \in DeviceItemSet
    <3> DEFINE T == DeviceItemSet
    <3>1. items \in Seq(T) /\ n = Len(items)
      BY <1>1
    <3> HIDE DEF items, n, T
    <3>2. \A i \in 1..n : items[i] \in T
      BY <3>1, ElementOfSeq
    <3> QED
      BY <3>2 DEF T
  <2> QED
    BY <2>1 DEF DeviceItemSet
<1>3. {items[i].dev : i \in DOMAIN items} = Present
  BY <1>1, <1>2 DEF Present, Lists
<1>4. \A i, j \in 1..n : items[i].dev = items[j].dev => i = j
  BY <1>1 DEF Listed
<1> HIDE DEF n, items
<1>5. f \in Bijection(1..n, Present)
  <2>1. f \in [1..n -> Present]
    BY <1>1, <1>3
  <2>2. \A i, j \in 1..n : f[i] = f[j] => i = j
    BY <1>4
  <2>3. \A d \in Present : \E i \in 1..n : f[i] = d
    BY <1>1, <1>3
  <2> HIDE DEF f
  <2> QED
    BY <2>1, <2>2, <2>3 DEF Bijection, Injection, Surjection, IsInjective
<1>6. IsFiniteSet(1..n) /\ Cardinality(1..n) = n
  BY <1>1, FS_Interval
<1>7. Cardinality(Present) = n
  BY <1>5, <1>6, FS_Bijection DEF ExistsBijection
<1> QED
  BY <1>3, <1>7 DEF items, n

(* The volumes of a device are listed by number. *)
LEMMA VolumesInStep ==
    ASSUME NEW t, Sound(t), Listed(t), MountsInv,
           \A d \in Devices, v \in Nat : ListsVolume(t, d, v) <=> v \in mounta[d].vols,
           NEW i \in DOMAIN DeviceItems(t)
    PROVE  InOrder(DeviceItems(t)[i].vols, mounta[DeviceItems(t)[i].dev].vols)
<1> DEFINE item == DeviceItems(t)[i]
           d == item.dev
<1>1. item \in DeviceItemSet
  BY DeviceItemsType
<1>2. d \in Devices /\ item.vols \in Seq(Nat)
  BY <1>1 DEF DeviceItemSet
<1>3. mounta[d].vols \subseteq Nat
  BY <1>2 DEF MountsInv, MountSet
<1>4. \A v : ListsVolume(t, d, v) <=> v \in ToSet(item.vols)
  BY DEF ListsVolume, HasVolume, Listed
<1>5. \A v \in ToSet(item.vols) : v \in Nat
  <2> HIDE DEF item
  <2> QED
    BY <1>2 DEF ToSet
<1>6. ToSet(item.vols) = mounta[d].vols
  <2> HIDE DEF d, item
  <2>1. \A v : v \in ToSet(item.vols) <=> v \in mounta[d].vols
    BY <1>2, <1>3, <1>4, <1>5
  <2> QED
    BY <2>1
<1>7. \A j, k \in DOMAIN item.vols : j < k => item.vols[j] < item.vols[k]
  BY DEF Listed, Increasing
<1> QED
  BY <1>6, <1>7 DEF InOrder

(* So are those in a list of volumes that has been entered. *)
LEMMA VolumeListShows ==
    ASSUME NEW t, NEW pl, Rich(t, pl), NEW l \in Reached(t), Rank(pl, l) = 1
    PROVE  \E i \in DOMAIN DeviceItems(t) : /\ DeviceItems(t)[i].dev = pl[l][1]
                                            /\ Shown(t, l) = DeviceItems(t)[i].vols
<1>1. Sound(t) /\ Matched(t) /\ Shaped(t, pl) /\ Placed(t, pl) /\ StraysEmpty(t) /\ VolumesListed(t)
  BY DEF Rich, Shaped
<1>2. l # t.root /\ t.lists[l].kind = "volumes" /\ l \in DOMAIN t.lists
  BY <1>1, KindByRank DEF Reached
<1> DEFINE p == t.lists[l].parent
           i == ItemByChild(t, p, l)
<1>3. p # NoId /\ p \in Reached(t) /\ i \in DOMAIN t.lists[p].items /\ t.lists[p].items[i].child = l
  BY <1>1, <1>2, LinkUp
<1>4. p = t.root
  BY <1>1, <1>2, <1>3 DEF Sound, ParentsRight, Reached
<1>5. l # NoId
  BY <1>1, <1>2 DEF Sound, IdsInUse
<1> HIDE DEF p, i
<1>6. i \in DOMAIN DeviceItems(t) /\ DeviceItems(t)[i].child = l
  BY <1>3, <1>4 DEF DeviceItems
<1>7. DeviceItems(t)[i].dev = pl[l][1]
  BY <1>1, <1>5, <1>6, VolumesPlace
<1>8. DOMAIN t.lists[l].items = DOMAIN DeviceItems(t)[i].vols
  BY <1>1, <1>5, <1>6 DEF Matched, DeviceItems
<1>9. \A n \in DOMAIN t.lists[l].items : t.lists[l].items[n].vol = DeviceItems(t)[i].vols[n]
  BY <1>1, <1>5, <1>6 DEF VolumesListed
<1>10. Shown(t, l) = [n \in DOMAIN t.lists[l].items |-> t.lists[l].items[n].vol]
  BY <1>2 DEF Shown, Shows, Items, Cached
<1>11. DeviceItems(t)[i].vols \in Seq(Nat)
  <2>1. DeviceItems(t)[i] \in DeviceItemSet
    BY <1>1, <1>6, DeviceItemsType
  <2> QED
    BY <2>1 DEF DeviceItemSet
<1> DEFINE vols == DeviceItems(t)[i].vols
<1>12. vols = [n \in DOMAIN vols |-> vols[n]]
  <2> HIDE DEF vols
  <2> QED
    BY <1>11 DEF vols
<1>13. Shown(t, l) = vols
  <2> HIDE DEF vols
  <2> QED
    BY <1>8, <1>9, <1>10, <1>12 DEF vols
<1> QED
  BY <1>6, <1>7, <1>13

(* With no signal on its way, the broker is in step. *)
LEMMA InStepNow == ViewInv => InStep
<1> SUFFICES ASSUME ViewInv, phase = "running", signals = <<>>
             PROVE  LET devices == Items(tree, tree.root)
                    IN /\ {devices[i].dev : i \in DOMAIN devices} = Present
                       /\ Len(devices) = Cardinality(Present)
                       /\ \A i \in DOMAIN devices :
                             InOrder(devices[i].vols, mounta[devices[i].dev].vols)
                       /\ \A l \in Browsable \ {tree.root} :
                             LET place == Place(tree, l)
                                 fs == mounta[place[1]]
                             IN IF Len(place) = 1 THEN InOrder(Shown(tree, l), fs.vols)
                                ELSE Arranged(Contents[fs.content][Tail(place)], Items(tree, l))
  BY DEF InStep
<1>1. /\ \A d \in Devices : Lists(tree, d) <=> mounta[d].present
      /\ \A d \in Devices, v \in Nat : ListsVolume(tree, d, v) <=> v \in mounta[d].vols
      /\ Unsure(signals, phase) = {}
  BY AllIsKnown
<1>2. PICK pl : Proper(tree, pl, mounta, {})
  BY <1>1 DEF ViewInv, RightFor
<1>3. /\ Rich(tree, pl) /\ Stored(tree, pl, mounta, {}) /\ Sound(tree) /\ Listed(tree)
      /\ Placed(tree, pl) /\ StraysEmpty(tree) /\ MountsInv
  BY <1>2 DEF Proper, Rich, Shaped, ViewInv, StateInv, BrokerInv
<1>4. Items(tree, tree.root) = DeviceItems(tree)
  BY DEF Items, DeviceItems
<1>5. /\ {DeviceItems(tree)[i].dev : i \in DOMAIN DeviceItems(tree)} = Present
      /\ Len(DeviceItems(tree)) = Cardinality(Present)
  BY <1>1, <1>3, DevicesInStep
<1>6. \A i \in DOMAIN DeviceItems(tree) :
         InOrder(DeviceItems(tree)[i].vols, mounta[DeviceItems(tree)[i].dev].vols)
  BY <1>1, <1>3, VolumesInStep
<1>7. ASSUME NEW l \in Browsable \ {tree.root}
      PROVE  IF Len(Place(tree, l)) = 1
             THEN InOrder(Shown(tree, l), mounta[Place(tree, l)[1]].vols)
             ELSE Arranged(Contents[mounta[Place(tree, l)[1]].content][Tail(Place(tree, l))],
                           Items(tree, l))
  <2>1. l \in Reached(tree) /\ l # tree.root
    BY <1>3, BrowsableReached
  <2>2. Place(tree, l) = pl[l]
    BY <1>3, <2>1, PlaceRight
  <2>3. CASE Rank(pl, l) = 1
    <3>1. PICK i \in DOMAIN DeviceItems(tree) : /\ DeviceItems(tree)[i].dev = pl[l][1]
                                                /\ Shown(tree, l) = DeviceItems(tree)[i].vols
      BY <1>3, <2>1, <2>3, VolumeListShows
    <3>2. InOrder(Shown(tree, l), mounta[pl[l][1]].vols)
      BY <1>6, <3>1
    <3> QED
      BY <2>2, <2>3, <3>2 DEF Rank
  <2>4. CASE Rank(pl, l) # 1
    <3>1. Rank(pl, l) \in Nat /\ Rank(pl, l) # 0
      BY <1>3, <2>1, KindByRank
    <3>2. tree.lists[l].kind = "dir"
      BY <1>3, <2>1, <2>4, <3>1, KindByRank
    <3>3. InPlace(tree, pl, mounta, l)
      BY <1>3, <2>1, <3>2 DEF Stored
    <3> QED
      BY <2>2, <2>4, <3>3 DEF Rank, InPlace, Items
  <2> QED
    BY <2>3, <2>4
<1> QED
  BY <1>4, <1>5, <1>6, <1>7

(***************************************************************************)
(* The USB broker follows the mount daemon: once all signals are handled,  *)
(* and provided that GetAll() has succeeded at startup, the devices and    *)
(* their volumes are those that are mounted, each once and sorted, lists   *)
(* of volumes that have been entered earlier show the same, and the        *)
(* directories are as they are stored (signal_handler(),                   *)
(* DeviceManager::init_from_mounta() and reinsert_volume_list()).          *)
(***************************************************************************)
THEOREM BrokerInStep == Spec => []InStep
<1>1. Init => ViewInv
  BY ViewInit
<1>2. ViewInv /\ [Next]_vars => ViewInv'
  BY ViewNext
<1>3. ViewInv => InStep
  BY InStepNow
<1> QED
  BY <1>1, <1>2, <1>3, PTL DEF Spec

-----------------------------------------------------------------------------
(* Types and bounds *)

(* What the mount daemon and the queue of signals are bound to *)
BoundInv ==
    /\ \A d \in Devices : mounta[d].vols \subseteq Volumes(d)
    /\ Len(signals) <= MaxSignals

BoundViewInv == ViewInv /\ BoundInv

(* The bounds hold initially. *)
LEMMA BoundInit == Init => BoundInv
<1> SUFFICES ASSUME Init PROVE BoundInv
  OBVIOUS
<1>1. \A d \in Devices : mounta[d].vols = {}
  BY DEF Init, Absent
<1>2. Len(signals) = 0 /\ 0 <= MaxSignals
  BY UsbBrokerAssumption DEF Init
<1> QED
  BY <1>1, <1>2 DEF BoundInv

(* One signal more is within the bound. *)
LEMMA SignalBound ==
    ASSUME MountsInv, BoundInv, NEW s \in SignalSet, Signal(s)
    PROVE  Len(signals') <= MaxSignals
<1>1. signals \in Seq(SignalSet)
  BY DEF MountsInv
<1> HIDE DEF SignalSet
<1>2. CASE phase = "setup"
  BY <1>2 DEF Signal, BoundInv
<1>3. CASE phase # "setup"
  <2>1. Len(signals) < MaxSignals /\ signals' = Append(signals, s)
    BY <1>3 DEF Signal
  <2>2. Len(signals') = Len(signals) + 1 /\ Len(signals) \in Nat
    BY <1>1, <2>1, AppendTo
  <2>3. MaxSignals \in Nat
    BY UsbBrokerAssumption
  <2> QED
    BY <2>1, <2>2, <2>3
<1> QED
  BY <1>2, <1>3

(* A change of what is mounted on one device keeps the volumes in range. *)
LEMMA VolumesBound ==
    ASSUME mounta \in [Devices -> MountSet], \A d \in Devices : mounta[d].vols \subseteq Volumes(d),
           NEW d \in Devices, NEW m, mounta' = [mounta EXCEPT ![d] = m], m.vols \subseteq Volumes(d)
    PROVE  \A e \in Devices : mounta'[e].vols \subseteq Volumes(e)
<1> TAKE e \in Devices
<1>1. mounta'[e] = IF e = d THEN m ELSE mounta[e]
  BY DEF MountSet
<1> QED
  BY <1>1

(* Every step keeps the bounds. *)
LEMMA BoundNext == ViewInv /\ BoundInv /\ [Next]_vars => BoundInv'
<1> SUFFICES ASSUME ViewInv, BoundInv, [Next]_vars PROVE BoundInv'
  OBVIOUS
<1>1. MountsInv /\ mounta \in [Devices -> MountSet] /\ signals \in Seq(SignalSet)
      /\ \A d \in Devices : mounta[d].vols \subseteq Volumes(d)
  BY DEF ViewInv, StateInv, BrokerInv, MountsInv, BoundInv
<1>2. ASSUME UNCHANGED <<mounta, signals>> PROVE BoundInv'
  BY <1>2 DEF BoundInv
<1>3. CASE Plugs
  <2>1. ASSUME NEW d \in Devices, NEW c \in DOMAIN Contents, Plug(d, c) PROVE BoundInv'
    <3> DEFINE m == [present |-> TRUE, vols |-> {}, content |-> c]
    <3>1. mounta' = [mounta EXCEPT ![d] = m] /\ Signal(NewUSBDevice(d)) /\ m.vols \subseteq Volumes(d)
      BY <2>1 DEF Plug
    <3>2. NewUSBDevice(d) \in SignalSet
      BY DEF NewUSBDevice, SignalSet
    <3> HIDE DEF m
    <3> QED
      BY <1>1, <3>1, <3>2, SignalBound, VolumesBound DEF BoundInv
  <2>2. ASSUME NEW d \in Devices, NEW v \in Volumes(d), Mount(d, v) PROVE BoundInv'
    <3> DEFINE m == [mounta[d] EXCEPT !.vols = @ \cup {v}]
    <3>1. mounta' = [mounta EXCEPT ![d] = m] /\ Signal(NewVolume(d, v))
      BY <2>2 DEF Mount
    <3>2. m.vols \subseteq Volumes(d)
      BY <1>1 DEF MountSet
    <3>3. NewVolume(d, v) \in SignalSet
      BY UsbBrokerAssumption DEF NewVolume, SignalSet
    <3> HIDE DEF m
    <3> QED
      BY <1>1, <3>1, <3>2, <3>3, SignalBound, VolumesBound DEF BoundInv
  <2>3. ASSUME NEW d \in Devices, Unplug(d) PROVE BoundInv'
    <3>1. /\ mounta' = [mounta EXCEPT ![d] = Absent] /\ Signal(DeviceRemoved(d))
          /\ Absent.vols \subseteq Volumes(d)
      BY <2>3 DEF Unplug, Absent
    <3>2. DeviceRemoved(d) \in SignalSet
      BY DEF DeviceRemoved, SignalSet
    <3> QED
      BY <1>1, <3>1, <3>2, SignalBound, VolumesBound DEF BoundInv
  <2> QED
    BY <1>3, <2>1, <2>2, <2>3 DEF Plugs
<1>4. CASE Starts
  BY <1>2, <1>4 DEF Starts, Subscribe, PreMainLoop, PreMainLoopFails
<1>5. CASE Dispatch
  <2>1. signals # <<>> /\ signals' = Tail(signals) /\ UNCHANGED mounta
    BY <1>5 DEF Dispatch, HandleNewUSBDevice, HandleDeviceRemoved, HandleNewVolume, Delivered
  <2>2. Len(signals') = Len(signals) - 1 /\ Len(signals) \in Nat
    <3> HIDE DEF SignalSet
    <3> QED
      BY <1>1, <2>1, HandledIs DEF Handled
  <2>3. MaxSignals \in Nat
    BY UsbBrokerAssumption
  <2> QED
    BY <2>1, <2>2, <2>3 DEF BoundInv
<1>6. CASE Browses
  BY <1>2, <1>6 DEF Browses, GetListID, Realize, Collect
<1>7. CASE UNCHANGED vars
  BY <1>2, <1>7 DEF vars
<1> QED
  BY <1>3, <1>4, <1>5, <1>6, <1>7 DEF Next

(* The invariant and the bounds give the types. *)
LEMMA TypesAreRight == BoundViewInv => TypeOK
<1> SUFFICES ASSUME ViewInv, BoundInv PROVE TypeOK
  BY DEF BoundViewInv
<1>1. /\ Sound(tree) /\ TreeType(tree) /\ MountsInv
      /\ \A d \in Devices : mounta[d].vols \subseteq Volumes(d)
      /\ phase \in {"setup", "subscribed", "running", "unsynced"}
      /\ Len(signals) <= MaxSignals
  BY DEF ViewInv, StateInv, BrokerInv, Sound, BoundInv
<1>2. mounta \in [Devices -> [present : BOOLEAN, vols : SUBSET UNION {Volumes(d) : d \in Devices},
                              content : DOMAIN Contents]]
  <2> DEFINE M == [present : BOOLEAN, vols : SUBSET UNION {Volumes(d) : d \in Devices},
                   content : DOMAIN Contents]
  <2>1. ASSUME NEW d \in Devices PROVE mounta[d] \in M
    <3>1. mounta[d] \in MountSet /\ mounta[d].vols \subseteq Volumes(d)
      BY <1>1 DEF MountsInv
    <3>2. mounta[d].vols \in SUBSET UNION {Volumes(e) : e \in Devices}
      BY <3>1
    <3> QED
      BY <3>1, <3>2 DEF MountSet
  <2> HIDE DEF M
  <2>2. mounta \in [Devices -> M]
    BY <1>1, <2>1 DEF MountsInv
  <2> QED
    BY <2>2 DEF M
<1>3. IdsAndNone = Ids \cup {NoId}
  BY MaxIdIsNat
<1>4. DOMAIN tree.lists \subseteq Ids /\ tree.root \in DOMAIN tree.lists /\ tree.next \in Ids
  BY <1>1, <1>3 DEF Sound, TreeType, IdsInUse, RootList
<1>5. DOMAIN view \subseteq Ids
  BY <1>4 DEF ViewInv, RightFor, ViewRight, Reached
<1>6. \A l \in DOMAIN tree.lists :
         tree.lists[l].kind \in {"devices", "volumes", "dir"} /\ tree.lists[l].parent \in Ids \cup {NoId}
  BY <1>1, <1>3 DEF TreeType, ListSet
<1> QED
  BY <1>1, <1>2, <1>4, <1>5, <1>6 DEF TypeOK

(***************************************************************************)
(* The USB broker's lists always have valid IDs, classes and parents, the  *)
(* list of devices is always in the cache, clients hold valid IDs, the     *)
(* mount daemon mounts only what there is, and the number of signals on    *)
(* their way keeps its bound.                                              *)
(***************************************************************************)
THEOREM BrokerTypes == Spec => []TypeOK
<1>1. Init => BoundViewInv
  BY ViewInit, BoundInit DEF BoundViewInv
<1>2. BoundViewInv /\ [Next]_vars => BoundViewInv'
  BY ViewNext, BoundNext DEF BoundViewInv
<1>3. BoundViewInv => TypeOK
  BY TypesAreRight
<1> QED
  BY <1>1, <1>2, <1>3, PTL DEF Spec

-----------------------------------------------------------------------------
(* The calls that read a list *)

(* How many elements SubSeq() gives *)
LEMMA SubSeqLength ==
    ASSUME NEW T, NEW s \in Seq(T), NEW first \in Nat, NEW end \in 0..Len(s)
    PROVE  Len(SubSeq(s, first + 1, end)) = IF first < end THEN end - first ELSE 0
<1>1. Len(s) \in Nat /\ end \in Nat
  OBVIOUS
<1>2. SubSeq(s, first + 1, end) = [k \in 1..(1 + end) - (first + 1) |-> s[k + (first + 1) - 1]]
  BY <1>1
<1>3. CASE first < end
  <2>1. (1 + end) - (first + 1) = end - first /\ end - first \in Nat
    BY <1>1, <1>3
  <2> QED
    BY <1>2, <1>3, <2>1
<1>4. CASE ~(first < end)
  <2>1. 1..(1 + end) - (first + 1) = {}
    BY <1>1, <1>4
  <2>2. SubSeq(s, first + 1, end) = <<>>
    BY <1>2, <2>1
  <2> QED
    BY <1>4, <2>2
<1> QED
  BY <1>3, <1>4

(* GetRange and GetRangeWithMetaData return what CheckRange counts. *)
LEMMA RangesAgree ==
    ASSUME NEW t, NEW l, Cached(t, l), NEW T, Items(t, l) \in Seq(T),
           NEW first \in Nat, NEW count \in Nat
    PROVE  /\ CheckRange(t, l, first, count) = Len(GetRange(t, l, first, count))
           /\ CheckRange(t, l, first, count) = Len(GetRangeWithMetaData(t, l, first, count))
<1> DEFINE n == Len(Items(t, l))
           end == IF count > 0 /\ first + count < n THEN first + count ELSE n
           rest == IF n >= first THEN n - first ELSE 0
           found == ForEachItem(t, l, first, count)
<1>1. n \in Nat
  OBVIOUS
<1>2. Size(t, l) = n
  BY DEF Size
<1>3. found = SubSeq(Items(t, l), first + 1, end)
  BY <1>2, Zenon DEF ForEachItem
<1>4. CheckRange(t, l, first, count) = IF count > 0 /\ rest > count THEN count ELSE rest
  BY <1>2, Zenon DEF CheckRange
<1>5. end \in 0..n
  <2> HIDE DEF n
  <2> QED
    BY <1>1
<1>6. Len(found) = IF first < end THEN end - first ELSE 0
  <2> HIDE DEF end, found
  <2> QED
    BY <1>3, <1>5, SubSeqLength
<1>7. Len(found) = CheckRange(t, l, first, count) /\ Len(found) \in Nat
  <2> HIDE DEF n, found
  <2> QED
    BY <1>1, <1>4, <1>6
<1>8. DOMAIN found = 1..Len(found)
  <2>1. SubSeq(Items(t, l), first + 1, end) \in Seq(T)
    <3> HIDE DEF end
    <3> DEFINE s == Items(t, l)
    <3>1. end \in 0..Len(s) /\ s \in Seq(T)
      BY <1>5
    <3> HIDE DEF s
    <3>2. end \in Int
      BY <3>1
    <3>3. \A k \in first + 1..end : s[k] \in T
      BY <3>1, ElementOfSeq
    <3>4. SubSeq(s, first + 1, end) \in Seq(T)
      BY <3>1, <3>2, <3>3
    <3> QED
      BY <3>4 DEF s
  <2> HIDE DEF end
  <2> QED
    BY <1>3, <2>1
<1> HIDE DEF found
<1>9. GetRange(t, l, first, count)
         = [k \in 1..Len(found) |-> [name |-> NameOf(t, l, first + k),
                                     dir  |-> IsDirectory(t, l, first + k)]]
  BY <1>8 DEF GetRange, found
<1>10. GetRangeWithMetaData(t, l, first, count)
         = [k \in 1..Len(found) |-> [title |-> NameOf(t, l, first + k),
                                     dir   |-> IsDirectory(t, l, first + k)]]
  BY <1>8 DEF GetRangeWithMetaData, found
<1>11. Len(GetRange(t, l, first, count)) = Len(found)
  BY <1>7, <1>9
<1>12. Len(GetRangeWithMetaData(t, l, first, count)) = Len(found)
  BY <1>7, <1>10
<1> QED
  BY <1>7, <1>11, <1>12

(* GetParentLink names the item that leads to the list. *)
LEMMA ParentLeadsBack ==
    ASSUME NEW t, NEW pl, NEW fs, Sound(t), Placed(t, pl), StraysEmpty(t), NEW l \in Reached(t), l # t.root
    PROVE  LET up == GetParentLink(t, l) IN EnterChild(t, fs, up.list, up.item).id = l
<1> DEFINE p == t.lists[l].parent
           i == ItemByChild(t, p, l)
<1>1. /\ ParentOf(t, l) = p /\ p # NoId /\ p \in Reached(t)
      /\ i \in DOMAIN t.lists[p].items /\ t.lists[p].items[i].child = l
  BY LinkUp
<1>2. p \in DOMAIN t.lists /\ l \in DOMAIN t.lists /\ l # NoId
  BY <1>1 DEF Reached, Sound, IdsInUse
<1>3. p # l
  <2>1. Len(pl[l]) = Len(pl[p]) + 1 /\ Len(pl[p]) \in Nat
    BY PlaceUp
  <2> QED
    BY <2>1
<1>4. i # 0
  <2>1. t.lists[p].items \in Seq(ItemSet)
    BY <1>2 DEF Sound, TreeType, ListSet
  <2> HIDE DEF p, i
  <2>2. i \in 1..Len(t.lists[p].items)
    BY <1>1, <2>1
  <2> QED
    BY <2>2
<1> HIDE DEF p
<1>5. ParentLink(t, l) = Link(p, i)
  BY <1>1, <1>2, <1>4 DEF ParentLink, Cached
<1> HIDE DEF i
<1>6. GetParentLink(t, l) = Link(p, i)
  BY <1>3, <1>5 DEF GetParentLink, Link
<1>7. EnterChild(t, fs, p, i).id = l
  BY <1>1, <1>2 DEF EnterChild, Cached, Items, Entry
<1> QED
  BY <1>6, <1>7 DEF Link

(* A sequence is its head and its tail. *)
LEMMA HeadAndTail ==
    ASSUME NEW T, NEW s \in Seq(T), s # <<>> PROVE <<s[1]>> \o Tail(s) = s
<1>1. Len(s) \in Nat \ {0} /\ s[1] \in T /\ Tail(s) \in Seq(T) /\ <<s[1]>> \in Seq(T)
  OBVIOUS
<1>2. <<s[1]>> \o Tail(s) \in Seq(T) /\ Len(<<s[1]>> \o Tail(s)) = Len(s)
  BY <1>1
<1>3. \A n \in 1..Len(s) : (<<s[1]>> \o Tail(s))[n] = s[n]
  BY <1>1
<1> QED
  BY <1>2, <1>3, SameSeq

(* The URI of a file is where it is; nothing else has one. *)
UriRight(t, l, i) ==
    GetURIs(t, l, i).uris = IF IsDirectory(t, l, i) THEN {}
                            ELSE {Append(Place(t, l), Items(t, l)[i].name)}

(* This is so for all items that clients may know. *)
LEMMA UriIsPlace ==
    ASSUME NEW t, NEW pl, Sound(t), Shaped(t, pl), NEW l \in Reached(t),
           KindOf(t, l) = t.lists[l].kind, NEW i \in DOMAIN Items(t, l)
    PROVE  UriRight(t, l, i)
<1>1. Placed(t, pl) /\ StraysEmpty(t) /\ KindItems(t) /\ l \in DOMAIN t.lists
  BY DEF Shaped, Reached
<1>2. GetURIs(t, l, i) = UrisForItem(t, l, i)
  BY <1>1 DEF GetURIs, Cached
<1>3. CASE t.lists[l].kind # "dir"
  BY <1>2, <1>3 DEF UrisForItem, IsDirectory, UriRight
<1>4. CASE t.lists[l].kind = "dir" /\ Items(t, l)[i].dir
  BY <1>2, <1>4 DEF UrisForItem, IsDirectory, UriRight
<1>5. CASE t.lists[l].kind = "dir" /\ ~Items(t, l)[i].dir
  <2> DEFINE d == DeviceOf(t, OnWay(t, l, i))
             path == FsPath(t, OnWay(t, l, i))
             x == Items(t, l)[i].name
  <2>1. l # t.root
    BY <1>5 DEF Sound, TreeType, RootList
  <2>2. ShowsAt(t, l, i) = x
    BY <1>5 DEF ShowsAt, Shows, Items
  <2>3. d = pl[l][1] /\ path = Tail(Append(pl[l], x))
    BY <1>1, <2>1, <2>2, PathRight DEF Items
  <2>4. x \in PlaceNames
    BY <1>1, <2>2, ShowsName DEF Items
  <2>5. pl[l] \in Seq(PlaceNames) /\ Len(pl[l]) \in Nat \ {0}
    <3>1. Rank(pl, l) \in Nat /\ Rank(pl, l) # 0
      BY <1>1, <2>1, KindByRank
    <3> QED
      BY <1>1, <3>1, PlaceLength DEF Rank
  <2> DEFINE s == Append(pl[l], x)
             S == PlaceNames
  <2>6. s \in Seq(S) /\ s # <<>> /\ s[1] = pl[l][1]
    <3> HIDE DEF x, S
    <3>1. x \in S /\ pl[l] \in Seq(S)
      BY <2>4, <2>5 DEF S
    <3> QED
      BY <2>5, <3>1
  <2>7. <<d>> \o path = s
    <3> HIDE DEF s, S, d, path
    <3>1. <<s[1]>> \o Tail(s) = s
      BY <2>6, HeadAndTail
    <3> QED
      BY <2>3, <2>6, <3>1 DEF s
  <2>8. Place(t, l) = pl[l]
    BY <1>1, PlaceRight
  <2>9. UrisForItem(t, l, i).uris = {<<d>> \o path}
    BY <1>5, Zenon DEF UrisForItem
  <2>10. ~IsDirectory(t, l, i)
    BY <1>5 DEF IsDirectory
  <2> QED
    BY <1>2, <2>7, <2>8, <2>9, <2>10, Zenon DEF UriRight
<1> QED
  BY <1>3, <1>4, <1>5

(* All calls agree. *)
LEMMA ReadsAgreeNow == ViewInv => ReadsAgree
<1> SUFFICES ASSUME ViewInv, NEW l \in Browsable
             PROVE  LET n == Len(Items(tree, l))
                        up == GetParentLink(tree, l)
                    IN /\ \A first \in 0..(n + 1), count \in 0..(n + 1) :
                             /\ CheckRange(tree, l, first, count) = Len(GetRange(tree, l, first, count))
                             /\ CheckRange(tree, l, first, count)
                                   = Len(GetRangeWithMetaData(tree, l, first, count))
                       /\ l # tree.root => EnterChild(tree, mounta, up.list, up.item).id = l
                       /\ \A i \in DOMAIN Items(tree, l) :
                             GetURIs(tree, l, i).uris =
                                IF IsDirectory(tree, l, i) THEN {}
                                ELSE {Append(Place(tree, l), Items(tree, l)[i].name)}
  BY DEF ReadsAgree
<1>1. PICK pl : Proper(tree, pl, mounta, Unsure(signals, phase))
  BY DEF ViewInv, RightFor
<1>2. Sound(tree) /\ Shaped(tree, pl) /\ Placed(tree, pl) /\ StraysEmpty(tree)
  BY <1>1 DEF Proper, Rich, Shaped
<1>3. l \in Reached(tree) /\ l \in DOMAIN tree.lists
  BY <1>2, BrowsableReached DEF Reached
<1>4. KindOf(tree, l) = tree.lists[l].kind
  BY SoundTree DEF ViewInv, TreeSound
<1>5. Cached(tree, l) /\ Items(tree, l) \in Seq(ItemSet)
  BY <1>2, <1>3 DEF Cached, Items, Sound, TreeType, ListSet
<1>6. ASSUME NEW first \in Nat, NEW count \in Nat
      PROVE  /\ CheckRange(tree, l, first, count) = Len(GetRange(tree, l, first, count))
             /\ CheckRange(tree, l, first, count) = Len(GetRangeWithMetaData(tree, l, first, count))
  <2> DEFINE T == ItemSet
  <2>1. Items(tree, l) \in Seq(T)
    BY <1>5
  <2> HIDE DEF T
  <2> QED
    BY <1>5, <2>1, RangesAgree
<1>7. \A k : \A first \in 0..k : first \in Nat
  OBVIOUS
<1>8. l # tree.root => LET up == GetParentLink(tree, l)
                       IN EnterChild(tree, mounta, up.list, up.item).id = l
  BY <1>2, <1>3, ParentLeadsBack
<1>9. ASSUME NEW i \in DOMAIN Items(tree, l)
      PROVE  GetURIs(tree, l, i).uris = IF IsDirectory(tree, l, i) THEN {}
                                        ELSE {Append(Place(tree, l), Items(tree, l)[i].name)}
  <2>1. UriRight(tree, l, i)
    BY <1>2, <1>3, <1>4, UriIsPlace
  <2> QED
    BY <2>1, Zenon DEF UriRight
<1> QED
  BY <1>6, <1>7, <1>8, <1>9

(***************************************************************************)
(* The calls that read the USB broker's lists agree with each other:       *)
(* CheckRange counts what GetRange and GetRangeWithMetaData return, the    *)
(* item that GetParentLink names leads back to the list, and the URI of a  *)
(* file is where the file is (size(), for_each_item(), get_parent_link()   *)
(* and get_uris_for_item() of the list tree).                              *)
(***************************************************************************)
THEOREM ReadsAlwaysAgree == Spec => []ReadsAgree
<1>1. Init => ViewInv
  BY ViewInit
<1>2. ViewInv /\ [Next]_vars => ViewInv'
  BY ViewNext
<1>3. ViewInv => ReadsAgree
  BY ReadsAgreeNow
<1> QED
  BY <1>1, <1>2, <1>3, PTL DEF Spec

=============================================================================
