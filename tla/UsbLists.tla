------------------------------ MODULE UsbLists ------------------------------
(***************************************************************************)
(* The lists of the USB broker: the list of devices, a list of volumes per *)
(* device, and the directories of the volumes (src/usb/usb_list.cc), how   *)
(* they are kept in the cache under IDs that change (src/common/lru.cc,    *)
(* src/common/listtree_manager.cc), and how a child list is entered        *)
(* (src/common/enterchild_template.hh).                                    *)
(*                                                                         *)
(* A tree t is a record; the operations are operators from tree to tree.   *)
(* Items are counted from 1 here, from 0 in the program.                   *)
(***************************************************************************)
EXTENDS Integers, FiniteSets, SequencesExt, Functions

CONSTANTS MaxId,      \* base_id_max_ of the ID generator; base_id_min_ is 1
          DevName,    \* DevName[d]: display name of device d
          Label,      \* Label[<<d, v>>]: display name of volume v of device d
          Contents    \* Contents[c]: what is stored on a device, a function
                      \* from <<volume>> \o path to a set of directory entries,
                      \* with numbers in place of names to have them ordered

NoId == 0
Ids == 1..MaxId

(* The display names that a location key may leave empty. *)
Empty == ""

ASSUME UsbListsAssumption ==
    /\ MaxId \in Nat \ {0}
    /\ \A d \in DOMAIN DevName : DevName[d] # Empty
    /\ \A dv \in DOMAIN Label : Label[dv] # Empty
    /\ \A c \in DOMAIN Contents : \A path \in DOMAIN Contents[c] :
          /\ IsFiniteSet(Contents[c][path])
          /\ Contents[c][path] \subseteq [name : Nat, dir : BOOLEAN]
          /\ \A e, f \in Contents[c][path] : e.name = f.name => e = f

(***************************************************************************)
(* lists maps the IDs in use to lists, root is devices_list_id_, next the  *)
(* next ID the generator tries, and inv collects the ListInvalidate        *)
(* signals that are emitted, as pairs of the old and the new ID.  The kind *)
(* of a list is the class of the object; its parent is the ID of the list  *)
(* its parent pointer refers to.                                           *)
(***************************************************************************)
DeviceItem(d)    == [dev |-> d, vols |-> <<>>, child |-> NoId]
VolumeItem(d, v) == [dev |-> d, vol |-> v, child |-> NoId]
DirItem(e)       == [name |-> e.name, dir |-> e.dir, child |-> NoId]

NewList(kind, parent, items) == [kind |-> kind, parent |-> parent, items |-> items]

(* The function f, with value v for k *)
Put(f, k, v) == [x \in DOMAIN f \cup {k} |-> IF x = k THEN v ELSE f[x]]

(* init(): the list of devices is the first one to get an ID. *)
EmptyTree == [lists |-> [l \in {1} |-> NewList("devices", NoId, <<>>)],
              root |-> 1, next |-> IF MaxId = 1 THEN 1 ELSE 2, inv |-> <<>>]

Cached(t, l) == l \in DOMAIN t.lists

Items(t, l) == t.lists[l].items

Emit(t, old, new) == [t EXCEPT !.inv = Append(@, <<old, new>>)]

-----------------------------------------------------------------------------
(* CacheIdGenerator::next() *)

(* Mutant: the invalid ID is not left out. *)
Following_Zero(id) == (id + 1) % (MaxId + 1)

Following(id) == IF id < MaxId THEN id + 1 ELSE 1

(* Mutant: the ID is handed out without looking whether it is in use. *)
FreshId_Unchecked(t) == t.next

FreshId(t) ==
    LET try[n \in 0..MaxId] == IF n = 0 THEN t.next ELSE Following(try[n - 1])
        free == {n \in 0..(MaxId - 1) : try[n] \notin DOMAIN t.lists}
    IN IF free = {} THEN NoId ELSE try[Min(free)]

(* insert(): a new list *)
Insert(t, list) ==
    [t EXCEPT !.lists = Put(@, FreshId(t), list), !.next = Following(FreshId(t))]

(* insert_again(): the old ID is given up before the new one is taken. *)
NewIdFor(t, old) == FreshId([t EXCEPT !.lists = Restrict(@, DOMAIN @ \ {old})])

InsertAgain(t, old) ==
    LET new == NewIdFor(t, old)
        moved(l) == [l EXCEPT !.parent = IF @ = old THEN new ELSE @]
        all == Put(Restrict(t.lists, DOMAIN t.lists \ {old}), new, t.lists[old])
    IN [t EXCEPT !.lists = [l \in DOMAIN all |-> moved(all[l])],
                 !.next = Following(new)]

(* reinsert_list() *)
ReinsertList(t, old) == Emit(InsertAgain(t, old), old, NewIdFor(t, old))

(* reinsert_device_list() *)
ReinsertDeviceList(t) == [ReinsertList(t, t.root) EXCEPT !.root = NewIdFor(t, t.root)]

-----------------------------------------------------------------------------
(* Links between lists *)

SetChildList(t, l, i, id) == [t EXCEPT !.lists[l].items[i].child = id]

(* lookup_item_id_by_child_id(): 0 if no item links to the child list *)
ItemByChild(t, l, child) ==
    LET linking == {i \in DOMAIN Items(t, l) : Items(t, l)[i].child = child}
    IN IF linking = {} THEN 0 ELSE Min(linking)

ParentOf(t, l) == IF Cached(t, l) THEN t.lists[l].parent ELSE NoId

(* The list tree tells the class of a list from its ID and its parent's. *)
IsVolumeListOrInvalid(t, l) == ParentOf(t, l) \in {NoId, t.root}

KindOf(t, l) == IF l = t.root THEN "devices"
                ELSE IF IsVolumeListOrInvalid(t, l) THEN "volumes" ELSE "dir"

(* The lists from l up to the list of devices; Entry::depth() *)
Ancestors(t, l) ==
    LET up[n \in 0..Cardinality(DOMAIN t.lists)] ==
          IF n = 0 THEN <<l>>
          ELSE LET below == up[n - 1]
                   p == ParentOf(t, Last(below))
               IN IF p = NoId THEN below ELSE Append(below, p)
    IN up[Cardinality(DOMAIN t.lists)]

Depth(t, l) == IF Cached(t, l) THEN Len(Ancestors(t, l)) ELSE 0

(* The coordinates of item i of list l and of the items that link to l and *)
(* the lists above it, item 0 if there is no link: repeated calls of       *)
(* get_parent_link().                                                      *)
Linked(t, up, i) ==
    [n \in 1..Len(up) |->
        [list |-> up[n], item |-> IF n = 1 THEN i ELSE ItemByChild(t, up[n], up[n - 1])]]

Trail(t, l, i) == Linked(t, Ancestors(t, l), i)

(* The same from the list of devices down *)
OnWay(t, l, i) == Reverse(Trail(t, l, i))

ItemAt(t, link) == Items(t, link.list)[link.item]

-----------------------------------------------------------------------------
(* Devices and volumes *)

(* get_device_by_x(): the position of the first match, or 0 *)
FirstDevice(t, ds) ==
    LET found == {i \in DOMAIN Items(t, t.root) : Items(t, t.root)[i].dev \in ds}
    IN IF found = {} THEN 0 ELSE Min(found)

DeviceById(t, d) == FirstDevice(t, {d})

DeviceByName(t, name) == FirstDevice(t, {d \in DOMAIN DevName : DevName[d] = name})

(* DeviceList::add_to_list() *)
AddToList(t, d) == [t EXCEPT !.lists[t.root].items = Append(@, DeviceItem(d))]

(* DeviceItemData::add_volume(): where std::lower_bound() finds the place *)
LowerBound(vols, v) == Cardinality({k \in DOMAIN vols : vols[k] < v}) + 1

HasVolume(vols, v) == v \in ToSet(vols)

AddVolume(t, i, v) ==
    [t EXCEPT !.lists[t.root].items[i].vols = InsertAt(@, LowerBound(@, v), v)]

(* fill_volume_list() *)
VolumeItems(item) == [n \in DOMAIN item.vols |-> VolumeItem(item.dev, item.vols[n])]

(* get_name() of the items; a volume asks its device. *)
NameOf(t, l, i) ==
    LET item == Items(t, l)[i]
    IN CASE t.lists[l].kind = "devices" -> DevName[item.dev]
         [] t.lists[l].kind = "volumes" -> Label[<<item.dev, item.vol>>]
         [] t.lists[l].kind = "dir"     -> item.name

(* get_kind(): devices, volumes and directories can be entered. *)
IsDirectory(t, l, i) == t.lists[l].kind = "dir" => Items(t, l)[i].dir

-----------------------------------------------------------------------------
(* Directories.  fs[d] says what MounTA has mounted: the volumes vols of   *)
(* device d, and what is stored on the device.                             *)

Readable(fs, d, path) ==
    /\ d \in DOMAIN fs
    /\ fs[d].present
    /\ path[1] \in fs[d].vols
    /\ path \in DOMAIN Contents[fs[d].content]

ByName(entries) ==
    CHOOSE s \in [1..Cardinality(entries) -> entries] :
       \A i, j \in DOMAIN s : i < j => s[i].name < s[j].name

(* fill_from_file_system(): directories first, each part sorted by name *)
DirItems(entries) ==
    LET sorted == ByName({e \in entries : e.dir}) \o ByName({e \in entries : ~e.dir})
    IN [n \in DOMAIN sorted |-> DirItem(sorted[n])]

(* construct_fspath_to_item(): the volume and the names on the way to an   *)
(* item of a directory; for a volume, its mountpoint.                      *)
FsPath(t, way) ==
    <<ItemAt(t, way[2]).vol>> \o [n \in 1..(Len(way) - 2) |-> ItemAt(t, way[n + 2]).name]

DeviceOf(t, way) == ItemAt(t, way[1]).dev

-----------------------------------------------------------------------------
(* enter_child(): the tree, the ID of the child list, and the error *)

Entry(t, id, err) == [t |-> t, id |-> id, err |-> err]

(* add_child_list_to_cache(), and the link that purge_list() sets *)
AddChild(t, l, i, kind, items) ==
    Entry(SetChildList(Insert(t, NewList(kind, l, items)), l, i, FreshId(t)), FreshId(t), "OK")

EnterDevice(t, l, i) == AddChild(t, l, i, "volumes", VolumeItems(Items(t, l)[i]))

(* attach_new_dirlist(): a directory that cannot be read leaves an empty   *)
(* list without a link behind.  Its item, which had no child list, is      *)
(* given the invalid ID; ListCache records that this fails an assertion in *)
(* set_child_list(); here the program is taken to go on.                   *)
AttachNewDirlist(t, fs, l, i, d, path) ==
    IF Readable(fs, d, path)
    THEN AddChild(t, l, i, "dir", DirItems(Contents[fs[d].content][path]))
    ELSE Entry(Insert(t, NewList("dir", l, <<>>)), NoId, "PHYSICAL_MEDIA_IO")

EnterNewChild(t, fs, l, i) ==
    CASE t.lists[l].kind = "devices" -> EnterDevice(t, l, i)
      [] t.lists[l].kind # "devices" /\ IsDirectory(t, l, i) ->
            AttachNewDirlist(t, fs, l, i, DeviceOf(t, OnWay(t, l, i)), FsPath(t, OnWay(t, l, i)))
      [] ~IsDirectory(t, l, i) -> Entry(t, NoId, "INVALID_ID")

(* Mutant: the cached child list is not used. *)
EnterChild_Again(t, fs, l, i) ==
    IF ~Cached(t, l) \/ i \notin 1..Len(t.lists[l].items) THEN Entry(t, NoId, "INVALID_ID")
    ELSE EnterNewChild(t, fs, l, i)

(* enter_child_template(); a list is cacheable if its ID is valid. *)
EnterChild(t, fs, l, i) ==
    IF ~Cached(t, l) THEN Entry(t, NoId, "INVALID_ID")
    ELSE IF i \notin DOMAIN Items(t, l) THEN Entry(t, NoId, "INVALID_ID")
    ELSE IF Items(t, l)[i].child # NoId THEN Entry(t, Items(t, l)[i].child, "OK")
    ELSE EnterNewChild(t, fs, l, i)

-----------------------------------------------------------------------------
(* Lists leave the cache. *)

IsLeaf(t, l) == \A k \in DOMAIN t.lists : t.lists[k].parent # l

(* Mutant: the parent's item keeps the ID of the list. *)
ObliviateChild_Kept(t, p, gone) == Items(t, p)

(* obliviate_child() of list p, for those of the lists gone whose parent   *)
(* it is: the item that links to one of them forgets it.                   *)
ObliviateChild(t, p, gone) ==
    LET forgetful == {ItemByChild(t, p, l) : l \in {k \in gone : ParentOf(t, k) = p}}
    IN [i \in DOMAIN Items(t, p) |->
           IF i \in forgetful THEN [Items(t, p)[i] EXCEPT !.child = NoId] ELSE Items(t, p)[i]]

(* What discard() of the lists gone leaves, children before their parents. *)
(* The parent pointer of a list that is left behind refers to a list       *)
(* outside the cache.                                                      *)
Without(t, gone) ==
    LET left(k) == [t.lists[k] EXCEPT !.parent = IF @ \in gone THEN NoId ELSE @,
                                      !.items = ObliviateChild(t, k, gone)]
    IN [t EXCEPT !.lists = [k \in DOMAIN @ \ gone |-> left(k)]]

(* discard(), with list_discarded_from_cache() *)
Discard(t, l) == Emit(Without(t, {l}), l, NoId)

(* enumerate_tree_of_sublists(): l, and what its items link to *)
Sublists(t, l) ==
    {k \in DOMAIN t.lists :
        \E n \in 1..Depth(t, k) :
           /\ Ancestors(t, k)[n] = l
           /\ \A m \in 2..n : Trail(t, k, 0)[m].item # 0}

(* purge_subtree(): children before their parents *)
PurgeSubtree(t, l) ==
    LET gone == Sublists(t, l)
        kills == CHOOSE s \in SetToSeqs(gone) :
                    \A i, j \in DOMAIN s : i < j => Depth(t, s[i]) >= Depth(t, s[j])
    IN [Without(t, gone) EXCEPT !.inv = @ \o [n \in DOMAIN kills |-> <<kills[n], NoId>>]]

(* remove_from_list() and purge_device_subtree_and_reinsert_device_list(), *)
(* up to the new ID of the list of devices                                 *)
RemoveFromList(t, i) ==
    LET volumes == Items(t, t.root)[i].child
        removed == [t EXCEPT !.lists[t.root].items = RemoveAt(@, i)]
    IN IF volumes = NoId THEN removed ELSE PurgeSubtree(removed, volumes)

(* reinsert_volume_list(): volume v has been added to the device at        *)
(* position i; a volume list that exists already is patched and gets a new *)
(* ID.                                                                     *)
ReinsertVolumeList(t, i, v) ==
    LET item == Items(t, t.root)[i]
        l == item.child
        patched == [t EXCEPT !.lists[l].items =
                        InsertAt(@, LowerBound(item.vols, v), VolumeItem(item.dev, v))]
    IN IF l = NoId THEN t
       ELSE SetChildList(ReinsertList(patched, l), t.root, i, NewIdFor(patched, l))
=============================================================================
