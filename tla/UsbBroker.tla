----------------------------- MODULE UsbBroker ------------------------------
(***************************************************************************)
(* The USB broker at work: MounTA mounts and unmounts devices and reports  *)
(* it in D-Bus signals (src/usb/dbus_mounta_handlers.cc), the broker keeps *)
(* its list tree in step (src/usb/usb_listtree.cc), and a client browses   *)
(* the lists and realizes locations (src/common/dbus_lists_handlers.cc),   *)
(* while lists are dropped from the cache.                                 *)
(*                                                                         *)
(* An action is a whole handler or work item, taken to be atomic.  Which   *)
(* list garbage collection picks is the subject of module ListCache; here  *)
(* it may be any leaf.                                                     *)
(***************************************************************************)
EXTENDS UsbLocations

CONSTANTS MaxSignals,   \* bound on the number of undelivered signals
          MaxLists,     \* bound on the number of lists in the cache
          LastId,       \* bound on the IDs handed out, MaxId for no bound
          Keys          \* the locations that are realized

Devices == DOMAIN DevName
Volumes(d) == {dv[2] : dv \in {x \in DOMAIN Label : x[1] = d}}

ASSUME UsbBrokerAssumption ==
    /\ MaxSignals \in Nat \ {0}
    /\ MaxLists \in 1..(MaxId - 1)
    /\ LastId \in Ids
    /\ IsFiniteSet(Devices)
    /\ \A d \in Devices : Volumes(d) \subseteq Nat
    /\ DOMAIN Contents # {}
    /\ \A key \in Keys : /\ key.scheme \in {"simple", "reference", "trace"}
                         /\ key.ref \in Seq(Nat) /\ key.item \in Seq(Nat)

(***************************************************************************)
(* mounta is what MounTA has mounted, signals the signals on their way     *)
(* from MounTA to the broker, and view what the client knows: for each     *)
(* list ID it holds, the place of that list and the items it shows.        *)
(***************************************************************************)
VARIABLES tree, mounta, signals, phase, view

vars == <<tree, mounta, signals, phase, view>>

Absent == [present |-> FALSE, vols |-> {}, content |-> CHOOSE c \in DOMAIN Contents : TRUE]

Init ==
    /\ tree = EmptyTree
    /\ mounta = [d \in Devices |-> Absent]
    /\ signals = <<>>
    /\ phase = "setup"
    /\ view = <<>>

(* pre_main_loop() is done; "unsynced" means that GetAll has failed. *)
Running == phase \in {"running", "unsynced"}

-----------------------------------------------------------------------------
(* MounTA *)

Signal(s) == IF phase = "setup" THEN UNCHANGED signals
             ELSE /\ Len(signals) < MaxSignals
                  /\ signals' = Append(signals, s)

NewUSBDevice(d) == [name |-> "NewUSBDevice", dev |-> d]
NewVolume(d, v) == [name |-> "NewVolume", dev |-> d, vol |-> v]
DeviceRemoved(d) == [name |-> "DeviceRemoved", dev |-> d]

Plug(d, c) ==
    /\ ~mounta[d].present
    /\ mounta' = [mounta EXCEPT ![d] = [present |-> TRUE, vols |-> {}, content |-> c]]
    /\ Signal(NewUSBDevice(d))
    /\ UNCHANGED <<tree, phase, view>>

Mount(d, v) ==
    /\ mounta[d].present
    /\ v \notin mounta[d].vols
    /\ mounta' = [mounta EXCEPT ![d].vols = @ \cup {v}]
    /\ Signal(NewVolume(d, v))
    /\ UNCHANGED <<tree, phase, view>>

Unplug(d) ==
    /\ mounta[d].present
    /\ mounta' = [mounta EXCEPT ![d] = Absent]
    /\ Signal(DeviceRemoved(d))
    /\ UNCHANGED <<tree, phase, view>>

-----------------------------------------------------------------------------
(* What the client makes of ListInvalidate *)

(* Where list l is: the device, the volume, and the names of the directories *)
Place(t, l) ==
    LET way == OnWay(t, l, 0)
        at(n) == Items(t, way[n].list)[way[n].item]
        step(n) == CASE n = 1 -> at(n).dev [] n = 2 -> at(n).vol [] n > 2 -> at(n).name
    IN [n \in 1..(Len(way) - 1) |-> step(n)]

Shows(kind, item) == CASE kind = "devices" -> item.dev
                       [] kind = "volumes" -> item.vol
                       [] kind = "dir"     -> item.name

Shown(t, l) ==
    IF ~Cached(t, l) THEN <<>>
    ELSE [i \in DOMAIN Items(t, l) |-> Shows(t.lists[l].kind, Items(t, l)[i])]

Sees(t, l, place) == [place |-> place, shown |-> Shown(t, l)]

(* One signal: the list with the old ID is gone, or is to be read again    *)
(* under the new one.                                                      *)
Told(t, w, s) ==
    LET rest == Restrict(w, DOMAIN w \ {s[1]})
    IN IF s[2] = NoId \/ s[1] \notin DOMAIN w \cup {NoId} THEN rest
       ELSE Put(rest, s[2], Sees(t, s[2], IF s[1] = NoId THEN <<>> ELSE w[s[1]].place))

Follow(t, w) ==
    LET told[n \in 0..Len(t.inv)] == IF n = 0 THEN w ELSE Told(t, told[n - 1], t.inv[n])
    IN told[Len(t.inv)]

WithinBound(t) == /\ Cardinality(DOMAIN t.lists) <= MaxLists
                  /\ t.next <= LastId

(* The tree becomes t; the signals it has collected are delivered. *)
Becomes(t) == /\ WithinBound(t)
              /\ tree' = [t EXCEPT !.inv = <<>>]
              /\ view' = Follow(t, view)

-----------------------------------------------------------------------------
(* The broker starts. *)

(* connect_dbus_signals() *)
Subscribe ==
    /\ phase = "setup"
    /\ phase' = "subscribed"
    /\ UNCHANGED <<tree, mounta, signals, view>>

Announced(t) == Emit(t, NoId, t.root)

(* fill_list_from_mounta_data(): a device with the volumes vs, and all     *)
(* devices, in the order ds                                                *)
FilledDevice(t, d, vs) ==
    LET added[n \in 0..Len(vs)] ==
          IF n = 0 THEN AddToList(t, d)
          ELSE AddVolume(added[n - 1], DeviceById(added[n - 1], d), vs[n])
    IN added[Len(vs)]

Filled(t, ds) ==
    LET filled[n \in 0..Len(ds)] ==
          IF n = 0 THEN t
          ELSE FilledDevice(filled[n - 1], ds[n], SetToSeq(mounta[ds[n]].vols))
    IN filled[Len(ds)]

Present == {d \in Devices : mounta[d].present}

Orders(S) == {s \in [1..Cardinality(S) -> S] : ToSet(s) = S}

(* pre_main_loop(), init_from_mounta() *)
PreMainLoop ==
    /\ phase = "subscribed"
    /\ phase' = "running"
    /\ \E ds \in Orders(Present) :
          LET t == Announced(Filled(tree, ds))
          IN Becomes(IF ds = <<>> THEN t ELSE ReinsertDeviceList(t))
    /\ UNCHANGED <<mounta, signals>>

PreMainLoopFails ==
    /\ phase = "subscribed"
    /\ phase' = "unsynced"
    /\ Becomes(Announced(tree))
    /\ UNCHANGED <<mounta, signals>>

-----------------------------------------------------------------------------
(* signal_handler() *)

Delivered(name) ==
    /\ Running
    /\ signals # <<>>
    /\ Head(signals).name = name
    /\ signals' = Tail(signals)
    /\ UNCHANGED <<mounta, phase>>

HandleNewUSBDevice ==
    /\ Delivered("NewUSBDevice")
    /\ LET d == Head(signals).dev
       IN Becomes(IF DeviceById(tree, d) # 0 THEN tree
                  ELSE ReinsertDeviceList(AddToList(tree, d)))

HandleDeviceRemoved ==
    /\ Delivered("DeviceRemoved")
    /\ LET i == DeviceById(tree, Head(signals).dev)
       IN Becomes(IF i = 0 THEN tree ELSE ReinsertDeviceList(RemoveFromList(tree, i)))

(* Mutant: the volume list that the user has entered already is left alone. *)
HandleNewVolume_NotPatched ==
    /\ Delivered("NewVolume")
    /\ LET i == DeviceById(tree, Head(signals).dev)
           v == Head(signals).vol
       IN Becomes(IF i = 0 THEN tree
                  ELSE IF HasVolume(Items(tree, tree.root)[i].vols, v) THEN tree
                  ELSE AddVolume(tree, i, v))

HandleNewVolume ==
    /\ Delivered("NewVolume")
    /\ LET i == DeviceById(tree, Head(signals).dev)
           v == Head(signals).vol
       IN Becomes(IF i = 0 THEN tree
                  ELSE IF HasVolume(Items(tree, tree.root)[i].vols, v) THEN tree
                  ELSE ReinsertVolumeList(AddVolume(tree, i, v), i, v))

-----------------------------------------------------------------------------
(* The client *)

Item(l, i) == Append(view[l].place, view[l].shown[i])

(* GetListId: an ID that is not in use, like 0, leads to the list of devices. *)
Entered(l, i, e) ==
    /\ WithinBound(e.t)
    /\ tree' = e.t
    /\ view' = IF ~Cached(tree, l) THEN Put(view, tree.root, Sees(tree, tree.root, <<>>))
               ELSE IF e.id = NoId THEN view
               ELSE Put(view, e.id, Sees(e.t, e.id, Item(l, i)))

GetListID(l, i) ==
    /\ Running
    /\ Entered(l, i, EnterChild(tree, mounta, l, i))
    /\ UNCHANGED <<mounta, signals, phase>>

(* RealizeLocation: the client gets to know the list of the item and the   *)
(* list of the reference point.                                            *)
Realized(w) ==
    /\ WithinBound(w.t)
    /\ tree' = w.t
    /\ view' = IF w.err # "OK" THEN view
               ELSE [l \in DOMAIN view \cup ({w.res.list, w.ref.list} \ {NoId}) |->
                       IF l \in DOMAIN view THEN view[l] ELSE Sees(w.t, l, Place(w.t, l))]

Realize(key) ==
    /\ Running
    /\ Realized(RealizeLocation(tree, mounta, key))
    /\ UNCHANGED <<mounta, signals, phase>>

(* gc() drops a list; the list of devices never becomes a candidate here. *)
Collect(l) ==
    /\ Running
    /\ l # tree.root
    /\ IsLeaf(tree, l)
    /\ Becomes(Discard(tree, l))
    /\ UNCHANGED <<mounta, signals, phase>>

Plugs == \E d \in Devices : \/ \E c \in DOMAIN Contents : Plug(d, c)
                            \/ \E v \in Volumes(d) : Mount(d, v)
                            \/ Unplug(d)

Starts == Subscribe \/ PreMainLoop \/ PreMainLoopFails

Dispatch == HandleNewUSBDevice \/ HandleDeviceRemoved \/ HandleNewVolume

Browses == \/ GetListID(NoId, 0)
           \/ \E l \in DOMAIN view : \E i \in DOMAIN view[l].shown : GetListID(l, i)
           \/ \E key \in Keys : Realize(key)
           \/ \E l \in DOMAIN tree.lists : Collect(l)

Next == Plugs \/ Starts \/ Dispatch \/ Browses

Spec == Init /\ [][Next]_vars

-----------------------------------------------------------------------------
(* The types of the variables; the list of devices is always in the cache. *)
TypeOK ==
    /\ mounta \in [Devices -> [present : BOOLEAN, vols : SUBSET UNION {Volumes(d) : d \in Devices},
                               content : DOMAIN Contents]]
    /\ phase \in {"setup", "subscribed", "running", "unsynced"}
    /\ Len(signals) <= MaxSignals
    /\ tree.root \in DOMAIN tree.lists
    /\ DOMAIN tree.lists \subseteq Ids
    /\ tree.next \in Ids
    /\ DOMAIN view \subseteq Ids
    /\ \A l \in DOMAIN tree.lists :
          tree.lists[l].kind \in {"devices", "volumes", "dir"} /\ tree.lists[l].parent \in Ids \cup {NoId}

(* A list that no item links to: one whose directory could not be read.    *)
(* Its ID is never given to a client.                                      *)
Stray(t, l) == \E n \in 2..Depth(t, l) : Trail(t, l, 0)[n].item = 0

Browsable == {l \in DOMAIN tree.lists : /\ tree.root \in ToSet(Ancestors(tree, l))
                                        /\ ~Stray(tree, l)}

(***************************************************************************)
(* A client that follows ListInvalidate never holds an ID that is not in   *)
(* use, or that has come to mean another list, or whose list has changed   *)
(* behind its back, although IDs are reused after the generator has        *)
(* wrapped around: every change of a list of devices or volumes comes with *)
(* a new ID and a signal, and lists that are purged are reported.          *)
(***************************************************************************)
ClientView ==
    \A l \in DOMAIN view :
       /\ l \in Browsable
       /\ Place(tree, l) = view[l].place
       /\ Shown(tree, l) = view[l].shown

(***************************************************************************)
(* Parent and child agree: an ID stored in an item is the ID of a cached   *)
(* list whose parent is the item's list, only one item links to it, and    *)
(* the broker's guess at the class of a list, which decides the pointer    *)
(* cast, is right for each list that can be browsed.                       *)
(***************************************************************************)
TreeSound ==
    /\ \A l \in DOMAIN tree.lists : \A i \in DOMAIN Items(tree, l) :
          LET child == Items(tree, l)[i].child
          IN child # NoId => /\ Cached(tree, child)
                             /\ tree.lists[child].parent = l
                             /\ ItemByChild(tree, l, child) = i
    /\ \A l \in Browsable : KindOf(tree, l) = tree.lists[l].kind

(* The numbers of S, each once and sorted *)
InOrder(numbers, S) ==
    /\ ToSet(numbers) = S
    /\ \A j, k \in DOMAIN numbers : j < k => numbers[j] < numbers[k]

(* The items are the entries, directories first, each part by name. *)
Arranged(entries, items) ==
    /\ Len(items) = Cardinality(entries)
    /\ {[name |-> items[k].name, dir |-> items[k].dir] : k \in DOMAIN items} = entries
    /\ \A j, k \in DOMAIN items :
          j < k => IF items[j].dir = items[k].dir THEN items[j].name < items[k].name
                   ELSE items[j].dir

(***************************************************************************)
(* Once all signals are handled, and provided that GetAll() succeeded, the *)
(* broker shows what MounTA has mounted: the devices, the volumes of each, *)
(* sorted by number, in the device and in a volume list entered earlier,   *)
(* and the directories as they are stored, subdirectories before files.    *)
(***************************************************************************)
InStep ==
    phase = "running" /\ signals = <<>> =>
       LET devices == Items(tree, tree.root)
       IN /\ {devices[i].dev : i \in DOMAIN devices} = Present
          /\ Len(devices) = Cardinality(Present)
          /\ \A i \in DOMAIN devices :
                InOrder(devices[i].vols, mounta[devices[i].dev].vols)
          /\ \A l \in Browsable \ {tree.root} :
                LET place == Place(tree, l)
                    fs == mounta[place[1]]
                IN IF Len(place) = 1 THEN InOrder(Shown(tree, l), fs.vols)
                   ELSE Arranged(Contents[fs.content][Tail(place)], Items(tree, l))

-----------------------------------------------------------------------------
(* Whether item i of list l can be realized: a directory is entered, which *)
(* takes a look at the device unless its list is there already.            *)
Enterable(l, i) ==
    \/ tree.lists[l].kind = "devices"
    \/ ~IsDirectory(tree, l, i)
    \/ Items(tree, l)[i].child # NoId
    \/ Readable(mounta, DeviceOf(tree, OnWay(tree, l, i)), FsPath(tree, OnWay(tree, l, i)))

Leads(w, l, i) ==
    IF Enterable(l, i) THEN /\ w.err = "OK"
                            /\ w.res = Link(l, i)
                            /\ w.link.list # NoId => w.link = GetParentLink(w.t, l)
                            /\ w.link.list = NoId => l = w.t.root
    ELSE w.err = "PHYSICAL_MEDIA_IO"

Finds(loc, l, i) == loc.err = "OK" /\ Leads(RealizeLocation(tree, mounta, loc.key), l, i)

Remembers(w, ref, steps) ==
    w.err = "OK" /\ ref.list # tree.root => w.ref = ref /\ w.steps = steps

(***************************************************************************)
(* A location of an item, as a simple key, as a reference key, or as a     *)
(* trace from any item on the way, leads back to that item, and the title  *)
(* that comes with it is the title of the item's list; it fails only if    *)
(* the medium cannot be read.  A trace gives back the reference point if   *)
(* that is a volume or a directory, and the distance from there.           *)
(***************************************************************************)
KeysRoundTrip ==
    \A l \in Browsable : \A i \in DOMAIN Items(tree, l) :
       /\ Finds(GetLocationKey(tree, l, i, FALSE), l, i)
       /\ Finds(GetLocationKey(tree, l, i, TRUE), l, i)
       /\ Finds(GetLocationTrace(tree, l, i, NoLink), l, i)
       /\ \A n \in 2..Depth(tree, l) :
             LET ref == Trail(tree, l, i)[n]
                 trace == GetLocationTrace(tree, l, i, ref)
             IN /\ Finds(trace, l, i)
                /\ Remembers(RealizeLocation(tree, mounta, trace.key), ref, n - 1)

(* What a location names, according to MounTA *)
Exists(key) ==
    LET path == key.ref \o key.item
    IN \E d \in Present :
          /\ DevName[d] = key.dev
          /\ \/ key.vol = Empty /\ path = <<>>
             \/ \E v \in mounta[d].vols :
                   /\ Label[<<d, v>>] = key.vol
                   /\ \/ path = <<>>
                      \/ \E e \in UNION {Contents[mounta[d].content][p] :
                                            p \in DOMAIN Contents[mounta[d].content]
                                                  \cap {<<v>> \o Front(path)}} :
                            e.name = Last(path)

(* The names on the way to the item that was found *)
Names(key, w) ==
    LET way == OnWay(w.t, w.res.list, w.res.item)
        path == key.ref \o key.item
    IN /\ Len(way) = (IF key.vol = Empty THEN 1 ELSE 2 + Len(path))
       /\ NameOf(w.t, way[1].list, way[1].item) = key.dev
       /\ Len(way) > 1 => NameOf(w.t, way[2].list, way[2].item) = key.vol
       /\ \A n \in 3..Len(way) : NameOf(w.t, way[n].list, way[n].item) = path[n - 2]

AsNamed(key, w) == IF Exists(key) THEN w.err = "OK" /\ Names(key, w) ELSE w.err = "NOT_FOUND"

(***************************************************************************)
(* A location that a client has kept from an earlier time, when the item   *)
(* was elsewhere in its list or the medium was another one, is realized if *)
(* and only if what it names exists, and the item found is the one named.  *)
(***************************************************************************)
RealizeFindsTarget ==
    phase = "running" /\ signals = <<>> =>
       \A key \in Keys : AsNamed(key, RealizeLocation(tree, mounta, key))

(***************************************************************************)
(* The calls that read a list agree with each other: CheckRange() counts   *)
(* as many items as GetRange() and GetRangeWithMetaData() return, for each *)
(* first item and count, in range or not; entering the item that           *)
(* GetParentLink() names leads back to the list; a file has one URI, which *)
(* is where it is stored, and anything else has none.                      *)
(***************************************************************************)
ReadsAgree ==
    \A l \in Browsable :
       LET n == Len(Items(tree, l))
           up == GetParentLink(tree, l)
       IN /\ \A first \in 0..(n + 1), count \in 0..(n + 1) :
                /\ CheckRange(tree, l, first, count) = Len(GetRange(tree, l, first, count))
                /\ CheckRange(tree, l, first, count)
                      = Len(GetRangeWithMetaData(tree, l, first, count))
          /\ l # tree.root => EnterChild(tree, mounta, up.list, up.item).id = l
          /\ \A i \in DOMAIN Items(tree, l) :
                GetURIs(tree, l, i).uris =
                   IF IsDirectory(tree, l, i) THEN {}
                   ELSE {Append(Place(tree, l), Items(tree, l)[i].name)}
=============================================================================
