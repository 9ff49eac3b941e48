---------------------------- MODULE UsbLocations ----------------------------
(***************************************************************************)
(* Locations in the USB list tree (src/usb/usb_listtree.cc): how an item   *)
(* is named by a simple key, a reference key or a trace, how such a URL is *)
(* realized, that is, how the lists on the way are entered and the item is *)
(* found, and what the other calls of the navigation interface read from   *)
(* the tree.                                                               *)
(*                                                                         *)
(* The URL classes are not part of the repository.  Their fields are: the  *)
(* device, the volume, the path of the reference point, the path of the    *)
(* item below it, and the position of the item, 0 if it is not given.      *)
(***************************************************************************)
EXTENDS UsbLists

Link(l, i) == [list |-> l, item |-> i]
NoLink == Link(NoId, 0)

Location(scheme, dev, vol, ref, item, pos) ==
    [scheme |-> scheme, dev |-> dev, vol |-> vol, ref |-> ref, item |-> item, pos |-> pos]

-----------------------------------------------------------------------------
(* Naming an item *)

(* get_component_name(), for the lists on the way to an item *)
WayBroken(way) == \E n \in DOMAIN way : way[n].item = 0

WayName(t, way, n) == NameOf(t, way[n].list, way[n].item)

DirNames(t, way, from, to) == [n \in 1..(to - from + 1) |-> WayName(t, way, from + n - 1)]

VolumeName(t, way) == IF Len(way) = 1 THEN Empty ELSE WayName(t, way, 2)

Named(key, err) == [key |-> key, err |-> err]
NotNamed(err) == Named(Location("simple", Empty, Empty, <<>>, <<>>, 0), err)

(* get_location_key() *)
KeyOfWay(t, way, pos, asRef) ==
    LET depth == Len(way)
        path == DirNames(t, way, 3, depth)
    IN Location(IF asRef THEN "reference" ELSE "simple",
                WayName(t, way, 1), VolumeName(t, way),
                IF asRef /\ depth > 2 THEN Front(path) ELSE <<>>,
                IF asRef /\ depth > 2 THEN <<Last(path)>> ELSE path,
                IF asRef /\ depth > 1 THEN pos ELSE 0)

LocationKey(t, l, pos, asRef) ==
    IF ~Cached(t, l) THEN NotNamed("INVALID_ID")
    ELSE IF pos \notin DOMAIN Items(t, l) THEN NotNamed("INVALID_ID")
    ELSE IF WayBroken(OnWay(t, l, pos)) THEN NotNamed("INTERNAL")
    ELSE Named(KeyOfWay(t, OnWay(t, l, pos), pos, asRef), "OK")

(* GetLocationKey *)
GetLocationKey(t, l, pos, asRef) ==
    IF l = NoId THEN NotNamed("INVALID_ID")
    ELSE IF asRef /\ pos = 0 THEN NotNamed("NOT_SUPPORTED")
    ELSE LocationKey(t, l, pos, asRef)

(* handle_reference_point(): ref is the reference point, or NoLink *)
Mismatch(way, ref) ==
    \E n \in DOMAIN way : way[n].list = ref.list /\ way[n].item # ref.item

(* How many lists there are above and including the reference point; a     *)
(* reference point above the directories leaves no mark in the trace.      *)
RefDepth(way, ref) ==
    LET at == {n \in 3..Len(way) : way[n].list = ref.list}
    IN IF at = {} THEN 2 ELSE Min(at)

(* get_location_trace() *)
TraceOfWay(t, way, pos, mark) ==
    Location("trace", WayName(t, way, 1), VolumeName(t, way),
             DirNames(t, way, 3, mark), DirNames(t, way, mark + 1, Len(way)),
             IF Len(way) > 1 THEN pos ELSE 0)

TraceFrom(t, way, pos, ref) ==
    IF WayBroken(way) \/ Mismatch(way, ref) THEN NotNamed("INTERNAL")
    ELSE IF \A n \in DOMAIN way : ref.list \notin {way[n].list, NoId} THEN NotNamed("INVALID_ID")
    ELSE Named(TraceOfWay(t, way, pos, RefDepth(way, ref)), "OK")

LocationTrace(t, l, pos, ref) ==
    IF ~Cached(t, l) THEN NotNamed("INVALID_ID")
    ELSE IF pos \notin DOMAIN Items(t, l) THEN NotNamed("INVALID_ID")
    ELSE TraceFrom(t, OnWay(t, l, pos), pos, ref)

(* GetLocationTrace *)
GetLocationTrace(t, l, pos, ref) ==
    IF l = NoId THEN NotNamed("INVALID_ID")
    ELSE IF pos = 0 \/ l = ref.list \/ (ref.list # NoId /\ ref.item = 0)
         THEN NotNamed("NOT_SUPPORTED")
    ELSE IF ref.list = NoId /\ ref.item # 0 THEN NotNamed("INVALID_ID")
    ELSE LocationTrace(t, l, pos, ref)

-----------------------------------------------------------------------------
(***************************************************************************)
(* Realizing a location.  The walk w holds the tree t, the directory dir   *)
(* that has been reached, the item cand that led there and its             *)
(* predecessor link (parent_link_candidate and parent_link), the item res  *)
(* found so far, the reference point ref, the number of steps since then,  *)
(* and the error.                                                          *)
(***************************************************************************)
Start(t) == [t |-> t, dir |-> NoId, cand |-> NoLink, link |-> NoLink,
             res |-> NoLink, ref |-> NoLink, steps |-> 0, err |-> "OK"]

FirstItem(S) == IF S = {} THEN 0 ELSE Min(S)

VolumeByName(t, l, name) == FirstItem({i \in DOMAIN Items(t, l) : NameOf(t, l, i) = name})

(* enter_volume(): the device, its list of volumes vols, and the topmost   *)
(* directory top of the volume that item here stands for                   *)
AtVolume(w, here, top) ==
    IF top.id = NoId THEN [w EXCEPT !.t = top.t, !.err = top.err]
    ELSE [w EXCEPT !.t = top.t, !.dir = top.id, !.link = w.cand, !.cand = here, !.res = here]

AtDevice(fs, w, vols, vol) ==
    LET v == IF vol = Empty THEN 0 ELSE VolumeByName(w.t, vols, vol)
    IN IF v = 0 THEN [w EXCEPT !.res = w.cand,
                               !.err = IF vol = Empty THEN "OK" ELSE "NOT_FOUND"]
       ELSE AtVolume(w, Link(vols, v), EnterChild(w.t, fs, vols, v))

InDevice(fs, device, vols, vol) ==
    AtDevice(fs, [Start(vols.t) EXCEPT !.cand = device], vols.id, vol)

EnterVolume(t, fs, dev, vol) ==
    LET d == DeviceByName(t, dev)
    IN CASE dev = Empty -> [Start(t) EXCEPT !.err = "INTERNAL"]
         [] dev # Empty /\ d = 0 -> [Start(t) EXCEPT !.err = "NOT_FOUND"]
         [] dev # Empty /\ d # 0 ->
              InDevice(fs, Link(t.root, d), EnterChild(t, fs, t.root, d), vol)

(* Mutant: an item that has moved is not looked for elsewhere. *)
Search_InPlace(t, l, name, pos, auto) ==
    FirstItem({i \in 1..Len(t.lists[l].items) :
                  NameOf(t, l, i) = name /\ (pos # 0 => i = pos)})

(* The search for a component: at the given position first, if there is    *)
(* one, then anywhere if the caller wants that.                            *)
Search(t, l, name, pos, auto) ==
    LET named == {i \in DOMAIN Items(t, l) : NameOf(t, l, i) = name}
        there == IF pos = 0 THEN named ELSE named \cap {pos}
    IN IF there = {} /\ auto THEN FirstItem(named) ELSE FirstItem(there)

(* The directory at item here is entered, with the result next. *)
Descend(w, here, next) ==
    IF next.id = NoId THEN [w EXCEPT !.t = next.t, !.err = next.err]
    ELSE [w EXCEPT !.t = next.t, !.dir = next.id, !.cand = here, !.res = here, !.steps = @ + 1]

(* Mutant: parent_link is left alone when the component is a file. *)
FollowItem_StaleLink(fs, w, i, isLast, how) ==
    LET linked == [w EXCEPT !.link = w.cand]
    IN IF w.err # "OK" THEN w
       ELSE IF i = 0 THEN [w EXCEPT !.err = "NOT_FOUND"]
       ELSE IF IsDirectory(w.t, w.dir, i)
            THEN Descend(linked, Link(w.dir, i), EnterChild(w.t, fs, w.dir, i))
       ELSE IF how.dirsOnly THEN [w EXCEPT !.err = "NOT_FOUND"]
       ELSE [w EXCEPT !.res = Link(w.dir, i), !.steps = @ + 1,
                      !.err = IF isLast THEN "OK" ELSE "NOT_FOUND"]

(* One round of the loop of follow_path(), with the found_item callback,   *)
(* for the item i that was found, if any; how.dirsOnly refuses files.      *)
FollowItem(fs, w, i, isLast, how) ==
    LET linked == [w EXCEPT !.link = w.cand]
    IN IF w.err # "OK" THEN w
       ELSE IF i = 0 THEN [w EXCEPT !.err = "NOT_FOUND"]
       ELSE IF IsDirectory(w.t, w.dir, i)
            THEN Descend(linked, Link(w.dir, i), EnterChild(w.t, fs, w.dir, i))
       ELSE IF how.dirsOnly THEN [linked EXCEPT !.err = "NOT_FOUND"]
       ELSE [linked EXCEPT !.res = Link(w.dir, i), !.steps = @ + 1,
                           !.err = IF isLast THEN "OK" ELSE "NOT_FOUND"]

(* how.pos and how.auto direct the search. *)
FollowComponent(fs, w, name, isLast, how) ==
    FollowItem(fs, w, Search(w.t, w.dir, name, how.pos, how.auto), isLast, how)

(* follow_path() *)
FollowPath(fs, w, path, how) ==
    IF w.err # "OK" THEN w
    ELSE IF w.dir = NoId
         THEN [w EXCEPT !.err = IF path = <<>> THEN "OK" ELSE "INVALID_STRBO_URL"]
    ELSE LET walk[n \in 0..Len(path)] ==
               IF n = 0 THEN w
               ELSE FollowComponent(fs, walk[n - 1], path[n], n = Len(path), how)
         IN walk[Len(path)]

Anywhere  == [pos |-> 0, auto |-> FALSE, dirsOnly |-> FALSE]
Reference == [pos |-> 0, auto |-> FALSE, dirsOnly |-> TRUE]
Near(pos) == [pos |-> pos, auto |-> TRUE, dirsOnly |-> FALSE]

(* realize() of the three kinds of location.  The title that set_list_title()  *)
(* adds is the name of the item link, and of the list of devices if there is   *)
(* none.                                                                       *)
RealizeSimple(fs, w, key) == FollowPath(fs, w, key.item, Anywhere)

RealizeReference(fs, w, key) ==
    FollowPath(fs, FollowPath(fs, w, key.ref, Reference), key.item, Near(key.pos))

FromReference(fs, w, key) ==
    IF w.err # "OK" THEN w
    ELSE FollowPath(fs, [w EXCEPT !.ref = w.cand, !.steps = 0], key.item, Anywhere)

RealizeTrace(fs, w, key) == FromReference(fs, FollowPath(fs, w, key.ref, Reference), key)

(* realize_strbo_url(); all kinds of location begin with enter_volume(). *)
RealizeInVolume(fs, w, key) ==
    CASE key.scheme = "simple"    -> RealizeSimple(fs, w, key)
      [] key.scheme = "reference" -> RealizeReference(fs, w, key)
      [] key.scheme = "trace"     -> RealizeTrace(fs, w, key)

RealizeLocation(t, fs, key) ==
    RealizeInVolume(fs, EnterVolume(t, fs, key.dev, key.vol), key)

-----------------------------------------------------------------------------
(* What the other calls of the interface read *)

(* get_parent_link(): NoLink on failure, the list itself for the list of   *)
(* devices; GetParentLink then answers list 0 and item 1, which is item 2  *)
(* here.                                                                   *)
ParentLink(t, l) ==
    IF ~Cached(t, l) THEN NoLink
    ELSE IF ParentOf(t, l) = NoId THEN Link(l, 0)
    ELSE IF ItemByChild(t, ParentOf(t, l), l) = 0 THEN NoLink
    ELSE Link(ParentOf(t, l), ItemByChild(t, ParentOf(t, l), l))

GetParentLink(t, l) ==
    LET up == ParentLink(t, l)
    IN IF up.list = l THEN Link(NoId, 2) ELSE up

(* size(): -1 if there is no such list *)
Size(t, l) == IF Cached(t, l) THEN Len(Items(t, l)) ELSE -1

(* for_each_item(): the items from index first on, all of them if count is 0 *)
ForEachItem(t, l, first, count) ==
    LET end == IF count > 0 /\ first + count < Size(t, l) THEN first + count ELSE Size(t, l)
    IN SubSeq(Items(t, l), first + 1, end)

(* GetRange and GetRangeWithMetaData, with the generic and the detailed    *)
(* for_each(): name and kind of each item; there is no meta data on USB.   *)
GetRange(t, l, first, count) ==
    LET items == ForEachItem(t, l, first, count)
    IN [n \in DOMAIN items |-> [name |-> NameOf(t, l, first + n),
                                dir  |-> IsDirectory(t, l, first + n)]]

GetRangeWithMetaData(t, l, first, count) ==
    LET items == ForEachItem(t, l, first, count)
    IN [n \in DOMAIN items |-> [title |-> NameOf(t, l, first + n),
                                dir   |-> IsDirectory(t, l, first + n)]]

(* CheckRange *)
CheckRange(t, l, first, count) ==
    LET size == Size(t, l)
        rest == IF size >= first THEN size - first ELSE 0
    IN IF count > 0 /\ rest > count THEN count ELSE rest

(* get_uris_for_item(): the device and the path of a file; there is        *)
(* nothing to play in a directory.                                         *)
UrisForItem(t, l, i) ==
    IF KindOf(t, l) # "dir" THEN [uris |-> {}, err |-> "INVALID_ID"]
    ELSE IF i \notin DOMAIN Items(t, l) THEN [uris |-> {}, err |-> "INVALID_ID"]
    ELSE IF Items(t, l)[i].dir THEN [uris |-> {}, err |-> "OK"]
    ELSE [uris |-> {<<DeviceOf(t, OnWay(t, l, i))>> \o FsPath(t, OnWay(t, l, i))}, err |-> "OK"]

(* GetURIs *)
GetURIs(t, l, i) ==
    IF ~Cached(t, l) THEN [uris |-> {}, err |-> "INVALID_ID"] ELSE UrisForItem(t, l, i)
=============================================================================
