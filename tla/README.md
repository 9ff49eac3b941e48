# Listbrokers: models, checks and proofs

Listbrokers are two D-Bus daemons, one for UPnP media servers and one for USB
mass storage.  Each presents a tree of lists (servers or devices, directories,
files) to clients through the interface `de.tahifi.Lists.Navigation`.  This
directory holds TLA+ models of the parts in which the order of events decides
whether the programs are correct, the TLC configurations that check them, and
proofs that TLAPS checks.  Paths below are relative to the repository.

## The system

| Part (directory `src/`) | State it keeps | Operations | What makes it correct |
|---|---|---|---|
| Work, reply path tracker (`common/dbus_async_work.hh`) | work state, result promise, reply path | run, cancel, take fast or slow path, cookie sent, ready notified | the reply path is decided once; a result is neither lost nor announced twice |
| Work queue (`common/dbus_async_workqueue.cc`) | work in progress, backlog, worker thread | add, process, cancel all, shut down | a canceled or replaced item is still accounted for; shutdown ends |
| Cookie jar (`common/work_by_cookie.*`) | cookie -> work | pick, eat, eat quickly, drop, notify | client learns the cookie before the signal about it; one signal per cookie |
| Navigation handlers (`common/dbus_lists_handlers.cc`) | none of their own | some 12 methods, most with a *by cookie* twin; DataAbort | every call is answered, the main loop is never blocked for good |
| List tree interface (`common/listtree.hh`) | queues, cancelation counter | the list queries | the counter tells of cancelations that are pending; it should stop the canceled work only, and does not (`lost_cookie`) |
| LRU cache (`common/lru.*`) | all cached lists, tree, aging list, pin, size | insert, use, pin, gc, purge, insert again | aging list sorted and complete, leaves first; pinned path stays; limits kept |
| Killed lists (`common/lru_killed_lists.hh`) | IDs of lists whose tile is gone | killed, erase | what is discarded was linked or killed |
| Cache control (`common/cachecontrol.*`) | timeout source, enabled flag | enable, disable, trigger, timeout | something collectable implies a pending timeout |
| List IDs (`common/lru.cc`, `idtypes.hh`) | next ID, bits for cache mode and context | next | an ID in use is never handed out again |
| List tree manager (`common/listtree_manager.*`) | reference to the cache, pinned ID | use, reinsert, purge subtree, allocate/bless | the root list is always there |
| Tiled lists (`common/lists_base.hh`) | three tiles with fill states, filler queue | prefetch, slide, wait for tile, cancel fillers | readers see filled tiles only; nobody waits for a tile nobody fills |
| Entering a child (`common/enterchild_template.hh`) | item -> child list ID | enter | item and cache agree on the child |
| Cacheable overrides (`common/cacheable.*`), readiness (`common/ready.hh`, `readyprobe.hh`) | override roots; probes | put, remove, check | used by tests only: the brokers install `CheckNoOverrides` and have no probes |
| UPnP server discovery (`dlna/servers_lost_and_found.hh`, `dbus_upnp_handlers.cc`, `dbus_upnp_iface.cc`, `periodic_rescan.cc`) | manager proxy, pending server proxies, rescan timer | found, lost, proxy ready, vanished, reconnect, rescan | the list follows dLeyna; a server that was lost meanwhile is not added; one rescan at a time |
| UPnP lists and tree (`dlna/upnp_list*`, `dbus_upnp_list_filler.cc`) | server list, media lists | add, remove, clear, fill, traces | tree and server list agree |
| USB lists and tree (`usb/usb_list*`, `dbus_mounta_handlers.cc`) | device, volume, directory lists | mount, unplug, enter, keys and traces | no list of a removed device stays; every change of a list that a client may hold is announced; a location leads back to its item |
| Strings, D-Bus plumbing, `main.cc` | none or configuration | formatting, registration, start, shutdown | -- |

How they interact.  D-Bus methods are handled in the thread of the GLib main
loop.  A handler makes a work item, puts it in the cookie jar and in the queue
of its method, and waits up to 150 ms for the result (fast path).  If there is
none it answers with the cookie (slow path); the worker thread of the queue
then announces the result with `DataAvailable` or `DataError`, and the client
fetches it.  Work items read lists through the list tree manager, which moves
them in the LRU cache; entering a list inserts one.  The collector runs from
`insert()`, from `pin()` and from a GLib timeout.  Devices and servers that
disappear purge the subtree of their lists; a list whose content has changed is
put into the cache again under a new ID, and `ListInvalidate` tells clients about
old and new ID.  The USB broker learns of devices from MounTA (one call of
`GetAll()` at start, then signals), the UPnP broker of servers from dLeyna, which
may crash and come back; for each server it asks for a proxy, and the answer may
come after the server is gone.

What is hard: the race of handler, worker, abort and shutdown for one answer;
conditions checked under one lock and used under another; one cancelation
counter for all queues; the pointer structure of the aging list under long
sequences of operations; operations that run a garbage collection in the
middle; lists that the cache knows and their parents do not; timers that are
forgotten; IDs that change under the client, wrap around and are used again;
locations stored at a time when the tree was another one; signals, replies and
cancelations of the same server that cross each other.  `PROJECT.json` lists these hazards with their lines and the
properties that are aimed at them.

## Modules

* `ReplyPath` -- `ReplyPathTracker`: each method as an operator on the tracker's
  state, with its result and whether it is a legal transition.
* `AsyncWork` -- work items, queues with a worker thread each, and the jar.  A step
  of a thread begins where the code takes a lock or waits, and ends before the
  next one; locks that are held over several steps (`qlock`, `wlock`, `jlock`)
  are variables.  `pc`, `cur`, `obj` and `ret` are the threads; `wip`, `queue`
  and `accepting` the work queues; `wstate`, `promise`, `cancelReq` and `rp`
  the work items; `jar` the cookie jar; `asked`, `reply`, `got`, `avail` and
  `derr` what clients did and saw; `bugs` the `MSG_BUG()` reports.
* `RNF` -- the abstract contract of a request/notify/fetch method, as a client sees
  it: answered with a result, or with a cookie, then exactly one signal, then
  at most one successful fetch; every call is answered and every cookie
  announced eventually.  The calls of `Refusable` may be refused with an error
  instead of getting a cookie; `AsyncWork!ImplementsRNF`, the refinement, has there
  the calls which cancelations in other queues can get at (`Disturbed`).
* `AsyncWorkProofs`, `AsyncWorkTracker`, `AsyncWorkContract` -- theorems about
  `AsyncWork`, each module building on the one before.
* `LRUCache` -- `LRU::Cache` as operators from cache to cache, pointer by pointer:
  `Use`, `Pin`, `InsertEntry`, `Discard`, `Gc`, `PurgeEntries`, and the order
  `toposort_for_purge()` produces.  Time points are kept as ages that saturate
  at `MaxAge`.
* `ListCache` -- the handlers that use the cache, one action each, with
  `CacheControl` and its pending timeout sources: `Start` (init of the list
  tree), `UseList`, `EnterChild`, `DiscardHint`, `DropTile` (a tile is dropped,
  its items' child lists are "killed"), `RemoveDevice` and `GcTimer`.
* `TileWindow` -- the index arithmetic of a tiled list: which tile an item is in,
  its neighbors in the ring of tiles, and what `prefetch()` decides (keep the
  tiles, slide them, load them afresh).
* `TiledList` -- the tiles of all lists (`hot`), the window of up, center and down
  tile (`active`), the queue of the pool (`queue`), the tiles that filler threads
  hold locked (`filling`), and the thread that reads (`pc`, `req`, `walk`, `it`).
  `AskRange` and `AskItem` are `for_each_item()` and `operator[]`, `Leave` is the
  destructor of a list; `TooManyTiles`, `AlreadyCached`, `StartSliding` and
  `StartFilling` are the ends of `prefetch()`; `Slide`, `CancelFiller`,
  `AwaitFiller` and `Refill` are `slide()` with `cancel_filler()`; `FillTiles` is
  the rest of `fill()` after `clear()`; `Begin`, `Skip`, `Found`, `AtEnd` and
  `ReadItem` are the iterator; `Take` and `Fill` are the filler threads.
* `UsbLists` -- the tree of the USB broker as a record (cached lists by ID, root,
  next ID, signals emitted), and its operations from tree to tree: the ID
  generator (`FreshId`), `Insert`, `InsertAgain` and `ReinsertList`,
  `EnterChild` with device, volume and directory lists, `ObliviateChild`,
  `Discard` and `PurgeSubtree`, `AddToList`, `RemoveFromList`, `AddVolume` and
  `ReinsertVolumeList`.
* `UsbLocations` -- `get_location_key()`, `get_location_trace()`, the three ways to
  realize a location (`EnterVolume`, `FollowPath`, with the tree, the item found
  and the link to its list as they are threaded through the loops), and the
  queries behind the navigation methods.
* `UsbBroker` -- MounTA (`mounta`), its signals on their way (`signals`), the start of
  the broker (`phase`), the tree, and a client that browses and follows
  `ListInvalidate` (`view`).  `Subscribe` and `PreMainLoop` are the start,
  `HandleNewUSBDevice`, `HandleNewVolume` and `HandleDeviceRemoved` the branches
  of `signal_handler()`, `GetListID` and `Realize` the methods that change the
  tree, `Collect` garbage collection.  The methods that only read are operators,
  which the properties compare with each other in every state.
* `ServerDiscovery` -- dLeyna (`dleyna`), the messages on their way to the broker
  (`bus`), the requests it has yet to answer (`reqs`), the manager's proxy
  (`iface`), the list of servers (`list`), `ServersLostAndFound` (`added`) and
  `PeriodicRescan` (`rescan`).  One action per callback: `HandleFoundServer` and
  `HandleLostServer` (`dleynaserver_manager_signal()`), `HandleDeviceProxy` and
  `HandleCancelled` (`media_device_proxy_connected()`), `HandleVanished`
  (`vanished()` with `ListTree::clear()`), `HandleManagerProxy`
  (`created_dleyna_proxy()`), `RescanNow` and `RescanDone`.
* `SequenceLemmas` -- what appending, concatenating, removing and taking the head do
  to a sequence and to the set of its elements; a finite set of numbers has a
  greatest and a least one, and can be enumerated.
* `TiledListProofs`, `ServerDiscoveryProofs` -- theorems about `TiledList` and
  `ServerDiscovery`.
* `UsbBrokerProofs`, `UsbBrokerView` -- theorems about `UsbBroker`.  The first module
  has the links between lists, the shape of the tree, and what entering child
  lists, realizing locations, adding devices and giving lists new IDs do to it; the
  second what adding volumes, purging and collecting lists do, the signals, and the
  client.
* `MCAsyncWork`, `MCListCache`, `MCTiledList`, `MCUsbBroker`, `MCServerDiscovery` --
  instances for TLC.

Abstractions.  A work item stands for its call, its cookie and its result.
What `do_run()` computes is reduced to success, failure or interruption.  A
list is a model value with a size; its items are reduced to "some item of the
parent refers to this list" (`linked`).  A list's name may be used again when
no cached list and no list above a cached one has it.  Handlers that use the
cache are taken as serialised, although the program has no lock there; what
unsynchronised accesses do is outside the model.  When a directory cannot be read,
its item is given the invalid ID, and `set_child_list()` fails an assertion.  The
model records that (`"child ID"` in `bugs`) and goes on like a program that merely logs
it, the item being linked to nothing; `UsbBroker` goes on likewise.  At any other
failed assertion and at `MSG_BUG()` about a kill list `ListCache` stops.  The content of a tile is the
range of items it holds.  There is one reading thread, as the comments of
`ListTile_` demand.  That a filler is told to stop has no effect, because
`DBusUPnPFiller::fill()` never asks.  Tiles that one step of the reader queues are
queued at once: fillers touch only tiles that the step is finished with.

In `UsbBroker` each handler and each work item is one step.  File systems are trees
of names (numbers, because they are sorted), of which a device has one of several layouts each time it is plugged
in; a URL is a record of its fields, because its syntax is in a library outside
the repository.  `Collect` may take any leaf, since `ListCache` is about the choice.
The client reads a list again when it is told its new ID and forgets a list that
is gone.  In `ServerDiscovery` the messages of the bus arrive in the order in which
they were sent; a serial is the smallest one that is not in use instead of a
counter; `missed`, which is not in the code, records the servers whose coming or
going the broker could not notice, so that `ListFollows` can except them.

## Runs

Asynchronous work (module `MCAsyncWork`):

| Run | Instance | Shows |
|---|---|---|
| `fast_path` | 3 calls, 1 queue, no backlog (as the brokers configure it), aborts, shutdown | all safety properties, liveness of both threads, refinement of `RNF` |
| `polling` | 2 calls, a backlog of 1, client fetches before the signal | a client out of protocol can provoke bug reports, but does not leave the main loop waiting |

The cache (module `MCListCache`):

| Run | Instance | Shows |
|---|---|---|
| `usb_cache` | root and 4 lists, at most 5 lists, high watermark 4, unreadable directories, removal of devices | structure, pins, limits, order of collection; no assertion fails but the one about the child ID of an unreadable directory |
| `upnp_cache` | root and 3 lists of size 1 or 2, limit on memory, dropped tiles, removal of servers | the tree and the limits under memory pressure and with killed lists |

Tiled lists (module `MCTiledList`):

| Run | Instance | Shows |
|---|---|---|
| `tiled_reads` | a list of up to 4 tiles of 2 items, 2 fillers, filling succeeds; ranges over 1, 2 or 4 tiles and single items | each item is delivered for its own ID, reads succeed, the window is a part of the ring |
| `tile_pool` | lists of 3 tiles and of 1 tile share 2 fillers; filling may fail, lists are discarded | a tile is being filled iff one filler or one queue entry is in charge of it; neither changes a tile under the other; the window loses no tile; assertions hold; the reader never waits for good |

USB lists (module `MCUsbBroker`):

| Run | Instance | Shows |
|---|---|---|
| `usb_tree` | 2 devices, one with 2 volumes; 4 IDs, up to 3 lists, 2 signals on their way | parents and items agree, clients that follow the signals are never wrong about an ID although IDs are used again, the tree comes into step with MounTA |
| `usb_keys` | 2 devices with volumes of the same label, 2 layouts of a medium, 4 lists, 5 stored locations | keys and traces lead back to their item, stored ones to what they name or nowhere, the reading methods agree |

Server discovery (module `MCServerDiscovery`):

| Run | Instance | Shows |
|---|---|---|
| `discovery` | a server in the network and one on this host, dLeyna crashes and restarts, proxies fail, 4 messages and proxies underway | the list of servers follows dLeyna, at most one live proxy per server, one rescan at a time, the broker connects again |

Why the bounds are enough.  Three calls are the least that let one call replace
a second one while a third is fetched or aborted.  With
one queue they may be interrupted by what they replace; that nothing but another
queue's cancelation can do worse is proved for any number of queues (below).  The order and the single
signal are proved for all constants, so that `polling` need not repeat them.  With four
lists below the root there are paths of length four, forks at every level and
two devices, and the high watermark is reached with a pinned path and with a
pinned root only.  `MaxAge` is 4 ticks and time passes in steps of 1 or 3, so
that lists expire one by one and together.  `MaxTimers` bounds the pending
timeout sources; the program has no bound, because `trigger_gc()` forgets the
source it replaces.  `Resolution = {1}` says that the clock advances between two
readings in one handler.  `EnterChild` leaves out the steps in which the limits
of the small instance, unlike those of the programs, have no room for a new list
beside the pinned path.  Four tiles are one more than a list keeps in memory,
so that the window slides past both ends of the ring; with two items a tile has
a first and a last item, and the lists of one, two and three tiles are those
for which `fill()` leaves tiles out.  Ranges over exactly three tiles, and half a
tile after full ones, are left out of `tiled_reads`, because of what was met
there (below).  For the pool the number of items in a tile makes no
difference, and two lists are the least that share it.  In `usb_tree` three lists
are a path from the root to a volume, and with four IDs, one more than lists
(`MaxLists < MaxId`), the generator wraps around and meets IDs in use all the
time; two signals let a device be removed, or plugged in anew, before the first
signal about it is handled.  In `usb_keys` four lists are a path to a
subdirectory; `LastId = 6` bounds the IDs of the states, `MaxId = 9` leaves room
for the lists that the properties enter when they realize a location.  Four
messages and proxies underway (`MaxUnderway`) let a server be found, lost and
found again before the first answer arrives, with a crash in between.

Runs that show a disagreement between the code and what it says about itself
(`expect` is `violation`; `findings` in `PROJECT.json` has the quotations):

* `always_notified`: RealizeLocation is announced by nobody, because nobody ever
  waits for its result and the worker waits for that.
* `lost_cookie`: a call interrupted by the cancelation of another queue's work
  is gone from the jar when its own handler looks for it.
* `root_lost`: removing a pinned server leaves nothing pinned, and the list of
  servers is collected.

Met while modelling, and kept as hazards with a note instead of a run.
Asynchronous work: aborting a RealizeLocation that has not started blocks the main
loop; `run()` is called on work that was canceled meanwhile.  Cache: entering a USB
directory that cannot be read links its item to the invalid ID, against the
assertion in `set_child_list()` (`lists_base.hh:141`); a pinned list that is purged may
be discarded twice; purging a subtree misses lists whose tile was dropped; an
unsortable kill list is used nevertheless; with everything pinned, the collection timer is not armed again; uses within one clock
tick leave the aging list unsorted; timeout sources pile up; with limits
that have no room beside the pinned path, `insert()` returns the ID of a list
it has already collected.  Tiled lists: when one tile of a range cannot be
filled, the iterator passes over it, and the items of the next tile are delivered
in place of the missing ones; the neighbor below the last full tile is taken to be
tile 0, although a tile with fewer items follows, so that `prefetch_range()`
claims a range to be in memory that is not; a range of three tiles that begins or
ends in the center tile slides in the wrong direction; a `fill()` that returns 0
leaves its tile in state FILLING; clearing one list cancels the queued tiles of
all; lists are read from the worker threads of several queues.  USB: a volume
that is mounted while a worker enters its device may be missing from the new
list (handlers are atomic in the model); with all other IDs in use
`reinsert_list()` gets the same ID again and fails its assertion; a `GetAll()`
that fails is not retried.  Server discovery: servers that dLeyna exported before
the broker had its manager proxy are never listed unless they are announced
again; `clear()` leaves proxies of servers alone that are not listed yet, and a
loss of dLeyna is ignored while the proxy is created, so that a server may be
listed that is gone.

The passing runs of the cache keep out the causes of what the others show: the
clock advances, devices and servers are removed while they are not pinned and
no stray list is below them.  Directories that cannot be read are not kept out of
`usb_cache`: `NoOtherAssertionFails` excepts the one assertion that they make fail, and
all properties are checked of what comes after it.

Deadlock is checked in all runs but those of `AsyncWork`, in which the program ends
(`halt`), and `root_lost`, in which it stops at a failed assertion.

## Fairness

`Fairness` of `AsyncWork` is weak fairness of the main thread's steps and strong
fairness of each worker's.  Both threads are scheduled by the kernel; waiting
for a result ends after 150 ms; `do_run()` is assumed to return.  Strong
fairness of the workers is needed because a polling client lets the main
thread take a work item's mutex over and over; it holds it for an instant each
time, so that a worker waiting for it gets it.  Nothing is assumed about
clients or about the signal to quit.  `ListCache` and `UsbBroker` have no liveness
property; what `InStep` says of a state without signals is reached as soon as
the main loop has handled them.
`TiledList` has weak fairness of the reader and of each filler: all are scheduled
by the kernel, and the D-Bus call of a filler ends at the latest with its
timeout.  `ServerDiscovery` has weak fairness of the main loop's dispatching and of
answers, since each call ends at the latest with its timeout, and strong fairness
of answers that are not errors: the bus starts dLeyna on demand, and creating the
manager's proxy is assumed not to fail forever.  Servers, crashes and the rescan
timer are not fair.

## Proofs

### Asynchronous work

`AsyncWorkProofs` proves, for any sets of calls and queues, any assignment of
calls to queues and modes, any maximum queue length, polling clients or not,
from `ConstantsAssumption` alone:

* `TypeCorrect`: `Spec => []TypeOK`.  Inductive with `HandlerHasWork`: where a
  handler's program counter says it has a work item, it has one.
* `CookieFirst`: `Spec => []CookieBeforeSignal`.  The invariant `CookieInv` adds
  `PathInv`, which ties what a client was told to the tracker: a tracker at or
  beyond `SLOW_PATH_COOKIE_SENT` means that the cookie was sent, or that the
  handler is on the one step in which both happen.
* `SignalAtMostOnce`: `Spec => []SignalOnce`.  The property says nothing of the
  threads that are about to emit a signal, so `SignalInv` adds that at most one
  thread is in the notification for an item (`OneNotifier`, because a final
  state is entered only once and under the item's lock), that a signal is the
  last thing that happens to an item (`SignalIsLast`), and that threads in
  these places have an item (`ThreadHasWork`).
* `PathIsFinal`: `Spec => ReplyPathForward`, an action property, from the type
  invariant and the operators of `ReplyPath`.

`AsyncWorkTracker` goes on with what clients get.  `AnswerInv` adds to `SignalInv`
that the one call that has no answer yet is the one the handler serves
(`OneCallServed`) and what the jar holds (`JarInv`); it yields, again from
`ConstantsAssumption` alone:

* `AllCallsAnswered`: `Spec => []EveryCallAnswered`.
* `AnnouncedIsFetchable`: `Spec => []AvailableIsFetchable`.

`TrackerInv` adds where a work item can be: scheduled before it runs
(`Scheduled`), in one place at a time, its queue or its worker (`OnePlace`,
`NotElsewhere`, together `QueueInv`), and what the tracker's path says about the
worker and the result (`PathStarted`, `PathKnown`, `PathIsLast`,
`DoneHasResult`).  With the assumption `~EarlyFetch` it yields

* `TrackerNeverComplains`: `Spec => []TrackerQuiet`, the part of `NoBugReports`
  that concerns tracker and queues, for any number of queues.

The assumption is needed: run `polling` has a client that fetches a cookie before
it was announced, and the tracker complains.

`AsyncWorkContract` assumes `~EarlyFetch`, too, and nothing else: any number of queues
share the counter of cancelations, as in the brokers, and any works may look at
it.  What the counter does to work that nobody canceled is part of what is
proved, not excluded: such work is in `InterruptedForOthers`, interrupted while
canceled work of another queue is known, and its caller may get an error.
`ContractInv` adds who may hold an item that was canceled (`HandsFree`, `CancelInv`),
that the work of the call being served is in the jar and not interrupted unless it
is in `InterruptedForOthers` (`OwnWorkIsSafe`), that errors and the report about them
come from that only (`NothingBroken`), and that results are fetched after the
signal only (`FetchedAfterSignal`).  Two lemmas carry the argument:
`InterruptIsExcused`, that whenever `do_run()` finds the counter raised, its own work
was asked to stop, the main thread still holds canceled work, or canceled work of
another queue is alive; and `DisturbanceStays`, that a work once in
`InterruptedForOthers` stays there, since `cancelReq` and a result that is set are
never taken back.

* `NoBugs`: `Spec => []NoBugReports`: besides the report of `Work::run()` there is none
  but "Unexpected failure", and that one only with an error for a call of
  `InterruptedForOthers`.
* `InterruptedForAReason`: `Spec => InterruptedByPendingCancelOnly`, an action
  property: work is never stopped by work it has replaced in its own queue.
* `ContractKept`: `Spec => Contract!Safety`: initial states map to initial states
  of `RNF`, and each step to a step of it or a stutter.  With one queue `Disturbed` is
  empty, and no call is ever refused.

### Server discovery

`ServerDiscoveryProofs` proves, for any finite set of servers, any of them local,
and any number of messages and proxies underway, from
`ServerDiscoveryAssumption` alone:

* `ListIsRight`: `Spec => []ListFollows`.
* `LostAndFound`: `Spec => []LostAndFoundSound`.
* `OneRescan`: `Spec => []RescanSound`.

They share the invariant `DiscoveryInv`.  `ListFollows` speaks of states in which
nothing is underway; what makes it inductive is `BusInv`, that the last word on
the bus about a server (found, lost, or dLeyna's name vanishing) is the truth,
and `ListInv`, that the list knows the truth about the servers on which the bus
is silent: hence, when the last word about a server is handled, the handler only
has to do what it says.  `QueuesInv` says that serial numbers in a queue of
`ServersLostAndFound` differ, that only the last entry may be wanted, and that
its call has not returned; a fresh number is there because the numbers in use
are finitely many (`FreshSerial`).  `CallsInv` counts calls to the manager and
rescans, and has `ManagerLast`: a manager's proxy is asked for after all rescans,
so that a rescan which fails in a crash has been reported before the timer is
enabled again.

### Tiled lists

`TiledListProofs` proves, for any set of lists, of any sizes, any set of fillers, any
tile size, and requests that span any number of tiles, from `TileSizeAssumption`
and `TiledListAssumption`:

* `TilesAreDecided`: `Spec => []TilesDecided`.
* `AssertionsHold`: `Spec => []NoFailedAssertions`.
* `NoTileIsLost`: `Spec => []EachTileOnce`.
* `NotShared`: `Spec => TilesNotShared`, an action property.

Their one hypothesis is `"empty" \notin Outcomes`, the server has items for the tile
it is asked for.  It is needed: after a `fill()` that returns 0 nobody is in charge of
the tile, which stays in state FILLING.  Fills that fail, fills that bring too few
items, and queues canceled by other lists are covered, and so are the ranges over
three tiles and the lists with a last tile that is not full, which `tiled_reads`
leaves out.

The invariant is `TiledInv`.  `PoolInv` says that an entry is queued once, that no two
fillers hold the same tile and none holds a queued one, and that FILLING means
queued or held.  `WindowInv` follows the window of each list through the operations
that take several steps: `Settled` (empty, or as many tiles as the list has, at most
three, in slots of their own, and no other slot in use), `Sliding` (the tile pushed
out is at its new location already, and still in use until it has been given up) and
`Clearing` (the slots before `walk.slot` are free).  `WalkInv` says that the reader
slides towards a tile that is there: by one tile always, and by more only in a list
of more than two tiles, in which both neighbors exist.  That follows from the
arithmetic of `prefetch()` (`WideRange`, `OverlapForms`) and from `RequestInv`, the
items asked for are in the list.  It also says that a tile which the reader waits
for is not in the queue, so that it is not FILLING when the filler lets go of it.

### USB lists

`UsbBrokerProofs` proves, for any finite set of devices, any volumes and directories,
any locations and any number of IDs, lists and signals underway, from
`UsbListsAssumption` and `UsbBrokerAssumption`:

* `LinksAreRight`: `Spec => []TreeSound`.

`UsbBrokerView` extends it and proves from the same assumptions, with no further
hypothesis:

* `BrokerTypes`: `Spec => []TypeOK`.
* `ClientsKnowTheLists`: `Spec => []ClientView`.
* `BrokerInStep`: `Spec => []InStep`.
* `ReadsAlwaysAgree`: `Spec => []ReadsAgree`.

The assumptions are those of a small world (finitely many devices, directories
of finitely many names) and `MaxLists < MaxId`: the code, too, needs an ID that is
not in use (below).  The lemmas follow the code.  `FreshIdIsFree` says that
`CacheIdGenerator::next()` comes by every ID and stops at one that is not in use,
if there is one.  For each operation on the tree there is a lemma that it keeps the
tree sound, `EnterChildInv`, `AddToListInv`, `AddVolumeInv`, `RemoveFromListInv`,
`ReinsertDeviceListInv`, `ReinsertVolumeListInv`, `DiscardInv`; loops go by induction
on their steps (`FollowPathInv` for the components of a path, `FilledInv` for the
devices MounTA reports).  The actions combine them.

The invariant of `LinksAreRight` is `StateInv`.  `TreeSound` is not inductive.  `ParentsRight` says in
addition what the parent pointer of a list refers to, and which class that makes the
list; `LinksRight` is the first half of `TreeSound` with the class of the child.
`Matched` says that the list of a device's volumes has as many items as the device
has volumes: without it, a volume that is added at its position among the volumes
would be put outside the list.  It does not hold between `add_volume()` and
`reinsert_volume_list()`, so that the lemmas ask for it only where it is needed.  In
the middle of an operation the last free ID may be given away (`Full`); of such a
tree `TreeInv` keeps the type only, and the guards on `MaxLists` leave out the steps
that would end in one.  The proof depends on `obliviate_child()`: with items
that keep the IDs of discarded lists a step of it fails, as TLC finds `TreeSound`
violated.

The other four theorems share `ViewInv`, which relates the tree to what the client
knows, to what is mounted, and to the signals underway:

* `RightFor`: there is an assignment of places to lists, `pl`, for which `Proper` and
  `ViewRight` hold.  `Place` of the model climbs from a list to the root, as the
  code does, and says nothing of a tree in the middle of an operation, when lists
  are cut off or have two IDs.  `pl` is told by each item of the list it links to
  (`Placed`), and an operation only has to say what becomes of it; `PlaceRight` shows
  that it is `Place` wherever the model asks for a place.  `Reached` are the
  lists some item links to; the others, directories that could not be read, are
  empty (`StraysEmpty`), and no client is told their IDs.  `Listed` and
  `VolumesListed` say that devices are listed once, their volumes in order, and that
  a list of volumes entered earlier shows the same.
* `Stored`: directories are as they are on their device, except on devices in
  `Unsure`.  These are the devices whose removal is still to be handled: one may
  have been pulled and plugged in again with another medium while the broker still
  shows the directories of the first.  If `GetAll()` failed, they are all devices.
* `Synced`: whatever differs between the list and MounTA is announced by a signal on
  its way (`InTouch`).  A device that is present is listed and its removal is not
  announced, or its arrival is announced and no removal after that; a listed device
  that is gone has its removal announced; likewise for volumes.  Hence, when no
  signal is left, nothing differs, which is `InStep`.  It has to know the order of
  signals, as a device may be pulled and plugged in any number of times before the
  broker gets to the first of them.  Before `GetAll()` the broker will look at
  everything there is.

What a handler does to the tree is told by `Answered`: the signals `ListInvalidate`
that it sends (`tree.inv`) turn what the client knew of the old tree into what is
right of the new one (`FollowRight`).  The signals about lists that are gone come
before the one about a new ID, so that an ID which a handler frees and gives away
again is forgotten before it is told anew.  `TypeOK` needs in addition that MounTA
mounts only volumes there are (`BoundInv`).  `ReadsAgree` follows from `ViewInv` without
induction: each call is compared with the place and the items of its list.

### What is only model-checked

Liveness, and with it the half of `ImplementsRNF` that is the fairness of `RNF`
(checked on one queue), since ENABLED is beyond TLAPS; `Reconnects` and `ReaderLive` likewise.  All about
the cache, whose order of collection is a recursive definition over sequences.  Of
USB lists, what locations lead to (`KeysRoundTrip`, `RealizeFindsTarget`): a location
names devices and volumes, and the search takes the first item of that name, so that
both hold only where the names of devices and of the volumes of a device differ, as
they do in `usb_keys`.  `TreeSound` and `Proper` are proved of the trees that
realizing leaves behind, whatever it finds.  Of tiled lists, what depends on the
items in a tile: `TypeOK`, `WindowSound` and `DeliversRequestedItems` do not hold of
ranges over three tiles, nor of lists whose last tile is not full (see above).

## Not modelled

Left out for good: strings and URLs, D-Bus registration, error texts, logging,
daemonising and options, the conversion of D-Bus replies to items and of the
items' properties to URIs; `CheckWithOverrides` and the readiness probes, which
only tests use.  In the modelled parts: `WorkQueue::clear()` and synchronous queues
(tests only), notification mode NEVER, cookies fetched with the wrong method,
wraparound of cookies, `set_object_size()` (tests only), `self_check()` and
`dump()`, the mode of `purge_subtree()` that replaces the root of the subtree (no
caller); the context and cacheable bits of list IDs, which both brokers leave at
one value; parameterized lists and ranked stream links, which both answer with
`NOT_SUPPORTED`, and locations of the UPnP broker, which are not implemented;
synchronous mode and shutdown of the pool of fillers, and the lookup of an item of
a tiled list by its child list.  Accesses of several threads to one list without a
lock are undefined behaviour beyond the models.

## Plan

Modules: `ReplyPath`, `AsyncWork`, `RNF`; `LRUCache`, `ListCache`;
`TileWindow`, `TiledList`; `UsbLists`, `UsbLocations`, `UsbBroker`;
`ServerDiscovery`.

Proofs done: all safety properties of `AsyncWork` (some for well-behaved clients
only) and of `ServerDiscovery`; the states of tiles, their
places in queue, pool and window, and the assertions of `TiledList`; of the USB
broker everything but what locations lead to.

Next, in this order:

1. Proofs: `KeysRoundTrip` of the USB broker, for devices and volumes of different
   names; `WindowSound` of lists of full tiles.
2. Shutdown of the pool of fillers against the work queues.
3. An abstract cache (a tree with a last-use order) that `ListCache` implements.
