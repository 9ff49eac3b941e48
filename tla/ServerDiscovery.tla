--------------------------- MODULE ServerDiscovery --------------------------
(***************************************************************************)
(* How the UPnP broker keeps its list of servers: the connection to dLeyna *)
(* (src/dlna/dbus_upnp_iface.cc), the signals FoundServer and LostServer   *)
(* (dbus_upnp_handlers.cc), the proxies that are created for each server   *)
(* and may be canceled (servers_lost_and_found.hh, upnp_list.cc), and the  *)
(* periodic rescan (periodic_rescan.cc).                                   *)
(*                                                                         *)
(* The messages of a D-Bus connection arrive in the order in which they    *)
(* were sent, signals and replies alike, and the main loop handles them in *)
(* that order.  What becomes of the lists below a server that is removed   *)
(* is the subject of module ListCache.                                     *)
(***************************************************************************)
EXTENDS Naturals, Sequences, FiniteSets, SequencesExt, FiniteSetsExt

CONSTANTS Servers,      \* the servers (D-Bus object paths) that may show up
          Local,        \* those that run on this very host
          MaxUnderway   \* bound on messages underway and proxies awaited

ASSUME ServerDiscoveryAssumption ==
    /\ IsFiniteSet(Servers)
    /\ Local \subseteq Servers
    /\ MaxUnderway \in Nat \ {0}

(***************************************************************************)
(* dleyna is the service with the servers it exports, bus what is on its   *)
(* way to the broker, and reqs the requests that are still to be answered. *)
(* iface is the proxy of dLeyna's manager ("connecting" stands for         *)
(* is_connecting), list the list of servers, added the queues of           *)
(* ServersLostAndFound, rescan the state of PeriodicRescan.  missed is not *)
(* in the code: servers whose coming or going has passed the broker by,    *)
(* because it had no manager proxy at that time, or because the proxy for  *)
(* the server could not be created.                                        *)
(***************************************************************************)
VARIABLES dleyna, bus, reqs, iface, list, added, rescan, missed

vars == <<dleyna, bus, reqs, iface, list, added, rescan, missed>>

FoundServer(s) == [kind |-> "found", server |-> s]
LostServer(s)  == [kind |-> "lost", server |-> s]
Vanished       == [kind |-> "vanished"]
ForManager     == [kind |-> "manager"]
ForRescan      == [kind |-> "rescan"]
ForDevice(s, serial) == [kind |-> "device", server |-> s, serial |-> serial]
Reply(req, ok) == [kind |-> "reply", to |-> req, ok |-> ok]

(***************************************************************************)
(* bus_acquired() watches dLeyna's name, with a handler for its loss only: *)
(* it is called at once if there is no dLeyna; if there is one, nothing    *)
(* happens until it goes.                                                  *)
(***************************************************************************)
Init ==
    /\ \/ /\ dleyna = [up |-> FALSE, exported |-> {}]
          /\ bus = <<Vanished>>
       \/ /\ dleyna \in [up : {TRUE}, exported : SUBSET Servers]
          /\ bus = <<>>
    /\ reqs = <<>>
    /\ iface = "none"
    /\ list = <<>>
    /\ added = [s \in Servers |-> <<>>]
    /\ rescan = [timer |-> FALSE, inhibited |-> FALSE]
    /\ missed = dleyna.exported

-----------------------------------------------------------------------------
(* dLeyna and the bus *)

Underway == Len(bus) + Len(reqs) + FoldSet(LAMBDA s, n : n + Len(added[s]), 0, Servers)

Room == Underway < MaxUnderway

broker == <<iface, list, added, rescan, missed>>

Start ==
    /\ ~dleyna.up
    /\ dleyna' = [dleyna EXCEPT !.up = TRUE]
    /\ UNCHANGED <<bus, reqs, broker>>

Appear(s) ==
    /\ dleyna.up /\ s \notin dleyna.exported /\ Room
    /\ dleyna' = [dleyna EXCEPT !.exported = @ \cup {s}]
    /\ bus' = Append(bus, FoundServer(s))
    /\ UNCHANGED <<reqs, broker>>

Disappear(s) ==
    /\ s \in dleyna.exported /\ Room
    /\ dleyna' = [dleyna EXCEPT !.exported = @ \ {s}]
    /\ bus' = Append(bus, LostServer(s))
    /\ UNCHANGED <<reqs, broker>>

(* What dLeyna leaves unanswered is answered with an error by the bus. *)
Crash ==
    /\ dleyna.up /\ Room
    /\ dleyna' = [up |-> FALSE, exported |-> {}]
    /\ bus' = Append(bus, Vanished)
                 \o [n \in 1..Len(reqs) |-> Reply(reqs[n], FALSE)]
    /\ reqs' = <<>>
    /\ UNCHANGED broker

(***************************************************************************)
(* The proxy of an object that is not exported has no properties, like the *)
(* proxy of one that does not answer in time.  The manager's proxy may be  *)
(* created without a dLeyna, it must be if there is one.                   *)
(***************************************************************************)
Answers(req) ==
    CASE req.kind = "device"  -> IF req.server \in dleyna.exported THEN BOOLEAN ELSE {FALSE}
      [] req.kind = "manager" -> IF dleyna.up THEN {TRUE} ELSE BOOLEAN
      [] req.kind = "rescan"  -> {dleyna.up}

AnswerWith(ok) ==
    /\ reqs # <<>>
    /\ ok \in Answers(Head(reqs))
    /\ bus' = Append(bus, Reply(Head(reqs), ok))
    /\ reqs' = Tail(reqs)
    /\ UNCHANGED <<dleyna, broker>>

Answer == AnswerWith(TRUE) \/ AnswerWith(FALSE)

-----------------------------------------------------------------------------
(* ServersLostAndFound *)

CancelLast(queue) == IF queue = <<>> THEN queue ELSE [queue EXCEPT ![Len(queue)].cancelled = TRUE]

(* The calls which have not returned yet. *)
Calls == ToSet(reqs) \cup {m.to : m \in {x \in ToSet(bus) : x.kind = "reply"}}

(* next_serial_++: all that counts is that it is not in use. *)
InUse == (UNION {{e.serial : e \in ToSet(added[s])} : s \in Servers})
            \cup {c.serial : c \in {x \in Calls : x.kind = "device"}}

NextSerial == CHOOSE n \in 0..Cardinality(InUse) : n \notin InUse

ServerFound(queue, serial) == Append(CancelLast(queue), [serial |-> serial, cancelled |-> FALSE])

(* Mutant: the proxy of a server that is gone is still awaited. *)
ServerLost_Ignored(queue) == queue

ServerLost(queue) == CancelLast(queue)

ServerProcessed(queue, serial) == RemoveFirstMatch(queue, LAMBDA e : e.serial = serial)

Live(s) == {e \in ToSet(added[s]) : ~e.cancelled}

Awaited(queues) == {s \in Servers : \E e \in ToSet(queues[s]) : ~e.cancelled}

-----------------------------------------------------------------------------
(* The broker's main loop *)

Delivered(kind) == bus # <<>> /\ Head(bus).kind = kind /\ bus' = Tail(bus)

(* dleynaserver_manager_signal(), connected to the manager's proxy only *)
HandleFoundServer ==
    /\ Delivered("found")
    /\ LET s == Head(bus).server
       IN \/ /\ iface = "connected"
             /\ added' = [added EXCEPT ![s] = ServerFound(@, NextSerial)]
             /\ reqs' = Append(reqs, ForDevice(s, NextSerial))
             /\ missed' = missed \ {s}
          \/ /\ iface # "connected"
             /\ missed' = missed \cup {s}
             /\ UNCHANGED <<added, reqs>>
    /\ UNCHANGED <<dleyna, iface, list, rescan>>

HandleLostServer ==
    /\ Delivered("lost")
    /\ LET s == Head(bus).server
       IN \/ /\ iface = "connected"
             /\ added' = [added EXCEPT ![s] = ServerLost(@)]
             /\ list' = RemoveFirst(list, s)
             /\ missed' = missed \ {s}
          \/ /\ iface # "connected"
             /\ missed' = missed \cup {s}
             /\ UNCHANGED <<added, list>>
    /\ UNCHANGED <<dleyna, reqs, iface, rescan>>

(***************************************************************************)
(* media_device_proxy_connected().  The proxy is there if the call was not *)
(* canceled; a reply to a call whose cancelation has been handled already  *)
(* is ignored.                                                             *)
(***************************************************************************)
HandleDeviceProxy ==
    /\ Delivered("reply")
    /\ Head(bus).to.kind = "device"
    /\ LET s == Head(bus).to.server
           serial == Head(bus).to.serial
           awaited == \E e \in Live(s) : e.serial = serial
           proxy == Head(bus).ok /\ awaited
       IN /\ list' = IF proxy /\ s \notin ToSet(list) \cup Local THEN Append(list, s) ELSE list
          /\ missed' = IF awaited /\ ~proxy THEN missed \cup {s} ELSE missed
          /\ added' = [added EXCEPT ![s] = ServerProcessed(@, serial)]
    /\ UNCHANGED <<dleyna, reqs, iface, rescan>>

(* The cancelation of a call is reported to media_device_proxy_connected(). *)
HandleCancelled(s) ==
    /\ \E e \in ToSet(added[s]) : e.cancelled /\ added' = [added EXCEPT ![s] = ServerProcessed(@, e.serial)]
    /\ UNCHANGED <<dleyna, bus, reqs, iface, list, rescan, missed>>

(* PeriodicRescan::enable(), disable() *)
Enable  == [timer |-> TRUE, inhibited |-> FALSE]
Disable == [rescan EXCEPT !.timer = FALSE]

Connect == iface' = "connecting" /\ reqs' = Append(reqs, ForManager)

(* Mutant: what the list showed when dLeyna went stays there. *)
Clear_Kept == UNCHANGED <<list, added>>

(* ListTree::clear(): what is in the list is removed; proxies that are     *)
(* awaited for other servers are left alone.                               *)
Clear ==
    /\ added' = [s \in Servers |-> IF s \in ToSet(list) THEN ServerLost(added[s]) ELSE added[s]]
    /\ list' = <<>>

(* vanished(): while the manager's proxy is being created, another loss of *)
(* dLeyna is ignored, and so is what may have got into the list meanwhile. *)
HandleVanished ==
    /\ Delivered("vanished")
    /\ \/ /\ iface = "connecting"
          /\ missed' = ToSet(list) \cup Awaited(added)
          /\ UNCHANGED <<iface, reqs, list, added, rescan>>
       \/ /\ iface = "none"
          /\ Connect
          /\ missed' = {}
          /\ UNCHANGED <<list, added, rescan>>
       \/ /\ iface = "connected"
          /\ rescan' = Disable
          /\ Clear
          /\ Connect
          /\ missed' = Awaited(added')
    /\ UNCHANGED dleyna

(* Mutant: without a proxy there is no second attempt. *)
HandleManagerProxy_GivesUp ==
    /\ Delivered("reply")
    /\ Head(bus).to.kind = "manager"
    /\ \/ /\ Head(bus).ok
          /\ iface' = "connected"
          /\ rescan' = Enable
       \/ /\ ~Head(bus).ok
          /\ iface' = "none"
          /\ UNCHANGED rescan
    /\ UNCHANGED <<dleyna, reqs, list, added, missed>>

(* created_dleyna_proxy(), which on failure calls vanished() *)
HandleManagerProxy ==
    /\ Delivered("reply")
    /\ Head(bus).to.kind = "manager"
    /\ \/ /\ Head(bus).ok
          /\ iface' = "connected"
          /\ rescan' = Enable
          /\ UNCHANGED reqs
       \/ /\ ~Head(bus).ok
          /\ Connect
          /\ UNCHANGED rescan
    /\ UNCHANGED <<dleyna, list, added, missed>>

RescanNow ==
    /\ rescan.timer /\ ~rescan.inhibited
    /\ rescan' = [rescan EXCEPT !.inhibited = TRUE]
    /\ reqs' = Append(reqs, ForRescan)
    /\ UNCHANGED <<dleyna, bus, iface, list, added, missed>>

(* Mutant: a rescan that has failed holds back all others. *)
RescanDone_Succeeded ==
    /\ Delivered("reply")
    /\ Head(bus).to.kind = "rescan"
    /\ rescan' = [rescan EXCEPT !.inhibited = ~Head(bus).ok]
    /\ UNCHANGED <<dleyna, reqs, iface, list, added, missed>>

RescanDone ==
    /\ Delivered("reply")
    /\ Head(bus).to.kind = "rescan"
    /\ rescan' = [rescan EXCEPT !.inhibited = FALSE]
    /\ UNCHANGED <<dleyna, reqs, iface, list, added, missed>>

-----------------------------------------------------------------------------
Environment == Start \/ Crash \/ Answer \/ \E s \in Servers : Appear(s) \/ Disappear(s)

Dispatch == \/ HandleFoundServer \/ HandleLostServer \/ HandleDeviceProxy
            \/ HandleVanished \/ HandleManagerProxy \/ RescanDone

Next == \/ Environment
        \/ Dispatch
        \/ RescanNow
        \/ \E s \in Servers : HandleCancelled(s)

(***************************************************************************)
(* The main loop handles what arrives, and each call ends, if only by its  *)
(* timeout.  The bus, which starts dLeyna on demand, does not fail forever *)
(* to create the manager's proxy, though dLeyna may keep crashing.         *)
(***************************************************************************)
Fairness == WF_vars(Dispatch) /\ WF_vars(Answer) /\ SF_vars(AnswerWith(TRUE))

Spec == Init /\ [][Next]_vars /\ Fairness

-----------------------------------------------------------------------------
(***************************************************************************)
(* Whatever the order in which servers come and go, are announced, looked  *)
(* up and canceled, and whenever dLeyna crashes and restarts: once all     *)
(* that has arrived is handled, the broker lists the servers that dLeyna   *)
(* exports, except for those that have come or gone unnoticed and those    *)
(* whose proxies are still being created.  Servers of this host are never  *)
(* listed.                                                                 *)
(***************************************************************************)
ListFollows ==
    /\ bus = <<>> =>
          \A s \in Servers \ (Local \cup missed) :
             Live(s) = {} => (s \in ToSet(list) <=> s \in dleyna.exported)
    /\ ToSet(list) \cap Local = {}

(***************************************************************************)
(* At most one proxy per server is awaited, the one asked for last, whose  *)
(* reply is still to come; all others are canceled ("so that misbehaving   *)
(* UPnP servers cannot exhaust our memory"), and so is this one as soon as *)
(* the server is reported lost.  No server is listed twice.                *)
(***************************************************************************)
LostAndFoundSound ==
    /\ \A s \in Servers : \A n \in DOMAIN added[s] :
          ~added[s][n].cancelled =>
             /\ n = Len(added[s])
             /\ ForDevice(s, added[s][n].serial) \in Calls
             /\ s \in dleyna.exported \cup missed \/ {LostServer(s), Vanished} \cap ToSet(bus) # {}
    /\ IsInjective(list)

(* Calls of a kind that are still to be answered, replies to such calls *)
Requested(kind) == {n \in 1..Len(reqs) : reqs[n].kind = kind}
Replied(kind) == {n \in 1..Len(bus) : bus[n].kind = "reply" /\ bus[n].to.kind = kind}

(***************************************************************************)
(* The timer of the periodic rescan runs exactly while there is a manager, *)
(* so that neither rescan_now() finds none nor enable() and disable() are  *)
(* called twice, and another rescan is held back exactly while one is      *)
(* underway, also if dLeyna has crashed during a rescan.                   *)
(***************************************************************************)
RescanSound ==
    /\ rescan.timer <=> iface = "connected"
    /\ Cardinality(Requested("rescan")) + Cardinality(Replied("rescan"))
          = IF rescan.inhibited THEN 1 ELSE 0

(***************************************************************************)
(* A broker that has noticed the loss of dLeyna gets its manager again.    *)
(***************************************************************************)
Reconnects == iface = "connecting" ~> iface = "connected"
=============================================================================
