------------------------ MODULE ServerDiscoveryProofs ------------------------
(***************************************************************************)
(* Proofs about ServerDiscovery, for any number of servers and of messages *)
(* underway: the list of servers follows dLeyna, the queues of proxies are *)
(* sound, and there is one rescan and one connection attempt at a time.    *)
(***************************************************************************)
EXTENDS ServerDiscovery, SequenceLemmas

Requests == {ForManager, ForRescan} \cup {ForDevice(s, n) : s \in Servers, n \in Nat}
Messages == {Vanished} \cup {FoundServer(s) : s \in Servers}
               \cup {LostServer(s) : s \in Servers}
               \cup {Reply(r, ok) : r \in Requests, ok \in BOOLEAN}
Entries == [serial : Nat, cancelled : BOOLEAN]

BusTypes ==
    /\ dleyna \in [up : BOOLEAN, exported : SUBSET Servers]
    /\ bus \in Seq(Messages)
    /\ reqs \in Seq(Requests)

BrokerTypes ==
    /\ iface \in {"none", "connecting", "connected"}
    /\ list \in Seq(Servers)
    /\ added \in [Servers -> Seq(Entries)]
    /\ rescan \in [timer : BOOLEAN, inhibited : BOOLEAN]
    /\ missed \in SUBSET Servers

TypeInv == BusTypes /\ BrokerTypes

-----------------------------------------------------------------------------
(* The manager's proxy and the rescan are asked for once at a time; what   *)
(* is asked for after a rescan is answered after it as well.               *)
Single(kind) ==
    /\ \A m, n \in Requested(kind) : m = n
    /\ \A m, n \in Replied(kind) : m = n
    /\ Requested(kind) = {} \/ Replied(kind) = {}

Pending(kind) == Requested(kind) # {} \/ Replied(kind) # {}

ManagerLast ==
    /\ \A n \in Requested("manager") : \A m \in Requested("rescan") : m < n
    /\ \A n \in Replied("manager") :
          Requested("rescan") = {} /\ \A m \in Replied("rescan") : m < n

CallsInv ==
    /\ Single("manager") /\ Single("rescan") /\ ManagerLast
    /\ Pending("manager") <=> iface = "connecting"
    /\ Pending("rescan") <=> rescan.inhibited
    /\ rescan.timer <=> iface = "connected"

-----------------------------------------------------------------------------
(* A queue of proxies: only the last one may be wanted, and their serial   *)
(* numbers differ.                                                         *)
Sound(queue) ==
    /\ \A n \in 1..Len(queue) : ~queue[n].cancelled => n = Len(queue)
    /\ \A m, n \in 1..Len(queue) : queue[m].serial = queue[n].serial => m = n

(* Wanted proxies are being created. *)
QueuesInv ==
    /\ \A s \in Servers : Sound(added[s])
    /\ \A s \in Servers : \A e \in Live(s) : ForDevice(s, e.serial) \in Calls

-----------------------------------------------------------------------------
(* Messages that tell whether or not server s is there; the last of them   *)
(* on the bus tells the truth, and if there is none, then the broker knows *)
(* already unless it has missed something.                                 *)
Concerns(m, s) == m.kind = "vanished" \/ (m.kind \in {"found", "lost"} /\ m.server = s)

LastWord(i, s) ==
    /\ Concerns(bus[i], s)
    /\ \A j \in 1..Len(bus) : Concerns(bus[j], s) => j <= i

Silent(s) == \A i \in 1..Len(bus) : ~Concerns(bus[i], s)

BusInv ==
    \A s \in Servers : \A i \in 1..Len(bus) :
        LastWord(i, s) => (bus[i].kind = "found" <=> s \in dleyna.exported)

Known(s) ==
    /\ Live(s) # {} \/ s \in ToSet(list) => s \in dleyna.exported
    /\ s \in dleyna.exported \ Local => Live(s) # {} \/ s \in ToSet(list)

ListInv ==
    /\ \A s \in Servers \ missed : Silent(s) => Known(s)
    /\ IsInjective(list) /\ ToSet(list) \cap Local = {}
    /\ iface = "none" => list = <<>> /\ \A s \in Servers : added[s] = <<>>

DiscoveryInv == TypeInv /\ CallsInv /\ QueuesInv /\ BusInv /\ ListInv

-----------------------------------------------------------------------------
(* Messages and calls are told apart by their kind. *)
LEMMA RequestForms ==
    /\ \A r \in Requests : r.kind \in {"manager", "rescan", "device"}
    /\ \A r \in Requests : r.kind = "device" =>
          r.server \in Servers /\ r.serial \in Nat /\ r = ForDevice(r.server, r.serial)
    /\ ForManager \in Requests /\ ForManager.kind = "manager"
    /\ ForRescan \in Requests /\ ForRescan.kind = "rescan"
    /\ \A s \in Servers, n \in Nat :
          /\ ForDevice(s, n) \in Requests /\ ForDevice(s, n).kind = "device"
          /\ ForDevice(s, n).server = s /\ ForDevice(s, n).serial = n
<1>1. ASSUME NEW r \in Requests
      PROVE  /\ r.kind \in {"manager", "rescan", "device"}
             /\ r.kind = "device" =>
                   r.server \in Servers /\ r.serial \in Nat /\ r = ForDevice(r.server, r.serial)
  BY DEF Requests, ForManager, ForRescan, ForDevice
<1>2. /\ ForManager \in Requests /\ ForManager.kind = "manager"
      /\ ForRescan \in Requests /\ ForRescan.kind = "rescan"
  BY DEF Requests, ForManager, ForRescan
<1>3. ASSUME NEW s \in Servers, NEW n \in Nat
      PROVE  /\ ForDevice(s, n) \in Requests /\ ForDevice(s, n).kind = "device"
             /\ ForDevice(s, n).server = s /\ ForDevice(s, n).serial = n
  <2>1. ForDevice(s, n) \in Requests
    BY DEF Requests
  <2> QED
    BY <2>1 DEF ForDevice
<1> QED
  BY <1>1, <1>2, <1>3

LEMMA MessageForms ==
    /\ \A m \in Messages : m.kind \in {"vanished", "found", "lost", "reply"}
    /\ \A m \in Messages : m.kind = "vanished" => m = Vanished
    /\ \A m \in Messages : m.kind = "found" =>
          m.server \in Servers /\ m = FoundServer(m.server)
    /\ \A m \in Messages : m.kind = "lost" =>
          m.server \in Servers /\ m = LostServer(m.server)
    /\ \A m \in Messages : m.kind = "reply" => m.to \in Requests /\ m.ok \in BOOLEAN
  BY DEF Messages, Vanished, FoundServer, LostServer, Reply

LEMMA NewMessages ==
    /\ Vanished \in Messages /\ Vanished.kind = "vanished"
    /\ \A s \in Servers :
          /\ FoundServer(s) \in Messages
          /\ FoundServer(s).kind = "found" /\ FoundServer(s).server = s
          /\ LostServer(s) \in Messages
          /\ LostServer(s).kind = "lost" /\ LostServer(s).server = s
    /\ \A r \in Requests, ok \in BOOLEAN :
          /\ Reply(r, ok) \in Messages
          /\ Reply(r, ok).kind = "reply" /\ Reply(r, ok).to = r /\ Reply(r, ok).ok = ok
<1>1. Vanished \in Messages /\ Vanished.kind = "vanished"
  BY DEF Messages, Vanished
<1>2. ASSUME NEW s \in Servers
      PROVE  /\ FoundServer(s) \in Messages
             /\ FoundServer(s).kind = "found" /\ FoundServer(s).server = s
             /\ LostServer(s) \in Messages
             /\ LostServer(s).kind = "lost" /\ LostServer(s).server = s
  <2>1. FoundServer(s) \in Messages /\ LostServer(s) \in Messages
    BY DEF Messages
  <2> QED
    BY <2>1 DEF FoundServer, LostServer
<1>3. ASSUME NEW r \in Requests, NEW ok \in BOOLEAN
      PROVE  /\ Reply(r, ok) \in Messages
             /\ Reply(r, ok).kind = "reply" /\ Reply(r, ok).to = r /\ Reply(r, ok).ok = ok
  <2>1. Reply(r, ok) \in Messages
    BY DEF Messages
  <2> QED
    BY <2>1 DEF Reply
<1> QED
  BY <1>1, <1>2, <1>3

-----------------------------------------------------------------------------
(* ServersLostAndFound *)

LEMMA CanceledLast ==
    ASSUME NEW q \in Seq(Entries), Sound(q)
    PROVE  /\ CancelLast(q) \in Seq(Entries) /\ Sound(CancelLast(q))
           /\ Len(CancelLast(q)) = Len(q)
           /\ \A n \in 1..Len(q) :
                 CancelLast(q)[n].serial = q[n].serial /\ CancelLast(q)[n].cancelled
<1>1. CASE q = <<>>
  BY <1>1 DEF CancelLast
<1>2. CASE q # <<>>
  <2> DEFINE c == [q EXCEPT ![Len(q)].cancelled = TRUE]
  <2>1. Len(q) \in Nat /\ Len(q) \in 1..Len(q) /\ \A n \in 1..Len(q) : q[n] \in Entries
    BY <1>2
  <2>2. c \in Seq(Entries) /\ Len(c) = Len(q)
    <3> DEFINE e == [q[Len(q)] EXCEPT !.cancelled = TRUE]
    <3>1. e \in Entries
      BY <2>1 DEF Entries
    <3>2. c = [q EXCEPT ![Len(q)] = e]
      OBVIOUS
    <3> HIDE DEF e, c
    <3> QED
      BY <2>1, <3>1, <3>2, ExceptSeq
  <2>3. \A n \in 1..Len(q) : n # Len(q) => c[n] = q[n]
    BY <2>1
  <2>4. c[Len(q)].serial = q[Len(q)].serial /\ c[Len(q)].cancelled = TRUE
    BY <2>1 DEF Entries
  <2> HIDE DEF c
  <2>5. \A n \in 1..Len(q) : c[n].serial = q[n].serial /\ c[n].cancelled
    BY <2>1, <2>3, <2>4 DEF Sound
  <2>6. Sound(c)
    BY <2>2, <2>5 DEF Sound
  <2> QED
    BY <1>2, <2>2, <2>5, <2>6 DEF CancelLast, c
<1> QED
  BY <1>1, <1>2

LEMMA Found ==
    ASSUME NEW q \in Seq(Entries), Sound(q), NEW k \in Nat,
           \A n \in 1..Len(q) : q[n].serial # k
    PROVE  /\ ServerFound(q, k) \in Seq(Entries) /\ Sound(ServerFound(q, k))
           /\ {e \in ToSet(ServerFound(q, k)) : ~e.cancelled}
                 = {[serial |-> k, cancelled |-> FALSE]}
<1> DEFINE c == CancelLast(q)
           x == [serial |-> k, cancelled |-> FALSE]
           f == Append(c, x)
<1>1. /\ c \in Seq(Entries) /\ Len(c) = Len(q)
      /\ \A n \in 1..Len(c) : c[n].serial = q[n].serial /\ c[n].cancelled
  BY CanceledLast
<1>2. x \in Entries /\ x.serial = k /\ ~x.cancelled
  BY DEF Entries
<1> HIDE DEF c, x
<1>3. /\ f \in Seq(Entries) /\ Len(f) = Len(c) + 1 /\ f[Len(c) + 1] = x
      /\ \A n \in 1..Len(c) : f[n] = c[n]
      /\ Len(c) \in Nat
  BY <1>1, <1>2, AppendTo
<1>4. ToSet(f) = ToSet(c) \cup {x} /\ DOMAIN c = 1..Len(c)
  BY <1>1, <1>2, AppendSet
<1> HIDE DEF f
<1>5. Sound(f)
  <2>1. ASSUME NEW n \in 1..Len(f)
        PROVE  \/ n \in 1..Len(q) /\ f[n].cancelled /\ f[n].serial = q[n].serial
               \/ n = Len(f) /\ f[n].serial = k
    BY <1>1, <1>2, <1>3
  <2>2. \A n \in 1..Len(f) : ~f[n].cancelled => n = Len(f)
    BY <2>1
  <2>3. ASSUME NEW m \in 1..Len(f), NEW n \in 1..Len(f), f[m].serial = f[n].serial
        PROVE  m = n
    BY <2>1, <2>3 DEF Sound
  <2> QED
    BY <2>2, <2>3 DEF Sound
<1>6. {e \in ToSet(f) : ~e.cancelled} = {x}
  BY <1>1, <1>2, <1>4 DEF ToSet
<1> QED
  BY <1>3, <1>5, <1>6 DEF ServerFound, f, c, x

LEMMA Processed ==
    ASSUME NEW q \in Seq(Entries), Sound(q), NEW k
    PROVE  /\ ServerProcessed(q, k) \in Seq(Entries) /\ Sound(ServerProcessed(q, k))
           /\ ToSet(ServerProcessed(q, k)) = {e \in ToSet(q) : e.serial # k}
<1>1. DOMAIN q = 1..Len(q)
  OBVIOUS
<1>2. CASE \E i \in 1..Len(q) : q[i].serial = k
  <2>1. PICK i \in 1..Len(q) : q[i].serial = k
    BY <1>2
  <2>2. SelectInSeq(q, LAMBDA e : e.serial = k) = i
    <3>1. {j \in 1..Len(q) : q[j].serial = k} = {i}
      BY <2>1 DEF Sound
    <3>2. Min({i}) = i
      BY DEF Min
    <3> QED
      BY <3>1, <3>2 DEF SelectInSeq
  <2>3. ServerProcessed(q, k) = RemoveAt(q, i)
    BY <1>2, <2>2 DEF ServerProcessed, RemoveFirstMatch
  <2> DEFINE t == RemoveAt(q, i)
  <2>4. /\ t \in Seq(Entries) /\ DOMAIN t = 1..Len(q) - 1 /\ Len(t) = Len(q) - 1
        /\ \A j \in 1..Len(q) - 1 : t[j] = IF j < i THEN q[j] ELSE q[j + 1]
    BY RemoveOne
  <2> HIDE DEF t
  <2>5. ASSUME NEW y \in ToSet(t) PROVE y \in ToSet(q) /\ y.serial # k
    <3>1. PICK j \in 1..Len(q) - 1 : y = t[j]
      BY <2>4 DEF ToSet
    <3>2. PICK n \in 1..Len(q) : n # i /\ y = q[n]
      BY <2>4, <3>1
    <3> QED
      BY <1>1, <2>1, <3>2 DEF ToSet, Sound
  <2>6. ASSUME NEW y \in ToSet(q), y.serial # k PROVE y \in ToSet(t)
    <3>1. PICK n \in 1..Len(q) : y = q[n]
      BY <1>1 DEF ToSet
    <3>2. n # i
      BY <2>1, <2>6, <3>1
    <3>3. CASE n < i
      <4>1. n \in 1..Len(q) - 1 /\ t[n] = y
        BY <2>4, <3>1, <3>3
      <4> QED
        BY <2>4, <4>1 DEF ToSet
    <3>4. CASE n > i
      <4>1. n - 1 \in 1..Len(q) - 1 /\ t[n - 1] = y
        BY <2>4, <3>1, <3>4
      <4> QED
        BY <2>4, <4>1 DEF ToSet
    <3> QED
      BY <3>2, <3>3, <3>4
  <2>7. Sound(t)
    <3> DEFINE old(j) == IF j < i THEN j ELSE j + 1
    <3>1. ASSUME NEW n \in 1..Len(t)
          PROVE  old(n) \in 1..Len(q) /\ t[n] = q[old(n)]
      BY <2>4
    <3>2. ASSUME NEW n \in 1..Len(t), ~t[n].cancelled PROVE n = Len(t)
      <4>1. old(n) = Len(q)
        BY <3>1, <3>2 DEF Sound
      <4> QED
        BY <2>4, <4>1
    <3>3. ASSUME NEW m \in 1..Len(t), NEW n \in 1..Len(t), t[m].serial = t[n].serial
          PROVE  m = n
      <4>1. old(m) = old(n)
        <5>1. /\ old(m) \in 1..Len(q) /\ old(n) \in 1..Len(q)
              /\ q[old(m)].serial = q[old(n)].serial
          BY <3>1, <3>3
        <5> HIDE DEF old
        <5> QED
          BY <5>1 DEF Sound
      <4> QED
        BY <2>4, <4>1
    <3> QED
      BY <3>2, <3>3 DEF Sound
  <2> QED
    BY <2>3, <2>4, <2>5, <2>6, <2>7 DEF t
<1>3. CASE ~\E i \in 1..Len(q) : q[i].serial = k
  <2>1. ServerProcessed(q, k) = q
    BY <1>3 DEF ServerProcessed, RemoveFirstMatch
  <2>2. \A e \in ToSet(q) : e.serial # k
    BY <1>1, <1>3 DEF ToSet
  <2> QED
    BY <2>1, <2>2
<1> QED
  BY <1>2, <1>3
-----------------------------------------------------------------------------
(* next_serial_++ comes up with a number that is not in use. *)

LEMMA FiniteInUse == TypeInv => IsFiniteSet(InUse)
<1> SUFFICES ASSUME TypeInv PROVE IsFiniteSet(InUse)
  OBVIOUS
<1>1. ASSUME NEW S, IsFiniteSet(S) PROVE IsFiniteSet({e.serial : e \in S})
  <2> DEFINE f == [e \in S |-> e.serial]
  <2>1. IsFiniteSet({f[x] : x \in S})
    BY <1>1, FiniteImage
  <2>2. {f[x] : x \in S} = {e.serial : e \in S}
    OBVIOUS
  <2> QED
    BY <2>1, <2>2
<1>2. IsFiniteSet(UNION {{e.serial : e \in ToSet(added[s])} : s \in Servers})
  <2> DEFINE g == [s \in Servers |-> {e.serial : e \in ToSet(added[s])}]
  <2>1. ASSUME NEW s \in Servers PROVE IsFiniteSet(g[s])
    <3>1. IsFiniteSet(ToSet(added[s]))
      BY FiniteElems DEF TypeInv, BrokerTypes
    <3> QED
      BY <1>1, <3>1
  <2>2. IsFiniteSet({g[s] : s \in Servers})
    BY ZenonT(40), FiniteImage, ServerDiscoveryAssumption
  <2>3. {g[s] : s \in Servers} = {{e.serial : e \in ToSet(added[s])} : s \in Servers}
    OBVIOUS
  <2> HIDE DEF g
  <2>4. IsFiniteSet(UNION {g[s] : s \in Servers})
    BY <2>1, <2>2, FS_UNION
  <2> QED
    BY <2>3, <2>4
<1>3. IsFiniteSet(Calls)
  <2>1. IsFiniteSet(ToSet(reqs)) /\ IsFiniteSet(ToSet(bus))
    BY FiniteElems DEF TypeInv, BusTypes
  <2> DEFINE f == [m \in ToSet(bus) |-> m.to]
  <2>2. IsFiniteSet({f[m] : m \in ToSet(bus)})
    BY <2>1, FiniteImage
  <2>3. {m.to : m \in {x \in ToSet(bus) : x.kind = "reply"}} \in SUBSET {f[m] : m \in ToSet(bus)}
    OBVIOUS
  <2>4. IsFiniteSet({m.to : m \in {x \in ToSet(bus) : x.kind = "reply"}})
    BY <2>2, <2>3, FS_Subset
  <2> QED
    BY <2>1, <2>4, FS_Union DEF Calls
<1>4. IsFiniteSet({x \in Calls : x.kind = "device"})
  BY <1>3, FS_Subset
<1>5. IsFiniteSet({c.serial : c \in {x \in Calls : x.kind = "device"}})
  BY <1>1, <1>4
<1> DEFINE A == UNION {{e.serial : e \in ToSet(added[s])} : s \in Servers}
           B == {c.serial : c \in {x \in Calls : x.kind = "device"}}
<1>6. IsFiniteSet(A) /\ IsFiniteSet(B)
  BY <1>2, <1>5
<1>7. IsFiniteSet(A \cup B)
  <2> HIDE DEF A, B
  <2> QED
    BY <1>6, FS_Union
<1> QED
  BY <1>7 DEF InUse

LEMMA FreshSerial ==
    TypeInv => /\ NextSerial \in Nat
               /\ \A s \in Servers : \A n \in 1..Len(added[s]) :
                     added[s][n].serial # NextSerial
<1> SUFFICES ASSUME TypeInv
             PROVE  /\ NextSerial \in Nat
                    /\ \A s \in Servers : \A n \in 1..Len(added[s]) :
                          added[s][n].serial # NextSerial
  OBVIOUS
<1>1. IsFiniteSet(InUse) /\ Cardinality(InUse) \in Nat
  BY FiniteInUse, FS_CardinalityType
<1>2. \E n \in 0..Cardinality(InUse) : n \notin InUse
  <2> SUFFICES ASSUME (0..Cardinality(InUse)) \in SUBSET InUse PROVE FALSE
    OBVIOUS
  <2>1. Cardinality(0..Cardinality(InUse)) = Cardinality(InUse) + 1
    BY <1>1, FS_Interval
  <2>2. Cardinality(0..Cardinality(InUse)) <= Cardinality(InUse)
    BY <1>1, FS_Subset
  <2> QED
    BY <1>1, <2>1, <2>2
<1>3. NextSerial \in 0..Cardinality(InUse) /\ NextSerial \notin InUse
  BY <1>2 DEF NextSerial
<1>4. ASSUME NEW s \in Servers, NEW n \in 1..Len(added[s]) PROVE added[s][n].serial \in InUse
  <2>1. added[s][n] \in ToSet(added[s])
    BY DEF ToSet, TypeInv, BrokerTypes
  <2> DEFINE numbers(x) == {e.serial : e \in ToSet(added[x])}
  <2>2. added[s][n].serial \in numbers(s) /\ numbers(s) \in {numbers(x) : x \in Servers}
    BY <2>1
  <2>3. added[s][n].serial \in UNION {numbers(x) : x \in Servers}
    BY <2>2
  <2> QED
    BY <2>3 DEF InUse
<1> QED
  BY <1>1, <1>3, <1>4

-----------------------------------------------------------------------------
(* How messages and calls move. *)

LEMMA Signaled ==
    ASSUME BusTypes, NEW m \in Messages, m.kind # "reply", bus' = Append(bus, m),
           reqs' = reqs
    PROVE  \A k : Requested(k)' = Requested(k) /\ Replied(k)' = Replied(k)
  BY AppendTo DEF BusTypes, Requested, Replied

LEMMA Answered ==
    ASSUME BusTypes, NEW m \in Messages, reqs # <<>>, m.kind = "reply", m.to = Head(reqs),
           bus' = Append(bus, m), reqs' = Tail(reqs)
    PROVE  /\ Len(bus) \in Nat
           /\ \A k : Requested(k)' = {n \in Nat \ {0} : n + 1 \in Requested(k)}
           /\ \A k : 1 \in Requested(k) <=> Head(reqs).kind = k
           /\ \A k : Requested(k) \subseteq Nat \ {0}
           /\ \A k : Replied(k) \subseteq 1..Len(bus)
           /\ \A k : Replied(k)' = Replied(k) \cup
                        (IF Head(reqs).kind = k THEN {Len(bus) + 1} ELSE {})
<1>1. /\ Len(bus) \in Nat /\ Len(bus') = Len(bus) + 1 /\ bus'[Len(bus) + 1] = m
      /\ \A i \in 1..Len(bus) : bus'[i] = bus[i]
  BY AppendTo DEF BusTypes
<1>2. /\ Len(reqs) \in Nat \ {0} /\ Len(reqs') = Len(reqs) - 1 /\ Head(reqs) = reqs[1]
      /\ \A i \in 1..Len(reqs') : i + 1 \in 1..Len(reqs) /\ reqs'[i] = reqs[i + 1]
  BY TakeFrom DEF BusTypes
<1>3. ASSUME NEW k PROVE Requested(k)' = {n \in Nat \ {0} : n + 1 \in Requested(k)}
  BY <1>2 DEF Requested
<1>4. ASSUME NEW k PROVE 1 \in Requested(k) <=> Head(reqs).kind = k
  BY <1>2 DEF Requested
<1>5. ASSUME NEW k PROVE /\ Requested(k) \subseteq Nat \ {0} /\ Replied(k) \subseteq 1..Len(bus)
                         /\ Replied(k)' = Replied(k) \cup
                              (IF Head(reqs).kind = k THEN {Len(bus) + 1} ELSE {})
  BY <1>1 DEF Requested, Replied
<1> QED
  BY <1>1, <1>3, <1>4, <1>5

LEMMA Crashed ==
    ASSUME BusTypes, Crash
    PROVE  /\ bus' \in Seq(Messages)
           /\ Len(bus) \in Nat /\ Len(reqs) \in Nat /\ Len(bus') = Len(bus) + 1 + Len(reqs)
           /\ \A i \in 1..Len(bus) : bus'[i] = bus[i]
           /\ bus'[Len(bus) + 1] = Vanished
           /\ \A n \in 1..Len(reqs) :
                 LET m == bus'[Len(bus) + 1 + n] IN m.kind = "reply" /\ m.to = reqs[n]
<1> DEFINE a == Append(bus, Vanished)
           b == [n \in 1..Len(reqs) |-> Reply(reqs[n], FALSE)]
<1>1. /\ a \in Seq(Messages) /\ Len(bus) \in Nat /\ Len(a) = Len(bus) + 1
      /\ a[Len(bus) + 1] = Vanished /\ \A i \in 1..Len(bus) : a[i] = bus[i]
  BY AppendTo, NewMessages DEF BusTypes
<1>2. Len(reqs) \in Nat /\ \A n \in 1..Len(reqs) : reqs[n] \in Requests
  BY DEF BusTypes
<1>3. \A n \in 1..Len(reqs) : b[n] \in Messages /\ b[n].kind = "reply" /\ b[n].to = reqs[n]
  BY <1>2, NewMessages
<1>4. b \in Seq(Messages) /\ Len(b) = Len(reqs)
  <2>1. b \in [1..Len(reqs) -> Messages]
    BY <1>3
  <2> HIDE DEF b
  <2> QED
    BY <1>2, <2>1, SeqDef
<1>5. bus' = a \o b
  BY DEF Crash
<1> HIDE DEF a, b
<1>6. /\ a \o b \in Seq(Messages) /\ Len(a \o b) = Len(a) + Len(b)
      /\ \A i \in 1..Len(a) + Len(b) : (a \o b)[i] = IF i <= Len(a) THEN a[i] ELSE b[i - Len(a)]
  <2>1. a \in Seq(Messages) /\ b \in Seq(Messages)
    BY <1>1, <1>4
  <2> QED
    BY ONLY <2>1, Concatenate
<1>7. ASSUME NEW n \in 1..Len(reqs) PROVE bus'[Len(bus) + 1 + n] = b[n]
  BY <1>1, <1>2, <1>4, <1>5, <1>6
<1>8. \A i \in 1..Len(bus) + 1 : bus'[i] = a[i]
  BY <1>1, <1>2, <1>4, <1>5, <1>6
<1> QED
  BY <1>1, <1>2, <1>3, <1>4, <1>5, <1>6, <1>7, <1>8

LEMMA CrashedCalls ==
    ASSUME BusTypes, Crash
    PROVE  \A k : /\ Requested(k)' = {}
                  /\ \A n \in Replied(k)' :
                        n \in Replied(k) \/ n - (Len(bus) + 1) \in Requested(k)
                  /\ \A n \in Replied(k) : n \in 1..Len(bus) /\ n \in Replied(k)'
                  /\ \A n \in Requested(k) : n \in Nat \ {0} /\ n + Len(bus) + 1 \in Replied(k)'
                  /\ Replied(k)' \subseteq Nat
<1> SUFFICES ASSUME NEW k
             PROVE  /\ Requested(k)' = {}
                    /\ \A n \in Replied(k)' :
                          n \in Replied(k) \/ n - (Len(bus) + 1) \in Requested(k)
                    /\ \A n \in Replied(k) : n \in 1..Len(bus) /\ n \in Replied(k)'
                    /\ \A n \in Requested(k) :
                          n \in Nat \ {0} /\ n + Len(bus) + 1 \in Replied(k)'
                    /\ Replied(k)' \subseteq Nat
  OBVIOUS
<1>1. /\ Len(bus) \in Nat /\ Len(reqs) \in Nat /\ Len(bus') = Len(bus) + 1 + Len(reqs)
      /\ \A i \in 1..Len(bus) : bus'[i] = bus[i]
      /\ bus'[Len(bus) + 1].kind = "vanished"
      /\ \A n \in 1..Len(reqs) :
            bus'[Len(bus) + 1 + n].kind = "reply" /\ bus'[Len(bus) + 1 + n].to = reqs[n]
  BY Crashed, NewMessages
<1>2. Requested(k)' = {}
  BY DEF Crash, Requested
<1>3. ASSUME NEW n \in Replied(k)' PROVE n \in Replied(k) \/ n - (Len(bus) + 1) \in Requested(k)
  <2>1. n \in 1..Len(bus) + 1 + Len(reqs) /\ bus'[n].kind = "reply" /\ bus'[n].to.kind = k
    BY <1>1, <1>3 DEF Replied
  <2>2. CASE n \in 1..Len(bus)
    BY <1>1, <2>1, <2>2 DEF Replied
  <2>3. CASE n = Len(bus) + 1
    BY <1>1, <2>1, <2>3
  <2>4. CASE n - (Len(bus) + 1) \in 1..Len(reqs)
    <3>1. n = Len(bus) + 1 + (n - (Len(bus) + 1))
      BY <1>1, <2>1
    <3> QED
      BY <1>1, <2>1, <2>4, <3>1 DEF Requested
  <2> QED
    BY <1>1, <2>1, <2>2, <2>3, <2>4
<1>4. ASSUME NEW n \in Replied(k) PROVE n \in 1..Len(bus) /\ n \in Replied(k)'
  BY <1>1, <1>4 DEF Replied
<1>5. ASSUME NEW n \in Requested(k)
      PROVE  n \in Nat \ {0} /\ n + Len(bus) + 1 \in Replied(k)'
  <2>1. n \in 1..Len(reqs) /\ reqs[n].kind = k
    BY DEF Requested
  <2>2. n + Len(bus) + 1 = Len(bus) + 1 + n /\ n + Len(bus) + 1 \in 1..Len(bus')
    BY <1>1, <2>1
  <2> QED
    BY <1>1, <2>1, <2>2 DEF Replied
<1> QED
  BY <1>1, <1>2, <1>3, <1>4, <1>5 DEF Replied

LEMMA DeliveredCalls ==
    ASSUME BusTypes, bus # <<>>, bus' = Tail(bus)
    PROVE  /\ Head(bus) \in Messages
           /\ \A k : Replied(k)' = {n \in Nat \ {0} : n + 1 \in Replied(k)}
           /\ \A k : 1 \in Replied(k) <=> Head(bus).kind = "reply" /\ Head(bus).to.kind = k
           /\ \A k : Replied(k) \subseteq Nat \ {0}
<1>1. /\ Head(bus) \in Messages
      /\ Len(bus) \in Nat \ {0} /\ Len(bus') = Len(bus) - 1 /\ Head(bus) = bus[1]
      /\ \A i \in 1..Len(bus') : i + 1 \in 1..Len(bus) /\ bus'[i] = bus[i + 1]
  BY TakeFrom DEF BusTypes
<1>2. ASSUME NEW k PROVE Replied(k)' = {n \in Nat \ {0} : n + 1 \in Replied(k)}
  BY <1>1 DEF Replied
<1>3. ASSUME NEW k PROVE 1 \in Replied(k) <=> Head(bus).kind = "reply" /\ Head(bus).to.kind = k
  BY <1>1 DEF Replied
<1> QED
  BY <1>1, <1>2, <1>3 DEF Replied

LEMMA RequestedCall ==
    ASSUME BusTypes, NEW r \in Requests, reqs' = Append(reqs, r)
    PROVE  /\ Len(reqs) \in Nat
           /\ \A k : Requested(k) \subseteq 1..Len(reqs)
           /\ \A k : Requested(k)' = Requested(k) \cup (IF r.kind = k THEN {Len(reqs) + 1} ELSE {})
<1>1. /\ Len(reqs) \in Nat /\ Len(reqs') = Len(reqs) + 1 /\ reqs'[Len(reqs) + 1] = r
      /\ \A i \in 1..Len(reqs) : reqs'[i] = reqs[i]
  BY AppendTo DEF BusTypes
<1>2. ASSUME NEW k
      PROVE  Requested(k)' = Requested(k) \cup (IF r.kind = k THEN {Len(reqs) + 1} ELSE {})
  BY <1>1 DEF Requested
<1> QED
  BY <1>1, <1>2 DEF Requested
-----------------------------------------------------------------------------
LEMMA BusTypesNext == TypeInv /\ [Next]_vars => BusTypes'
<1> SUFFICES ASSUME TypeInv, BusTypes, [Next]_vars
             PROVE  BusTypes'
  BY DEF TypeInv
<1> USE DEF BusTypes
<1>1. CASE Start
  BY <1>1 DEF Start, broker
<1>2. CASE Crash
  <2>1. bus' \in Seq(Messages)
    BY <1>2, Crashed DEF BusTypes
  <2>2. reqs' \in Seq(Requests) /\ dleyna' \in [up : BOOLEAN, exported : SUBSET Servers]
    BY <1>2 DEF Crash
  <2> QED
    BY <2>1, <2>2
<1>3. ASSUME NEW ok \in BOOLEAN, AnswerWith(ok) PROVE BusTypes'
  <2>1. Head(reqs) \in Requests /\ Tail(reqs) \in Seq(Requests)
    BY <1>3, TakeFrom DEF AnswerWith
  <2>2. Reply(Head(reqs), ok) \in Messages
    BY <2>1, NewMessages
  <2> QED
    BY <1>3, <2>1, <2>2, AppendTo DEF AnswerWith
<1>4. ASSUME NEW s \in Servers, Appear(s) PROVE BusTypes'
  BY <1>4, NewMessages, AppendTo DEF Appear, broker
<1>5. ASSUME NEW s \in Servers, Disappear(s) PROVE BusTypes'
  BY <1>5, NewMessages, AppendTo DEF Disappear, broker
<1>6. CASE HandleFoundServer
  <2>1. bus # <<>> /\ bus' \in Seq(Messages)
    BY <1>6, TakeFrom DEF HandleFoundServer, Delivered
  <2>2. Head(bus) \in Messages /\ Head(bus).kind = "found"
    BY <1>6, TakeFrom DEF HandleFoundServer, Delivered
  <2>3. Head(bus).server \in Servers
    BY <2>2, MessageForms
  <2>4. ForDevice(Head(bus).server, NextSerial) \in Requests
    BY <2>3, FreshSerial, RequestForms DEF TypeInv, BusTypes, BrokerTypes
  <2> QED
    BY <1>6, <2>1, <2>4, AppendTo DEF HandleFoundServer
<1>7. CASE HandleLostServer
  <2>1. bus # <<>> /\ bus' \in Seq(Messages)
    BY <1>7, TakeFrom DEF HandleLostServer, Delivered
  <2> QED
    BY <1>7, <2>1 DEF HandleLostServer
<1>8. CASE HandleDeviceProxy
  <2>1. bus # <<>> /\ bus' \in Seq(Messages)
    BY <1>8, TakeFrom DEF HandleDeviceProxy, Delivered
  <2> QED
    BY <1>8, <2>1 DEF HandleDeviceProxy
<1>9. CASE HandleVanished
  <2>1. bus # <<>> /\ bus' \in Seq(Messages)
    BY <1>9, TakeFrom DEF HandleVanished, Delivered
  <2>2. reqs' \in {reqs, Append(reqs, ForManager)} /\ dleyna' = dleyna
    BY <1>9 DEF HandleVanished, Connect
  <2>3. Append(reqs, ForManager) \in Seq(Requests)
    BY RequestForms, AppendTo
  <2> QED
    BY <2>1, <2>2, <2>3
<1>10. CASE HandleManagerProxy
  <2>1. bus # <<>> /\ bus' \in Seq(Messages)
    BY <1>10, TakeFrom DEF HandleManagerProxy, Delivered
  <2>2. reqs' \in {reqs, Append(reqs, ForManager)} /\ dleyna' = dleyna
    BY <1>10 DEF HandleManagerProxy, Connect
  <2>3. Append(reqs, ForManager) \in Seq(Requests)
    BY RequestForms, AppendTo
  <2> QED
    BY <2>1, <2>2, <2>3
<1>11. CASE RescanDone
  <2>1. bus # <<>> /\ bus' \in Seq(Messages)
    BY <1>11, TakeFrom DEF RescanDone, Delivered
  <2> QED
    BY <1>11, <2>1 DEF RescanDone
<1>12. CASE RescanNow
  BY <1>12, RequestForms, AppendTo DEF RescanNow
<1>13. ASSUME NEW s \in Servers, HandleCancelled(s) PROVE BusTypes'
  BY <1>13 DEF HandleCancelled
<1>14. CASE UNCHANGED vars
  BY <1>14 DEF vars
<1>15. CASE Environment
  BY <1>1, <1>2, <1>3, <1>4, <1>5, <1>15 DEF Environment, Answer
<1>16. CASE Dispatch
  BY <1>6, <1>7, <1>8, <1>9, <1>10, <1>11, <1>16 DEF Dispatch
<1> QED
  BY <1>12, <1>13, <1>14, <1>15, <1>16 DEF Next

LEMMA BrokerTypesNext == DiscoveryInv /\ [Next]_vars => BrokerTypes'
<1> SUFFICES ASSUME TypeInv, BusTypes, BrokerTypes, QueuesInv, ListInv, [Next]_vars
             PROVE  BrokerTypes'
  BY DEF DiscoveryInv, TypeInv
<1> USE DEF BrokerTypes, QueuesInv, ListInv
<1>1. CASE Start
  BY <1>1 DEF Start, broker
<1>2. CASE Crash
  BY <1>2 DEF Crash, broker
<1>3. ASSUME NEW ok \in BOOLEAN, AnswerWith(ok) PROVE BrokerTypes'
  BY <1>3 DEF AnswerWith, broker
<1>4. ASSUME NEW s \in Servers, Appear(s) PROVE BrokerTypes'
  BY <1>4 DEF Appear, broker
<1>5. ASSUME NEW s \in Servers, Disappear(s) PROVE BrokerTypes'
  BY <1>5 DEF Disappear, broker
<1>6. CASE HandleFoundServer
  <2>1. Head(bus) \in Messages /\ Head(bus).kind = "found"
    BY <1>6, TakeFrom DEF HandleFoundServer, Delivered, BusTypes
  <2>2. Head(bus).server \in Servers
    BY <2>1, MessageForms
  <2>3. ServerFound(added[Head(bus).server], NextSerial) \in Seq(Entries)
    BY <2>2, FreshSerial, Found
  <2> QED
    BY ZenonT(40), <1>6, <2>2, <2>3 DEF HandleFoundServer
<1>7. CASE HandleLostServer
  <2>1. Head(bus) \in Messages /\ Head(bus).kind = "lost"
    BY <1>7, TakeFrom DEF HandleLostServer, Delivered, BusTypes
  <2>2. Head(bus).server \in Servers
    BY <2>1, MessageForms
  <2>3. ServerLost(added[Head(bus).server]) \in Seq(Entries)
    BY <2>2, CanceledLast DEF ServerLost
  <2>4. RemoveFirst(list, Head(bus).server) \in Seq(Servers)
    BY RemoveElement
  <2> QED
    BY ZenonT(40), <1>7, <2>2, <2>3, <2>4 DEF HandleLostServer
<1>8. CASE HandleDeviceProxy
  <2>1. Head(bus) \in Messages /\ Head(bus).kind = "reply" /\ Head(bus).to.kind = "device"
    BY <1>8, TakeFrom DEF HandleDeviceProxy, Delivered, BusTypes
  <2>2. Head(bus).to.server \in Servers
    BY <2>1, MessageForms, RequestForms
  <2>3. ServerProcessed(added[Head(bus).to.server], Head(bus).to.serial) \in Seq(Entries)
    BY <2>2, Processed
  <2>4. Append(list, Head(bus).to.server) \in Seq(Servers)
    BY <2>2, AppendTo
  <2> QED
    BY <1>8, <2>2, <2>3, <2>4 DEF HandleDeviceProxy
<1>9. CASE HandleVanished
  <2>1. \A s \in Servers : ServerLost(added[s]) \in Seq(Entries)
    BY CanceledLast DEF ServerLost
  <2>2. ToSet(list) \subseteq Servers
    BY DEF ToSet
  <2>3. added' \in [Servers -> Seq(Entries)] /\ list' \in Seq(Servers)
    <3>1. CASE UNCHANGED <<list, added>>
      BY <3>1
    <3>2. CASE Clear
      BY <2>1, <3>2 DEF Clear
    <3> QED
      BY <1>9, <3>1, <3>2 DEF HandleVanished
  <2>4. missed' \in SUBSET Servers
    BY <1>9, <2>2 DEF HandleVanished, Awaited
  <2> QED
    BY <1>9, <2>3, <2>4 DEF HandleVanished, Connect, Disable
<1>10. CASE HandleManagerProxy
  <2>1. UNCHANGED <<list, added, missed>> /\ iface' \in {"connecting", "connected"}
    BY <1>10 DEF HandleManagerProxy, Connect
  <2>2. rescan' \in {rescan, Enable}
    BY <1>10 DEF HandleManagerProxy
  <2>3. Enable \in [timer : BOOLEAN, inhibited : BOOLEAN]
    BY DEF Enable
  <2>4. rescan' \in [timer : BOOLEAN, inhibited : BOOLEAN]
    BY <2>2, <2>3
  <2> QED
    BY <2>1, <2>4
<1>11. CASE RescanDone
  BY <1>11 DEF RescanDone, Delivered
<1>12. CASE RescanNow
  BY <1>12 DEF RescanNow
<1>13. ASSUME NEW s \in Servers, HandleCancelled(s) PROVE BrokerTypes'
  <2>1. \A k : ServerProcessed(added[s], k) \in Seq(Entries)
    BY Processed
  <2> QED
    BY <1>13, <2>1 DEF HandleCancelled
<1>14. CASE UNCHANGED vars
  BY <1>14 DEF vars
<1>15. CASE Environment
  BY <1>1, <1>2, <1>3, <1>4, <1>5, <1>15 DEF Environment, Answer
<1>16. CASE Dispatch
  BY <1>6, <1>7, <1>8, <1>9, <1>10, <1>11, <1>16 DEF Dispatch
<1> QED
  BY <1>12, <1>13, <1>14, <1>15, <1>16 DEF Next

(* A message that is no answer to the manager or to a rescan is handled,   *)
(* and at most the proxy of a server is asked for.                         *)
LEMMA CallsStay ==
    ASSUME BusTypes, CallsInv, bus # <<>>, bus' = Tail(bus),
           \A k \in {"manager", "rescan"} : 1 \notin Replied(k),
           \A k \in {"manager", "rescan"} : Requested(k)' = Requested(k),
           iface' = iface, rescan' = rescan
    PROVE  CallsInv'
<1>1. \A k : Replied(k)' = {n \in Nat \ {0} : n + 1 \in Replied(k)}
  BY DeliveredCalls
<1>2. \A k : Replied(k) \subseteq Nat \ {0}
  BY DeliveredCalls
<1>3. ASSUME NEW k \in {"manager", "rescan"}
      PROVE  (Single(k) => Single(k)') /\ (Pending(k)' <=> Pending(k))
  <2>1. ASSUME NEW n \in Replied(k) PROVE n - 1 \in Replied(k)'
    <3>1. n \in Nat \ {0} /\ n # 1
      BY <1>2, <2>1
    <3>2. n - 1 \in Nat \ {0} /\ (n - 1) + 1 = n
      BY <3>1
    <3> QED
      BY <1>1, <2>1, <3>2
  <2>2. (Replied(k)' = {}) <=> (Replied(k) = {})
    BY <1>1, <2>1
  <2>3. Single(k) => Single(k)'
    BY <1>1, <2>2 DEF Single
  <2> QED
    BY <2>2, <2>3 DEF Pending
<1>4. ManagerLast => ManagerLast'
  BY <1>1 DEF ManagerLast
<1> QED
  BY <1>3, <1>4 DEF CallsInv

(* The manager's proxy is asked for when it is not underway. *)
LEMMA ManagerCalled ==
    ASSUME BusTypes, CallsInv, bus # <<>>, bus' = Tail(bus), Connect,
           \/ ~Pending("manager") /\ Head(bus).kind = "vanished"
           \/ 1 \in Replied("manager"),
           rescan'.timer = FALSE, rescan'.inhibited = rescan.inhibited
    PROVE  CallsInv'
<1>1. /\ \A k : Replied(k)' = {n \in Nat \ {0} : n + 1 \in Replied(k)}
      /\ \A k : Replied(k) \subseteq Nat \ {0}
      /\ \A k : 1 \in Replied(k) <=> Head(bus).kind = "reply" /\ Head(bus).to.kind = k
  BY DeliveredCalls
<1>2. /\ iface' = "connecting" /\ Len(reqs) \in Nat
      /\ \A k : Requested(k) \subseteq 1..Len(reqs)
      /\ Requested("rescan")' = Requested("rescan")
      /\ Requested("manager")' = Requested("manager") \cup {Len(reqs) + 1}
  <2>1. iface' = "connecting" /\ reqs' = Append(reqs, ForManager)
    BY DEF Connect
  <2>2. ForManager \in Requests /\ ForManager.kind = "manager"
    BY RequestForms
  <2>3. /\ Len(reqs) \in Nat
        /\ \A k : Requested(k) \subseteq 1..Len(reqs)
        /\ \A k : Requested(k)' = Requested(k) \cup
                     (IF ForManager.kind = k THEN {Len(reqs) + 1} ELSE {})
    BY <2>1, <2>2, RequestedCall
  <2> QED
    BY <2>1, <2>2, <2>3
<1>3. Requested("manager") = {} /\ Replied("manager")' = {}
  BY <1>1 DEF CallsInv, Single, Pending
<1>4. /\ Single("rescan")' /\ (Pending("rescan")' <=> Pending("rescan"))
      /\ Replied("manager") = {} \/ ~Pending("rescan")
  <2>1. CASE ~Pending("manager") /\ Head(bus).kind = "vanished"
    <3>1. ASSUME NEW n \in Replied("rescan") PROVE n - 1 \in Replied("rescan")'
      <4>1. n \in Nat \ {0} /\ n # 1
        BY <1>1, <2>1, <3>1
      <4>2. n - 1 \in Nat \ {0} /\ (n - 1) + 1 = n
        BY <4>1
      <4> QED
        BY <1>1, <3>1, <4>2
    <3>2. (Replied("rescan")' = {}) <=> (Replied("rescan") = {})
      BY <1>1, <3>1
    <3> QED
      BY <1>1, <1>2, <2>1, <3>2 DEF CallsInv, Single, Pending
  <2>2. CASE 1 \in Replied("manager")
    <3>1. Requested("rescan") = {} /\ Replied("rescan") = {}
      BY <1>1, <2>2 DEF CallsInv, ManagerLast
    <3>2. Requested("rescan")' = {} /\ Replied("rescan")' = {}
      BY <1>1, <1>2, <3>1
    <3> QED
      BY <3>1, <3>2 DEF Single, Pending
  <2> QED
    BY <2>1, <2>2
<1>5. Single("manager")' /\ Pending("manager")'
  BY <1>2, <1>3 DEF Single, Pending
<1>6. ManagerLast'
  BY <1>2, <1>3 DEF ManagerLast
<1> QED
  BY <1>2, <1>4, <1>5, <1>6 DEF CallsInv

LEMMA CallsNext == DiscoveryInv /\ [Next]_vars => CallsInv'
<1> SUFFICES ASSUME TypeInv, BusTypes, BrokerTypes, CallsInv, [Next]_vars
             PROVE  CallsInv'
  BY DEF DiscoveryInv, TypeInv
<1> USE DEF CallsInv, Single, Pending, ManagerLast
<1>1. CASE Start
  BY <1>1 DEF Start, broker, Requested, Replied
<1>2. CASE Crash
  <2>1. iface' = iface /\ rescan' = rescan /\ Len(bus) \in Nat
    BY <1>2 DEF Crash, broker, BusTypes
  <2>2. \A k : Requested(k)' = {} /\ (Pending(k)' <=> Pending(k))
    BY <1>2, <2>1, CrashedCalls
  <2>3. ASSUME NEW k, Single(k) PROVE Single(k)'
    BY <1>2, <2>1, <2>3, CrashedCalls
  <2>4. ManagerLast'
    <3> SUFFICES ASSUME NEW n \in Replied("manager")', NEW m \in Replied("rescan")'
                 PROVE  m < n
      BY <2>2
    <3>1. n \in Replied("manager") \/ n - (Len(bus) + 1) \in Requested("manager")
      BY <1>2, CrashedCalls
    <3>2. m \in Replied("rescan") \/ m - (Len(bus) + 1) \in Requested("rescan")
      BY <1>2, CrashedCalls
    <3>3. /\ n \in Nat /\ m \in Nat
          /\ \A k : Replied(k) \subseteq 1..Len(bus) /\ Requested(k) \subseteq Nat \ {0}
      BY <1>2, CrashedCalls
    <3> QED
      BY <2>1, <3>1, <3>2, <3>3
  <2> QED
    BY <2>1, <2>2, <2>3, <2>4
<1>3. ASSUME NEW ok \in BOOLEAN, AnswerWith(ok) PROVE CallsInv'
  <2> DEFINE m == Reply(Head(reqs), ok)
  <2>1. Head(reqs) \in Requests /\ reqs # <<>>
    BY <1>3, TakeFrom DEF AnswerWith, BusTypes
  <2>2. m \in Messages /\ m.kind = "reply" /\ m.to = Head(reqs)
    BY <2>1, NewMessages
  <2>3. bus' = Append(bus, m) /\ reqs' = Tail(reqs) /\ iface' = iface /\ rescan' = rescan
    BY <1>3 DEF AnswerWith, broker
  <2> HIDE DEF m
  <2>4. /\ Len(bus) \in Nat
        /\ \A k : Requested(k)' = {n \in Nat \ {0} : n + 1 \in Requested(k)}
        /\ \A k : 1 \in Requested(k) <=> Head(reqs).kind = k
        /\ \A k : Requested(k) \subseteq Nat \ {0}
        /\ \A k : Replied(k) \subseteq 1..Len(bus)
        /\ \A k : Replied(k)' = Replied(k) \cup
                     (IF Head(reqs).kind = k THEN {Len(bus) + 1} ELSE {})
    BY <2>1, <2>2, <2>3, Answered
  <2>5. \A k : Pending(k)' <=> Pending(k)
    <3> SUFFICES ASSUME NEW k PROVE Pending(k)' <=> Pending(k)
      OBVIOUS
    <3>1. Requested(k) # {} => Requested(k)' # {} \/ 1 \in Requested(k)
      <4> SUFFICES ASSUME NEW n \in Requested(k), n # 1 PROVE Requested(k)' # {}
        OBVIOUS
      <4>1. n - 1 \in Nat \ {0} /\ (n - 1) + 1 \in Requested(k)
        BY <2>4
      <4> QED
        BY <2>4, <4>1
    <3> QED
      BY <2>4, <3>1
  <2>6. ASSUME NEW k, Single(k) PROVE Single(k)'
    <3>1. CASE 1 \in Requested(k)
      <4>1. Requested(k)' = {} /\ Replied(k)' = {Len(bus) + 1}
        BY <2>4, <2>6, <3>1
      <4> QED
        BY <4>1
    <3>2. CASE 1 \notin Requested(k)
      <4>1. Replied(k)' = Replied(k)
        BY <2>4, <3>2
      <4> QED
        BY <2>4, <2>6, <4>1
    <3> QED
      BY <3>1, <3>2
  <2>7. ManagerLast'
    <3>1. ASSUME NEW n \in Requested("manager")', NEW j \in Requested("rescan")' PROVE j < n
      BY <2>4
    <3>2. ASSUME NEW n \in Replied("manager")' PROVE Requested("rescan")' = {}
      BY <2>4
    <3>3. ASSUME NEW n \in Replied("manager")', NEW j \in Replied("rescan")' PROVE j < n
      <4>1. n \in Replied("manager") \/ (n = Len(bus) + 1 /\ 1 \in Requested("manager"))
        BY <2>4
      <4>2. j \in Replied("rescan") \/ (j = Len(bus) + 1 /\ 1 \in Requested("rescan"))
        BY <2>4
      <4>3. CASE n \in Replied("manager")
        BY <2>4, <4>2, <4>3
      <4>4. CASE n = Len(bus) + 1 /\ 1 \in Requested("manager")
        BY <2>4, <4>2, <4>4
      <4> QED
        BY <4>1, <4>3, <4>4
    <3> QED
      BY <3>1, <3>2, <3>3
  <2> QED
    BY <2>3, <2>5, <2>6, <2>7
<1>4. ASSUME NEW s \in Servers, Appear(s) PROVE CallsInv'
  <2>1. bus' = Append(bus, FoundServer(s)) /\ reqs' = reqs /\ iface' = iface /\ rescan' = rescan
    BY <1>4 DEF Appear, broker
  <2>2. \A k : Requested(k)' = Requested(k) /\ Replied(k)' = Replied(k)
    BY <2>1, Signaled, NewMessages
  <2> QED
    BY <2>1, <2>2
<1>5. ASSUME NEW s \in Servers, Disappear(s) PROVE CallsInv'
  <2>1. bus' = Append(bus, LostServer(s)) /\ reqs' = reqs /\ iface' = iface /\ rescan' = rescan
    BY <1>5 DEF Disappear, broker
  <2>2. \A k : Requested(k)' = Requested(k) /\ Replied(k)' = Replied(k)
    BY <2>1, Signaled, NewMessages
  <2> QED
    BY <2>1, <2>2
<1>6. CASE HandleFoundServer
  <2> HIDE DEF CallsInv, Single, Pending, ManagerLast
  <2>1. /\ BusTypes /\ CallsInv /\ bus # <<>> /\ bus' = Tail(bus) /\ Head(bus) \in Messages
        /\ iface' = iface /\ rescan' = rescan
    BY <1>6, TakeFrom DEF HandleFoundServer, Delivered, BusTypes
  <2>2. \A k : 1 \notin Replied(k)
    BY <1>6, <2>1, DeliveredCalls DEF HandleFoundServer, Delivered
  <2>3. ASSUME NEW k \in {"manager", "rescan"} PROVE Requested(k)' = Requested(k)
    <3>1. CASE reqs' = reqs
      BY <3>1 DEF Requested
    <3>2. CASE reqs' = Append(reqs, ForDevice(Head(bus).server, NextSerial))
      <4>1. Head(bus).server \in Servers
        BY <1>6, <2>1, MessageForms DEF HandleFoundServer, Delivered
      <4>2. /\ ForDevice(Head(bus).server, NextSerial) \in Requests
            /\ ForDevice(Head(bus).server, NextSerial).kind = "device"
        BY <4>1, FreshSerial, RequestForms
      <4>3. Requested(k)' = Requested(k) \cup
               (IF ForDevice(Head(bus).server, NextSerial).kind = k
                THEN {Len(reqs) + 1} ELSE {})
        BY <2>1, <3>2, <4>2, RequestedCall
      <4> QED
        BY <4>2, <4>3
    <3> QED
      BY <1>6, <3>1, <3>2 DEF HandleFoundServer
  <2> QED
    BY <2>1, <2>2, <2>3, CallsStay
<1>7. CASE HandleLostServer
  <2> HIDE DEF CallsInv, Single, Pending, ManagerLast
  <2>1. /\ BusTypes /\ CallsInv /\ bus # <<>> /\ bus' = Tail(bus) /\ Head(bus) \in Messages
        /\ iface' = iface /\ rescan' = rescan
    BY <1>7, TakeFrom DEF HandleLostServer, Delivered, BusTypes
  <2>2. \A k : 1 \notin Replied(k) /\ Requested(k)' = Requested(k)
    BY <1>7, <2>1, DeliveredCalls DEF HandleLostServer, Delivered, Requested
  <2> QED
    BY <2>1, <2>2, CallsStay
<1>8. CASE HandleDeviceProxy
  <2> HIDE DEF CallsInv, Single, Pending, ManagerLast
  <2>1. /\ BusTypes /\ CallsInv /\ bus # <<>> /\ bus' = Tail(bus) /\ Head(bus) \in Messages
        /\ iface' = iface /\ rescan' = rescan
    BY <1>8, TakeFrom DEF HandleDeviceProxy, Delivered, BusTypes
  <2>2. \A k \in {"manager", "rescan"} : 1 \notin Replied(k) /\ Requested(k)' = Requested(k)
    BY <1>8, <2>1, DeliveredCalls DEF HandleDeviceProxy, Requested
  <2> QED
    BY <2>1, <2>2, CallsStay
<1>9. CASE HandleVanished
  <2> HIDE DEF CallsInv, Single, Pending, ManagerLast
  <2>1. BusTypes /\ CallsInv /\ bus # <<>> /\ bus' = Tail(bus) /\ Head(bus).kind = "vanished"
    BY <1>9 DEF HandleVanished, Delivered
  <2>2. CASE iface = "connecting"
    <3>1. iface' = iface /\ rescan' = rescan /\ reqs' = reqs
      BY <1>9, <2>2 DEF HandleVanished
    <3>2. \A k : 1 \notin Replied(k) /\ Requested(k)' = Requested(k)
      BY <2>1, <3>1, DeliveredCalls DEF Requested
    <3> QED
      BY <2>1, <3>1, <3>2, CallsStay
  <2>3. CASE iface # "connecting"
    <3>1. Connect /\ rescan'.timer = FALSE /\ rescan'.inhibited = rescan.inhibited
      BY <1>9, <2>1, <2>3 DEF HandleVanished, Disable, BrokerTypes, CallsInv
    <3>2. ~Pending("manager")
      BY <2>1, <2>3 DEF CallsInv
    <3> QED
      BY <2>1, <3>1, <3>2, ManagerCalled
  <2> QED
    BY <2>2, <2>3
<1>10. CASE HandleManagerProxy
  <2> HIDE DEF CallsInv, Single, Pending, ManagerLast
  <2>1. BusTypes /\ CallsInv /\ bus # <<>> /\ bus' = Tail(bus)
    BY <1>10 DEF HandleManagerProxy, Delivered
  <2>2. 1 \in Replied("manager") /\ iface = "connecting"
    BY <1>10, <2>1, DeliveredCalls DEF HandleManagerProxy, Delivered, CallsInv, Pending
  <2>3. CASE ~Head(bus).ok
    <3>1. Connect /\ rescan' = rescan
      BY <1>10, <2>3 DEF HandleManagerProxy
    <3>2. rescan'.timer = FALSE
      BY <2>1, <2>2, <3>1 DEF CallsInv, BrokerTypes
    <3> QED
      BY <2>1, <2>2, <3>1, <3>2, ManagerCalled
  <2>4. CASE Head(bus).ok
    <3>1. iface' = "connected" /\ reqs' = reqs /\ rescan' = [timer |-> TRUE, inhibited |-> FALSE]
      BY <1>10, <2>4 DEF HandleManagerProxy, Enable
    <3>2. \A k : Replied(k)' = {n \in Nat \ {0} : n + 1 \in Replied(k)} /\ Replied(k) \subseteq Nat \ {0}
      BY <2>1, DeliveredCalls
    <3>3. \A k : Requested(k)' = Requested(k)
      BY <3>1 DEF Requested
    <3>4. Requested("manager") = {} /\ Replied("manager")' = {}
      BY <2>1, <2>2, <3>2 DEF CallsInv, Single
    <3>5. Requested("rescan") = {} /\ Replied("rescan")' = {}
      BY <2>1, <2>2, <3>2 DEF CallsInv, ManagerLast
    <3> QED
      BY <3>1, <3>3, <3>4, <3>5 DEF CallsInv, Single, Pending, ManagerLast
  <2> QED
    BY <2>3, <2>4
<1>11. CASE RescanDone
  <2>1. bus # <<>> /\ bus' = Tail(bus) /\ iface' = iface /\ reqs' = reqs
    BY <1>11 DEF RescanDone, Delivered
  <2>2. rescan'.timer = rescan.timer /\ rescan'.inhibited = FALSE
    BY <1>11 DEF RescanDone, BrokerTypes
  <2>3. \A k : Replied(k)' = {n \in Nat \ {0} : n + 1 \in Replied(k)} /\ Replied(k) \subseteq Nat \ {0}
    BY <2>1, DeliveredCalls
  <2>4. 1 \in Replied("rescan") /\ 1 \notin Replied("manager")
    BY <1>11, <2>1, DeliveredCalls DEF RescanDone, Delivered
  <2>5. \A k : Requested(k)' = Requested(k)
    BY <2>1 DEF Requested
  <2>6. Requested("rescan")' = {} /\ Replied("rescan")' = {}
    BY <2>3, <2>4, <2>5
  <2>7. ASSUME NEW n \in Replied("manager") PROVE n - 1 \in Replied("manager")'
    <3>1. n \in Nat \ {0} /\ n # 1
      BY <2>3, <2>4, <2>7
    <3>2. n - 1 \in Nat \ {0} /\ (n - 1) + 1 = n
      BY <3>1
    <3> QED
      BY <2>3, <2>7, <3>2
  <2>8. Replied("manager")' = {} <=> Replied("manager") = {}
    BY <2>3, <2>7
  <2>9. Single("manager")' /\ (Pending("manager")' <=> Pending("manager"))
    BY <2>3, <2>5, <2>8
  <2>10. ManagerLast' /\ Single("rescan")' /\ ~Pending("rescan")'
    BY <2>6
  <2> QED
    BY <2>1, <2>2, <2>9, <2>10
<1>12. CASE RescanNow
  <2>1. iface' = iface /\ bus' = bus /\ reqs' = Append(reqs, ForRescan) /\ rescan.timer
    BY <1>12 DEF RescanNow
  <2>2. ~rescan.inhibited /\ rescan'.inhibited /\ rescan'.timer = rescan.timer
    BY <1>12 DEF RescanNow, BrokerTypes
  <2>3. \A k : Replied(k)' = Replied(k)
    BY <2>1 DEF Replied
  <2>4. /\ Requested("manager")' = Requested("manager")
        /\ Requested("rescan")' = Requested("rescan") \cup {Len(reqs) + 1}
    <3>1. ForRescan \in Requests /\ ForRescan.kind = "rescan"
      BY RequestForms
    <3>2. \A k : Requested(k)' = Requested(k) \cup
                   (IF ForRescan.kind = k THEN {Len(reqs) + 1} ELSE {})
      BY <2>1, <3>1, RequestedCall
    <3> QED
      BY <3>1, <3>2
  <2>5. ~Pending("manager") /\ ~Pending("rescan")
    BY <2>1, <2>2
  <2> QED
    BY <2>1, <2>2, <2>3, <2>4, <2>5
<1>13. ASSUME NEW s \in Servers, HandleCancelled(s) PROVE CallsInv'
  BY <1>13 DEF HandleCancelled, Requested, Replied
<1>14. CASE UNCHANGED vars
  BY <1>14 DEF vars, Requested, Replied
<1>15. CASE Environment
  BY <1>1, <1>2, <1>3, <1>4, <1>5, <1>15 DEF Environment, Answer
<1>16. CASE Dispatch
  BY <1>6, <1>7, <1>8, <1>9, <1>10, <1>11, <1>16 DEF Dispatch
<1> QED
  BY <1>12, <1>13, <1>14, <1>15, <1>16 DEF Next
-----------------------------------------------------------------------------
(* A call remains one until its answer is handled. *)

LEMMA CallsOnTheirWay ==
    ASSUME BusTypes, NEW m \in Messages, bus' = Append(bus, m),
           reqs' = reqs \/ (reqs # <<>> /\ reqs' = Tail(reqs) /\ m = Reply(Head(reqs), m.ok))
    PROVE  Calls \subseteq Calls'
<1> SUFFICES ASSUME NEW c \in Calls PROVE c \in Calls'
  OBVIOUS
<1>1. ToSet(bus') = ToSet(bus) \cup {m}
  BY AppendSet DEF BusTypes
<1>2. CASE c \in {x.to : x \in {y \in ToSet(bus) : y.kind = "reply"}}
  BY <1>1, <1>2 DEF Calls
<1>3. CASE c \in ToSet(reqs) /\ reqs' = reqs
  BY <1>3 DEF Calls
<1>4. CASE /\ c \in ToSet(reqs) /\ reqs # <<>> /\ reqs' = Tail(reqs)
           /\ m = Reply(Head(reqs), m.ok)
  <2>1. PICK n \in 1..Len(reqs) : c = reqs[n]
    BY <1>4 DEF ToSet, BusTypes
  <2>2. CASE n = 1
    <3>1. m.kind = "reply" /\ m.to = c
      BY <1>4, <2>1, <2>2, TakeFrom DEF Reply, BusTypes
    <3> QED
      BY <1>1, <3>1 DEF Calls
  <2>3. CASE n # 1
    <3>1. n - 1 \in 1..Len(reqs') /\ (n - 1) + 1 = n
      BY <1>4, <2>3, TakeFrom DEF BusTypes
    <3>2. reqs'[n - 1] = c /\ DOMAIN reqs' = 1..Len(reqs')
      BY <1>4, <2>1, <3>1, TakeFrom DEF BusTypes
    <3>3. c \in ToSet(reqs')
      BY <3>1, <3>2 DEF ToSet
    <3> QED
      BY <3>3 DEF Calls
  <2> QED
    BY <2>2, <2>3
<1> QED
  BY <1>2, <1>3, <1>4 DEF Calls

LEMMA CallsFailed == ASSUME BusTypes, Crash PROVE Calls \subseteq Calls'
<1> SUFFICES ASSUME NEW c \in Calls PROVE c \in Calls'
  OBVIOUS
<1>1. /\ bus' \in Seq(Messages) /\ Len(bus) \in Nat /\ Len(reqs) \in Nat
      /\ Len(bus') = Len(bus) + 1 + Len(reqs)
      /\ \A i \in 1..Len(bus) : bus'[i] = bus[i]
      /\ \A n \in 1..Len(reqs) :
            bus'[Len(bus) + 1 + n].kind = "reply" /\ bus'[Len(bus) + 1 + n].to = reqs[n]
  BY Crashed
<1>2. DOMAIN bus' = 1..Len(bus')
  BY <1>1
<1>3. CASE c \in {x.to : x \in {y \in ToSet(bus) : y.kind = "reply"}}
  <2>1. PICK n \in 1..Len(bus) : bus[n].kind = "reply" /\ c = bus[n].to
    BY <1>3 DEF ToSet, BusTypes
  <2>2. n \in 1..Len(bus') /\ bus'[n] = bus[n]
    BY <1>1
  <2>3. bus'[n] \in ToSet(bus')
    BY <1>2, <2>2 DEF ToSet
  <2> QED
    BY <2>1, <2>2, <2>3 DEF Calls
<1>4. CASE c \in ToSet(reqs)
  <2>1. PICK n \in 1..Len(reqs) : c = reqs[n]
    BY <1>4 DEF ToSet, BusTypes
  <2>2. Len(bus) + 1 + n \in 1..Len(bus')
    BY <1>1
  <2>3. bus'[Len(bus) + 1 + n] \in ToSet(bus')
    BY <1>2, <2>2 DEF ToSet
  <2> QED
    BY <1>1, <2>1, <2>3 DEF Calls
<1> QED
  BY <1>3, <1>4 DEF Calls

LEMMA CallsHandled ==
    ASSUME BusTypes, bus # <<>>, bus' = Tail(bus), ToSet(reqs) \subseteq ToSet(reqs')
    PROVE  \A c \in Calls :
              c \in Calls' \/ (Head(bus).kind = "reply" /\ c = Head(bus).to)
<1> SUFFICES ASSUME NEW c \in Calls
             PROVE  c \in Calls' \/ (Head(bus).kind = "reply" /\ c = Head(bus).to)
  OBVIOUS
<1>1. CASE c \in ToSet(reqs)
  BY <1>1 DEF Calls
<1>2. CASE c \in {x.to : x \in {y \in ToSet(bus) : y.kind = "reply"}}
  <2>1. PICK n \in 1..Len(bus) : bus[n].kind = "reply" /\ c = bus[n].to
    BY <1>2 DEF ToSet, BusTypes
  <2>2. CASE n = 1
    BY <2>1, <2>2, TakeFrom DEF BusTypes
  <2>3. CASE n # 1
    <3>1. n - 1 \in 1..Len(bus') /\ (n - 1) + 1 = n
      BY <2>3, TakeFrom DEF BusTypes
    <3>2. bus'[n - 1] = bus[n] /\ DOMAIN bus' = 1..Len(bus')
      BY <2>1, <3>1, TakeFrom DEF BusTypes
    <3>3. bus[n] \in ToSet(bus')
      BY <3>1, <3>2 DEF ToSet
    <3> QED
      BY <2>1, <3>3 DEF Calls
  <2> QED
    BY <2>2, <2>3
<1> QED
  BY <1>1, <1>2 DEF Calls

LEMMA CallMade ==
    ASSUME BusTypes, NEW r \in Requests, reqs' = Append(reqs, r)
    PROVE  /\ ToSet(reqs') = ToSet(reqs) \cup {r} /\ r \in Calls'
           /\ bus' = bus => Calls \subseteq Calls'
<1>1. ToSet(reqs') = ToSet(reqs) \cup {r}
  BY AppendSet DEF BusTypes
<1> QED
  BY <1>1 DEF Calls

(* What the operations on a queue leave awaited. *)

LEMMA LostLive ==
    ASSUME TypeInv, QueuesInv, NEW s \in Servers, added'[s] = ServerLost(added[s])
    PROVE  Sound(added'[s]) /\ Live(s)' = {}
<1>1. /\ added'[s] \in Seq(Entries) /\ Sound(added'[s])
      /\ \A n \in 1..Len(added'[s]) : added'[s][n].cancelled
  BY CanceledLast DEF TypeInv, BrokerTypes, QueuesInv, ServerLost
<1> QED
  BY <1>1 DEF Live, ToSet

LEMMA FoundLive ==
    ASSUME TypeInv, QueuesInv, NEW s \in Servers,
           added'[s] = ServerFound(added[s], NextSerial)
    PROVE  Sound(added'[s]) /\ Live(s)' = {[serial |-> NextSerial, cancelled |-> FALSE]}
<1>1. /\ NextSerial \in Nat /\ Sound(added[s]) /\ added[s] \in Seq(Entries)
      /\ \A n \in 1..Len(added[s]) : added[s][n].serial # NextSerial
  BY FreshSerial DEF TypeInv, BrokerTypes, QueuesInv
<1>2. /\ Sound(ServerFound(added[s], NextSerial))
      /\ {e \in ToSet(ServerFound(added[s], NextSerial)) : ~e.cancelled}
            = {[serial |-> NextSerial, cancelled |-> FALSE]}
  BY <1>1, Found
<1> QED
  BY <1>2 DEF Live

LEMMA ProcessedLive ==
    ASSUME TypeInv, QueuesInv, NEW s \in Servers, NEW k,
           added'[s] = ServerProcessed(added[s], k)
    PROVE  Sound(added'[s]) /\ Live(s)' = {e \in Live(s) : e.serial # k}
<1>1. added[s] \in Seq(Entries) /\ Sound(added[s])
  BY DEF TypeInv, BrokerTypes, QueuesInv
<1>2. Sound(added'[s]) /\ ToSet(added'[s]) = {e \in ToSet(added[s]) : e.serial # k}
  BY <1>1, Processed
<1> QED
  BY <1>2 DEF Live

LEMMA OthersLive ==
    ASSUME TypeInv, QueuesInv, NEW s \in Servers, added'[s] = added[s]
    PROVE  Sound(added'[s]) /\ Live(s)' = Live(s)
  BY DEF QueuesInv, Live

(* An entry that is canceled does not share its serial number. *)
LEMMA CanceledSerial ==
    ASSUME TypeInv, QueuesInv, NEW s \in Servers, NEW e \in ToSet(added[s]), e.cancelled
    PROVE  {x \in Live(s) : x.serial # e.serial} = Live(s)
<1>1. DOMAIN added[s] = 1..Len(added[s])
  BY DEF TypeInv, BrokerTypes
<1>2. PICK n \in 1..Len(added[s]) : e = added[s][n]
  BY <1>1 DEF ToSet
<1>3. ASSUME NEW x \in Live(s), x.serial = e.serial PROVE FALSE
  <2>1. x \in ToSet(added[s]) /\ ~x.cancelled
    BY DEF Live
  <2>2. PICK m \in 1..Len(added[s]) : x = added[s][m]
    BY <1>1, <2>1 DEF ToSet
  <2>3. m = n
    BY <1>2, <1>3, <2>2 DEF QueuesInv, Sound
  <2> QED
    BY <1>2, <2>1, <2>2, <2>3
<1> QED
  BY <1>3


LEMMA QueuesNext == DiscoveryInv /\ [Next]_vars => QueuesInv'
<1> SUFFICES ASSUME TypeInv, QueuesInv, [Next]_vars
             PROVE  QueuesInv'
  BY DEF DiscoveryInv
<1>1. CASE Start
  <2>1. Calls \subseteq Calls'
    BY <1>1 DEF Start, Calls
  <2>9. \A s \in Servers : Sound(added'[s]) /\ Live(s)' = Live(s)
    BY <1>1, OthersLive DEF Start, broker
  <2> QED
    BY <2>1, <2>9 DEF QueuesInv
<1>2. CASE Crash
  <2>1. Calls \subseteq Calls'
    BY <1>2, CallsFailed DEF TypeInv
  <2>9. \A s \in Servers : Sound(added'[s]) /\ Live(s)' = Live(s)
    BY <1>2, OthersLive DEF Crash, broker
  <2> QED
    BY <2>1, <2>9 DEF QueuesInv
<1>3. ASSUME NEW ok \in BOOLEAN, AnswerWith(ok) PROVE QueuesInv'
  <2>1. Calls \subseteq Calls'
    <3>1. reqs # <<>> /\ Head(reqs) \in Requests
      BY <1>3, TakeFrom DEF AnswerWith, TypeInv, BusTypes
    <3>2. Reply(Head(reqs), ok) \in Messages /\ Reply(Head(reqs), ok).ok = ok
      BY <3>1, NewMessages
    <3> QED
      BY <1>3, <3>1, <3>2, CallsOnTheirWay DEF AnswerWith, TypeInv
  <2>9. \A s \in Servers : Sound(added'[s]) /\ Live(s)' = Live(s)
    BY <1>3, OthersLive DEF AnswerWith, broker
  <2> QED
    BY <2>1, <2>9 DEF QueuesInv
<1>4. ASSUME NEW s \in Servers, Appear(s) PROVE QueuesInv'
  <2>1. Calls \subseteq Calls'
    BY <1>4, NewMessages, CallsOnTheirWay DEF Appear, TypeInv
  <2>2. \A t \in Servers : Sound(added'[t]) /\ Live(t)' = Live(t)
    BY <1>4, OthersLive DEF Appear, broker
  <2> QED
    BY <2>1, <2>2 DEF QueuesInv
<1>5. ASSUME NEW s \in Servers, Disappear(s) PROVE QueuesInv'
  <2>1. Calls \subseteq Calls'
    BY <1>5, NewMessages, CallsOnTheirWay DEF Disappear, TypeInv
  <2>2. \A t \in Servers : Sound(added'[t]) /\ Live(t)' = Live(t)
    BY <1>5, OthersLive DEF Disappear, broker
  <2> QED
    BY <2>1, <2>2 DEF QueuesInv
<1>6. CASE HandleFoundServer
  <2>1. /\ bus # <<>> /\ bus' = Tail(bus) /\ Head(bus) \in Messages
        /\ Head(bus).kind = "found"
    BY <1>6, TakeFrom DEF HandleFoundServer, Delivered, TypeInv, BusTypes
  <2>2. PICK s \in Servers : s = Head(bus).server
    BY <2>1, MessageForms
  <2>3. CASE iface # "connected"
    <3>1. added' = added /\ reqs' = reqs
      BY <1>6, <2>3 DEF HandleFoundServer
    <3>2. Calls \subseteq Calls'
      BY <2>1, <3>1, CallsHandled DEF TypeInv
    <3>3. \A t \in Servers : Sound(added'[t]) /\ Live(t)' = Live(t)
      BY <3>1, OthersLive
    <3> QED
      BY <3>2, <3>3 DEF QueuesInv
  <2>4. CASE iface = "connected"
    <3>1. /\ added' = [added EXCEPT ![s] = ServerFound(@, NextSerial)]
          /\ reqs' = Append(reqs, ForDevice(s, NextSerial))
      BY <1>6, <2>2, <2>4 DEF HandleFoundServer
    <3>2. ForDevice(s, NextSerial) \in Requests
      BY FreshSerial, RequestForms
    <3>3. ForDevice(s, NextSerial) \in Calls' /\ ToSet(reqs) \subseteq ToSet(reqs')
      BY <3>1, <3>2, CallMade DEF TypeInv
    <3>4. Calls \subseteq Calls'
      BY <2>1, <3>3, CallsHandled DEF TypeInv
    <3>5. /\ added'[s] = ServerFound(added[s], NextSerial)
          /\ \A t \in Servers \ {s} : added'[t] = added[t]
      BY <3>1 DEF TypeInv, BrokerTypes
    <3>6. Sound(added'[s]) /\ \A e \in Live(s)' : ForDevice(s, e.serial) \in Calls'
      BY <3>3, <3>5, FoundLive
    <3>7. \A t \in Servers \ {s} : Sound(added'[t]) /\ Live(t)' = Live(t)
      BY <3>5, OthersLive
    <3> QED
      BY <3>4, <3>6, <3>7 DEF QueuesInv
  <2> QED
    BY <2>3, <2>4
<1>7. CASE HandleLostServer
  <2>1. /\ bus # <<>> /\ bus' = Tail(bus) /\ Head(bus) \in Messages
        /\ Head(bus).kind = "lost"
    BY <1>7, TakeFrom DEF HandleLostServer, Delivered, TypeInv, BusTypes
  <2>2. PICK s \in Servers : s = Head(bus).server
    BY <2>1, MessageForms
  <2>3. reqs' = reqs
    BY <1>7 DEF HandleLostServer
  <2>4. Calls \subseteq Calls'
    BY <2>1, <2>3, CallsHandled DEF TypeInv
  <2>5. /\ added'[s] = added[s] \/ added'[s] = ServerLost(added[s])
        /\ \A t \in Servers \ {s} : added'[t] = added[t]
    BY <1>7, <2>2 DEF HandleLostServer, TypeInv, BrokerTypes
  <2>6. Sound(added'[s]) /\ Live(s)' \subseteq Live(s)
    BY <2>5, LostLive, OthersLive
  <2>7. \A t \in Servers \ {s} : Sound(added'[t]) /\ Live(t)' = Live(t)
    BY <2>5, OthersLive
  <2> QED
    BY <2>4, <2>6, <2>7 DEF QueuesInv
<1>8. CASE HandleDeviceProxy
  <2>1. /\ bus # <<>> /\ bus' = Tail(bus) /\ Head(bus) \in Messages
        /\ Head(bus).kind = "reply"
    BY <1>8, TakeFrom DEF HandleDeviceProxy, Delivered, TypeInv, BusTypes
  <2>2. Head(bus).to \in Requests /\ Head(bus).to.kind = "device"
    BY <1>8, <2>1, MessageForms DEF HandleDeviceProxy
  <2>3. PICK s \in Servers, k \in Nat : Head(bus).to = ForDevice(s, k)
    BY <2>2, RequestForms
  <2>4. Head(bus).to.server = s /\ Head(bus).to.serial = k /\ reqs' = reqs
    BY <1>8, <2>3 DEF HandleDeviceProxy, ForDevice
  <2>5. \A c \in Calls : c = ForDevice(s, k) \/ c \in Calls'
    BY <2>1, <2>3, <2>4, CallsHandled DEF TypeInv
  <2>6. added'[s] = ServerProcessed(added[s], k) /\ \A t \in Servers \ {s} : added'[t] = added[t]
    BY <1>8, <2>4 DEF HandleDeviceProxy, TypeInv, BrokerTypes
  <2>7. Sound(added'[s]) /\ Live(s)' = {e \in Live(s) : e.serial # k}
    BY <2>6, ProcessedLive
  <2>8. \A t \in Servers \ {s} : Sound(added'[t]) /\ Live(t)' = Live(t)
    BY <2>6, OthersLive
  <2>9. ASSUME NEW t \in Servers, NEW e \in Live(t)' PROVE ForDevice(t, e.serial) \in Calls'
    <3>1. e \in Live(t) /\ (t = s => e.serial # k)
      BY <2>7, <2>8
    <3>2. ForDevice(t, e.serial) # ForDevice(s, k)
      BY <3>1 DEF ForDevice
    <3>3. ForDevice(t, e.serial) \in Calls
      BY <3>1 DEF QueuesInv
    <3> QED
      BY <2>5, <3>2, <3>3
  <2> QED
    BY <2>7, <2>8, <2>9 DEF QueuesInv
<1>9. CASE HandleVanished
  <2>1. /\ bus # <<>> /\ bus' = Tail(bus) /\ Head(bus) \in Messages
        /\ Head(bus).kind = "vanished"
    BY <1>9, TakeFrom DEF HandleVanished, Delivered, TypeInv, BusTypes
  <2>2. ToSet(reqs) \subseteq ToSet(reqs')
    BY <1>9, CallMade, RequestForms DEF HandleVanished, Connect, TypeInv
  <2>3. Calls \subseteq Calls'
    BY <2>1, <2>2, CallsHandled DEF TypeInv
  <2>4. ASSUME NEW s \in Servers
        PROVE  added'[s] = added[s] \/ added'[s] = ServerLost(added[s])
    BY <1>9 DEF HandleVanished, Clear
  <2>5. \A s \in Servers : Sound(added'[s]) /\ Live(s)' \subseteq Live(s)
    BY <2>4, LostLive, OthersLive
  <2> QED
    BY <2>3, <2>5 DEF QueuesInv
<1>10. CASE HandleManagerProxy
  <2>1. bus # <<>> /\ bus' = Tail(bus) /\ Head(bus).to.kind # "device" /\ added' = added
    BY <1>10 DEF HandleManagerProxy, Delivered
  <2>2. ToSet(reqs) \subseteq ToSet(reqs')
    BY <1>10, CallMade, RequestForms DEF HandleManagerProxy, Connect, TypeInv
  <2>3. \A c \in Calls : c.kind = "device" => c \in Calls'
    BY <2>1, <2>2, CallsHandled DEF TypeInv
  <2>4. \A s \in Servers : Sound(added'[s]) /\ Live(s)' = Live(s)
    BY <2>1, OthersLive
  <2> QED
    BY <2>3, <2>4 DEF QueuesInv, ForDevice
<1>11. CASE RescanDone
  <2>1. bus # <<>> /\ bus' = Tail(bus) /\ Head(bus).to.kind # "device" /\ added' = added
    BY <1>11 DEF RescanDone, Delivered
  <2>2. ToSet(reqs) \subseteq ToSet(reqs')
    BY <1>11, CallMade, RequestForms DEF RescanDone, Connect, TypeInv
  <2>3. \A c \in Calls : c.kind = "device" => c \in Calls'
    BY <2>1, <2>2, CallsHandled DEF TypeInv
  <2>4. \A s \in Servers : Sound(added'[s]) /\ Live(s)' = Live(s)
    BY <2>1, OthersLive
  <2> QED
    BY <2>3, <2>4 DEF QueuesInv, ForDevice
<1>12. CASE RescanNow
  <2>1. Calls \subseteq Calls'
    BY <1>12, CallMade, RequestForms DEF RescanNow, TypeInv
  <2>9. \A s \in Servers : Sound(added'[s]) /\ Live(s)' = Live(s)
    BY <1>12, OthersLive DEF RescanNow
  <2> QED
    BY <2>1, <2>9 DEF QueuesInv
<1>13. ASSUME NEW s \in Servers, HandleCancelled(s) PROVE QueuesInv'
  <2>1. Calls' = Calls
    BY <1>13 DEF HandleCancelled, Calls
  <2>2. PICK k : /\ added'[s] = ServerProcessed(added[s], k)
                 /\ \A t \in Servers \ {s} : added'[t] = added[t]
    BY <1>13 DEF HandleCancelled, TypeInv, BrokerTypes
  <2>3. Sound(added'[s]) /\ Live(s)' \subseteq Live(s)
    BY <2>2, ProcessedLive
  <2>4. \A t \in Servers \ {s} : Sound(added'[t]) /\ Live(t)' = Live(t)
    BY <2>2, OthersLive
  <2> QED
    BY <2>1, <2>3, <2>4 DEF QueuesInv
<1>14. CASE UNCHANGED vars
  BY <1>14 DEF vars, QueuesInv, Calls, Live
<1>15. CASE Environment
  BY <1>1, <1>2, <1>3, <1>4, <1>5, <1>15 DEF Environment, Answer
<1>16. CASE Dispatch
  BY <1>6, <1>7, <1>8, <1>9, <1>10, <1>11, <1>16 DEF Dispatch
<1> QED
  BY <1>12, <1>13, <1>14, <1>15, <1>16 DEF Next
-----------------------------------------------------------------------------
(* The last word on the bus about a server *)

LEMMA SaidMore ==
    ASSUME BusTypes, NEW m \in Messages, bus' = Append(bus, m), NEW s \in Servers
    PROVE  /\ Concerns(m, s) =>
                 /\ ~Silent(s)'
                 /\ \A i \in 1..Len(bus') : LastWord(i, s)' => bus'[i] = m
           /\ ~Concerns(m, s) =>
                 /\ Silent(s)' => Silent(s)
                 /\ \A i \in 1..Len(bus') : LastWord(i, s)' =>
                       i \in 1..Len(bus) /\ LastWord(i, s) /\ bus'[i] = bus[i]
<1>1. /\ Len(bus) \in Nat /\ Len(bus') = Len(bus) + 1 /\ bus'[Len(bus) + 1] = m
      /\ \A i \in 1..Len(bus) : bus'[i] = bus[i]
  BY AppendTo DEF BusTypes
<1>2. ASSUME Concerns(m, s), NEW i \in 1..Len(bus'), LastWord(i, s)' PROVE bus'[i] = m
  BY <1>1, <1>2 DEF LastWord, Concerns
<1>3. Concerns(m, s) => ~Silent(s)'
  BY <1>1 DEF Silent, Concerns
<1>4. ~Concerns(m, s) => (Silent(s)' => Silent(s))
  BY <1>1 DEF Silent, Concerns
<1>5. ASSUME ~Concerns(m, s), NEW i \in 1..Len(bus'), LastWord(i, s)'
      PROVE  i \in 1..Len(bus) /\ LastWord(i, s) /\ bus'[i] = bus[i]
  BY <1>1, <1>5 DEF LastWord, Concerns
<1> QED
  BY <1>2, <1>3, <1>4, <1>5

LEMMA SaidLess ==
    ASSUME BusTypes, bus # <<>>, bus' = Tail(bus), NEW s \in Servers
    PROVE  /\ \A i \in 1..Len(bus') : LastWord(i, s)' =>
                 i + 1 \in 1..Len(bus) /\ LastWord(i + 1, s) /\ bus'[i] = bus[i + 1]
           /\ Silent(s)' /\ ~Concerns(Head(bus), s) => Silent(s)
           /\ Silent(s)' /\ Concerns(Head(bus), s) => LastWord(1, s)
           /\ 1 \in 1..Len(bus) /\ Head(bus) = bus[1]
<1>1. /\ Len(bus) \in Nat \ {0} /\ Len(bus') = Len(bus) - 1 /\ Head(bus) = bus[1]
      /\ \A i \in 1..Len(bus') : i + 1 \in 1..Len(bus) /\ bus'[i] = bus[i + 1]
  BY TakeFrom DEF BusTypes
<1>2. ASSUME NEW j \in 1..Len(bus), j # 1
      PROVE  j - 1 \in 1..Len(bus') /\ bus'[j - 1] = bus[j]
  <2>1. j - 1 \in 1..Len(bus') /\ (j - 1) + 1 = j
    BY <1>1, <1>2
  <2> QED
    BY <1>1, <2>1
<1>3. ASSUME NEW i \in 1..Len(bus'), LastWord(i, s)'
      PROVE  i + 1 \in 1..Len(bus) /\ LastWord(i + 1, s) /\ bus'[i] = bus[i + 1]
  <2>1. i + 1 \in 1..Len(bus) /\ bus'[i] = bus[i + 1] /\ Concerns(bus[i + 1], s)
    BY <1>1, <1>3 DEF LastWord, Concerns
  <2>2. ASSUME NEW j \in 1..Len(bus), Concerns(bus[j], s) PROVE j <= i + 1
    <3>1. CASE j = 1
      BY <1>1, <3>1
    <3>2. CASE j # 1
      <4>1. j - 1 \in 1..Len(bus') /\ bus'[j - 1] = bus[j]
        BY <1>2, <3>2
      <4>2. j - 1 <= i
        BY <1>3, <2>2, <4>1 DEF LastWord, Concerns
      <4> QED
        BY <1>1, <4>2
    <3> QED
      BY <3>1, <3>2
  <2> QED
    BY <2>1, <2>2 DEF LastWord
<1>4. ASSUME Silent(s)', NEW j \in 1..Len(bus), j # 1 PROVE ~Concerns(bus[j], s)
  BY <1>2, <1>4 DEF Silent, Concerns
<1>5. Silent(s)' /\ ~Concerns(Head(bus), s) => Silent(s)
  BY <1>1, <1>4 DEF Silent
<1>6. Silent(s)' /\ Concerns(Head(bus), s) => LastWord(1, s)
  BY <1>1, <1>4 DEF LastWord
<1> QED
  BY <1>1, <1>3, <1>5, <1>6

LEMMA SaidAll ==
    ASSUME BusTypes, Crash, NEW s \in Servers
    PROVE  /\ ~Silent(s)'
           /\ \A i \in 1..Len(bus') : LastWord(i, s)' => bus'[i].kind = "vanished"
<1>1. /\ Len(bus) \in Nat /\ Len(reqs) \in Nat /\ Len(bus') = Len(bus) + 1 + Len(reqs)
      /\ bus'[Len(bus) + 1].kind = "vanished"
      /\ \A n \in 1..Len(reqs) : bus'[Len(bus) + 1 + n].kind = "reply"
  BY Crashed, NewMessages
<1>2. Concerns(bus'[Len(bus) + 1], s) /\ Len(bus) + 1 \in 1..Len(bus')
  BY <1>1 DEF Concerns
<1>3. ASSUME NEW i \in 1..Len(bus'), LastWord(i, s)' PROVE bus'[i].kind = "vanished"
  <2>1. Len(bus) + 1 <= i
    BY <1>2, <1>3 DEF LastWord, Concerns
  <2>2. CASE i = Len(bus) + 1
    BY <1>1, <2>2
  <2>3. CASE i # Len(bus) + 1
    <3>1. i - (Len(bus) + 1) \in 1..Len(reqs) /\ i = Len(bus) + 1 + (i - (Len(bus) + 1))
      BY <1>1, <2>1, <2>3
    <3>2. bus'[i].kind = "reply"
      BY <1>1, <3>1
    <3> QED
      BY <1>3, <3>2 DEF LastWord, Concerns
  <2> QED
    BY <2>2, <2>3
<1> QED
  BY <1>2, <1>3 DEF Silent, Concerns


LEMMA BusNext == DiscoveryInv /\ [Next]_vars => BusInv'
<1> SUFFICES ASSUME BusTypes, BusInv, [Next]_vars
             PROVE  BusInv'
  BY DEF DiscoveryInv, TypeInv
<1> USE DEF BusInv
<1>1. CASE Start
  <2>1. bus' = bus /\ dleyna'.exported = dleyna.exported
    BY <1>1 DEF Start, BusTypes
  <2> QED
    BY <2>1 DEF LastWord, Concerns
<1>2. CASE Crash
  <2>1. dleyna'.exported = {}
    BY <1>2 DEF Crash
  <2> QED
    BY <1>2, <2>1, SaidAll
<1>3. ASSUME NEW ok \in BOOLEAN, AnswerWith(ok) PROVE BusInv'
  <2>1. bus' = Append(bus, Reply(Head(reqs), ok)) /\ dleyna' = dleyna
    BY <1>3 DEF AnswerWith
  <2>2. reqs # <<>> /\ Head(reqs) \in Requests
    BY <1>3, TakeFrom DEF AnswerWith, BusTypes
  <2>3. Reply(Head(reqs), ok) \in Messages /\ \A s : ~Concerns(Reply(Head(reqs), ok), s)
    BY <2>2, NewMessages DEF Concerns
  <2> QED
    BY <2>1, <2>3, SaidMore
<1>4. ASSUME NEW s \in Servers, Appear(s) PROVE BusInv'
  <2> DEFINE m == FoundServer(s)
  <2>1. bus' = Append(bus, m) /\ dleyna'.exported = dleyna.exported \cup {s}
    BY <1>4 DEF Appear, BusTypes
  <2>2. /\ m \in Messages /\ m.kind = "found"
        /\ \A t : Concerns(m, t) <=> t = s
    BY NewMessages DEF Concerns
  <2> HIDE DEF m
  <2> QED
    BY <2>1, <2>2, SaidMore
<1>5. ASSUME NEW s \in Servers, Disappear(s) PROVE BusInv'
  <2> DEFINE m == LostServer(s)
  <2>1. bus' = Append(bus, m) /\ dleyna'.exported = dleyna.exported \ {s}
    BY <1>5 DEF Disappear, BusTypes
  <2>2. /\ m \in Messages /\ m.kind = "lost"
        /\ \A t : Concerns(m, t) <=> t = s
    BY NewMessages DEF Concerns
  <2> HIDE DEF m
  <2> QED
    BY <2>1, <2>2, SaidMore
<1>6. CASE HandleFoundServer
  <2>1. bus # <<>> /\ bus' = Tail(bus) /\ dleyna' = dleyna
    BY <1>6 DEF HandleFoundServer, Delivered
  <2> QED
    BY <2>1, SaidLess
<1>7. CASE HandleLostServer
  <2>1. bus # <<>> /\ bus' = Tail(bus) /\ dleyna' = dleyna
    BY <1>7 DEF HandleLostServer, Delivered
  <2> QED
    BY <2>1, SaidLess
<1>8. CASE HandleDeviceProxy
  <2>1. bus # <<>> /\ bus' = Tail(bus) /\ dleyna' = dleyna
    BY <1>8 DEF HandleDeviceProxy, Delivered
  <2> QED
    BY <2>1, SaidLess
<1>9. CASE HandleVanished
  <2>1. bus # <<>> /\ bus' = Tail(bus) /\ dleyna' = dleyna
    BY <1>9 DEF HandleVanished, Delivered
  <2> QED
    BY <2>1, SaidLess
<1>10. CASE HandleManagerProxy
  <2>1. bus # <<>> /\ bus' = Tail(bus) /\ dleyna' = dleyna
    BY <1>10 DEF HandleManagerProxy, Delivered
  <2> QED
    BY <2>1, SaidLess
<1>11. CASE RescanDone
  <2>1. bus # <<>> /\ bus' = Tail(bus) /\ dleyna' = dleyna
    BY <1>11 DEF RescanDone, Delivered
  <2> QED
    BY <2>1, SaidLess
<1>12. CASE RescanNow
  <2>1. bus' = bus /\ dleyna'.exported = dleyna.exported
    BY <1>12 DEF RescanNow, BusTypes
  <2> QED
    BY <2>1 DEF LastWord, Concerns
<1>13. ASSUME NEW s \in Servers, HandleCancelled(s) PROVE BusInv'
  <2>1. bus' = bus /\ dleyna'.exported = dleyna.exported
    BY <1>13 DEF HandleCancelled, BusTypes
  <2> QED
    BY <2>1 DEF LastWord, Concerns
<1>14. CASE UNCHANGED vars
  BY <1>14 DEF vars, LastWord, Concerns
<1>15. CASE Environment
  BY <1>1, <1>2, <1>3, <1>4, <1>5, <1>15 DEF Environment, Answer
<1>16. CASE Dispatch
  BY <1>6, <1>7, <1>8, <1>9, <1>10, <1>11, <1>16 DEF Dispatch
<1> QED
  BY <1>12, <1>13, <1>14, <1>15, <1>16 DEF Next

(* What is true of a server stays true while nothing happens to it. *)
LEMMA KnownStays ==
    ASSUME NEW s \in Servers, Live(s)' = Live(s), s \in ToSet(list') <=> s \in ToSet(list),
           s \in dleyna'.exported <=> s \in dleyna.exported, Known(s)
    PROVE  Known(s)'
  BY DEF Known

(* Without a manager's proxy nothing is listed or awaited. *)
LEMMA EmptyQueue ==
    ASSUME TypeInv, QueuesInv, ListInv, NEW s \in Servers, iface = "none"
    PROVE  added[s] = <<>> /\ ToSet(added[s]) = {} /\ Live(s) = {} /\ list = <<>>
           /\ ToSet(list) = {} /\ \A k : ServerProcessed(added[s], k) = <<>>
<1>1. added[s] = <<>> /\ list = <<>>
  BY DEF ListInv
<1>2. ToSet(added[s]) = {} /\ ToSet(list) = {}
  BY <1>1 DEF ToSet
<1>3. ASSUME NEW k PROVE ServerProcessed(added[s], k) = <<>>
  <2>1. added[s] \in Seq(Entries) /\ Sound(added[s])
    BY DEF TypeInv, BrokerTypes, QueuesInv
  <2>2. /\ ServerProcessed(added[s], k) \in Seq(Entries)
        /\ ToSet(ServerProcessed(added[s], k)) = {}
    BY <1>2, <2>1, Processed
  <2> DEFINE q == ServerProcessed(added[s], k)
  <2>3. DOMAIN q = 1..Len(q) /\ Len(q) \in Nat
    BY <2>2
  <2>4. Len(q) = 0
    <3>1. 1 \in 1..Len(q) => q[1] \in ToSet(q)
      BY <2>3 DEF ToSet
    <3> QED
      BY <2>2, <2>3, <3>1
  <2> QED
    BY <2>2, <2>4
<1> QED
  BY <1>1, <1>2, <1>3 DEF Live


LEMMA ListNext == DiscoveryInv /\ [Next]_vars => ListInv'
<1> SUFFICES ASSUME TypeInv, QueuesInv, BusInv, ListInv, [Next]_vars
             PROVE  ListInv'
  BY DEF DiscoveryInv
<1>1. CASE Start
  <2>1. /\ list' = list /\ added' = added /\ missed' = missed
        /\ (iface' = iface \/ iface' # "none") /\ dleyna'.exported = dleyna.exported
    BY <1>1 DEF Start, broker, TypeInv, BusTypes
  <2>2. \A s \in Servers : Silent(s)' => Silent(s)
    BY <1>1 DEF Start, Silent, Concerns
  <2>3. ASSUME NEW s \in Servers \ missed, Silent(s)' PROVE Known(s)'
    BY <2>1, <2>2, <2>3, OthersLive, KnownStays DEF ListInv
  <2> QED
    BY <2>1, <2>3 DEF ListInv
<1>2. CASE Crash
  <2>1. list' = list /\ added' = added /\ iface' = iface
    BY <1>2 DEF Crash, broker
  <2>2. \A s \in Servers : ~Silent(s)'
    BY <1>2, SaidAll DEF TypeInv
  <2> QED
    BY <2>1, <2>2 DEF ListInv
<1>3. ASSUME NEW ok \in BOOLEAN, AnswerWith(ok) PROVE ListInv'
  <2>1. /\ list' = list /\ added' = added /\ missed' = missed
        /\ (iface' = iface \/ iface' # "none") /\ dleyna'.exported = dleyna.exported
    BY <1>3 DEF AnswerWith, broker
  <2>2. \A s \in Servers : Silent(s)' => Silent(s)
    <3>1. bus' = Append(bus, Reply(Head(reqs), ok))
      BY <1>3 DEF AnswerWith
    <3>2. reqs # <<>> /\ Head(reqs) \in Requests
      BY <1>3, TakeFrom DEF AnswerWith, TypeInv, BusTypes
    <3>3. Reply(Head(reqs), ok) \in Messages /\ \A s : ~Concerns(Reply(Head(reqs), ok), s)
      BY <3>2, NewMessages DEF Concerns
    <3> QED
      BY <3>1, <3>3, SaidMore DEF TypeInv
  <2>3. ASSUME NEW s \in Servers \ missed, Silent(s)' PROVE Known(s)'
    BY <2>1, <2>2, <2>3, OthersLive, KnownStays DEF ListInv
  <2> QED
    BY <2>1, <2>3 DEF ListInv
<1>4. ASSUME NEW s \in Servers, Appear(s) PROVE ListInv'
  <2> DEFINE m == FoundServer(s)
  <2>1. /\ list' = list /\ added' = added /\ iface' = iface /\ missed' = missed
        /\ bus' = Append(bus, m) /\ dleyna'.exported = dleyna.exported \cup {s}
    BY <1>4 DEF Appear, broker, TypeInv, BusTypes
  <2>2. m \in Messages /\ \A t : Concerns(m, t) <=> t = s
    BY NewMessages DEF Concerns
  <2> HIDE DEF m
  <2>3. ASSUME NEW t \in Servers \ missed, Silent(t)' PROVE Known(t)'
    <3>1. t # s /\ Silent(t)
      BY <2>1, <2>2, <2>3, SaidMore DEF TypeInv
    <3> QED
      BY <2>1, <3>1, OthersLive, KnownStays DEF ListInv
  <2> QED
    BY <2>1, <2>3 DEF ListInv
<1>5. ASSUME NEW s \in Servers, Disappear(s) PROVE ListInv'
  <2> DEFINE m == LostServer(s)
  <2>1. /\ list' = list /\ added' = added /\ iface' = iface /\ missed' = missed
        /\ bus' = Append(bus, m) /\ dleyna'.exported = dleyna.exported \ {s}
    BY <1>5 DEF Disappear, broker, TypeInv, BusTypes
  <2>2. m \in Messages /\ \A t : Concerns(m, t) <=> t = s
    BY NewMessages DEF Concerns
  <2> HIDE DEF m
  <2>3. ASSUME NEW t \in Servers \ missed, Silent(t)' PROVE Known(t)'
    <3>1. t # s /\ Silent(t)
      BY <2>1, <2>2, <2>3, SaidMore DEF TypeInv
    <3> QED
      BY <2>1, <3>1, OthersLive, KnownStays DEF ListInv
  <2> QED
    BY <2>1, <2>3 DEF ListInv
<1>6. CASE HandleFoundServer
  <2>1. /\ bus # <<>> /\ bus' = Tail(bus) /\ Head(bus) \in Messages
        /\ Head(bus).kind = "found" /\ dleyna' = dleyna
    BY <1>6, TakeFrom DEF HandleFoundServer, Delivered, TypeInv, BusTypes
  <2>2. PICK s \in Servers : s = Head(bus).server
    BY <2>1, MessageForms
  <2>3. /\ \A t \in Servers \ {s} : Silent(t)' => Silent(t)
        /\ Silent(s)' => (s \in dleyna.exported <=> Head(bus).kind = "found")
    BY <2>1, <2>2, SaidLess DEF TypeInv, Concerns, BusInv
  <2>4. CASE iface # "connected"
    <3>1. UNCHANGED <<added, list, iface>> /\ missed' = missed \cup {s}
      BY <1>6, <2>2, <2>4 DEF HandleFoundServer
    <3>2. ASSUME NEW t \in Servers \ missed', Silent(t)' PROVE Known(t)'
      BY <2>1, <2>3, <3>1, <3>2, OthersLive, KnownStays DEF ListInv
    <3> QED
      BY <3>1, <3>2 DEF ListInv
  <2>5. CASE iface = "connected"
    <3>1. /\ added' = [added EXCEPT ![s] = ServerFound(@, NextSerial)]
          /\ UNCHANGED <<list, iface>> /\ missed' = missed \ {s}
      BY <1>6, <2>2, <2>5 DEF HandleFoundServer
    <3>2. /\ added'[s] = ServerFound(added[s], NextSerial)
          /\ \A t \in Servers \ {s} : added'[t] = added[t]
      BY <3>1 DEF TypeInv, BrokerTypes
    <3>3. Live(s)' # {}
      BY <3>2, FoundLive
    <3>4. Silent(s)' => Known(s)'
      BY <2>1, <2>3, <3>3 DEF Known
    <3>5. ASSUME NEW t \in Servers \ missed', t # s, Silent(t)' PROVE Known(t)'
      BY <2>1, <2>3, <3>1, <3>2, <3>5, OthersLive, KnownStays DEF ListInv
    <3> QED
      BY <2>5, <3>1, <3>4, <3>5 DEF ListInv
  <2> QED
    BY <2>4, <2>5
<1>7. CASE HandleLostServer
  <2>1. /\ bus # <<>> /\ bus' = Tail(bus) /\ Head(bus) \in Messages
        /\ Head(bus).kind = "lost" /\ dleyna' = dleyna
    BY <1>7, TakeFrom DEF HandleLostServer, Delivered, TypeInv, BusTypes
  <2>2. PICK s \in Servers : s = Head(bus).server
    BY <2>1, MessageForms
  <2>3. /\ \A t \in Servers \ {s} : Silent(t)' => Silent(t)
        /\ Silent(s)' => (s \in dleyna.exported <=> Head(bus).kind = "found")
    BY <2>1, <2>2, SaidLess DEF TypeInv, Concerns, BusInv
  <2>4. CASE iface # "connected"
    <3>1. UNCHANGED <<added, list, iface>> /\ missed' = missed \cup {s}
      BY <1>7, <2>2, <2>4 DEF HandleLostServer
    <3>2. ASSUME NEW t \in Servers \ missed', Silent(t)' PROVE Known(t)'
      BY <2>1, <2>3, <3>1, <3>2, OthersLive, KnownStays DEF ListInv
    <3> QED
      BY <3>1, <3>2 DEF ListInv
  <2>5. CASE iface = "connected"
    <3>1. /\ added' = [added EXCEPT ![s] = ServerLost(@)]
          /\ list' = RemoveFirst(list, s) /\ iface' = iface /\ missed' = missed \ {s}
      BY <1>7, <2>2, <2>5 DEF HandleLostServer
    <3>2. /\ added'[s] = ServerLost(added[s])
          /\ \A t \in Servers \ {s} : added'[t] = added[t]
      BY <3>1 DEF TypeInv, BrokerTypes
    <3>3. ToSet(list') = ToSet(list) \ {s} /\ IsInjective(list')
      BY <3>1, RemoveElement DEF TypeInv, BrokerTypes, ListInv
    <3>4. Live(s)' = {}
      BY <3>2, LostLive
    <3>5. Silent(s)' => Known(s)'
      BY <2>1, <2>3, <3>3, <3>4 DEF Known
    <3>6. ASSUME NEW t \in Servers \ missed', t # s, Silent(t)' PROVE Known(t)'
      BY <2>1, <2>3, <3>1, <3>2, <3>3, <3>6, OthersLive, KnownStays DEF ListInv
    <3> QED
      BY <2>5, <3>1, <3>3, <3>5, <3>6 DEF ListInv
  <2> QED
    BY <2>4, <2>5
<1>8. CASE HandleDeviceProxy
  <2>1. /\ bus # <<>> /\ bus' = Tail(bus) /\ Head(bus) \in Messages
        /\ Head(bus).kind = "reply" /\ dleyna' = dleyna
    BY <1>8, TakeFrom DEF HandleDeviceProxy, Delivered, TypeInv, BusTypes
  <2>2. Head(bus).to \in Requests /\ Head(bus).to.kind = "device"
    BY <1>8, <2>1, MessageForms DEF HandleDeviceProxy
  <2>3. PICK s \in Servers, k \in Nat : s = Head(bus).to.server /\ k = Head(bus).to.serial
    BY <2>2, RequestForms
  <2> DEFINE awaited == \E e \in Live(s) : e.serial = k
             proxy == Head(bus).ok /\ awaited
  <2>4. /\ list' = IF proxy /\ s \notin ToSet(list) \cup Local THEN Append(list, s) ELSE list
        /\ missed' = IF awaited /\ ~proxy THEN missed \cup {s} ELSE missed
        /\ added'[s] = ServerProcessed(added[s], k) /\ iface' = iface
        /\ \A t \in Servers \ {s} : added'[t] = added[t]
    BY <1>8, <2>3 DEF HandleDeviceProxy, TypeInv, BrokerTypes
  <2>5. \A t \in Servers : Silent(t)' => Silent(t)
    BY <2>1, SaidLess DEF TypeInv, Concerns
  <2>6. Live(s)' = {e \in Live(s) : e.serial # k}
    BY <2>4, ProcessedLive
  <2> HIDE DEF awaited
  <2>7. /\ IsInjective(list') /\ ToSet(list') \cap Local = {}
        /\ ToSet(list') = IF proxy /\ s \notin Local THEN ToSet(list) \cup {s} ELSE ToSet(list)
    <3>1. CASE proxy /\ s \notin ToSet(list) \cup Local
      <4>1. list' = Append(list, s) /\ list \in Seq(Servers)
        BY <2>4, <3>1 DEF TypeInv, BrokerTypes
      <4>2. ToSet(list') = ToSet(list) \cup {s} /\ IsInjective(list')
        BY <3>1, <4>1, AppendSet DEF ListInv
      <4> QED
        BY <3>1, <4>2 DEF ListInv
    <3>2. CASE ~(proxy /\ s \notin ToSet(list) \cup Local)
      BY <2>4, <3>2 DEF ListInv
    <3> QED
      BY <3>1, <3>2
  <2>8. ASSUME NEW t \in Servers \ missed', Silent(t)' PROVE Known(t)'
    <3>1. Known(t) /\ t \notin missed
      BY <2>4, <2>5, <2>8 DEF ListInv
    <3>2. CASE t # s
      BY <2>1, <2>4, <2>7, <3>1, <3>2, OthersLive, KnownStays
    <3>3. CASE t = s /\ awaited
      <4>1. Live(s) # {} /\ proxy
        BY <2>4, <2>8, <3>3 DEF awaited
      <4> QED
        BY <2>1, <2>7, <3>1, <3>3, <4>1 DEF Known
    <3>4. CASE t = s /\ ~awaited
      <4>1. Live(s)' = Live(s)
        BY <2>6, <3>4 DEF awaited
      <4> QED
        BY <2>1, <2>7, <3>1, <3>4, <4>1, KnownStays
    <3> QED
      BY <3>2, <3>3, <3>4
  <2>9. ASSUME iface' = "none" PROVE list' = <<>> /\ \A t \in Servers : added'[t] = <<>>
    BY <2>4, <2>9, EmptyQueue DEF awaited
  <2> QED
    BY <2>7, <2>8, <2>9 DEF ListInv
<1>9. CASE HandleVanished
  <2>1. /\ bus # <<>> /\ bus' = Tail(bus) /\ Head(bus) \in Messages
        /\ Head(bus).kind = "vanished" /\ dleyna' = dleyna
    BY <1>9, TakeFrom DEF HandleVanished, Delivered, TypeInv, BusTypes
  <2>2. \A s \in Servers : Silent(s)' => s \notin dleyna.exported
    BY <2>1, SaidLess DEF TypeInv, Concerns, BusInv
  <2>3. ToSet(<<>>) = {} /\ IsInjective(<<>>)
    BY DEF ToSet, IsInjective
  <2>4. CASE iface = "connecting"
    <3>1. UNCHANGED <<iface, list, added>> /\ missed' = ToSet(list) \cup Awaited(added)
      BY <1>9, <2>4 DEF HandleVanished
    <3>2. ASSUME NEW s \in Servers \ missed', Silent(s)' PROVE Known(s)'
      <4>1. Live(s)' = {} /\ s \notin ToSet(list')
        BY <3>1, <3>2 DEF Awaited, Live
      <4> QED
        BY <2>1, <2>2, <3>2, <4>1 DEF Known
    <3> QED
      BY <2>4, <3>1, <3>2 DEF ListInv
  <2>5. CASE iface = "none"
    <3>1. UNCHANGED <<list, added>> /\ iface' = "connecting"
      BY <1>9, <2>5 DEF HandleVanished, Connect
    <3>2. ASSUME NEW s \in Servers, Silent(s)' PROVE Known(s)'
      <4>1. Live(s)' = {} /\ s \notin ToSet(list')
        BY <2>5, <3>1, EmptyQueue DEF Live
      <4> QED
        BY <2>1, <2>2, <3>2, <4>1 DEF Known
    <3> QED
      BY <3>1, <3>2 DEF ListInv
  <2>6. CASE iface = "connected"
    <3>1. list' = <<>> /\ iface' = "connecting" /\ missed' = Awaited(added')
      BY <1>9, <2>6 DEF HandleVanished, Clear, Connect
    <3>2. ASSUME NEW s \in Servers \ missed', Silent(s)' PROVE Known(s)'
      <4>1. Live(s)' = {} /\ s \notin ToSet(list')
        BY <2>3, <3>1, <3>2 DEF Awaited, Live
      <4> QED
        BY <2>1, <2>2, <3>2, <4>1 DEF Known
    <3> QED
      BY <2>3, <3>1, <3>2 DEF ListInv
  <2> QED
    BY <2>4, <2>5, <2>6 DEF TypeInv, BrokerTypes
<1>10. CASE HandleManagerProxy
  <2>1. /\ list' = list /\ added' = added /\ missed' = missed
        /\ (iface' = iface \/ iface' # "none") /\ dleyna'.exported = dleyna.exported
    BY <1>10 DEF HandleManagerProxy, Connect
  <2>2. \A s \in Servers : Silent(s)' => Silent(s)
    <3>1. bus # <<>> /\ bus' = Tail(bus) /\ Head(bus).kind = "reply"
      BY <1>10 DEF HandleManagerProxy, Delivered
    <3> QED
      BY <3>1, SaidLess DEF TypeInv, Concerns
  <2>3. ASSUME NEW s \in Servers \ missed, Silent(s)' PROVE Known(s)'
    BY <2>1, <2>2, <2>3, OthersLive, KnownStays DEF ListInv
  <2> QED
    BY <2>1, <2>3 DEF ListInv
<1>11. CASE RescanDone
  <2>1. /\ list' = list /\ added' = added /\ missed' = missed
        /\ (iface' = iface \/ iface' # "none") /\ dleyna'.exported = dleyna.exported
    BY <1>11 DEF RescanDone
  <2>2. \A s \in Servers : Silent(s)' => Silent(s)
    <3>1. bus # <<>> /\ bus' = Tail(bus) /\ Head(bus).kind = "reply"
      BY <1>11 DEF RescanDone, Delivered
    <3> QED
      BY <3>1, SaidLess DEF TypeInv, Concerns
  <2>3. ASSUME NEW s \in Servers \ missed, Silent(s)' PROVE Known(s)'
    BY <2>1, <2>2, <2>3, OthersLive, KnownStays DEF ListInv
  <2> QED
    BY <2>1, <2>3 DEF ListInv
<1>12. CASE RescanNow
  <2>1. /\ list' = list /\ added' = added /\ missed' = missed
        /\ (iface' = iface \/ iface' # "none") /\ dleyna'.exported = dleyna.exported
    BY <1>12 DEF RescanNow
  <2>2. \A s \in Servers : Silent(s)' => Silent(s)
    BY <1>12 DEF RescanNow, Silent, Concerns
  <2>3. ASSUME NEW s \in Servers \ missed, Silent(s)' PROVE Known(s)'
    BY <2>1, <2>2, <2>3, OthersLive, KnownStays DEF ListInv
  <2> QED
    BY <2>1, <2>3 DEF ListInv
<1>13. ASSUME NEW s \in Servers, HandleCancelled(s) PROVE ListInv'
  <2>1. PICK e \in ToSet(added[s]) :
           e.cancelled /\ added' = [added EXCEPT ![s] = ServerProcessed(@, e.serial)]
    BY <1>13 DEF HandleCancelled
  <2>2. UNCHANGED <<dleyna, bus, iface, list, missed>>
    BY <1>13 DEF HandleCancelled
  <2>3. /\ added'[s] = ServerProcessed(added[s], e.serial)
        /\ \A t \in Servers \ {s} : added'[t] = added[t]
    BY <2>1 DEF TypeInv, BrokerTypes
  <2>4. Live(s)' = Live(s)
    <3>1. Live(s)' = {x \in Live(s) : x.serial # e.serial}
      BY <2>3, ProcessedLive
    <3>2. {x \in Live(s) : x.serial # e.serial} = Live(s)
      BY <2>1, CanceledSerial
    <3> QED
      BY <3>1, <3>2
  <2>5. ASSUME NEW t \in Servers \ missed', Silent(t)' PROVE Known(t)'
    <3>1. Silent(t) /\ Live(t)' = Live(t)
      BY <2>2, <2>3, <2>4, <2>5, OthersLive DEF Silent, Concerns
    <3> QED
      BY <2>2, <3>1, KnownStays DEF ListInv
  <2>6. iface # "none"
    BY <2>1, EmptyQueue
  <2> QED
    BY <2>2, <2>5, <2>6 DEF ListInv
<1>14. CASE UNCHANGED vars
  BY <1>14 DEF vars, ListInv, Silent, Concerns, Known, Live
<1>15. CASE Environment
  BY <1>1, <1>2, <1>3, <1>4, <1>5, <1>15 DEF Environment, Answer
<1>16. CASE Dispatch
  BY <1>6, <1>7, <1>8, <1>9, <1>10, <1>11, <1>16 DEF Dispatch
<1> QED
  BY <1>12, <1>13, <1>14, <1>15, <1>16 DEF Next
-----------------------------------------------------------------------------
LEMMA DiscoveryInit == Init => DiscoveryInv
<1> SUFFICES ASSUME Init PROVE DiscoveryInv
  OBVIOUS
<1>1. /\ reqs = <<>> /\ iface = "none" /\ list = <<>>
      /\ added = [s \in Servers |-> <<>>]
      /\ rescan = [timer |-> FALSE, inhibited |-> FALSE] /\ missed = dleyna.exported
  BY DEF Init
<1>2. \/ dleyna = [up |-> FALSE, exported |-> {}] /\ bus = <<Vanished>>
      \/ dleyna \in [up : {TRUE}, exported : SUBSET Servers] /\ bus = <<>>
  <2> QED
    BY DEF Init
<1>3. /\ bus = <<>> \/ (bus = <<Vanished>> /\ dleyna.exported = {})
      /\ dleyna \in [up : BOOLEAN, exported : SUBSET Servers]
  <2>1. CASE dleyna = [up |-> FALSE, exported |-> {}] /\ bus = <<Vanished>>
    <3>1. dleyna \in [up : BOOLEAN, exported : SUBSET Servers] /\ dleyna.exported = {}
      BY <2>1
    <3> QED
      BY <2>1, <3>1
  <2>2. CASE dleyna \in [up : {TRUE}, exported : SUBSET Servers] /\ bus = <<>>
    <3>1. dleyna \in [up : BOOLEAN, exported : SUBSET Servers]
      BY <2>2
    <3> QED
      BY <2>2, <3>1
  <2> QED
    BY <1>2, <2>1, <2>2
<1>4. TypeInv
  <2>1. bus \in Seq(Messages)
    <3>1. ASSUME NEW m \in Messages PROVE <<m>> \in Seq(Messages)
      OBVIOUS
    <3>2. Vanished \in Messages /\ <<>> \in Seq(Messages)
      BY NewMessages
    <3> QED
      BY ONLY <1>3, <3>1, <3>2
  <2>2. BrokerTypes
    BY <1>1, <1>3 DEF BrokerTypes
  <2> QED
    BY <1>1, <1>3, <2>1, <2>2 DEF TypeInv, BusTypes
<1>5. CallsInv
  <2>1. \A k : Requested(k) = {} /\ Replied(k) = {}
    BY <1>1, <1>3, NewMessages DEF Requested, Replied
  <2> QED
    BY <1>1, <2>1 DEF CallsInv, Single, Pending, ManagerLast
<1>6. \A s \in Servers : added[s] = <<>> /\ Live(s) = {}
  BY <1>1 DEF Live, ToSet
<1>7. QueuesInv
  BY <1>6 DEF QueuesInv, Sound
<1>8. BusInv
  BY <1>3, NewMessages DEF BusInv, LastWord, Concerns
<1>9. ListInv
  <2>1. ToSet(list) = {} /\ IsInjective(list)
    BY <1>1 DEF ToSet, IsInjective
  <2> QED
    BY <1>1, <1>6, <2>1 DEF ListInv, Known
<1> QED
  BY <1>4, <1>5, <1>7, <1>8, <1>9 DEF DiscoveryInv

LEMMA DiscoveryNext == DiscoveryInv /\ [Next]_vars => DiscoveryInv'
<1> SUFFICES ASSUME DiscoveryInv, [Next]_vars PROVE DiscoveryInv'
  OBVIOUS
<1>1. BusTypes'
  BY BusTypesNext DEF DiscoveryInv
<1>2. BrokerTypes'
  BY BrokerTypesNext
<1>3. CallsInv' /\ QueuesInv' /\ BusInv' /\ ListInv'
  BY CallsNext, QueuesNext, BusNext, ListNext
<1> QED
  BY <1>1, <1>2, <1>3 DEF DiscoveryInv, TypeInv

LEMMA DiscoveryAlways == Spec => []DiscoveryInv
<1>1. Init => DiscoveryInv
  BY DiscoveryInit
<1>2. DiscoveryInv /\ [Next]_vars => DiscoveryInv'
  BY DiscoveryNext
<1> QED
  BY <1>1, <1>2, PTL DEF Spec

-----------------------------------------------------------------------------
(* The list agrees with dLeyna once the broker has handled all that was    *)
(* sent to it (found and lost signals, proxies, dLeyna's name vanishing),  *)
(* whatever their order, and leaves out the servers on this host.          *)
THEOREM ListIsRight == Spec => []ListFollows
<1>1. DiscoveryInv => ListFollows
  <2> SUFFICES ASSUME DiscoveryInv PROVE ListFollows
    OBVIOUS
  <2>1. ASSUME bus = <<>>, NEW s \in Servers \ (Local \cup missed), Live(s) = {}
        PROVE  s \in ToSet(list) <=> s \in dleyna.exported
    <3>1. Silent(s)
      BY <2>1 DEF Silent
    <3>2. Known(s)
      BY <3>1 DEF DiscoveryInv, ListInv
    <3> QED
      BY <2>1, <3>2 DEF Known
  <2> QED
    BY <2>1 DEF ListFollows, DiscoveryInv, ListInv
<1> QED
  BY <1>1, DiscoveryAlways, PTL

(* At most one proxy per server is awaited (ServersLostAndFound), its call *)
(* has not returned, and its server has not been reported lost.            *)
THEOREM LostAndFound == Spec => []LostAndFoundSound
<1>1. DiscoveryInv => LostAndFoundSound
  <2> SUFFICES ASSUME DiscoveryInv,
                      NEW s \in Servers, NEW n \in DOMAIN added[s], ~added[s][n].cancelled
               PROVE  /\ n = Len(added[s])
                      /\ ForDevice(s, added[s][n].serial) \in Calls
                      /\ \/ s \in dleyna.exported \cup missed
                         \/ {LostServer(s), Vanished} \cap ToSet(bus) # {}
    BY DEF LostAndFoundSound, DiscoveryInv, ListInv
  <2>1. DOMAIN added[s] = 1..Len(added[s]) /\ bus \in Seq(Messages)
    BY DEF DiscoveryInv, TypeInv, BusTypes, BrokerTypes
  <2>2. added[s][n] \in Live(s)
    BY DEF Live, ToSet
  <2>3. n = Len(added[s]) /\ ForDevice(s, added[s][n].serial) \in Calls
    BY <2>1, <2>2 DEF DiscoveryInv, QueuesInv, Sound
  <2>4. CASE Silent(s)
    <3>1. s \notin missed => Known(s)
      BY <2>4 DEF DiscoveryInv, ListInv
    <3> QED
      BY <2>2, <2>3, <3>1 DEF Known
  <2>5. CASE ~Silent(s)
    <3> DEFINE X == {i \in 1..Len(bus) : Concerns(bus[i], s)}
    <3>1. X # {} /\ X \in SUBSET (1..Len(bus)) /\ Len(bus) \in Nat
      BY <2>1, <2>5 DEF Silent
    <3>2. PICK i \in X : \A j \in X : j <= i
      <4> HIDE DEF X
      <4> QED
        BY <3>1, LastOne
    <3>3. i \in 1..Len(bus) /\ LastWord(i, s)
      BY <3>2 DEF LastWord
    <3>4. bus[i].kind = "found" <=> s \in dleyna.exported
      BY <3>3 DEF DiscoveryInv, BusInv
    <3>5. bus[i] \in Messages /\ bus[i] \in ToSet(bus)
      BY <2>1, <3>3 DEF ToSet
    <3>6. Concerns(bus[i], s)
      BY <3>3 DEF LastWord
    <3>7. s \notin dleyna.exported => bus[i] \in {LostServer(s), Vanished}
      BY <3>4, <3>5, <3>6, MessageForms DEF Concerns
    <3> QED
      BY <2>3, <3>5, <3>7
  <2> QED
    BY <2>4, <2>5
<1> QED
  BY <1>1, DiscoveryAlways, PTL

(* PeriodicRescan: its timer runs while there is a manager, and rescans    *)
(* are held back exactly while one is underway.                            *)
THEOREM OneRescan == Spec => []RescanSound
<1>1. DiscoveryInv => RescanSound
  <2> SUFFICES ASSUME DiscoveryInv PROVE RescanSound
    OBVIOUS
  <2> DEFINE A == Requested("rescan")
             B == Replied("rescan")
  <2>1. /\ \A m, n \in A : m = n
        /\ \A m, n \in B : m = n
        /\ A = {} \/ B = {}
        /\ (A # {} \/ B # {}) <=> rescan.inhibited
        /\ rescan.timer <=> iface = "connected"
    BY DEF DiscoveryInv, CallsInv, Single, Pending
  <2> HIDE DEF A, B
  <2>2. ASSUME NEW S, \A m, n \in S : m = n
        PROVE  Cardinality(S) = IF S = {} THEN 0 ELSE 1
    <3>1. CASE S = {}
      BY <3>1, FS_EmptySet
    <3>2. CASE S # {}
      <4>1. PICK x : S = {x}
        BY <2>2, <3>2
      <4> QED
        BY <4>1, FS_Singleton
    <3> QED
      BY <3>1, <3>2
  <2>3. Cardinality(A) = (IF A = {} THEN 0 ELSE 1) /\ Cardinality(B) = (IF B = {} THEN 0 ELSE 1)
    BY <2>1, <2>2
  <2>4. Cardinality(A) + Cardinality(B) = IF rescan.inhibited THEN 1 ELSE 0
    BY <2>1, <2>3
  <2> QED
    BY <2>1, <2>4 DEF RescanSound, A, B
<1> QED
  BY <1>1, DiscoveryAlways, PTL
=============================================================================
