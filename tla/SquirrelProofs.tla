--------------------------- MODULE SquirrelProofs ---------------------------
(***************************************************************************)
(* The servers of a cluster stay consistent, for any number of servers,    *)
(* names and clients, any capacity and on any network.                     *)
(***************************************************************************)
EXTENDS Squirrel, DataProofs

\* The names in the list of a server are full names it made itself.
OwnName(s) == {FullName[s, n] : n \in Names}

ListsOwn ==
    \A s \in Servers : sizes[s] \in Seq(SizeEntry(OwnName(s), Nat)) /\ InOrder(sizes[s])

Inv == TypeOK /\ CopiesInPairs /\ ListsOwn /\ AcksOfStored

LEMMA OwnNameType == ASSUME NEW s \in Servers PROVE OwnName(s) \in SUBSET Int
  BY FullNameAssumption DEF OwnName

\* A list of own names is what OwnNames says of it.
LEMMA InvConsistent == Inv => Consistent
<1>. SUFFICES ASSUME Inv PROVE OwnNames
  BY DEF Inv, Consistent
<1>. SUFFICES ASSUME NEW s \in Servers
              PROVE  /\ \A i \in DOMAIN sizes[s] : \E n \in Names : sizes[s][i].name = FullName[s, n]
                     /\ InOrder(sizes[s])
  BY DEF OwnNames
<1>1. sizes[s] \in Seq(SizeEntry(OwnName(s), Nat)) /\ InOrder(sizes[s])
  BY DEF Inv, ListsOwn
<1>2. \A i \in DOMAIN sizes[s] : sizes[s][i] \in SizeEntry(OwnName(s), Nat)
  BY <1>1, ListBasics
<1>3. \A i \in DOMAIN sizes[s] : sizes[s][i].name \in OwnName(s)
  BY <1>2 DEF SizeEntry
<1>. QED BY <1>1, <1>3 DEF OwnName

\* A list of own names is one of names.
LEMMA OwnListType ==
    ASSUME NEW s \in Servers, NEW m \in Seq(SizeEntry(OwnName(s), Nat))
    PROVE  m \in Seq(SizeEntry(Int, Nat))
<1>1. \A x \in SizeEntry(OwnName(s), Nat) : x \in SizeEntry(Int, Nat)
  BY OwnNameType DEF SizeEntry
<1>2. Len(m) \in Nat /\ DOMAIN m = 1 .. Len(m) /\ \A i \in DOMAIN m : m[i] \in SizeEntry(OwnName(s), Nat)
  BY ListBasics
<1>3. \A i \in 1 .. Len(m) : m[i] \in SizeEntry(Int, Nat)
  BY <1>1, <1>2
<1>4. m = [i \in 1 .. Len(m) |-> m[i]]
  OBVIOUS
<1>. HIDE DEF SizeEntry
<1>5. [i \in 1 .. Len(m) |-> m[i]] \in Seq(SizeEntry(Int, Nat))
  BY <1>2, <1>3, IsASeq
<1>. QED BY <1>4, <1>5

\* What get() finds is a number of blocks, or -1.
LEMMA SizeGetType ==
    ASSUME NEW m \in Seq(SizeEntry(Int, Nat)), NEW n
    PROVE  SizeGet(m, n) \in Nat \cup {-1}
<1>. DEFINE at == NameAt(m, n)
<1>1. DOMAIN m = 1 .. Len(m) /\ \A i \in DOMAIN m : m[i] \in SizeEntry(Int, Nat)
  BY ListBasics
<1>2. at \in SUBSET Nat /\ at \subseteq DOMAIN m
  BY <1>1 DEF NameAt
<1>. HIDE DEF at
<1>3. at # {} => First(at) \in at
  BY <1>2, LeastExists
<1>4. at # {} => m[First(at)] \in SizeEntry(Int, Nat)
  BY <1>1, <1>2, <1>3
<1>5. at # {} => m[First(at)].size \in Nat
  BY <1>4 DEF SizeEntry
<1>. QED BY <1>5 DEF SizeGet, at

LEMMA InitInv == Init => Inv
<1>. SUFFICES ASSUME Init PROVE Inv
  OBVIOUS
<1>1. \A s \in Servers : sizes[s] = << >>
  BY DEF Init
<1>2. ListsOwn
  <2>1. InOrder(<< >>)
    BY DEF InOrder
  <2>2. \A s \in Servers : << >> \in Seq(SizeEntry(OwnName(s), Nat))
    BY EmptySeq
  <2>. QED BY <1>1, <2>1, <2>2 DEF ListsOwn
<1>3. TypeOK
  <2>1. << >> \in Seq(SizeEntry(Int, Nat))
    BY EmptySeq
  <2>. QED BY <2>1, CapacityAssumption DEF Init, TypeOK
<1>4. CopiesInPairs /\ AcksOfStored
  BY DEF Init, CopiesInPairs, AcksOfStored
<1>. QED BY <1>2, <1>3, <1>4 DEF Inv

\* Datagrams are named by what they say, who says it and to whom.
LEMMA MsgType ==
    ASSUME NEW k \in {"store", "ack", "ask"}, NEW s \in Servers, NEW t \in Servers
    PROVE  /\ Msg(k, s, t) \in Datagram
           /\ Msg(k, s, t).kind = k /\ Msg(k, s, t).from = s
  BY DEF Msg, Datagram

(***************************************************************************)
(* One server works on its request, the others not: its copies stay in     *)
(* pairs.                                                                  *)
(***************************************************************************)
OwnStep(s) ==
    /\ pc' = [pc EXCEPT ![s] = pc'[s]]
    /\ pc'[s] \in {"accept", "acceptUdp", "read", "readUdp", "readTcp",
                   "choose", "stuck", "wait", "fetch", "dead"}
    /\ left' = [left EXCEPT ![s] = left'[s]] /\ left'[s] \in Nat
    /\ notThisHost' = [notThisHost EXCEPT ![s] = notThisHost'[s]]
    /\ notThisHost'[s] \in Servers \cup {None}
    /\ host' = [host EXCEPT ![s] = host'[s]] /\ host'[s] \in Servers \cup {None}
    /\ pc'[s] \in {"choose", "stuck", "wait"} =>
          left'[s] > 0 /\ (left'[s] % 2 = 1 <=> notThisHost'[s] # None)
    /\ pc'[s] = "wait" => host'[s] \notin {None, s, notThisHost'[s]}

LEMMA PairsStep ==
    ASSUME Inv, NEW s \in Servers, OwnStep(s)
    PROVE  /\ pc' \in [Servers -> {"accept", "acceptUdp", "read", "readUdp", "readTcp",
                                   "choose", "stuck", "wait", "fetch", "dead"}]
           /\ left' \in [Servers -> Nat]
           /\ notThisHost' \in [Servers -> Servers \cup {None}]
           /\ host' \in [Servers -> Servers \cup {None}]
           /\ CopiesInPairs'
<1>1. /\ pc' \in [Servers -> {"accept", "acceptUdp", "read", "readUdp", "readTcp",
                              "choose", "stuck", "wait", "fetch", "dead"}]
      /\ left' \in [Servers -> Nat]
      /\ notThisHost' \in [Servers -> Servers \cup {None}]
      /\ host' \in [Servers -> Servers \cup {None}]
  BY DEF Inv, TypeOK, OwnStep
<1>2. CopiesInPairs'
  <2>1. SUFFICES ASSUME NEW x \in Servers
                 PROVE  /\ pc'[x] \in {"choose", "stuck", "wait"} =>
                              left'[x] > 0 /\ (left'[x] % 2 = 1 <=> notThisHost'[x] # None)
                        /\ pc'[x] = "wait" => host'[x] \notin {None, x, notThisHost'[x]}
    BY DEF CopiesInPairs
  <2>2. CASE x = s
    BY <2>2 DEF OwnStep
  <2>3. CASE x # s
    <3>1. pc'[x] = pc[x] /\ left'[x] = left[x] /\ notThisHost'[x] = notThisHost[x] /\ host'[x] = host[x]
      BY <2>3 DEF Inv, TypeOK, OwnStep
    <3>. QED BY <3>1 DEF Inv, CopiesInPairs
  <2>. QED BY <2>2, <2>3
<1>. QED BY <1>1, <1>2

\* Such a step keeps the invariant if it sends no ACK and stores nothing.
LEMMA ServerStep ==
    ASSUME Inv, NEW s \in Servers, OwnStep(s),
           UNCHANGED <<sizes, used>>, clients' \in Nat, faults' \in Nat,
           net' \subseteq Datagram,
           \A m \in net' : m.kind = "ack" => m \in net
    PROVE  Inv'
<1>1. CopiesInPairs' /\ TypeOK'
  BY PairsStep DEF Inv, TypeOK
<1>2. ListsOwn' /\ AcksOfStored'
  BY DEF Inv, ListsOwn, AcksOfStored
<1>. QED BY <1>1, <1>2 DEF Inv

----------------------------------------------------------------------------
LEMMA IdleInv ==
    ASSUME Inv, NEW s \in Servers, Accept(s) \/ Alarm(s) \/ OwnBroadcast(s) \/ HangUp(s) \/ NoHost(s)
    PROVE  Inv'
<1>1. /\ UNCHANGED <<left, notThisHost, host, sizes, used, net, faults>>
      /\ clients' \in Nat /\ faults' \in Nat
  BY DEF Accept, Alarm, OwnBroadcast, HangUp, NoHost, Inv, TypeOK
<1>2. /\ pc' = [pc EXCEPT ![s] = pc'[s]]
      /\ pc'[s] \in {"accept", "acceptUdp", "read", "readUdp", "readTcp", "stuck"}
      /\ pc'[s] = "stuck" => pc[s] = "choose"
  BY DEF Accept, Alarm, OwnBroadcast, HangUp, NoHost, Goto, Return, Inv, TypeOK
<1>3. OwnStep(s)
  BY <1>1, <1>2 DEF OwnStep, Inv, TypeOK, CopiesInPairs
<1>4. net' \subseteq Datagram /\ \A m \in net' : m.kind = "ack" => m \in net
  BY <1>1 DEF Inv, TypeOK
<1>. QED BY <1>1, <1>3, <1>4, ServerStep

\* A server that answers datagrams keeps its place and may fill its cache.
LEMMA ServeInv ==
    ASSUME Inv, NEW s \in Servers, NEW m \in net, Serve(s, m)
    PROVE  Inv'
<1>1. /\ pc[s] \in Serving /\ m.to = s /\ m \in Datagram
      /\ UNCHANGED <<left, notThisHost, host, sizes, clients, faults>>
      /\ Return(s)
  BY DEF Serve, ServeAt, Inv, TypeOK
<1>2. /\ used' \in [Servers -> 0 .. Capacity]
      /\ \A t \in Servers : used[t] > 0 => used'[t] > 0
      /\ net' \subseteq Datagram
      /\ \A d \in net' : d.kind = "ack" => d \in net \/ used'[d.from] > 0
  <2>1. used \in [Servers -> 0 .. Capacity] /\ net \subseteq Datagram /\ Capacity \in Nat
    BY CapacityAssumption DEF Inv, TypeOK
  <2>2. CASE net' = net \ {m} /\ UNCHANGED used
    BY <2>1, <2>2
  <2>3. CASE /\ used[s] < Capacity
             /\ \E n \in {used[s], used[s] + 1} \ {0} : used' = [used EXCEPT ![s] = n]
             /\ net' = (net \ {m}) \cup {Msg("ack", x, m.from) : x \in {s} \ Mute}
    <3>1. PICK n \in {used[s], used[s] + 1} \ {0} : used' = [used EXCEPT ![s] = n]
      BY <2>3
    <3>2. n \in 1 .. Capacity
      BY <2>1, <2>3
    <3>3. used' \in [Servers -> 0 .. Capacity] /\ used'[s] > 0
      BY <2>1, <3>1, <3>2
    <3>4. \A t \in Servers : used[t] > 0 => used'[t] > 0
      BY <2>1, <3>1, <3>3
    <3>5. m.from \in Servers
      BY <1>1 DEF Datagram
    <3>6. \A d \in net' : d \in net \/ d = Msg("ack", s, m.from)
      BY <2>3
    <3>7. Msg("ack", s, m.from) \in Datagram /\ Msg("ack", s, m.from).from = s
      BY <3>5, MsgType
    <3>. QED BY <2>1, <3>3, <3>4, <3>6, <3>7
  <2>. QED BY <2>2, <2>3 DEF Serve, ServeAt
<1>3. /\ pc' \in [Servers -> {"accept", "acceptUdp", "read", "readUdp", "readTcp",
                              "choose", "stuck", "wait", "fetch", "dead"}]
      /\ \A t \in Servers : pc'[t] \in {"choose", "stuck", "wait"} => pc'[t] = pc[t]
  BY <1>1 DEF Return, Inv, TypeOK
<1>4. TypeOK'
  BY <1>1, <1>2, <1>3 DEF Inv, TypeOK
<1>5. CopiesInPairs' /\ ListsOwn'
  BY <1>1, <1>3 DEF Inv, CopiesInPairs, ListsOwn
<1>6. AcksOfStored'
  <2>1. \A d \in net : d.kind = "ack" => used[d.from] > 0 /\ d.from \in Servers
    BY DEF Inv, AcksOfStored, TypeOK, Datagram
  <2>. QED BY <1>2, <2>1 DEF AcksOfStored
<1>. QED BY <1>4, <1>5, <1>6 DEF Inv

----------------------------------------------------------------------------
\* A list changes at one server, which makes only names of its own.
LEMMA ListStep ==
    ASSUME Inv, NEW s \in Servers, OwnStep(s),
           NEW m \in Seq(SizeEntry(OwnName(s), Nat)), InOrder(m),
           sizes' = [sizes EXCEPT ![s] = m],
           UNCHANGED <<used, net, clients, faults>>
    PROVE  Inv'
<1>1. m \in Seq(SizeEntry(Int, Nat))
  BY OwnListType
<1>2. CopiesInPairs' /\ TypeOK'
  BY <1>1, PairsStep DEF Inv, TypeOK
<1>3. ListsOwn'
  <2>1. sizes'[s] = m /\ \A x \in Servers : x # s => sizes'[x] = sizes[x]
    BY DEF Inv, TypeOK
  <2>. QED BY <2>1 DEF Inv, ListsOwn
<1>4. AcksOfStored'
  BY DEF Inv, AcksOfStored
<1>. QED BY <1>2, <1>3, <1>4 DEF Inv

LEMMA PutInv ==
    ASSUME Inv, NEW s \in Servers, NEW n \in Names, NEW blocks \in Nat, Put(s, n, blocks)
    PROVE  Inv'
<1>. DEFINE m == SizeRemember(sizes[s], FullName[s, n], blocks)
            p == IF blocks = 0 THEN "accept" ELSE "choose"
<1>1. sizes[s] \in Seq(SizeEntry(OwnName(s), Nat)) /\ InOrder(sizes[s])
  BY DEF Inv, ListsOwn
<1>2. OwnName(s) \in SUBSET Int /\ FullName[s, n] \in OwnName(s)
  BY OwnNameType DEF OwnName
<1>3. m \in Seq(SizeEntry(OwnName(s), Nat)) /\ InOrder(m)
  BY <1>1, <1>2, SizeRememberProperties
<1>4. /\ UNCHANGED <<host, used, net, clients, faults>>
      /\ sizes' = [sizes EXCEPT ![s] = m]
      /\ pc' = [pc EXCEPT ![s] = p]
      /\ left' = [left EXCEPT ![s] = 2 * blocks]
      /\ notThisHost' = [notThisHost EXCEPT ![s] = None]
  BY DEF Put, Goto
<1>5. /\ p \in {"accept", "choose"} /\ 2 * blocks \in Nat /\ None \in Servers \cup {None}
      /\ p = "choose" => 2 * blocks > 0 /\ (2 * blocks) % 2 # 1
  OBVIOUS
<1>. HIDE DEF m, p
<1>6. OwnStep(s)
  BY <1>4, <1>5 DEF OwnStep, Inv, TypeOK
<1>. QED BY <1>3, <1>4, <1>6, ListStep

LEMMA DelInv ==
    ASSUME Inv, NEW s \in Servers, NEW n \in Names, Del(s, n)
    PROVE  Inv'
<1>. DEFINE m == IF SizeGet(sizes[s], n) >= 0 THEN SizeForget(sizes[s], n) ELSE sizes[s]
<1>1. sizes[s] \in Seq(SizeEntry(OwnName(s), Nat)) /\ InOrder(sizes[s])
  BY DEF Inv, ListsOwn
<1>2. SizeForget(sizes[s], n) \in Seq(SizeEntry(OwnName(s), Nat)) /\ InOrder(SizeForget(sizes[s], n))
  BY <1>1, OwnNameType, SizeForgetProperties
<1>3. m \in Seq(SizeEntry(OwnName(s), Nat)) /\ InOrder(m)
  BY <1>1, <1>2
<1>4. /\ UNCHANGED <<left, notThisHost, host, used, net, clients, faults>>
      /\ sizes' = [sizes EXCEPT ![s] = m]
      /\ pc' = [pc EXCEPT ![s] = "accept"]
  BY DEF Del, Goto, Inv, TypeOK
<1>. HIDE DEF m
<1>5. OwnStep(s)
  BY <1>4 DEF OwnStep, Inv, TypeOK
<1>. QED BY <1>3, <1>4, <1>5, ListStep

\* A command enters the network.
LEMMA AskNet ==
    ASSUME Inv, NEW s \in Servers, Ask(s)
    PROVE  net' \subseteq Datagram /\ \A m \in net' : m.kind = "ack" => m \in net
<1>1. PICK K \in SUBSET (Servers \ {s}) : net' = net \cup {Msg("ask", s, t) : t \in K}
  BY DEF Ask
<1>2. \A t \in K : Msg("ask", s, t) \in Datagram /\ Msg("ask", s, t).kind = "ask"
  BY MsgType
<1>. QED BY <1>1, <1>2 DEF Inv, TypeOK

LEMMA GetInv ==
    ASSUME Inv, NEW s \in Servers, NEW n \in Names, Get(s, n)
    PROVE  Inv'
<1>. DEFINE size == SizeGet(sizes[s], FullName[s, n])
<1>1. size \in Nat \cup {-1}
  BY SizeGetType DEF Inv, TypeOK
<1>2. UNCHANGED <<notThisHost, host, sizes, used, clients, faults>>
  BY DEF Get
<1>3. \/ size >= 0 /\ pc' = [pc EXCEPT ![s] = "fetch"] /\ left' = [left EXCEPT ![s] = size] /\ Ask(s)
      \/ pc' = [pc EXCEPT ![s] = "accept"] /\ UNCHANGED <<left, net>>
  BY DEF Get, Goto
<1>. HIDE DEF size
<1>4. OwnStep(s)
  BY <1>1, <1>2, <1>3 DEF OwnStep, Inv, TypeOK
<1>5. net' \subseteq Datagram /\ \A m \in net' : m.kind = "ack" => m \in net
  BY <1>3, AskNet DEF Inv, TypeOK
<1>6. clients' \in Nat /\ faults' \in Nat
  BY <1>2 DEF Inv, TypeOK
<1>. QED BY <1>2, <1>4, <1>5, <1>6, ServerStep

LEMMA RequestInv ==
    ASSUME Inv, NEW s \in Servers, Request(s)
    PROVE  Inv'
<1>1. PICK r \in Requests[s] : \/ r.op = "put" /\ Put(s, r.name, r.blocks)
                               \/ r.op = "get" /\ Get(s, r.name)
                               \/ r.op = "del" /\ Del(s, r.name)
  BY DEF Request
<1>2. r.name \in Names /\ r.blocks \in Nat
  BY RequestsAssumption
<1>. QED BY <1>1, <1>2, PutInv, GetInv, DelInv

----------------------------------------------------------------------------
\* A copy goes to a host other than that of the first copy.
LEMMA ChooseInv ==
    ASSUME Inv, NEW s \in Servers, NEW t \in Servers, Choose(s, t)
    PROVE  Inv'
<1>1. /\ pc[s] = "choose" /\ t \notin {s, notThisHost[s]}
      /\ host' = [host EXCEPT ![s] = t]
      /\ net' = net \cup {Msg("store", s, t)}
      /\ pc' = [pc EXCEPT ![s] = "wait"]
      /\ UNCHANGED <<left, notThisHost, sizes, used, clients, faults>>
  BY DEF Choose, Goto
<1>2. left[s] > 0 /\ (left[s] % 2 = 1 <=> notThisHost[s] # None)
  BY <1>1 DEF Inv, CopiesInPairs
<1>3. Msg("store", s, t) \in Datagram /\ Msg("store", s, t).kind = "store"
  BY MsgType
<1>4. net' \subseteq Datagram /\ \A m \in net' : m.kind = "ack" => m \in net
  BY <1>1, <1>3 DEF Inv, TypeOK
<1>5. t \notin {None, s, notThisHost[s]}
  BY <1>1, NoneAssumption
<1>6. OwnStep(s) /\ clients' \in Nat /\ faults' \in Nat
  BY <1>1, <1>2, <1>5 DEF OwnStep, Inv, TypeOK
<1>. QED BY <1>1, <1>4, <1>6, ServerStep

\* The ACK of a copy settles it; the next copy is the other one of its pair.
LEMMA TakeAckInv ==
    ASSUME Inv, NEW s \in Servers, NEW t \in Servers, TakeAck(s, t)
    PROVE  Inv'
<1>1. /\ pc[s] = "wait"
      /\ net' = net \ {Msg("ack", t, s)}
      /\ UNCHANGED <<sizes, used, clients, faults>>
  BY DEF TakeAck
<1>2. net' \subseteq Datagram /\ \A m \in net' : m.kind = "ack" => m \in net
  BY <1>1 DEF Inv, TypeOK
<1>3. /\ left[s] \in Nat /\ left[s] > 0 /\ (left[s] % 2 = 1 <=> notThisHost[s] # None)
      /\ host[s] \notin {None, s, notThisHost[s]}
  BY <1>1 DEF Inv, CopiesInPairs, TypeOK
<1>4. ASSUME t = host[s] PROVE OwnStep(s)
  <2>. DEFINE p == IF left[s] = 1 THEN "accept" ELSE "choose"
              b == IF notThisHost[s] = None THEN t ELSE None
  <2>1. /\ pc' = [pc EXCEPT ![s] = p]
        /\ left' = [left EXCEPT ![s] = left[s] - 1]
        /\ notThisHost' = [notThisHost EXCEPT ![s] = b]
        /\ host' = [host EXCEPT ![s] = None]
    BY <1>4 DEF TakeAck, Goto, Inv, TypeOK
  <2>2. p = "choose" => left[s] - 1 > 0 /\ ((left[s] - 1) % 2 = 1 <=> b # None)
    <3>1. b # None <=> notThisHost[s] = None
      BY NoneAssumption
    <3>2. (left[s] - 1) % 2 = 1 <=> left[s] % 2 # 1
      BY <1>3
    <3>. QED BY <1>3, <3>1, <3>2
  <2>3. p \in {"accept", "choose"} /\ left[s] - 1 \in Nat /\ b \in Servers \cup {None}
    BY <1>3
  <2>. HIDE DEF p, b
  <2>. QED BY <1>1, <2>1, <2>2, <2>3 DEF OwnStep, Inv, TypeOK
<1>5. ASSUME t # host[s] PROVE OwnStep(s)
  <2>1. UNCHANGED <<left, notThisHost, host, pc>>
    BY <1>5 DEF TakeAck
  <2>. QED BY <1>1, <1>3, <2>1 DEF OwnStep, Inv, TypeOK
<1>6. OwnStep(s)
  BY <1>4, <1>5
<1>7. clients' \in Nat /\ faults' \in Nat
  BY <1>1 DEF Inv, TypeOK
<1>. QED BY <1>1, <1>2, <1>6, <1>7, ServerStep

LEMMA TimeoutInv ==
    ASSUME Inv, NEW s \in Servers, Timeout(s)
    PROVE  Inv'
<1>1. /\ pc[s] = "wait"
      /\ pc' = [pc EXCEPT ![s] = "choose"]
      /\ host' = [host EXCEPT ![s] = None]
      /\ UNCHANGED <<left, notThisHost, sizes, used, net, clients>>
      /\ faults' \in {faults, faults + 1}
  BY DEF Timeout, Goto
<1>2. left[s] > 0 /\ (left[s] % 2 = 1 <=> notThisHost[s] # None)
  BY <1>1 DEF Inv, CopiesInPairs
<1>3. OwnStep(s)
  BY <1>1, <1>2 DEF OwnStep, Inv, TypeOK
<1>4. /\ faults' \in Nat /\ clients' \in Nat
      /\ net' \subseteq Datagram /\ \A m \in net' : m.kind = "ack" => m \in net
  BY <1>1 DEF Inv, TypeOK
<1>. QED BY <1>1, <1>3, <1>4, ServerStep

LEMMA FetchTimeoutInv ==
    ASSUME Inv, NEW s \in Servers, FetchTimeout(s)
    PROVE  Inv'
<1>1. UNCHANGED <<left, notThisHost, host, sizes, used, clients, faults>> /\ pc[s] = "fetch"
  BY DEF FetchTimeout
<1>2. \/ pc' = [pc EXCEPT ![s] = "accept"] /\ UNCHANGED net
      \/ pc' = [pc EXCEPT ![s] = "dead"] /\ UNCHANGED net
      \/ UNCHANGED pc /\ Ask(s)
  BY DEF FetchTimeout, Goto
<1>3. OwnStep(s) /\ clients' \in Nat /\ faults' \in Nat
  BY <1>1, <1>2 DEF OwnStep, Inv, TypeOK
<1>4. net' \subseteq Datagram /\ \A m \in net' : m.kind = "ack" => m \in net
  BY <1>2, AskNet DEF Inv, TypeOK
<1>. QED BY <1>1, <1>3, <1>4, ServerStep

LEMMA LoseInv == ASSUME Inv, NEW m \in net, Lose(m) PROVE Inv'
<1>1. /\ UNCHANGED <<pc, left, notThisHost, host, sizes, used, clients>>
      /\ net' \subseteq net /\ faults' = faults + 1
  BY DEF Lose, local
<1>. QED BY <1>1 DEF Inv, TypeOK, CopiesInPairs, ListsOwn, AcksOfStored

LEMMA NextInv == Inv /\ [Next]_vars => Inv'
<1>. SUFFICES ASSUME Inv, [Next]_vars PROVE Inv'
  OBVIOUS
<1>1. CASE UNCHANGED vars
  BY <1>1 DEF vars, local, Inv, TypeOK, CopiesInPairs, ListsOwn, AcksOfStored
<1>2. CASE Next
  BY <1>2, IdleInv, ServeInv, RequestInv, ChooseInv, TakeAckInv, TimeoutInv, FetchTimeoutInv, LoseInv
     DEF Next
<1>. QED BY <1>1, <1>2

----------------------------------------------------------------------------
\* The inductive invariant of the cluster.
THEOREM ClusterInvariant == Spec => []Inv
<1>. QED BY InitInv, NextInv, PTL DEF Spec

(***************************************************************************)
(* For any cluster: copies go out in pairs to two other hosts, a server    *)
(* lists its own files only and in order, and what is acknowledged was     *)
(* stored.                                                                 *)
(***************************************************************************)
THEOREM ClusterConsistent == Spec => []Consistent
<1>. QED BY InvConsistent, ClusterInvariant, PTL

=============================================================================
