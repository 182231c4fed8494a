------------------------------ MODULE Squirrel ------------------------------
(***************************************************************************)
(* A cluster of squirrel servers (a6/squirrel.c, a6/operations.c, and the  *)
(* handlers of a6/ft_recv.c and a6/ft_send.c).                             *)
(*                                                                         *)
(* A server serves one client at a time, and datagrams from other servers  *)
(* whenever it waits: for a client, for a client's request, or for the ACK *)
(* of a block it distributes.  It serves none while it fetches a file, and *)
(* none inside a read() that SIGALRM made it enter without data.           *)
(*                                                                         *)
(* Distribute is the detail of a put and HostTable that of the table.      *)
(***************************************************************************)
EXTENDS SizeOps

CONSTANTS
    Servers,
    None,           \* no server
    Names,          \* names that clients use
    FullName,       \* getFullName(): a server and a name to "address-name"
    Requests,       \* what the clients of each server may ask
    Putter,         \* the server whose puts are followed
    Capacity,       \* cache blocks of a server
    Mute,           \* servers whose kernel refuses the length given with an ACK
    MaxClients,     \* bound on the clients that connect
    MaxFaults       \* bound on datagrams lost and waits given up too early

ASSUME FullNameAssumption ==
    /\ Names \subseteq Int
    /\ FullName \in [Servers \X Names -> Int]
    /\ \A x, y \in Servers \X Names : FullName[x] = FullName[y] => x = y
ASSUME RequestsAssumption ==
    Requests \in [Servers -> SUBSET [op : {"put", "get", "del"}, name : Names, blocks : Nat]]
ASSUME NoneAssumption == None \notin Servers /\ Putter \in Servers
ASSUME CapacityAssumption == Capacity \in Nat /\ Mute \subseteq Servers

VARIABLES
    pc,         \* where each server is
    left,       \* copies still to distribute, or blocks still to fetch
    notThisHost,\* the host of the first copy, or None
    host,       \* the host whose ACK is awaited, or None
    sizes,      \* the list of sizes of each server
    used,       \* cache blocks in use at each server
    net,        \* datagrams under way to the servers
    clients,    \* clients that have connected
    faults      \* history: datagrams lost and waits given up too early

local == <<pc, left, notThisHost, host, sizes, used>>
vars == <<local, net, clients, faults>>

Datagram == [kind : {"store", "ack", "ask"}, from : Servers, to : Servers]
Msg(k, s, t) == [kind |-> k, from |-> s, to |-> t]

TypeOK ==
    /\ pc \in [Servers -> {"accept", "acceptUdp", "read", "readUdp", "readTcp",
                           "choose", "stuck", "wait", "fetch", "dead"}]
    /\ left \in [Servers -> Nat]
    /\ notThisHost \in [Servers -> Servers \cup {None}]
    /\ host \in [Servers -> Servers \cup {None}]
    /\ sizes \in [Servers -> Seq(SizeEntry(Int, Nat))]
    /\ used \in [Servers -> 0 .. Capacity]
    /\ net \subseteq Datagram
    /\ clients \in Nat
    /\ faults \in Nat

Goto(s, p) == pc' = [pc EXCEPT ![s] = p]

----------------------------------------------------------------------------
\* All servers start together.
Init ==
    /\ pc = [s \in Servers |-> "accept"]
    /\ left = [s \in Servers |-> 0]
    /\ notThisHost = [s \in Servers |-> None]
    /\ host = [s \in Servers |-> None]
    /\ sizes = [s \in Servers |-> << >>]
    /\ used = [s \in Servers |-> 0]
    /\ net = {}
    /\ clients = 0
    /\ faults = 0

\* Bound: there is a client that may still connect to s.
ClientComes(s) == Requests[s] # {} /\ clients < MaxClients

\* accept_or_udp() returns with a client.
Accept(s) ==
    /\ pc[s] = "accept"
    /\ ClientComes(s)
    /\ clients' = clients + 1
    /\ Goto(s, "read")
    /\ UNCHANGED <<left, notThisHost, host, sizes, used, net, faults>>

(***************************************************************************)
(* SIGALRM interrupts select(), which returns -1 and leaves the sets as    *)
(* they were: the server takes both sockets for ready.  It calls udp(),    *)
(* hence recvfrom(), and behind that read() if it has a client.  When no   *)
(* client is to come to the server any more, nothing tells the two waits   *)
(* for a datagram apart.                                                   *)
(***************************************************************************)
Alarm(s) ==
    /\ \/ pc[s] = "accept" /\ ClientComes(s) /\ Goto(s, "acceptUdp")
       \/ pc[s] = "read" /\ Goto(s, "readUdp")
    /\ UNCHANGED <<left, notThisHost, host, sizes, used, net, clients, faults>>

\* udp() returns to the loop that called it.
Return(s) ==
    pc' = [pc EXCEPT ![s] = CASE @ = "acceptUdp" -> "accept"
                              [] @ = "readUdp"   -> "readTcp"
                              [] OTHER           -> @]

\* The broadcast of the handler comes back, and is all udp() needs.
OwnBroadcast(s) ==
    /\ pc[s] \in {"acceptUdp", "readUdp"}
    /\ Return(s)
    /\ UNCHANGED <<left, notThisHost, host, sizes, used, net, clients, faults>>

Serving == {"accept", "acceptUdp", "read", "readUdp", "wait"}

(***************************************************************************)
(* processUdpMessage(): a block is stored and acknowledged if a cache      *)
(* block is free, and may replace one with the same number.  A command is  *)
(* cut at its first zero byte; if it is answered at all, the blocks go to  *)
(* the port where datagrams are served, and like late ACKs have no known   *)
(* form there.  They are left out.                                         *)
(*                                                                         *)
(* An ACK is sent with the size of a pointer for the length of its         *)
(* address.  Linux refuses that, and nobody looks at what sendto() says.   *)
(***************************************************************************)
ServeAt(s, m) ==
    /\ m \in net /\ m.to = s
    /\ pc[s] = "wait" => m.kind # "ack"
    /\ Return(s)
    /\ \/ /\ m.kind = "store"
          /\ IF used[s] < Capacity
               THEN /\ \E n \in {used[s], used[s] + 1} \ {0} : used' = [used EXCEPT ![s] = n]
                    /\ net' = (net \ {m}) \cup {Msg("ack", x, m.from) : x \in {s} \ Mute}
               ELSE net' = net \ {m} /\ UNCHANGED used
       \/ /\ m.kind \in {"ask", "ack"}
          /\ net' = net \ {m}
          /\ UNCHANGED used
    /\ UNCHANGED <<left, notThisHost, host, sizes, clients, faults>>

\* Mutant: datagrams are left alone while a block is distributed.
ServeNotInWait(s, m) == pc[s] \in Serving \ {"wait"} /\ ServeAt(s, m)

Serve(s, m) == pc[s] \in Serving /\ ServeAt(s, m)

----------------------------------------------------------------------------
\* The client's request is read, or the client hangs up or sends too little.
Reading(s) == pc[s] \in {"read", "readTcp"}

HangUp(s) ==
    /\ Reading(s)
    /\ Goto(s, "accept")
    /\ UNCHANGED <<left, notThisHost, host, sizes, used, net, clients, faults>>

\* put(): the size is remembered, then two copies of each block are to go out.
Put(s, n, blocks) ==
    /\ Reading(s)
    /\ sizes' = [sizes EXCEPT ![s] = SizeRemember(sizes[s], FullName[s, n], blocks)]
    /\ left' = [left EXCEPT ![s] = 2 * blocks]
    /\ notThisHost' = [notThisHost EXCEPT ![s] = None]
    /\ Goto(s, IF blocks = 0 THEN "accept" ELSE "choose")
    /\ UNCHANGED <<host, used, net, clients, faults>>

\* send_command() and sendPremadeCommand(): a command goes to the live hosts.
Ask(s) == \E K \in SUBSET (Servers \ {s}) : net' = net \cup {Msg("ask", s, t) : t \in K}

\* get(): a file with a size is asked for.
Get(s, n) ==
    LET size == SizeGet(sizes[s], FullName[s, n])
    IN  /\ Reading(s)
        /\ IF size >= 0
             THEN /\ Goto(s, "fetch")
                  /\ left' = [left EXCEPT ![s] = size]
                  /\ Ask(s)
             ELSE /\ Goto(s, "accept")
                  /\ UNCHANGED <<left, net>>
        /\ UNCHANGED <<notThisHost, host, sizes, used, clients, faults>>

\* del(): the name is looked up as the client gave it.  No block of this cache
\* has a name in the list: blocks are those of other servers.
Del(s, n) ==
    /\ Reading(s)
    /\ sizes' = IF SizeGet(sizes[s], n) >= 0
                  THEN [sizes EXCEPT ![s] = SizeForget(sizes[s], n)]
                  ELSE sizes
    /\ Goto(s, "accept")
    /\ UNCHANGED <<left, notThisHost, host, used, net, clients, faults>>

Request(s) ==
    \E r \in Requests[s] :
        \/ r.op = "put" /\ Put(s, r.name, r.blocks)
        \/ r.op = "get" /\ Get(s, r.name)
        \/ r.op = "del" /\ Del(s, r.name)

----------------------------------------------------------------------------
(***************************************************************************)
(* sendBlockToAHost(): see Distribute.  Here the table is left to chance:  *)
(* any other server may have a live record, and when none has but that of  *)
(* the first copy the server is stuck, for it hears of none.               *)
(***************************************************************************)
Choose(s, t) ==
    /\ pc[s] = "choose"
    /\ t \in Servers \ {s, notThisHost[s]}
    /\ host' = [host EXCEPT ![s] = t]
    /\ net' = net \cup {Msg("store", s, t)}
    /\ Goto(s, "wait")
    /\ UNCHANGED <<left, notThisHost, sizes, used, clients, faults>>

NoHost(s) ==
    /\ pc[s] = "choose"
    /\ Goto(s, "stuck")
    /\ UNCHANGED <<left, notThisHost, host, sizes, used, net, clients, faults>>

\* Mutant: the host of the first copy is not remembered.
TakeAckForgets(s, t) ==
    /\ pc[s] = "wait"
    /\ t = host[s] /\ Msg("ack", t, s) \in net
    /\ net' = net \ {Msg("ack", t, s)}
    /\ left' = [left EXCEPT ![s] = @ - 1]
    /\ host' = [host EXCEPT ![s] = None]
    /\ Goto(s, IF left[s] = 1 THEN "accept" ELSE "choose")
    /\ UNCHANGED <<notThisHost, sizes, used, clients, faults>>

TakeAck(s, t) ==
    /\ pc[s] = "wait"
    /\ Msg("ack", t, s) \in net
    /\ net' = net \ {Msg("ack", t, s)}
    /\ IF t = host[s]
         THEN /\ left' = [left EXCEPT ![s] = @ - 1]
              /\ notThisHost' = [notThisHost EXCEPT ![s] = IF @ = None THEN t ELSE None]
              /\ host' = [host EXCEPT ![s] = None]
              /\ Goto(s, IF left[s] = 1 THEN "accept" ELSE "choose")
         ELSE UNCHANGED <<left, notThisHost, host, pc>>
    /\ UNCHANGED <<sizes, used, clients, faults>>

\* Mutant: select() is called again when it times out.
TimeoutWaits(s) ==
    /\ pc[s] = "wait"
    /\ UNCHANGED vars

\* Where a server serves no datagram for longer than a wait may last.
Deaf == {"readTcp", "stuck", "fetch", "dead"}

(***************************************************************************)
(* The wait ends by the clock or by SIGALRM, and another host is drawn.    *)
(* That is too early, and a fault, if the host asked is about to answer,   *)
(* or if a block or an ACK has come for which select() would have          *)
(* returned.  It is none, and happens again and again, while the host is   *)
(* deaf or has served the block and sent no ACK.                           *)
(***************************************************************************)
Timeout(s) ==
    LET early == \/ Msg("store", s, host[s]) \in net /\ pc[host[s]] \notin Deaf
                 \/ \E m \in net : m.to = s /\ m.kind \in {"store", "ack"}
    IN  /\ pc[s] = "wait"
        /\ early => faults < MaxFaults
        /\ faults' = IF early THEN faults + 1 ELSE faults
        /\ host' = [host EXCEPT ![s] = None]
        /\ Goto(s, "choose")
        /\ UNCHANGED <<left, notThisHost, sizes, used, net, clients>>

(***************************************************************************)
(* request_file(): a second passes.  No datagram ever goes to the socket   *)
(* select_block() watches, so that only the get of an empty file ends.     *)
(* contents is then freed unassigned, or a second time: a server may die.  *)
(***************************************************************************)
FetchTimeout(s) ==
    /\ pc[s] = "fetch"
    /\ \/ left[s] = 0 /\ Goto(s, "accept") /\ UNCHANGED net
       \/ left[s] = 0 /\ Goto(s, "dead") /\ UNCHANGED net
       \/ left[s] > 0 /\ Ask(s) /\ UNCHANGED pc
    /\ UNCHANGED <<left, notThisHost, host, sizes, used, clients, faults>>

Lose(m) ==
    /\ m \in net
    /\ faults < MaxFaults
    /\ faults' = faults + 1
    /\ net' = net \ {m}
    /\ UNCHANGED <<local, clients>>

Next ==
    \/ \E s \in Servers :
          \/ Accept(s) \/ Alarm(s) \/ OwnBroadcast(s) \/ HangUp(s) \/ Request(s)
          \/ NoHost(s) \/ Timeout(s) \/ FetchTimeout(s)
          \/ \E t \in Servers : Choose(s, t) \/ TakeAck(s, t)
          \/ \E m \in net : Serve(s, m)
    \/ \E m \in net : Lose(m)

Spec == Init /\ [][Next]_vars

(***************************************************************************)
(* The clock and the alarm go on, and datagrams that are not lost are      *)
(* served.  For the server whose puts are followed, rand() draws every     *)
(* host again and again, and select() counts down the rest of the two      *)
(* seconds when it is called again, whatever was served in between.        *)
(***************************************************************************)
Fairness ==
    /\ \A s \in Servers :
          /\ WF_vars(OwnBroadcast(s) \/ Timeout(s) \/ FetchTimeout(s))
          /\ WF_vars(\E t \in Servers : Choose(s, t) \/ TakeAck(s, t))
    /\ \A s \in Servers : \A t \in Servers \ {s} : WF_vars(Serve(s, Msg("store", t, s)))
    /\ \A t \in Servers \ {Putter} : SF_vars(Choose(Putter, t))
    /\ SF_vars(Timeout(Putter))

\* Clients, too, come to the end of what they say.
ClientFairness == \A s \in Servers : WF_vars(HangUp(s) \/ Request(s))

FairSpec == Spec /\ Fairness
FairClients == FairSpec /\ ClientFairness

----------------------------------------------------------------------------
(***************************************************************************)
(* Copies go out in pairs: a host is barred exactly while the second copy  *)
(* of a block is due, and the one asked is neither it nor the server.      *)
(***************************************************************************)
CopiesInPairs ==
    \A s \in Servers :
        /\ pc[s] \in {"choose", "stuck", "wait"} =>
              left[s] > 0 /\ (left[s] % 2 = 1 <=> notThisHost[s] # None)
        /\ pc[s] = "wait" => host[s] \notin {None, s, notThisHost[s]}

(***************************************************************************)
(* A server knows the sizes of files put through it alone, and in order,   *)
(* so that a get or a del of another server's file finds nothing.          *)
(***************************************************************************)
OwnNames ==
    \A s \in Servers :
        /\ \A i \in DOMAIN sizes[s] : \E n \in Names : sizes[s][i].name = FullName[s, n]
        /\ InOrder(sizes[s])

\* A block that is acknowledged was stored.
AcksOfStored == \A m \in net : m.kind = "ack" => used[m.from] > 0

(***************************************************************************)
(* What the servers hold fits together, at every step of every server.     *)
(***************************************************************************)
Consistent == TypeOK /\ CopiesInPairs /\ OwnNames /\ AcksOfStored

\* Any other server, for the properties of one pair.
Peer == CHOOSE s \in Servers : s # Putter

\* s comes back to its sockets, whatever it is at.
Up(s) ==
    /\ pc[s] \notin {"stuck", "dead"}
    /\ pc[s] = "fetch" => left[s] = 0

(***************************************************************************)
(* Servers that put at the same time serve each other's blocks: no server  *)
(* leaves one lying unless it is down.                                     *)
(***************************************************************************)
BlocksServed ==
    []Up(Putter) => (Msg("store", Peer, Putter) \in net ~> Msg("store", Peer, Putter) \notin net)

(***************************************************************************)
(* A client of a server that stays up is done with, some time, if two      *)
(* other servers stay up, have room for blocks and can acknowledge them:   *)
(* whatever becomes of the servers beside them, and however often one of   *)
(* those is asked in vain.                                                 *)
(***************************************************************************)
ClientsServed ==
    [](/\ Up(Putter)
       /\ Cardinality({t \in Servers \ ({Putter} \cup Mute) : Up(t) /\ used[t] < Capacity}) >= 2)
        => (pc[Putter] # "accept" ~> pc[Putter] = "accept")

(***************************************************************************)
(* "interruptable reads handle intervening udp requests": a block that is  *)
(* sent to a server that reads from a client is served, however long the   *)
(* client takes.                                                           *)
(***************************************************************************)
ReadsHandleUdp ==
    Msg("store", Peer, Putter) \in net /\ pc[Putter] \in {"read", "readUdp", "readTcp"}
        ~> Msg("store", Peer, Putter) \notin net

=============================================================================
