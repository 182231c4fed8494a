---------------------------- MODULE Distribute -----------------------------
(***************************************************************************)
(* distribute_file() of a6/ft_send.c: a server hands two copies of every   *)
(* block of a file to hosts of its table, one copy at a time, and waits up *)
(* to two seconds for each to be acknowledged.                             *)
(*                                                                         *)
(* A host is remembered as a pointer to its record.  Datagrams other than  *)
(* an ACK are served during the wait and may give the record to another    *)
(* host when it is out of date.  An ACK names no block: one that comes     *)
(* after its wait was given up may be taken in a later wait.               *)
(*                                                                         *)
(* The table is HostTable with an update as one step and the ages of the   *)
(* records left to chance.                                                 *)
(*                                                                         *)
(* A datagram does not say which block it holds: the number is never set,  *)
(* the name is cut to the size of a pointer and the datagram at its first  *)
(* zero byte.  A host takes the rest from what its buffer held before.     *)
(***************************************************************************)
EXTENDS Integers, FiniteSets

CONSTANTS
    Hosts,      \* the other servers
    NoHost,     \* the address of a record never used
    MaxHosts,   \* MAX_STORED_HOSTS
    Tables,     \* host names in the table when the put begins
    Silent,     \* hosts that acknowledge nothing: see Store
    NumBlocks,  \* blocks of the file
    MaxFaults,  \* bound on datagrams lost and waits given up too early
    MaxReused   \* bound on records that change hands

ASSUME HostsAssumption == NoHost \notin Hosts
ASSUME MaxHostsAssumption == MaxHosts \in Nat
\* HostTable!OneRecordPerHost
ASSUME TablesAssumption ==
    Tables \subseteq {f \in [0 .. MaxHosts - 1 -> Hosts \cup {NoHost}] :
        \A s, t \in 0 .. MaxHosts - 1 : f[s] = f[t] /\ f[s] # NoHost => s = t}
ASSUME SilentAssumption == Silent \subseteq Hosts
ASSUME NumBlocksAssumption == NumBlocks \in Nat
ASSUME BoundsAssumption == MaxFaults \in Nat /\ MaxReused \in Nat

VARIABLES
    rec,        \* hostAddr of every record
    live,       \* the records that are not out of date
    pc,         \* choose a host, wait for its ACK, done, or exit(1)
    i,          \* the block under way
    notThisHost,\* the record of its first copy, -1 (NULL) until there is one
    h,          \* the record chosen
    stores,     \* datagrams with a block under way to each host
    acks,       \* ACKs under way from each host
    held,       \* history: the hosts that stored a datagram, and block i then
    spare,      \* history: ACKs sent less copies counted, by host
    extra,      \* history: blocks sent to hosts that answer less copies counted
    faults,     \* history: datagrams lost and waits given up too early
    late,       \* history: a wait was given up with a datagram under way
    reused      \* history: records given to another host

table == <<rec, live>>
history == <<held, spare, extra, faults, late, reused>>
vars == <<table, pc, i, notThisHost, h, stores, acks, history>>

Slots == 0 .. MaxHosts - 1
Blocks == 0 .. NumBlocks - 1
NULL == -1

TypeOK ==
    /\ rec \in [Slots -> Hosts \cup {NoHost}]
    /\ live \in SUBSET Slots
    /\ pc \in {"choose", "wait", "done", "exited"}
    /\ i \in 0 .. NumBlocks
    /\ notThisHost \in Slots \cup {NULL}
    /\ h \in Slots \cup {NULL}
    /\ stores \in [Hosts -> Nat]
    /\ acks \in [Hosts -> Nat]
    /\ held \in SUBSET (Hosts \X (0 .. NumBlocks))
    /\ spare \in [Hosts -> Int]
    /\ extra \in Int
    /\ faults \in Nat
    /\ late \in BOOLEAN
    /\ reused \in Nat

Add(f, x) == [f EXCEPT ![x] = @ + 1]
Drop(f, x) == [f EXCEPT ![x] = @ - 1]

\* Nothing is under way: the wait can only end by the clock.
Quiet == \A x \in Hosts : stores[x] = 0 /\ acks[x] = 0

----------------------------------------------------------------------------
\* A put begins, with a table HostTable can have reached.
Init ==
    /\ rec \in Tables
    /\ live \in SUBSET {s \in Slots : rec[s] # NoHost}
    /\ pc = IF NumBlocks = 0 THEN "done" ELSE "choose"
    /\ i = 0
    /\ notThisHost = NULL
    /\ h = NULL
    /\ stores = [x \in Hosts |-> 0]
    /\ acks = [x \in Hosts |-> 0]
    /\ held = {}
    /\ spare = [x \in Hosts |-> 0]
    /\ extra = 0
    /\ faults = 0
    /\ late = FALSE
    /\ reused = 0

\* The records the loops of chooseRandomHost and its caller can end with.
Eligible == live \ {notThisHost}

\* Block i goes to x, but for all that would tell it from another block.
Send(x) ==
    /\ stores' = Add(stores, x)
    /\ extra' = IF x \in Silent THEN extra ELSE extra + 1

\* Mutant: the second copy may go where the first went.
ChooseAny(s) ==
    /\ pc = "choose"
    /\ s \in live
    /\ h' = s
    /\ Send(rec[s])
    /\ pc' = "wait"
    /\ UNCHANGED <<table, i, notThisHost, acks, held, spare, faults, late, reused>>

(***************************************************************************)
(* A live record other than that of the first copy comes up, and the block *)
(* is sent to its host.  An error of sendto() chooses again: no step.      *)
(***************************************************************************)
Choose(s) ==
    /\ pc = "choose"
    /\ s \in Eligible
    /\ h' = s
    /\ Send(rec[s])
    /\ pc' = "wait"
    /\ UNCHANGED <<table, i, notThisHost, acks, held, spare, faults, late, reused>>

\* The first copy is followed by the second, the second by the next block.
Counted ==
    IF notThisHost = NULL
      THEN /\ notThisHost' = h
           /\ pc' = "choose"
           /\ i' = i
      ELSE /\ notThisHost' = NULL
           /\ pc' = IF i + 1 = NumBlocks THEN "done" ELSE "choose"
           /\ i' = i + 1

\* Mutant: an ACK from any host will do.
TakeAckOfAny(x) ==
    /\ pc = "wait"
    /\ acks[x] > 0
    /\ acks' = Drop(acks, x)
    /\ Counted
    /\ spare' = Drop(spare, rec[h])
    /\ extra' = extra - 1
    /\ UNCHANGED <<table, h, stores, held, faults, late, reused>>

\* Mutant: an ACK from another host ends the wait.
TakeAckRetries(x) ==
    /\ pc = "wait"
    /\ acks[x] > 0
    /\ acks' = Drop(acks, x)
    /\ IF x = rec[h]
         THEN /\ Counted
              /\ spare' = Drop(spare, x)
              /\ extra' = extra - 1
         ELSE /\ pc' = "choose"
              /\ UNCHANGED <<i, notThisHost, spare, extra>>
    /\ UNCHANGED <<table, h, stores, held, faults, late, reused>>

(***************************************************************************)
(* An ACK arrives during the wait.  Its source is compared with what the   *)
(* record chosen says by now; one from another host is thrown away.        *)
(***************************************************************************)
TakeAck(x) ==
    /\ pc = "wait"
    /\ acks[x] > 0
    /\ acks' = Drop(acks, x)
    /\ IF x = rec[h]
         THEN /\ Counted
              /\ spare' = Drop(spare, x)
              /\ extra' = extra - 1
         ELSE UNCHANGED <<pc, i, notThisHost, spare, extra>>
    /\ UNCHANGED <<table, h, stores, held, faults, late, reused>>

\* Mutant: select() is called again when it times out.
TimeoutWaits ==
    /\ pc = "wait"
    /\ Quiet
    /\ UNCHANGED vars

(***************************************************************************)
(* select() returns 0 when time is up, or -1 when SIGALRM interrupts it:   *)
(* another host is chosen.  To give up a wait with a datagram under way is *)
(* a fault.                                                                *)
(***************************************************************************)
Timeout ==
    /\ pc = "wait"
    /\ Quiet \/ faults < MaxFaults
    /\ faults' = IF Quiet THEN faults ELSE faults + 1
    /\ late' = (late \/ ~Quiet)
    /\ pc' = "choose"
    /\ UNCHANGED <<table, i, notThisHost, h, stores, acks, held, spare, extra, reused>>

\* Another datagram from x is served: addOrUpdateHostNow() in one step.
HearAt(x) ==
    /\ \/ /\ \E s \in Slots : rec[s] = x /\ live' = live \cup {s}
          /\ UNCHANGED <<rec, pc, reused>>
       \/ /\ \A s \in Slots : rec[s] # x
          /\ \E s \in Slots \ live :
                /\ \A t \in Slots \ live : s <= t
                /\ rec' = [rec EXCEPT ![s] = x]
                /\ live' = live \cup {s}
                /\ reused' = IF rec[s] = NoHost THEN reused ELSE reused + 1
                /\ reused' <= MaxReused
          /\ UNCHANGED pc
       \/ /\ \A s \in Slots : rec[s] # x
          /\ live = Slots
          /\ pc' = "exited"
          /\ UNCHANGED <<table, reused>>
    /\ UNCHANGED <<i, notThisHost, h, stores, acks, held, spare, extra, faults, late>>

\* Mutant: datagrams are served between two draws of a host, too.
HearAlways(x) ==
    /\ pc \in {"choose", "wait"}
    /\ HearAt(x)

\* Datagrams are served only while the server waits for an ACK.
Hear(x) ==
    /\ pc = "wait"
    /\ HearAt(x)

\* The threshold passes since the host of a record was last heard of.
Expire(s) ==
    /\ pc \in {"choose", "wait"}
    /\ live' = live \ {s}
    /\ UNCHANGED <<rec, pc, i, notThisHost, h, stores, acks, history>>

----------------------------------------------------------------------------
(***************************************************************************)
(* The hosts and the network.  req_is_block_to_store(): a block is stored  *)
(* and acknowledged.  When the cache is full neither is done, as when the  *)
(* datagram is lost.  A host that hangs does neither, and one whose kernel *)
(* refuses the ACK, sent with the size of a pointer for the length of its  *)
(* address as it is, only stores the block.                                *)
(***************************************************************************)
Store(x) ==
    /\ stores[x] > 0
    /\ stores' = Drop(stores, x)
    /\ \/ /\ x \in Silent
          /\ held' \in {held, held \cup {<<x, i>>}}
          /\ UNCHANGED <<acks, spare>>
       \/ /\ x \notin Silent
          /\ held' = held \cup {<<x, i>>}
          /\ acks' = Add(acks, x)
          /\ spare' = Add(spare, x)
    /\ UNCHANGED <<table, pc, i, notThisHost, h, extra, faults, late, reused>>

\* A datagram is lost.
Lose ==
    /\ faults < MaxFaults
    /\ faults' = faults + 1
    /\ \/ /\ \E x \in Hosts : stores[x] > 0 /\ stores' = Drop(stores, x)
          /\ UNCHANGED acks
       \/ /\ \E x \in Hosts : acks[x] > 0 /\ acks' = Drop(acks, x)
          /\ UNCHANGED stores
    /\ UNCHANGED <<table, pc, i, notThisHost, h, held, spare, extra, late, reused>>

Next ==
    \/ \E s \in Slots : Choose(s) \/ Expire(s)
    \/ \E x \in Hosts : TakeAck(x) \/ Hear(x) \/ Store(x)
    \/ Timeout
    \/ Lose

Spec == Init /\ [][Next]_vars

(***************************************************************************)
(* rand() draws every eligible record again and again; datagrams that are  *)
(* not lost arrive; select() counts the rest of its two seconds down from  *)
(* one call to the next.                                                   *)
(***************************************************************************)
Fairness ==
    /\ \A s \in Slots : SF_vars(Choose(s))
    /\ \A x \in Hosts : WF_vars(TakeAck(x)) /\ WF_vars(Store(x))
    /\ WF_vars(Timeout)

FairSpec == Spec /\ Fairness

----------------------------------------------------------------------------
(***************************************************************************)
(* Late answers, lost ones and records that change hands notwithstanding,  *)
(* a host is never counted for more copies than it acknowledged.           *)
(***************************************************************************)
CopiesStored == \A x \in Hosts : spare[x] >= 0

(***************************************************************************)
(* The server goes on to the next block only when two different hosts have *)
(* each stored what they were sent while this one was under way, unless a  *)
(* wait was given up too early or a record of the table changed hands.     *)
(* After either, it may have been one host.  Whether it is the block that  *)
(* they store is not said: see Send.                                       *)
(***************************************************************************)
TwoHosts ==
    ~late /\ reused = 0 =>
        \A b \in Blocks : b < i =>
            \E x, y \in Hosts : x # y /\ {<<x, b>>, <<y, b>>} \subseteq held

(***************************************************************************)
(* A block sent again may be stored a third time.  Each block sent once    *)
(* too often to a host that acknowledges is the work of one fault or of    *)
(* one record that changed hands: without them, such hosts are sent a file *)
(* exactly twice.                                                          *)
(***************************************************************************)
CopiesTooMany == pc = "done" => extra <= faults + reused

\* No record can end the loops that choose a host.
Stuck == pc = "choose" /\ Eligible = {}

(***************************************************************************)
(* A server that has no host to choose never gets one: it hears of no host *)
(* while it chooses.                                                       *)
(***************************************************************************)
StuckForever == [][Stuck => Stuck']_vars

\* Records of hosts that answer, and stay in the table.
Answering == {s \in live : rec[s] \notin Silent}

(***************************************************************************)
(* A put comes to an end if there are always two live hosts that answer.   *)
(***************************************************************************)
PutEnds == [](Cardinality(Answering) >= 2) => <>(pc \in {"done", "exited"})

=============================================================================
