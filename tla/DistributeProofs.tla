-------------------------- MODULE DistributeProofs --------------------------
(***************************************************************************)
(* What holds of every distribution of a file, for any number of hosts,    *)
(* records, blocks and faults.                                             *)
(***************************************************************************)
EXTENDS Distribute, TLAPS

\* No host has two records, and the live records and those the server points
\* to have a host.
TableOK ==
    /\ \A s, t \in Slots : rec[s] = rec[t] /\ rec[s] # NoHost => s = t
    /\ \A s \in live \cup ({h, notThisHost} \ {NULL}) : rec[s] \in Hosts

\* The server chooses and waits for a block of the file.
PlaceOK ==
    /\ pc \in {"choose", "wait"} => i < NumBlocks
    /\ pc = "wait" => h # NULL

\* The ACKs under way are never more than those sent less the copies counted.
AcksBacked == \A x \in Hosts : spare[x] >= acks[x]

(***************************************************************************)
(* While every wait has been waited out and no record changed hands, what  *)
(* is under way belongs to the wait that is on, and is one datagram.       *)
(***************************************************************************)
Awaited(x) == pc \in {"wait", "exited"} /\ x = rec[h]

InTime ==
    /\ \A x \in Hosts : stores[x] # 0 => stores[x] = 1 /\ acks[x] = 0 /\ Awaited(x)
    /\ \A x \in Hosts : acks[x] # 0 =>
          acks[x] = 1 /\ Awaited(x) /\ <<x, i>> \in held
    /\ pc = "wait" => h # notThisHost
    /\ notThisHost # NULL => <<rec[notThisHost], i>> \in held
    /\ \A b \in Blocks : b < i =>
          \E x, y \in Hosts : x # y /\ {<<x, b>>, <<y, b>>} \subseteq held

(***************************************************************************)
(* A block or an ACK is under way to or from the host that is waited for.  *)
(***************************************************************************)
UnderWay ==
    /\ pc = "wait"
    /\ rec[h] \notin Silent
    /\ stores[rec[h]] > 0 \/ acks[rec[h]] > 0

(***************************************************************************)
(* Every block sent is paid for by the copy counted for it, by a fault or  *)
(* by a record that changed hands, except the one that is under way.       *)
(***************************************************************************)
ExtraPaid ==
    pc # "exited" => /\ extra <= faults + reused + 1
                     /\ ~UnderWay => extra <= faults + reused

Inv ==
    /\ TypeOK
    /\ TableOK
    /\ PlaceOK
    /\ AcksBacked
    /\ ExtraPaid
    /\ (~late /\ reused = 0 => InTime)

LEMMA InitInv == Init => Inv
<1> SUFFICES ASSUME Init PROVE Inv
    OBVIOUS
<1> USE DEF Init
<1>1. TypeOK
    <2>1. rec \in [Slots -> Hosts \cup {NoHost}]
        BY TablesAssumption DEF Slots
    <2>2. pc \in {"choose", "wait", "done", "exited"} /\ i \in 0 .. NumBlocks
        BY NumBlocksAssumption
    <2>3. stores \in [Hosts -> Nat] /\ acks \in [Hosts -> Nat] /\ spare \in [Hosts -> Int]
        OBVIOUS
    <2>4. extra \in Int /\ faults \in Nat /\ reused \in Nat
        OBVIOUS
    <2>5. late \in BOOLEAN
        OBVIOUS
    <2>6. held \in SUBSET (Hosts \X (0 .. NumBlocks)) /\ notThisHost = NULL /\ h = NULL /\ live \in SUBSET Slots
        OBVIOUS
    <2> HIDE DEF Init
    <2> QED BY <2>1, <2>2, <2>3, <2>4, <2>5, <2>6 DEF TypeOK
<1>2. TableOK
    <2>1. \A s, t \in Slots : rec[s] = rec[t] /\ rec[s] # NoHost => s = t
        BY TablesAssumption DEF Slots
    <2>2. \A s \in live : rec[s] \in Hosts
        BY <1>1 DEF TypeOK
    <2> QED BY <2>1, <2>2 DEF TableOK
<1>3. PlaceOK /\ AcksBacked
    BY NumBlocksAssumption DEF PlaceOK, AcksBacked
<1>4. InTime
    BY NumBlocksAssumption DEF InTime, Blocks
<1>5. ExtraPaid
    BY DEF ExtraPaid
<1> QED BY <1>1, <1>2, <1>3, <1>4, <1>5 DEF Inv

\* A block is sent to a host other than that of its first copy.
LEMMA ChooseInv == Inv /\ (\E s \in Slots : Choose(s)) => Inv'
<1> SUFFICES ASSUME Inv, NEW s \in Slots, Choose(s) PROVE Inv'
    OBVIOUS
<1> USE DEF Inv, Choose, Send, table, Add, Eligible
<1>1. rec[s] \in Hosts
    BY DEF TypeOK, TableOK
<1>2. TypeOK'
    BY <1>1 DEF TypeOK
<1>3. TableOK' /\ PlaceOK' /\ AcksBacked'
    BY DEF TypeOK, TableOK, PlaceOK, AcksBacked, Slots, NULL
<1>4. ASSUME ~late, reused = 0 PROVE InTime'
    <2>1. InTime
        BY <1>4
    <2>2. \A x \in Hosts : acks[x] = 0 /\ stores[x] = 0
        BY <2>1 DEF InTime, Awaited
    <2>3. \A x \in Hosts : stores'[x] # 0 => stores'[x] = 1 /\ x = rec[s]
        BY <2>2 DEF TypeOK
    <2> QED BY <2>1, <2>2, <2>3 DEF InTime, Awaited
<1>5. ExtraPaid'
    <2>1. stores'[rec[s]] > 0 /\ h' = s /\ rec' = rec /\ i' = i /\ pc' = "wait"
        BY <1>1 DEF TypeOK
    <2>2. rec[s] \notin Silent => UnderWay'
        BY <2>1 DEF UnderWay
    <2>3. extra <= faults + reused /\ UNCHANGED <<faults, reused>>
        BY DEF ExtraPaid, UnderWay
    <2> QED BY <2>2, <2>3 DEF ExtraPaid, TypeOK
<1> QED BY <1>2, <1>3, <1>4, <1>5

\* An ACK that is taken ends the wait, and leaves nothing under way.
LEMMA TakeAckInv == Inv /\ (\E x \in Hosts : TakeAck(x)) => Inv'
<1> SUFFICES ASSUME Inv, NEW x \in Hosts, TakeAck(x) PROVE Inv'
    OBVIOUS
<1> USE DEF Inv, TakeAck, table, Drop
<1>1. TypeOK'
    BY NumBlocksAssumption DEF TypeOK, PlaceOK, Counted, Blocks
<1>2. TableOK' /\ PlaceOK'
    BY NumBlocksAssumption DEF TypeOK, TableOK, PlaceOK, Counted, NULL
<1>3. AcksBacked'
    BY DEF TypeOK, AcksBacked
<1>4. ASSUME ~late, reused = 0 PROVE InTime'
    <2>0. InTime
        BY <1>4
    <2>1. x = rec[h] /\ <<x, i>> \in held /\ acks[x] = 1
        BY <2>0 DEF InTime, Awaited
    <2>2. \A y \in Hosts : acks'[y] = 0
        <3> SUFFICES ASSUME NEW y \in Hosts PROVE acks'[y] = 0
            OBVIOUS
        <3>1. CASE y = x
            BY <2>1, <3>1 DEF TypeOK
        <3>2. CASE y # x
            BY <2>0, <2>1, <3>2 DEF TypeOK, InTime, Awaited
        <3> QED BY <3>1, <3>2
    <2>3. \A y \in Hosts : stores'[y] = 0
        BY <2>0, <2>1 DEF InTime, Awaited
    <2>4. CASE notThisHost = NULL
        <3>1. notThisHost' = h /\ pc' = "choose" /\ i' = i /\ rec' = rec /\ held' = held
            BY <2>1, <2>4 DEF Counted
        <3>2. <<rec'[notThisHost'], i'>> \in held'
            BY <2>1, <3>1
        <3>3. \A b \in Blocks : b < i =>
                \E y, z \in Hosts : y # z /\ {<<y, b>>, <<z, b>>} \subseteq held
            BY <2>0 DEF InTime
        <3> HIDE DEF Inv, TakeAck, table, Drop
        <3>4. \A b \in Blocks : b < i' =>
                \E y, z \in Hosts : y # z /\ {<<y, b>>, <<z, b>>} \subseteq held'
            BY <3>1, <3>3
        <3> QED BY <2>2, <2>3, <3>1, <3>2, <3>4 DEF InTime
    <2>5. CASE notThisHost # NULL
        <3>1. notThisHost' = NULL /\ pc' # "wait" /\ i' = i + 1
            BY <2>1, <2>5 DEF Counted
        <3>2. rec[notThisHost] # rec[h] /\ rec[notThisHost] \in Hosts /\ rec[h] \in Hosts
            BY <2>0, <2>5, HostsAssumption DEF InTime, TypeOK, TableOK, PlaceOK
        <3>3. {<<x, i>>, <<rec[notThisHost], i>>} \subseteq held
            BY <2>0, <2>1, <2>5 DEF InTime
        <3>4. \A b \in Blocks : b < i' => b < i \/ b = i
            BY <3>1, NumBlocksAssumption DEF Blocks, TypeOK
        <3>5. \A b \in Blocks : b < i' =>
                \E y, z \in Hosts : y # z /\ {<<y, b>>, <<z, b>>} \subseteq held
            <4> SUFFICES ASSUME NEW b \in Blocks, b < i'
                         PROVE  \E y, z \in Hosts : y # z /\ {<<y, b>>, <<z, b>>} \subseteq held
                OBVIOUS
            <4>1. CASE b < i
                BY <2>0, <4>1 DEF InTime
            <4>2. CASE b = i
                BY <2>1, <3>2, <3>3, <4>2
            <4> QED BY <3>4, <4>1, <4>2
        <3>6. held' = held
            OBVIOUS
        <3> HIDE DEF Inv, TakeAck, table, Drop
        <3>7. \A b \in Blocks : b < i' =>
                \E y, z \in Hosts : y # z /\ {<<y, b>>, <<z, b>>} \subseteq held'
            BY <3>5, <3>6
        <3> QED BY <2>2, <2>3, <3>1, <3>7 DEF InTime
    <2> QED BY <2>4, <2>5
<1>5. ExtraPaid'
    <2>1. CASE x = rec[h]
        BY <2>1 DEF ExtraPaid, TypeOK
    <2>2. CASE x # rec[h]
        <3>1. UNCHANGED <<pc, i, h, rec, stores, extra, faults, reused>>
            BY <2>2
        <3>2. rec[h] \in Hosts
            BY DEF TypeOK, TableOK, PlaceOK
        <3>3. acks'[rec[h]] = acks[rec[h]]
            BY <2>2, <3>2 DEF TypeOK
        <3>4. ExtraPaid
            OBVIOUS
        <3> HIDE DEF Inv, TakeAck, table, Drop
        <3>5. UnderWay => UnderWay'
            BY <3>1, <3>3 DEF UnderWay
        <3> QED BY <3>1, <3>4, <3>5 DEF ExtraPaid
    <2> QED BY <2>1, <2>2
<1> QED BY <1>1, <1>2, <1>3, <1>4, <1>5

\* A wait that ends by the clock with nothing under way is not a late one.
LEMMA TimeoutInv == Inv /\ Timeout => Inv'
<1> SUFFICES ASSUME Inv, Timeout PROVE Inv'
    OBVIOUS
<1> USE DEF Inv, Timeout, table
<1>1. TypeOK'
    BY DEF TypeOK
<1>2. TableOK' /\ PlaceOK' /\ AcksBacked'
    BY DEF TypeOK, TableOK, PlaceOK, AcksBacked
<1>3. ASSUME ~late', reused' = 0 PROVE InTime'
    <2>1. Quiet /\ InTime
        BY <1>3 DEF TypeOK
    <2> QED BY <2>1 DEF InTime, Quiet
<1>4. ExtraPaid'
    <2>1. rec[h] \in Hosts
        BY DEF TypeOK, TableOK, PlaceOK
    <2>2. Quiet => ~UnderWay
        BY <2>1 DEF Quiet, UnderWay
    <2>3. extra <= faults' + reused
        BY <2>2 DEF ExtraPaid, TypeOK
    <2>4. pc' # "wait" /\ UNCHANGED <<extra, reused>>
        OBVIOUS
    <2> QED BY <2>3, <2>4 DEF ExtraPaid, UnderWay, TypeOK
<1> QED BY <1>1, <1>2, <1>3, <1>4

\* A datagram that is served changes one record, and no name the server uses
\* unless it counts as a record that changed hands.
LEMMA HearInv == Inv /\ (\E x \in Hosts : Hear(x)) => Inv'
<1> SUFFICES ASSUME Inv, NEW x \in Hosts, Hear(x) PROVE Inv'
    OBVIOUS
<1> USE DEF Inv, Hear, HearAt, table
<1>1. TypeOK'
    BY DEF TypeOK
<1>2. TableOK'
    BY HostsAssumption DEF TypeOK, TableOK, NULL
<1>3. PlaceOK' /\ AcksBacked'
    BY DEF TypeOK, PlaceOK, AcksBacked
<1>4. ASSUME ~late', reused' = 0 PROVE InTime'
    <2>1. reused = 0 /\ ~late
        BY <1>4 DEF TypeOK
    <2>2. \A s \in Slots : rec[s] # NoHost => rec'[s] = rec[s]
        BY <1>4 DEF TypeOK
    <2>3. \A s \in {h, notThisHost} \ {NULL} : rec'[s] = rec[s]
        BY <2>2, HostsAssumption DEF TypeOK, TableOK
    <2>4. h # NULL
        BY DEF PlaceOK
    <2>5. rec'[h] = rec[h]
        BY <2>3, <2>4
    <2>6. InTime
        BY <2>1
    <2>7. pc = "wait" /\ pc' \in {"wait", "exited"}
        OBVIOUS
    <2>8. UNCHANGED <<i, notThisHost, h, stores, acks, held>>
        OBVIOUS
    <2> HIDE DEF Inv, Hear, HearAt, table
    <2>9. \A y \in Hosts : Awaited(y) => Awaited(y)'
        BY <2>5, <2>7, <2>8 DEF Awaited
    <2>10. notThisHost # NULL => rec'[notThisHost] = rec[notThisHost]
        BY <2>3
    <2> QED BY <2>6, <2>7, <2>8, <2>9, <2>10 DEF InTime
<1>5. ExtraPaid'
    <2>1. CASE rec'[h] = rec[h]
        <3>1. UNCHANGED <<i, h, stores, acks, extra, faults>> /\ reused' >= reused
            BY DEF TypeOK
        <3>2. pc' = "exited" \/ (UnderWay => UnderWay')
            BY <2>1, <3>1 DEF UnderWay
        <3> QED BY <3>1, <3>2 DEF ExtraPaid, TypeOK
    <2>2. CASE rec'[h] # rec[h]
        <3>1. h \in Slots /\ rec[h] # NoHost
            BY HostsAssumption DEF TypeOK, TableOK, PlaceOK
        <3>2. reused' = reused + 1 /\ UNCHANGED <<extra, faults>>
            BY <2>2, <3>1 DEF TypeOK
        <3> QED BY <3>2 DEF ExtraPaid, TypeOK
    <2> QED BY <2>1, <2>2
<1> QED BY <1>1, <1>2, <1>3, <1>4, <1>5

LEMMA ExpireInv == Inv /\ (\E s \in Slots : Expire(s)) => Inv'
<1> SUFFICES ASSUME Inv, NEW s \in Slots, Expire(s) PROVE Inv'
    OBVIOUS
<1> USE DEF Inv, Expire, history
<1>1. TypeOK' /\ TableOK' /\ PlaceOK' /\ AcksBacked'
    BY DEF TypeOK, TableOK, PlaceOK, AcksBacked
<1>2. ASSUME ~late', reused' = 0 PROVE InTime'
    <2>1. InTime
        BY <1>2
    <2> QED BY <2>1 DEF InTime, Awaited
<1>3. ExtraPaid'
    BY DEF ExtraPaid, UnderWay
<1> QED BY <1>1, <1>2, <1>3

\* A host that stores a block answers with one ACK.
LEMMA StoreInv == Inv /\ (\E x \in Hosts : Store(x)) => Inv'
<1> SUFFICES ASSUME Inv, NEW x \in Hosts, Store(x) PROVE Inv'
    OBVIOUS
<1> USE DEF Inv, Store, table, Add, Drop
<1>1. TypeOK'
    BY DEF TypeOK
<1>2. TableOK' /\ PlaceOK'
    BY DEF TypeOK, TableOK, PlaceOK
<1>3. AcksBacked'
    BY DEF TypeOK, AcksBacked
<1>4. ASSUME ~late', reused' = 0 PROVE InTime'
    <2>1. InTime
        BY <1>4
    <2>2. /\ stores \in [Hosts -> Nat] /\ stores[x] > 0
          /\ stores' = [stores EXCEPT ![x] = @ - 1]
        BY DEF TypeOK
    <2>3. /\ acks \in [Hosts -> Nat]
          /\ \/ acks' = acks
             \/ acks' = [acks EXCEPT ![x] = @ + 1] /\ held' = held \cup {<<x, i>>}
        BY DEF TypeOK
    <2>4. held \subseteq held' /\ UNCHANGED <<pc, rec, h, i, notThisHost>>
        OBVIOUS
    <2> HIDE DEF Inv, Store, table, Add, Drop
    <2>5. stores[x] = 1 /\ acks[x] = 0 /\ Awaited(x)
        BY <2>1, <2>2 DEF InTime
    <2>6. \A y \in Hosts : y # x => acks[y] = 0 /\ stores[y] = 0
        BY <2>1, <2>5 DEF InTime, Awaited
    <2>7. \A y \in Hosts : stores'[y] = 0
        BY <2>2, <2>5, <2>6
    <2>8. \A y \in Hosts : y # x => acks'[y] = 0
        BY <2>3, <2>6
    <2>9. acks'[x] # 0 => acks'[x] = 1 /\ <<x, i>> \in held'
        BY <2>3, <2>5
    <2>10. \A y \in Hosts : Awaited(y)' <=> Awaited(y)
        BY <2>4 DEF Awaited
    <2>11. \A y \in Hosts : acks'[y] # 0 => acks'[y] = 1 /\ Awaited(y)' /\ <<y, i>> \in held'
        BY <2>5, <2>8, <2>9, <2>10
    <2>12. \A c \in Blocks : c < i =>
            \E y, z \in Hosts : y # z /\ {<<y, c>>, <<z, c>>} \subseteq held'
        BY <2>1, <2>4 DEF InTime
    <2>13. /\ notThisHost # NULL => <<rec[notThisHost], i>> \in held'
           /\ pc = "wait" => h # notThisHost
        BY <2>1, <2>4 DEF InTime
    <2> QED BY <2>4, <2>7, <2>11, <2>12, <2>13 DEF InTime
<1>5. ExtraPaid'
    <2>1. UNCHANGED <<pc, i, h, rec, extra, faults, reused>>
        OBVIOUS
    <2>2. ASSUME UnderWay PROVE UnderWay'
        <3>1. rec[h] \in Hosts
            BY <2>2 DEF UnderWay, TypeOK, TableOK, PlaceOK
        <3> QED BY <2>1, <2>2, <3>1 DEF UnderWay, TypeOK
    <2>3. ExtraPaid
        OBVIOUS
    <2> HIDE DEF Inv, Store, table, Add, Drop
    <2> QED BY <2>1, <2>2, <2>3 DEF ExtraPaid
<1> QED BY <1>1, <1>2, <1>3, <1>4, <1>5

LEMMA LoseInv == Inv /\ Lose => Inv'
<1> SUFFICES ASSUME Inv, Lose PROVE Inv'
    OBVIOUS
<1> USE DEF Inv, Lose, table, Drop
<1>1. TypeOK'
    BY DEF TypeOK
<1>2. TableOK' /\ PlaceOK' /\ AcksBacked'
    BY DEF TypeOK, TableOK, PlaceOK, AcksBacked
<1>3. ASSUME ~late', reused' = 0 PROVE InTime'
    <2>1. InTime
        BY <1>3
    <2>2. \A x \in Hosts : acks[x] = 0 \/ acks[x] = 1
        BY <2>1 DEF InTime
    <2>3. \A x \in Hosts : stores[x] = 0 \/ stores[x] = 1
        BY <2>1 DEF InTime
    <2>4. \A x \in Hosts : acks'[x] = 0 \/ acks'[x] = acks[x]
        BY <2>2 DEF TypeOK
    <2>5. \A x \in Hosts : stores'[x] = 0 \/ stores'[x] = stores[x]
        BY <2>3 DEF TypeOK
    <2>6. UNCHANGED <<pc, rec, h, i, notThisHost, held>>
        OBVIOUS
    <2> HIDE DEF Inv, Lose, table, Drop
    <2> QED BY <2>1, <2>4, <2>5, <2>6 DEF InTime, Awaited
<1>4. ExtraPaid'
    BY DEF ExtraPaid, TypeOK
<1> QED BY <1>1, <1>2, <1>3, <1>4

LEMMA StutterInv == Inv /\ UNCHANGED vars => Inv'
<1> SUFFICES ASSUME Inv, UNCHANGED vars PROVE Inv'
    OBVIOUS
<1>1. TypeOK' /\ TableOK' /\ PlaceOK' /\ AcksBacked'
    BY DEF Inv, TypeOK, TableOK, PlaceOK, AcksBacked, vars, table, history
<1>2. InTime => InTime'
    BY DEF InTime, Awaited, vars, table, history
<1>3. ExtraPaid'
    BY DEF Inv, ExtraPaid, UnderWay, vars, table, history
<1> QED BY <1>1, <1>2, <1>3 DEF Inv, vars, history

\* Inv is an invariant of every distribution.
THEOREM DistributeInvariant == Spec => []Inv
<1>1. Inv /\ [Next]_vars => Inv'
    BY ChooseInv, TakeAckInv, TimeoutInv, HearInv, ExpireInv, StoreInv, LoseInv, StutterInv
    DEF Next
<1> QED BY <1>1, InitInv, PTL DEF Spec

\* Every variable of distribute_file() keeps its type.
THEOREM TypeCorrect == Spec => []TypeOK
<1>1. Inv => TypeOK
    BY DEF Inv
<1> QED BY <1>1, DistributeInvariant, PTL

\* However late an ACK, no host is counted for more copies than it has stored
\* blocks: the source of an ACK is compared with the name in the record.
THEOREM CopiesAreStored == Spec => []CopiesStored
<1>1. Inv => CopiesStored
    BY DEF Inv, TypeOK, AcksBacked, CopiesStored
<1> QED BY <1>1, DistributeInvariant, PTL

(***************************************************************************)
(* For any number of hosts, blocks and faults: for every block left behind *)
(* two different hosts stored what they were sent while it was under way,  *)
(* when no wait was given up too early and no record changed hands.        *)
(***************************************************************************)
THEOREM CopiesAtTwoHosts == Spec => []TwoHosts
<1>1. Inv => TwoHosts
    BY DEF Inv, InTime, TwoHosts
<1> QED BY <1>1, DistributeInvariant, PTL

(***************************************************************************)
(* For any number of hosts, blocks, faults and records: blocks are sent    *)
(* once too often to hosts that answer only after a fault or a change of a *)
(* record, once for each.                                                  *)
(***************************************************************************)
THEOREM CopiesPaid == Spec => []CopiesTooMany
<1>1. Inv => CopiesTooMany
    BY DEF Inv, ExtraPaid, UnderWay, CopiesTooMany
<1> QED BY <1>1, DistributeInvariant, PTL

\* A server without a host to choose stays without: only a wait serves the
\* datagrams that could bring one.
THEOREM NoWayOut == Spec => StuckForever
<1>1. Stuck /\ [Next]_vars => Stuck'
    <2> SUFFICES ASSUME Stuck, [Next]_vars PROVE Stuck'
        OBVIOUS
    <2> USE DEF Stuck, Eligible
    <2>1. CASE \E s \in Slots : Choose(s) \/ Expire(s)
        BY <2>1 DEF Choose, Send, Expire, history
    <2>2. CASE \E x \in Hosts : Store(x)
        BY <2>2 DEF Store, table
    <2>3. CASE Lose
        BY <2>3 DEF Lose, table
    <2>4. CASE UNCHANGED vars
        BY <2>4 DEF vars, table
    <2> QED BY <2>1, <2>2, <2>3, <2>4 DEF Next, TakeAck, Hear, Timeout
<1>2. [Next]_vars => [Stuck => Stuck']_vars
    BY <1>1
<1> QED BY <1>2, PTL DEF Spec, StuckForever

=============================================================================
