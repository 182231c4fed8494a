----------------------------- MODULE HostTable -----------------------------
(***************************************************************************)
(* The table of live hosts of a squirrel server (a6/nose.c).               *)
(*                                                                         *)
(* Every datagram from another host brings its address to                  *)
(* addOrUpdateHostNow, which reads the clock, then scans the table (and    *)
(* reads the clock again), then writes one record.  Every few seconds the  *)
(* handler of SIGALRM interrupts whatever is going on, lists the live      *)
(* records in a broadcast, and sleeps for a second before it returns: so   *)
(* time may pass, and the table may be read, between any two steps of the  *)
(* update, and between the two assignments to a record in particular.      *)
(***************************************************************************)
EXTENDS Integers, FiniteSets

CONSTANTS
    Hosts,          \* addresses from which datagrams arrive
    Self,           \* the server's own address (myAddress)
    NoHost,         \* the empty address of a zeroed record
    MaxHosts,       \* MAX_STORED_HOSTS
    DeadThreshold,  \* DEAD_THRESHOLD, in seconds
    Start,          \* the time at which the server starts, in seconds
    MaxTime         \* bound on the clock

ASSUME HostsAssumption == NoHost \notin Hosts \cup {Self}
ASSUME MaxHostsAssumption == MaxHosts \in Nat \ {0}
\* Seconds are counted from the Epoch: a zeroed record is long out of date.
ASSUME TimeAssumption ==
    /\ DeadThreshold \in Nat
    /\ Start \in Nat /\ Start > DeadThreshold
    /\ MaxTime \in Nat

VARIABLES
    now,        \* time(NULL)
    records,    \* the table
    pc,         \* where addOrUpdateHostNow is
    newHost,    \* its argument newHostAddr
    seenAt,     \* its argument seenAt
    slot,       \* the index it writes to
    sent,       \* the host lines of the last broadcast
    heard       \* history: when each host was last heard of, 0 if never

vars == <<now, records, pc, newHost, seenAt, slot, sent, heard>>

Slots == 0 .. MaxHosts - 1
Record == [hostAddr : Hosts \cup {NoHost}, lastSeenAt : Nat]
Known(h) == {i \in Slots : records[i].hostAddr = h}

\* Mutant: a record is out of date a second early.
OutOfDateEarly(i) == now - records[i].lastSeenAt >= DeadThreshold

\* difftime(currentTime, lastSeenAt) > DEAD_THRESHOLD
OutOfDate(i) == now - records[i].lastSeenAt > DeadThreshold

\* getHostRecordAt() returns the record, not NULL.
Live(i) == ~OutOfDate(i)

TypeOK ==
    /\ now \in Nat
    /\ records \in [Slots -> Record]
    /\ pc \in {"idle", "scan", "update", "name", "time", "exited"}
    /\ newHost \in Hosts \cup {NoHost}
    /\ seenAt \in Nat
    /\ slot \in Slots
    /\ sent \subseteq Hosts \X Nat
    /\ heard \in [Hosts -> Nat]

----------------------------------------------------------------------------
\* initDiscovery() zeroes the table; raise(SIGALRM) then broadcasts nothing.
Init ==
    /\ now = Start
    /\ records = [i \in Slots |-> [hostAddr |-> NoHost, lastSeenAt |-> 0]]
    /\ pc = "idle"
    /\ newHost = NoHost
    /\ seenAt = 0
    /\ slot = 0
    /\ sent = {}
    /\ heard = [h \in Hosts |-> 0]

(***************************************************************************)
(* addOrUpdateHostNow(): the time is read before the table is.  A datagram *)
(* from the server itself (its own broadcast comes back to it) is ignored. *)
(***************************************************************************)
Hear(h) ==
    /\ pc = "idle"
    /\ h # Self
    /\ pc' = "scan"
    /\ newHost' = h
    /\ seenAt' = now
    /\ heard' = [heard EXCEPT ![h] = now]
    /\ UNCHANGED <<now, records, slot, sent>>

\* Mutant: one loop that stops at a match or at a record out of date.
ScanOnce ==
    /\ pc = "scan"
    /\ slot' \in Slots
    /\ slot' \in Known(newHost) \/ OutOfDate(slot')
    /\ \A i \in Slots : i < slot' => i \notin Known(newHost) /\ ~OutOfDate(i)
    /\ pc' = IF slot' \in Known(newHost) THEN "update" ELSE "name"
    /\ UNCHANGED <<now, records, newHost, seenAt, sent, heard>>

\* Mutant: records are never used again, however old they are.
ScanNoReuse ==
    /\ pc = "scan"
    /\ \/ /\ Known(newHost) # {}
          /\ slot' \in Known(newHost)
          /\ pc' = "update"
       \/ /\ Known(newHost) = {}
          /\ slot' \in Known(NoHost)
          /\ pc' = "name"
       \/ /\ Known(newHost) \cup Known(NoHost) = {}
          /\ pc' = "exited"
          /\ UNCHANGED slot
    /\ UNCHANGED <<now, records, newHost, seenAt, sent, heard>>

(***************************************************************************)
(* The scan of addOrUpdateHost: the record of this host if there is one,   *)
(* else the first record that is out of date.                              *)
(***************************************************************************)
Scan ==
    /\ pc = "scan"
    /\ \/ /\ Known(newHost) # {}
          /\ slot' \in Known(newHost)
          /\ \A i \in Known(newHost) : slot' <= i
          /\ pc' = "update"
       \/ /\ Known(newHost) = {}
          /\ \E i \in Slots : OutOfDate(i)
          /\ slot' \in Slots
          /\ OutOfDate(slot')
          /\ \A i \in Slots : OutOfDate(i) => slot' <= i
          /\ pc' = "name"
       \/ /\ Known(newHost) = {}
          /\ \A i \in Slots : ~OutOfDate(i)
          /\ pc' = "exited"
          /\ UNCHANGED slot
    /\ UNCHANGED <<now, records, newHost, seenAt, sent, heard>>

\* A matching record is updated if the news is newer.
Update ==
    /\ pc = "update"
    /\ records' = IF seenAt > records[slot].lastSeenAt
                    THEN [records EXCEPT ![slot].lastSeenAt = seenAt]
                    ELSE records
    /\ pc' = "idle"
    /\ UNCHANGED <<now, newHost, seenAt, slot, sent, heard>>

\* strncpy() of the address into the record that is given up ...
WriteName ==
    /\ pc = "name"
    /\ records' = [records EXCEPT ![slot].hostAddr = newHost]
    /\ pc' = "time"
    /\ UNCHANGED <<now, newHost, seenAt, slot, sent, heard>>

\* Mutant: the clock is read again for the record.
WriteTimeNow ==
    /\ pc = "time"
    /\ records' = [records EXCEPT ![slot].lastSeenAt = now]
    /\ pc' = "idle"
    /\ UNCHANGED <<now, newHost, seenAt, slot, sent, heard>>

\* ... and then the assignment of the time.
WriteTime ==
    /\ pc = "time"
    /\ records' = [records EXCEPT ![slot].lastSeenAt = seenAt]
    /\ pc' = "idle"
    /\ UNCHANGED <<now, newHost, seenAt, slot, sent, heard>>

\* Mutant: every record with a name is listed.
AlarmListsAll ==
    /\ pc # "exited"
    /\ sent' = {<<records[i].hostAddr, records[i].lastSeenAt>> : i \in Slots \ Known(NoHost)}
    /\ UNCHANGED <<now, records, pc, newHost, seenAt, slot, heard>>

(***************************************************************************)
(* checkHostsAliveSignalHandler(): the broadcast lists the live records.   *)
(***************************************************************************)
Alarm ==
    /\ pc # "exited"
    /\ sent' = {<<records[i].hostAddr, records[i].lastSeenAt>> : i \in {j \in Slots : Live(j)}}
    /\ UNCHANGED <<now, records, pc, newHost, seenAt, slot, heard>>

\* A second passes, at any point of the program.
Tick ==
    /\ pc # "exited"
    /\ now < MaxTime
    /\ now' = now + 1
    /\ UNCHANGED <<records, pc, newHost, seenAt, slot, sent, heard>>

Next ==
    \/ \E h \in Hosts : Hear(h)
    \/ Scan
    \/ Update
    \/ WriteName
    \/ WriteTime
    \/ Alarm
    \/ Tick

Spec == Init /\ [][Next]_vars

----------------------------------------------------------------------------
\* No host has two records, between the assignments to a record included.
OneRecordPerHost ==
    \A i, j \in Slots :
        records[i].hostAddr = records[j].hostAddr /\ records[i].hostAddr # NoHost => i = j

(***************************************************************************)
(* A host that was heard of no longer than DEAD_THRESHOLD ago has a record *)
(* with that time, once the update is done: no live host is given up for   *)
(* another, and none is forgotten early.                                   *)
(***************************************************************************)
LiveHostsKnown ==
    \A h \in Hosts :
        /\ heard[h] # 0
        /\ now - heard[h] <= DeadThreshold
        /\ pc = "idle" \/ (pc # "exited" /\ newHost # h)
        => \E i \in Slots : records[i].hostAddr = h /\ records[i].lastSeenAt = heard[h]

(***************************************************************************)
(* A live record tells the truth: it names another host, at a time at      *)
(* which the host was heard of.  It is the latest such time unless the     *)
(* update for that very host is under way.  This holds while a record has  *)
(* its new address and not yet its new time, because that record is out of *)
(* date; it is what makes the handler safe to run at any point.            *)
(***************************************************************************)
LiveRecordsTrue ==
    \A i \in Slots : Live(i) =>
        /\ records[i].hostAddr \in Hosts \ {Self}
        /\ records[i].lastSeenAt <= heard[records[i].hostAddr]
        /\ records[i].lastSeenAt # heard[records[i].hostAddr]
             => pc # "idle" /\ newHost = records[i].hostAddr

\* The server exits only when all records are those of other live hosts.
ExitOnlyWhenFull ==
    [][pc' = "exited" =>
          /\ Cardinality({records[i].hostAddr : i \in Slots}) = MaxHosts
          /\ \A i \in Slots : /\ records[i].hostAddr \in Hosts \ {newHost, Self}
                              /\ now - heard[records[i].hostAddr] <= DeadThreshold]_vars

\* A host line of a broadcast: another host, heard of within the threshold.
HostLine(x) ==
    /\ x[1] \in Hosts \ {Self}
    /\ x[2] <= heard[x[1]]
    /\ now - x[2] <= DeadThreshold

AlarmTrue == Alarm => \A x \in sent' : HostLine(x)

\* A broadcast lists only other hosts that were heard of within the threshold.
BroadcastTrue == [][AlarmTrue]_vars

=============================================================================
