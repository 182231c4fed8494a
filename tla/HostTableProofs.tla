-------------------------- MODULE HostTableProofs --------------------------
(***************************************************************************)
(* HostTable is correct for any number of records and hosts, any threshold *)
(* and any interleaving with the signal handler.                           *)
(***************************************************************************)
EXTENDS HostTable, TLAPS, FiniteSetTheorems

(***************************************************************************)
(* What each stage of addOrUpdateHostNow has found out and what the others *)
(* cannot have changed meanwhile.                                          *)
(***************************************************************************)
Busy == pc \in {"scan", "update", "name", "time"}

StageInv ==
    /\ Busy => /\ newHost \in Hosts \ {Self}
               /\ seenAt = heard[newHost]
               /\ seenAt # 0
    /\ pc = "update" => records[slot].hostAddr = newHost
    /\ pc = "name" => Known(newHost) = {} /\ OutOfDate(slot)
    /\ pc = "time" => records[slot].hostAddr = newHost /\ OutOfDate(slot)

\* The update for this record's host has not reached the record.
Behind(i) ==
    \/ pc \in {"scan", "update"} /\ records[i].hostAddr = newHost
    \/ pc = "time" /\ i = slot

RecordInv ==
    \A i \in Slots :
        /\ records[i].hostAddr \in (Hosts \ {Self}) \cup {NoHost}
        /\ records[i].hostAddr = NoHost => records[i].lastSeenAt = 0
        /\ records[i].hostAddr # NoHost /\ ~Behind(i)
             => records[i].lastSeenAt = heard[records[i].hostAddr]
        /\ records[i].hostAddr # NoHost /\ pc \in {"scan", "update"}
             => records[i].lastSeenAt <= heard[records[i].hostAddr]

ClockInv ==
    /\ now >= Start
    /\ \A h \in Hosts : heard[h] <= now

Inv ==
    /\ TypeOK
    /\ ClockInv
    /\ OneRecordPerHost
    /\ StageInv
    /\ RecordInv
    /\ LiveHostsKnown

LEMMA InitInv == Init => Inv
<1>. SUFFICES ASSUME Init PROVE Inv
  OBVIOUS
<1>. USE DEF Init, Slots
<1>1. TypeOK
  BY TimeAssumption, MaxHostsAssumption DEF TypeOK, Record
<1>2. ClockInv
  BY TimeAssumption DEF ClockInv
<1>3. OneRecordPerHost
  BY DEF OneRecordPerHost
<1>4. StageInv
  BY DEF StageInv, Busy
<1>5. RecordInv
  BY DEF RecordInv
<1>6. LiveHostsKnown
  BY DEF LiveHostsKnown
<1>. QED BY <1>1, <1>2, <1>3, <1>4, <1>5, <1>6 DEF Inv

----------------------------------------------------------------------------
LEMMA HearInv == ASSUME Inv, NEW h \in Hosts, Hear(h) PROVE Inv'
<1>. USE DEF Inv, Hear
<1>1. TypeOK'
  BY DEF TypeOK
<1>2. ClockInv'
  BY DEF ClockInv, TypeOK
<1>3. OneRecordPerHost'
  BY DEF OneRecordPerHost
<1>4. StageInv'
  BY TimeAssumption DEF StageInv, Busy, ClockInv, TypeOK
<1>5. RecordInv'
  BY DEF RecordInv, Behind, ClockInv, TypeOK, Record
<1>6. LiveHostsKnown'
  BY DEF LiveHostsKnown, TypeOK
<1>. QED BY <1>1, <1>2, <1>3, <1>4, <1>5, <1>6

LEMMA ScanInv == ASSUME Inv, Scan PROVE Inv'
<1>. USE DEF Inv, Scan
<1>1. TypeOK'
  BY DEF TypeOK, Known
<1>2. ClockInv'
  BY DEF ClockInv
<1>3. OneRecordPerHost'
  BY DEF OneRecordPerHost
<1>4. StageInv'
  BY DEF StageInv, Busy, Known, OutOfDate
<1>5. RecordInv'
  BY DEF RecordInv, Behind, Known, TypeOK, Record
<1>6. LiveHostsKnown'
  BY DEF LiveHostsKnown
<1>. QED BY <1>1, <1>2, <1>3, <1>4, <1>5, <1>6

LEMMA UpdateInv == ASSUME Inv, Update PROVE Inv'
<1>. USE DEF Inv, Update
<1>1. TypeOK'
  BY DEF TypeOK, Record
<1>2. ClockInv'
  BY DEF ClockInv
<1>3. OneRecordPerHost'
  BY DEF OneRecordPerHost, TypeOK, Record
<1>4. StageInv'
  BY DEF StageInv, Busy
<1>5. RecordInv'
  <2>1. SUFFICES ASSUME NEW i \in Slots
                 PROVE  /\ records'[i].hostAddr \in (Hosts \ {Self}) \cup {NoHost}
                        /\ records'[i].hostAddr = NoHost => records'[i].lastSeenAt = 0
                        /\ records'[i].hostAddr # NoHost
                             => records'[i].lastSeenAt = heard[records'[i].hostAddr]
    BY DEF RecordInv
  <2>2. CASE i = slot
    <3>1. /\ records[slot].hostAddr = newHost /\ newHost \in Hosts \ {Self} /\ newHost # NoHost
          /\ seenAt = heard[newHost]
          /\ records[slot].lastSeenAt <= heard[newHost]
          /\ records[slot].lastSeenAt \in Nat /\ seenAt \in Nat
      BY HostsAssumption DEF StageInv, Busy, RecordInv, TypeOK, Record
    <3>2. records'[slot].hostAddr = newHost
      BY <3>1 DEF TypeOK, Record
    <3>3. records'[slot].lastSeenAt = seenAt
      BY <3>1 DEF TypeOK, Record
    <3>. QED BY <2>2, <3>1, <3>2, <3>3
  <2>3. CASE i # slot
    <3>1. records'[i] = records[i]
      BY <2>3 DEF TypeOK
    <3>2. records[i].hostAddr # newHost
      BY <2>3, HostsAssumption DEF OneRecordPerHost, StageInv, Busy, TypeOK
    <3>. QED BY <2>3, <3>1, <3>2 DEF RecordInv, Behind
  <2>. QED BY <2>2, <2>3
<1>6. LiveHostsKnown'
  BY <1>5 DEF LiveHostsKnown, RecordInv, Behind, StageInv, Busy, TypeOK, Record
<1>. QED BY <1>1, <1>2, <1>3, <1>4, <1>5, <1>6

LEMMA WriteNameInv == ASSUME Inv, WriteName PROVE Inv'
<1>. USE DEF Inv, WriteName
<1>1. TypeOK'
  BY DEF TypeOK, Record
<1>2. ClockInv'
  BY DEF ClockInv
<1>3. OneRecordPerHost'
  BY DEF OneRecordPerHost, StageInv, Known, TypeOK, Record
<1>4. StageInv'
  BY DEF StageInv, Busy, OutOfDate, TypeOK, Record
<1>5. RecordInv'
  BY HostsAssumption DEF RecordInv, Behind, StageInv, Busy, TypeOK, Record
<1>6. LiveHostsKnown'
  <2>1. SUFFICES ASSUME NEW h \in Hosts, heard[h] # 0, now - heard[h] <= DeadThreshold, newHost # h
                 PROVE  \E i \in Slots : /\ records'[i].hostAddr = h
                                         /\ records'[i].lastSeenAt = heard[h]
    BY DEF LiveHostsKnown
  <2>2. PICK i \in Slots : records[i].hostAddr = h /\ records[i].lastSeenAt = heard[h]
    BY <2>1 DEF LiveHostsKnown
  <2>3. i # slot
    BY <2>1, <2>2, TimeAssumption DEF StageInv, OutOfDate, TypeOK
  <2>. QED BY <2>2, <2>3 DEF TypeOK
<1>. QED BY <1>1, <1>2, <1>3, <1>4, <1>5, <1>6

LEMMA WriteTimeInv == ASSUME Inv, WriteTime PROVE Inv'
<1>. USE DEF Inv, WriteTime
<1>1. TypeOK'
  BY DEF TypeOK, Record
<1>2. ClockInv'
  BY DEF ClockInv
<1>3. OneRecordPerHost'
  BY DEF OneRecordPerHost, TypeOK, Record
<1>4. StageInv'
  BY DEF StageInv, Busy
<1>5. RecordInv'
  BY HostsAssumption DEF RecordInv, Behind, StageInv, Busy, TypeOK, Record
<1>6. LiveHostsKnown'
  BY DEF LiveHostsKnown, StageInv, Busy, OneRecordPerHost, TypeOK, Record
<1>. QED BY <1>1, <1>2, <1>3, <1>4, <1>5, <1>6

LEMMA TickInv == ASSUME Inv, Tick PROVE Inv'
<1>. USE DEF Inv, Tick
<1>1. TypeOK'
  BY DEF TypeOK
<1>2. ClockInv'
  BY TimeAssumption DEF ClockInv, TypeOK
<1>3. OneRecordPerHost'
  BY DEF OneRecordPerHost
<1>4. StageInv'
  BY TimeAssumption DEF StageInv, Busy, Known, OutOfDate, TypeOK, Record
<1>5. RecordInv'
  BY DEF RecordInv, Behind
<1>6. LiveHostsKnown'
  BY TimeAssumption DEF LiveHostsKnown, TypeOK
<1>. QED BY <1>1, <1>2, <1>3, <1>4, <1>5, <1>6

(***************************************************************************)
(* What the invariant says of a live record.  The record that is half      *)
(* written is not one: it was out of date when it was chosen.              *)
(***************************************************************************)
LEMMA LiveRecordsLemma == Inv => LiveRecordsTrue
<1>1. SUFFICES ASSUME Inv, NEW i \in Slots, Live(i)
               PROVE  /\ records[i].hostAddr \in Hosts \ {Self}
                      /\ records[i].lastSeenAt <= heard[records[i].hostAddr]
                      /\ records[i].lastSeenAt # heard[records[i].hostAddr]
                           => pc # "idle" /\ newHost = records[i].hostAddr
  BY DEF LiveRecordsTrue
<1>2. records[i].hostAddr # NoHost
  <2>1. now - 0 > DeadThreshold
    BY <1>1, TimeAssumption DEF Inv, ClockInv, TypeOK
  <2>. QED BY <1>1, <2>1 DEF Inv, RecordInv, Live, OutOfDate
<1>3. ~(pc = "time" /\ i = slot)
  BY <1>1 DEF Inv, StageInv, Live
<1>4. records[i].lastSeenAt \in Nat
  BY <1>1 DEF Inv, TypeOK, Record
<1>5. CASE Behind(i)
  BY <1>1, <1>2, <1>3, <1>5 DEF Inv, RecordInv, Behind
<1>6. CASE ~Behind(i)
  BY <1>1, <1>2, <1>4, <1>6 DEF Inv, RecordInv
<1>. QED BY <1>5, <1>6

LEMMA AlarmLemma ==
    ASSUME Inv, Alarm
    PROVE  \A x \in sent' : /\ x \in Hosts \X Nat
                            /\ x[1] \in Hosts \ {Self}
                            /\ x[2] <= heard[x[1]]
                            /\ now - x[2] <= DeadThreshold
<1>1. SUFFICES ASSUME NEW i \in Slots, Live(i)
               PROVE  LET x == <<records[i].hostAddr, records[i].lastSeenAt>>
                      IN  /\ x \in Hosts \X Nat
                          /\ x[1] \in Hosts \ {Self}
                          /\ x[2] <= heard[x[1]]
                          /\ now - x[2] <= DeadThreshold
  BY DEF Alarm
<1>2. records[i].lastSeenAt \in Nat /\ now \in Nat
  BY DEF Inv, TypeOK, Record
<1>3. /\ records[i].hostAddr \in Hosts \ {Self}
      /\ records[i].lastSeenAt <= heard[records[i].hostAddr]
  BY <1>1, LiveRecordsLemma DEF LiveRecordsTrue
<1>4. now - records[i].lastSeenAt <= DeadThreshold
  BY <1>1, <1>2, TimeAssumption DEF Live, OutOfDate
<1>. QED BY <1>2, <1>3, <1>4

(***************************************************************************)
(* A scan that finds neither the host nor a record out of date finds every *)
(* record live, hence, as no host has two, MaxHosts other hosts.           *)
(***************************************************************************)
LEMMA ExitLemma ==
    ASSUME Inv, Scan, pc' = "exited"
    PROVE  /\ Cardinality({records[i].hostAddr : i \in Slots}) = MaxHosts
           /\ \A i \in Slots : /\ records[i].hostAddr \in Hosts \ {newHost, Self}
                               /\ now - heard[records[i].hostAddr] <= DeadThreshold
<1>1. Known(newHost) = {} /\ \A i \in Slots : Live(i)
  BY DEF Scan, Live
<1>2. \A i \in Slots : records[i].hostAddr \in Hosts \ {newHost, Self}
  BY <1>1, LiveRecordsLemma DEF LiveRecordsTrue, Known
<1>3. ASSUME NEW i \in Slots PROVE now - heard[records[i].hostAddr] <= DeadThreshold
  <2>1. /\ records[i].lastSeenAt \in Nat /\ now \in Nat
        /\ heard[records[i].hostAddr] \in Nat
        /\ records[i].lastSeenAt <= heard[records[i].hostAddr]
    BY <1>1, <1>2, LiveRecordsLemma DEF LiveRecordsTrue, Inv, TypeOK, Record
  <2>2. now - records[i].lastSeenAt <= DeadThreshold
    BY <1>1, <2>1, TimeAssumption DEF Live, OutOfDate
  <2>. QED BY <2>1, <2>2, TimeAssumption
<1>4. Cardinality({records[i].hostAddr : i \in Slots}) = MaxHosts
  <2>. DEFINE T == {records[i].hostAddr : i \in Slots}
              f == [i \in Slots |-> records[i].hostAddr]
  <2>1. \A i, j \in Slots : f[i] = f[j] => i = j
    BY <1>2, HostsAssumption DEF Inv, OneRecordPerHost
  <2>2. f \in Bijection(Slots, T)
    BY <2>1 DEF Bijection, Injection, Surjection, IsInjective
  <2>3. IsFiniteSet(Slots) /\ Cardinality(Slots) = MaxHosts
    BY FS_Interval, MaxHostsAssumption DEF Slots
  <2>. HIDE DEF T, f
  <2>4. Cardinality(T) = Cardinality(Slots)
    BY <2>2, <2>3, FS_Bijection DEF ExistsBijection
  <2>. QED BY <2>3, <2>4 DEF T
<1>. QED BY <1>2, <1>3, <1>4

LEMMA AlarmInv == ASSUME Inv, Alarm PROVE Inv'
<1>1. sent' \subseteq Hosts \X Nat
  BY AlarmLemma
<1>2. TypeOK'
  BY <1>1 DEF Inv, TypeOK, Alarm
<1>3. (ClockInv /\ OneRecordPerHost /\ StageInv /\ RecordInv /\ LiveHostsKnown)'
  BY DEF Inv, Alarm, ClockInv, OneRecordPerHost, StageInv, Busy, Known, OutOfDate, RecordInv,
     Behind, LiveHostsKnown
<1>. QED BY <1>2, <1>3 DEF Inv

LEMMA NextInv == Inv /\ [Next]_vars => Inv'
<1>. SUFFICES ASSUME Inv, [Next]_vars PROVE Inv'
  OBVIOUS
<1>1. CASE UNCHANGED vars
  BY <1>1 DEF vars, Inv, TypeOK, ClockInv, OneRecordPerHost, StageInv, Busy, Known, OutOfDate,
     RecordInv, Behind, LiveHostsKnown
<1>2. CASE Next
  BY <1>2, HearInv, ScanInv, UpdateInv, WriteNameInv, WriteTimeInv, AlarmInv, TickInv DEF Next
<1>. QED BY <1>1, <1>2

----------------------------------------------------------------------------
(***************************************************************************)
(* The table's invariant, for every number of records and hosts and every  *)
(* threshold, with the handler running at any point of an update.          *)
(***************************************************************************)
THEOREM TableInvariant == Spec => []Inv
<1>. QED BY InitInv, NextInv, PTL DEF Spec

\* The variables of a6/nose.c keep their types.
THEOREM TypeCorrect == Spec => []TypeOK
<1>1. Inv => TypeOK
  BY DEF Inv
<1>. QED BY <1>1, TableInvariant, PTL

\* addOrUpdateHost never gives a host a second record.
THEOREM RecordsUnique == Spec => []OneRecordPerHost
<1>1. Inv => OneRecordPerHost
  BY DEF Inv
<1>. QED BY <1>1, TableInvariant, PTL

\* addOrUpdateHost never gives up the record of a live host.
THEOREM LiveHostsKept == Spec => []LiveHostsKnown
<1>1. Inv => LiveHostsKnown
  BY DEF Inv
<1>. QED BY <1>1, TableInvariant, PTL

\* What getHostRecordAt returns is true, whenever it is called.
THEOREM LiveRecordsCorrect == Spec => []LiveRecordsTrue
<1>. QED BY LiveRecordsLemma, TableInvariant, PTL

\* What the signal handler broadcasts is true.
THEOREM BroadcastsCorrect == Spec => BroadcastTrue
<1>1. Inv /\ [Next]_vars => [AlarmTrue]_vars
  BY AlarmLemma DEF AlarmTrue, HostLine
<1>. QED BY <1>1, TableInvariant, PTL DEF Spec, BroadcastTrue

\* addOrUpdateHost calls exit() only when the table is full of other live hosts.
THEOREM ExitsWhenFull == Spec => ExitOnlyWhenFull
<1>. DEFINE Full == /\ Cardinality({records[i].hostAddr : i \in Slots}) = MaxHosts
                    /\ \A i \in Slots : /\ records[i].hostAddr \in Hosts \ {newHost, Self}
                                        /\ now - heard[records[i].hostAddr] <= DeadThreshold
<1>1. Inv /\ [Next]_vars => [pc' = "exited" => Full]_vars
  <2>1. SUFFICES ASSUME Inv, Next, pc' = "exited" PROVE Full
    OBVIOUS
  <2>2. Scan
    BY <2>1 DEF Next, Hear, Update, WriteName, WriteTime, Alarm, Tick
  <2>. QED BY <2>1, <2>2, ExitLemma
<1>. QED BY <1>1, TableInvariant, PTL DEF Spec, ExitOnlyWhenFull

=============================================================================
