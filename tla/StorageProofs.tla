-------------------------- MODULE StorageProofs --------------------------
(***************************************************************************)
(* a6/storage.c, for any number of slots, files, blocks and sizes: the     *)
(* cache as the server uses it keeps its structures in step (BlockCache)   *)
(* and implements FileCache; called in any way it leaks no slot and        *)
(* notices what goes wrong (StorageApi); the list of sizes stays in order  *)
(* and answers with the latest size (SizeList).                            *)
(***************************************************************************)
EXTENDS BlockCache, StorageApi, SizeList, DataProofs, FunctionTheorems

----------------------------------------------------------------------------
Inv ==
    /\ TypeOK
    /\ NeverFaults
    /\ SlotFlagsExact
    /\ NoSlotShared
    /\ HeadIsLeast
    /\ ListedHaveBlocks

LEMMA InitInv == Init => Inv
<1>. SUFFICES ASSUME Init PROVE Inv
  OBVIOUS
<1>. USE DEF Init
<1>1. TypeOK
  <2>1. << >> \in Seq(Names) /\ << >> \in Seq(Entry)
    BY EmptySeq
  <2>2. Failed \in Reply
    BY DEF Reply, Failed
  <2>. QED BY <2>1, <2>2 DEF TypeOK
<1>2. NeverFaults
  BY DEF NeverFaults
<1>3. SlotFlagsExact /\ NoSlotShared /\ HeadIsLeast
  BY DEF SlotFlagsExact, NoSlotShared, HeadIsLeast
<1>4. ListedHaveBlocks
  BY DEF ListedHaveBlocks, Listed
<1>. QED BY <1>1, <1>2, <1>3, <1>4 DEF Inv

(***************************************************************************)
(* A map gets a new entry: for a block it does not hold, with a free slot, *)
(* at position p, behind or before (d = 0 or 1) the entries it has.        *)
(***************************************************************************)
LEMMA EntryAdded ==
    ASSUME Inv, NEW n \in Names, NEW f \in FBlocks, NEW s \in Slots, NEW m,
           NEW d \in {0, 1}, NEW p \in Nat,
           ~used[s],
           \A i \in DOMAIN maps[n] : maps[n][i].fblock # f,
           m \in Seq(Entry),
           Len(m) = Len(maps[n]) + 1,
           m[p] = [fblock |-> f, cblock |-> s],
           \A i \in 1 .. Len(maps[n]) : m[i + d] = maps[n][i],
           \/ d = 1 /\ p = 1 /\ (maps[n] = << >> \/ f < maps[n][1].fblock)
           \/ d = 0 /\ p = Len(maps[n]) + 1 /\ maps[n] # << >> /\ ~(f < maps[n][1].fblock),
           maps' = [maps EXCEPT ![n] = m],
           used' = [used EXCEPT ![s] = TRUE]
    PROVE  SlotFlagsExact' /\ NoSlotShared' /\ HeadIsLeast'
<1>. DEFINE old == maps[n]
<1>1. /\ maps \in [Names -> Seq(Entry)]
      /\ used \in [Slots -> BOOLEAN]
      /\ old \in Seq(Entry)
      /\ Len(old) \in Nat
      /\ DOMAIN old = 1 .. Len(old)
      /\ DOMAIN m = 1 .. Len(old) + 1
  BY DEF Inv, TypeOK
<1>2. maps'[n] = m /\ \A n2 \in Names : n2 # n => maps'[n2] = maps[n2]
  BY <1>1
<1>3. \A k \in DOMAIN m : k # p => k - d \in DOMAIN old /\ m[k] = old[k - d]
  BY <1>1
<1>4. p \in DOMAIN m
  BY <1>1
<1>5. \A n2 \in Names : \A i \in DOMAIN maps[n2] : maps[n2][i].cblock # s
  BY DEF Inv, SlotFlagsExact
<1>6. SlotFlagsExact'
  <2>1. SUFFICES ASSUME NEW t \in Slots
                 PROVE  used'[t] <=> \E n2 \in Names : \E i \in DOMAIN maps'[n2] : maps'[n2][i].cblock = t
    BY DEF SlotFlagsExact
  <2>2. CASE t = s
    <3>1. used'[t]
      BY <1>1, <2>2
    <3>2. maps'[n][p].cblock = t /\ p \in DOMAIN maps'[n]
      BY <1>2, <1>4, <2>2
    <3>. QED BY <3>1, <3>2
  <2>3. CASE t # s
    <3>1. used'[t] = used[t]
      BY <1>1, <2>3
    <3>2. ASSUME used[t]
          PROVE  \E n2 \in Names : \E i \in DOMAIN maps'[n2] : maps'[n2][i].cblock = t
      <4>0. PICK n2 \in Names : \E i \in DOMAIN maps[n2] : maps[n2][i].cblock = t
        BY <3>2 DEF Inv, SlotFlagsExact
      <4>1. PICK i \in DOMAIN maps[n2] : maps[n2][i].cblock = t
        BY <4>0
      <4>2. CASE n2 # n
        BY <1>2, <4>1, <4>2
      <4>3. CASE n2 = n
        <5>0. i \in 1 .. Len(old)
          BY <1>1, <4>3
        <5>1. i + d \in DOMAIN m /\ m[i + d] = old[i]
          BY <1>1, <5>0
        <5>. QED BY <1>2, <4>1, <4>3, <5>1
      <4>. QED BY <4>2, <4>3
    <3>3. ASSUME NEW n2 \in Names, NEW i \in DOMAIN maps'[n2], maps'[n2][i].cblock = t
          PROVE  used[t]
      <4>1. CASE n2 # n
        BY <1>2, <3>3, <4>1 DEF Inv, SlotFlagsExact
      <4>2. CASE n2 = n
        <5>1. i # p
          BY <1>2, <2>3, <3>3, <4>2
        <5>2. i - d \in DOMAIN old /\ old[i - d].cblock = t
          BY <1>2, <1>3, <3>3, <4>2, <5>1
        <5>. QED BY <5>2 DEF Inv, SlotFlagsExact
      <4>. QED BY <4>1, <4>2
    <3>. QED BY <3>1, <3>2, <3>3
  <2>. QED BY <2>2, <2>3
<1>7. NoSlotShared'
  <2>1. SUFFICES ASSUME NEW n1 \in Names, NEW n2 \in Names,
                        NEW i \in DOMAIN maps'[n1], NEW j \in DOMAIN maps'[n2],
                        maps'[n1][i].cblock = maps'[n2][j].cblock
                 PROVE  n1 = n2 /\ i = j
    BY DEF NoSlotShared
  <2>. USE DEF Inv, NoSlotShared
  <2>2. CASE n1 # n /\ n2 # n
    BY <1>2, <2>1, <2>2
  <2>3. CASE n1 = n /\ n2 # n
    <3>1. CASE i = p
      BY <1>2, <1>5, <2>1, <2>3, <3>1
    <3>2. CASE i # p
      BY <1>2, <1>3, <2>1, <2>3, <3>2
    <3>. QED BY <3>1, <3>2
  <2>4. CASE n1 # n /\ n2 = n
    <3>1. CASE j = p
      BY <1>2, <1>5, <2>1, <2>4, <3>1
    <3>2. CASE j # p
      BY <1>2, <1>3, <2>1, <2>4, <3>2
    <3>. QED BY <3>1, <3>2
  <2>5. CASE n1 = n /\ n2 = n
    <3>1. CASE i = p \/ j = p
      BY <1>2, <1>3, <1>5, <2>1, <2>5, <3>1
    <3>2. CASE i # p /\ j # p
      <4>1. i - d = j - d
        BY <1>2, <1>3, <2>1, <2>5, <3>2
      <4>. QED BY <1>1, <1>2, <2>5, <4>1
    <3>. QED BY <3>1, <3>2
  <2>. QED BY <2>2, <2>3, <2>4, <2>5
<1>8. HeadIsLeast'
  <2>1. SUFFICES ASSUME NEW n2 \in Names, NEW i \in DOMAIN maps'[n2]
                 PROVE  /\ maps'[n2][1].fblock <= maps'[n2][i].fblock
                        /\ \A j \in DOMAIN maps'[n2] :
                              maps'[n2][i].fblock = maps'[n2][j].fblock => i = j
    BY DEF HeadIsLeast
  <2>2. CASE n2 # n
    BY <1>2, <2>1, <2>2 DEF Inv, HeadIsLeast
  <2>3. CASE n2 = n
    <3>0. \A k \in DOMAIN old : old[k] \in Entry /\ old[1].fblock <= old[k].fblock
      BY <1>1, ElementOfSeq DEF Inv, HeadIsLeast
    <3>1. \A k \in DOMAIN old : old[k].fblock \in Int /\ old[1].fblock <= old[k].fblock
      BY <3>0, FBlocksAssumption DEF Entry
    <3>2. f \in Int
      BY FBlocksAssumption
    <3>3. m[p].fblock = f
      OBVIOUS
    <3>4. m[1].fblock <= m[i].fblock
      <4>1. CASE d = 1
        <5>1. m[1].fblock = f
          BY <3>3, <4>1
        <5>2. CASE i = p
          BY <3>2, <3>3, <5>1, <5>2
        <5>3. CASE i # p
          <6>1. i - 1 \in DOMAIN old /\ m[i] = old[i - 1]
            BY <1>2, <1>3, <2>3, <4>1, <5>3
          <6>2. f < old[1].fblock
            BY <1>1, <4>1, <6>1
          <6>3. 1 \in DOMAIN old
            BY <1>1, <6>1
          <6>. QED BY <3>1, <3>2, <5>1, <6>1, <6>2, <6>3
        <5>. QED BY <5>2, <5>3
      <4>2. CASE d = 0
        <5>1. 1 \in DOMAIN old /\ m[1] = old[1]
          BY <1>1, <4>2
        <5>2. CASE i = p
          BY <3>1, <3>2, <3>3, <4>2, <5>1, <5>2
        <5>3. CASE i # p
          <6>1. i \in DOMAIN old /\ m[i] = old[i]
            BY <1>1, <1>2, <1>3, <2>3, <4>2, <5>3
          <6>. QED BY <3>1, <5>1, <6>1
        <5>. QED BY <5>2, <5>3
      <4>. QED BY <4>1, <4>2
    <3>5. ASSUME NEW j \in DOMAIN m, m[i].fblock = m[j].fblock
          PROVE  i = j
      <4>1. CASE i = p \/ j = p
        BY <1>2, <1>3, <2>3, <3>3, <3>5, <4>1
      <4>2. CASE i # p /\ j # p
        <5>1. /\ i - d \in DOMAIN old /\ m[i] = old[i - d]
              /\ j - d \in DOMAIN old /\ m[j] = old[j - d]
          BY <1>2, <1>3, <2>3, <4>2
        <5>2. i - d = j - d
          BY <3>5, <5>1 DEF Inv, HeadIsLeast
        <5>. QED BY <1>1, <1>2, <2>3, <5>2
      <4>. QED BY <4>1, <4>2
    <3>. QED BY <1>2, <2>3, <3>4, <3>5
  <2>. QED BY <2>2, <2>3
<1>. QED BY <1>6, <1>7, <1>8

(***************************************************************************)
(* remember_fblock keeps the invariant when a slot is free.  A block with  *)
(* a slot keeps it, because map_add finds its entry: by HeadIsLeast the    *)
(* block is not below the head.                                            *)
(***************************************************************************)
LEMMA RememberInv ==
    ASSUME Inv, NextCblock # -1,
           NEW n \in Names, NEW f \in FBlocks, NEW p \in Payloads,
           RememberFblock(n, f, p)
    PROVE  Inv'
<1>. DEFINE m == maps[n]
            at == FblockAt(m, f)
            s == SlotFor(n, f)
            new == [fblock |-> f, cblock |-> s]
<1>. USE NumBlocksAssumption
<1>1. /\ maps \in [Names -> Seq(Entry)]
      /\ used \in [Slots -> BOOLEAN]
      /\ data \in [Slots -> Payloads \cup {Blank}]
      /\ clist \in Seq(Names)
      /\ faulted = FALSE /\ alive = TRUE
      /\ m \in Seq(Entry)
      /\ DOMAIN m = 1 .. Len(m)
      /\ Len(m) \in Nat
  BY DEF Inv, TypeOK, NeverFaults
<1>2. \A i \in DOMAIN m : m[i] \in Entry /\ m[i].fblock \in Int /\ m[i].cblock \in Slots
  <2>1. \A i \in DOMAIN m : m[i] \in Entry
    BY <1>1, ElementOfSeq
  <2>. QED BY <2>1, FBlocksAssumption DEF Entry
<1>3. NextCblock \in Slots /\ ~used[NextCblock]
  <2>. DEFINE free == {t \in Slots : ~used[t]}
  <2>1. free # {} /\ NextCblock = First(free)
    BY DEF NextCblock
  <2>2. free \in SUBSET Nat
    BY DEF Slots
  <2>. QED BY <2>1, <2>2, LeastExists
<1>4. Done \in Reply
  BY DEF Done, Reply
<1>5. \A i \in DOMAIN clist : clist[i] \in Names
  BY <1>1, ElementOfSeq
<1>6. CASE at # {}
  <2>1. PICK i \in DOMAIN m : m[i].fblock = f
    BY <1>6 DEF FblockAt
  <2>2. First(at) = i
    <3>1. at \in SUBSET Int /\ i \in at /\ \A j \in at : j = i
      BY <1>1, <2>1 DEF FblockAt, Inv, HeadIsLeast
    <3>. QED BY <3>1, FirstOfOne
  <2>3. s = m[i].cblock /\ s # -1 /\ s \in Slots
    <3>1. ReadSlot(n, f) = m[i].cblock
      BY <1>6, <2>2 DEF ReadSlot
    <3>2. m[i].cblock \in Slots /\ m[i].cblock # -1
      BY <1>2 DEF Slots
    <3>. QED BY <3>1, <3>2 DEF SlotFor
  <2>4. m # << >> /\ ~(f < m[1].fblock)
    <3>1. 1 \in DOMAIN m /\ m[1].fblock <= f
      BY <1>1, <2>1 DEF Inv, HeadIsLeast
    <3>. QED BY <1>1, <1>2, <2>1, <3>1
  <2>5. used[s]
    BY <2>1, <2>3 DEF Inv, SlotFlagsExact
  <2>6. MapAdd(Cache, n, f, s) = [Cache EXCEPT !.faulted = @ \/ ~Cache.used[s]]
    BY <1>6, <2>2, <2>3, <2>4 DEF MapAdd, Cache
  <2>7. Install(MapAdd(Cache, n, f, s)) /\ ContentAdd(n) /\ reply' = Done /\ alive' = alive
        /\ data' = [data EXCEPT ![s] = p]
    BY <2>3 DEF RememberFblock
  <2>8. maps' = maps /\ used' = used /\ faulted' = FALSE
    BY <1>1, <2>5, <2>6, <2>7 DEF Install, Cache
  <2>9. clist' = clist
    BY <2>4, <2>7 DEF ContentAdd, Inv, ListedHaveBlocks
  <2>10. TypeOK'
    BY <1>1, <1>4, <2>3, <2>7, <2>8, <2>9 DEF TypeOK
  <2>11. NeverFaults' /\ SlotFlagsExact' /\ NoSlotShared' /\ HeadIsLeast'
    BY <1>1, <2>7, <2>8 DEF Inv, NeverFaults, SlotFlagsExact, NoSlotShared, HeadIsLeast
  <2>12. ListedHaveBlocks'
    BY <2>8, <2>9 DEF Inv, ListedHaveBlocks, Listed
  <2>. QED BY <2>10, <2>11, <2>12 DEF Inv
<1>7. CASE at = {}
  <2>1. s = NextCblock /\ s \in Slots /\ s # -1 /\ ~used[s]
    BY <1>3, <1>7 DEF SlotFor, ReadSlot, Slots
  <2>2. Install(MapAdd(Cache, n, f, s)) /\ ContentAdd(n) /\ reply' = Done /\ alive' = alive
        /\ data' = [data EXCEPT ![s] = p]
    BY <2>1 DEF RememberFblock
  <2>3. new \in Entry
    BY <2>1 DEF Entry
  <2>4. StorageRemember(Cache, s) = [maps |-> maps, used |-> [used EXCEPT ![s] = TRUE], faulted |-> FALSE]
    <3>. HIDE DEF s
    <3>1. StorageRemember(Cache, s)
            = [Cache EXCEPT !.used = [used EXCEPT ![s] = TRUE], !.faulted = faulted \/ used[s]]
      BY DEF StorageRemember, Cache
    <3>2. (faulted \/ used[s]) = FALSE
      BY <1>1, <2>1
    <3>. QED BY <3>1, <3>2 DEF Cache
  <2>5. \A i \in DOMAIN maps[n] : maps[n][i].fblock # f
    BY <1>7 DEF FblockAt
  <2>6. /\ used' = [used EXCEPT ![s] = TRUE]
        /\ faulted' = FALSE
        /\ maps' = [maps EXCEPT ![n] = maps'[n]]
        /\ maps'[n] \in Seq(Entry)
        /\ maps'[n] # << >>
        /\ SlotFlagsExact' /\ NoSlotShared' /\ HeadIsLeast'
    <3>1. CASE m = << >> \/ f < m[1].fblock
      <4>. DEFINE m2 == <<new>> \o m
      <4>1. MapAdd(Cache, n, f, s) = [StorageRemember(Cache, s) EXCEPT !.maps[n] = m2]
        BY <3>1 DEF MapAdd, Cache
      <4>2. used' = [used EXCEPT ![s] = TRUE] /\ faulted' = FALSE /\ maps' = [maps EXCEPT ![n] = m2]
        BY <2>2, <2>4, <4>1 DEF Install
      <4>3. /\ m2 \in Seq(Entry)
            /\ Len(m2) = Len(m) + 1
            /\ m2[1] = new
            /\ \A i \in 1 .. Len(m) : m2[i + 1] = m[i]
        BY <1>1, <2>3, PrependProperties
      <4>. HIDE DEF m2
      <4>4. SlotFlagsExact' /\ NoSlotShared' /\ HeadIsLeast'
        BY <2>1, <2>5, <3>1, <4>2, <4>3, EntryAdded
      <4>5. maps'[n] = m2 /\ m2 # << >>
        BY <1>1, <4>2, <4>3
      <4>. QED BY <4>2, <4>3, <4>4, <4>5
    <3>2. CASE ~(m = << >> \/ f < m[1].fblock)
      <4>. DEFINE m2 == Append(m, new)
      <4>1. MapAdd(Cache, n, f, s) = [StorageRemember(Cache, s) EXCEPT !.maps[n] = m2]
        BY <1>7, <3>2 DEF MapAdd, Cache
      <4>2. used' = [used EXCEPT ![s] = TRUE] /\ faulted' = FALSE /\ maps' = [maps EXCEPT ![n] = m2]
        BY <2>2, <2>4, <4>1 DEF Install
      <4>3. /\ m2 \in Seq(Entry)
            /\ Len(m2) = Len(m) + 1
            /\ m2[Len(m) + 1] = new
            /\ \A i \in 1 .. Len(m) : m2[i + 0] = m[i]
        BY <1>1, <2>3, AppendProperties
      <4>. HIDE DEF m2
      <4>4. SlotFlagsExact' /\ NoSlotShared' /\ HeadIsLeast'
        <5>1. Len(m) + 1 \in Nat
          BY <1>1
        <5>. QED BY <2>1, <2>5, <3>2, <4>2, <4>3, <5>1, EntryAdded
      <4>5. maps'[n] = m2 /\ m2 # << >>
        BY <1>1, <4>2, <4>3
      <4>. QED BY <4>2, <4>3, <4>4, <4>5
    <3>. QED BY <3>1, <3>2
  <2>7. clist' \in Seq(Names)
    BY <1>1, <2>2, AppendProperties DEF ContentAdd
  <2>8. TypeOK'
    <3>1. maps' \in [Names -> Seq(Entry)] /\ used' \in [Slots -> BOOLEAN]
      BY <1>1, <2>6
    <3>. QED BY <1>1, <1>4, <2>1, <2>2, <2>6, <2>7, <3>1 DEF TypeOK
  <2>9. NeverFaults'
    BY <1>1, <2>2, <2>6 DEF NeverFaults
  <2>10. ListedHaveBlocks'
    <3>1. \A n2 \in Names : maps'[n2] # << >> <=> (n2 = n \/ maps[n2] # << >>)
      BY <1>1, <2>6
    <3>2. CASE n \in Listed
      BY <2>2, <3>1, <3>2 DEF ContentAdd, Inv, ListedHaveBlocks, Listed
    <3>3. CASE n \notin Listed
      <4>1. /\ clist' = Append(clist, n)
            /\ Len(clist) \in Nat
            /\ DOMAIN clist = 1 .. Len(clist)
            /\ DOMAIN clist' = 1 .. Len(clist) + 1
            /\ clist'[Len(clist) + 1] = n
            /\ \A i \in 1 .. Len(clist) : clist'[i] = clist[i] /\ clist[i] # n
        <5>1. clist' = Append(clist, n)
          BY <2>2, <3>3 DEF ContentAdd
        <5>2. \A i \in DOMAIN clist : clist[i] # n
          BY <3>3 DEF Listed
        <5>. QED BY <1>1, <5>1, <5>2, AppendProperties
      <4>2. \A i, j \in DOMAIN clist' : clist'[i] = clist'[j] => i = j
        BY <4>1 DEF Inv, ListedHaveBlocks
      <4>3. Listed' = Listed \cup {n}
        BY <4>1 DEF Listed
      <4>. QED BY <3>1, <4>2, <4>3 DEF Inv, ListedHaveBlocks
    <3>. QED BY <3>2, <3>3
  <2>. QED BY <2>6, <2>8, <2>9, <2>10 DEF Inv
<1>. QED BY <1>6, <1>7

(***************************************************************************)
(* forget_file keeps the invariant: no slot of the file occurs twice or in *)
(* another file, so exactly the slots it held become free.                 *)
(***************************************************************************)
LEMMA ForgetFileInv ==
    ASSUME Inv, NEW n \in Names, n \in Listed, ForgetFile(n)
    PROVE  Inv'
<1>. DEFINE m == maps[n]
            given == {m[i].cblock : i \in DOMAIN m}
            at == {i \in DOMAIN clist : clist[i] = n}
<1>1. /\ maps \in [Names -> Seq(Entry)]
      /\ used \in [Slots -> BOOLEAN]
      /\ clist \in Seq(Names)
      /\ faulted = FALSE /\ alive = TRUE
      /\ m \in Seq(Entry)
      /\ DOMAIN clist = 1 .. Len(clist)
      /\ Len(clist) \in Nat
  BY DEF Inv, TypeOK, NeverFaults
<1>2. PICK k \in DOMAIN clist : clist[k] = n
  BY DEF Listed
<1>3. First(at) = k
  <2>1. at \in SUBSET Int /\ k \in at /\ \A j \in at : j = k
    BY <1>1, <1>2 DEF Inv, ListedHaveBlocks
  <2>. HIDE DEF at
  <2>. QED BY <2>1, FirstOfOne
<1>4. /\ clist' = SX!RemoveAt(clist, k)
      /\ Install(MapClear(Cache, n))
      /\ reply' = Done /\ data' = data /\ alive' = alive
  BY <1>3 DEF ForgetFile
<1>5. maps' = [maps EXCEPT ![n] = << >>]
  BY <1>4 DEF Install, MapClear, Cache
<1>6. used' = [s \in Slots |-> used[s] /\ s \notin given]
  BY <1>4 DEF Install, MapClear, Cache
<1>7. faulted' = FALSE
  <2>1. \A s \in given : s \in Slots /\ used[s]
    <3>1. \A i \in DOMAIN m : m[i] \in Entry
      BY <1>1, ElementOfSeq
    <3>2. \A i \in DOMAIN m : m[i].cblock \in Slots
      BY <3>1 DEF Entry
    <3>. QED BY <3>2 DEF Inv, SlotFlagsExact
  <2>2. \A i, j \in DOMAIN m : m[i].cblock = m[j].cblock => i = j
    BY DEF Inv, NoSlotShared
  <2>3. faulted' = (\/ faulted
                    \/ \E s \in given : ~used[s]
                    \/ \E i, j \in DOMAIN m : i # j /\ m[i].cblock = m[j].cblock)
    BY <1>4 DEF Install, MapClear, Cache
  <2>4. ~(\E s \in given : ~used[s])
    BY <2>1
  <2>5. ~(\E i, j \in DOMAIN m : i # j /\ m[i].cblock = m[j].cblock)
    BY <2>2
  <2>. HIDE DEF given, m
  <2>. QED BY <1>1, <2>3, <2>4, <2>5
<1>8. maps'[n] = << >> /\ \A n2 \in Names : n2 # n => maps'[n2] = maps[n2]
  BY <1>1, <1>5
<1>9. /\ clist' \in Seq(Names)
      /\ Len(clist') = Len(clist) - 1
      /\ \A i \in 1 .. Len(clist) - 1 : clist'[i] = IF i < k THEN clist[i] ELSE clist[i + 1]
  BY <1>1, <1>4, RemoveAtProperties
<1>10. TypeOK'
  <2>1. << >> \in Seq(Entry)
    BY EmptySeq
  <2>2. maps' \in [Names -> Seq(Entry)]
    BY <1>1, <1>5, <2>1
  <2>3. used' \in [Slots -> BOOLEAN]
    BY <1>1, <1>6
  <2>4. reply' \in Reply
    BY <1>4 DEF Done, Reply
  <2>. QED BY <1>1, <1>4, <1>7, <1>9, <2>2, <2>3, <2>4 DEF TypeOK, Inv
<1>11. NeverFaults'
  BY <1>1, <1>4, <1>7 DEF NeverFaults
<1>12. SlotFlagsExact'
  <2>1. SUFFICES ASSUME NEW t \in Slots
                 PROVE  used'[t] <=> \E n2 \in Names : \E i \in DOMAIN maps'[n2] : maps'[n2][i].cblock = t
    BY DEF SlotFlagsExact
  <2>2. used'[t] <=> used[t] /\ t \notin given
    BY <1>6
  <2>3. ASSUME used[t], t \notin given
        PROVE  \E n2 \in Names : \E i \in DOMAIN maps'[n2] : maps'[n2][i].cblock = t
    <3>1. PICK n2 \in Names : \E i \in DOMAIN maps[n2] : maps[n2][i].cblock = t
      BY <2>3 DEF Inv, SlotFlagsExact
    <3>2. n2 # n
      BY <2>3, <3>1
    <3>. QED BY <1>8, <3>1, <3>2
  <2>4. ASSUME NEW n2 \in Names, NEW i \in DOMAIN maps'[n2], maps'[n2][i].cblock = t
        PROVE  used[t] /\ t \notin given
    <3>1. n2 # n
      BY <1>8, <2>4
    <3>2. i \in DOMAIN maps[n2] /\ maps[n2][i].cblock = t
      BY <1>8, <2>4, <3>1
    <3>. QED BY <3>1, <3>2 DEF Inv, SlotFlagsExact, NoSlotShared
  <2>. HIDE DEF given
  <2>. QED BY <2>2, <2>3, <2>4
<1>13. NoSlotShared' /\ HeadIsLeast'
  BY <1>8 DEF Inv, NoSlotShared, HeadIsLeast
<1>14. ListedHaveBlocks'
  <2>1. DOMAIN clist' = 1 .. Len(clist) - 1
    BY <1>9
  <2>. DEFINE L == Len(clist)
  <2>0. /\ L \in Nat /\ k \in 1 .. L /\ DOMAIN clist = 1 .. L
        /\ \A i \in 1 .. L - 1 : i < k => clist'[i] = clist[i]
        /\ \A i \in 1 .. L - 1 : ~(i < k) => clist'[i] = clist[i + 1]
    BY <1>1, <1>2, <1>9
  <2>. HIDE DEF L, m, at, given
  <2>2. ASSUME NEW i \in 1 .. L - 1
        PROVE  \E h \in DOMAIN clist : /\ h # k
                                       /\ clist'[i] = clist[h]
                                       /\ h = IF i < k THEN i ELSE i + 1
    <3>1. CASE i < k
      BY <2>0, <3>1
    <3>2. CASE ~(i < k)
      <4>1. i + 1 \in 1 .. L /\ i + 1 # k
        BY <2>0, <3>2
      <4>. QED BY <2>0, <3>2, <4>1
    <3>. QED BY <3>1, <3>2
  <2>3. ASSUME NEW h \in DOMAIN clist, h # k
        PROVE  \E i \in 1 .. L - 1 : clist'[i] = clist[h]
    <3>1. h \in 1 .. L
      BY <2>0
    <3>2. CASE h < k
      <4>1. h \in 1 .. L - 1
        BY <2>0, <3>1, <3>2
      <4>. QED BY <2>0, <3>2, <4>1
    <3>3. CASE h > k
      <4>1. h - 1 \in 1 .. L - 1 /\ ~(h - 1 < k) /\ (h - 1) + 1 = h
        BY <2>0, <3>1, <3>3
      <4>2. clist'[h - 1] = clist[(h - 1) + 1]
        BY <2>0, <4>1
      <4>. QED BY <4>1, <4>2
    <3>. QED BY <2>0, <2>3, <3>1, <3>2, <3>3
  <2>4. \A i, j \in DOMAIN clist' : clist'[i] = clist'[j] => i = j
    <3>1. SUFFICES ASSUME NEW i \in 1 .. L - 1, NEW j \in 1 .. L - 1,
                          clist'[i] = clist'[j]
                   PROVE  i = j
      BY <2>1 DEF L
    <3>2. PICK h \in DOMAIN clist : /\ clist'[i] = clist[h]
                                    /\ h = IF i < k THEN i ELSE i + 1
      BY <2>2
    <3>3. PICK g \in DOMAIN clist : /\ clist'[j] = clist[g]
                                    /\ g = IF j < k THEN j ELSE j + 1
      BY <2>2
    <3>4. h = g
      BY <3>1, <3>2, <3>3 DEF Inv, ListedHaveBlocks
    <3>. QED BY <2>0, <3>2, <3>3, <3>4
  <2>5. Listed' = Listed \ {n}
    <3>1. Listed' = {clist'[i] : i \in 1 .. L - 1}
      BY <2>1 DEF Listed, L
    <3>2. \A h \in DOMAIN clist : clist[h] = n => h = k
      BY <1>2 DEF Inv, ListedHaveBlocks
    <3>3. ASSUME NEW x \in Listed' PROVE x \in Listed \ {n}
      <4>1. PICK i \in 1 .. L - 1 : x = clist'[i]
        BY <3>1
      <4>2. PICK h \in DOMAIN clist : h # k /\ x = clist[h]
        BY <2>2, <4>1
      <4>. QED BY <3>2, <4>2 DEF Listed
    <3>4. ASSUME NEW x \in Listed \ {n} PROVE x \in Listed'
      <4>1. PICK h \in DOMAIN clist : x = clist[h]
        BY DEF Listed
      <4>2. h # k
        BY <1>2, <4>1
      <4>. QED BY <2>3, <3>1, <4>1, <4>2
    <3>. QED BY <3>3, <3>4
  <2>. QED BY <1>8, <2>4, <2>5 DEF Inv, ListedHaveBlocks
<1>. QED BY <1>10, <1>11, <1>12, <1>13, <1>14 DEF Inv

\* A step that changes at most the reply keeps the invariant.
LEMMA ReplyInv ==
    ASSUME Inv, UNCHANGED <<clist, maps, used, data, faulted, alive>>, reply' \in Reply
    PROVE  Inv'
BY DEF Inv, TypeOK, NeverFaults, SlotFlagsExact, NoSlotShared, HeadIsLeast, ListedHaveBlocks, Listed

----------------------------------------------------------------------------
LEMMA NextInv == Inv /\ [Next]_serverVars => Inv'
<1>. SUFFICES ASSUME Inv, [Next]_serverVars PROVE Inv'
  OBVIOUS
<1>1. Failed \in Reply /\ Done \in Reply
  BY DEF Failed, Done, Reply
<1>2. CASE UNCHANGED serverVars
  <2>1. reply' \in Reply
    BY <1>2 DEF serverVars, vars, Inv, TypeOK
  <2>. QED BY <1>2, <2>1, ReplyInv DEF serverVars, vars
<1>3. ASSUME NEW n \in Names, NEW f \in FBlocks, NEW p \in Payloads, StoreBlock(n, f, p)
      PROVE  Inv'
  <2>1. CASE NextCblock # -1
    BY <1>3, <2>1, RememberInv DEF StoreBlock
  <2>2. CASE NextCblock = -1
    BY <1>1, <1>3, <2>2, ReplyInv DEF StoreBlock
  <2>. QED BY <2>1, <2>2
<1>4. ASSUME NEW n \in Names, NEW f \in FBlocks, ServeBlock(n, f)
      PROVE  Inv'
  <2>1. Content(n, f) = NoBlock \/ Content(n, f) \in Payloads \cup {Blank}
    <3>1. CASE FblockAt(maps[n], f) = {}
      BY <3>1 DEF Content, ReadSlot
    <3>2. CASE FblockAt(maps[n], f) # {}
      <4>. DEFINE at == FblockAt(maps[n], f)
      <4>1. at \in SUBSET Nat /\ at \subseteq DOMAIN maps[n]
        BY DEF FblockAt, Inv, TypeOK
      <4>. HIDE DEF at
      <4>2. First(at) \in DOMAIN maps[n]
        BY <3>2, <4>1, LeastExists DEF at
      <4>3. maps[n][First(at)] \in Entry
        BY <4>2, ElementOfSeq DEF Inv, TypeOK
      <4>4. maps[n][First(at)].cblock \in Slots
        BY <4>3 DEF Entry
      <4>. QED BY <3>2, <4>4 DEF Content, ReadSlot, Inv, TypeOK, at
    <3>. QED BY <3>1, <3>2
  <2>2. reply' \in Reply
    <3>1. CASE Content(n, f) = NoBlock
      BY <1>1, <1>4, <3>1 DEF ServeBlock, GetFblock
    <3>2. CASE Content(n, f) # NoBlock
      <4>1. reply' = Block(Content(n, f)) /\ Content(n, f) \in Payloads \cup {Blank}
        BY <1>4, <2>1, <3>2 DEF ServeBlock, GetFblock
      <4>. QED BY <4>1 DEF Block, Reply
    <3>. QED BY <3>1, <3>2
  <2>. QED BY <1>4, <2>2, ReplyInv DEF ServeBlock, GetFblock
<1>5. ASSUME NEW n \in Names, DeleteFile(n)
      PROVE  Inv'
  <2>1. CASE n \in Listed
    BY <1>5, <2>1, ForgetFileInv DEF DeleteFile
  <2>2. CASE n \notin Listed
    BY <1>1, <1>5, <2>2, ReplyInv DEF DeleteFile, ForgetFile
  <2>. QED BY <2>1, <2>2
<1>. QED BY <1>2, <1>3, <1>4, <1>5 DEF Next

(***************************************************************************)
(* The whole invariant, for every number of slots and every set of names,  *)
(* block numbers and payloads.                                             *)
(***************************************************************************)
THEOREM CacheInvariant == Spec => []Inv
<1>1. ServerInit => Inv
  BY InitInv DEF ServerInit
<1>2. Inv /\ [Next]_serverVars => Inv'
  BY NextInv
<1>. QED BY <1>1, <1>2, PTL DEF Spec

\* The variables keep their types (a6/storage.c, all declarations).
THEOREM TypeCorrect == Spec => []TypeOK
<1>1. Inv => TypeOK
  BY DEF Inv
<1>. QED BY <1>1, CacheInvariant, PTL

\* No ASSERT of storage.c fails and no slot outside the array is touched.
THEOREM AssertsHold == Spec => []NeverFaults
<1>1. Inv => NeverFaults
  BY DEF Inv
<1>. QED BY <1>1, CacheInvariant, PTL

\* A slot is in use exactly when some file's map names it: storage_used is exact.
THEOREM FlagsExact == Spec => []SlotFlagsExact
<1>1. Inv => SlotFlagsExact
  BY DEF Inv
<1>. QED BY <1>1, CacheInvariant, PTL

\* No slot serves two blocks: remember_fblock never overwrites another block.
THEOREM SlotsUnshared == Spec => []NoSlotShared
<1>1. Inv => NoSlotShared
  BY DEF Inv
<1>. QED BY <1>1, CacheInvariant, PTL

\* map_add keeps the least block at the head and one entry for a block.
THEOREM HeadsLeast == Spec => []HeadIsLeast
<1>1. Inv => HeadIsLeast
  BY DEF Inv
<1>. QED BY <1>1, CacheInvariant, PTL

\* get_fblock never meets a name that is listed and has no block.
THEOREM RecordsHaveBlocks == Spec => []ListedHaveBlocks
<1>1. Inv => ListedHaveBlocks
  BY DEF Inv
<1>. QED BY <1>1, CacheInvariant, PTL

----------------------------------------------------------------------------
(* storage.h called in any way. *)

(***************************************************************************)
(* The slot of a block in one map, as ReadSlot finds it.                   *)
(***************************************************************************)
SlotIn(m, f) == IF FblockAt(m, f) = {} THEN -1 ELSE m[First(FblockAt(m, f))].cblock

LEMMA EntryType ==
    ASSUME NEW m \in Seq(Entry)
    PROVE  /\ Len(m) \in Nat /\ DOMAIN m = 1 .. Len(m)
           /\ \A i \in DOMAIN m : /\ m[i] \in Entry /\ m[i].fblock \in FBlocks /\ m[i].fblock \in Int
                                  /\ m[i].cblock \in Slots
<1>1. Len(m) \in Nat /\ DOMAIN m = 1 .. Len(m) /\ \A i \in DOMAIN m : m[i] \in Entry
  BY ListBasics
<1>2. \A e \in Entry : e.fblock \in FBlocks /\ e.fblock \in Int /\ e.cblock \in Slots
  BY FBlocksAssumption DEF Entry
<1>. QED BY <1>1, <1>2

LEMMA SlotNames ==
    /\ Slots \in SUBSET Nat
    /\ \A s \in Slots : s # -1
BY NumBlocksAssumption DEF Slots

\* A scan for a block stops at the first entry for it.
LEMMA FirstFblock ==
    ASSUME NEW m \in Seq(Entry), NEW f, FblockAt(m, f) # {}
    PROVE  /\ First(FblockAt(m, f)) \in DOMAIN m
           /\ m[First(FblockAt(m, f))].fblock = f
           /\ \A i \in DOMAIN m : m[i].fblock = f => First(FblockAt(m, f)) <= i
<1>. DEFINE at == FblockAt(m, f)
<1>1. at \in SUBSET Nat /\ at # {}
  BY EntryType DEF FblockAt
<1>2. First(at) \in at /\ \A i \in at : First(at) <= i
  <2>. HIDE DEF at
  <2>. QED BY <1>1, LeastExists
<1>. QED BY <1>2 DEF FblockAt

LEMMA FirstCblock ==
    ASSUME NEW m \in Seq(Entry), NEW s, CblockAt(m, s) # {}
    PROVE  First(CblockAt(m, s)) \in DOMAIN m /\ m[First(CblockAt(m, s))].cblock = s
<1>. DEFINE at == CblockAt(m, s)
<1>1. at \in SUBSET Nat /\ at # {}
  BY EntryType DEF CblockAt
<1>2. First(at) \in at
  <2>. HIDE DEF at
  <2>. QED BY <1>1, LeastExists
<1>. QED BY <1>2 DEF CblockAt

\* What the slot found says of the map.
LEMMA SlotInMap ==
    ASSUME NEW m \in Seq(Entry), NEW f
    PROVE  /\ SlotIn(m, f) = -1 <=> \A i \in DOMAIN m : m[i].fblock # f
           /\ SlotIn(m, f) # -1 =>
                SlotIn(m, f) \in Slots /\ \E i \in DOMAIN m : m[i].fblock = f /\ m[i].cblock = SlotIn(m, f)
<1>1. CASE FblockAt(m, f) = {}
  BY <1>1 DEF SlotIn, FblockAt
<1>2. CASE FblockAt(m, f) # {}
  <2>. DEFINE k == First(FblockAt(m, f))
  <2>1. k \in DOMAIN m /\ m[k].fblock = f
    BY <1>2, FirstFblock
  <2>2. m[k].cblock \in Slots /\ m[k].cblock # -1
    BY <2>1, EntryType, SlotNames
  <2>3. SlotIn(m, f) = m[k].cblock
    BY <1>2 DEF SlotIn
  <2>. HIDE DEF k
  <2>. QED BY <2>1, <2>2, <2>3
<1>. QED BY <1>1, <1>2

\* In a map that holds a block once, the slot found is that of its entry.
LEMMA SlotOfEntry ==
    ASSUME NEW m \in Seq(Entry), NEW i \in DOMAIN m,
           \A j \in DOMAIN m : m[j].fblock = m[i].fblock => i = j
    PROVE  SlotIn(m, m[i].fblock) = m[i].cblock
<1>1. FblockAt(m, m[i].fblock) # {}
  BY DEF FblockAt
<1>2. First(FblockAt(m, m[i].fblock)) = i
  BY <1>1, FirstFblock
<1>. QED BY <1>1, <1>2 DEF SlotIn

----------------------------------------------------------------------------
(* The operators on the triple of maps, flags and failed ASSERTs. *)

Caches == [maps : [Names -> Seq(Entry)], used : [Slots -> BOOLEAN], faulted : BOOLEAN]

LEMMA CacheFields ==
    ASSUME NEW c \in Caches
    PROVE  /\ c.maps \in [Names -> Seq(Entry)]
           /\ c.used \in [Slots -> BOOLEAN]
           /\ c.faulted \in BOOLEAN
  BY DEF Caches

LEMMA CacheOf ==
    ASSUME NEW m \in [Names -> Seq(Entry)], NEW u \in [Slots -> BOOLEAN], NEW b \in BOOLEAN
    PROVE  [maps |-> m, used |-> u, faulted |-> b] \in Caches
  BY DEF Caches

LEMMA CacheParts ==
    ASSUME NEW c \in Caches
    PROVE  c = [maps |-> c.maps, used |-> c.used, faulted |-> c.faulted]
  BY DEF Caches

\* A triple of which one part is changed.
LEMMA MapChanged ==
    ASSUME NEW m, NEW u, NEW b, NEW n, NEW r, NEW c,
           c = [maps |-> m, used |-> u, faulted |-> b]
    PROVE  [c EXCEPT !.maps[n] = r] = [maps |-> [m EXCEPT ![n] = r], used |-> u, faulted |-> b]
<1>1. [c EXCEPT !.maps[n] = r] = [c EXCEPT !.maps = [m EXCEPT ![n] = r]]
  OBVIOUS
<1>2. \A x : [c EXCEPT !.maps = x] = [maps |-> x, used |-> u, faulted |-> b]
  OBVIOUS
<1>. QED BY <1>1, <1>2

LEMMA FaultChanged ==
    ASSUME NEW m, NEW u, NEW b \in BOOLEAN, NEW w \in BOOLEAN, NEW c,
           c = [maps |-> m, used |-> u, faulted |-> b]
    PROVE  [c EXCEPT !.faulted = @ \/ w] = [maps |-> m, used |-> u, faulted |-> b \/ w]
  OBVIOUS

LEMMA StorageRememberIs ==
    ASSUME NEW c \in Caches, NEW s \in Slots
    PROVE  /\ StorageRemember(c, s) = [maps |-> c.maps,
                                       used |-> [c.used EXCEPT ![s] = TRUE],
                                       faulted |-> c.faulted \/ c.used[s]]
           /\ StorageRemember(c, s) \in Caches
<1>. DEFINE d == StorageRemember(c, s)
<1>1. c.used \in [Slots -> BOOLEAN] /\ c.faulted \in BOOLEAN /\ c.used[s] \in BOOLEAN
  BY CacheFields
<1>2. /\ d \in Caches
      /\ d.maps = c.maps
      /\ d.used = [c.used EXCEPT ![s] = TRUE]
      /\ d.faulted = (c.faulted \/ c.used[s])
  BY <1>1 DEF StorageRemember, Caches
<1>. HIDE DEF d
<1>3. d = [maps |-> d.maps, used |-> d.used, faulted |-> d.faulted]
  BY <1>2, CacheParts
<1>. QED BY <1>2, <1>3 DEF d

LEMMA StorageForgetIs ==
    ASSUME NEW c \in Caches, NEW s \in Slots
    PROVE  /\ StorageForget(c, s) = [maps |-> c.maps,
                                     used |-> [c.used EXCEPT ![s] = FALSE],
                                     faulted |-> c.faulted \/ ~c.used[s]]
           /\ StorageForget(c, s) \in Caches
<1>. DEFINE d == StorageForget(c, s)
<1>1. c.used \in [Slots -> BOOLEAN] /\ c.faulted \in BOOLEAN /\ c.used[s] \in BOOLEAN
  BY CacheFields
<1>2. /\ d \in Caches
      /\ d.maps = c.maps
      /\ d.used = [c.used EXCEPT ![s] = FALSE]
      /\ d.faulted = (c.faulted \/ ~c.used[s])
  BY <1>1 DEF StorageForget, Caches
<1>. HIDE DEF d
<1>3. d = [maps |-> d.maps, used |-> d.used, faulted |-> d.faulted]
  BY <1>2, CacheParts
<1>. QED BY <1>2, <1>3 DEF d

\* Every slot in use is mapped: what NoSlotLeaked says of the variables.
MappedIn(c, s) == \E n \in Names : \E i \in DOMAIN c.maps[n] : c.maps[n][i].cblock = s
Leakless(c) == \A s \in Slots : c.used[s] => MappedIn(c, s)

(***************************************************************************)
(* What FaultsAreNoticed says of the variables: a mapped slot is in use,   *)
(* no block has two slots and no slot two blocks.                          *)
(***************************************************************************)
Sound(c) ==
    /\ \A s \in Slots : MappedIn(c, s) => c.used[s]
    /\ \A n \in Names : \A i, j \in DOMAIN c.maps[n] :
          c.maps[n][i].fblock = c.maps[n][j].fblock => i = j
    /\ \A n1, n2 \in Names : \A i \in DOMAIN c.maps[n1], j \in DOMAIN c.maps[n2] :
          c.maps[n1][i].cblock = c.maps[n2][j].cblock => n1 = n2 /\ i = j

\* What every call keeps, and what is kept until a failed ASSERT.
Safe(c) == c \in Caches /\ Leakless(c)
Good(c) == c \in Caches /\ Leakless(c) /\ (~c.faulted => Sound(c))

\* Unlinking an entry gives back its slot and leaves the others in order.
LEMMA UnlinkIs ==
    ASSUME NEW c \in Caches, NEW n \in Names, NEW i \in DOMAIN c.maps[n]
    PROVE  /\ Unlink(c, n, i) \in Caches
           /\ Unlink(c, n, i).used = [c.used EXCEPT ![c.maps[n][i].cblock] = FALSE]
           /\ Unlink(c, n, i).faulted = (c.faulted \/ ~c.used[c.maps[n][i].cblock])
           /\ \A n2 \in Names : n2 # n => Unlink(c, n, i).maps[n2] = c.maps[n2]
           /\ Unlink(c, n, i).maps[n] = SX!RemoveAt(c.maps[n], i)
<1>. DEFINE m == c.maps[n]
            s == m[i].cblock
<1>1. c.maps \in [Names -> Seq(Entry)] /\ m \in Seq(Entry) /\ s \in Slots /\ i \in 1 .. Len(m)
  BY CacheFields, EntryType
<1>2. SX!RemoveAt(m, i) \in Seq(Entry)
  BY <1>1, RemoveAtProperties
<1>. DEFINE r == SX!RemoveAt(m, i)
<1>. HIDE DEF r, s
<1>3. /\ StorageForget(c, s) = [maps |-> c.maps,
                                used |-> [c.used EXCEPT ![s] = FALSE],
                                faulted |-> c.faulted \/ ~c.used[s]]
      /\ StorageForget(c, s) \in Caches
  BY <1>1, StorageForgetIs
<1>4. Unlink(c, n, i) = [StorageForget(c, s) EXCEPT !.maps[n] = r]
  BY DEF Unlink, r, s
<1>5. Unlink(c, n, i) = [maps |-> [c.maps EXCEPT ![n] = r],
                         used |-> [c.used EXCEPT ![s] = FALSE],
                         faulted |-> c.faulted \/ ~c.used[s]]
  <2>. DEFINE c2 == StorageForget(c, s)
              u == [c.used EXCEPT ![s] = FALSE]
              b == c.faulted \/ ~c.used[s]
  <2>1. c2 = [maps |-> c.maps, used |-> u, faulted |-> b]
    BY <1>3
  <2>. HIDE DEF c2, u, b
  <2>2. [c2 EXCEPT !.maps[n] = r] = [maps |-> [c.maps EXCEPT ![n] = r], used |-> u, faulted |-> b]
    BY <2>1, MapChanged
  <2>. QED BY <1>4, <2>2 DEF c2, u, b
<1>6. Unlink(c, n, i) \in Caches
  <2>1. [c.maps EXCEPT ![n] = r] \in [Names -> Seq(Entry)]
    BY <1>1, <1>2 DEF r
  <2>2. [c.used EXCEPT ![s] = FALSE] \in [Slots -> BOOLEAN]
    BY CacheFields
  <2>. QED BY <1>5, <2>1, <2>2 DEF Caches
<1>. QED BY <1>1, <1>5, <1>6 DEF r, s

LEMMA UnlinkOthers ==
    ASSUME NEW c, c \in Caches, NEW n \in Names, NEW i \in DOMAIN c.maps[n]
    PROVE  \A n2 \in Names : n2 # n => Unlink(c, n, i).maps[n2] = c.maps[n2]
<1>. DEFINE m == c.maps[n]
            s == m[i].cblock
            d == Unlink(c, n, i)
<1>1. /\ d \in Caches
      /\ d.used = [c.used EXCEPT ![s] = FALSE]
      /\ d.faulted = (c.faulted \/ ~c.used[s])
      /\ \A n2 \in Names : n2 # n => d.maps[n2] = c.maps[n2]
  BY UnlinkIs
<1>. HIDE DEF d, s
<1>2. \A n2 \in Names : n2 # n => d.maps[n2] = c.maps[n2]
  BY <1>1
<1>. QED BY <1>2 DEF d

LEMMA UnlinkFrees ==
    ASSUME NEW c \in Caches, NEW n \in Names, NEW i \in DOMAIN c.maps[n]
    PROVE  /\ ~Unlink(c, n, i).used[c.maps[n][i].cblock]
           /\ c.faulted => Unlink(c, n, i).faulted
           /\ ~c.used[c.maps[n][i].cblock] => Unlink(c, n, i).faulted
<1>. DEFINE s == c.maps[n][i].cblock
            d == Unlink(c, n, i)
<1>1. s \in Slots /\ c.used \in [Slots -> BOOLEAN]
  BY CacheFields, EntryType
<1>2. d.used = [c.used EXCEPT ![s] = FALSE] /\ d.faulted = (c.faulted \/ ~c.used[s])
  BY UnlinkIs
<1>. HIDE DEF d, s
<1>3. ~d.used[s] /\ (c.faulted => d.faulted) /\ (~c.used[s] => d.faulted)
  BY <1>1, <1>2
<1>. QED BY <1>3 DEF d, s

\* The entries left are those that were not unlinked, each once.
LEMMA UnlinkEntries ==
    ASSUME NEW c \in Caches, NEW n \in Names, NEW i \in DOMAIN c.maps[n]
    PROVE  /\ \A k \in DOMAIN Unlink(c, n, i).maps[n] :
                LET j == IF k < i THEN k ELSE k + 1
                IN  j \in DOMAIN c.maps[n] /\ j # i /\ Unlink(c, n, i).maps[n][k] = c.maps[n][j]
           /\ \A j \in DOMAIN c.maps[n] : j # i =>
                \E k \in DOMAIN Unlink(c, n, i).maps[n] : Unlink(c, n, i).maps[n][k] = c.maps[n][j]
<1>. DEFINE m == c.maps[n]
            r == SX!RemoveAt(m, i)
<1>1. m \in Seq(Entry) /\ Len(m) \in Nat /\ DOMAIN m = 1 .. Len(m) /\ i \in 1 .. Len(m)
  BY CacheFields, EntryType
<1>2. /\ r \in Seq(Entry)
      /\ Len(r) = Len(m) - 1
      /\ \A k \in 1 .. Len(m) - 1 : r[k] = IF k < i THEN m[k] ELSE m[k + 1]
  BY <1>1, RemoveAtProperties
<1>. HIDE DEF r, m
<1>3. DOMAIN r = 1 .. Len(m) - 1
  BY <1>2
<1>4. ASSUME NEW k \in DOMAIN r
      PROVE  LET j == IF k < i THEN k ELSE k + 1 IN j \in DOMAIN m /\ j # i /\ r[k] = m[j]
  BY <1>1, <1>2, <1>3
<1>5. ASSUME NEW j \in DOMAIN m, j # i PROVE \E k \in DOMAIN r : r[k] = m[j]
  <2>1. CASE j < i
    <3>1. j \in DOMAIN r /\ r[j] = m[j]
      BY <1>1, <1>2, <1>3, <2>1
    <3>. QED BY <3>1
  <2>2. CASE ~(j < i)
    <3>1. j - 1 \in DOMAIN r /\ ~(j - 1 < i) /\ (j - 1) + 1 = j
      BY <1>1, <1>3, <1>5, <2>2
    <3>2. r[j - 1] = m[j]
      BY <1>2, <1>3, <3>1
    <3>. QED BY <3>1, <3>2
  <2>. QED BY <2>1, <2>2
<1>6. Unlink(c, n, i).maps[n] = r
  <2>1. Unlink(c, n, i).maps[n] = SX!RemoveAt(c.maps[n], i)
    BY UnlinkIs DEF Unlink
  <2>. QED BY <2>1 DEF r, m
<1>. QED BY <1>4, <1>5, <1>6 DEF m

\* Unlinking an entry leaks no slot.
LEMMA UnlinkSafe ==
    ASSUME NEW c, Safe(c), NEW n \in Names, NEW i \in DOMAIN c.maps[n]
    PROVE  Safe(Unlink(c, n, i))
<1>. DEFINE d == Unlink(c, n, i)
            m == c.maps[n]
            s == m[i].cblock
<1>0. c \in Caches
  BY DEF Safe
<1>1. /\ d \in Caches
      /\ d.used = [c.used EXCEPT ![s] = FALSE]
      /\ d.faulted = (c.faulted \/ ~c.used[s])
      /\ \A n2 \in Names : n2 # n => d.maps[n2] = c.maps[n2]
  BY <1>0, UnlinkIs
<1>2. /\ \A k \in DOMAIN d.maps[n] :
            LET j == IF k < i THEN k ELSE k + 1
            IN  j \in DOMAIN m /\ j # i /\ d.maps[n][k] = m[j]
      /\ \A j \in DOMAIN m : j # i => \E k \in DOMAIN d.maps[n] : d.maps[n][k] = m[j]
  BY <1>0, UnlinkEntries
<1>3. /\ c.used \in [Slots -> BOOLEAN] /\ s \in Slots /\ i \in Nat
      /\ \A n2 \in Names : DOMAIN d.maps[n2] \subseteq Nat
  BY <1>0, <1>1, CacheFields, EntryType
<1>. HIDE DEF d, m, s
<1>4. Leakless(d)
  <2>1. SUFFICES ASSUME NEW t \in Slots, d.used[t] PROVE MappedIn(d, t)
    BY DEF Leakless
  <2>2. t # s /\ c.used[t]
    BY <1>1, <1>3, <2>1
  <2>3. PICK n2 \in Names : \E j \in DOMAIN c.maps[n2] : c.maps[n2][j].cblock = t
    BY <2>2 DEF Safe, Leakless, MappedIn
  <2>4. PICK j \in DOMAIN c.maps[n2] : c.maps[n2][j].cblock = t
    BY <2>3
  <2>5. CASE n2 # n
    BY <1>1, <2>4, <2>5 DEF MappedIn
  <2>6. CASE n2 = n
    <3>1. j # i /\ j \in DOMAIN m
      BY <2>2, <2>4, <2>6 DEF s, m
    <3>2. PICK k \in DOMAIN d.maps[n] : d.maps[n][k] = m[j]
      BY <1>2, <3>1
    <3>. QED BY <2>4, <2>6, <3>2 DEF MappedIn, m
  <2>. QED BY <2>5, <2>6
<1>. QED BY <1>1, <1>4 DEF Safe, d

(***************************************************************************)
(* No slot leaks, and the structures stay sound unless it was noticed.     *)
(***************************************************************************)
LEMMA UnlinkGood ==
    ASSUME NEW c, Good(c), NEW n \in Names, NEW i \in DOMAIN c.maps[n]
    PROVE  Good(Unlink(c, n, i))
<1>. DEFINE d == Unlink(c, n, i)
            m == c.maps[n]
            s == m[i].cblock
            Old(n2, k) == IF n2 = n /\ k >= i THEN k + 1 ELSE k
<1>0. c \in Caches
  BY DEF Good
<1>1. /\ d \in Caches
      /\ d.used = [c.used EXCEPT ![s] = FALSE]
      /\ d.faulted = (c.faulted \/ ~c.used[s])
      /\ \A n2 \in Names : n2 # n => d.maps[n2] = c.maps[n2]
  BY <1>0, UnlinkIs
<1>2. /\ \A k \in DOMAIN d.maps[n] :
            LET j == IF k < i THEN k ELSE k + 1
            IN  j \in DOMAIN m /\ j # i /\ d.maps[n][k] = m[j]
      /\ \A j \in DOMAIN m : j # i => \E k \in DOMAIN d.maps[n] : d.maps[n][k] = m[j]
  BY <1>0, UnlinkEntries
<1>3. /\ c.used \in [Slots -> BOOLEAN] /\ s \in Slots /\ i \in Nat
      /\ \A n2 \in Names : DOMAIN d.maps[n2] \subseteq Nat
  BY <1>0, <1>1, CacheFields, EntryType
<1>. HIDE DEF d, m, s
<1>4. Leakless(d)
  BY <1>0, UnlinkSafe DEF Good, Safe, d
<1>5. ASSUME NEW n2 \in Names, NEW k \in DOMAIN d.maps[n2]
      PROVE  /\ Old(n2, k) \in DOMAIN c.maps[n2]
             /\ n2 = n => Old(n2, k) # i
             /\ d.maps[n2][k] = c.maps[n2][Old(n2, k)]
             /\ \A j \in DOMAIN d.maps[n2] : Old(n2, k) = Old(n2, j) => k = j
  <2>0. k \in Nat /\ DOMAIN d.maps[n2] \subseteq Nat
    BY <1>3
  <2>1. CASE n2 = n
    BY <1>2, <1>3, <2>0, <2>1 DEF m
  <2>2. CASE n2 # n
    BY <1>1, <1>3, <2>0, <2>2
  <2>. QED BY <2>1, <2>2
<1>6. ASSUME ~d.faulted PROVE Sound(d)
  <2>1. ~c.faulted /\ c.used[s]
    BY <1>0, <1>1, <1>3, <1>6 DEF Caches
  <2>2. Sound(c)
    BY <2>1 DEF Good
  <2>. HIDE DEF Old
  <2>3. ASSUME NEW n2 \in Names, NEW k \in DOMAIN d.maps[n2], NEW j \in DOMAIN d.maps[n2],
               d.maps[n2][k].fblock = d.maps[n2][j].fblock
        PROVE  k = j
    <3>1. Old(n2, k) = Old(n2, j)
      BY <1>5, <2>2, <2>3 DEF Sound
    <3>. QED BY <1>5, <3>1
  <2>4. ASSUME NEW n1 \in Names, NEW n2 \in Names,
               NEW k \in DOMAIN d.maps[n1], NEW j \in DOMAIN d.maps[n2],
               d.maps[n1][k].cblock = d.maps[n2][j].cblock
        PROVE  n1 = n2 /\ k = j
    <3>1. n1 = n2 /\ Old(n1, k) = Old(n2, j)
      BY <1>5, <2>2, <2>4 DEF Sound
    <3>. QED BY <1>5, <3>1
  <2>5. ASSUME NEW t \in Slots, MappedIn(d, t) PROVE d.used[t]
    <3>1. PICK n2 \in Names : \E k \in DOMAIN d.maps[n2] : d.maps[n2][k].cblock = t
      BY <2>5 DEF MappedIn
    <3>2. PICK k \in DOMAIN d.maps[n2] : d.maps[n2][k].cblock = t
      BY <3>1
    <3>3. c.maps[n2][Old(n2, k)].cblock = t /\ Old(n2, k) \in DOMAIN c.maps[n2]
      BY <1>5, <3>2
    <3>4. c.used[t]
      BY <2>2, <3>3 DEF Sound, MappedIn
    <3>5. t # s
      <4>1. CASE n2 = n
        <5>1. Old(n2, k) # i /\ i \in DOMAIN c.maps[n]
          BY <1>5, <4>1
        <5>. QED BY <2>2, <3>3, <4>1, <5>1 DEF Sound, s, m
      <4>2. CASE n2 # n
        BY <2>2, <3>3, <4>2 DEF Sound, s, m
      <4>. QED BY <4>1, <4>2
    <3>. QED BY <1>1, <1>3, <3>4, <3>5
  <2>. QED BY <2>3, <2>4, <2>5 DEF Sound
<1>. QED BY <1>1, <1>4, <1>6 DEF Good, d

----------------------------------------------------------------------------
(* map_add *)

(***************************************************************************)
(* How map_add enters block f with slot s in the map of file n: at         *)
(* position p, behind or before (d = 0 or 1) the entries the map has, or   *)
(* in place of the one at p, which gives its slot back.                    *)
(***************************************************************************)
Entered(c, e, n, f, s, d, p) ==
    /\ e \in Caches
    /\ \A n2 \in Names : n2 # n => e.maps[n2] = c.maps[n2]
    /\ p \in DOMAIN e.maps[n]
    /\ e.maps[n][p].fblock = f
    /\ e.maps[n][p].cblock = s
    /\ \A k \in DOMAIN e.maps[n] : k # p => k - d \in DOMAIN c.maps[n] /\ e.maps[n][k] = c.maps[n][k - d]
    /\ \A j \in DOMAIN c.maps[n] : j + d # p => j + d \in DOMAIN e.maps[n]
    /\ \A k \in DOMAIN e.maps[n] : e.maps[n][k].fblock = f => p <= k
    /\ e.used[s]
    /\ \A t \in Slots : e.used[t] => t = s \/ c.used[t]
    /\ \A j \in DOMAIN c.maps[n] : j + d = p =>
          /\ e.used[c.maps[n][j].cblock] => c.maps[n][j].cblock = s
          /\ FblockAt(c.maps[n], f) # {}
          /\ SlotIn(c.maps[n], f) # s
    /\ ~e.faulted => ~c.faulted
    /\ ~e.faulted /\ (\A j \in DOMAIN c.maps[n] : j + d # p) =>
          ~c.used[s] /\ \A t \in Slots : c.used[t] => e.used[t]

\* A new entry goes to the head (d = 1) or to the tail (d = 0).
LEMMA NewEntry ==
    ASSUME NEW c \in Caches, NEW n \in Names, NEW f \in FBlocks, NEW s \in Slots,
           NEW m2 \in Seq(Entry), NEW e, NEW d \in {0, 1}, NEW p \in Nat,
           e = [StorageRemember(c, s) EXCEPT !.maps[n] = m2],
           Len(m2) = Len(c.maps[n]) + 1,
           m2[p] = [fblock |-> f, cblock |-> s],
           \A i \in 1 .. Len(c.maps[n]) : m2[i + d] = c.maps[n][i],
           \/ d = 1 /\ p = 1
           \/ d = 0 /\ p = Len(c.maps[n]) + 1 /\ FblockAt(c.maps[n], f) = {}
    PROVE  Entered(c, e, n, f, s, d, p)
<1>. DEFINE m == c.maps[n]
            u == [c.used EXCEPT ![s] = TRUE]
            b == c.faulted \/ c.used[s]
            c2 == StorageRemember(c, s)
<1>1. /\ m \in Seq(Entry) /\ Len(m) \in Nat /\ DOMAIN m = 1 .. Len(m)
      /\ DOMAIN m2 = 1 .. Len(m) + 1
      /\ c.used \in [Slots -> BOOLEAN] /\ c.maps \in [Names -> Seq(Entry)] /\ c.faulted \in BOOLEAN
  BY CacheFields, EntryType
<1>2. c2 = [maps |-> c.maps, used |-> u, faulted |-> b]
  BY StorageRememberIs
<1>3. e = [maps |-> [c.maps EXCEPT ![n] = m2], used |-> u, faulted |-> b]
  <2>1. e = [c2 EXCEPT !.maps[n] = m2]
    OBVIOUS
  <2>. HIDE DEF c2, u, b
  <2>. QED BY <1>2, <2>1, MapChanged
<1>4. e.maps[n] = m2 /\ \A n2 \in Names : n2 # n => e.maps[n2] = c.maps[n2]
  BY <1>1, <1>3
<1>5. e \in Caches
  <2>. DEFINE mm == [c.maps EXCEPT ![n] = m2]
  <2>1. mm \in [Names -> Seq(Entry)] /\ u \in [Slots -> BOOLEAN] /\ b \in BOOLEAN
    BY <1>1
  <2>2. e = [maps |-> mm, used |-> u, faulted |-> b]
    BY <1>3
  <2>3. [maps |-> mm, used |-> u, faulted |-> b] \in Caches
    <3>. HIDE DEF mm, u, b
    <3>. QED BY <2>1, CacheOf
  <2>. QED BY ONLY <2>2, <2>3
<1>6. /\ e.used[s]
      /\ \A t \in Slots : e.used[t] => t = s \/ c.used[t]
      /\ \A t \in Slots : c.used[t] => e.used[t]
      /\ ~e.faulted => ~c.faulted /\ ~c.used[s]
  <2>1. u[s] /\ \A t \in Slots : u[t] = (t = s \/ c.used[t])
    BY <1>1
  <2>2. e.used = u /\ e.faulted = b
    BY <1>3
  <2>3. ~b => ~c.faulted /\ ~c.used[s]
    OBVIOUS
  <2>. HIDE DEF u, b
  <2>. QED BY <2>1, <2>2, <2>3
<1>. HIDE DEF m
<1>7. /\ p \in DOMAIN m2
      /\ \A k \in DOMAIN m2 : k # p => k - d \in DOMAIN m /\ m2[k] = m[k - d]
      /\ \A j \in DOMAIN m : j + d \in DOMAIN m2 /\ j + d # p
  <2>1. \A i \in 1 .. Len(m) : m2[i + d] = m[i]
    BY DEF m
  <2>2. (d = 1 /\ p = 1) \/ (d = 0 /\ p = Len(m) + 1)
    BY DEF m
  <2>3. ASSUME NEW k \in DOMAIN m2, k # p PROVE k - d \in 1 .. Len(m) /\ (k - d) + d = k
    BY <1>1, <2>2, <2>3
  <2>4. p \in DOMAIN m2 /\ \A j \in DOMAIN m : j + d \in DOMAIN m2 /\ j + d # p
    BY <1>1, <2>2
  <2>5. ASSUME NEW k \in DOMAIN m2, k # p PROVE m2[k] = m[k - d]
    <3>1. m2[(k - d) + d] = m[k - d]
      BY <2>1, <2>3, <2>5
    <3>. QED BY <2>3, <2>5, <3>1
  <2>. QED BY <1>1, <2>3, <2>4, <2>5
<1>8. \A k \in DOMAIN m2 : m2[k].fblock = f => p <= k
  <2>1. CASE p = 1
    BY <1>1, <2>1
  <2>2. CASE FblockAt(m, f) = {}
    BY <1>1, <1>7, <2>2 DEF FblockAt
  <2>. QED BY <2>1, <2>2 DEF m
<1>9. m2[p].fblock = f /\ m2[p].cblock = s
  OBVIOUS
<1>. QED BY <1>4, <1>5, <1>6, <1>7, <1>8, <1>9 DEF Entered, m

\* The first entry for the block is given another slot.
LEMMA NewSlot ==
    ASSUME NEW c \in Caches, NEW n \in Names, NEW f \in FBlocks, NEW s \in Slots, NEW e,
           FblockAt(c.maps[n], f) # {}, SlotIn(c.maps[n], f) # s,
           e = [StorageRemember(StorageForget(c, SlotIn(c.maps[n], f)), s)
                  EXCEPT !.maps[n] = [c.maps[n] EXCEPT ![First(FblockAt(c.maps[n], f))]
                                                         = [fblock |-> f, cblock |-> s]]]
    PROVE  Entered(c, e, n, f, s, 0, First(FblockAt(c.maps[n], f)))
<1>. DEFINE m == c.maps[n]
            p == First(FblockAt(m, f))
            o == SlotIn(m, f)
            new == [fblock |-> f, cblock |-> s]
            m2 == [m EXCEPT ![p] = new]
            c1 == StorageForget(c, o)
            c2 == StorageRemember(c1, s)
            u == [[c.used EXCEPT ![o] = FALSE] EXCEPT ![s] = TRUE]
<1>1. /\ m \in Seq(Entry) /\ Len(m) \in Nat /\ DOMAIN m = 1 .. Len(m)
      /\ c.used \in [Slots -> BOOLEAN] /\ c.maps \in [Names -> Seq(Entry)] /\ c.faulted \in BOOLEAN
  BY CacheFields, EntryType
<1>2. p \in DOMAIN m /\ m[p].fblock = f /\ \A i \in DOMAIN m : m[i].fblock = f => p <= i
  BY <1>1, FirstFblock
<1>3. o = m[p].cblock
  BY DEF SlotIn
<1>4. o \in Slots
  BY <1>1, <1>2, <1>3, EntryType
<1>5. m2 \in Seq(Entry) /\ DOMAIN m2 = DOMAIN m /\ m2[p] = new
      /\ \A k \in DOMAIN m : k # p => m2[k] = m[k]
  <2>1. new \in Entry
    BY DEF Entry
  <2>. HIDE DEF new, p, m
  <2>. QED BY <1>1, <1>2, <2>1
<1>6. c1 = [maps |-> c.maps, used |-> [c.used EXCEPT ![o] = FALSE], faulted |-> c.faulted \/ ~c.used[o]]
      /\ c1 \in Caches
  <2>. HIDE DEF o
  <2>. QED BY <1>4, StorageForgetIs
<1>. DEFINE b == c.faulted \/ ~c.used[o] \/ c1.used[s]
<1>7. c2 = [maps |-> c.maps, used |-> u, faulted |-> b]
  <2>. HIDE DEF c1, o
  <2>1. c2 = [maps |-> c1.maps, used |-> [c1.used EXCEPT ![s] = TRUE], faulted |-> c1.faulted \/ c1.used[s]]
    BY <1>6, StorageRememberIs
  <2>. HIDE DEF c2
  <2>. QED BY <1>6, <2>1
<1>8. e = [maps |-> [c.maps EXCEPT ![n] = m2], used |-> u, faulted |-> b]
  <2>1. e = [c2 EXCEPT !.maps[n] = m2]
    OBVIOUS
  <2>. HIDE DEF c2, u, b, m2
  <2>. QED BY <1>7, <2>1, MapChanged
<1>. HIDE DEF m2, o, c1, c2
<1>9. e.maps[n] = m2 /\ \A n2 \in Names : n2 # n => e.maps[n2] = c.maps[n2]
  BY <1>1, <1>8
<1>10. e \in Caches
  <2>. DEFINE mm == [c.maps EXCEPT ![n] = m2]
  <2>1. mm \in [Names -> Seq(Entry)] /\ u \in [Slots -> BOOLEAN] /\ b \in BOOLEAN
    BY <1>1, <1>5
  <2>2. e = [maps |-> mm, used |-> u, faulted |-> b]
    BY <1>8
  <2>3. [maps |-> mm, used |-> u, faulted |-> b] \in Caches
    <3>. HIDE DEF mm, u, b
    <3>. QED BY <2>1, CacheOf
  <2>. QED BY ONLY <2>2, <2>3
<1>11. /\ e.used[s]
       /\ \A t \in Slots : e.used[t] => t = s \/ c.used[t]
       /\ e.used[o] => o = s
       /\ ~e.faulted => ~c.faulted
  <2>1. u[s] /\ \A t \in Slots : u[t] => t = s \/ (c.used[t] /\ t # o)
    BY <1>1, <1>4
  <2>2. e.used = u /\ e.faulted = b
    <3>. HIDE DEF u, b
    <3>. QED BY <1>8
  <2>3. ~b => ~c.faulted
    OBVIOUS
  <2>. HIDE DEF u, b
  <2>. QED BY <1>4, <2>1, <2>2, <2>3
<1>12. o # s
  BY DEF o
<1>13. m2[p].fblock = f /\ m2[p].cblock = s
  BY <1>5
<1>14. /\ \A k \in DOMAIN m2 : k # p => k - 0 \in DOMAIN m /\ m2[k] = m[k - 0]
       /\ \A j \in DOMAIN m : j + 0 \in DOMAIN m2
       /\ \A k \in DOMAIN m2 : m2[k].fblock = f => p <= k
       /\ \A j \in DOMAIN m : j + 0 = p => m[j].cblock = o
       /\ p + 0 = p /\ p \in DOMAIN m2
  <2>. HIDE DEF p, m
  <2>1. \A k \in DOMAIN m : k - 0 = k /\ k + 0 = k
    BY <1>1
  <2>2. \A k \in DOMAIN m2 : m2[k].fblock = f => p <= k
    <3>1. p <= p
      BY <1>1, <1>2
    <3>. QED BY <1>2, <1>5, <3>1
  <2>. QED BY <1>2, <1>3, <1>5, <2>1, <2>2
<1>. HIDE DEF p, m
<1>15. Entered(c, e, n, f, s, 0, p)
  BY <1>9, <1>10, <1>11, <1>12, <1>13, <1>14, <1>2 DEF Entered, m, o
<1>. QED BY <1>15 DEF p, m


\* map_add either finds the block with the slot it has, or enters it.
LEMMA MapAddCases ==
    ASSUME NEW c \in Caches, NEW n \in Names, NEW f \in FBlocks, NEW s \in Slots
    PROVE  \/ /\ SlotIn(c.maps[n], f) = s
              /\ MapAdd(c, n, f, s) = [maps |-> c.maps, used |-> c.used,
                                       faulted |-> c.faulted \/ ~c.used[s]]
           \/ \E d \in {0, 1}, p \in Nat : Entered(c, MapAdd(c, n, f, s), n, f, s, d, p)
<1>. DEFINE m == c.maps[n]
            at == FblockAt(m, f)
            new == [fblock |-> f, cblock |-> s]
            e == MapAdd(c, n, f, s)
<1>1. /\ m \in Seq(Entry) /\ Len(m) \in Nat /\ DOMAIN m = 1 .. Len(m)
      /\ c.used \in [Slots -> BOOLEAN] /\ c.faulted \in BOOLEAN
  BY CacheFields, EntryType
<1>2. new \in Entry
  BY DEF Entry
<1>3. CASE m = << >> \/ f < m[1].fblock
  <2>. DEFINE m2 == <<new>> \o m
  <2>1. e = [StorageRemember(c, s) EXCEPT !.maps[n] = m2]
    BY <1>3 DEF MapAdd
  <2>2. m2 \in Seq(Entry) /\ Len(m2) = Len(m) + 1 /\ m2[1] = new /\ \A i \in 1 .. Len(m) : m2[i + 1] = m[i]
    BY <1>1, <1>2, PrependProperties
  <2>. HIDE DEF e, m2
  <2>3. Entered(c, e, n, f, s, 1, 1)
    BY <2>1, <2>2, NewEntry
  <2>. QED BY <2>3 DEF e
<1>4. CASE ~(m = << >> \/ f < m[1].fblock) /\ at = {}
  <2>. DEFINE m2 == Append(m, new)
              p == Len(m) + 1
  <2>1. e = [StorageRemember(c, s) EXCEPT !.maps[n] = m2]
    BY <1>4 DEF MapAdd
  <2>2. m2 \in Seq(Entry) /\ Len(m2) = Len(m) + 1 /\ m2[p] = new /\ \A i \in 1 .. Len(m) : m2[i + 0] = m[i]
    BY <1>1, <1>2, AppendProperties
  <2>3. p \in Nat
    BY <1>1
  <2>4. Entered(c, e, n, f, s, 0, p)
    <3>. HIDE DEF e, m2
    <3>. QED BY <1>4, <2>1, <2>2, <2>3, NewEntry
  <2>. QED BY <2>3, <2>4
<1>5. CASE ~(m = << >> \/ f < m[1].fblock) /\ at # {}
  <2>1. SlotIn(m, f) = m[First(at)].cblock
    BY <1>5 DEF SlotIn
  <2>2. CASE SlotIn(m, f) = s
    <3>1. e = [c EXCEPT !.faulted = @ \/ ~c.used[s]]
      BY <1>5, <2>1, <2>2 DEF MapAdd
    <3>2. (~c.used[s]) \in BOOLEAN
      BY <1>1
    <3>3. c = [maps |-> c.maps, used |-> c.used, faulted |-> c.faulted]
      BY CacheParts
    <3>. DEFINE w == ~c.used[s]
    <3>4. [c EXCEPT !.faulted = @ \/ w] = [maps |-> c.maps, used |-> c.used, faulted |-> c.faulted \/ w]
      <4>1. w \in BOOLEAN
        BY <3>2
      <4>. HIDE DEF w
      <4>. QED BY <1>1, <3>3, <4>1, FaultChanged
    <3>. QED BY <2>2, <3>1, <3>4
  <2>3. CASE SlotIn(m, f) # s
    <3>. DEFINE p == First(at)
    <3>1. e = [StorageRemember(StorageForget(c, SlotIn(m, f)), s) EXCEPT !.maps[n] = [m EXCEPT ![p] = new]]
      BY <1>5, <2>1, <2>3 DEF MapAdd
    <3>2. Entered(c, e, n, f, s, 0, p)
      <4>. HIDE DEF e
      <4>. QED BY <1>5, <2>3, <3>1, NewSlot
    <3>3. p \in Nat
      BY <1>1, <1>5, FirstFblock
    <3>. QED BY <3>2, <3>3
  <2>. QED BY <2>2, <2>3
<1>. QED BY <1>3, <1>4, <1>5

\* What is entered is what a reader finds.
LEMMA EnteredReads ==
    ASSUME NEW c \in Caches, NEW e, NEW n \in Names, NEW f \in FBlocks, NEW s \in Slots,
           NEW d \in {0, 1}, NEW p \in Nat, Entered(c, e, n, f, s, d, p)
    PROVE  SlotIn(e.maps[n], f) = s
<1>. DEFINE m == e.maps[n]
            at == FblockAt(m, f)
<1>1. /\ e \in Caches /\ p \in DOMAIN m /\ m[p].fblock = f /\ m[p].cblock = s
      /\ \A k \in DOMAIN m : m[k].fblock = f => p <= k
  BY DEF Entered
<1>2. m \in Seq(Entry)
  BY <1>1, CacheFields
<1>3. at # {}
  BY <1>1 DEF FblockAt
<1>4. First(at) \in DOMAIN m /\ m[First(at)].fblock = f /\ First(at) <= p
  <2>. HIDE DEF m
  <2>. QED BY <1>1, <1>2, <1>3, FirstFblock
<1>5. DOMAIN m \subseteq Nat
  BY <1>2, EntryType
<1>6. First(at) = p
  BY <1>1, <1>4, <1>5
<1>. QED BY <1>1, <1>3, <1>6 DEF SlotIn

(***************************************************************************)
(* An entry for a block that had none leaves the structures sound; an      *)
(* entry that takes the place of another never leaks the slot of that one. *)
(***************************************************************************)
LEMMA EnteredGood ==
    ASSUME NEW c, Good(c), NEW e, NEW n \in Names, NEW f \in FBlocks, NEW s \in Slots,
           NEW d \in {0, 1}, NEW p \in Nat, Entered(c, e, n, f, s, d, p),
           FblockAt(c.maps[n], f) = {} \/ SlotIn(c.maps[n], f) = s \/ c.faulted
    PROVE  Good(e)
<1>. DEFINE m == c.maps[n]
            m2 == e.maps[n]
            Old(n2, k) == IF n2 = n THEN k - d ELSE k
            New(n2, k) == n2 = n /\ k = p
<1>1. /\ c \in Caches /\ e \in Caches
      /\ \A n2 \in Names : n2 # n => e.maps[n2] = c.maps[n2]
      /\ p \in DOMAIN m2
      /\ m2[p].fblock = f
      /\ m2[p].cblock = s
      /\ \A k \in DOMAIN m2 : k # p => k - d \in DOMAIN m /\ m2[k] = m[k - d]
      /\ \A j \in DOMAIN m : j + d # p => j + d \in DOMAIN m2
      /\ e.used[s]
      /\ \A t \in Slots : e.used[t] => t = s \/ c.used[t]
      /\ ~e.faulted => ~c.faulted
  BY DEF Entered, Good
<1>2. \A j \in DOMAIN m : j + d = p =>
          /\ e.used[m[j].cblock] => m[j].cblock = s
          /\ FblockAt(m, f) # {}
          /\ SlotIn(m, f) # s
  BY DEF Entered
<1>3. ~e.faulted /\ (\A j \in DOMAIN m : j + d # p) =>
          ~c.used[s] /\ \A t \in Slots : c.used[t] => e.used[t]
  BY DEF Entered
<1>4. \A n2 \in Names : DOMAIN e.maps[n2] \subseteq Nat /\ DOMAIN c.maps[n2] \subseteq Nat
  BY <1>1, CacheFields, EntryType
<1>. HIDE DEF m, m2
<1>5. Leakless(e)
  <2>1. SUFFICES ASSUME NEW t \in Slots, e.used[t] PROVE MappedIn(e, t)
    BY DEF Leakless
  <2>2. CASE t = s
    BY <1>1, <2>2 DEF MappedIn, m2
  <2>3. CASE t # s
    <3>1. PICK n2 \in Names : \E j \in DOMAIN c.maps[n2] : c.maps[n2][j].cblock = t
      BY <1>1, <2>1, <2>3 DEF Good, Leakless, MappedIn
    <3>2. PICK j \in DOMAIN c.maps[n2] : c.maps[n2][j].cblock = t
      BY <3>1
    <3>3. CASE n2 # n
      BY <1>1, <3>2, <3>3 DEF MappedIn
    <3>4. CASE n2 = n
      <4>1. j \in DOMAIN m /\ m[j].cblock = t /\ j \in Nat
        BY <1>4, <3>2, <3>4 DEF m
      <4>2. j + d # p
        BY <1>2, <2>1, <2>3, <4>1
      <4>3. j + d \in DOMAIN m2 /\ (j + d) - d = j
        BY <1>1, <4>1, <4>2
      <4>4. m2[j + d] = m[j]
        BY <1>1, <4>2, <4>3
      <4>. QED BY <4>1, <4>3, <4>4 DEF MappedIn, m2
    <3>. QED BY <3>3, <3>4
  <2>. QED BY <2>2, <2>3
<1>6. ASSUME NEW n2 \in Names, NEW k \in DOMAIN e.maps[n2], ~New(n2, k)
      PROVE  /\ Old(n2, k) \in DOMAIN c.maps[n2]
             /\ e.maps[n2][k] = c.maps[n2][Old(n2, k)]
             /\ \A j \in DOMAIN e.maps[n2] : Old(n2, k) = Old(n2, j) => k = j
  <2>0. k \in Nat /\ DOMAIN e.maps[n2] \subseteq Nat
    BY <1>4
  <2>1. CASE n2 = n
    <3>1. k # p
      BY <1>6, <2>1
    <3>2. k - d \in DOMAIN m /\ m2[k] = m[k - d]
      BY <1>1, <2>1, <3>1 DEF m2
    <3>3. \A j \in Nat : k - d = j - d => k = j
      BY <2>0
    <3>. QED BY <2>0, <2>1, <3>2, <3>3 DEF m, m2
  <2>2. CASE n2 # n
    BY <1>1, <2>0, <2>2
  <2>. QED BY <2>1, <2>2
<1>7. ASSUME ~e.faulted PROVE Sound(e)
  <2>1. Sound(c) /\ ~c.faulted
    BY <1>1, <1>7 DEF Good
  <2>2. \A j \in DOMAIN m : j + d # p
    BY <1>2, <2>1 DEF m
  <2>3. ~c.used[s] /\ \A t \in Slots : c.used[t] => e.used[t]
    BY <1>3, <1>7, <2>2
  <2>4. \A n2 \in Names : \A j \in DOMAIN c.maps[n2] : c.maps[n2][j].cblock # s
    BY <2>1, <2>3 DEF Sound, MappedIn
  <2>5. \A j \in DOMAIN c.maps[n] : c.maps[n][j].fblock # f
    <3>1. SlotIn(c.maps[n], f) # s
      <4>1. ASSUME SlotIn(c.maps[n], f) = s PROVE FALSE
        <5>1. s # -1
          BY SlotNames
        <5>2. c.maps[n] \in Seq(Entry)
          BY <1>1, CacheFields
        <5>. QED BY <2>4, <4>1, <5>1, <5>2, SlotInMap
      <4>. QED BY <4>1
    <3>2. FblockAt(c.maps[n], f) = {}
      BY <2>1, <3>1
    <3>. QED BY <3>2 DEF FblockAt
  <2>. HIDE DEF Old
  <2>6. ASSUME NEW n2 \in Names, NEW k \in DOMAIN e.maps[n2], NEW j \in DOMAIN e.maps[n2],
               e.maps[n2][k].fblock = e.maps[n2][j].fblock
        PROVE  k = j
    <3>1. CASE New(n2, k) \/ New(n2, j)
      BY <1>1, <1>6, <2>5, <2>6, <3>1 DEF m2
    <3>2. CASE ~New(n2, k) /\ ~New(n2, j)
      <4>1. Old(n2, k) = Old(n2, j)
        BY <1>6, <2>1, <2>6, <3>2 DEF Sound
      <4>. QED BY <1>6, <3>2, <4>1
    <3>. QED BY <3>1, <3>2
  <2>7. ASSUME NEW n1 \in Names, NEW n2 \in Names,
               NEW k \in DOMAIN e.maps[n1], NEW j \in DOMAIN e.maps[n2],
               e.maps[n1][k].cblock = e.maps[n2][j].cblock
        PROVE  n1 = n2 /\ k = j
    <3>1. CASE New(n1, k) /\ New(n2, j)
      BY <3>1
    <3>2. CASE New(n1, k) /\ ~New(n2, j)
      BY <1>1, <1>6, <2>4, <2>7, <3>2 DEF m2
    <3>3. CASE ~New(n1, k) /\ New(n2, j)
      BY <1>1, <1>6, <2>4, <2>7, <3>3 DEF m2
    <3>4. CASE ~New(n1, k) /\ ~New(n2, j)
      <4>1. n1 = n2 /\ Old(n1, k) = Old(n2, j)
        BY <1>6, <2>1, <2>7, <3>4 DEF Sound
      <4>. QED BY <1>6, <3>4, <4>1
    <3>. QED BY <3>1, <3>2, <3>3, <3>4
  <2>8. ASSUME NEW t \in Slots, MappedIn(e, t) PROVE e.used[t]
    <3>1. PICK n2 \in Names : \E k \in DOMAIN e.maps[n2] : e.maps[n2][k].cblock = t
      BY <2>8 DEF MappedIn
    <3>2. PICK k \in DOMAIN e.maps[n2] : e.maps[n2][k].cblock = t
      BY <3>1
    <3>3. CASE New(n2, k)
      BY <1>1, <3>2, <3>3 DEF m2
    <3>4. CASE ~New(n2, k)
      BY <1>6, <2>1, <2>3, <3>2, <3>4 DEF Sound, MappedIn
    <3>. QED BY <3>3, <3>4
  <2>. QED BY <2>6, <2>7, <2>8 DEF Sound
<1>. QED BY <1>1, <1>5, <1>7 DEF Good

\* map_add keeps what was good, and the block is found with its slot.
LEMMA MapAddGood ==
    ASSUME NEW c, Good(c), NEW n \in Names, NEW f \in FBlocks, NEW s \in Slots,
           FblockAt(c.maps[n], f) = {} \/ SlotIn(c.maps[n], f) = s \/ c.faulted
    PROVE  /\ Good(MapAdd(c, n, f, s))
           /\ SlotIn(MapAdd(c, n, f, s).maps[n], f) = s
<1>. DEFINE e == MapAdd(c, n, f, s)
<1>0. c \in Caches
  BY DEF Good
<1>1. CASE /\ SlotIn(c.maps[n], f) = s
           /\ e = [maps |-> c.maps, used |-> c.used, faulted |-> c.faulted \/ ~c.used[s]]
  <2>1. e.maps = c.maps /\ e.used = c.used /\ (~e.faulted => ~c.faulted)
    <3>. HIDE DEF e
    <3>. QED BY <1>1
  <2>2. e \in Caches
    <3>1. c.maps \in [Names -> Seq(Entry)] /\ c.used \in [Slots -> BOOLEAN]
          /\ (c.faulted \/ ~c.used[s]) \in BOOLEAN
      BY <1>0, CacheFields
    <3>2. [maps |-> c.maps, used |-> c.used, faulted |-> c.faulted \/ ~c.used[s]] \in Caches
      BY <3>1, CacheOf
    <3>. QED BY <1>1, <3>2
  <2>. HIDE DEF e
  <2>3. Leakless(e)
    BY <2>1 DEF Good, Leakless, MappedIn
  <2>4. ~e.faulted => Sound(e)
    BY <2>1 DEF Good, Sound, MappedIn
  <2>. QED BY <1>1, <2>1, <2>2, <2>3, <2>4 DEF Good, e
<1>2. CASE \E d \in {0, 1}, p \in Nat : Entered(c, e, n, f, s, d, p)
  <2>1. PICK d \in {0, 1}, p \in Nat : Entered(c, e, n, f, s, d, p)
    BY <1>2
  <2>. HIDE DEF e
  <2>2. Good(e) /\ SlotIn(e.maps[n], f) = s
    BY <1>0, <2>1, EnteredGood, EnteredReads
  <2>. QED BY <2>2 DEF e
<1>. QED BY <1>0, <1>1, <1>2, MapAddCases

----------------------------------------------------------------------------
(* The functions that take entries out. *)

\* map_forget_fblock unlinks no entry, one, or the head and one more.
LEMMA ForgetFblockCases ==
    ASSUME NEW c \in Caches, NEW n \in Names, NEW f \in FBlocks
    PROVE  \/ MapForgetFblock(c, n, f) = c
           \/ \E i \in DOMAIN c.maps[n] : MapForgetFblock(c, n, f) = Unlink(c, n, i)
           \/ /\ 1 \in DOMAIN c.maps[n]
              /\ \E i \in DOMAIN Unlink(c, n, 1).maps[n] :
                    MapForgetFblock(c, n, f) = Unlink(Unlink(c, n, 1), n, i)
<1>. DEFINE head == 1 \in FblockAt(c.maps[n], f)
            c1 == IF head THEN Unlink(c, n, 1) ELSE c
            later == FblockAt(c1.maps[n], f) \ {1}
<1>1. head => 1 \in DOMAIN c.maps[n]
  BY DEF FblockAt
<1>2. c1 \in Caches
  <2>1. CASE head
    <3>1. Unlink(c, n, 1) \in Caches
      BY <1>1, <2>1, UnlinkIs
    <3>. QED BY <2>1, <3>1
  <2>2. CASE ~head
    BY <2>2
  <2>. QED BY <2>1, <2>2
<1>3. MapForgetFblock(c, n, f) = IF later = {} THEN c1 ELSE Unlink(c1, n, First(later))
  BY DEF MapForgetFblock
<1>4. ASSUME later # {} PROVE First(later) \in DOMAIN c1.maps[n]
  <2>1. c1.maps[n] \in Seq(Entry)
    BY <1>2, CacheFields
  <2>2. later \in SUBSET Nat /\ later \subseteq DOMAIN c1.maps[n]
    BY <2>1, EntryType DEF FblockAt
  <2>. HIDE DEF later
  <2>. QED BY <1>4, <2>2, LeastExists
<1>5. c1 = IF head THEN Unlink(c, n, 1) ELSE c
  OBVIOUS
<1>. HIDE DEF later, c1, head
<1>. QED BY <1>1, <1>3, <1>4, <1>5

LEMMA MapForgetFblockGood ==
    ASSUME NEW c, NEW n \in Names, NEW f \in FBlocks
    PROVE  /\ Safe(c) => Safe(MapForgetFblock(c, n, f))
           /\ Good(c) => Good(MapForgetFblock(c, n, f))
<1>1. ASSUME Safe(c) PROVE Safe(MapForgetFblock(c, n, f))
  <2>1. c \in Caches
    BY <1>1 DEF Safe
  <2>. QED BY <1>1, <2>1, ForgetFblockCases, UnlinkSafe
<1>2. ASSUME Good(c) PROVE Good(MapForgetFblock(c, n, f))
  <2>1. c \in Caches
    BY <1>2 DEF Good
  <2>. QED BY <1>2, <2>1, ForgetFblockCases, UnlinkGood
<1>. QED BY <1>1, <1>2

\* map_forget_cblock, of the first file in the list that has the slot.
LEMMA EvictCases ==
    ASSUME NEW c \in Caches, c.maps = maps, clist \in Seq(Names), NEW s \in Slots
    PROVE  \/ HolderOf(s) = {} /\ Evict(c, s) = c
           \/ /\ HolderOf(s) # {}
              /\ \E n \in Names : \E i \in DOMAIN c.maps[n] :
                    c.maps[n][i].cblock = s /\ Evict(c, s) = Unlink(c, n, i)
<1>1. CASE HolderOf(s) = {}
  BY <1>1 DEF Evict
<1>2. CASE HolderOf(s) # {}
  <2>. DEFINE h == First(HolderOf(s))
              n == clist[h]
              at == CblockAt(c.maps[n], s)
  <2>1. HolderOf(s) \in SUBSET Nat
    BY ListBasics DEF HolderOf
  <2>2. h \in HolderOf(s)
    BY <1>2, <2>1, LeastExists
  <2>3. h \in DOMAIN clist /\ at # {}
    BY <2>2 DEF HolderOf
  <2>4. n \in Names
    BY <2>3, ListBasics
  <2>5. c.maps[n] \in Seq(Entry)
    BY <2>4, CacheFields
  <2>6. First(at) \in DOMAIN c.maps[n] /\ c.maps[n][First(at)].cblock = s
    BY <2>3, <2>5, FirstCblock
  <2>7. Evict(c, s) = Unlink(c, n, First(at))
    BY <1>2, <2>3 DEF Evict, MapForgetCblock
  <2>. QED BY <1>2, <2>4, <2>6, <2>7
<1>. QED BY <1>1, <1>2

LEMMA EvictGood ==
    ASSUME NEW c, Good(c), c.maps = maps, clist \in Seq(Names), NEW s \in Slots
    PROVE  /\ Good(Evict(c, s))
           /\ HolderOf(s) # {} => ~Evict(c, s).used[s]
<1>0. c \in Caches
  BY DEF Good
<1>1. CASE HolderOf(s) = {}
  BY <1>0, <1>1, EvictCases
<1>2. CASE HolderOf(s) # {}
  <2>1. PICK n \in Names : \E i \in DOMAIN c.maps[n] :
                    c.maps[n][i].cblock = s /\ Evict(c, s) = Unlink(c, n, i)
    BY <1>0, <1>2, EvictCases
  <2>2. PICK i \in DOMAIN c.maps[n] : c.maps[n][i].cblock = s /\ Evict(c, s) = Unlink(c, n, i)
    BY <2>1
  <2>3. Good(Unlink(c, n, i))
    BY UnlinkGood
  <2>4. ~Unlink(c, n, i).used[s]
    BY <1>0, <2>2, UnlinkFrees
  <2>. QED BY <2>2, <2>3, <2>4
<1>. QED BY <1>1, <1>2

\* Giving a slot back by itself leaks none; whether it was in use is noticed.
LEMMA StorageForgetSafe ==
    ASSUME NEW c, Safe(c), NEW s \in Slots
    PROVE  /\ Safe(StorageForget(c, s))
           /\ StorageForget(c, s).maps = c.maps
           /\ ~StorageForget(c, s).used[s]
           /\ c.faulted => StorageForget(c, s).faulted
           /\ ~c.used[s] => StorageForget(c, s).faulted
<1>. DEFINE d == StorageForget(c, s)
<1>1. c \in Caches
  BY DEF Safe
<1>2. /\ d = [maps |-> c.maps, used |-> [c.used EXCEPT ![s] = FALSE], faulted |-> c.faulted \/ ~c.used[s]]
      /\ d \in Caches
  BY <1>1, StorageForgetIs
<1>3. c.used \in [Slots -> BOOLEAN]
  BY <1>1, CacheFields
<1>4. d.maps = c.maps /\ d.used = [c.used EXCEPT ![s] = FALSE] /\ d.faulted = (c.faulted \/ ~c.used[s])
  <2>. HIDE DEF d
  <2>. QED BY <1>2
<1>. HIDE DEF d
<1>5. Leakless(d)
  BY <1>3, <1>4 DEF Safe, Leakless, MappedIn
<1>. QED BY <1>2, <1>3, <1>4, <1>5 DEF Safe, d

\* The slot of an old copy is given back twice, which is noticed.
LEMMA DropOldCopyGood ==
    ASSUME NEW c, Good(c), NEW n \in Names, NEW f \in FBlocks
    PROVE  /\ Good(DropOldCopy(c, n, f))
           /\ \/ DropOldCopy(c, n, f).faulted
              \/ DropOldCopy(c, n, f) = c /\ FblockAt(c.maps[n], f) = {}
<1>. DEFINE at == FblockAt(c.maps[n], f)
<1>0. c \in Caches /\ Safe(c) /\ c.maps[n] \in Seq(Entry)
  <2>1. c \in Caches /\ Safe(c)
    BY DEF Good, Safe
  <2>. QED BY <2>1, CacheFields
<1>1. CASE at = {}
  BY <1>1 DEF DropOldCopy
<1>2. CASE at # {}
  <2>. DEFINE i == First(at)
              s == c.maps[n][i].cblock
              c1 == StorageForget(c, s)
              d == MapForgetFblock(c1, n, f)
  <2>1. i \in DOMAIN c.maps[n] /\ s \in Slots /\ i \in at
    <3>1. i \in DOMAIN c.maps[n] /\ c.maps[n][i].fblock = f
      BY <1>0, <1>2, FirstFblock
    <3>. QED BY <1>0, <3>1, EntryType DEF FblockAt
  <2>2. DropOldCopy(c, n, f) = d
    BY <1>2 DEF DropOldCopy
  <2>3. Safe(c1) /\ c1.maps = c.maps /\ ~c1.used[s] /\ c1 \in Caches
    <3>. HIDE DEF s
    <3>1. Safe(c1) /\ c1.maps = c.maps /\ ~c1.used[s]
      BY <1>0, <2>1, StorageForgetSafe
    <3>. QED BY <3>1 DEF Safe
  <2>4. Safe(d)
    <3>. HIDE DEF c1
    <3>. QED BY <2>3, MapForgetFblockGood
  <2>. HIDE DEF c1, s
  <2>5. i \in DOMAIN c1.maps[n] /\ c1.maps[n][i].cblock = s
    BY <2>1, <2>3 DEF s
  <2>6. Unlink(c1, n, i).faulted
    BY <2>3, <2>5, UnlinkFrees
  <2>7. d.faulted
    <3>. DEFINE c2 == IF 1 \in at THEN Unlink(c1, n, 1) ELSE c1
                later == FblockAt(c2.maps[n], f) \ {1}
    <3>1. d = IF later = {} THEN c2 ELSE Unlink(c2, n, First(later))
      BY <2>3 DEF MapForgetFblock
    <3>2. CASE 1 \in at
      <4>1. i = 1
        <5>1. at \in SUBSET Nat /\ 1 \in DOMAIN c.maps[n]
          BY <1>0, <3>2, EntryType DEF FblockAt
        <5>2. i <= 1
          BY <3>2, <5>1, LeastExists
        <5>3. i \in 1 .. Len(c.maps[n]) /\ Len(c.maps[n]) \in Nat
          BY <1>0, <2>1, EntryType
        <5>. QED BY <5>2, <5>3
      <4>2. c2.faulted /\ c2 \in Caches
        <5>1. c2 = Unlink(c1, n, i)
          BY <3>2, <4>1
        <5>2. Unlink(c1, n, i) \in Caches
          BY <2>3, <2>5, UnlinkIs
        <5>. HIDE DEF c2, i
        <5>. QED BY <2>6, <5>1, <5>2
      <4>. HIDE DEF c2, d
      <4>3. CASE later = {}
        BY <3>1, <4>2, <4>3
      <4>4. CASE later # {}
        <5>1. c2.maps[n] \in Seq(Entry)
          BY <4>2, CacheFields
        <5>2. later \in SUBSET Nat /\ later \subseteq DOMAIN c2.maps[n]
          BY <5>1, EntryType DEF FblockAt
        <5>3. First(later) \in DOMAIN c2.maps[n]
          <6>. HIDE DEF later
          <6>. QED BY <4>4, <5>2, LeastExists
        <5>4. Unlink(c2, n, First(later)).faulted
          BY <4>2, <5>3, UnlinkFrees
        <5>. HIDE DEF later
        <5>. QED BY <3>1, <4>2, <4>4, <5>4
      <4>. QED BY <4>3, <4>4
    <3>3. CASE 1 \notin at
      <4>1. later = at
        BY <2>3, <3>3
      <4>2. d = Unlink(c1, n, i)
        BY <1>2, <3>1, <3>3, <4>1
      <4>. HIDE DEF d
      <4>. QED BY <2>6, <4>2
    <3>. QED BY <3>2, <3>3
  <2>. HIDE DEF d
  <2>. QED BY <2>2, <2>4, <2>7 DEF Good, Safe
<1>. QED BY <1>1, <1>2

\* map_clear gives back the slots of one file.
LEMMA MapClearGood ==
    ASSUME NEW c, Good(c), NEW n \in Names
    PROVE  Good(MapClear(c, n))
<1>. DEFINE d == MapClear(c, n)
            m == c.maps[n]
            given == {m[i].cblock : i \in DOMAIN m}
            b == \/ c.faulted
                 \/ \E s \in given : ~c.used[s]
                 \/ \E i, j \in DOMAIN m : i # j /\ m[i].cblock = m[j].cblock
            mm == [c.maps EXCEPT ![n] = << >>]
            u == [s \in Slots |-> c.used[s] /\ s \notin given]
<1>1. c \in Caches /\ c.maps \in [Names -> Seq(Entry)] /\ c.used \in [Slots -> BOOLEAN] /\ c.faulted \in BOOLEAN
  <2>1. c \in Caches
    BY DEF Good
  <2>. QED BY <2>1, CacheFields
<1>2. d = [maps |-> mm, used |-> u, faulted |-> b]
  BY DEF MapClear
<1>3. mm \in [Names -> Seq(Entry)] /\ u \in [Slots -> BOOLEAN] /\ b \in BOOLEAN
  <2>1. << >> \in Seq(Entry)
    BY EmptySeq
  <2>2. b \in BOOLEAN
    BY <1>1
  <2>. QED BY <1>1, <2>1, <2>2
<1>4. mm[n] = << >> /\ \A n2 \in Names : n2 # n => mm[n2] = c.maps[n2]
  BY <1>1
<1>5. \A s \in Slots : u[s] <=> c.used[s] /\ \A i \in DOMAIN c.maps[n] : c.maps[n][i].cblock # s
  OBVIOUS
<1>6. ~b => ~c.faulted
  OBVIOUS
<1>. HIDE DEF d, mm, u, b, given, m
<1>7. d \in Caches /\ d.maps = mm /\ d.used = u /\ d.faulted = b
  BY <1>2, <1>3, CacheOf
<1>8. Leakless(d)
  <2>1. SUFFICES ASSUME NEW t \in Slots, u[t] PROVE \E n2 \in Names : \E i \in DOMAIN mm[n2] : mm[n2][i].cblock = t
    BY <1>7 DEF Leakless, MappedIn
  <2>2. PICK n2 \in Names : \E i \in DOMAIN c.maps[n2] : c.maps[n2][i].cblock = t
    BY <1>5, <2>1 DEF Good, Leakless, MappedIn
  <2>3. n2 # n
    BY <1>5, <2>1, <2>2
  <2>. QED BY <1>4, <2>2, <2>3
<1>9. ASSUME ~d.faulted PROVE Sound(d)
  <2>1. Sound(c)
    BY <1>6, <1>7, <1>9 DEF Good
  <2>2. \A n2 \in Names : \A i \in DOMAIN mm[n2] : n2 # n /\ i \in DOMAIN c.maps[n2] /\ mm[n2][i] = c.maps[n2][i]
    BY <1>4
  <2>3. ASSUME NEW t \in Slots, MappedIn(d, t) PROVE d.used[t]
    <3>1. PICK n2 \in Names : \E i \in DOMAIN mm[n2] : mm[n2][i].cblock = t
      BY <1>7, <2>3 DEF MappedIn
    <3>2. n2 # n /\ \E i \in DOMAIN c.maps[n2] : c.maps[n2][i].cblock = t
      BY <2>2, <3>1
    <3>3. c.used[t] /\ \A i \in DOMAIN c.maps[n] : c.maps[n][i].cblock # t
      BY <2>1, <3>2 DEF Sound, MappedIn
    <3>. QED BY <1>5, <1>7, <3>3
  <2>. QED BY <1>7, <2>1, <2>2, <2>3 DEF Sound
<1>. QED BY <1>7, <1>8, <1>9 DEF Good, d

----------------------------------------------------------------------------
(* Any calls in any order. *)

ApiInv == TypeOK /\ alive /\ Good(Cache)

LEMMA CacheIs ==
    ASSUME TypeOK
    PROVE  Cache \in Caches /\ Cache.maps = maps /\ Cache.used = used /\ Cache.faulted = faulted
BY CacheOf DEF TypeOK, Cache

LEMMA ApiInitInv == Init => ApiInv
<1>. SUFFICES ASSUME Init PROVE ApiInv
  OBVIOUS
<1>1. TypeOK
  <2>1. << >> \in Seq(Names) /\ << >> \in Seq(Entry)
    BY EmptySeq
  <2>2. Failed \in Reply
    BY DEF Reply, Failed
  <2>. QED BY <2>1, <2>2 DEF TypeOK, Init
<1>2. /\ Cache \in Caches /\ Cache.maps = maps /\ Cache.used = used /\ Cache.faulted = faulted
  BY <1>1, CacheIs
<1>. HIDE DEF Cache
<1>3. Leakless(Cache) /\ Sound(Cache)
  BY <1>2 DEF Init, Leakless, Sound, MappedIn
<1>. QED BY <1>1, <1>2, <1>3 DEF ApiInv, Good, Init

\* What a call leaves behind, from the triple it installs.
LEMMA Installed ==
    ASSUME NEW c, Good(c), Install(c)
    PROVE  /\ maps' \in [Names -> Seq(Entry)] /\ used' \in [Slots -> BOOLEAN] /\ faulted' \in BOOLEAN
           /\ Good(Cache')
<1>1. c \in Caches
  BY DEF Good
<1>2. maps' = c.maps /\ used' = c.used /\ faulted' = c.faulted
  BY DEF Install
<1>3. Cache' = [maps |-> maps', used |-> used', faulted |-> faulted']
  BY DEF Cache
<1>4. c = [maps |-> c.maps, used |-> c.used, faulted |-> c.faulted]
  BY <1>1, CacheParts
<1>5. Cache' = c
  BY <1>2, <1>3, <1>4
<1>. QED BY <1>1, <1>2, <1>5, CacheFields

LEMMA Listing ==
    ASSUME clist \in Seq(Names), NEW n \in Names
    PROVE  /\ ContentAdd(n) => clist' \in Seq(Names)
           /\ n \in Listed =>
                SX!RemoveAt(clist, First({i \in DOMAIN clist : clist[i] = n})) \in Seq(Names)
<1>1. ContentAdd(n) => clist' \in Seq(Names)
  BY AppendProperties DEF ContentAdd
<1>2. ASSUME n \in Listed
      PROVE  SX!RemoveAt(clist, First({i \in DOMAIN clist : clist[i] = n})) \in Seq(Names)
  <2>. DEFINE at == {i \in DOMAIN clist : clist[i] = n}
  <2>1. at # {}
    BY <1>2 DEF Listed
  <2>2. at \in SUBSET Nat
    BY ListBasics
  <2>3. First(at) \in at
    <3>. HIDE DEF at
    <3>. QED BY <2>1, <2>2, LeastExists
  <2>4. First(at) \in 1 .. Len(clist)
    BY <2>3, ListBasics
  <2>. HIDE DEF at
  <2>5. SX!RemoveAt(clist, First(at)) \in Seq(Names)
    BY <2>4, RemoveAtProperties
  <2>. QED BY <2>5 DEF at
<1>. QED BY <1>1, <1>2

\* The slot that remember_fblock takes is the block's own or a free one.
LEMMA SlotForBlock ==
    ASSUME TypeOK, NEW n \in Names, NEW f \in FBlocks, SlotFor(n, f) # -1
    PROVE  /\ SlotFor(n, f) \in Slots
           /\ FblockAt(maps[n], f) = {} \/ SlotIn(maps[n], f) = SlotFor(n, f)
<1>1. maps[n] \in Seq(Entry) /\ ReadSlot(n, f) = SlotIn(maps[n], f)
  BY DEF TypeOK, ReadSlot, SlotIn
<1>2. CASE ReadSlot(n, f) = -1
  <2>1. FblockAt(maps[n], f) = {}
    <3>1. \A i \in DOMAIN maps[n] : maps[n][i].fblock # f
      BY <1>1, <1>2, SlotInMap
    <3>. QED BY <3>1 DEF FblockAt
  <2>2. SlotFor(n, f) = NextCblock /\ NextCblock # -1
    BY <1>2 DEF SlotFor
  <2>3. NextCblock \in Slots
    <3>. DEFINE free == {t \in Slots : ~used[t]}
    <3>1. free # {} /\ NextCblock = First(free)
      BY <2>2 DEF NextCblock
    <3>2. free \in SUBSET Nat /\ free \subseteq Slots
      BY NumBlocksAssumption DEF Slots
    <3>. HIDE DEF free
    <3>. QED BY <3>1, <3>2, LeastExists
  <2>. QED BY <2>1, <2>2, <2>3
<1>3. CASE ReadSlot(n, f) # -1
  <2>1. SlotIn(maps[n], f) \in Slots
    BY <1>1, <1>3, SlotInMap
  <2>. QED BY <1>1, <1>3, <2>1 DEF SlotFor
<1>. QED BY <1>2, <1>3

\* The triple that remember_fblock_at_cblock extends by the new entry.
Cleared(n, f, s) == DropOldCopy(Evict(Cache, s), n, f)

LEMMA ClearedGood ==
    ASSUME ApiInv, NEW n \in Names, NEW f \in FBlocks, NEW s \in Slots
    PROVE  /\ Good(Cleared(n, f, s))
           /\ FblockAt(Cleared(n, f, s).maps[n], f) = {} \/ Cleared(n, f, s).faulted
           /\ Cleared(n, f, s).faulted \/ Cleared(n, f, s) = Evict(Cache, s)
<1>1. Good(Cache) /\ Cache.maps = maps /\ clist \in Seq(Names)
  BY CacheIs DEF ApiInv, TypeOK
<1>. DEFINE c1 == Evict(Cache, s)
<1>2. Good(c1)
  <2>. HIDE DEF Cache
  <2>. QED BY <1>1, EvictGood
<1>. HIDE DEF c1
<1>3. /\ Good(DropOldCopy(c1, n, f))
      /\ \/ DropOldCopy(c1, n, f).faulted
         \/ DropOldCopy(c1, n, f) = c1 /\ FblockAt(c1.maps[n], f) = {}
  <2>1. \A c : Good(c) =>
           /\ Good(DropOldCopy(c, n, f))
           /\ \/ DropOldCopy(c, n, f).faulted
              \/ DropOldCopy(c, n, f) = c /\ FblockAt(c.maps[n], f) = {}
    BY DropOldCopyGood
  <2>. QED BY <1>2, <2>1
<1>. QED BY <1>3 DEF Cleared, c1

\* The new entry is made, and is the one that a reader of the block finds.
LEMMA RememberStep ==
    ASSUME ApiInv, NEW c, Good(c), NEW n \in Names, NEW f \in FBlocks, NEW s \in Slots,
           FblockAt(c.maps[n], f) = {} \/ SlotIn(c.maps[n], f) = s \/ c.faulted,
           NEW p \in Payloads,
           ContentAdd(n), data' = [data EXCEPT ![s] = p], Install(MapAdd(c, n, f, s)),
           reply' = Done, alive' = alive
    PROVE  ApiInv' /\ ReadSlot(n, f)' = s
<1>. DEFINE e == MapAdd(c, n, f, s)
<1>1. Good(e) /\ SlotIn(e.maps[n], f) = s
  BY MapAddGood
<1>2. Install(e)
  OBVIOUS
<1>. HIDE DEF e
<1>3. /\ maps' \in [Names -> Seq(Entry)] /\ used' \in [Slots -> BOOLEAN] /\ faulted' \in BOOLEAN
      /\ Good(Cache')
      /\ maps' = e.maps
  BY <1>1, <1>2, Installed DEF Install
<1>4. clist' \in Seq(Names) /\ data' \in [Slots -> Payloads \cup {Blank}] /\ reply' \in Reply /\ alive' \in BOOLEAN
      /\ alive'
  BY Listing DEF ApiInv, TypeOK, Reply, Done
<1>5. ReadSlot(n, f)' = s
  BY <1>1, <1>3 DEF ReadSlot, SlotIn
<1>. QED BY <1>3, <1>4, <1>5 DEF ApiInv, TypeOK

LEMMA CacheSame == UNCHANGED <<maps, used, faulted>> => Cache' = Cache
  BY DEF Cache

\* A call that leaves the structures alone.
LEMMA ApiReply ==
    ASSUME ApiInv, UNCHANGED <<clist, maps, used, data, faulted, alive>>, reply' \in Reply
    PROVE  ApiInv'
BY CacheSame DEF ApiInv, TypeOK

LEMMA ApiNextInv == ApiInv /\ [ApiNext]_vars => ApiInv'
<1>. SUFFICES ASSUME ApiInv, [ApiNext]_vars PROVE ApiInv'
  OBVIOUS
<1>0. /\ Done \in Reply /\ Failed \in Reply /\ TypeOK /\ Good(Cache)
      /\ Cache.maps = maps /\ clist \in Seq(Names) /\ alive
  BY CacheIs DEF Done, Failed, Reply, ApiInv, TypeOK
<1>1. CASE UNCHANGED vars
  BY <1>1, ApiReply DEF vars, ApiInv, TypeOK
<1>2. ASSUME NEW n \in Names, NEW f \in FBlocks, NEW p \in Payloads,
             SlotFor(n, f) # -1, RememberFblock(n, f, p)
      PROVE  ApiInv'
  <2>. DEFINE s == SlotFor(n, f)
  <2>1. s \in Slots /\ (FblockAt(maps[n], f) = {} \/ SlotIn(maps[n], f) = s)
    BY <1>0, <1>2, SlotForBlock
  <2>2. ContentAdd(n) /\ data' = [data EXCEPT ![s] = p] /\ Install(MapAdd(Cache, n, f, s))
        /\ reply' = Done /\ alive' = alive
    BY <1>2 DEF RememberFblock
  <2>. HIDE DEF s, Cache
  <2>. QED BY <1>0, <2>1, <2>2, RememberStep
<1>3. ASSUME NEW n \in Names, NEW f \in FBlocks, NEW s \in Slots, NEW p \in Payloads,
             RememberFblockAtCblock(n, f, s, p)
      PROVE  ApiInv'
  <2>. DEFINE c == Cleared(n, f, s)
  <2>1. Good(c) /\ (FblockAt(c.maps[n], f) = {} \/ c.faulted)
    BY ClearedGood
  <2>2. ContentAdd(n) /\ data' = [data EXCEPT ![s] = p] /\ Install(MapAdd(c, n, f, s))
        /\ reply' = Done /\ alive' = alive
    BY <1>3 DEF RememberFblockAtCblock, Cleared
  <2>. HIDE DEF c
  <2>. QED BY <2>1, <2>2, RememberStep
<1>4. ASSUME NEW n \in Names, NEW f \in FBlocks, n \in Listed, GetFblock(n, f)
      PROVE  ApiInv'
  <2>1. UNCHANGED <<clist, maps, used, data, faulted, alive>>
    BY <1>4 DEF GetFblock
  <2>2. reply' \in Reply
    <3>1. Content(n, f) = NoBlock \/ Content(n, f) \in Payloads \cup {Blank}
      <4>1. maps[n] \in Seq(Entry) /\ ReadSlot(n, f) = SlotIn(maps[n], f)
        BY <1>0 DEF TypeOK, ReadSlot, SlotIn
      <4>2. ReadSlot(n, f) = -1 \/ ReadSlot(n, f) \in Slots
        BY <4>1, SlotInMap
      <4>. QED BY <1>0, <4>2 DEF Content, TypeOK
    <3>2. CASE Content(n, f) = NoBlock
      BY <1>0, <1>4, <3>2 DEF GetFblock
    <3>3. CASE Content(n, f) # NoBlock
      <4>1. reply' = Block(Content(n, f)) /\ Content(n, f) \in Payloads \cup {Blank}
        BY <1>4, <3>1, <3>3 DEF GetFblock
      <4>. QED BY <4>1 DEF Block, Reply
    <3>. QED BY <3>2, <3>3
  <2>. QED BY <2>1, <2>2, ApiReply
<1>5. ASSUME NEW n \in Names, NEW f \in FBlocks, ForgetFblock(n, f)
      PROVE  ApiInv'
  <2>1. CASE n \in Listed /\ FblockAt(maps[n], f) # {}
    <3>. DEFINE c == MapForgetFblock(Cache, n, f)
    <3>1. Good(c)
      <4>. HIDE DEF Cache
      <4>. QED BY <1>0, MapForgetFblockGood
    <3>2. Install(c) /\ reply' = Done /\ UNCHANGED <<clist, data, alive>>
      BY <1>5, <2>1 DEF ForgetFblock
    <3>. HIDE DEF c
    <3>. QED BY <1>0, <3>1, <3>2, Installed DEF ApiInv, TypeOK
  <2>2. CASE ~(n \in Listed /\ FblockAt(maps[n], f) # {})
    BY <1>0, <1>5, <2>2, ApiReply DEF ForgetFblock, cacheVars
  <2>. QED BY <2>1, <2>2
<1>6. ASSUME NEW n \in Names, ForgetFile(n)
      PROVE  ApiInv'
  <2>1. CASE n \in Listed
    <3>. DEFINE c == MapClear(Cache, n)
    <3>1. Good(c)
      <4>. HIDE DEF Cache
      <4>. QED BY <1>0, MapClearGood
    <3>2. Install(c) /\ reply' = Done /\ UNCHANGED <<data, alive>>
      BY <1>6, <2>1 DEF ForgetFile
    <3>3. clist' \in Seq(Names)
      BY <1>0, <1>6, <2>1, Listing DEF ForgetFile
    <3>. HIDE DEF c
    <3>. QED BY <1>0, <3>1, <3>2, <3>3, Installed DEF ApiInv, TypeOK
  <2>2. CASE n \notin Listed
    BY <1>0, <1>6, <2>2, ApiReply DEF ForgetFile
  <2>. QED BY <2>1, <2>2
<1>7. ASSUME NEW s \in Slots, ForgetCblock(s)
      PROVE  ApiInv'
  <2>1. CASE HolderOf(s) # {}
    <3>. DEFINE c1 == Evict(Cache, s)
                c == StorageForget(c1, s)
    <3>1. Good(c1) /\ ~c1.used[s]
      <4>. HIDE DEF Cache
      <4>. QED BY <1>0, <2>1, EvictGood
    <3>2. Install(c) /\ reply' = Done /\ UNCHANGED <<clist, data, alive>>
      BY <1>7, <2>1 DEF ForgetCblock
    <3>. HIDE DEF c1
    <3>3. Good(c)
      <4>1. Safe(c) /\ c.faulted
        BY <3>1, StorageForgetSafe DEF Good, Safe
      <4>. HIDE DEF c
      <4>. QED BY <4>1 DEF Good, Safe
    <3>. HIDE DEF c
    <3>. QED BY <1>0, <3>2, <3>3, Installed DEF ApiInv, TypeOK
  <2>2. CASE HolderOf(s) = {}
    BY <1>0, <1>7, <2>2, ApiReply DEF ForgetCblock, cacheVars
  <2>. QED BY <2>1, <2>2
<1>. QED BY <1>1, <1>2, <1>3, <1>4, <1>5, <1>6, <1>7 DEF ApiNext, BlockCall, SlotCall

\* ApiInv holds of every sequence of calls, also after ASSERTs have failed.
THEOREM ApiInvariant == ApiSpec => []ApiInv
<1>. QED BY ApiInitInv, ApiNextInv, PTL DEF ApiSpec

LEMMA ApiInvSafe == ApiInv => NoSlotLeaked /\ FaultsAreNoticed
<1>. SUFFICES ASSUME ApiInv PROVE NoSlotLeaked /\ FaultsAreNoticed
  OBVIOUS
<1>1. Good(Cache) /\ Cache.maps = maps /\ Cache.used = used /\ Cache.faulted = faulted
  BY CacheIs DEF ApiInv
<1>2. \A s \in Slots : SlotMapped(s) <=> MappedIn(Cache, s)
  BY <1>1 DEF SlotMapped, MappedIn, CblockAt
<1>. HIDE DEF Cache
<1>3. NoSlotLeaked
  BY <1>1, <1>2 DEF NoSlotLeaked, Good, Leakless
<1>4. FaultsAreNoticed
  BY <1>1, <1>2 DEF FaultsAreNoticed, OneSlotPerBlock, OneBlockPerSlot, Good, Sound
<1>. QED BY <1>3, <1>4

(***************************************************************************)
(* Whatever the functions of storage.h are called with and in whatever     *)
(* order, a slot in use is named by a map, so that it can be freed.        *)
(***************************************************************************)
THEOREM NoLeak == ApiSpec => []NoSlotLeaked
<1>. QED BY ApiInvariant, ApiInvSafe, PTL

(***************************************************************************)
(* As long as no ASSERT of storage.c has failed, the maps and the flags    *)
(* agree and no block has two slots, no slot two blocks.                   *)
(***************************************************************************)
THEOREM FaultsNoticed == ApiSpec => []FaultsAreNoticed
<1>. QED BY ApiInvariant, ApiInvSafe, PTL

----------------------------------------------------------------------------
(* What a call changes for the readers of other blocks. *)

Holds(c, n, f, s) == \E i \in DOMAIN c.maps[n] : c.maps[n][i].fblock = f /\ c.maps[n][i].cblock = s

\* In a sound cache a reader finds the slot that the map holds for the block.
LEMMA SoundReads ==
    ASSUME NEW c \in Caches, Sound(c), NEW n \in Names, NEW f, NEW s \in Slots
    PROVE  SlotIn(c.maps[n], f) = s <=> Holds(c, n, f, s)
<1>. DEFINE m == c.maps[n]
<1>1. m \in Seq(Entry) /\ s # -1
  BY CacheFields, SlotNames
<1>2. ASSUME SlotIn(m, f) = s PROVE Holds(c, n, f, s)
  BY <1>1, <1>2, SlotInMap DEF Holds
<1>3. ASSUME Holds(c, n, f, s) PROVE SlotIn(m, f) = s
  <2>1. PICK i \in DOMAIN m : m[i].fblock = f /\ m[i].cblock = s
    BY <1>3 DEF Holds
  <2>2. \A j \in DOMAIN m : m[j].fblock = m[i].fblock => i = j
    BY DEF Sound
  <2>3. SlotIn(m, m[i].fblock) = m[i].cblock
    <3>. HIDE DEF m
    <3>. QED BY <1>1, <2>2, SlotOfEntry
  <2>. QED BY <2>1, <2>3
<1>. QED BY <1>2, <1>3

LEMMA SameReads ==
    ASSUME NEW c \in Caches, Sound(c), NEW d \in Caches, Sound(d), NEW n \in Names, NEW f,
           \A s \in Slots : Holds(d, n, f, s) <=> Holds(c, n, f, s)
    PROVE  SlotIn(d.maps[n], f) = SlotIn(c.maps[n], f)
<1>1. c.maps[n] \in Seq(Entry) /\ d.maps[n] \in Seq(Entry)
  BY CacheFields
<1>2. /\ SlotIn(c.maps[n], f) # -1 => SlotIn(c.maps[n], f) \in Slots
      /\ SlotIn(d.maps[n], f) # -1 => SlotIn(d.maps[n], f) \in Slots
  BY <1>1, SlotInMap
<1>3. \A s \in Slots : SlotIn(d.maps[n], f) = s <=> SlotIn(c.maps[n], f) = s
  BY SoundReads
<1>. QED BY <1>2, <1>3

LEMMA OneHolder ==
    ASSUME NEW c \in Caches, Sound(c), NEW n1 \in Names, NEW f1, NEW n2 \in Names, NEW f2, NEW s,
           Holds(c, n1, f1, s), Holds(c, n2, f2, s)
    PROVE  n1 = n2 /\ f1 = f2
<1>1. PICK i \in DOMAIN c.maps[n1] : c.maps[n1][i].fblock = f1 /\ c.maps[n1][i].cblock = s
  BY DEF Holds
<1>2. PICK j \in DOMAIN c.maps[n2] : c.maps[n2][j].fblock = f2 /\ c.maps[n2][j].cblock = s
  BY DEF Holds
<1>3. n1 = n2 /\ i = j
  BY <1>1, <1>2 DEF Sound
<1>. QED BY <1>1, <1>2, <1>3

\* Unlinking takes one block away and leaves the others their slots.
LEMMA UnlinkHolds ==
    ASSUME NEW c \in Caches, Sound(c), NEW n \in Names, NEW i \in DOMAIN c.maps[n],
           NEW n2 \in Names, NEW f2, NEW t
    PROVE  /\ n2 # n \/ f2 # c.maps[n][i].fblock =>
                (Holds(Unlink(c, n, i), n2, f2, t) <=> Holds(c, n2, f2, t))
           /\ ~Holds(Unlink(c, n, i), n2, f2, c.maps[n][i].cblock)
<1>. DEFINE d == Unlink(c, n, i)
            m == c.maps[n]
<1>1. \A n3 \in Names : n3 # n => d.maps[n3] = c.maps[n3]
  <2>1. \A n3 \in Names : n3 # n => Unlink(c, n, i).maps[n3] = c.maps[n3]
    BY UnlinkOthers
  <2>. QED BY <2>1
<1>2. /\ \A k \in DOMAIN d.maps[n] :
            LET j == IF k < i THEN k ELSE k + 1
            IN  j \in DOMAIN m /\ j # i /\ d.maps[n][k] = m[j]
      /\ \A j \in DOMAIN m : j # i => \E k \in DOMAIN d.maps[n] : d.maps[n][k] = m[j]
  BY UnlinkEntries
<1>3. \A k \in DOMAIN d.maps[n] : \E j \in DOMAIN m : j # i /\ d.maps[n][k] = m[j]
  BY <1>2
<1>4. \A j \in DOMAIN m : m[j].fblock = m[i].fblock => j = i
  BY DEF Sound
<1>5. \A n3 \in Names : \A j \in DOMAIN c.maps[n3] : c.maps[n3][j].cblock = m[i].cblock => n3 = n /\ j = i
  BY DEF Sound
<1>. HIDE DEF d
<1>6. ASSUME n2 # n \/ f2 # m[i].fblock PROVE Holds(d, n2, f2, t) <=> Holds(c, n2, f2, t)
  <2>1. CASE n2 # n
    BY <1>1, <2>1 DEF Holds
  <2>2. CASE n2 = n
    <3>1. Holds(d, n, f2, t) => Holds(c, n, f2, t)
      BY <1>3 DEF Holds
    <3>2. ASSUME Holds(c, n, f2, t) PROVE Holds(d, n, f2, t)
      <4>1. PICK j \in DOMAIN m : m[j].fblock = f2 /\ m[j].cblock = t
        BY <3>2 DEF Holds
      <4>2. PICK k \in DOMAIN d.maps[n] : d.maps[n][k] = m[j]
        BY <1>2, <1>6, <2>2, <4>1
      <4>. QED BY <4>1, <4>2 DEF Holds
    <3>. QED BY <2>2, <3>1, <3>2
  <2>. QED BY <2>1, <2>2
<1>7. ~Holds(d, n2, f2, m[i].cblock)
  <2>1. CASE n2 # n
    BY <1>1, <1>5, <2>1 DEF Holds
  <2>2. CASE n2 = n
    BY <1>3, <1>5, <2>2 DEF Holds
  <2>. QED BY <2>1, <2>2
<1>. QED BY <1>6, <1>7 DEF d

(***************************************************************************)
(* map_add, when no ASSERT fails: the other blocks keep their slots, and   *)
(* none of them has the slot of the block.                                 *)
(***************************************************************************)
LEMMA MapAddHolds ==
    ASSUME NEW c, Good(c), NEW n \in Names, NEW f \in FBlocks, NEW s \in Slots,
           FblockAt(c.maps[n], f) = {} \/ SlotIn(c.maps[n], f) = s \/ c.faulted,
           ~MapAdd(c, n, f, s).faulted
    PROVE  /\ c \in Caches /\ ~c.faulted /\ Sound(c)
           /\ Good(MapAdd(c, n, f, s)) /\ Sound(MapAdd(c, n, f, s))
           /\ \A n2 \in Names, f2 \in FBlocks : n2 # n \/ f2 # f =>
                 /\ SlotIn(MapAdd(c, n, f, s).maps[n2], f2) = SlotIn(c.maps[n2], f2)
                 /\ ~Holds(c, n2, f2, s)
<1>. DEFINE e == MapAdd(c, n, f, s)
<1>0. c \in Caches /\ Good(e) /\ e \in Caches /\ Sound(e) /\ ~e.faulted
  <2>1. c \in Caches /\ Good(e)
    BY MapAddGood DEF Good
  <2>. HIDE DEF e
  <2>2. ~e.faulted
    BY DEF e
  <2>. QED BY <2>1, <2>2 DEF Good
<1>1. CASE /\ SlotIn(c.maps[n], f) = s
           /\ e = [maps |-> c.maps, used |-> c.used, faulted |-> c.faulted \/ ~c.used[s]]
  <2>. HIDE DEF e
  <2>1. e.maps = c.maps /\ ~c.faulted
    BY <1>0, <1>1
  <2>2. Sound(c)
    BY <2>1 DEF Good
  <2>3. Holds(c, n, f, s)
    BY <1>0, <1>1, <2>2, SoundReads
  <2>4. \A n2 \in Names, f2 \in FBlocks : n2 # n \/ f2 # f => ~Holds(c, n2, f2, s)
    BY <1>0, <2>2, <2>3, OneHolder
  <2>. QED BY <1>0, <2>1, <2>2, <2>4 DEF e
<1>2. CASE \E d \in {0, 1}, p \in Nat : Entered(c, e, n, f, s, d, p)
  <2>1. PICK d \in {0, 1}, p \in Nat : Entered(c, e, n, f, s, d, p)
    BY <1>2
  <2>. DEFINE m == c.maps[n]
              m2 == e.maps[n]
  <2>2. /\ \A n3 \in Names : n3 # n => e.maps[n3] = c.maps[n3]
        /\ p \in DOMAIN m2
        /\ m2[p].fblock = f
        /\ \A k \in DOMAIN m2 : k # p => k - d \in DOMAIN m /\ m2[k] = m[k - d]
        /\ \A j \in DOMAIN m : j + d # p => j + d \in DOMAIN m2
        /\ ~c.faulted
    <3>. HIDE DEF e
    <3>. QED BY <1>0, <2>1 DEF Entered
  <2>3. \A j \in DOMAIN m : j + d = p => FblockAt(m, f) # {} /\ SlotIn(m, f) # s
    <3>. HIDE DEF e
    <3>. QED BY <2>1 DEF Entered
  <2>4. \A j \in DOMAIN m : j + d # p
    BY <2>2, <2>3
  <2>5. ~c.used[s]
    <3>. HIDE DEF e
    <3>. QED BY <1>0, <2>1, <2>4 DEF Entered
  <2>6. Sound(c)
    BY <2>2 DEF Good
  <2>7. DOMAIN m \subseteq Nat
    BY <1>0, CacheFields, EntryType
  <2>. HIDE DEF e, m, m2
  <2>8. \A n3 \in Names : \A f2 : ~Holds(c, n3, f2, s)
    BY <2>5, <2>6 DEF Sound, MappedIn, Holds
  <2>9. ASSUME NEW n3 \in Names, NEW f2 \in FBlocks, n3 # n \/ f2 # f
        PROVE  SlotIn(e.maps[n3], f2) = SlotIn(c.maps[n3], f2)
    <3>1. ASSUME NEW t \in Slots, Holds(e, n3, f2, t) PROVE Holds(c, n3, f2, t)
      <4>1. CASE n3 # n
        BY <2>2, <3>1, <4>1 DEF Holds
      <4>2. CASE n3 = n
        <5>1. PICK k \in DOMAIN m2 : m2[k].fblock = f2 /\ m2[k].cblock = t
          BY <3>1, <4>2 DEF Holds, m2
        <5>2. k - d \in DOMAIN m /\ m2[k] = m[k - d]
          BY <2>2, <2>9, <4>2, <5>1
        <5>. QED BY <4>2, <5>1, <5>2 DEF Holds, m
      <4>. QED BY <4>1, <4>2
    <3>2. ASSUME NEW t \in Slots, Holds(c, n3, f2, t) PROVE Holds(e, n3, f2, t)
      <4>1. CASE n3 # n
        BY <2>2, <3>2, <4>1 DEF Holds
      <4>2. CASE n3 = n
        <5>1. PICK j \in DOMAIN m : m[j].fblock = f2 /\ m[j].cblock = t
          BY <3>2, <4>2 DEF Holds, m
        <5>2. j + d \in DOMAIN m2 /\ j + d # p /\ (j + d) - d = j
          BY <2>2, <2>4, <2>7
        <5>3. m2[j + d] = m[j]
          BY <2>2, <5>2
        <5>. QED BY <4>2, <5>1, <5>2, <5>3 DEF Holds, m2
      <4>. QED BY <4>1, <4>2
    <3>. QED BY <1>0, <2>6, <3>1, <3>2, SameReads
  <2>. QED BY <1>0, <2>2, <2>6, <2>8, <2>9 DEF e
<1>. QED BY <1>0, <1>1, <1>2, MapAddCases

LEMMA WrittenStep == ApiInv /\ [ApiNext]_vars => [Written]_vars
<1>. SUFFICES ASSUME ApiInv, ApiNext, NEW n \in Names, NEW f \in FBlocks, NEW p \in Payloads,
                     Stores(n, f, p)
              PROVE  /\ Content(n, f)' = p
                     /\ \A s \in Slots \ {ReadSlot(n, f)'} : data'[s] = data[s]
  BY DEF Written
<1>0. /\ TypeOK /\ Good(Cache) /\ Cache.maps = maps /\ alive'
  BY CacheIs, ApiNextInv DEF ApiInv, TypeOK
<1>1. ASSUME NEW s \in Slots, data' = [data EXCEPT ![s] = p], ReadSlot(n, f)' = s
      PROVE  /\ Content(n, f)' = p
             /\ \A t \in Slots \ {ReadSlot(n, f)'} : data'[t] = data[t]
  <2>1. Content(n, f)' = IF ReadSlot(n, f)' = -1 THEN NoBlock ELSE data'[ReadSlot(n, f)']
    BY DEF Content
  <2>2. s # -1
    BY DEF Slots
  <2>3. data'[s] = p /\ \A t \in Slots \ {s} : data'[t] = data[t]
    BY <1>0, <1>1 DEF TypeOK
  <2>. QED BY <1>1, <2>1, <2>2, <2>3
<1>2. ASSUME RememberFblock(n, f, p)
      PROVE  \E s \in Slots : data' = [data EXCEPT ![s] = p] /\ ReadSlot(n, f)' = s
  <2>. DEFINE s == SlotFor(n, f)
  <2>0. s # -1
    BY <1>0, <1>2 DEF RememberFblock, Crash
  <2>1. s \in Slots /\ (FblockAt(maps[n], f) = {} \/ SlotIn(maps[n], f) = s)
    BY <1>0, <2>0, SlotForBlock
  <2>2. ContentAdd(n) /\ data' = [data EXCEPT ![s] = p] /\ Install(MapAdd(Cache, n, f, s))
        /\ reply' = Done /\ alive' = alive
    BY <1>2, <2>0 DEF RememberFblock
  <2>. HIDE DEF s, Cache
  <2>3. ReadSlot(n, f)' = s
    BY <1>0, <2>1, <2>2, RememberStep
  <2>. QED BY <2>1, <2>2, <2>3
<1>3. ASSUME NEW s \in Slots, RememberFblockAtCblock(n, f, s, p)
      PROVE  data' = [data EXCEPT ![s] = p] /\ ReadSlot(n, f)' = s
  <2>. DEFINE c == Cleared(n, f, s)
  <2>1. Good(c) /\ (FblockAt(c.maps[n], f) = {} \/ c.faulted)
    BY ClearedGood
  <2>2. ContentAdd(n) /\ data' = [data EXCEPT ![s] = p] /\ Install(MapAdd(c, n, f, s))
        /\ reply' = Done /\ alive' = alive
    BY <1>3 DEF RememberFblockAtCblock, Cleared
  <2>. HIDE DEF c
  <2>3. ReadSlot(n, f)' = s
    BY <2>1, <2>2, RememberStep
  <2>. QED BY <2>2, <2>3
<1>. QED BY <1>1, <1>2, <1>3 DEF Stores

(***************************************************************************)
(* Read your write, for any number of slots, files and blocks and in a     *)
(* damaged cache too: get_fblock returns of a block what the call just     *)
(* made stored as that block, and no other slot was overwritten.           *)
(***************************************************************************)
THEOREM WritesAreRead == ApiSpec => WrittenIsRead
<1>. QED BY ApiInvariant, WrittenStep, PTL DEF ApiSpec, WrittenIsRead

\* A block keeps its content if it keeps its slot and the slot is not written.
LEMMA SameContent ==
    ASSUME NEW n, NEW f, SlotIn(maps'[n], f) = SlotIn(maps[n], f),
           SlotIn(maps[n], f) = -1 \/ data'[SlotIn(maps[n], f)] = data[SlotIn(maps[n], f)]
    PROVE  Content(n, f)' = Content(n, f)
<1>1. ReadSlot(n, f) = SlotIn(maps[n], f) /\ ReadSlot(n, f)' = SlotIn(maps'[n], f)
  BY DEF ReadSlot, SlotIn
<1>2. Content(n, f)' = IF ReadSlot(n, f)' = -1 THEN NoBlock ELSE data'[ReadSlot(n, f)']
  BY DEF Content
<1>. QED BY <1>1, <1>2 DEF Content

\* All but one block keep their content, or lose it with the slot of that one.
LEMMA OneChanged ==
    ASSUME NEW n \in Names, NEW f \in FBlocks,
           \A n2 \in Names, f2 \in FBlocks : n2 # n \/ f2 # f =>
              \/ Content(n2, f2)' = Content(n2, f2)
              \/ Content(n2, f2)' = NoBlock /\ ReadSlot(n2, f2) = ReadSlot(n, f)'
    PROVE  Undisturbed
<1>1. <<n, f>> \in Names \X FBlocks
  OBVIOUS
<1>2. ASSUME NEW j \in Changed \ {<<n, f>>}
      PROVE  Content(j[1], j[2])' = NoBlock /\ ReadSlot(j[1], j[2]) = ReadSlot(n, f)'
  <2>1. j[1] \in Names /\ j[2] \in FBlocks /\ (j[1] # n \/ j[2] # f)
        /\ Content(j[1], j[2])' # Content(j[1], j[2])
    BY <1>2 DEF Changed
  <2>. QED BY <2>1
<1>. QED BY <1>1, <1>2 DEF Undisturbed

(***************************************************************************)
(* A block is stored, from a triple in which the other blocks have their   *)
(* slots, but for one that may have lost slot s.                           *)
(***************************************************************************)
LEMMA StoredUndisturbed ==
    ASSUME ApiInv, NEW c, Good(c), NEW n \in Names, NEW f \in FBlocks, NEW s \in Slots,
           FblockAt(c.maps[n], f) = {} \/ SlotIn(c.maps[n], f) = s \/ c.faulted,
           NEW p \in Payloads,
           data' = [data EXCEPT ![s] = p], Install(MapAdd(c, n, f, s)), ReadSlot(n, f)' = s,
           ~c.faulted => \A n2 \in Names, f2 \in FBlocks :
              \/ SlotIn(c.maps[n2], f2) = SlotIn(maps[n2], f2)
              \/ SlotIn(c.maps[n2], f2) = -1 /\ SlotIn(maps[n2], f2) = s
    PROVE  Undisturbed
<1>1. CASE faulted'
  BY <1>1 DEF Undisturbed
<1>2. CASE ~faulted'
  <2>. DEFINE e == MapAdd(c, n, f, s)
  <2>1. ~e.faulted /\ maps' = e.maps
    BY <1>2 DEF Install
  <2>2. /\ c \in Caches /\ ~c.faulted /\ Sound(c)
        /\ \A n2 \in Names, f2 \in FBlocks : n2 # n \/ f2 # f =>
                 /\ SlotIn(e.maps[n2], f2) = SlotIn(c.maps[n2], f2)
                 /\ ~Holds(c, n2, f2, s)
    BY <2>1, MapAddHolds
  <2>. HIDE DEF e
  <2>3. ASSUME NEW n2 \in Names, NEW f2 \in FBlocks, n2 # n \/ f2 # f
        PROVE  \/ Content(n2, f2)' = Content(n2, f2)
               \/ Content(n2, f2)' = NoBlock /\ ReadSlot(n2, f2) = ReadSlot(n, f)'
    <3>1. SlotIn(maps'[n2], f2) = SlotIn(c.maps[n2], f2)
      BY <2>1, <2>2, <2>3
    <3>2. SlotIn(c.maps[n2], f2) # s
      BY <2>2, <2>3, SoundReads
    <3>3. CASE SlotIn(c.maps[n2], f2) = SlotIn(maps[n2], f2)
      <4>1. SlotIn(maps[n2], f2) = -1 \/ SlotIn(maps[n2], f2) \in Slots
        BY SlotInMap DEF ApiInv, TypeOK
      <4>2. data \in [Slots -> Payloads \cup {Blank}]
        BY DEF ApiInv, TypeOK
      <4>. QED BY <3>1, <3>2, <3>3, <4>1, <4>2, SameContent
    <3>4. CASE SlotIn(c.maps[n2], f2) = -1 /\ SlotIn(maps[n2], f2) = s
      <4>1. ReadSlot(n2, f2)' = SlotIn(maps'[n2], f2) /\ ReadSlot(n2, f2) = SlotIn(maps[n2], f2)
        BY DEF ReadSlot, SlotIn
      <4>2. Content(n2, f2)' = IF ReadSlot(n2, f2)' = -1 THEN NoBlock ELSE data'[ReadSlot(n2, f2)']
        BY DEF Content
      <4>. QED BY <3>1, <3>4, <4>1, <4>2
    <3>. QED BY <2>2, <3>3, <3>4
  <2>. QED BY <2>3, OneChanged
<1>. QED BY <1>1, <1>2

LEMMA UndisturbedStep == ApiInv /\ [ApiNext]_vars => [Undisturbed]_vars
<1>. SUFFICES ASSUME ApiInv, ApiNext PROVE Undisturbed
  OBVIOUS
<1>0. /\ TypeOK /\ Good(Cache) /\ Cache \in Caches /\ Cache.maps = maps /\ Cache.faulted = faulted
      /\ clist \in Seq(Names)
  BY CacheIs DEF ApiInv, TypeOK
<1>1. ASSUME UNCHANGED <<maps, data>> PROVE Undisturbed
  <2>1. \A n, f : Content(n, f)' = Content(n, f)
    BY <1>1 DEF Content, ReadSlot
  <2>2. Changed = {}
    BY <2>1 DEF Changed
  <2>. QED BY <2>2 DEF Undisturbed
<1>2. ASSUME NEW n \in Names, NEW f \in FBlocks, NEW p \in Payloads,
             SlotFor(n, f) # -1, RememberFblock(n, f, p)
      PROVE  Undisturbed
  <2>. DEFINE s == SlotFor(n, f)
  <2>1. s \in Slots /\ (FblockAt(maps[n], f) = {} \/ SlotIn(maps[n], f) = s)
    BY <1>0, <1>2, SlotForBlock
  <2>2. ContentAdd(n) /\ data' = [data EXCEPT ![s] = p] /\ Install(MapAdd(Cache, n, f, s))
        /\ reply' = Done /\ alive' = alive
    BY <1>2 DEF RememberFblock
  <2>. HIDE DEF s, Cache
  <2>3. ReadSlot(n, f)' = s
    BY <1>0, <2>1, <2>2, RememberStep
  <2>. QED BY <1>0, <2>1, <2>2, <2>3, StoredUndisturbed
<1>3. ASSUME NEW n \in Names, NEW f \in FBlocks, NEW s \in Slots, NEW p \in Payloads,
             RememberFblockAtCblock(n, f, s, p)
      PROVE  Undisturbed
  <2>. DEFINE c == Cleared(n, f, s)
  <2>1. /\ Good(c)
        /\ FblockAt(c.maps[n], f) = {} \/ c.faulted
        /\ c.faulted \/ c = Evict(Cache, s)
    BY ClearedGood
  <2>2. ContentAdd(n) /\ data' = [data EXCEPT ![s] = p] /\ Install(MapAdd(c, n, f, s))
        /\ reply' = Done /\ alive' = alive
    BY <1>3 DEF RememberFblockAtCblock, Cleared
  <2>. HIDE DEF c, Cache
  <2>3. ReadSlot(n, f)' = s
    BY <2>1, <2>2, RememberStep
  <2>4. ASSUME ~c.faulted, NEW n2 \in Names, NEW f2 \in FBlocks
        PROVE  \/ SlotIn(c.maps[n2], f2) = SlotIn(maps[n2], f2)
               \/ SlotIn(c.maps[n2], f2) = -1 /\ SlotIn(maps[n2], f2) = s
    <3>1. c = Evict(Cache, s)
      BY <2>1, <2>4
    <3>2. CASE c = Cache
      BY <1>0, <3>2
    <3>3. CASE c # Cache
      <4>1. PICK n0 \in Names : \E i \in DOMAIN Cache.maps[n0] :
                    Cache.maps[n0][i].cblock = s /\ c = Unlink(Cache, n0, i)
        BY <1>0, <3>1, <3>3, EvictCases
      <4>2. PICK i \in DOMAIN Cache.maps[n0] : Cache.maps[n0][i].cblock = s /\ c = Unlink(Cache, n0, i)
        BY <4>1
      <4>3. ~Cache.faulted
        BY <1>0, <2>4, <4>2, UnlinkFrees
      <4>4. Sound(Cache) /\ Sound(c) /\ c \in Caches
        BY <1>0, <2>1, <2>4, <4>3 DEF Good
      <4>5. CASE n2 # n0 \/ f2 # Cache.maps[n0][i].fblock
        <5>1. \A t \in Slots : Holds(c, n2, f2, t) <=> Holds(Cache, n2, f2, t)
          BY <1>0, <4>2, <4>4, <4>5, UnlinkHolds
        <5>2. SlotIn(c.maps[n2], f2) = SlotIn(Cache.maps[n2], f2)
          BY <1>0, <4>4, <5>1, SameReads
        <5>. QED BY <1>0, <5>2
      <4>6. CASE n2 = n0 /\ f2 = Cache.maps[n0][i].fblock
        <5>1. Holds(Cache, n2, f2, s)
          BY <4>2, <4>6 DEF Holds
        <5>2. SlotIn(Cache.maps[n2], f2) = s
          BY <1>0, <4>4, <5>1, SoundReads
        <5>3. \A k \in DOMAIN c.maps[n2] : c.maps[n2][k].fblock # f2
          <6>1. \A k \in DOMAIN c.maps[n0] :
                  LET j == IF k < i THEN k ELSE k + 1
                  IN  j \in DOMAIN Cache.maps[n0] /\ j # i /\ c.maps[n0][k] = Cache.maps[n0][j]
            BY <1>0, <4>2, UnlinkEntries
          <6>. QED BY <4>4, <4>6, <6>1 DEF Sound
        <5>4. SlotIn(c.maps[n2], f2) = -1
          BY <4>4, <5>3, CacheFields, SlotInMap
        <5>. QED BY <1>0, <5>2, <5>4
      <4>. QED BY <4>5, <4>6
    <3>. QED BY <3>2, <3>3
  <2>. QED BY <2>1, <2>2, <2>3, <2>4, StoredUndisturbed
<1>4. ASSUME NEW n \in Names, NEW f \in FBlocks, n \in Listed, GetFblock(n, f)
      PROVE  Undisturbed
  BY <1>1, <1>4 DEF GetFblock
<1>5. ASSUME NEW n \in Names, NEW f \in FBlocks, ForgetFblock(n, f)
      PROVE  Undisturbed
  <2>. DEFINE c == MapForgetFblock(Cache, n, f)
  <2>1. CASE faulted'
    BY <2>1 DEF Undisturbed
  <2>2. CASE ~(n \in Listed /\ FblockAt(maps[n], f) # {})
    BY <1>1, <1>5, <2>2 DEF ForgetFblock, cacheVars
  <2>3. CASE n \in Listed /\ FblockAt(maps[n], f) # {} /\ ~faulted'
    <3>1. Install(c) /\ data' = data
      BY <1>5, <2>3 DEF ForgetFblock
    <3>. HIDE DEF Cache
    <3>2. Good(c) /\ ~c.faulted /\ maps' = c.maps
      <4>1. Good(c)
        BY <1>0, MapForgetFblockGood
      <4>. HIDE DEF c
      <4>. QED BY <2>3, <3>1, <4>1 DEF Install
    <3>. DEFINE at == FblockAt(Cache.maps[n], f)
                i == First(at)
    <3>3. i \in DOMAIN Cache.maps[n] /\ Cache.maps[n][i].fblock = f /\ i \in at /\ \A j \in at : i <= j
      <4>1. Cache.maps[n] \in Seq(Entry) /\ at # {}
        BY <1>0, <2>3, CacheFields
      <4>2. at \in SUBSET Nat
        BY <4>1, EntryType DEF FblockAt
      <4>. QED BY <4>1, <4>2, FirstFblock, LeastExists
    <3>4. ASSUME Sound(Cache) PROVE c = Unlink(Cache, n, i)
      <4>1. \A j \in at : j = i
        <5>1. \A k, j \in DOMAIN Cache.maps[n] :
                Cache.maps[n][k].fblock = Cache.maps[n][j].fblock => k = j
          BY <3>4 DEF Sound
        <5>2. \A j \in at : j \in DOMAIN Cache.maps[n] /\ Cache.maps[n][j].fblock = f
          BY DEF FblockAt
        <5>. QED BY <3>3, <5>1, <5>2
      <4>2. CASE 1 \in at
        <5>1. i = 1
          BY <4>1, <4>2
        <5>. DEFINE d == Unlink(Cache, n, 1)
        <5>2. \A k \in DOMAIN d.maps[n] :
                  LET j == IF k < i THEN k ELSE k + 1
                  IN  j \in DOMAIN Cache.maps[n] /\ j # i /\ d.maps[n][k] = Cache.maps[n][j]
          BY <1>0, <3>3, <5>1, UnlinkEntries
        <5>3. FblockAt(d.maps[n], f) = {}
          BY <4>1, <5>2 DEF FblockAt
        <5>. QED BY <4>2, <5>1, <5>3 DEF MapForgetFblock
      <4>3. CASE 1 \notin at
        <5>1. at \ {1} = at /\ at # {}
          BY <3>3, <4>3
        <5>. QED BY <4>3, <5>1 DEF MapForgetFblock
      <4>. QED BY <4>2, <4>3
    <3>5. ~Cache.faulted
      <4>1. ASSUME Cache.faulted PROVE c.faulted
        <5>1. \A j \in DOMAIN Cache.maps[n] : Unlink(Cache, n, j) \in Caches /\ Unlink(Cache, n, j).faulted
          BY <1>0, <4>1, UnlinkIs, UnlinkFrees
        <5>2. \A j \in DOMAIN Unlink(Cache, n, 1).maps[n] :
                1 \in DOMAIN Cache.maps[n] => Unlink(Unlink(Cache, n, 1), n, j).faulted
          BY <5>1, UnlinkFrees
        <5>. HIDE DEF c
        <5>. QED BY <1>0, <4>1, <5>1, <5>2, ForgetFblockCases DEF c
      <4>. QED BY <3>2, <4>1
    <3>6. Sound(Cache) /\ Sound(c) /\ c \in Caches
      <4>. HIDE DEF c
      <4>. QED BY <1>0, <3>2, <3>5 DEF Good
    <3>7. c = Unlink(Cache, n, i)
      BY <3>4, <3>6
    <3>. HIDE DEF c, i, at
    <3>8. ASSUME NEW n2 \in Names, NEW f2 \in FBlocks, n2 # n \/ f2 # f
          PROVE  Content(n2, f2)' = Content(n2, f2)
      <4>1. \A t \in Slots : Holds(c, n2, f2, t) <=> Holds(Cache, n2, f2, t)
        BY <1>0, <3>3, <3>6, <3>7, <3>8, UnlinkHolds
      <4>2. SlotIn(c.maps[n2], f2) = SlotIn(Cache.maps[n2], f2)
        BY <1>0, <3>6, <4>1, SameReads
      <4>. QED BY <1>0, <3>1, <3>2, <4>2, SameContent
    <3>. QED BY <3>8, OneChanged
  <2>. QED BY <2>1, <2>2, <2>3
<1>6. ASSUME NEW n \in Names, ForgetFile(n)
      PROVE  Undisturbed
  <2>1. CASE n \in Listed
    <3>1. maps' = [maps EXCEPT ![n] = << >>] /\ data' = data
      BY <1>6, <2>1 DEF ForgetFile, Install, MapClear, Cache
    <3>2. maps'[n] = << >> /\ \A n2 \in Names : n2 # n => maps'[n2] = maps[n2]
      BY <1>0, <3>1 DEF TypeOK
    <3>3. \A n2 \in Names : \A f2 : n2 # n => Content(n2, f2)' = Content(n2, f2)
      BY <3>1, <3>2, SameContent
    <3>4. Changed \subseteq {n} \X FBlocks
      BY <3>3 DEF Changed
    <3>. QED BY <3>2, <3>4 DEF Undisturbed
  <2>2. CASE n \notin Listed
    BY <1>1, <1>6, <2>2 DEF ForgetFile
  <2>. QED BY <2>1, <2>2
<1>7. ASSUME NEW s \in Slots, ForgetCblock(s)
      PROVE  Undisturbed
  <2>. DEFINE c1 == Evict(Cache, s)
              c == StorageForget(c1, s)
  <2>1. CASE HolderOf(s) # {}
    <3>1. Good(c1) /\ ~c1.used[s]
      <4>. HIDE DEF Cache
      <4>. QED BY <1>0, <2>1, EvictGood
    <3>2. Install(c)
      BY <1>7, <2>1 DEF ForgetCblock
    <3>. HIDE DEF c1
    <3>3. c.faulted
      BY <3>1, StorageForgetSafe DEF Good, Safe
    <3>. HIDE DEF c
    <3>. QED BY <3>2, <3>3 DEF Install, Undisturbed
  <2>2. CASE HolderOf(s) = {}
    BY <1>1, <1>7, <2>2 DEF ForgetCblock, cacheVars
  <2>. QED BY <2>1, <2>2
<1>. QED BY <1>2, <1>3, <1>4, <1>5, <1>6, <1>7 DEF ApiNext, BlockCall, SlotCall

(***************************************************************************)
(* Until an ASSERT of storage.c fails, a call changes what is read of its  *)
(* own block, of the file it forgets, or of the block whose slot it takes, *)
(* and of no other block.                                                  *)
(***************************************************************************)
THEOREM CallsDisturbOne == ApiSpec => OthersUndisturbed
<1>. QED BY ApiInvariant, UndisturbedStep, PTL DEF ApiSpec, OthersUndisturbed

----------------------------------------------------------------------------
(* The cache implements FileCache. *)

\* What the invariant says of the triple.
LEMMA InvSound ==
    ASSUME Inv
    PROVE  /\ Cache \in Caches /\ Cache.maps = maps /\ Cache.used = used /\ Cache.faulted = faulted
           /\ Good(Cache) /\ Sound(Cache) /\ ~faulted /\ alive
           /\ data \in [Slots -> Payloads \cup {Blank}]
           /\ maps \in [Names -> Seq(Entry)]
           /\ used \in [Slots -> BOOLEAN]
<1>1. Cache \in Caches /\ Cache.maps = maps /\ Cache.used = used /\ Cache.faulted = faulted
  BY CacheIs DEF Inv
<1>. HIDE DEF Cache
<1>2. Leakless(Cache)
  BY <1>1 DEF Inv, SlotFlagsExact, Leakless, MappedIn
<1>3. Sound(Cache)
  <2>1. \A s \in Slots : MappedIn(Cache, s) => Cache.used[s]
    BY <1>1 DEF Inv, SlotFlagsExact, MappedIn
  <2>2. \A n \in Names : \A i, j \in DOMAIN Cache.maps[n] :
          Cache.maps[n][i].fblock = Cache.maps[n][j].fblock => i = j
    BY <1>1 DEF Inv, HeadIsLeast
  <2>3. \A n1, n2 \in Names : \A i \in DOMAIN Cache.maps[n1], j \in DOMAIN Cache.maps[n2] :
          Cache.maps[n1][i].cblock = Cache.maps[n2][j].cblock => n1 = n2 /\ i = j
    BY <1>1 DEF Inv, NoSlotShared
  <2>. QED BY <2>1, <2>2, <2>3 DEF Sound
<1>. QED BY <1>1, <1>2, <1>3 DEF Good, Inv, NeverFaults, TypeOK

\* A block has a content exactly when it has a slot.
LEMMA ContentIs ==
    ASSUME Inv, NEW n \in Names, NEW f
    PROVE  /\ ReadSlot(n, f) = SlotIn(maps[n], f)
           /\ ReadSlot(n, f) = -1 \/ ReadSlot(n, f) \in Slots
           /\ Content(n, f) = NoBlock <=> ReadSlot(n, f) = -1
           /\ Content(n, f) # NoBlock => Content(n, f) = data[ReadSlot(n, f)]
<1>1. maps[n] \in Seq(Entry) /\ data \in [Slots -> Payloads \cup {Blank}]
  BY InvSound
<1>2. ReadSlot(n, f) = SlotIn(maps[n], f)
  BY DEF ReadSlot, SlotIn
<1>3. ReadSlot(n, f) = -1 \/ ReadSlot(n, f) \in Slots
  BY <1>1, <1>2, SlotInMap
<1>4. ReadSlot(n, f) \in Slots => ReadSlot(n, f) # -1 /\ data[ReadSlot(n, f)] # NoBlock
  BY <1>1, SlotNames, PayloadsAssumption
<1>. QED BY <1>2, <1>3, <1>4 DEF Content

\* The files with a block are those in the list.
LEMMA ListedHolds ==
    ASSUME Inv, NEW n \in Names
    PROVE  n \in Listed <=> \E f \in FBlocks : Content(n, f) # NoBlock
<1>1. maps[n] \in Seq(Entry)
  BY InvSound
<1>2. n \in Listed <=> maps[n] # << >>
  BY DEF Inv, ListedHaveBlocks
<1>3. ASSUME maps[n] # << >> PROVE \E f \in FBlocks : Content(n, f) # NoBlock
  <2>1. 1 \in DOMAIN maps[n]
    BY <1>1, <1>3, ListBasics
  <2>2. maps[n][1].fblock \in FBlocks
    BY <1>1, <2>1, EntryType
  <2>3. SlotIn(maps[n], maps[n][1].fblock) # -1
    BY <1>1, <2>1, SlotInMap
  <2>. QED BY <2>2, <2>3, ContentIs
<1>4. ASSUME NEW f \in FBlocks, Content(n, f) # NoBlock PROVE maps[n] # << >>
  <2>1. SlotIn(maps[n], f) # -1
    BY <1>4, ContentIs
  <2>2. PICK i \in DOMAIN maps[n] : maps[n][i].fblock = f
    BY <1>1, <2>1, SlotInMap
  <2>. QED BY <2>2
<1>. QED BY <1>2, <1>3, <1>4

(***************************************************************************)
(* The blocks held are as many as the slots in use: next_cblock finds none *)
(* exactly when NumBlocks blocks are held.                                 *)
(***************************************************************************)
HeldBlocks == {k \in Names \X FBlocks : Content(k[1], k[2]) # NoBlock}

LEMMA HeldCount ==
    ASSUME Inv
    PROVE  IF NextCblock = -1 THEN Cardinality(HeldBlocks) = NumBlocks
                              ELSE Cardinality(HeldBlocks) < NumBlocks
<1>. DEFINE U == {s \in Slots : used[s]}
            g == [k \in HeldBlocks |-> ReadSlot(k[1], k[2])]
<1>0. /\ Cache \in Caches /\ Cache.maps = maps /\ Cache.used = used
      /\ Leakless(Cache) /\ Sound(Cache)
  BY InvSound DEF Good
<1>. HIDE DEF Cache
<1>1. ASSUME NEW k \in HeldBlocks
      PROVE  /\ k[1] \in Names /\ k[2] \in FBlocks /\ k = <<k[1], k[2]>>
             /\ g[k] \in Slots /\ Holds(Cache, k[1], k[2], g[k])
  <2>1. k[1] \in Names /\ k[2] \in FBlocks /\ k = <<k[1], k[2]>> /\ Content(k[1], k[2]) # NoBlock
    BY DEF HeldBlocks
  <2>2. g[k] = SlotIn(Cache.maps[k[1]], k[2]) /\ g[k] \in Slots
    BY <1>0, <2>1, ContentIs
  <2>. QED BY <1>0, <2>1, <2>2, SoundReads
<1>2. ASSUME NEW k \in HeldBlocks PROVE g[k] \in U
  <2>1. MappedIn(Cache, g[k])
    BY <1>1 DEF Holds, MappedIn
  <2>. HIDE DEF g
  <2>. QED BY <1>0, <1>1, <2>1 DEF Sound
<1>3. ASSUME NEW j \in HeldBlocks, NEW k \in HeldBlocks, g[j] = g[k] PROVE j = k
  <2>. HIDE DEF g
  <2>1. j[1] = k[1] /\ j[2] = k[2]
    BY <1>0, <1>1, <1>3, OneHolder
  <2>. QED BY <1>1, <2>1
<1>4. ASSUME NEW s \in U PROVE \E k \in HeldBlocks : g[k] = s
  <2>1. PICK n \in Names : \E i \in DOMAIN Cache.maps[n] : Cache.maps[n][i].cblock = s
    BY <1>0 DEF Leakless, MappedIn
  <2>2. PICK i \in DOMAIN Cache.maps[n] : Cache.maps[n][i].cblock = s
    BY <2>1
  <2>. DEFINE f == Cache.maps[n][i].fblock
  <2>3. f \in FBlocks
    BY <1>0, CacheFields, EntryType
  <2>4. SlotIn(Cache.maps[n], f) = s
    BY <1>0, <2>2, SoundReads DEF Holds
  <2>. HIDE DEF f
  <2>5. ReadSlot(n, f) = s /\ Content(n, f) # NoBlock
    BY <1>0, <2>4, ContentIs, SlotNames
  <2>6. <<n, f>> \in HeldBlocks
    BY <2>3, <2>5 DEF HeldBlocks
  <2>. QED BY <2>5, <2>6
<1>5. g \in [HeldBlocks -> U]
  BY <1>2
<1>. HIDE DEF g
<1>6. ExistsBijection(HeldBlocks, U)
  BY <1>3, <1>4, <1>5, Fun_IsBij DEF ExistsBijection
<1>7. IsFiniteSet(Slots) /\ Cardinality(Slots) = NumBlocks
  BY NumBlocksAssumption, FS_Interval DEF Slots
<1>8. /\ IsFiniteSet(U) /\ Cardinality(U) <= NumBlocks /\ Cardinality(U) \in Nat
      /\ Cardinality(U) = NumBlocks => U = Slots
  <2>1. U \in SUBSET Slots
    OBVIOUS
  <2>. HIDE DEF U
  <2>. QED BY <1>7, <2>1, FS_Subset, FS_CardinalityType
<1>9. Cardinality(HeldBlocks) = Cardinality(U)
  <2>. HIDE DEF U
  <2>1. ExistsBijection(U, HeldBlocks)
    BY <1>6, Fun_ExistsBijSymmetric
  <2>. QED BY <1>8, <2>1, FS_Bijection
<1>10. NextCblock = -1 <=> U = Slots
  <2>. DEFINE free == {s \in Slots : ~used[s]}
  <2>1. NextCblock = IF free = {} THEN -1 ELSE First(free)
    BY DEF NextCblock
  <2>2. free = {} <=> U = Slots
    OBVIOUS
  <2>3. free \in SUBSET Nat /\ free \subseteq Slots
    BY SlotNames
  <2>4. free # {} => First(free) # -1
    <3>. HIDE DEF free
    <3>. QED BY <2>3, LeastExists, SlotNames
  <2>. HIDE DEF free, U
  <2>. QED BY <2>1, <2>2, <2>4
<1>. HIDE DEF U
<1>. QED BY <1>7, <1>8, <1>9, <1>10, NumBlocksAssumption

LEMMA SameCardinality == \A S : Abstract!Cardinality(S) = Cardinality(S)
BY DEF Abstract!Cardinality, Cardinality

\* What is stored, read as FileCache reads it.
LEMMA StoreIs ==
    /\ DOMAIN Store = Names
    /\ \A n \in Names : DOMAIN Store[n] = FBlocks
    /\ \A n \in Names, f \in FBlocks : Store[n][f] = Content(n, f)
    /\ Abstract!Held = HeldBlocks
    /\ \A n \in Names : Abstract!HoldsSome(n) <=> \E f \in FBlocks : Content(n, f) # NoBlock
    /\ Abstract!Accepted = Done
    /\ Abstract!Refused = Failed
<1>1. /\ DOMAIN Store = Names
      /\ \A n \in Names : DOMAIN Store[n] = FBlocks
      /\ \A n \in Names, f \in FBlocks : Store[n][f] = Content(n, f)
  BY DEF Store
<1>. HIDE DEF Store
<1>2. Abstract!Held = HeldBlocks
  BY <1>1 DEF Abstract!Held, HeldBlocks
<1>3. \A n \in Names : Abstract!HoldsSome(n) <=> \E f \in FBlocks : Content(n, f) # NoBlock
  BY <1>1 DEF Abstract!HoldsSome
<1>4. Abstract!Accepted = Done /\ Abstract!Refused = Failed
  BY DEF Abstract!Accepted, Abstract!Refused, Done, Failed
<1>. QED BY <1>1, <1>2, <1>3, <1>4

LEMMA StoreKept ==
    ASSUME UNCHANGED <<maps, data>>
    PROVE  /\ Store' = Store
           /\ \A n, f : Content(n, f)' = Content(n, f)
BY DEF Store, Content, ReadSlot

\* The initial states are those of FileCache.
LEMMA InitMaps == ServerInit => Abstract!AInit
<1>. SUFFICES ASSUME ServerInit PROVE Abstract!AInit
  OBVIOUS
<1>1. \A n \in Names : \A f : Content(n, f) = NoBlock
  BY DEF ServerInit, Init, Content, ReadSlot, FblockAt
<1>2. Store = [n \in Names |-> [f \in FBlocks |-> NoBlock]]
  BY <1>1 DEF Store
<1>. QED BY <1>2 DEF Abstract!AInit, Abstract!Refused, ServerInit, Init, Failed

(***************************************************************************)
(* remember_fblock, of a server that found a free slot, is one APut: the   *)
(* other blocks keep their contents because no slot is shared.             *)
(***************************************************************************)
LEMMA PutMaps ==
    ASSUME Inv, NextCblock # -1, NEW n \in Names, NEW f \in FBlocks, NEW p \in Payloads,
           RememberFblock(n, f, p), request' = <<"put", n, f, p>>
    PROVE  Abstract!APut(n, f, p)
<1>. DEFINE s == SlotFor(n, f)
            e == MapAdd(Cache, n, f, s)
<1>0. /\ Cache \in Caches /\ Cache.maps = maps /\ Good(Cache) /\ Sound(Cache)
      /\ ~faulted /\ alive /\ data \in [Slots -> Payloads \cup {Blank}]
      /\ maps \in [Names -> Seq(Entry)] /\ TypeOK
  BY InvSound DEF Inv
<1>1. s # -1
  BY DEF SlotFor
<1>2. s \in Slots /\ (FblockAt(maps[n], f) = {} \/ SlotIn(maps[n], f) = s)
  BY <1>0, <1>1, SlotForBlock
<1>3. data' = [data EXCEPT ![s] = p] /\ Install(e) /\ reply' = Done
  BY <1>1 DEF RememberFblock
<1>4. ~faulted'
  <2>1. Inv'
    BY RememberInv
  <2>. QED BY <2>1 DEF Inv, NeverFaults
<1>. HIDE DEF s, Cache
<1>5. ~e.faulted /\ maps' = e.maps
  BY <1>3, <1>4 DEF Install
<1>6. \A n2 \in Names, f2 \in FBlocks : n2 # n \/ f2 # f =>
         SlotIn(e.maps[n2], f2) = SlotIn(maps[n2], f2) /\ ~Holds(Cache, n2, f2, s)
  BY <1>0, <1>2, <1>5, MapAddHolds
<1>7. SlotIn(e.maps[n], f) = s
  BY <1>0, <1>2, MapAddGood
<1>. HIDE DEF e
<1>8. Content(n, f)' = p
  <2>1. ReadSlot(n, f)' = s
    BY <1>5, <1>7 DEF ReadSlot, SlotIn
  <2>2. Content(n, f)' = IF ReadSlot(n, f)' = -1 THEN NoBlock ELSE data'[ReadSlot(n, f)']
    BY DEF Content
  <2>. QED BY <1>0, <1>1, <1>2, <1>3, <2>1, <2>2
<1>9. ASSUME NEW n2 \in Names, NEW f2 \in FBlocks, n2 # n \/ f2 # f
      PROVE  Content(n2, f2)' = Content(n2, f2)
  <2>1. SlotIn(maps'[n2], f2) = SlotIn(maps[n2], f2)
    BY <1>5, <1>6, <1>9
  <2>2. SlotIn(maps[n2], f2) # s
    BY <1>0, <1>2, <1>6, <1>9, SoundReads
  <2>3. SlotIn(maps[n2], f2) = -1 \/ SlotIn(maps[n2], f2) \in Slots
    BY <1>0, SlotInMap
  <2>. QED BY <1>0, <1>2, <1>3, <2>1, <2>2, <2>3, SameContent
<1>10. Store' = [Store EXCEPT ![n][f] = p]
  <2>1. /\ Store' = [n2 \in Names |-> [f2 \in FBlocks |-> Content(n2, f2)']]
        /\ Store = [n2 \in Names |-> [f2 \in FBlocks |-> Content(n2, f2)]]
    BY DEF Store
  <2>2. [Store EXCEPT ![n][f] = p]
          = [n2 \in Names |-> [f2 \in FBlocks |-> IF n2 = n /\ f2 = f THEN p ELSE Content(n2, f2)]]
    BY <2>1
  <2>. QED BY <1>8, <1>9, <2>1, <2>2
<1>11. Cardinality(Abstract!Held) < NumBlocks
  BY HeldCount, StoreIs
<1>12. reply' = Abstract!Accepted
  BY <1>3, StoreIs
<1>. QED BY <1>10, <1>11, <1>12, SameCardinality DEF Abstract!APut

\* Every step of the server is a step of FileCache, or none.
LEMMA StepMaps == Inv /\ [Next]_serverVars => [Abstract!ANext]_(Abstract!avars)
<1>. SUFFICES ASSUME Inv, [Next]_serverVars
              PROVE  Abstract!ANext \/ UNCHANGED <<Store, request, reply>>
  BY DEF Abstract!avars
<1>1. CASE UNCHANGED serverVars
  BY <1>1, StoreKept DEF serverVars, vars
<1>2. ASSUME NEW n \in Names, NEW f \in FBlocks, NEW p \in Payloads, StoreBlock(n, f, p)
      PROVE  Abstract!ANext
  <2>1. CASE NextCblock # -1
    <3>1. Abstract!APut(n, f, p)
      BY <1>2, <2>1, PutMaps DEF StoreBlock
    <3>. QED BY <3>1 DEF Abstract!ANext
  <2>2. CASE NextCblock = -1
    <3>1. Cardinality(Abstract!Held) = NumBlocks
      BY <2>2, HeldCount, StoreIs
    <3>2. Store' = Store /\ reply' = Failed /\ request' = <<"put", n, f, p>>
      BY <1>2, <2>2, StoreKept DEF StoreBlock
    <3>3. Abstract!ARefuse(n, f, p)
      <4>1. reply' = Abstract!Refused
        BY <3>2, StoreIs
      <4>. QED BY <3>1, <3>2, <4>1, SameCardinality DEF Abstract!ARefuse
    <3>. QED BY <3>3 DEF Abstract!ANext
  <2>. QED BY <2>1, <2>2
<1>3. ASSUME NEW n \in Names, NEW f \in FBlocks, ServeBlock(n, f)
      PROVE  Abstract!ANext
  <2>1. n \in Listed /\ request' = <<"get", n, f>> /\ Store' = Store
        /\ reply' = IF Content(n, f) = NoBlock THEN Failed ELSE Block(Content(n, f))
    BY <1>3, StoreKept DEF ServeBlock, GetFblock
  <2>2. Abstract!HoldsSome(n)
    BY <2>1, ListedHolds, StoreIs
  <2>3. Abstract!AGet(n, f)
    BY <2>1, <2>2, StoreIs DEF Abstract!AGet, Block
  <2>. QED BY <2>3 DEF Abstract!ANext
<1>4. ASSUME NEW n \in Names, DeleteFile(n)
      PROVE  Abstract!ANext
  <2>. DEFINE none == [f \in FBlocks |-> NoBlock]
  <2>0. request' = <<"drop", n>> /\ maps \in [Names -> Seq(Entry)]
    BY <1>4, InvSound DEF DeleteFile
  <2>1. CASE n \in Listed
    <3>1. maps' = [maps EXCEPT ![n] = << >>] /\ data' = data /\ reply' = Done
      BY <1>4, <2>1 DEF DeleteFile, ForgetFile, Install, MapClear, Cache
    <3>2. maps'[n] = << >> /\ \A n2 \in Names : n2 # n => maps'[n2] = maps[n2]
      BY <2>0, <3>1
    <3>3. \A n2 \in Names : \A f : n2 # n => Content(n2, f)' = Content(n2, f)
      BY <3>1, <3>2, SameContent
    <3>4. \A f : Content(n, f)' = NoBlock
      BY <3>2 DEF Content, ReadSlot, FblockAt
    <3>5. Store' = [Store EXCEPT ![n] = none]
      BY <3>3, <3>4 DEF Store
    <3>6. Abstract!HoldsSome(n)
      BY <2>1, ListedHolds, StoreIs
    <3>7. Abstract!ADrop(n)
      BY <2>0, <3>1, <3>5, <3>6, StoreIs DEF Abstract!ADrop
    <3>. QED BY <3>7 DEF Abstract!ANext
  <2>2. CASE n \notin Listed
    <3>1. UNCHANGED <<maps, data>> /\ reply' = Failed
      BY <1>4, <2>2 DEF DeleteFile, ForgetFile
    <3>2. ~Abstract!HoldsSome(n) /\ \A f \in FBlocks : Content(n, f) = NoBlock
      BY <2>2, ListedHolds, StoreIs
    <3>3. Store' = [Store EXCEPT ![n] = none]
      <4>1. Store' = Store
        BY <3>1, StoreKept
      <4>2. Store = [Store EXCEPT ![n] = none]
        BY <3>2 DEF Store
      <4>. QED BY <4>1, <4>2
    <3>4. Abstract!ADrop(n)
      BY <2>0, <3>1, <3>2, <3>3, StoreIs DEF Abstract!ADrop
    <3>. QED BY <3>4 DEF Abstract!ANext
  <2>. QED BY <2>1, <2>2
<1>. QED BY <1>1, <1>2, <1>3, <1>4 DEF Next

(***************************************************************************)
(* The server's block cache implements FileCache, for every number of      *)
(* slots and every set of files, blocks and contents: a read returns what  *)
(* was stored last, a file is dropped alone and whole, and a block is      *)
(* refused only when every slot holds one.                                 *)
(***************************************************************************)
THEOREM CacheImplements == Spec => ImplementsFileCache
<1>. QED BY InitMaps, StepMaps, CacheInvariant, PTL
     DEF Spec, ImplementsFileCache, Abstract!ASpec

----------------------------------------------------------------------------
(* The list of file sizes. *)

\* Each answer is the latest one only as long as the list is in order.
SizeInv == WellFormed /\ LatestIsRead

LEMMA SizeInitInv == SizeInit => SizeInv
<1>. SUFFICES ASSUME SizeInit PROVE SizeInv
  OBVIOUS
<1>1. sizes \in Seq(Item) /\ DOMAIN sizes = {}
  BY EmptySeq DEF SizeInit
<1>. QED BY <1>1 DEF SizeInit, SizeInv, WellFormed, SizeTypeOK, InOrder, LatestIsRead

LEMMA RememberSizeInv ==
    ASSUME SizeInv, NEW n \in FileNames, NEW z \in Sizes, RememberSize(n, z)
    PROVE  SizeInv'
<1>1. /\ sizes' \in Seq(Item)
      /\ InOrder(sizes')
      /\ SizeGet(sizes', n) = z
      /\ \A n2 \in FileNames \ {n} : SizeGet(sizes', n2) = SizeGet(sizes, n2)
  <2>1. sizes \in Seq(SizeEntry(FileNames, Sizes)) /\ InOrder(sizes)
    BY DEF SizeInv, WellFormed, SizeTypeOK, Item
  <2>2. sizes' = SizeRemember(sizes, n, z)
    BY DEF RememberSize
  <2>. DEFINE b == SizeRemember(sizes, n, z)
  <2>3. /\ b \in Seq(SizeEntry(FileNames, Sizes))
        /\ InOrder(b)
        /\ SizeGet(b, n) = z
        /\ \A n2 \in FileNames \ {n} : SizeGet(b, n2) = SizeGet(sizes, n2)
    <3>1. FileNames \in SUBSET Int
      BY FileNamesAssumption
    <3>. QED BY <2>1, <3>1, SizeRememberProperties
  <2>. QED BY <2>2, <2>3 DEF Item
<1>2. latest' = [latest EXCEPT ![n] = z] /\ latest \in [FileNames -> Sizes \cup {-1}]
  BY DEF RememberSize, SizeInv, WellFormed, SizeTypeOK
<1>. QED BY <1>1, <1>2 DEF SizeInv, WellFormed, SizeTypeOK, LatestIsRead

\* forget_size, as the invariant and OnceIsForgotten need it.
LEMMA ForgetSizeStep ==
    ASSUME SizeInv, NEW n \in FileNames, ForgetSize(n)
    PROVE  SizeInv' /\ ForgetsOne(n)
<1>1. NameAt(sizes, n) # {}
  BY DEF ForgetSize, SizeGet
<1>2. /\ sizes' \in Seq(Item)
      /\ InOrder(sizes')
      /\ \A n2 \in FileNames \ {n} : SizeGet(sizes', n2) = SizeGet(sizes, n2)
      /\ Cardinality(NameAt(sizes', n)) < Cardinality(NameAt(sizes, n))
      /\ Cardinality(NameAt(sizes, n)) = 1 => SizeGet(sizes', n) = -1
  <2>1. sizes \in Seq(SizeEntry(FileNames, Sizes)) /\ InOrder(sizes)
    BY DEF SizeInv, WellFormed, SizeTypeOK, Item
  <2>2. sizes' = SizeForget(sizes, n)
    BY DEF ForgetSize
  <2>. DEFINE b == SizeForget(sizes, n)
  <2>3. /\ b \in Seq(SizeEntry(FileNames, Sizes))
        /\ InOrder(b)
        /\ \A n2 : n2 # n => SizeGet(b, n2) = SizeGet(sizes, n2)
        /\ Cardinality(NameAt(b, n)) < Cardinality(NameAt(sizes, n))
        /\ Cardinality(NameAt(sizes, n)) = 1 => SizeGet(b, n) = -1
    <3>1. FileNames \in SUBSET Int
      BY FileNamesAssumption
    <3>. QED BY <1>1, <2>1, <3>1, SizeForgetProperties
  <2>. QED BY <2>2, <2>3 DEF Item
<1>3. latest' = [latest EXCEPT ![n] = -1] /\ latest \in [FileNames -> Sizes \cup {-1}]
  BY DEF ForgetSize, SizeInv, WellFormed, SizeTypeOK
<1>4. SizeInv'
  BY <1>2, <1>3 DEF SizeInv, WellFormed, SizeTypeOK, LatestIsRead
<1>5. ForgetsOne(n)
  BY <1>2 DEF ForgetsOne
<1>. QED BY <1>4, <1>5

LEMMA SizeNextInv == SizeInv /\ [SizeNext]_sizeVars => SizeInv'
<1>1. ASSUME SizeInv, UNCHANGED sizeVars PROVE SizeInv'
  BY <1>1 DEF sizeVars, SizeInv, WellFormed, SizeTypeOK, LatestIsRead
<1>. QED BY <1>1, RememberSizeInv, ForgetSizeStep DEF SizeNext

\* The list is in order and its answers are right, whatever was remembered.
THEOREM SizeInvariant == SizeSpec => []SizeInv
<1>. QED BY SizeInitInv, SizeNextInv, PTL DEF SizeSpec

(***************************************************************************)
(* For any names and sizes and lists of any length: the list keeps its     *)
(* types and the order that the scan of size_remember depends on.          *)
(***************************************************************************)
THEOREM SizesOrdered == SizeSpec => []WellFormed
<1>1. SizeInv => WellFormed
  BY DEF SizeInv
<1>. QED BY <1>1, SizeInvariant, PTL

(***************************************************************************)
(* get_size answers with the size remembered last, although a name that is *)
(* put again is entered again.                                             *)
(***************************************************************************)
THEOREM LatestSizeIsRead == SizeSpec => []LatestIsRead
<1>1. SizeInv => LatestIsRead
  BY DEF SizeInv
<1>. QED BY <1>1, SizeInvariant, PTL

\* forget_size takes an entry of the name away, and the size of a name listed once.
THEOREM SizeIsForgotten == SizeSpec => OnceIsForgotten
<1>1. SizeInv => [Forgets]_sizeVars
  BY ForgetSizeStep DEF Forgets
<1>. QED BY <1>1, SizeInvariant, PTL DEF OnceIsForgotten

=============================================================================
