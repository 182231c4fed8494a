--------------------------- MODULE TorrentProofs ----------------------------
(***************************************************************************)
(* The torrent client keeps its account of a file of any size right, for   *)
(* words and commands of any size and on any network.                      *)
(***************************************************************************)
EXTENDS Torrent, DataProofs

\* recv_block() only waits when makeRequest() had said no.
Inv ==
    /\ TypeOK
    /\ NeededExact
    /\ WithinLimit
    /\ phase = "open" => written = {} /\ numBlocksRecieved = 0
    /\ phase \in {"open", "loop"} /\ reading => numBlocksRecieved # Limit

\* What a request counts is a number.
LEMMA CountedIsNat ==
    ASSUME NEW missing \in SUBSET Blocks
    PROVE  Counted(missing) \in Nat
<1>1. IsFiniteSet(Blocks)
  BY SizeAssumption, FS_Interval DEF Blocks
<1>. QED BY <1>1, FS_Subset, FS_CardinalityType DEF Counted

\* Commands are sets of ranges.
LEMMA CommandsType ==
    ASSUME NEW missing \in SUBSET Blocks
    PROVE  Commands(missing) \subseteq SUBSET Ranges
<1>1. \A r \in Runs(missing) : Closed(r) \in Ranges
  BY SizeAssumption DEF Runs, Closed, Ranges, Blocks
<1>. QED BY <1>1 DEF Commands

\* FileServer marks a range as bits_setrange() does.
LEMMA SameRange ==
    ASSUME NEW r, NEW lost \in BOOLEAN
    PROVE  Server!SetRange(r, N, lost) = SetRange(r, N, lost)
  BY DEF Server!SetRange, SetRange, Server!BitRange, BitRange,
     Server!LowWord, LowWord, Server!MiddleWords, MiddleWords, Server!HighWord, HighWord,
     Server!Undefined, Undefined, Server!RangeFirst, RangeFirst, Server!RangeLast, RangeLast,
     Server!Clamp, Clamp, Server!Word, Word, Server!FirstBit, FirstBit

\* A command marks what it asks for, unless a shift is undefined.
LEMMA MarksLemma ==
    ASSUME NEW c \in SUBSET Ranges, NEW lost \in BOOLEAN
    PROVE  /\ Server!Marks(File, c, lost) \subseteq Asked(c)
           /\ (\A r \in c : ~Undefined(r, N)) => Server!Marks(File, c, lost) = Asked(c)
           /\ Asked(c) \subseteq Blocks
<1>1. \A r \in c : r \in Int \X Int
  BY DEF Ranges
<1>2. \A r \in c :
        /\ SetRange(r, N, lost) \subseteq BitRange(r, N)
        /\ ~Undefined(r, N) => SetRange(r, N, lost) = BitRange(r, N)
        /\ BitRange(r, N) \subseteq Blocks
  BY <1>1, SetRangeExact, SizeAssumption DEF Blocks
<1>3. Server!Marks(File, c, lost) = UNION {SetRange(r, N, lost) : r \in c}
  BY SameRange DEF Server!Marks
<1>. QED BY <1>2, <1>3 DEF Asked

\* The limit is never below one.
LEMMA LimitIsPositive == ASSUME NEW n \in Nat PROVE (3 * n) \div 4 + 1 \in Nat /\ (3 * n) \div 4 + 1 >= 1
  OBVIOUS

LEMMA InitInv == Init => Inv
<1>. SUFFICES ASSUME Init PROVE Inv
  OBVIOUS
<1>1. <<0, MaxInt>> \in Ranges
  BY MaxIntAssumption DEF Ranges
<1>2. owed \in [{File} -> SUBSET Blocks]
  BY DEF Init, Server!Init
<1>3. 0 \in Blocks
  BY SizeAssumption DEF Blocks
<1>. QED
  BY <1>1, <1>2, <1>3, MaxIntAssumption DEF Init, Inv, TypeOK, NeededExact, WithinLimit

LEMMA RequestInv ==
    ASSUME Inv, phase = "loop", ~reading, RequestMissingBlocks,
           UNCHANGED <<phase, reading, blocksNeeded, written, blocks, owed>>
    PROVE  Inv'
<1>1. Counted(blocksNeeded) \in Nat /\ Commands(blocksNeeded) \subseteq SUBSET Ranges
  BY CountedIsNat, CommandsType DEF Inv, TypeOK
<1>2. commands' \subseteq SUBSET Ranges
  BY <1>1 DEF Inv, TypeOK, RequestMissingBlocks, Post
<1>3. TypeOK'
  BY <1>1, <1>2 DEF Inv, TypeOK, RequestMissingBlocks
<1>4. WithinLimit'
  BY <1>1, LimitIsPositive DEF WithinLimit, Limit, RequestMissingBlocks
<1>. QED BY <1>3, <1>4 DEF Inv, NeededExact

LEMMA ReceiveInv == ASSUME Inv, NEW b \in Blocks, Receive(b) PROVE Inv'
<1>. DEFINE missing == IF phase = "open" THEN Blocks ELSE blocksNeeded
            received == IF phase = "open" THEN 0 ELSE numBlocksRecieved
<1>1. /\ phase \in {"open", "loop"} /\ (reading \/ numBlocksRecieved # Limit)
      /\ blocks' \subseteq blocks
      /\ reading' = FALSE
      /\ blocksNeeded' = missing \ {b}
      /\ written' = written \cup {b}
      /\ numBlocksNeeded' = IF phase = "open" THEN N ELSE numBlocksNeeded
      /\ numBlocksRecieved' = IF b \in missing THEN received + 1 ELSE received
      /\ phase' = IF missing \ {b} = {} THEN "done" ELSE "loop"
      /\ UNCHANGED <<commands, owed>>
  BY DEF Receive, Ready, Take
<1>2. missing = Blocks \ written /\ missing \in SUBSET Blocks /\ received \in Nat
  BY <1>1 DEF Inv, TypeOK, NeededExact
<1>3. TypeOK'
  <2>1. blocksNeeded' \in SUBSET Blocks /\ written' \in SUBSET Blocks
    BY <1>1, <1>2 DEF Inv, TypeOK
  <2>2. numBlocksNeeded' \in Nat /\ numBlocksRecieved' \in Nat
    BY <1>1, <1>2, SizeAssumption DEF Inv, TypeOK
  <2>. QED BY <1>1, <2>1, <2>2 DEF Inv, TypeOK
<1>4. NeededExact'
  <2>1. blocksNeeded' = Blocks \ written' /\ written' \subseteq Blocks
    BY <1>1, <1>2 DEF Inv, TypeOK
  <2>. QED BY <1>1, <2>1 DEF NeededExact, Blocks
<1>5. WithinLimit'
  <2>1. CASE phase = "open"
    <3>1. numBlocksNeeded' = N /\ numBlocksRecieved' \in {0, 1}
      BY <1>1, <2>1
    <3>2. Limit' \in Nat /\ Limit' >= 1
      BY <3>1, SizeAssumption, LimitIsPositive DEF Limit
    <3>. QED BY <3>1, <3>2 DEF WithinLimit
  <2>2. CASE phase = "loop"
    <3>1. numBlocksRecieved # Limit /\ numBlocksRecieved <= Limit /\ Limit' = Limit
      BY <1>1, <2>2 DEF Inv, WithinLimit, Limit
    <3>2. numBlocksRecieved \in Nat /\ Limit \in Nat
      BY LimitIsPositive DEF Inv, TypeOK, Limit
    <3>3. numBlocksRecieved' <= Limit
      BY <1>1, <2>2, <3>1, <3>2
    <3>. QED BY <3>1, <3>3 DEF WithinLimit
  <2>. QED BY <1>1, <2>1, <2>2
<1>6. phase' # "open" /\ ~reading'
  BY <1>1
<1>. QED BY <1>3, <1>4, <1>5, <1>6 DEF Inv

\* A stray datagram changes neither the account nor the counts.
LEMMA StrayInv ==
    ASSUME Inv, Ready, reading' \in BOOLEAN, blocks' \subseteq blocks,
           UNCHANGED <<phase, blocksNeeded, written, counters, commands, owed>>
    PROVE  Inv'
<1>1. UNCHANGED <<phase, blocksNeeded, written, numBlocksNeeded, numBlocksRecieved, commands, owed>>
  BY DEF counters
<1>2. TypeOK'
  BY <1>1 DEF Inv, TypeOK
<1>3. Limit' = Limit /\ numBlocksRecieved # Limit
  BY <1>1 DEF Ready, Inv, Limit
<1>. QED BY <1>1, <1>2, <1>3 DEF Inv, NeededExact, Blocks, WithinLimit

\* Steps of the network and the server leave the client alone.
LEMMA OutsideInv ==
    ASSUME Inv, UNCHANGED client, blocks' \subseteq blocks \cup Blocks,
           commands' \subseteq commands, owed' \in [{File} -> SUBSET Blocks]
    PROVE  Inv'
<1>1. UNCHANGED <<phase, reading, blocksNeeded, written, numBlocksNeeded, numBlocksRecieved>>
  BY DEF client, counters
<1>2. TypeOK'
  BY <1>1 DEF Inv, TypeOK
<1>. QED BY <1>1, <1>2 DEF Inv, NeededExact, Blocks, WithinLimit, Limit

\* What is owed stays blocks of the file.
LEMMA OwedType ==
    ASSUME TypeOK, NEW c \in commands, Server!Ask(File, c)
    PROVE  owed' \in [{File} -> SUBSET Blocks]
<1>1. c \in SUBSET Ranges
  BY DEF TypeOK
<1>2. PICK lost \in BOOLEAN :
        owed' = [owed EXCEPT ![File] = @ \cup Server!Marks(File, c, lost)]
  BY DEF Server!Ask
<1>3. Server!Marks(File, c, lost) \subseteq Blocks
  BY <1>1, MarksLemma
<1>. QED BY <1>2, <1>3 DEF TypeOK

LEMMA NextInv == Inv /\ [Next]_vars => Inv'
<1>. SUFFICES ASSUME Inv, [Next]_vars PROVE Inv'
  OBVIOUS
<1>1. CASE UNCHANGED vars
  BY <1>1 DEF vars, client, counters, Inv, TypeOK, NeededExact, Blocks, WithinLimit, Limit
<1>2. CASE GiveUp
  BY <1>2 DEF GiveUp, counters, Inv, TypeOK, NeededExact, Blocks, WithinLimit, Limit
<1>3. CASE Timeout
  BY <1>3, RequestInv DEF Timeout
<1>4. CASE RequestMore
  BY <1>4, RequestInv DEF RequestMore
<1>5. CASE ReadShort \/ ReadForeign
  BY <1>5, StrayInv DEF ReadShort, ReadForeign, Take
<1>6. ASSUME NEW b \in Blocks, Receive(b) PROVE Inv'
  BY <1>6, ReceiveInv
<1>7. ASSUME NEW b \in Blocks, Give(b) PROVE Inv'
  BY <1>7, OutsideInv DEF Give, Server!Give, Inv, TypeOK
<1>8. ASSUME NEW c \in commands, Deliver(c) PROVE Inv'
  BY <1>8, OutsideInv, OwedType DEF Deliver, Inv
<1>9. CASE Forget
  BY <1>9, OutsideInv DEF Forget, Server!Forget, Inv, TypeOK
<1>10. CASE LoseCommand \/ LoseBlock
  BY <1>10, OutsideInv DEF LoseCommand, LoseBlock, Inv, TypeOK
<1>. QED
  BY <1>1, <1>2, <1>3, <1>4, <1>5, <1>6, <1>7, <1>8, <1>9, <1>10 DEF Next

----------------------------------------------------------------------------
(* requestMissingBlocks(): the runs of missing blocks. *)

LEMMA RunType ==
    ASSUME NEW missing \in SUBSET Blocks, NEW r \in Runs(missing)
    PROVE  /\ r = <<r[1], r[2]>> /\ r[1] \in 0 .. N - 1 /\ r[2] \in 0 .. N - 1 /\ r[1] <= r[2]
           /\ \A b \in r[1] .. r[2] : b \in missing
           /\ r[1] - 1 \notin missing /\ r[2] + 1 \notin missing
  BY DEF Runs, Blocks

\* A run that is closed too far asks for the same blocks.
LEMMA ClosedRange ==
    ASSUME NEW missing \in SUBSET Blocks, NEW r \in Runs(missing)
    PROVE  BitRange(Closed(r), N) = r[1] .. r[2]
<1>1. r[1] \in 0 .. N - 1 /\ r[2] \in 0 .. N - 1 /\ r[1] <= r[2]
  BY RunType
<1>2. CASE r[2] = N - 1
  <2>1. Closed(r)[1] = r[1] /\ Closed(r)[2] = N
    BY <1>2 DEF Closed
  <2>2. RangeLast(Closed(r), N) = r[2] /\ RangeFirst(Closed(r), N) = r[1]
    BY <1>1, <1>2, <2>1, SizeAssumption DEF RangeLast, RangeFirst, Clamp
  <2>. QED BY <2>2 DEF BitRange
<1>3. CASE r[2] # N - 1
  <2>1. Closed(r) = r
    BY <1>3 DEF Closed
  <2>2. RangeLast(r, N) = r[2] /\ RangeFirst(r, N) = r[1]
    BY <1>1, SizeAssumption DEF RangeLast, RangeFirst, Clamp
  <2>. QED BY <2>1, <2>2 DEF BitRange
<1>. QED BY <1>2, <1>3

\* Every missing block is in a run.
LEMMA RunsCover ==
    ASSUME NEW missing \in SUBSET Blocks, NEW b \in missing
    PROVE  \E r \in Runs(missing) : b \in r[1] .. r[2]
<1>. DEFINE L == {x \in 0 .. b : x .. b \subseteq missing}
            H == {y \in Nat : b <= y /\ y + 1 \notin missing}
            lo == First(L)
            hi == First(H)
<1>1. /\ N \in Nat /\ b \in 0 .. N - 1
      /\ \A x \in missing : x \in 0 .. N - 1
  BY SizeAssumption DEF Blocks
<1>2. L \in SUBSET Nat /\ b \in L
  BY <1>1
<1>3. H \in SUBSET Nat /\ N - 1 \in H
  <2>1. N - 1 \in Nat /\ b <= N - 1 /\ (N - 1) + 1 \notin missing
    BY <1>1, SizeAssumption
  <2>. QED BY <2>1
<1>4. lo \in L /\ \A x \in L : lo <= x
  <2>. HIDE DEF L
  <2>. QED BY <1>2, LeastExists
<1>5. hi \in H /\ \A y \in H : hi <= y
  <2>. HIDE DEF H
  <2>. QED BY <1>3, LeastExists
<1>. HIDE DEF lo, hi
<1>6. lo \in 0 .. b /\ (\A x \in lo .. b : x \in missing) /\ hi \in Nat /\ b <= hi /\ hi + 1 \notin missing
  BY <1>4, <1>5
<1>7. hi <= N - 1
  BY <1>3, <1>5
<1>8. lo - 1 \notin missing
  <2>1. SUFFICES ASSUME lo - 1 \in missing PROVE FALSE
    OBVIOUS
  <2>2. lo - 1 \in 0 .. b
    BY <1>1, <1>6, <2>1
  <2>3. ASSUME NEW x \in lo - 1 .. b PROVE x \in missing
    <3>1. x = lo - 1 \/ x \in lo .. b
      BY <1>1, <1>6
    <3>. QED BY <1>6, <2>1, <3>1
  <2>4. lo - 1 \in L
    BY <2>2, <2>3
  <2>. QED BY <1>1, <1>4, <1>6, <2>4
<1>9. ASSUME NEW z \in b .. hi PROVE z \in missing
  <2>1. SUFFICES ASSUME z \notin missing PROVE FALSE
    OBVIOUS
  <2>2. z - 1 \in Nat /\ b <= z - 1 /\ (z - 1) + 1 = z
    BY <1>1, <1>6, <2>1
  <2>3. z - 1 \in H
    BY <2>1, <2>2
  <2>. QED BY <1>1, <1>5, <1>6, <2>2, <2>3
<1>. HIDE DEF L, H
<1>10. lo .. hi \subseteq missing
  <2>1. ASSUME NEW z \in lo .. hi PROVE z \in missing
    <3>1. z \in lo .. b \/ z \in b .. hi
      BY <1>1, <1>6
    <3>. QED BY <1>6, <1>9, <3>1
  <2>. QED BY <2>1
<1>11. <<lo, hi>> \in Runs(missing) /\ b \in lo .. hi
  BY <1>1, <1>6, <1>7, <1>8, <1>10 DEF Runs, Blocks
<1>. QED BY <1>11

\* Runs do not overlap.
LEMMA RunsApart ==
    ASSUME NEW missing \in SUBSET Blocks, NEW r \in Runs(missing), NEW q \in Runs(missing),
           NEW b \in r[1] .. r[2], b \in q[1] .. q[2]
    PROVE  r = q
<1>1. /\ r = <<r[1], r[2]>> /\ r[1] \in 0 .. N - 1 /\ r[2] \in 0 .. N - 1
      /\ \A x \in r[1] .. r[2] : x \in missing
      /\ r[1] - 1 \notin missing /\ r[2] + 1 \notin missing
  BY RunType
<1>2. /\ q = <<q[1], q[2]>> /\ q[1] \in 0 .. N - 1 /\ q[2] \in 0 .. N - 1
      /\ \A x \in q[1] .. q[2] : x \in missing
      /\ q[1] - 1 \notin missing /\ q[2] + 1 \notin missing
  BY RunType
<1>3. ~(r[1] < q[1])
  <2>1. r[1] < q[1] => q[1] - 1 \in r[1] .. r[2]
    BY <1>1, <1>2
  <2>. QED BY <1>1, <1>2, <2>1
<1>4. ~(q[1] < r[1])
  <2>1. q[1] < r[1] => r[1] - 1 \in q[1] .. q[2]
    BY <1>1, <1>2
  <2>. QED BY <1>1, <1>2, <2>1
<1>5. ~(r[2] < q[2])
  <2>1. r[2] < q[2] => r[2] + 1 \in q[1] .. q[2]
    BY <1>1, <1>2
  <2>. QED BY <1>1, <1>2, <2>1
<1>6. ~(q[2] < r[2])
  <2>1. q[2] < r[2] => q[2] + 1 \in r[1] .. r[2]
    BY <1>1, <1>2
  <2>. QED BY <1>1, <1>2, <2>1
<1>7. r[1] = q[1] /\ r[2] = q[2]
  BY <1>1, <1>2, <1>3, <1>4, <1>5, <1>6
<1>. QED BY <1>1, <1>2, <1>7

\* The number of runs before a run; runs are numbered in their order.
Before(r, missing) == Cardinality({q \in Runs(missing) : q[1] < r[1]})

LEMMA RunsNumbered ==
    ASSUME NEW missing \in SUBSET Blocks
    PROVE  /\ \A r \in Runs(missing) : Before(r, missing) \in Nat
           /\ \A r, q \in Runs(missing) : Before(r, missing) = Before(q, missing) => r = q
<1>. DEFINE R == Runs(missing)
            E(r) == {q \in R : q[1] < r[1]}
<1>1. IsFiniteSet(R)
  <2>1. IsFiniteSet(Blocks)
    BY SizeAssumption, FS_Interval DEF Blocks
  <2>2. IsFiniteSet(Blocks \X Blocks)
    BY <2>1, FS_Product
  <2>3. R \in SUBSET (Blocks \X Blocks)
    BY DEF Runs
  <2>. QED BY <2>2, <2>3, FS_Subset
<1>2. \A r \in R : r[1] \in Int
  BY RunType
<1>. HIDE DEF R
<1>3. \A r : IsFiniteSet(E(r)) /\ Cardinality(E(r)) \in Nat
  BY <1>1, FS_Subset, FS_CardinalityType
<1>4. ASSUME NEW r \in R, NEW q \in R, r[1] < q[1] PROVE Cardinality(E(r)) # Cardinality(E(q))
  <2>1. ASSUME NEW x \in E(r) PROVE x \in E(q)
    <3>1. x[1] \in Int /\ r[1] \in Int /\ q[1] \in Int /\ x[1] < r[1]
      BY <1>2
    <3>. QED BY <1>4, <3>1
  <2>2. r \in E(q) /\ r \notin E(r)
    <3>1. r[1] \in Int
      BY <1>2
    <3>. QED BY <1>4, <3>1
  <2>3. E(r) \in SUBSET E(q) /\ E(r) # E(q)
    BY <2>1, <2>2
  <2>. HIDE DEF E
  <2>. QED BY <1>3, <2>3, FS_Subset
<1>5. ASSUME NEW r \in R, NEW q \in R, Cardinality(E(r)) = Cardinality(E(q)) PROVE r = q
  <2>1. r[1] \in Int /\ q[1] \in Int /\ ~(r[1] < q[1]) /\ ~(q[1] < r[1])
    BY <1>2, <1>4, <1>5
  <2>2. r[1] = q[1]
    BY <2>1
  <2>3. r[1] \in r[1] .. r[2] /\ r[1] \in q[1] .. q[2]
    <3>1. /\ r[1] \in 0 .. N - 1 /\ r[2] \in 0 .. N - 1 /\ r[1] <= r[2]
          /\ q[1] \in 0 .. N - 1 /\ q[2] \in 0 .. N - 1 /\ q[1] <= q[2]
      BY RunType DEF R
    <3>. QED BY <2>2, <3>1, SizeAssumption
  <2>. QED BY <2>3, RunsApart DEF R
<1>. QED BY <1>3, <1>5 DEF R, Before

\* The runs of one command, at most MaxRanges of them.
RunsOf(k, missing) == {q \in Runs(missing) : CommandOf(q, missing) = k}
CommandFor(k, missing) == {Closed(q) : q \in RunsOf(k, missing)}

LEMMA CommandSize ==
    ASSUME NEW missing \in SUBSET Blocks, NEW k \in Nat
    PROVE  Cardinality(CommandFor(k, missing)) <= MaxRanges
<1>. DEFINE G == RunsOf(k, missing)
            num == [q \in G |-> Before(q, missing)]
            I == MaxRanges * k .. MaxRanges * k + MaxRanges - 1
            cl == [q \in G |-> Closed(q)]
<1>1. \A q \in G : q \in Runs(missing) /\ Before(q, missing) \div MaxRanges = k
  BY DEF RunsOf, CommandOf, Before
<1>2. \A q \in G : Before(q, missing) \in I
  <2>1. SUFFICES ASSUME NEW q \in G PROVE Before(q, missing) \in I
    OBVIOUS
  <2>. DEFINE x == Before(q, missing)
  <2>2. x \in Nat /\ x \div MaxRanges = k
    BY <1>1, RunsNumbered
  <2>. HIDE DEF x, G
  <2>3. x = MaxRanges * (x \div MaxRanges) + (x % MaxRanges) /\ x % MaxRanges \in 0 .. MaxRanges - 1
    BY <2>2, MaxRangesAssumption
  <2>4. MaxRanges * k \in Nat
    BY MaxRangesAssumption
  <2>5. x = MaxRanges * k + (x % MaxRanges)
    BY <2>2, <2>3
  <2>. QED BY <2>3, <2>4, <2>5, MaxRangesAssumption DEF x
<1>3. num \in [G -> I] /\ \A q, r \in G : num[q] = num[r] => q = r
  BY <1>1, <1>2, RunsNumbered
<1>4. IsFiniteSet(I) /\ Cardinality(I) = MaxRanges
  <2>1. MaxRanges * k \in Int
    BY MaxRangesAssumption
  <2>. DEFINE a == MaxRanges * k
  <2>. HIDE DEF a
  <2>2. a \in Int
    BY <2>1 DEF a
  <2>3. /\ IsFiniteSet(a .. a + MaxRanges - 1)
        /\ Cardinality(a .. a + MaxRanges - 1) = MaxRanges
    BY <2>2, FS_Interval, MaxRangesAssumption
  <2>. QED BY <2>3 DEF a
<1>. HIDE DEF num, G, I
<1>5. num \in Injection(G, I)
  BY <1>3 DEF Injection, IsInjective
<1>6. IsFiniteSet(G) /\ Cardinality(G) <= MaxRanges
  BY <1>4, <1>5, FS_Injection
<1>7. cl \in Surjection(G, CommandFor(k, missing))
  BY DEF Surjection, CommandFor, G
<1>. HIDE DEF cl
<1>8. IsFiniteSet(CommandFor(k, missing)) /\ Cardinality(CommandFor(k, missing)) <= Cardinality(G)
  BY <1>6, <1>7, FS_Surjection
<1>9. Cardinality(G) \in Nat /\ Cardinality(CommandFor(k, missing)) \in Nat
  BY <1>6, <1>8, FS_CardinalityType
<1>. QED BY <1>6, <1>8, <1>9, MaxRangesAssumption

\* The blocks a command asks for are those of its runs.
LEMMA CommandAsks ==
    ASSUME NEW missing \in SUBSET Blocks, NEW k, NEW b
    PROVE  b \in Asked(CommandFor(k, missing)) <=> \E q \in RunsOf(k, missing) : b \in q[1] .. q[2]
<1>1. Asked(CommandFor(k, missing)) = UNION {BitRange(Closed(q), N) : q \in RunsOf(k, missing)}
  BY DEF Asked, CommandFor
<1>2. \A q \in RunsOf(k, missing) : BitRange(Closed(q), N) = q[1] .. q[2]
  BY ClosedRange DEF RunsOf
<1>. QED BY <1>1, <1>2

(***************************************************************************)
(* Whatever is missing, the commands ask for it, for nothing else, in one  *)
(* command only, and have no more ranges than fit.                         *)
(***************************************************************************)
LEMMA CommandsAsk ==
    ASSUME NEW missing \in SUBSET Blocks
    PROVE  /\ UNION {Asked(c) : c \in Commands(missing)} = missing
           /\ \A c \in Commands(missing) : Cardinality(c) <= MaxRanges
           /\ \A c, d \in Commands(missing) : c # d => Asked(c) \cap Asked(d) = {}
<1>. DEFINE K(r) == CommandOf(r, missing)
<1>1. \A r \in Runs(missing) : K(r) \in Nat
  <2>1. \A x \in Nat : x \div MaxRanges \in Nat
    BY MaxRangesAssumption
  <2>2. \A r \in Runs(missing) : Before(r, missing) \in Nat
    BY RunsNumbered
  <2>. QED BY <2>1, <2>2 DEF CommandOf, Before
<1>2. Commands(missing) = {CommandFor(K(r), missing) : r \in Runs(missing)}
  BY DEF Commands, CommandFor, RunsOf
<1>. HIDE DEF K
<1>3. ASSUME NEW c \in Commands(missing) PROVE Cardinality(c) <= MaxRanges
  <2>1. PICK r \in Runs(missing) : c = CommandFor(K(r), missing)
    BY <1>2
  <2>. QED BY <1>1, <2>1, CommandSize
<1>4. ASSUME NEW b \in missing PROVE \E c \in Commands(missing) : b \in Asked(c)
  <2>1. PICK r \in Runs(missing) : b \in r[1] .. r[2]
    BY RunsCover
  <2>2. r \in RunsOf(K(r), missing)
    BY DEF RunsOf, K
  <2>3. b \in Asked(CommandFor(K(r), missing))
    BY <2>1, <2>2, CommandAsks
  <2>. QED BY <1>2, <2>3
<1>5. ASSUME NEW c \in Commands(missing), NEW b \in Asked(c) PROVE b \in missing
  <2>1. PICK r \in Runs(missing) : c = CommandFor(K(r), missing)
    BY <1>2
  <2>2. PICK q \in RunsOf(K(r), missing) : b \in q[1] .. q[2]
    BY <2>1, CommandAsks
  <2>3. q \in Runs(missing)
    BY DEF RunsOf
  <2>. QED BY <2>2, <2>3, RunType
<1>6. ASSUME NEW c \in Commands(missing), NEW d \in Commands(missing), NEW b \in Asked(c) \cap Asked(d)
      PROVE  c = d
  <2>1. PICK r \in Runs(missing) : c = CommandFor(K(r), missing)
    BY <1>2
  <2>2. PICK s \in Runs(missing) : d = CommandFor(K(s), missing)
    BY <1>2
  <2>3. PICK q \in RunsOf(K(r), missing) : b \in q[1] .. q[2]
    BY <2>1, CommandAsks
  <2>4. PICK p \in RunsOf(K(s), missing) : b \in p[1] .. p[2]
    BY <2>2, CommandAsks
  <2>5. q \in Runs(missing) /\ p \in Runs(missing) /\ K(q) = K(r) /\ K(p) = K(s)
    BY DEF RunsOf, K
  <2>6. q = p
    BY <2>3, <2>4, <2>5, RunsApart
  <2>. QED BY <2>1, <2>2, <2>5, <2>6
<1>. QED BY <1>3, <1>4, <1>5, <1>6

----------------------------------------------------------------------------
\* The inductive invariant of the client.
THEOREM ClientInvariant == Spec => []Inv
<1>. QED BY InitInv, NextInv, PTL DEF Spec

\* The variables of the client, the network and the server keep their types.
THEOREM TypeCorrect == Spec => []TypeOK
<1>1. Inv => TypeOK
  BY DEF Inv
<1>. QED BY <1>1, ClientInvariant, PTL

\* For a file of any size, the client is done when it has written all of it.
THEOREM AccountCorrect == Spec => []NeededExact
<1>1. Inv => NeededExact
  BY DEF Inv
<1>. QED BY <1>1, ClientInvariant, PTL

\* For a file of any size, the 75 percent rule never goes out of action.
THEOREM LimitHolds == Spec => []WithinLimit
<1>1. Inv => WithinLimit
  BY DEF Inv
<1>. QED BY <1>1, ClientInvariant, PTL

(***************************************************************************)
(* For a file of any size and commands of any length, requestMissingBlocks *)
(* would ask at any time for just what is missing, each block once.        *)
(***************************************************************************)
THEOREM RequestsExact == Spec => []AsksForMissing
<1>1. Inv => AsksForMissing
  BY CommandsAsk DEF Inv, TypeOK, AsksForMissing
<1>. QED BY <1>1, ClientInvariant, PTL

\* For words of any width, a command makes the server owe what it asks for.
THEOREM MarksCorrect == Spec => MarkedIsAsked
<1>1. ASSUME Inv, NEW c \in commands, Deliver(c) PROVE MarksExactly(c)
  <2>1. PICK lost \in BOOLEAN :
          owed' = [owed EXCEPT ![File] = @ \cup Server!Marks(File, c, lost)]
    BY <1>1 DEF Deliver, Server!Ask
  <2>2. c \in SUBSET Ranges /\ owed \in [{File} -> SUBSET Blocks]
    BY <1>1 DEF Inv, TypeOK
  <2>3. owed'[File] = owed[File] \cup Server!Marks(File, c, lost)
    BY <2>1, <2>2
  <2>. QED BY <2>2, <2>3, MarksLemma DEF MarksExactly
<1>2. Inv => [DeliveriesMark]_vars
  BY <1>1 DEF DeliveriesMark
<1>. QED BY <1>2, ClientInvariant, PTL DEF MarkedIsAsked

=============================================================================
