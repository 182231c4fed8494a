------------------------------ MODULE Storage ------------------------------
(***************************************************************************)
(* The block cache of a squirrel server (a6/storage.c).                    *)
(*                                                                         *)
(* A fixed array of NumBlocks slots holds file blocks.  For every file the *)
(* server knows, a linked list of map entries says which slot holds which  *)
(* block; a list of content records, one per file, holds these maps; an    *)
(* array of flags says which slots are in use.  The three structures are   *)
(* kept in step by hand, and the code's ASSERTs, which only log, say what  *)
(* it expects of them.                                                     *)
(*                                                                         *)
(* The sizes of files (size_remember and its companions) are a list of     *)
(* their own, modelled in SizeList.                                        *)
(***************************************************************************)
EXTENDS Lists

CONSTANTS
    Names,      \* file names, compared only with strcmp() == 0
    FBlocks,    \* file block numbers, as they arrive from the network
    Payloads,   \* contents of a block
    NumBlocks,  \* storage_blocks, the argument of storage_begin
    Blank,      \* the content of a slot that storage_begin has zeroed
    NoBlock     \* what a call that returns no block returns

ASSUME NumBlocksAssumption == NumBlocks \in Nat
ASSUME FBlocksAssumption == FBlocks \subseteq Int
ASSUME PayloadsAssumption == NoBlock \notin Payloads \cup {Blank}

VARIABLES
    clist,      \* the names that have a content record, in list order
    maps,       \* for each name its list of map entries
    used,       \* storage_used
    data,       \* storage
    reply,      \* what the last call told its caller
    faulted,    \* an ASSERT of storage.c has failed
    alive       \* FALSE after an access outside any object

cacheVars == <<maps, used, faulted>>
vars == <<clist, maps, used, data, reply, faulted, alive>>

Slots == 0 .. NumBlocks - 1
Entry == [fblock : FBlocks, cblock : Slots]
Reply == [ok : BOOLEAN, block : Payloads \cup {Blank, NoBlock}]

Done == [ok |-> TRUE, block |-> NoBlock]
Failed == [ok |-> FALSE, block |-> NoBlock]
Block(p) == [ok |-> TRUE, block |-> p]

TypeOK ==
    /\ clist \in Seq(Names)
    /\ maps \in [Names -> Seq(Entry)]
    /\ used \in [Slots -> BOOLEAN]
    /\ data \in [Slots -> Payloads \cup {Blank}]
    /\ reply \in Reply
    /\ faulted \in BOOLEAN
    /\ alive \in BOOLEAN

(***************************************************************************)
(* The slot flags and the maps change together.  A sequence of calls is    *)
(* composed from operators on the triple of the maps, the flags and the    *)
(* record of failed ASSERTs.                                               *)
(***************************************************************************)
Cache == [maps |-> maps, used |-> used, faulted |-> faulted]

Install(c) ==
    /\ maps' = c.maps
    /\ used' = c.used
    /\ faulted' = c.faulted

FblockAt(m, f) == {i \in DOMAIN m : m[i].fblock = f}
CblockAt(m, s) == {i \in DOMAIN m : m[i].cblock = s}

\* Mutant: a slot that is in use already is taken without a word.
StorageRememberSilent(c, s) == [c EXCEPT !.used[s] = TRUE]

StorageRemember(c, s) ==
    [c EXCEPT !.used[s] = TRUE, !.faulted = @ \/ c.used[s]]

StorageForget(c, s) ==
    [c EXCEPT !.used[s] = FALSE, !.faulted = @ \/ ~c.used[s]]

\* Mutant: the flags are not looked at.
NextCblockIgnoresFlags == 0

\* storage_next(): the first slot not in use, or -1.
NextCblock ==
    LET free == {s \in Slots : ~used[s]}
    IN  IF free = {} THEN -1 ELSE First(free)

\* Mutant: a block that is smaller than the head goes to the tail as well.
MapAddAtTail(c, n, f, s) ==
    IF FblockAt(c.maps[n], f) = {}
      THEN [StorageRemember(c, s)
              EXCEPT !.maps[n] = Append(@, [fblock |-> f, cblock |-> s])]
      ELSE c

(***************************************************************************)
(* map_add().  The list is searched for the block only when the block is   *)
(* not smaller than the one at its head: when it is, a new entry goes to   *)
(* the front whatever the list holds.                                      *)
(***************************************************************************)
MapAdd(c, n, f, s) ==
    LET m == c.maps[n]
        at == FblockAt(m, f)
        new == [fblock |-> f, cblock |-> s]
    IN  IF m = << >> \/ f < m[1].fblock
          THEN [StorageRemember(c, s) EXCEPT !.maps[n] = <<new>> \o m]
        ELSE IF at = {}
          THEN [StorageRemember(c, s) EXCEPT !.maps[n] = Append(m, new)]
        ELSE IF m[First(at)].cblock = s
          THEN [c EXCEPT !.faulted = @ \/ ~c.used[s]]
        ELSE [StorageRemember(StorageForget(c, m[First(at)].cblock), s)
                 EXCEPT !.maps[n] = [m EXCEPT ![First(at)] = new]]

\* Mutant: the entry goes and its slot stays in use.
UnlinkKeepsSlot(c, n, i) == [c EXCEPT !.maps[n] = SX!RemoveAt(@, i)]

\* One list entry is unlinked and its slot given back.
Unlink(c, n, i) ==
    [StorageForget(c, c.maps[n][i].cblock)
        EXCEPT !.maps[n] = SX!RemoveAt(c.maps[n], i)]

\* Mutant: the head is removed whatever block it is for.
MapForgetFblockHead(c, n, f) ==
    LET c1 == IF c.maps[n] # << >> THEN Unlink(c, n, 1) ELSE c
        later == FblockAt(c1.maps[n], f)
    IN  IF later = {} THEN c1 ELSE Unlink(c1, n, First(later))

(***************************************************************************)
(* map_forget_fblock() goes on after it has removed the head, and then     *)
(* looks at the list from the entry after the new head.                    *)
(***************************************************************************)
MapForgetFblock(c, n, f) ==
    LET c1 == IF 1 \in FblockAt(c.maps[n], f) THEN Unlink(c, n, 1) ELSE c
        later == FblockAt(c1.maps[n], f) \ {1}
    IN  IF later = {} THEN c1 ELSE Unlink(c1, n, First(later))

\* map_forget_cblock() removes the first entry for the slot.
MapForgetCblock(c, n, s) ==
    LET at == CblockAt(c.maps[n], s)
    IN  IF at = {} THEN c ELSE Unlink(c, n, First(at))

\* Mutant: the list goes and its slots stay in use.
MapClearLeaks(c, n) == [c EXCEPT !.maps[n] = << >>]

\* Mutant: the slots are given back and the list stays.
MapClearKeepsList(c, n) ==
    LET given == {c.maps[n][i].cblock : i \in DOMAIN c.maps[n]}
    IN  [c EXCEPT !.used = [s \in Slots |-> c.used[s] /\ s \notin given],
                  !.faulted = @ \/ \E s \in given : ~c.used[s]]

\* map_clear(): every slot of the list is given back.
MapClear(c, n) ==
    LET m == c.maps[n]
        given == {m[i].cblock : i \in DOMAIN m}
    IN  [maps |-> [c.maps EXCEPT ![n] = << >>],
         used |-> [s \in Slots |-> c.used[s] /\ s \notin given],
         faulted |-> \/ c.faulted
                     \/ \E s \in given : ~c.used[s]
                     \/ \E i, j \in DOMAIN m : i # j /\ m[i].cblock = m[j].cblock]

Listed == {clist[i] : i \in DOMAIN clist}

\* Mutant: the name is not looked for first.
ContentAddBlindly(n) == clist' = Append(clist, n)

\* content_add(): the name gets a content record at the tail unless it has one.
ContentAdd(n) == clist' = IF n \in Listed THEN clist ELSE Append(clist, n)

\* clist_cblock_used(): the first file in the list that maps the slot, if any.
HolderOf(s) == {i \in DOMAIN clist : CblockAt(maps[clist[i]], s) # {}}

(***************************************************************************)
(* What a reader of block f of file n finds: the slot that the first map   *)
(* entry for the block names, -1 if none does, and its content.            *)
(***************************************************************************)
ReadSlot(n, f) ==
    LET at == FblockAt(maps[n], f)
    IN  IF at = {} THEN -1 ELSE maps[n][First(at)].cblock

Content(n, f) == IF ReadSlot(n, f) = -1 THEN NoBlock ELSE data[ReadSlot(n, f)]

\* A NULL or wild pointer is followed: nothing is said of what comes after.
Crash ==
    /\ alive' = FALSE
    /\ UNCHANGED <<clist, maps, used, data, reply, faulted>>

----------------------------------------------------------------------------
Init ==
    /\ clist = << >>
    /\ maps = [n \in Names |-> << >>]
    /\ used = [s \in Slots |-> FALSE]
    /\ data = [s \in Slots |-> Blank]
    /\ reply = Failed
    /\ faulted = FALSE
    /\ alive = TRUE

(***************************************************************************)
(* remember_fblock(): the block's own slot is overwritten if it has one,   *)
(* else the first free slot is taken.  storage_next() returns -1 when      *)
(* there is none, and storage_put writes there all the same.               *)
(***************************************************************************)
SlotFor(n, f) == IF ReadSlot(n, f) = -1 THEN NextCblock ELSE ReadSlot(n, f)

RememberFblock(n, f, p) ==
    /\ alive
    /\ IF SlotFor(n, f) = -1
         THEN Crash
         ELSE /\ ContentAdd(n)
              /\ data' = [data EXCEPT ![SlotFor(n, f)] = p]
              /\ Install(MapAdd(Cache, n, f, SlotFor(n, f)))
              /\ reply' = Done
              /\ UNCHANGED alive

(***************************************************************************)
(* remember_fblock_at_cblock(): whoever holds the slot loses it; then the  *)
(* slot of an older copy of the block is given back, first directly and    *)
(* then once more by content_forget_fblock.                                *)
(***************************************************************************)
Evict(c, s) ==
    IF HolderOf(s) = {} THEN c
    ELSE MapForgetCblock(c, clist[First(HolderOf(s))], s)

DropOldCopy(c, n, f) ==
    LET at == FblockAt(c.maps[n], f)
    IN  IF at = {} THEN c
        ELSE MapForgetFblock(StorageForget(c, c.maps[n][First(at)].cblock), n, f)

\* Mutant: the holder of the slot loses it after the new entry is made.
RememberFblockAtCblockLate(n, f, s, p) ==
    /\ alive
    /\ ContentAdd(n)
    /\ data' = [data EXCEPT ![s] = p]
    /\ Install(Evict(MapAdd(DropOldCopy(Cache, n, f), n, f, s), s))
    /\ reply' = Done
    /\ UNCHANGED alive

RememberFblockAtCblock(n, f, s, p) ==
    /\ alive
    /\ ContentAdd(n)
    /\ data' = [data EXCEPT ![s] = p]
    /\ Install(MapAdd(DropOldCopy(Evict(Cache, s), n, f), n, f, s))
    /\ reply' = Done
    /\ UNCHANGED alive

\* Mutant: slot 0 is taken for none.
GetFblockSlotZero(n, f) ==
    /\ alive
    /\ n \in Listed
    /\ reply' = IF ReadSlot(n, f) > 0 THEN Block(Content(n, f)) ELSE Failed
    /\ UNCHANGED <<clist, maps, used, data, faulted, alive>>

(***************************************************************************)
(* get_fblock().  For a name without a content record content_get returns  *)
(* NULL, the test "f<0" does not see it, and f->bhead is read.             *)
(***************************************************************************)
GetFblock(n, f) ==
    /\ alive
    /\ IF n \in Listed
         THEN /\ reply' = IF Content(n, f) = NoBlock THEN Failed ELSE Block(Content(n, f))
              /\ UNCHANGED <<clist, maps, used, data, faulted, alive>>
         ELSE Crash

\* forget_fblock(): nothing happens unless the block is stored.
ForgetFblock(n, f) ==
    /\ alive
    /\ IF n \in Listed /\ FblockAt(maps[n], f) # {}
         THEN /\ Install(MapForgetFblock(Cache, n, f))
              /\ reply' = Done
         ELSE /\ reply' = Failed
              /\ UNCHANGED cacheVars
    /\ UNCHANGED <<clist, data, alive>>

\* forget_file(): the content record goes, and all slots of its map.
ForgetFile(n) ==
    /\ alive
    /\ IF n \in Listed
         THEN /\ clist' = SX!RemoveAt(clist, First({i \in DOMAIN clist : clist[i] = n}))
              /\ Install(MapClear(Cache, n))
              /\ reply' = Done
         ELSE /\ reply' = Failed
              /\ UNCHANGED <<clist, maps, used, faulted>>
    /\ UNCHANGED <<data, alive>>

\* forget_cblock(): the slot is given back by the map and then once more.
ForgetCblock(s) ==
    /\ alive
    /\ IF HolderOf(s) # {}
         THEN /\ Install(StorageForget(Evict(Cache, s), s))
              /\ reply' = Done
         ELSE /\ reply' = Failed
              /\ UNCHANGED cacheVars
    /\ UNCHANGED <<clist, data, alive>>

=============================================================================
