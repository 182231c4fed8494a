----------------------------- MODULE StorageApi -----------------------------
(***************************************************************************)
(* Every function of a6/storage.h that touches blocks, called in any order *)
(* and with any arguments the functions accept.                            *)
(*                                                                         *)
(* The callers excluded are those that reach an access outside any object  *)
(* on their first call: remember_fblock with neither an old copy nor a     *)
(* free slot, and get_fblock of a name never stored.                       *)
(***************************************************************************)
EXTENDS Storage

CONSTANT MaxEntries     \* bound: no block is stored when the maps hold this many entries

Entries == UNION {{n} \X DOMAIN maps[n] : n \in Names}
Room == Cardinality(Entries) < MaxEntries

BlockCall ==
    \/ \E n \in Names, f \in FBlocks, p \in Payloads :
           Room /\ SlotFor(n, f) # -1 /\ RememberFblock(n, f, p)
    \/ \E n \in Names, f \in FBlocks : n \in Listed /\ GetFblock(n, f)
    \/ \E n \in Names, f \in FBlocks : ForgetFblock(n, f)
    \/ \E n \in Names : ForgetFile(n)

SlotCall ==
    \/ \E n \in Names, f \in FBlocks, s \in Slots, p \in Payloads :
           Room /\ RememberFblockAtCblock(n, f, s, p)
    \/ \E s \in Slots : ForgetCblock(s)

ApiNext == BlockCall \/ SlotCall

ApiSpec == Init /\ [][ApiNext]_vars

----------------------------------------------------------------------------
SlotMapped(s) == \E n \in Names : CblockAt(maps[n], s) # {}

(***************************************************************************)
(* No slot leaks: whatever the callers do, a slot that is marked used can  *)
(* still be found from some file, hence be freed.                          *)
(***************************************************************************)
NoSlotLeaked == \A s \in Slots : used[s] => SlotMapped(s)

OneSlotPerBlock ==
    \A n \in Names : \A i, j \in DOMAIN maps[n] :
        maps[n][i].fblock = maps[n][j].fblock => i = j

OneBlockPerSlot ==
    \A n1, n2 \in Names : \A i \in DOMAIN maps[n1], j \in DOMAIN maps[n2] :
        maps[n1][i].cblock = maps[n2][j].cblock => n1 = n2 /\ i = j

(***************************************************************************)
(* The ASSERTs of storage.c are complete: while none of them has failed,   *)
(* flags and maps agree, no block has two slots and no slot two blocks.    *)
(***************************************************************************)
FaultsAreNoticed ==
    ~faulted => /\ \A s \in Slots : SlotMapped(s) => used[s]
                /\ OneSlotPerBlock
                /\ OneBlockPerSlot

\* The step is a call that stores p as block f of file n, and says so.
Stores(n, f, p) ==
    /\ reply' = Done
    /\ \/ RememberFblock(n, f, p)
       \/ \E s \in Slots : RememberFblockAtCblock(n, f, s, p)

(***************************************************************************)
(* Read your write, in a damaged cache too: a block that was just stored   *)
(* is what the next read of that block of that file returns, and the slot  *)
(* it is read from is the only one that was overwritten.                   *)
(***************************************************************************)
Written ==
    \A n \in Names, f \in FBlocks, p \in Payloads : Stores(n, f, p) =>
        /\ Content(n, f)' = p
        /\ \A s \in Slots \ {ReadSlot(n, f)'} : data'[s] = data[s]

WrittenIsRead == [][Written]_vars

(***************************************************************************)
(* Until an ASSERT fails, a call changes what is read of one block at most *)
(* -- apart from the blocks of a file that is forgotten as a whole, and    *)
(* from a block that loses its slot to the one stored.                     *)
(***************************************************************************)
Changed == {k \in Names \X FBlocks : Content(k[1], k[2])' # Content(k[1], k[2])}

Undisturbed ==
    ~faulted' =>
        \/ Changed = {}
        \/ \E n \in Names : Changed \subseteq {n} \X FBlocks /\ maps'[n] = << >>
        \/ \E k \in Names \X FBlocks : \A j \in Changed \ {k} :
              /\ Content(j[1], j[2])' = NoBlock
              /\ ReadSlot(j[1], j[2]) = ReadSlot(k[1], k[2])'

OthersUndisturbed == [][Undisturbed]_vars

=============================================================================
