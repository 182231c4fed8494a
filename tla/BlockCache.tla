----------------------------- MODULE BlockCache -----------------------------
(***************************************************************************)
(* The block cache as a squirrel server uses it.                           *)
(*                                                                         *)
(* The server calls five of the functions of a6/storage.c that touch       *)
(* blocks: storage_begin at the start, next_cblock and remember_fblock for *)
(* a STORE_BLOCK datagram, get_fblock for a range request, forget_file for *)
(* a DEL request.  Entries of a map are never removed one by one, and that *)
(* is what the invariants below rest on.                                   *)
(***************************************************************************)
EXTENDS Storage

VARIABLE request    \* the request that reply answers; << >> before the first

serverVars == <<vars, request>>

(***************************************************************************)
(* req_is_block_to_store(): the datagram is dropped, unacknowledged, when  *)
(* no slot is free, although a block that is stored already would need     *)
(* none.  The acknowledgement is the reply.                                *)
(***************************************************************************)
StoreBlock(n, f, p) ==
    /\ request' = <<"put", n, f, p>>
    /\ \/ /\ NextCblock # -1
          /\ RememberFblock(n, f, p)
       \/ /\ NextCblock = -1
          /\ alive
          /\ reply' = Failed
          /\ UNCHANGED <<clist, maps, used, data, faulted, alive>>

(***************************************************************************)
(* req_is_range(), one block of the range, of a file that has a block here *)
(* (get_fblock crashes for others).  The test of the command's type before *)
(* it compares a field that command_network_to_local never copies: as the  *)
(* code stands no request passes it.  This is what follows the test.       *)
(***************************************************************************)
ServeBlock(n, f) ==
    /\ n \in Listed
    /\ request' = <<"get", n, f>>
    /\ GetFblock(n, f)

\* del(), when the size of the file is known.
DeleteFile(n) ==
    /\ request' = <<"drop", n>>
    /\ ForgetFile(n)

Next ==
    \/ \E n \in Names, f \in FBlocks, p \in Payloads : StoreBlock(n, f, p)
    \/ \E n \in Names, f \in FBlocks : ServeBlock(n, f)
    \/ \E n \in Names : DeleteFile(n)

ServerInit == Init /\ request = << >>

Spec == ServerInit /\ [][Next]_serverVars

----------------------------------------------------------------------------
\* Every ASSERT of storage.c holds, and no slot outside the array is written.
NeverFaults == ~faulted /\ alive

(***************************************************************************)
(* A slot is in use exactly when a map entry of some file points at it: no *)
(* slot leaks when files go, and none that holds a block is given away.    *)
(***************************************************************************)
SlotFlagsExact ==
    \A s \in Slots : used[s] <=> \E n \in Names : \E i \in DOMAIN maps[n] : maps[n][i].cblock = s

(***************************************************************************)
(* No two map entries, of one file or of two, share a slot: the content of *)
(* a block cannot be overwritten by storing another.                       *)
(***************************************************************************)
NoSlotShared ==
    \A n1, n2 \in Names : \A i \in DOMAIN maps[n1], j \in DOMAIN maps[n2] :
        maps[n1][i].cblock = maps[n2][j].cblock => n1 = n2 /\ i = j

(***************************************************************************)
(* The head of a map is its least block and no block has two entries.      *)
(* map_add, which compares a new block with the head before it searches,   *)
(* needs the first to keep the second.                                     *)
(***************************************************************************)
HeadIsLeast ==
    \A n \in Names : \A i \in DOMAIN maps[n] :
        /\ maps[n][1].fblock <= maps[n][i].fblock
        /\ \A j \in DOMAIN maps[n] : maps[n][i].fblock = maps[n][j].fblock => i = j

(***************************************************************************)
(* A content record exists, once, for exactly the files that have a block. *)
(* get_fblock depends on it: a name without a record crashes it.           *)
(***************************************************************************)
ListedHaveBlocks ==
    /\ \A i, j \in DOMAIN clist : clist[i] = clist[j] => i = j
    /\ \A n \in Names : n \in Listed <=> maps[n] # << >>

----------------------------------------------------------------------------
\* The abstract store is what readers find.
Store == [n \in Names |-> [f \in FBlocks |-> Content(n, f)]]

Abstract == INSTANCE FileCache WITH store <- Store, Capacity <- NumBlocks

(***************************************************************************)
(* The cache implements FileCache: a read returns the content last stored  *)
(* for that block of that file, storing or dropping one file leaves the    *)
(* others alone, and a block is refused only when NumBlocks are held.      *)
(***************************************************************************)
ImplementsFileCache == Abstract!ASpec

=============================================================================
