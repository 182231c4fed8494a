----------------------------- MODULE FileCache -----------------------------
(***************************************************************************)
(* What a squirrel server promises as a block store: a partial function    *)
(* from the blocks of files to their contents, of bounded size.            *)
(*                                                                         *)
(* BlockCache, the server's use of a6/storage.c, implements it.            *)
(***************************************************************************)
EXTENDS Naturals, FiniteSets

CONSTANTS Names, FBlocks, Payloads, Capacity, NoBlock

VARIABLES
    store,      \* store[n][f] is the content of block f of file n, or NoBlock
    request,    \* the last request
    reply       \* what it was told

avars == <<store, request, reply>>

Held == {k \in Names \X FBlocks : store[k[1]][k[2]] # NoBlock}
HoldsSome(n) == \E f \in FBlocks : store[n][f] # NoBlock

Accepted == [ok |-> TRUE, block |-> NoBlock]
Refused == [ok |-> FALSE, block |-> NoBlock]

AInit ==
    /\ store = [n \in Names |-> [f \in FBlocks |-> NoBlock]]
    /\ request = << >>
    /\ reply = Refused

\* A block is stored, in place of its older content if it has one.
APut(n, f, p) ==
    /\ request' = <<"put", n, f, p>>
    /\ Cardinality(Held) < Capacity
    /\ store' = [store EXCEPT ![n][f] = p]
    /\ reply' = Accepted

\* A full cache refuses every block, those it already holds included.
ARefuse(n, f, p) ==
    /\ request' = <<"put", n, f, p>>
    /\ Cardinality(Held) = Capacity
    /\ reply' = Refused
    /\ UNCHANGED store

\* A read returns exactly what is stored.
AGet(n, f) ==
    /\ request' = <<"get", n, f>>
    /\ HoldsSome(n)
    /\ reply' = IF store[n][f] = NoBlock THEN Refused
                ELSE [ok |-> TRUE, block |-> store[n][f]]
    /\ UNCHANGED store

\* A file is dropped with all its blocks, and no other file's.
ADrop(n) ==
    /\ request' = <<"drop", n>>
    /\ store' = [store EXCEPT ![n] = [f \in FBlocks |-> NoBlock]]
    /\ reply' = IF HoldsSome(n) THEN Accepted ELSE Refused

ANext ==
    \/ \E n \in Names, f \in FBlocks, p \in Payloads : APut(n, f, p) \/ ARefuse(n, f, p)
    \/ \E n \in Names, f \in FBlocks : AGet(n, f)
    \/ \E n \in Names : ADrop(n)

ASpec == AInit /\ [][ANext]_avars

=============================================================================
