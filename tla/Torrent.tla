------------------------------ MODULE Torrent -------------------------------
(***************************************************************************)
(* The torrent client of a2/client.c, a network that loses, reorders and   *)
(* duplicates datagrams, and a file server that keeps FileServer's promise.*)
(*                                                                         *)
(* The client asks for the whole file, writes each block that arrives, and *)
(* asks again for the blocks that are missing when a second passes without *)
(* a datagram or when three quarters of the blocks it asked for have come. *)
(***************************************************************************)
EXTENDS FiniteSets, Bits

CONSTANTS
    File,           \* the file name in the commands
    N,              \* blocks of the file
    MaxRanges,      \* ranges in one command, 12 in the code
    MaxInt,         \* the last block of the first command
    Foreign,        \* a block of another file
    Short,          \* a datagram that has not the size of a block
    Strays,         \* those of them that are under way
    MaxCommands     \* bound on the commands under way

ASSUME SizeAssumption == N \in Nat \ {0}
ASSUME MaxRangesAssumption == MaxRanges \in Nat \ {0}
ASSUME MaxIntAssumption == MaxInt \in Nat /\ MaxInt >= N
ASSUME StraysAssumption == Foreign # Short /\ Strays \subseteq {Foreign, Short}
ASSUME StraysAreNoBlocks == Strays \cap Int = {}
ASSUME MaxCommandsAssumption == MaxCommands \in Nat

VARIABLES
    phase,              \* no block yet, in the loop, finished, or exit(1)
    reading,            \* recv_block() waits in recvfrom() for a good datagram
    blocksNeeded,       \* bits of the blocks that are missing
    written,            \* blocks in the local file
    numBlocksNeeded,    \* blocks asked for, as the client counts them
    numBlocksRecieved,  \* new blocks since then
    commands,           \* commands under way
    blocks,             \* blocks and stray datagrams under way
    owed                \* blocks of the file the server still has to send

counters == <<numBlocksNeeded, numBlocksRecieved>>
client == <<phase, reading, blocksNeeded, written, counters>>
vars == <<client, commands, blocks, owed>>

Blocks == 0 .. N - 1
Ranges == Nat \X Nat

TypeOK ==
    /\ phase \in {"open", "loop", "done", "exited"}
    /\ reading \in BOOLEAN
    /\ blocksNeeded \in SUBSET Blocks
    /\ written \in SUBSET Blocks
    /\ numBlocksNeeded \in Nat
    /\ numBlocksRecieved \in Nat
    /\ commands \in SUBSET SUBSET Ranges
    /\ blocks \in SUBSET (Blocks \cup Strays)
    /\ owed \in [{File} -> SUBSET Blocks]

Server == INSTANCE FileServer WITH
    Files <- {File}, Size <- [f \in {File} |-> N], Requests <- SUBSET Ranges

----------------------------------------------------------------------------
(***************************************************************************)
(* requestMissingBlocks(): one range for each run of missing blocks.  The  *)
(* run that reaches the end of the file is closed one block too far, and   *)
(* is not counted.                                                         *)
(***************************************************************************)
Runs(missing) ==
    {r \in Blocks \X Blocks :
        r[1] <= r[2] /\ r[1] .. r[2] \subseteq missing
        /\ r[1] - 1 \notin missing /\ r[2] + 1 \notin missing}
Closed(r) == IF r[2] = N - 1 THEN <<r[1], N>> ELSE r

\* Mutant: the run that reaches the end of the file is left out.
CommandsUnfinished(missing) ==
    {{r} : r \in {q \in Runs(missing) : q[2] # N - 1}}

\* Commands of MaxRanges ranges each, and one with the rest.
CommandOf(r, missing) ==
    Cardinality({q \in Runs(missing) : q[1] < r[1]}) \div MaxRanges
Commands(missing) ==
    {{Closed(q) : q \in {q \in Runs(missing) : CommandOf(q, missing) = CommandOf(r, missing)}}
        : r \in Runs(missing)}

Counted(missing) ==
    Cardinality(missing \ UNION {r[1] .. r[2] : r \in {q \in Runs(missing) : q[2] = N - 1}})

\* Commands enter the network, which drops older ones rather than hold too many.
Post(cmds) ==
    commands' = IF Cardinality(commands \cup cmds) <= MaxCommands
                THEN commands \cup cmds
                ELSE cmds

\* Mutant: the count of new blocks goes on.
RequestMissingBlocksUnreset ==
    /\ Post(Commands(blocksNeeded))
    /\ numBlocksNeeded' = Counted(blocksNeeded)
    /\ UNCHANGED numBlocksRecieved

RequestMissingBlocks ==
    /\ Post(Commands(blocksNeeded))
    /\ numBlocksNeeded' = Counted(blocksNeeded)
    /\ numBlocksRecieved' = 0

\* makeRequest(): 75 percent of the blocks asked for, plus one.
Limit == (3 * numBlocksNeeded) \div 4 + 1

----------------------------------------------------------------------------
\* The file has been created and the first command sent.
Init ==
    /\ phase = "open"
    /\ reading = FALSE
    /\ blocksNeeded = {}
    /\ written = {}
    /\ numBlocksNeeded = MaxInt
    /\ numBlocksRecieved = 0
    /\ commands = {{<<0, MaxInt>>}}
    /\ blocks = Strays
    /\ Server!Init

\* A second passes, and there has not been any block: exit(1).
GiveUp ==
    /\ phase = "open"
    /\ ~reading
    /\ phase' = "exited"
    /\ UNCHANGED <<reading, blocksNeeded, written, counters, commands, blocks, owed>>

\* Mutant: the client goes on waiting.
TimeoutWaits ==
    /\ phase = "loop"
    /\ ~reading
    /\ UNCHANGED vars

\* A second passes.
Timeout ==
    /\ phase = "loop"
    /\ ~reading
    /\ RequestMissingBlocks
    /\ UNCHANGED <<phase, reading, blocksNeeded, written, blocks, owed>>

\* A datagram waits, but enough have come to ask for more first.
RequestMore ==
    /\ phase = "loop"
    /\ ~reading
    /\ blocks # {}
    /\ numBlocksRecieved = Limit
    /\ RequestMissingBlocks
    /\ UNCHANGED <<phase, reading, blocksNeeded, written, blocks, owed>>

(***************************************************************************)
(* recv_block() is called when select() finds input and makeRequest() says *)
(* no, and goes on when it waits already.  A block of the file that is     *)
(* read may arrive once more.                                              *)
(***************************************************************************)
Ready ==
    /\ phase \in {"open", "loop"}
    /\ reading \/ numBlocksRecieved # Limit
Take(m) ==
    /\ m \in blocks
    /\ \/ blocks' = blocks \ {m}
       \/ m \in Blocks /\ UNCHANGED blocks

\* A datagram of the wrong size: recv_block() reads again, without select().
ReadShort ==
    /\ Ready
    /\ Take(Short)
    /\ reading' = TRUE
    /\ UNCHANGED <<phase, blocksNeeded, written, counters, commands, owed>>

\* Mutant: the bit is cleared before it is known what the block is.
ReadForeignClears ==
    /\ Ready
    /\ Take(Foreign)
    /\ reading' = FALSE
    /\ blocksNeeded' = blocksNeeded \ {0}
    /\ UNCHANGED <<phase, written, counters, commands, owed>>

\* A block of another file is ignored.
ReadForeign ==
    /\ Ready
    /\ Take(Foreign)
    /\ reading' = FALSE
    /\ UNCHANGED <<phase, blocksNeeded, written, counters, commands, owed>>

\* A block is written, counted if it is new, and no longer missing.
Receive(b) ==
    LET missing == IF phase = "open" THEN Blocks ELSE blocksNeeded
        received == IF phase = "open" THEN 0 ELSE numBlocksRecieved
    IN  /\ Ready
        /\ Take(b)
        /\ reading' = FALSE
        /\ blocksNeeded' = missing \ {b}
        /\ written' = written \cup {b}
        /\ numBlocksNeeded' = IF phase = "open" THEN N ELSE numBlocksNeeded
        /\ numBlocksRecieved' = IF b \in missing THEN received + 1 ELSE received
        /\ phase' = IF missing \ {b} = {} THEN "done" ELSE "loop"
        /\ UNCHANGED <<commands, owed>>

----------------------------------------------------------------------------
\* A command reaches the server; it may arrive once more.
Deliver(c) ==
    /\ c \in commands
    /\ commands' \in {commands, commands \ {c}}
    /\ Server!Ask(File, c)
    /\ UNCHANGED <<client, blocks>>

\* The server sends a block, or forgets what it was asked for.
Give(b) ==
    /\ Server!Give(File, b)
    /\ blocks' = blocks \cup {b}
    /\ UNCHANGED <<client, commands>>
Forget ==
    /\ Server!Forget(File)
    /\ UNCHANGED <<client, commands, blocks>>

\* A datagram is lost.
LoseCommand ==
    /\ \E c \in commands : commands' = commands \ {c}
    /\ UNCHANGED <<client, blocks, owed>>
LoseBlock ==
    /\ \E m \in blocks : blocks' = blocks \ {m}
    /\ UNCHANGED <<client, commands, owed>>

Next ==
    \/ GiveUp \/ Timeout \/ RequestMore \/ ReadShort \/ ReadForeign
    \/ \E b \in Blocks : Receive(b) \/ Give(b)
    \/ \E c \in commands : Deliver(c)
    \/ Forget \/ LoseCommand \/ LoseBlock

\* The blocks a command asks for.
Asked(c) == UNION {BitRange(r, N) : r \in c}

(***************************************************************************)
(* The clock goes on.  Any datagram may be lost, but not all of those that *)
(* would mark some block, whatever the shift does, or that carry it; and a *)
(* server does not forget a block each time.                               *)
(***************************************************************************)
Fairness ==
    /\ WF_vars(GiveUp \/ Timeout)
    /\ \A b \in Blocks :
          /\ SF_vars(\E c \in commands : b \in Server!Marks(File, c, TRUE) /\ Deliver(c))
          /\ SF_vars(Give(b))
          /\ SF_vars(Receive(b))

Spec == Init /\ [][Next]_vars
FairSpec == Spec /\ Fairness

----------------------------------------------------------------------------
(***************************************************************************)
(* The blocks missing are those that were not written, so that the client  *)
(* finishes with the whole file and not before, whatever is lost, repeated *)
(* or astray.                                                              *)
(***************************************************************************)
NeededExact ==
    /\ phase \in {"loop", "done"} => blocksNeeded = Blocks \ written
    /\ phase = "done" <=> written = Blocks

(***************************************************************************)
(* makeRequest() compares the count with its limit for equality.  The      *)
(* count never passes the limit, although both are reset at different      *)
(* times: the rule never goes out of action.                               *)
(***************************************************************************)
WithinLimit == phase # "open" => numBlocksRecieved <= Limit

(***************************************************************************)
(* The commands of a request ask for all missing blocks and no other, each *)
(* in one command only, although the last range is closed too far.         *)
(***************************************************************************)
AsksForMissing ==
    LET cmds == Commands(blocksNeeded)
    IN  /\ UNION {Asked(c) : c \in cmds} = blocksNeeded
        /\ \A c \in cmds : Cardinality(c) <= MaxRanges
        /\ \A c, d \in cmds : c # d => Asked(c) \cap Asked(d) = {}

(***************************************************************************)
(* The server marks what a command asks for, word by word, unless a range  *)
(* starts at the second bit of a word and ends in another; then it may     *)
(* miss blocks but marks none that was not asked for.                      *)
(***************************************************************************)
MarksExactly(c) ==
    /\ owed'[File] \subseteq owed[File] \cup Asked(c)
    /\ owed'[File] = owed[File] \cup Asked(c) \/ \E r \in c : Undefined(r, N)
DeliveriesMark == \A c \in commands : Deliver(c) => MarksExactly(c)
MarkedIsAsked == [][DeliveriesMark]_vars

(***************************************************************************)
(* The client ends, with the file or because nothing ever came; or, after  *)
(* a datagram of the wrong size, it waits in recvfrom() for ever, where no *)
(* timeout reaches it.                                                     *)
(***************************************************************************)
Finish == <>(phase \in {"done", "exited"}) \/ <>[]reading

=============================================================================
