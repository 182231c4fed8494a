----------------------------- MODULE FileServer -----------------------------
(***************************************************************************)
(* What a file server promises: the blocks of a file that commands ask for *)
(* are owed, and every block owed is sent once.  It may forget what it     *)
(* owes of a file.  JobServer, the threaded server, implements this;       *)
(* Torrent, a client of such a server, relies on no more.                  *)
(***************************************************************************)
EXTENDS Bits

CONSTANTS
    Files,      \* file names in commands
    Size,       \* blocks of each file
    Requests    \* lists of ranges in commands, as sets of pairs

VARIABLE owed   \* for each file, the blocks still to be sent

\* The marks that a command makes.
Marks(f, ranges, lost) == UNION {SetRange(r, Size[f], lost) : r \in ranges}

Init == owed = [f \in Files |-> {}]

\* A command arrives.
Ask(f, ranges) ==
    \E lost \in BOOLEAN : owed' = [owed EXCEPT ![f] = @ \cup Marks(f, ranges, lost)]

\* A block is sent.
Give(f, b) ==
    /\ b \in owed[f]
    /\ owed' = [owed EXCEPT ![f] = @ \ {b}]

\* What was owed is lost with the job.
Forget(f) == owed' = [owed EXCEPT ![f] = {}]

Next ==
    \E f \in Files :
        \/ \E rs \in Requests : Ask(f, rs)
        \/ \E b \in owed[f] : Give(f, b)
        \/ Forget(f)

Spec == Init /\ [][Next]_owed

=============================================================================
