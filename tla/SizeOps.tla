------------------------------ MODULE SizeOps -------------------------------
(***************************************************************************)
(* The functions of a6/storage.c on the list of file sizes (lines 176 to   *)
(* 241), as functions of the list: a sequence of records with a name and a *)
(* size, meant to be ordered by name.  Names are integers, which strcmp    *)
(* orders.                                                                 *)
(***************************************************************************)
EXTENDS Lists

SizeEntry(N, Z) == [name : N, size : Z]

NameAt(m, n) == {i \in DOMAIN m : m[i].name = n}

\* Mutant: the list is read to its end.
SizeGetLast(m, n) ==
    IF NameAt(m, n) = {} THEN -1
    ELSE m[CHOOSE i \in NameAt(m, n) : \A j \in NameAt(m, n) : j <= i].size

\* size_get(): the size of the first entry for the name, -1 without one.
SizeGet(m, n) == IF NameAt(m, n) = {} THEN -1 ELSE m[First(NameAt(m, n))].size

(***************************************************************************)
(* size_remember().  The scan stops at the last entry that is smaller than *)
(* the name, one before an entry for the name itself, so that only an      *)
(* entry at the head is ever found and updated.                            *)
(***************************************************************************)
StopAt(m, n) == First({i \in DOMAIN m : i = Len(m) \/ n <= m[i + 1].name})

\* Mutant: the new entry goes before the one at which the scan stops.
SizeRememberBefore(m, n, z) ==
    LET new == [name |-> n, size |-> z]
    IN  IF m = << >> \/ n < m[1].name
          THEN <<new>> \o m
          ELSE SX!InsertAt(m, StopAt(m, n), new)

SizeRemember(m, n, z) ==
    LET new == [name |-> n, size |-> z]
    IN  IF m = << >> \/ n < m[1].name
          THEN <<new>> \o m
        ELSE IF m[StopAt(m, n)].name = n
          THEN [m EXCEPT ![StopAt(m, n)] = new]
        ELSE SX!InsertAt(m, StopAt(m, n) + 1, new)

(***************************************************************************)
(* size_forget().  A head entry is removed alone.  Behind the head the     *)
(* scan moves on past the entry that follows a removed one, so of a run of *)
(* entries for the name every second one stays.                            *)
(***************************************************************************)
\* Mutant: the case of the head is left out.
SizeForgetBehind(m, n) == KeepOnly(m, DOMAIN m \ (NameAt(m, n) \ {1}))

Removed(m, n) ==
    IF 1 \in NameAt(m, n) THEN {1}
    ELSE {i \in NameAt(m, n) : (i - First(NameAt(m, n))) % 2 = 0}

SizeForget(m, n) == KeepOnly(m, DOMAIN m \ Removed(m, n))

\* The list is in name order: what the scan of size_remember depends on.
InOrder(m) == \A i, j \in DOMAIN m : i < j => m[i].name <= m[j].name

=============================================================================
