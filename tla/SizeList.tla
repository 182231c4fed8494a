------------------------------ MODULE SizeList ------------------------------
(***************************************************************************)
(* The list of file sizes of a squirrel server (a6/storage.c, behind       *)
(* remember_size, get_size and forget_size).  A file is known to the       *)
(* server that put it by its size alone: get() and del() of                *)
(* a6/operations.c answer a client from this list.                         *)
(*                                                                         *)
(* The list is meant to be ordered by name and to hold a name once.        *)
(***************************************************************************)
EXTENDS SizeOps

CONSTANTS
    FileNames,  \* file names, as integers that strcmp orders
    Sizes,      \* file sizes
    MaxLen      \* bound: no size is remembered when the list is this long

ASSUME FileNamesAssumption == FileNames \subseteq Int
ASSUME SizesAssumption == Sizes \subseteq Nat

VARIABLES
    sizes,      \* the list that starts at size_head
    latest      \* history: the size last remembered and not forgotten, or -1

sizeVars == <<sizes, latest>>

Item == SizeEntry(FileNames, Sizes)

SizeTypeOK ==
    /\ sizes \in Seq(Item)
    /\ latest \in [FileNames -> Sizes \cup {-1}]

----------------------------------------------------------------------------
SizeInit ==
    /\ sizes = << >>
    /\ latest = [n \in FileNames |-> -1]

\* put() of a file.
RememberSize(n, z) ==
    /\ Len(sizes) < MaxLen
    /\ sizes' = SizeRemember(sizes, n, z)
    /\ latest' = [latest EXCEPT ![n] = z]

\* del() of a file: nothing happens unless its size is known.
ForgetSize(n) ==
    /\ SizeGet(sizes, n) >= 0
    /\ sizes' = SizeForget(sizes, n)
    /\ latest' = [latest EXCEPT ![n] = -1]

SizeNext ==
    \/ \E n \in FileNames, z \in Sizes : RememberSize(n, z)
    \/ \E n \in FileNames : ForgetSize(n)

SizeSpec == SizeInit /\ [][SizeNext]_sizeVars

----------------------------------------------------------------------------
(***************************************************************************)
(* The list stays in name order, whatever is remembered and forgotten: the *)
(* scan of size_remember, which stops early, depends on it.                *)
(***************************************************************************)
WellFormed == SizeTypeOK /\ InOrder(sizes)

(***************************************************************************)
(* get_size answers with the size remembered last, although older entries  *)
(* for the name may still be in the list and those of other names come and *)
(* go.                                                                     *)
(***************************************************************************)
LatestIsRead == \A n \in FileNames : latest[n] # -1 => SizeGet(sizes, n) = latest[n]

(***************************************************************************)
(* What is left of storage.h's "forget a size": the file has no size after *)
(* forget_size if its name was in the list once.  A name that was entered  *)
(* twice may keep an old size; then the entries for it become fewer.       *)
(***************************************************************************)
ForgetsOne(n) ==
    /\ Cardinality(NameAt(sizes, n)') < Cardinality(NameAt(sizes, n))
    /\ Cardinality(NameAt(sizes, n)) = 1 => SizeGet(sizes, n)' = -1
Forgets == \A n \in FileNames : ForgetSize(n) => ForgetsOne(n)

OnceIsForgotten == [][Forgets]_sizeVars

=============================================================================
