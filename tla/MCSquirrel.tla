----------------------------- MODULE MCSquirrel -----------------------------
(***************************************************************************)
(* Squirrel for TLC: four servers, two of which have clients and put       *)
(* blocks of a file.                                                       *)
(***************************************************************************)
EXTENDS Squirrel

MCServers == 1 .. 4
MCNames == {5, 25}
\* The full name of file 5 at server 2 is a name a client may use, too.
MCFullName ==
    [x \in MCServers \X MCNames |-> (IF x[2] = 5 THEN 10 ELSE 100) * x[1] + x[2]]

Op(op, n, z) == [op |-> op, name |-> n, blocks |-> z]
MCRequests == [s \in MCServers |->
    CASE s = 1 -> {Op("put", 5, 1)}
      [] s = 2 -> {Op("put", 5, z) : z \in {0, 1}} \cup {Op("get", 5, 0)}
                    \cup {Op("del", n, 0) : n \in MCNames}
      [] OTHER -> {}]

=============================================================================
