----------------------------- MODULE ForkServer -----------------------------
(***************************************************************************)
(* The forking datagram server of a5/Datagrams_and_Uncertainty/recv3.c.    *)
(*                                                                         *)
(* The parent forks a child for every datagram, and waits while MAXFORKS   *)
(* of them are counted.  The count goes up in the parent's loop and down   *)
(* in the handler of SIGCHLD, which may interrupt the loop anywhere but in *)
(* atomic_inc and atomic_read, where the signal is blocked.                *)
(*                                                                         *)
(* The kernel's part: a child that exits is a zombie until waitpid takes   *)
(* it, and makes SIGCHLD pending.  A signal that is pending already does   *)
(* not become pending twice.  While the handler runs the signal is blocked *)
(* (what signal() means to the C library the Makefile links).              *)
(***************************************************************************)
EXTENDS Integers

CONSTANT MaxForks       \* MAXFORKS

ASSUME MaxForksAssumption == MaxForks \in Nat \ {0}

VARIABLES
    pc,         \* where main() is
    children,   \* the counter
    count,      \* what atomic_read returned
    running,    \* children that have not exited yet
    zombies,    \* children that have exited and have not been waited for
    lost,       \* forks that failed
    pending,    \* SIGCHLD is pending
    handling    \* reaper() is running and has not called waitpid yet

vars == <<pc, children, count, running, zombies, lost, pending, handling>>
kernelVars == <<running, zombies, lost, pending>>

TypeOK ==
    /\ pc \in {"recv", "read", "test", "sleep", "fork", "inc"}
    /\ children \in -1 .. MaxForks
    /\ count \in 0 .. MaxForks
    /\ running \in 0 .. MaxForks
    /\ zombies \in 0 .. MaxForks
    /\ lost \in 0 .. MaxForks
    /\ pending \in BOOLEAN
    /\ handling \in BOOLEAN

----------------------------------------------------------------------------
Init ==
    /\ pc = "recv"
    /\ children = 0
    /\ count = 0
    /\ running = 0 /\ zombies = 0 /\ lost = 0
    /\ pending = FALSE /\ handling = FALSE

\* The handler interrupts main(), which goes on when the handler returns.
Main == ~handling

\* recvfrom() returns a datagram.
Receive ==
    /\ Main /\ pc = "recv"
    /\ pc' = "read"
    /\ UNCHANGED <<children, count, kernelVars, handling>>

\* atomic_read()
AtomicRead ==
    /\ Main /\ pc = "read"
    /\ count' = children
    /\ pc' = "test"
    /\ UNCHANGED <<children, kernelVars, handling>>

\* Mutant: one child too many is let in.
TestOffByOne ==
    /\ Main /\ pc = "test"
    /\ pc' = IF count > MaxForks THEN "sleep" ELSE "fork"
    /\ UNCHANGED <<children, count, kernelVars, handling>>

\* The condition of the while loop, on what was read.
Test ==
    /\ Main /\ pc = "test"
    /\ pc' = IF count >= MaxForks THEN "sleep" ELSE "fork"
    /\ UNCHANGED <<children, count, kernelVars, handling>>

\* Mutant: the counter is read once, before the loop.
WakeUnread ==
    /\ Main /\ pc = "sleep"
    /\ pc' = "test"
    /\ UNCHANGED <<children, count, kernelVars, handling>>

\* sleep(1) ends.
Wake ==
    /\ Main /\ pc = "sleep"
    /\ pc' = "read"
    /\ UNCHANGED <<children, count, kernelVars, handling>>

\* fork() returns the number of a child ...
Fork ==
    /\ Main /\ pc = "fork"
    /\ running' = running + 1
    /\ pc' = "inc"
    /\ UNCHANGED <<children, count, zombies, lost, pending, handling>>

\* ... or -1, which the code takes for one.
ForkFails ==
    /\ Main /\ pc = "fork"
    /\ lost' = lost + 1
    /\ pc' = "inc"
    /\ UNCHANGED <<children, count, running, zombies, pending, handling>>

\* Mutant: the count is what atomic_read returned, and one.
AtomicIncStale ==
    /\ Main /\ pc = "inc"
    /\ children' = count + 1
    /\ pc' = "recv"
    /\ UNCHANGED <<count, kernelVars, handling>>

\* atomic_inc()
AtomicInc ==
    /\ Main /\ pc = "inc"
    /\ children' = children + 1
    /\ pc' = "recv"
    /\ UNCHANGED <<count, kernelVars, handling>>

\* The child's exit(0).
Exit ==
    /\ running > 0
    /\ running' = running - 1
    /\ zombies' = zombies + 1
    /\ pending' = TRUE
    /\ UNCHANGED <<pc, children, count, lost, handling>>

\* The signal is delivered: reaper() is entered.
Deliver ==
    /\ pending /\ ~handling
    /\ pending' = FALSE
    /\ handling' = TRUE
    /\ UNCHANGED <<pc, children, count, running, zombies, lost>>

\* waitpid() takes one zombie, if there is one, and reaper() returns.
Reap ==
    /\ handling
    /\ IF zombies > 0
         THEN /\ zombies' = zombies - 1
              /\ children' = children - 1
         ELSE UNCHANGED <<zombies, children>>
    /\ handling' = FALSE
    /\ UNCHANGED <<pc, count, running, lost, pending>>

Next ==
    \/ Receive \/ AtomicRead \/ Test \/ Wake
    \/ Fork \/ ForkFails \/ AtomicInc
    \/ Exit \/ Deliver \/ Reap

(***************************************************************************)
(* The parent is scheduled whenever it can run, sleep(1) ends, a child     *)
(* ends what it does, and the kernel delivers a pending signal.  Datagrams *)
(* need not arrive.                                                        *)
(***************************************************************************)
Fairness ==
    /\ WF_vars(AtomicRead \/ Test \/ Wake \/ Fork \/ ForkFails \/ AtomicInc)
    /\ WF_vars(Exit)
    /\ WF_vars(Deliver)
    /\ WF_vars(Reap)

Spec == Init /\ [][Next]_vars
FairSpec == Spec /\ Fairness

----------------------------------------------------------------------------
\* The fork that atomic_inc has not counted yet.
Uncounted == IF pc = "inc" THEN 1 ELSE 0

(***************************************************************************)
(* The counter is exact about what it counts: every fork that was counted  *)
(* and whose child has not been waited for.  The loop and the handler do   *)
(* not lose each other's updates, although a child may be reaped before it *)
(* is counted (the counter is then -1 for a moment).                       *)
(***************************************************************************)
CounterExact == children + Uncounted = running + zombies + lost

(***************************************************************************)
(* There are never more than MAXFORKS processes to this server, zombies    *)
(* included, although the test uses a count that may be out of date.       *)
(***************************************************************************)
ForkLimit == running + zombies + lost <= MaxForks

(***************************************************************************)
(* A server that waits for a child goes on to fork when there is a child   *)
(* that runs: one signal is enough, whatever signals were lost before.     *)
(***************************************************************************)
WaitEnds == pc = "sleep" /\ running > 0 ~> pc = "fork"

(***************************************************************************)
(* recv3.c:21 on the counter: "number of active children".  At rest, with  *)
(* no signal to come and no fork that failed, it is what the counter says. *)
(***************************************************************************)
CountsActive ==
    pc = "recv" /\ ~pending /\ ~handling /\ lost = 0 => children = running

=============================================================================
