-------------------------- MODULE ForkServerProofs --------------------------
(***************************************************************************)
(* The counter of recv3.c is exact and its limit is kept, for any MAXFORKS *)
(* and wherever the handler of SIGCHLD interrupts the loop.                *)
(***************************************************************************)
EXTENDS ForkServer, TLAPS

(***************************************************************************)
(* From the moment atomic_read has its answer, and until the fork is       *)
(* counted, only the handler changes the counter, and only downwards: the  *)
(* answer may be out of date, but then it is too high.                     *)
(***************************************************************************)
ReadIsUpperBound ==
    /\ pc \in {"test", "fork"} => children <= count
    /\ pc = "fork" => count < MaxForks
    /\ pc = "inc" => children < MaxForks

Inv == TypeOK /\ CounterExact /\ ForkLimit /\ ReadIsUpperBound

LEMMA InitInv == Init => Inv
<1>1. Init => pending \in BOOLEAN /\ handling \in BOOLEAN
  BY Zenon DEF Init
<1>2. pc = "recv" /\ children = 0 /\ count = 0 /\ running = 0 /\ zombies = 0 /\ lost = 0
        => /\ pc \in {"recv", "read", "test", "sleep", "fork", "inc"}
           /\ children \in -1 .. MaxForks
           /\ count \in 0 .. MaxForks
           /\ running \in 0 .. MaxForks
           /\ zombies \in 0 .. MaxForks
           /\ lost \in 0 .. MaxForks
           /\ CounterExact /\ ForkLimit /\ ReadIsUpperBound
  BY MaxForksAssumption DEF CounterExact, Uncounted, ForkLimit, ReadIsUpperBound
<1>. QED BY <1>1, <1>2, Zenon DEF Init, Inv, TypeOK

LEMMA NextInv == Inv /\ [Next]_vars => Inv'
<1>. SUFFICES ASSUME Inv, [Next]_vars PROVE Inv'
  OBVIOUS
<1>. USE DEF Inv, TypeOK, CounterExact, Uncounted, ForkLimit, ReadIsUpperBound, kernelVars
<1>1. CASE Receive
  BY <1>1, MaxForksAssumption DEF Receive
<1>2. CASE AtomicRead
  \* atomic_read runs with no fork uncounted, so it never returns -1.
  BY <1>2, MaxForksAssumption DEF AtomicRead
<1>3. CASE Test
  BY <1>3, MaxForksAssumption DEF Test
<1>4. CASE Wake
  BY <1>4, MaxForksAssumption DEF Wake
<1>5. CASE Fork
  BY <1>5, MaxForksAssumption DEF Fork
<1>6. CASE ForkFails
  BY <1>6, MaxForksAssumption DEF ForkFails
<1>7. CASE AtomicInc
  BY <1>7, MaxForksAssumption DEF AtomicInc
<1>8. CASE Exit
  BY <1>8, MaxForksAssumption DEF Exit
<1>9. CASE Deliver
  BY <1>9, MaxForksAssumption DEF Deliver
<1>10. CASE Reap
  <2>1. /\ pc' = pc /\ count' = count /\ running' = running /\ lost' = lost
        /\ pending' \in BOOLEAN /\ handling' \in BOOLEAN
        /\ \/ zombies > 0 /\ zombies' = zombies - 1 /\ children' = children - 1
           \/ zombies' = zombies /\ children' = children
    BY <1>10, Zenon DEF Reap
  <2>. QED BY <2>1, MaxForksAssumption
<1>11. CASE UNCHANGED vars
  BY <1>11, MaxForksAssumption DEF vars
<1>. QED
  BY <1>1, <1>2, <1>3, <1>4, <1>5, <1>6, <1>7, <1>8, <1>9, <1>10, <1>11 DEF Next

----------------------------------------------------------------------------
\* The invariant of the loop and the handler.
THEOREM ServerInvariant == Spec => []Inv
  BY InitInv, NextInv, PTL DEF Spec

\* The variables keep their types; the counter is never below -1.
THEOREM TypeCorrect == Spec => []TypeOK
<1>1. Inv => TypeOK
  BY DEF Inv
<1>. QED BY <1>1, ServerInvariant, PTL

\* No update of the counter is lost between atomic_inc and reaper.
THEOREM CounterCorrect == Spec => []CounterExact
<1>1. Inv => CounterExact
  BY DEF Inv
<1>. QED BY <1>1, ServerInvariant, PTL

\* The limit on the forks is kept although it is tested on a stale count.
THEOREM LimitKept == Spec => []ForkLimit
<1>1. Inv => ForkLimit
  BY DEF Inv
<1>. QED BY <1>1, ServerInvariant, PTL

=============================================================================
