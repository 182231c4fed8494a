----------------------------- MODULE JobServer ------------------------------
(***************************************************************************)
(* The threaded file server of a6/ft_send_threaded.c.                      *)
(*                                                                         *)
(* main() receives commands, each for some ranges of blocks of one file,   *)
(* and marks the blocks in the job for that file, or makes a new job.  The *)
(* thread job_thread() goes round the list of jobs, sends one block of     *)
(* each, clears its mark, and frees a job that has no marks.               *)
(*                                                                         *)
(* The mutex safetomodify guards every write to the list and to the marks: *)
(* a section under it is one action here.  The thread reads both without   *)
(* it.  The mutex worktodo is used as a bell: main() unlocks it, whether   *)
(* it is locked or not, and the thread locks it to wait for work.          *)
(***************************************************************************)
EXTENDS Lists, Bits

CONSTANTS
    Files,          \* file names in commands
    Size,           \* blocks of each file, 0 if it is empty or cannot be read
    Clients,        \* addresses from which commands arrive
    Requests,       \* lists of ranges in commands, as sets of pairs
    Jobs,           \* addresses of job records
    NoJob,          \* the null pointer
    Mode            \* "normal", "busy" or "goofy"

ASSUME SizeAssumption == Size \in [Files -> Nat]
\* The length that COMMAND_SIZE() gives for no ranges wraps: no command has it.
ASSUME RequestsAssumption ==
    /\ Requests \subseteq SUBSET (Int \X Int)
    /\ {} \notin Requests
ASSUME CommandsAssumption == Files # {} /\ Clients # {} /\ Requests # {}
ASSUME JobsAssumption == NoJob \notin Jobs
ASSUME ModeAssumption == Mode \in {"normal", "busy", "goofy"}

VARIABLES
    jobs,       \* the list that starts at head
    file,       \* for each address, the fields filename,
    client,     \* client_addr,
    todo,       \* todo
    which,      \* and which
    worktodo,   \* worktodo is locked
    mpc,        \* where main() is
    cmd,        \* the command that main() works on
    tpc,        \* where job_thread() is
    cur         \* its pointer j

vars == <<jobs, file, client, todo, which, worktodo, mpc, cmd, tpc, cur>>
recordVars == <<file, client, todo, which>>
mainVars == <<mpc, cmd>>
threadVars == <<tpc, cur>>

Blocks(f) == 0 .. Size[f] - 1
Command == [client : Clients, file : Files, ranges : Requests]
Listed == {jobs[i] : i \in DOMAIN jobs}

TypeOK ==
    /\ jobs \in Seq(Jobs)
    /\ file \in [Jobs -> Files]
    /\ client \in [Jobs -> Clients]
    /\ todo \in [Jobs -> SUBSET Nat]
    /\ which \in [Jobs -> Nat]
    /\ worktodo \in BOOLEAN
    /\ mpc \in {"recv", "find", "push", "wake"}
    /\ cmd \in Command
    /\ tpc \in {"lock", "head", "look", "unlink", "send", "clear"}
    /\ cur \in Jobs \cup {NoJob}

----------------------------------------------------------------------------
\* The marks that a command makes in the bit field of its file's job.
Marks(c, lost) == UNION {SetRange(r, Size[c.file], lost) : r \in c.ranges}

(***************************************************************************)
(* next_one(): the first mark at or after which, cyclically.               *)
(***************************************************************************)
Steps(j, b) == (b - which[j]) % Size[file[j]]
NextOne(j) == CHOOSE b \in todo[j] : \A a \in todo[j] : Steps(j, b) <= Steps(j, a)

\* The place of a listed job, and the job behind it.
Place(j) == CHOOSE i \in DOMAIN jobs : jobs[i] = j
After(j) == IF Place(j) = Len(jobs) THEN NoJob ELSE jobs[Place(j) + 1]

\* The inner loop goes on to job j, or ends.
GoTo(j) ==
    /\ cur' = j
    /\ tpc' = IF j = NoJob THEN "head" ELSE "look"

----------------------------------------------------------------------------
\* Records that are not in use, and the first cmd, are never read.
Init ==
    /\ jobs = << >>
    /\ file = [j \in Jobs |-> CHOOSE f \in Files : TRUE]
    /\ client = [j \in Jobs |-> CHOOSE c \in Clients : TRUE]
    /\ todo = [j \in Jobs |-> {}]
    /\ which = [j \in Jobs |-> 0]
    /\ worktodo = TRUE
    /\ mpc = "recv"
    /\ cmd = CHOOSE c \in Command : TRUE
    /\ tpc = "lock"
    /\ cur = NoJob

\* recvfrom() of a command whose length and file name are in order.
Receive(c) ==
    /\ mpc = "recv"
    /\ cmd' = c
    /\ mpc' = "find"
    /\ UNCHANGED <<jobs, recordVars, worktodo, threadVars>>

\* Mutant: only the first job is looked at.
FindHeadOnly ==
    /\ mpc = "find"
    /\ IF jobs # << >> /\ file[Head(jobs)] = cmd.file
         THEN /\ \E lost \in BOOLEAN :
                     todo' = [todo EXCEPT ![Head(jobs)] = @ \cup Marks(cmd, lost)]
              /\ mpc' = "wake"
         ELSE /\ mpc' = "push"
              /\ UNCHANGED todo
    /\ UNCHANGED <<jobs, file, client, which, worktodo, cmd, threadVars>>

\* Mutant: the marks of the command replace those of the job.
FindReplaces ==
    /\ mpc = "find"
    /\ \/ \E i \in DOMAIN jobs :
            /\ file[jobs[i]] = cmd.file
            /\ \A k \in 1 .. i - 1 : file[jobs[k]] # cmd.file
            /\ \E lost \in BOOLEAN : todo' = [todo EXCEPT ![jobs[i]] = Marks(cmd, lost)]
            /\ mpc' = "wake"
       \/ /\ \A i \in DOMAIN jobs : file[jobs[i]] # cmd.file
          /\ mpc' = "push"
          /\ UNCHANGED todo
    /\ UNCHANGED <<jobs, file, client, which, worktodo, cmd, threadVars>>

(***************************************************************************)
(* The job for the file is looked for and updated in one section under     *)
(* safetomodify.  The name alone is compared, not the client.              *)
(***************************************************************************)
Find ==
    /\ mpc = "find"
    /\ \/ \E i \in DOMAIN jobs :
            /\ file[jobs[i]] = cmd.file
            /\ \A k \in 1 .. i - 1 : file[jobs[k]] # cmd.file
            /\ \E lost \in BOOLEAN :
                  todo' = [todo EXCEPT ![jobs[i]] = @ \cup Marks(cmd, lost)]
            /\ mpc' = "wake"
       \/ /\ \A i \in DOMAIN jobs : file[jobs[i]] # cmd.file
          /\ mpc' = "push"
          /\ UNCHANGED todo
    /\ UNCHANGED <<jobs, file, client, which, worktodo, cmd, threadVars>>

\* The file cannot be opened, or has no block 0.
Ignore ==
    /\ mpc = "push"
    /\ Size[cmd.file] = 0
    /\ mpc' = "recv"
    /\ UNCHANGED <<jobs, recordVars, worktodo, cmd, threadVars>>

\* Mutant: the bell is not rung.
PushSilently(j) ==
    /\ mpc = "push"
    /\ Size[cmd.file] > 0
    /\ j \notin Listed
    /\ file' = [file EXCEPT ![j] = cmd.file]
    /\ client' = [client EXCEPT ![j] = cmd.client]
    /\ \E lost \in BOOLEAN : todo' = [todo EXCEPT ![j] = Marks(cmd, lost)]
    /\ \E b \in Blocks(cmd.file) : which' = [which EXCEPT ![j] = b]
    /\ jobs' = <<j>> \o jobs
    /\ mpc' = "recv"
    /\ UNCHANGED <<worktodo, cmd, threadVars>>

\* A new job, with a random block to start from, goes to the front.
Push(j) ==
    /\ mpc = "push"
    /\ Size[cmd.file] > 0
    /\ j \notin Listed
    /\ file' = [file EXCEPT ![j] = cmd.file]
    /\ client' = [client EXCEPT ![j] = cmd.client]
    /\ \E lost \in BOOLEAN : todo' = [todo EXCEPT ![j] = Marks(cmd, lost)]
    /\ \E b \in Blocks(cmd.file) : which' = [which EXCEPT ![j] = b]
    /\ jobs' = <<j>> \o jobs
    /\ mpc' = "wake"
    /\ UNCHANGED <<worktodo, cmd, threadVars>>

\* pthread_mutex_unlock(&worktodo), "safe to unlock even if unlocked".
Wake ==
    /\ mpc = "wake"
    /\ worktodo' = FALSE
    /\ mpc' = "recv"
    /\ UNCHANGED <<jobs, recordVars, cmd, threadVars>>

----------------------------------------------------------------------------
\* pthread_mutex_lock(&worktodo)
Lock ==
    /\ tpc = "lock"
    /\ ~worktodo
    /\ worktodo' = TRUE
    /\ tpc' = "head"
    /\ UNCHANGED <<jobs, recordVars, mainVars, cur>>

\* while (head)
ReadHead ==
    /\ tpc = "head"
    /\ IF jobs = << >>
         THEN /\ tpc' = "lock"
              /\ UNCHANGED cur
         ELSE GoTo(Head(jobs))
    /\ UNCHANGED <<jobs, recordVars, worktodo, mainVars>>

(***************************************************************************)
(* bits_empty(&j->todo), read without the mutex.  main() may be marking    *)
(* blocks meanwhile; it never clears any, so the answer is that of one     *)
(* moment: all words are 0 when the loop starts, or one is not at its end. *)
(***************************************************************************)
Look ==
    /\ tpc = "look"
    /\ tpc' = IF todo[cur] = {} THEN "unlink" ELSE "send"
    /\ UNCHANGED <<jobs, recordVars, worktodo, mainVars, cur>>

\* Mutant: the pointer stays with the job that was freed.
UnlinkStays ==
    /\ tpc = "unlink"
    /\ jobs' = SX!RemoveAt(jobs, Place(cur))
    /\ GoTo(cur)
    /\ UNCHANGED <<recordVars, worktodo, mainVars>>

\* The job is taken out of the list and freed, under safetomodify.
Unlink ==
    /\ tpc = "unlink"
    /\ jobs' = SX!RemoveAt(jobs, Place(cur))
    /\ GoTo(After(cur))
    /\ UNCHANGED <<recordVars, worktodo, mainVars>>

(***************************************************************************)
(* One block of the job is chosen and sent (in the modes that inject       *)
(* errors it may only be said to be sent; the job goes on all the same).   *)
(***************************************************************************)
Send ==
    /\ tpc = "send"
    /\ \E b \in todo[cur] :
          /\ Mode # "goofy" => b = NextOne(cur)
          /\ which' = [which EXCEPT ![cur] = b]
    /\ tpc' = "clear"
    /\ UNCHANGED <<jobs, file, client, todo, worktodo, mainVars, cur>>

\* Modes other than normal pass over a job, one time in ten.
Skip ==
    /\ tpc = "send"
    /\ Mode # "normal"
    /\ GoTo(After(cur))
    /\ UNCHANGED <<jobs, recordVars, worktodo, mainVars>>

\* Mutant: blocks are counted from 1.
ClearNext ==
    /\ tpc = "clear"
    /\ todo' = [todo EXCEPT ![cur] = @ \ {which[cur] + 1}]
    /\ GoTo(After(cur))
    /\ UNCHANGED <<jobs, file, client, which, worktodo, mainVars>>

\* The mark is cleared, under safetomodify.
Clear ==
    /\ tpc = "clear"
    /\ todo' = [todo EXCEPT ![cur] = @ \ {which[cur]}]
    /\ GoTo(After(cur))
    /\ UNCHANGED <<jobs, file, client, which, worktodo, mainVars>>

Main == (\E c \in Command : Receive(c)) \/ Find \/ Ignore \/ (\E j \in Jobs : Push(j)) \/ Wake
Thread == Lock \/ ReadHead \/ Look \/ Unlink \/ Send \/ Skip \/ Clear

Next == Main \/ Thread

(***************************************************************************)
(* Both threads are scheduled.  Commands need not arrive, and may never    *)
(* stop.  Every visit draws anew whether to pass over the job, one time in *)
(* ten: no job is passed over for ever.                                    *)
(***************************************************************************)
Fairness ==
    /\ WF_vars(Find \/ Ignore \/ (\E j \in Jobs : Push(j)) \/ Wake)
    /\ WF_vars(Thread)
    /\ \A j \in Jobs : SF_vars(Send /\ cur = j)

Spec == Init /\ [][Next]_vars
FairSpec == Spec /\ Fairness

----------------------------------------------------------------------------
(***************************************************************************)
(* The thread never follows a pointer to a job that was freed, and never   *)
(* frees a job twice: while it works on a job, the job is in the list.     *)
(***************************************************************************)
NoUseAfterFree == tpc \in {"look", "unlink", "send", "clear"} => cur \in Listed

(***************************************************************************)
(* No file has two jobs, although a new job is linked in another section   *)
(* than the one that did not find any.                                     *)
(***************************************************************************)
OneJobPerFile ==
    /\ \A i, k \in DOMAIN jobs : file[jobs[i]] = file[jobs[k]] => i = k
    /\ mpc = "push" => \A i \in DOMAIN jobs : file[jobs[i]] # cmd.file

(***************************************************************************)
(* A block that the thread has sent is still marked when it comes to clear *)
(* the mark, and all marks are of blocks that the file has: read_block,    *)
(* whose failure ends the server, never fails.                             *)
(***************************************************************************)
MarksAreBlocks ==
    /\ \A j \in Listed : todo[j] \subseteq Blocks(file[j])
    /\ tpc = "clear" => which[cur] \in todo[cur]

(***************************************************************************)
(* No wake-up is lost: when the thread waits and there are jobs, the bell  *)
(* has been rung or is about to be.                                        *)
(***************************************************************************)
NoLostWakeup == tpc = "lock" /\ jobs # << >> => ~worktodo \/ mpc = "wake"

(***************************************************************************)
(* The two threads together are a FileServer: the mutexes, jobs that come  *)
(* and go, and looks without a lock do not make them send a block that is  *)
(* not owed, or owe one that nobody asked for.                             *)
(***************************************************************************)
Owed == [f \in Files |-> UNION {todo[j] : j \in {k \in Listed : file[k] = f}}]
Server == INSTANCE FileServer WITH owed <- Owed
ImplementsFileServer == Server!Spec

(***************************************************************************)
(* No file starves another: a marked block of a file is sent, or goes with *)
(* its job, if commands for that file come to an end, however many arrive  *)
(* for other files.  next_one() starts at the block sent last: a client    *)
(* that asks for it again and again can keep the others of its file        *)
(* waiting for ever.                                                       *)
(***************************************************************************)
AskedFor(f) == mpc # "recv" /\ cmd.file = f

MarksAreHandled ==
    \A f \in Files : \A b \in Blocks(f) :
        <>[]~AskedFor(f) => (b \in Owed[f] ~> b \notin Owed[f])

(***************************************************************************)
(* ft_send_threaded.c:130 on freeing a job: "if there is nothing to do,    *)
(* decommission the job".  A job that goes has nothing to do.              *)
(***************************************************************************)
FreedJobsAreDone == [][\A j \in Listed : j \notin Listed' => todo[j] = {}]_vars

=============================================================================
