-------------------------- MODULE JobServerProofs ---------------------------
(***************************************************************************)
(* The two threads of ft_send_threaded.c keep the list of jobs in order,   *)
(* for any files, clients, commands and interleaving.                      *)
(***************************************************************************)
EXTENDS JobServer, DataProofs

\* Only files with blocks have jobs.
JobsHaveBlocks == \A j \in Listed : Size[file[j]] > 0

Inv ==
    /\ TypeOK
    /\ JobsHaveBlocks
    /\ NoUseAfterFree
    /\ OneJobPerFile
    /\ MarksAreBlocks
    /\ NoLostWakeup

LEMMA MarksLemma ==
    ASSUME NEW c \in Command, Size[c.file] > 0, NEW lost \in BOOLEAN
    PROVE  Marks(c, lost) \subseteq Blocks(c.file) /\ Marks(c, lost) \in SUBSET Nat
<1>1. Size[c.file] \in Nat \ {0} /\ c.ranges \subseteq Int \X Int
  BY SizeAssumption, RequestsAssumption DEF Command
<1>2. \A r \in c.ranges : SetRange(r, Size[c.file], lost) \subseteq 0 .. Size[c.file] - 1
  BY <1>1, SetRangeExact
<1>. QED BY <1>1, <1>2 DEF Marks, Blocks

\* What Place and After are for a job in a list without duplicates.
LEMMA PlaceLemma ==
    ASSUME TypeOK, OneJobPerFile, NEW j \in Listed
    PROVE  /\ Place(j) \in DOMAIN jobs
           /\ jobs[Place(j)] = j
           /\ \A i \in DOMAIN jobs : jobs[i] = j => i = Place(j)
<1>1. PICK i \in DOMAIN jobs : jobs[i] = j
  BY DEF Listed
<1>2. Place(j) \in DOMAIN jobs /\ jobs[Place(j)] = j
  BY <1>1 DEF Place
<1>. QED BY <1>2 DEF OneJobPerFile

LEMMA AfterLemma ==
    ASSUME TypeOK, OneJobPerFile, NEW j \in Listed
    PROVE  /\ After(j) \in Jobs \cup {NoJob}
           /\ After(j) # NoJob => After(j) \in Listed
           /\ After(j) # j
<1>1. /\ Place(j) \in DOMAIN jobs /\ jobs[Place(j)] = j
      /\ \A i \in DOMAIN jobs : jobs[i] = j => i = Place(j)
  BY PlaceLemma
<1>2. DOMAIN jobs = 1 .. Len(jobs) /\ Len(jobs) \in Nat
  BY DEF TypeOK
<1>3. \A i \in DOMAIN jobs : jobs[i] \in Jobs
  BY ElementOfSeq DEF TypeOK
<1>4. j # NoJob
  BY <1>1, <1>3, JobsAssumption
<1>5. CASE Place(j) = Len(jobs)
  BY <1>4, <1>5 DEF After
<1>6. CASE Place(j) # Len(jobs)
  <2>1. Place(j) + 1 \in DOMAIN jobs /\ After(j) = jobs[Place(j) + 1]
    BY <1>1, <1>2, <1>6 DEF After
  <2>2. Place(j) + 1 # Place(j)
    BY <1>1, <1>2
  <2>. QED BY <1>1, <1>3, <2>1, <2>2 DEF Listed
<1>. QED BY <1>5, <1>6

LEMMA InitInv == Init => Inv
<1>. SUFFICES ASSUME Init PROVE Inv
  OBVIOUS
<1>1. cmd \in Command
  <2>1. PICK f \in Files, c \in Clients, r \in Requests : TRUE
    BY CommandsAssumption
  <2>2. [client |-> c, file |-> f, ranges |-> r] \in Command
    BY DEF Command
  <2>. QED BY <2>2 DEF Init
<1>2. file \in [Jobs -> Files] /\ client \in [Jobs -> Clients]
  BY CommandsAssumption DEF Init
<1>3. jobs \in Seq(Jobs) /\ DOMAIN jobs = {} /\ Listed = {}
  BY DEF Init, Listed
<1>4. /\ todo \in [Jobs -> SUBSET Nat] /\ which \in [Jobs -> Nat]
      /\ worktodo \in BOOLEAN
  BY DEF Init
<1>5. TypeOK
  BY <1>1, <1>2, <1>3, <1>4 DEF Init, TypeOK
<1>. QED
  BY <1>3, <1>5 DEF Inv, JobsHaveBlocks, Init, NoUseAfterFree, OneJobPerFile, MarksAreBlocks, NoLostWakeup

----------------------------------------------------------------------------
(* main() *)

LEMMA ReceiveInv == ASSUME Inv, NEW c \in Command, Receive(c) PROVE Inv'
<1>. USE DEF Inv, Receive, recordVars, threadVars
<1>1. TypeOK'
  BY DEF TypeOK
<1>2. Listed' = Listed
  BY DEF Listed
<1>3. (JobsHaveBlocks /\ NoUseAfterFree /\ OneJobPerFile /\ MarksAreBlocks /\ NoLostWakeup)'
  BY <1>2 DEF JobsHaveBlocks, NoUseAfterFree, OneJobPerFile, MarksAreBlocks, NoLostWakeup
<1>. QED BY <1>1, <1>3

LEMMA FindInv == ASSUME Inv, Find PROVE Inv'
<1>. USE DEF Inv
<1>1. cmd \in Command
  BY DEF TypeOK
<1>2. /\ UNCHANGED <<jobs, file, client, which, worktodo, cmd, tpc, cur>>
      /\ Listed' = Listed
  BY DEF Find, threadVars, Listed
<1>3. ASSUME NEW i \in DOMAIN jobs, file[jobs[i]] = cmd.file, mpc' = "wake", NEW lost \in BOOLEAN,
             todo' = [todo EXCEPT ![jobs[i]] = @ \cup Marks(cmd, lost)]
      PROVE  Inv'
  <2>1. jobs[i] \in Jobs /\ jobs[i] \in Listed /\ Size[cmd.file] > 0
    <3>1. jobs[i] \in Jobs /\ jobs[i] \in Listed
      BY <1>3, ElementOfSeq DEF TypeOK, Listed
    <3>. QED BY <1>3, <3>1 DEF JobsHaveBlocks
  <2>2. Marks(cmd, lost) \subseteq Blocks(cmd.file) /\ Marks(cmd, lost) \in SUBSET Nat
    BY <1>1, <2>1, MarksLemma
  <2>3. /\ todo' \in [Jobs -> SUBSET Nat]
        /\ todo'[jobs[i]] = todo[jobs[i]] \cup Marks(cmd, lost)
        /\ \A j \in Jobs \ {jobs[i]} : todo'[j] = todo[j]
    BY <1>3, <2>1, <2>2 DEF TypeOK
  <2>4. TypeOK'
    BY <1>2, <1>3, <2>3 DEF TypeOK
  <2>5. \A j \in Listed : j \in Jobs
    BY ElementOfSeq DEF TypeOK, Listed
  <2>6. MarksAreBlocks'
    <3>1. ASSUME NEW j \in Listed PROVE todo'[j] \subseteq Blocks(file[j])
      BY <1>3, <2>2, <2>3, <2>5 DEF MarksAreBlocks
    <3>2. ASSUME tpc = "clear" PROVE which[cur] \in todo'[cur]
      BY <2>3, <2>5, <3>2 DEF MarksAreBlocks, NoUseAfterFree
    <3>. QED BY <1>2, <3>1, <3>2 DEF MarksAreBlocks, Blocks
  <2>7. (JobsHaveBlocks /\ NoUseAfterFree /\ OneJobPerFile /\ NoLostWakeup)'
    BY <1>2, <1>3 DEF JobsHaveBlocks, NoUseAfterFree, OneJobPerFile, NoLostWakeup
  <2>. QED BY <2>4, <2>6, <2>7
<1>4. ASSUME \A i \in DOMAIN jobs : file[jobs[i]] # cmd.file, mpc' = "push", todo' = todo
      PROVE  Inv'
  <2>1. mpc # "wake"
    BY DEF Find
  <2>. QED BY <1>2, <1>4, <2>1
    DEF TypeOK, JobsHaveBlocks, NoUseAfterFree, OneJobPerFile, MarksAreBlocks, Blocks, NoLostWakeup
<1>. QED BY <1>3, <1>4 DEF Find

LEMMA IgnoreInv == ASSUME Inv, Ignore PROVE Inv'
<1>1. /\ UNCHANGED <<jobs, file, client, todo, which, worktodo, cmd, tpc, cur>>
      /\ mpc = "push" /\ mpc' = "recv"
  BY DEF Ignore, recordVars, threadVars
<1>2. TypeOK'
  BY <1>1 DEF Inv, TypeOK
<1>3. NoUseAfterFree' /\ NoLostWakeup'
  BY <1>1 DEF Inv, NoUseAfterFree, NoLostWakeup, Listed
<1>4. OneJobPerFile' /\ JobsHaveBlocks'
  BY <1>1 DEF Inv, OneJobPerFile, JobsHaveBlocks, Listed
<1>5. MarksAreBlocks'
  BY <1>1 DEF Inv, MarksAreBlocks, Listed, Blocks
<1>. QED BY <1>2, <1>3, <1>4, <1>5 DEF Inv

\* A job put in front of the list.
LEMMA PushedLemma ==
    ASSUME jobs \in Seq(Jobs), NEW j \in Jobs, Push(j)
    PROVE  /\ jobs' \in Seq(Jobs) /\ 1 \in DOMAIN jobs' /\ jobs'[1] = j
           /\ \A i \in DOMAIN jobs' : i = 1 \/ (i - 1 \in DOMAIN jobs /\ jobs'[i] = jobs[i - 1])
           /\ Listed' = Listed \cup {j}
<1>1. /\ jobs' \in Seq(Jobs) /\ DOMAIN jobs = 1 .. Len(jobs) /\ Len(jobs) \in Nat
      /\ DOMAIN jobs' = 1 .. Len(jobs) + 1
      /\ jobs'[1] = j
      /\ \A i \in DOMAIN jobs : jobs'[i + 1] = jobs[i]
  BY PrependProperties DEF Push
<1>2. \A i \in DOMAIN jobs' : i = 1 \/ (i - 1 \in DOMAIN jobs /\ jobs'[i] = jobs[i - 1])
  <2>. TAKE i \in DOMAIN jobs'
  <2>1. CASE i = 1
    BY <2>1
  <2>2. CASE i # 1
    <3>1. i - 1 \in DOMAIN jobs /\ (i - 1) + 1 = i
      BY <1>1, <2>2
    <3>. QED BY <1>1, <3>1
  <2>. QED BY <2>1, <2>2
<1>3. Listed' = Listed \cup {j}
  <2>1. 1 \in DOMAIN jobs' /\ \A i \in DOMAIN jobs : i + 1 \in DOMAIN jobs'
    BY <1>1
  <2>. QED BY <1>1, <1>2, <2>1 DEF Listed
<1>. QED BY <1>1, <1>2, <1>3

LEMMA PushInv == ASSUME Inv, NEW j \in Jobs, Push(j) PROVE Inv'
<1>. USE DEF Inv
<1>1. /\ UNCHANGED <<worktodo, cmd, tpc, cur>>
      /\ mpc = "push" /\ mpc' = "wake" /\ j \notin Listed
      /\ file' = [file EXCEPT ![j] = cmd.file]
      /\ client' = [client EXCEPT ![j] = cmd.client]
      /\ jobs' = <<j>> \o jobs
      /\ Size[cmd.file] > 0
  BY DEF Push, threadVars
<1>2. PICK b \in Blocks(cmd.file), lost \in BOOLEAN :
         /\ which' = [which EXCEPT ![j] = b]
         /\ todo' = [todo EXCEPT ![j] = Marks(cmd, lost)]
  BY DEF Push
<1>3. /\ cmd \in Command /\ cmd.file \in Files /\ cmd.client \in Clients
      /\ Marks(cmd, lost) \subseteq Blocks(cmd.file) /\ Marks(cmd, lost) \in SUBSET Nat
  BY <1>1, MarksLemma DEF TypeOK, Command
<1>4. b \in Nat
  BY <1>3, SizeAssumption DEF Blocks
<1>5. /\ jobs' \in Seq(Jobs) /\ 1 \in DOMAIN jobs' /\ jobs'[1] = j
      /\ DOMAIN jobs \subseteq Int /\ DOMAIN jobs' \subseteq Int
  <2>1. jobs \in Seq(Jobs)
    BY DEF TypeOK
  <2>. QED BY <2>1, PushedLemma
<1>6. \A i \in DOMAIN jobs' : i = 1 \/ (i - 1 \in DOMAIN jobs /\ jobs'[i] = jobs[i - 1])
  BY PushedLemma DEF TypeOK
<1>7. Listed' = Listed \cup {j}
  BY PushedLemma DEF TypeOK
<1>8. \A k \in Listed : k \in Jobs
  BY ElementOfSeq DEF TypeOK, Listed
<1>9. \A k \in Listed : file'[k] = file[k] /\ todo'[k] = todo[k] /\ which'[k] = which[k]
  BY <1>1, <1>2, <1>8 DEF TypeOK
<1>10. file'[j] = cmd.file /\ todo'[j] = Marks(cmd, lost)
  BY <1>1, <1>2 DEF TypeOK
<1>11. TypeOK'
  BY <1>1, <1>2, <1>3, <1>4, <1>5 DEF TypeOK
<1>12. NoUseAfterFree'
  BY <1>1, <1>7 DEF NoUseAfterFree
<1>13. OneJobPerFile'
  <2>1. \A i \in DOMAIN jobs : file[jobs[i]] # cmd.file /\ jobs[i] \in Listed
    BY <1>1 DEF OneJobPerFile, Listed
  <2>2. ASSUME NEW i \in DOMAIN jobs', NEW k \in DOMAIN jobs', file'[jobs'[i]] = file'[jobs'[k]]
        PROVE  i = k
    <3>1. i = 1 => file'[jobs'[i]] = cmd.file
      BY <1>5, <1>10
    <3>2. k = 1 => file'[jobs'[k]] = cmd.file
      BY <1>5, <1>10
    <3>3. i # 1 => /\ i - 1 \in DOMAIN jobs
                   /\ file'[jobs'[i]] = file[jobs[i - 1]]
                   /\ file'[jobs'[i]] # cmd.file
      BY <1>6, <1>9, <2>1
    <3>4. k # 1 => /\ k - 1 \in DOMAIN jobs
                   /\ file'[jobs'[k]] = file[jobs[k - 1]]
                   /\ file'[jobs'[k]] # cmd.file
      BY <1>6, <1>9, <2>1
    <3>5. i # 1 /\ k # 1 => i - 1 = k - 1
      BY <2>2, <3>3, <3>4 DEF OneJobPerFile
    <3>. QED BY <1>5, <2>2, <3>1, <3>2, <3>3, <3>4, <3>5
  <2>. QED BY <1>1, <2>2 DEF OneJobPerFile
<1>14. MarksAreBlocks'
  <2>1. ASSUME NEW k \in Listed' PROVE todo'[k] \subseteq Blocks(file'[k])
    BY <1>3, <1>7, <1>9, <1>10 DEF MarksAreBlocks
  <2>2. ASSUME tpc = "clear" PROVE which'[cur] \in todo'[cur]
    BY <1>9, <2>2 DEF MarksAreBlocks, NoUseAfterFree
  <2>. QED BY <1>1, <2>1, <2>2 DEF MarksAreBlocks, Blocks
<1>15. NoLostWakeup'
  BY <1>1 DEF NoLostWakeup
<1>16. JobsHaveBlocks'
  BY <1>1, <1>7, <1>9, <1>10 DEF JobsHaveBlocks
<1>. QED BY <1>11, <1>12, <1>13, <1>14, <1>15, <1>16

LEMMA WakeInv == ASSUME Inv, Wake PROVE Inv'
<1>1. /\ UNCHANGED <<jobs, file, client, todo, which, cmd, tpc, cur>>
      /\ mpc = "wake" /\ mpc' = "recv"
      /\ worktodo' \in BOOLEAN /\ ~worktodo'
  BY DEF Wake, recordVars, threadVars
<1>2. TypeOK'
  BY <1>1 DEF Inv, TypeOK
<1>3. NoUseAfterFree' /\ NoLostWakeup'
  BY <1>1 DEF Inv, NoUseAfterFree, NoLostWakeup, Listed
<1>4. OneJobPerFile' /\ JobsHaveBlocks'
  BY <1>1 DEF Inv, OneJobPerFile, JobsHaveBlocks, Listed
<1>5. MarksAreBlocks'
  BY <1>1 DEF Inv, MarksAreBlocks, Listed, Blocks
<1>. QED BY <1>2, <1>3, <1>4, <1>5 DEF Inv

----------------------------------------------------------------------------
(* job_thread() *)

LEMMA LockInv == ASSUME Inv, Lock PROVE Inv'
<1>1. /\ UNCHANGED <<jobs, file, client, todo, which, mpc, cmd, cur>>
      /\ tpc = "lock" /\ tpc' = "head"
      /\ worktodo' \in BOOLEAN
  BY DEF Lock, recordVars, mainVars
<1>2. TypeOK'
  BY <1>1 DEF Inv, TypeOK
<1>3. NoUseAfterFree' /\ NoLostWakeup'
  BY <1>1 DEF NoUseAfterFree, NoLostWakeup
<1>4. OneJobPerFile' /\ JobsHaveBlocks'
  BY <1>1 DEF Inv, OneJobPerFile, JobsHaveBlocks, Listed
<1>5. MarksAreBlocks'
  BY <1>1 DEF Inv, MarksAreBlocks, Listed, Blocks
<1>. QED BY <1>2, <1>3, <1>4, <1>5 DEF Inv

\* Steps of the thread that change neither the list nor the marks.
LEMMA GoToInv ==
    ASSUME Inv, UNCHANGED <<jobs, file, client, worktodo, mpc, cmd>>,
           todo' \in [Jobs -> SUBSET Nat], \A k \in Listed : todo'[k] \subseteq todo[k],
           which' \in [Jobs -> Nat],
           NEW j \in Listed \cup {NoJob}, GoTo(j)
    PROVE  Inv'
<1>1. /\ cur' = j /\ Listed' = Listed
      /\ tpc' = IF j = NoJob THEN "head" ELSE "look"
  BY DEF GoTo, Listed
<1>2. j \in Jobs \cup {NoJob}
  BY ElementOfSeq DEF Inv, TypeOK, Listed
<1>3. TypeOK'
  BY <1>1, <1>2 DEF Inv, TypeOK
<1>4. NoUseAfterFree'
  BY <1>1 DEF NoUseAfterFree
<1>5. OneJobPerFile' /\ JobsHaveBlocks'
  BY <1>1 DEF Inv, OneJobPerFile, JobsHaveBlocks
<1>6. MarksAreBlocks'
  BY <1>1 DEF Inv, MarksAreBlocks, Blocks
<1>7. NoLostWakeup'
  BY <1>1 DEF NoLostWakeup
<1>. QED BY <1>3, <1>4, <1>5, <1>6, <1>7 DEF Inv

LEMMA ReadHeadInv == ASSUME Inv, ReadHead PROVE Inv'
<1>1. CASE jobs = << >>
  <2>1. /\ UNCHANGED <<jobs, file, client, todo, which, worktodo, mpc, cmd, cur>>
        /\ tpc = "head" /\ tpc' = "lock"
    BY <1>1 DEF ReadHead, recordVars, mainVars
  <2>2. TypeOK'
    BY <2>1 DEF Inv, TypeOK
  <2>3. NoUseAfterFree' /\ OneJobPerFile' /\ JobsHaveBlocks'
    BY <2>1 DEF Inv, NoUseAfterFree, OneJobPerFile, JobsHaveBlocks, Listed
  <2>4. MarksAreBlocks'
    BY <2>1 DEF Inv, MarksAreBlocks, Listed, Blocks
  <2>5. NoLostWakeup'
    BY <1>1, <2>1 DEF Inv, NoLostWakeup, Listed
  <2>. QED BY <2>2, <2>3, <2>4, <2>5 DEF Inv
<1>2. CASE jobs # << >>
  <2>1. Head(jobs) \in Listed
    <3>1. 1 \in DOMAIN jobs /\ Head(jobs) = jobs[1]
      BY <1>2 DEF Inv, TypeOK
    <3>. QED BY <3>1 DEF Listed
  <2>2. GoTo(Head(jobs)) /\ UNCHANGED <<jobs, recordVars, worktodo, mainVars>>
    BY <1>2 DEF ReadHead
  <2>3. UNCHANGED <<jobs, file, client, todo, which, worktodo, mpc, cmd>>
    BY <2>2 DEF recordVars, mainVars
  <2>4. todo' \in [Jobs -> SUBSET Nat] /\ which' \in [Jobs -> Nat]
    BY <2>3 DEF Inv, TypeOK
  <2>. QED BY <2>1, <2>2, <2>3, <2>4, GoToInv
<1>. QED BY <1>1, <1>2

LEMMA LookInv == ASSUME Inv, Look PROVE Inv'
<1>1. /\ UNCHANGED <<jobs, file, client, todo, which, worktodo, mpc, cmd, cur>>
      /\ tpc = "look" /\ tpc' \in {"unlink", "send"}
  BY DEF Look, recordVars, mainVars
<1>2. TypeOK'
  BY <1>1 DEF Inv, TypeOK
<1>3. NoUseAfterFree' /\ NoLostWakeup'
  BY <1>1 DEF Inv, NoUseAfterFree, NoLostWakeup, Listed
<1>4. OneJobPerFile' /\ JobsHaveBlocks'
  BY <1>1 DEF Inv, OneJobPerFile, JobsHaveBlocks, Listed
<1>5. MarksAreBlocks'
  BY <1>1 DEF Inv, MarksAreBlocks, Listed, Blocks
<1>. QED BY <1>2, <1>3, <1>4, <1>5 DEF Inv

LEMMA SendInv == ASSUME Inv, Send PROVE Inv'
<1>1. PICK b \in todo[cur] : which' = [which EXCEPT ![cur] = b]
  BY DEF Send
<1>2. /\ UNCHANGED <<jobs, file, client, todo, worktodo, mpc, cmd, cur>>
      /\ tpc = "send" /\ tpc' = "clear"
  BY DEF Send, mainVars
<1>3. cur \in Listed /\ cur \in Jobs
  BY <1>2, ElementOfSeq DEF Inv, NoUseAfterFree, TypeOK, Listed
<1>4. b \in Nat
  BY <1>3 DEF Inv, TypeOK
<1>5. which' \in [Jobs -> Nat] /\ which'[cur] = b
  BY <1>1, <1>3, <1>4 DEF Inv, TypeOK
<1>6. TypeOK'
  BY <1>2, <1>5 DEF Inv, TypeOK
<1>7. NoUseAfterFree' /\ NoLostWakeup'
  BY <1>2, <1>3 DEF NoUseAfterFree, NoLostWakeup, Listed
<1>8. OneJobPerFile' /\ JobsHaveBlocks'
  BY <1>2 DEF Inv, OneJobPerFile, JobsHaveBlocks, Listed
<1>9. MarksAreBlocks'
  BY <1>2, <1>5 DEF Inv, MarksAreBlocks, Listed, Blocks
<1>. QED BY <1>6, <1>7, <1>8, <1>9 DEF Inv

LEMMA SkipInv == ASSUME Inv, Skip PROVE Inv'
<1>1. /\ tpc = "send" /\ GoTo(After(cur))
      /\ UNCHANGED <<jobs, file, client, todo, which, worktodo, mpc, cmd>>
  BY DEF Skip, recordVars, mainVars
<1>2. cur \in Listed
  BY <1>1 DEF Inv, NoUseAfterFree
<1>3. After(cur) \in Listed \cup {NoJob}
  BY <1>2, AfterLemma DEF Inv
<1>4. todo' \in [Jobs -> SUBSET Nat] /\ which' \in [Jobs -> Nat]
  BY <1>1 DEF Inv, TypeOK
<1>. QED BY <1>1, <1>3, <1>4, GoToInv

LEMMA ClearInv == ASSUME Inv, Clear PROVE Inv'
<1>1. /\ tpc = "clear" /\ GoTo(After(cur))
      /\ todo' = [todo EXCEPT ![cur] = @ \ {which[cur]}]
      /\ UNCHANGED <<jobs, file, client, which, worktodo, mpc, cmd>>
  BY DEF Clear, mainVars
<1>2. cur \in Listed
  BY <1>1 DEF Inv, NoUseAfterFree
<1>3. After(cur) \in Listed \cup {NoJob}
  BY <1>2, AfterLemma DEF Inv
<1>4. /\ todo' \in [Jobs -> SUBSET Nat] /\ which' \in [Jobs -> Nat]
      /\ \A k \in Jobs : todo'[k] \subseteq todo[k]
  BY <1>1 DEF Inv, TypeOK
<1>5. \A k \in Listed : k \in Jobs
  BY ElementOfSeq DEF Inv, TypeOK, Listed
<1>. QED BY <1>1, <1>3, <1>4, <1>5, GoToInv

LEMMA UnlinkInv == ASSUME Inv, Unlink PROVE Inv'
<1>. DEFINE p == Place(cur)
            old(i) == IF i < p THEN i ELSE i + 1
<1>1. /\ tpc = "unlink" /\ GoTo(After(cur))
      /\ jobs' = SX!RemoveAt(jobs, p)
      /\ UNCHANGED <<file, client, todo, which, worktodo, mpc, cmd>>
  BY DEF Unlink, recordVars, mainVars
<1>2. cur \in Listed
  BY <1>1 DEF Inv, NoUseAfterFree
<1>3. /\ p \in DOMAIN jobs /\ jobs[p] = cur
      /\ \A i \in DOMAIN jobs : jobs[i] = cur => i = p
  BY <1>2, PlaceLemma DEF Inv
<1>4. DOMAIN jobs = 1 .. Len(jobs) /\ Len(jobs) \in Nat /\ jobs \in Seq(Jobs)
  BY DEF Inv, TypeOK
<1>. HIDE DEF p
<1>5. /\ jobs' \in Seq(Jobs) /\ DOMAIN jobs' = 1 .. Len(jobs) - 1
      /\ \A i \in DOMAIN jobs' : jobs'[i] = jobs[old(i)]
  <2>1. p \in 1 .. Len(jobs)
    BY <1>3, <1>4
  <2>2. /\ jobs' \in Seq(Jobs) /\ Len(jobs') = Len(jobs) - 1
        /\ \A i \in 1 .. Len(jobs) - 1 : jobs'[i] = IF i < p THEN jobs[i] ELSE jobs[i + 1]
    BY <1>1, <1>4, <2>1, RemoveAtProperties
  <2>3. DOMAIN jobs' = 1 .. Len(jobs) - 1
    BY <2>2
  <2>. QED BY <2>2, <2>3
<1>6. \A i \in DOMAIN jobs' : old(i) \in DOMAIN jobs
  BY <1>4, <1>5
<1>7. \A i, k \in DOMAIN jobs' : old(i) = old(k) => i = k
  BY <1>3, <1>4, <1>5
<1>. HIDE DEF old
<1>8. Listed' \subseteq Listed
  BY <1>5, <1>6 DEF Listed
<1>9. After(cur) # NoJob => After(cur) \in Listed'
  <2>1. SUFFICES ASSUME After(cur) # NoJob PROVE After(cur) \in Listed'
    OBVIOUS
  <2>2. Place(cur) # Len(jobs) /\ After(cur) = jobs[p + 1]
    BY <2>1 DEF After, p
  <2>3. p \in DOMAIN jobs' /\ old(p) = p + 1
    BY <1>3, <1>4, <1>5, <2>2 DEF p, old
  <2>4. jobs'[p] = jobs[p + 1]
    BY <1>5, <2>3
  <2>. QED BY <2>2, <2>3, <2>4 DEF Listed
<1>10. /\ After(cur) \in Jobs \cup {NoJob}
       /\ cur' = After(cur) /\ tpc' = IF After(cur) = NoJob THEN "head" ELSE "look"
  BY <1>1, <1>2, AfterLemma DEF Inv, GoTo
<1>11. TypeOK'
  BY <1>1, <1>5, <1>10 DEF Inv, TypeOK
<1>12. NoUseAfterFree'
  BY <1>9, <1>10 DEF NoUseAfterFree
<1>13. OneJobPerFile' /\ JobsHaveBlocks'
  BY <1>1, <1>5, <1>6, <1>7, <1>8 DEF Inv, OneJobPerFile, JobsHaveBlocks
<1>14. MarksAreBlocks'
  BY <1>1, <1>8, <1>10 DEF Inv, MarksAreBlocks, Blocks
<1>15. NoLostWakeup'
  BY <1>10 DEF NoLostWakeup
<1>. QED BY <1>11, <1>12, <1>13, <1>14, <1>15 DEF Inv

LEMMA NextInv == Inv /\ [Next]_vars => Inv'
<1>. SUFFICES ASSUME Inv, [Next]_vars PROVE Inv'
  OBVIOUS
<1>1. CASE UNCHANGED vars
  BY <1>1 DEF vars, recordVars, Inv, TypeOK, JobsHaveBlocks, NoUseAfterFree, Listed, OneJobPerFile, MarksAreBlocks, Blocks,
     NoLostWakeup
<1>2. CASE Main
  BY <1>2, ReceiveInv, FindInv, IgnoreInv, PushInv, WakeInv DEF Main
<1>3. CASE Thread
  BY <1>3, LockInv, ReadHeadInv, LookInv, UnlinkInv, SendInv, SkipInv, ClearInv DEF Thread
<1>. QED BY <1>1, <1>2, <1>3 DEF Next

----------------------------------------------------------------------------
(* What is owed, seen from the list of jobs *)

LEMMA OwedMembers ==
    ASSUME NEW f \in Files, NEW b
    PROVE  /\ b \in Owed[f] <=> \E j \in Listed : file[j] = f /\ b \in todo[j]
           /\ b \in Owed'[f] <=> \E j \in Listed' : file'[j] = f /\ b \in todo'[j]
  BY DEF Owed

\* The marks of a listed job are all that is owed of its file.
LEMMA OwedLemma ==
    ASSUME Inv, NEW j \in Listed
    PROVE  /\ file[j] \in Files
           /\ \A b : b \in Owed[file[j]] <=> b \in todo[j]
<1>1. file[j] \in Files
  BY ElementOfSeq DEF Inv, TypeOK, Listed
<1>2. \A k \in Listed : file[k] = file[j] => k = j
  BY DEF Inv, OneJobPerFile, Listed
<1>. QED BY <1>1, <1>2, OwedMembers

\* A step that changes what is owed of one file only.
LEMMA OwedUpdate ==
    ASSUME NEW f \in Files, NEW S,
           \A b : b \in Owed'[f] <=> b \in S,
           \A g \in Files \ {f} : \A b : b \in Owed'[g] <=> b \in Owed[g]
    PROVE  Owed' = [Owed EXCEPT ![f] = S]
<1>1. Owed = [g \in Files |-> Owed[g]]
  BY DEF Owed
<1>2. Owed' = [g \in Files |-> Owed'[g]]
  BY DEF Owed
<1>3. \A A, B : (\A b : b \in A <=> b \in B) => A = B
  OBVIOUS
<1>4. Owed'[f] = S /\ \A g \in Files \ {f} : Owed'[g] = Owed[g]
  BY <1>3
<1>. QED BY <1>1, <1>2, <1>4

\* The marks of the command are those of FileServer.
LEMMA SameMarks ==
    ASSUME NEW lost \in BOOLEAN
    PROVE  Server!Marks(cmd.file, cmd.ranges, lost) = Marks(cmd, lost)
  BY DEF Server!Marks, Marks, Server!SetRange, SetRange, Server!BitRange, BitRange,
     Server!LowWord, LowWord, Server!MiddleWords, MiddleWords, Server!HighWord, HighWord,
     Server!Undefined, Undefined, Server!RangeFirst, RangeFirst, Server!RangeLast, RangeLast,
     Server!Clamp, Clamp, Server!Word, Word, Server!FirstBit, FirstBit

----------------------------------------------------------------------------
(* Every step is one of FileServer's, or changes nothing that is owed *)

\* Steps that keep the list of jobs, their files and their marks.
LEMMA OwedUnchanged == ASSUME UNCHANGED <<jobs, file, todo>> PROVE UNCHANGED Owed
<1>1. Listed' = Listed
  BY DEF Listed
<1>. QED BY <1>1 DEF Owed

LEMMA FindImplements ==
    ASSUME Inv, Find PROVE UNCHANGED Owed \/ Server!Ask(cmd.file, cmd.ranges)
<1>1. UNCHANGED <<jobs, file>> /\ Listed' = Listed
  BY DEF Find, Listed
<1>2. CASE todo' = todo
  BY <1>1, <1>2, OwedUnchanged
<1>3. ASSUME NEW i \in DOMAIN jobs, file[jobs[i]] = cmd.file, NEW lost \in BOOLEAN,
             todo' = [todo EXCEPT ![jobs[i]] = @ \cup Marks(cmd, lost)]
      PROVE  Server!Ask(cmd.file, cmd.ranges)
  <2>1. jobs[i] \in Listed /\ \A j \in Listed : j \in Jobs
    BY ElementOfSeq DEF Inv, TypeOK, Listed
  <2>2. /\ todo'[jobs[i]] = todo[jobs[i]] \cup Marks(cmd, lost)
        /\ \A j \in Listed : j # jobs[i] => todo'[j] = todo[j]
    BY <1>3, <2>1 DEF Inv, TypeOK
  <2>3. \A j \in Listed : file[j] = cmd.file => j = jobs[i]
    BY <1>3, <2>1 DEF Inv, OneJobPerFile, Listed
  <2>4. cmd.file \in Files
    BY DEF Inv, TypeOK, Command
  <2>5. \A b : b \in Owed'[cmd.file] <=> b \in Owed[cmd.file] \cup Marks(cmd, lost)
    BY <1>1, <1>3, <2>1, <2>2, <2>3, <2>4, OwedMembers
  <2>6. \A g \in Files \ {cmd.file} : \A b : b \in Owed'[g] <=> b \in Owed[g]
    BY <1>1, <1>3, <2>2, OwedMembers
  <2>7. Owed' = [Owed EXCEPT ![cmd.file] = Owed[cmd.file] \cup Marks(cmd, lost)]
    BY <2>4, <2>5, <2>6, OwedUpdate
  <2>. QED BY <2>7, SameMarks DEF Server!Ask
<1>. QED BY <1>2, <1>3 DEF Find

LEMMA PushImplements ==
    ASSUME Inv, NEW j \in Jobs, Push(j) PROVE Server!Ask(cmd.file, cmd.ranges)
<1>1. PICK lost \in BOOLEAN : todo' = [todo EXCEPT ![j] = Marks(cmd, lost)]
  BY DEF Push
<1>2. /\ mpc = "push" /\ j \notin Listed
      /\ file' = [file EXCEPT ![j] = cmd.file]
      /\ jobs' = <<j>> \o jobs
  BY DEF Push
<1>3. Listed' = Listed \cup {j} /\ \A k \in Listed : k \in Jobs
  <2>1. jobs \in Seq(Jobs)
    BY DEF Inv, TypeOK
  <2>. QED BY <2>1, PushedLemma, ElementOfSeq DEF Listed
<1>4. /\ file'[j] = cmd.file /\ todo'[j] = Marks(cmd, lost)
      /\ \A k \in Listed : k # j /\ file'[k] = file[k] /\ todo'[k] = todo[k]
  BY <1>1, <1>2, <1>3 DEF Inv, TypeOK
<1>5. cmd.file \in Files /\ \A k \in Listed : file[k] # cmd.file
  BY <1>2 DEF Inv, TypeOK, Command, OneJobPerFile, Listed
<1>6. \A b : b \in Owed'[cmd.file] <=> b \in Owed[cmd.file] \cup Marks(cmd, lost)
  BY <1>3, <1>4, <1>5, OwedMembers
<1>7. \A g \in Files \ {cmd.file} : \A b : b \in Owed'[g] <=> b \in Owed[g]
  BY <1>3, <1>4, OwedMembers
<1>8. Owed' = [Owed EXCEPT ![cmd.file] = Owed[cmd.file] \cup Marks(cmd, lost)]
  BY <1>5, <1>6, <1>7, OwedUpdate
<1>. QED BY <1>8, SameMarks DEF Server!Ask

LEMMA UnlinkImplements == ASSUME Inv, Inv', Unlink PROVE Server!Forget(file[cur])
<1>1. /\ tpc = "unlink" /\ jobs' = SX!RemoveAt(jobs, Place(cur))
      /\ UNCHANGED <<file, todo>>
  BY DEF Unlink, recordVars
<1>2. cur \in Listed /\ file[cur] \in Files
  BY <1>1, OwedLemma DEF Inv, NoUseAfterFree
<1>3. Listed' = Listed \ {cur}
  <2>1. /\ jobs \in Seq(Jobs) /\ Place(cur) \in DOMAIN jobs /\ jobs[Place(cur)] = cur
        /\ \A i \in DOMAIN jobs : jobs[i] = cur => i = Place(cur)
    BY <1>2, PlaceLemma DEF Inv, TypeOK
  <2>. DEFINE n == SX!RemoveAt(jobs, Place(cur))
  <2>2. {n[i] : i \in DOMAIN n} = {jobs[i] : i \in DOMAIN jobs} \ {jobs[Place(cur)]}
    BY <2>1, RemovedListed
  <2>3. Listed' = {n[i] : i \in DOMAIN n}
    BY <1>1, Zenon DEF Listed
  <2>. QED BY <2>1, <2>2, <2>3 DEF Listed
<1>4. \A k \in Listed : file[k] = file[cur] => k = cur
  BY <1>2 DEF Inv, OneJobPerFile, Listed
<1>5. \A b : b \in Owed'[file[cur]] <=> b \in {}
  BY <1>1, <1>2, <1>3, <1>4, OwedMembers
<1>6. \A g \in Files \ {file[cur]} : \A b : b \in Owed'[g] <=> b \in Owed[g]
  BY <1>1, <1>3, OwedMembers
<1>. QED BY <1>2, <1>5, <1>6, OwedUpdate DEF Server!Forget

LEMMA ClearImplements == ASSUME Inv, Clear PROVE Server!Give(file[cur], which[cur])
<1>1. /\ tpc = "clear" /\ UNCHANGED <<jobs, file>> /\ Listed' = Listed
      /\ todo' = [todo EXCEPT ![cur] = @ \ {which[cur]}]
  BY DEF Clear, Listed
<1>2. /\ cur \in Listed /\ which[cur] \in todo[cur] /\ file[cur] \in Files
      /\ \A k \in Listed : k \in Jobs
  BY <1>1, OwedLemma, ElementOfSeq DEF Inv, NoUseAfterFree, MarksAreBlocks, TypeOK, Listed
<1>3. /\ todo'[cur] = todo[cur] \ {which[cur]}
      /\ \A k \in Listed : k # cur => todo'[k] = todo[k]
  BY <1>1, <1>2 DEF Inv, TypeOK
<1>4. \A k \in Listed : file[k] = file[cur] => k = cur
  BY <1>2 DEF Inv, OneJobPerFile, Listed
<1>5. \A b : b \in Owed'[file[cur]] <=> b \in Owed[file[cur]] \ {which[cur]}
  BY <1>1, <1>2, <1>3, <1>4, OwedMembers
<1>6. \A g \in Files \ {file[cur]} : \A b : b \in Owed'[g] <=> b \in Owed[g]
  BY <1>1, <1>3, OwedMembers
<1>7. which[cur] \in Owed[file[cur]]
  BY <1>2, OwedMembers
<1>. QED BY <1>2, <1>5, <1>6, <1>7, OwedUpdate DEF Server!Give

LEMMA StepImplements == ASSUME Inv, Inv', [Next]_vars PROVE [Server!Next]_Owed
<1>1. cmd.file \in Files /\ cmd.ranges \in Requests
  BY DEF Inv, TypeOK, Command
<1>2. CASE UNCHANGED <<jobs, file, todo>>
  BY <1>2, OwedUnchanged
<1>3. CASE Find
  BY <1>1, <1>3, FindImplements DEF Server!Next
<1>4. ASSUME NEW j \in Jobs, Push(j) PROVE Server!Next
  BY <1>1, <1>4, PushImplements DEF Server!Next
<1>5. CASE Unlink
  <2>1. file[cur] \in Files
    BY <1>5, OwedLemma DEF Unlink, Inv, NoUseAfterFree
  <2>. QED BY <1>5, <2>1, UnlinkImplements DEF Server!Next
<1>6. CASE Clear
  <2>1. cur \in Listed /\ file[cur] \in Files /\ which[cur] \in Owed[file[cur]]
    BY <1>6, OwedLemma DEF Clear, Inv, NoUseAfterFree, MarksAreBlocks
  <2>. QED BY <1>6, <2>1, ClearImplements DEF Server!Next
<1>. QED
  BY <1>2, <1>3, <1>4, <1>5, <1>6
  DEF Next, Main, Thread, vars, recordVars, Receive, Ignore, Wake, Lock, ReadHead, Look, Send, Skip

----------------------------------------------------------------------------
(***************************************************************************)
(* What the two mutexes are for, for any number of files and clients.      *)
(***************************************************************************)
THEOREM ServerInvariant == Spec => []Inv
<1>. QED BY InitInv, NextInv, PTL DEF Spec

\* The job records and both threads' variables keep their types.
THEOREM TypeCorrect == Spec => []TypeOK
<1>1. Inv => TypeOK
  BY DEF Inv
<1>. QED BY <1>1, ServerInvariant, PTL

\* The pointer j of job_thread never dangles.
THEOREM PointerValid == Spec => []NoUseAfterFree
<1>1. Inv => NoUseAfterFree
  BY DEF Inv
<1>. QED BY <1>1, ServerInvariant, PTL

\* main() never makes a second job for a file.
THEOREM JobsUnique == Spec => []OneJobPerFile
<1>1. Inv => OneJobPerFile
  BY DEF Inv
<1>. QED BY <1>1, ServerInvariant, PTL

\* read_block is only asked for blocks that the file has.
THEOREM BlocksExist == Spec => []MarksAreBlocks
<1>1. Inv => MarksAreBlocks
  BY DEF Inv
<1>. QED BY <1>1, ServerInvariant, PTL

\* The unlocked mutex worktodo wakes the thread for every job.
THEOREM WakeupsKept == Spec => []NoLostWakeup
<1>1. Inv => NoLostWakeup
  BY DEF Inv
<1>. QED BY <1>1, ServerInvariant, PTL

\* The two threads together implement FileServer.
THEOREM Implements == Spec => ImplementsFileServer
<1>1. Init => Server!Init
  BY DEF Init, Listed, Owed, Server!Init
<1>2. Inv /\ Inv' /\ [Next]_vars => [Server!Next]_Owed
  BY StepImplements
<1>. QED BY <1>1, <1>2, ServerInvariant, PTL DEF Spec, ImplementsFileServer, Server!Spec

=============================================================================
