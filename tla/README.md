# Formal models of the TuftsComp112 network programs

TLA+ models, TLC runs and TLAPS proofs for the programs in `src/`: six assignments
of a course on network programming, about 5000 lines of C.  Paths below are relative
to the repository.  Every definition is translated from the C code; `PROJECT.json`
names, for each definition, the lines it stands for.

## 1. The system

### Components

| Component | State | Operations | Modelled in |
|---|---|---|---|
| Block cache, `a6/storage.c` | slots (`storage`, `storage_used`), one list of map entries (block -> slot) per file, list of content records | `remember_fblock`, `remember_fblock_at_cblock`, `get_fblock`, `forget_fblock`, `forget_file`, `forget_cblock`, `next_cblock` | `Storage`, `StorageApi`, `BlockCache`, `FileCache` |
| Size list, `a6/storage.c` | ordered list of (name, size) | `remember_size`, `get_size`, `forget_size` | `SizeOps`, `SizeList` |
| Host discovery, `a6/nose.c` | ten records (address, last seen) | `addOrUpdateHostNow`, the SIGALRM handler, `getHostRecordAt`, `chooseRandomHost` | `HostTable`; `chooseRandomHost` in `Distribute` |
| Block distribution, `a6/ft_send.c` | the block under way, the host it went to, the time left | `distribute_file`, `sendBlockToAHost`, `req_is_range` | `Distribute`, `Squirrel`; `req_is_range` in `BlockCache` |
| Block retrieval, `a6/ft_recv.c` | blocks still needed, two counters | `request_file`, `requestMissingBlocks`, `req_is_block_to_store` | `Squirrel`, `BlockCache`; the receive loop in `Torrent` |
| Client operations, `a6/operations.c` | none of its own | `get`, `put`, `del`, dispatch of datagrams | `Squirrel` |
| Main loop, `a6/squirrel.c` | the connection being served | `accept_or_udp`, `read_or_udp`, dispatch of requests | `Squirrel` |
| Bit fields and wire formats, `a6/help.c` | words of a bit field | `bits_setrange` and others, `send_command`, `recv_block` | `Bits`; `recv_block` in `Torrent` |
| Threaded file server, `a6/ft_send_threaded.c` | list of jobs with their marks, two mutexes | `main`, `job_thread` | `JobServer`, `FileServer` |
| Torrent client, `a2/client.c` | blocks still needed, two counters | the receive loop, `requestMissingBlocks` | `Torrent` |
| Forking server, `a5/Datagrams_and_Uncertainty/recv3.c` | counter of children; processes and a pending signal in the kernel | the loop, `atomic_inc`, `atomic_read`, `reaper` | `ForkServer` |
| Retransmission, `send-reliable.c`, `recv-reliable.c`, `recv-unreliable.c`; history server, `a1/a1.c`; stand-alone discovery, `a5/nose.c`; `a6/nuts.c`; the socket exercises | | | not modelled: see section 8 |

### How they interact

A **squirrel** server (`a6/`) is one process with one thread.  `squirrel.c` waits for
a TCP client or a datagram; datagrams are also served while it reads a request, and
`sendBlockToAHost` serves those that arrive while it waits for an acknowledgement.
Each datagram first goes to the host table (`processUdpMessage` calls
`addOrUpdateHostNow`), then to the first handler that knows its prefix: an alive
message does nothing more, a STORE_BLOCK goes to the cache, a range request reads it.
A client's `put` remembers the size and is to send every block to two random live hosts;
`get` looks up the size and asks all live hosts for the blocks; `del` forgets the size
and the blocks.  SIGALRM interrupts all of this; its handler reads the host table,
broadcasts it and sleeps for a second.

The **torrent** of assignment 2 is a client that asks for ranges of blocks
(`a2/client.c`) and a server (`ft_send_threaded.c`) whose main thread receives the
commands and whose second thread sends the blocks.  `a2/client.c` is compiled with a
`help.c` that is not in the repository; `a6/help.c` is a descendant of it, and `Bits`
and `recv_block` are translated from there.  The threaded server is not in
`a6/Makefile`, and with `a6/help.h` a `struct command` has a field that `COMMAND_SIZE`
does not count; the model is of commands whose length is in order.  `recv3.c` and the
retransmitting sender stand alone.

### What is hard, and what makes each component correct

* Cache: three hand-kept structures and a long history of calls.  Correct when a read
  returns what was last stored, no slot is shared or leaks, and no ASSERT fails.
* Size list: entries that an early end of a scan enters twice.  Correct when the size
  read is the one remembered last, and none after a removal.
* Host table: a signal handler that runs in the middle of an update and takes its time.
  Correct when hosts have one record, live ones keep it, and broadcasts are true.
* Forking server: counter shared by a loop and a signal handler, signals that merge.
  Correct when the limit is kept, the count is right and waiting ends.
* Threaded server: a list that one thread reads without a lock, checks followed by acts,
  a mutex used as a bell.  Correct when no freed job is touched, no job is duplicated,
  no wake-up and no request is lost, and clients get what they asked for.
* Distribution: late, lost and anonymous acknowledgements, retries after timeouts and
  interrupted calls, a record that changes its host while a pointer to it is held,
  servers that wait for each other, datagrams that do not say which block they hold.
  Correct when two hosts have stored and acknowledged what they were sent of each block
  (it need not be the block: section 4), when copies do not multiply without a cause,
  and when a put ends.
* Torrent client: a network that loses, repeats and reorders; a count compared for
  equality.  Correct when it ends exactly with the whole file, and ends.

`PROJECT.json` lists 40 such hazards, each at its line, with the properties that cover
it.

## 2. Modules

```
Lists ---- Storage ---- BlockCache --(implements)--> FileCache
  |           `-------- StorageApi
  |------- SizeOps ---- SizeList
  |           `-------- Squirrel               Distribute   HostTable   ForkServer
  `------- JobServer --(implements)--> FileServer <--(instance)-- Torrent
Bits --------'----------------------------'-------------------------'

DataProofs StorageProofs HostTableProofs ForkServerProofs JobServerProofs
TorrentProofs DistributeProofs SquirrelProofs
MCBlockCache MCStorageApi MCHostTable MCJobServer MCTorrent MCDistribute MCSquirrel
```

**Lists** has `First`, the least of a set of indices: how the code scans a linked list;
`Rank` and `KeepOnly` are the list that is left when some entries are taken out.

**Bits** is `bits_setrange`: a bit field is the set of its bits that are set, cut in
words of `BitsPerLong` bits (64 in the code).  `SetRange` is the union of what the masks
of the low, the middle and the high word set.  The mask of the low word is made with
`1L << (BITSPERLONG-firstbit+1)`; for the second bit of a word that shifts by the width
of the word, which is undefined in C.  `Undefined` is that case, and `lost` chooses
between the outcomes: no bit of the word set (a processor that takes the count modulo
64), or all that should be.

**Storage** is `storage.c` without its size list.  `clist` is the list of content
records, `maps[n]` the list at `bhead` of file `n`, `used` is `storage_used`, `data` is
`storage` with one value per 512-byte block, `reply` what the last call returned.
`faulted` records that an ASSERT failed (the code logs and goes on, and so does the
model), `alive` that the program did not touch memory outside its objects.  The static
functions are operators on a record of maps, flags and `faulted`, composed in the order
of the calls (`MapAdd` calls `StorageRemember`, and so on); the functions of
`storage.h` are the actions.  The ASSERTs inside scans say that listed slots are in use;
they are covered by `SlotFlagsExact` and `FaultsAreNoticed`.  Names longer than 255
and NULL buffers, which the functions refuse before they do anything, are left out.

**StorageApi** calls all of these functions in any order; **BlockCache** only those that
a server calls, with the guards of its callers: a STORE_BLOCK is dropped when no slot is
free.  Any block number and payload may arrive, since the sender's string functions cut
the message short and the receiver reads what its buffer holds.  `ServeBlock` is the
part of `req_is_range` behind a test that no request passes at present (the field
`type` of a command is not copied by `command_network_to_local`), and it leaves out
files without a block here, for which `get_fblock` follows NULL.  The variable `request`
names the request that `reply` answers, so that the two can be held against each other.
**FileCache** is the promise: a bounded partial function from blocks to contents.

**SizeOps** has `size_remember`, `size_get` and `size_forget` as functions of a list,
with names as integers for `strcmp`; **SizeList** is the list at `size_head` under the
calls of `put`, `get` and `del`, and `latest` a history variable.

**HostTable** splits `addOrUpdateHostNow` into the reading of the clock (`Hear`), the
scan, and the writes (`Update`, or `WriteName` and then `WriteTime`).  `Alarm`, the
handler, and `Tick` may come between any two of them; `sent` is the last broadcast and
`heard` a history variable.  A scan is one step: the handler writes no record, so an
interruption within it changes nothing but the time, and the code has read that before.
The handler's own reads are one step as well, the one second they may straddle makes no
record live that was not.  When the alarm is due is left open, which allows more than
the code does.  Lines of other servers' broadcasts are not read (the parser is behind a
`return`).

**ForkServer** has the parent's loop, split at every point where the handler may run,
and the kernel's part: running children, zombies, one pending bit for SIGCHLD.  The
handler blocks its own signal, as `signal()` does with the C library of these systems.

**JobServer** has one action for each section under `safetomodify` and each unlocked
access: `Receive`, `Find`, `Ignore`, `Push`, `Wake` of `main()`, and `Lock`, `ReadHead`,
`Look`, `Unlink`, `Send`, `Skip`, `Clear` of `job_thread()`.  A section is one step
because every write to the list and the marks of a listed job happens under that mutex.
The thread's unlocked reads commute with these sections to one moment: `main()` only
ever adds marks, and only the thread unlinks jobs, so that `bits_empty` answers as of
the moment it starts or ends, and `next_one`, which starts from a mark that exists, may
meet marks that are added while it looks; it then returns a mark that is set, which the
model allows by choosing at one moment.  Addresses of jobs are used again after `free`.
The file does not change while it is served; files that were opened and ignored stay
open in the code, and are not counted here.

Commands never stop, from any client; each has at least one range, since
`COMMAND_SIZE(0)` wraps around and a command of no ranges is ignored with those of the
wrong length (line 384).

**FileServer** is what a file server promises: `owed[f]` are the blocks of a file that
commands asked for and that were not sent; a block is sent only when it is owed; the
server may forget what it owes of a file (`job_freed` shows how).  JobServer implements
it with the marks of a file's job as what is owed, and Torrent relies on no more.

**Torrent** is the client's loop: one action for each way through it (`Timeout`,
`RequestMore`, `ReadShort`, `ReadForeign`, `Receive`, `GiveUp`), with FileServer at the
other end of a network of two sets of datagrams.  `Runs`, `Closed`, `Commands` and
`Counted` say what `requestMissingBlocks` makes of the missing blocks: one range for
each run, `MAXRANGES` ranges in a command, the last range one block too long and not
counted.  `reading` is true while `recv_block` waits in `recvfrom` without `select`.

**Distribute** is one put: `distribute_file` and `sendBlockToAHost`, among the records
of the host table, the datagrams under way and the hosts.  `notThisHost` and `h` are
pointers to records, as in the code, so that what they point at can change: `Hear` is a
datagram served during the wait, which goes through `addOrUpdateHostNow`; that is one
step here, which `HostTable` allows (the wait reads only the addresses).  An
acknowledgement carries its sender only.  A datagram with a block carries nothing that
would tell it from another: `distribute_file` sets no number, `strncpy` copies
`sizeof(name)` bytes of the name, the size of a pointer, and `sendBlockToAHost` sends
`strlen(mesg)` bytes, so that the datagram ends at the first zero byte, and the number
and the payload lie behind it.  The host reads what its buffer held before (`BlockCache`
stores any block under any number); `Send` counts datagrams, and no more.  `Silent` are
hosts that never acknowledge.  `held` says which hosts stored a datagram while which
block was under way; with `spare`, `extra`, `faults`, `late` and `reused` it is a
history variable.

**Squirrel** is a cluster of servers, each with its main loop, its list of sizes (with
the functions of SizeOps) and the number of slots in use.  It abstracts what the other
modules detail: the table (any other server may be chosen, or none), and the cache (how
many slots are in use).  It adds what they cannot show: several servers that put at
once, what each serves where (`pc`), and calls of `select` that SIGALRM interrupts
(`Alarm`).  `Deaf` is where a server serves no datagrams for longer than two seconds: a
`Timeout` while the block lies at such a host, or when nothing is under way, is free and
happens as often as it must; one that loses an answer on its way is a fault, and
bounded. `ClientComes` is a bound: a client connects only to a server that has requests
to offer it, and where none is to come the alarm leaves `accept` as it is, since nothing
would tell the two waits for a datagram apart. A `get` asks the other servers, which
answer to the port of the socket for datagrams while `request_file` listens at the other
socket: no answer is ever read, and only the get of an empty file ends.  It ends with
`free` of a pointer that nobody assigned: the server goes on or dies.

*Acknowledgements on Linux.*  `req_is_block_to_store` sends its ACK with
`sizeof(sender_addr)`, the size of a pointer, for the length of the address
(`ft_recv.c:60`), and does not look at the result.  A kernel may take that; Linux
refuses every length below that of a `sockaddr_in`.  Servers on such a kernel are
`Mute` in Squirrel and `Silent` in Distribute.  With all servers on Linux, no ACK is
ever sent and no put of a file with a block ends; all that the models say of safety
holds there as well, and `PutEnds` and `ClientsServed` name the acknowledging hosts in
their premises.

Operators whose comment starts with `Mutant:` are deliberately broken variants of the
operator below them, used to see that each property can fail (section 5).

## 3. Runs

| Run | Bounds | States | Shows |
|---|---|---|---|
| `block_cache` | 2 files, 3 block numbers, 2 payloads, 3 slots | 11311 | the five invariants of the cache and that it implements `FileCache` |
| `storage_api` | 2 files, 3 block numbers, 2 payloads, 3 slots, at most 3 entries when a block is stored | 42169 | what the full interface guarantees, also after ASSERTs failed |
| `size_list` | 3 names, 2 sizes, 5 entries | 1211 | order, last size read, a size remembered once is forgotten |
| `host_table` | 3 hosts and the server itself, 2 records, threshold 1, 6 seconds | 56000 | one record per host, live hosts kept, true records and broadcasts, exit only when full |
| `fork_server` | MAXFORKS 10, as in the code | 15485 | exact counter, limit, and that waiting ends |
| `job_server` | 3 files (3, 1 and 0 blocks), words of 2 bits, 1 client, 2 job addresses, commands without end, mode busy | 181378 | no use after free, unique jobs, marks in range, no lost wake-up, every mark handled once its file is no longer asked for, and that it implements `FileServer` |
| `torrent` | 3 blocks, words of 2 bits, 1 range per command, 2 commands under way, a foreign and a short datagram | 33792 | the client's account, its limit, what it asks for and what the server marks, and that it ends |
| `distribute` | 4 hosts, one of them silent, 3 records, 2 blocks, 1 fault, 1 record that changes hands | 651891 | two hosts that stored for each block, no copies too many without a cause, a put ends with two hosts that answer, and when it never can |
| `squirrel` | 4 servers, two of which have clients and put blocks, one of them mute; 2 clients, 2 slots, 1 fault; puts of nothing, gets, dels | 154953 | consistency of the servers, blocks served while both put, clients served though a host never answers and may hang |
| `fork_count` | 2 children | violation | the counter is not the number of active children |
| `job_freed` | 1 client, words of 64 bits | violation | a request is freed with the job it was added to |
| `squirrel_reads` | as `squirrel`, all on Linux, clients that may never finish | violation | a server that reads from a client serves no datagrams |

Why the bounds are enough.  *Cache*: with three blocks and three slots the cache is
filled by one file and by two; blocks come in ascending, descending and mixed order, so
that `map_add` meets a head that is larger and one that is smaller; files are deleted
and stored anew in slots of others.  *Sizes*: with five entries one of three names is in
the list several times at the head, in the middle and at the tail.  *Hosts*: two records
and three hosts, so that the table is full of live hosts, and a record of each position
is reused while others are live; six seconds are three thresholds.  *Forks*: the
constant of the code.  *Jobs*: commands are not bounded, so that one arrives at any
point of a job's life, and the address of a freed job is used by that of another file;
two jobs put the one that is unlinked at the head and behind it; block numbers behind
the end of the file are among the requests, and so is a range that makes the shift
undefined.  `job_freed` has words of 64 bits, as in the code: its trace needs commands
for the whole file and no undefined shift.  *Torrent*: three blocks in two words have
two runs of missing blocks, one of which reaches the end; with one range per command a
request takes two commands; 1, 2 or 3 blocks asked for give three different limits.
*Distribute*: two blocks let an ACK for the first arrive in the wait for the second; one
fault is a wait given up early whose answer comes late, or a datagram lost; four hosts
for three records fill the table and let the record of a first copy change hands.  A
table of the two hosts that answer and the silent one makes `PutEnds` choose in vain as
often as `rand()` likes.  A cache that is full is, for a put, a datagram that is lost.
*Squirrel*: a put needs two other servers, and `ClientsServed` is about one that has
more: four servers, of which the second sends no ACK and may hang in a put of its own.
The first and the second put blocks, at once or not, and ask each other; the third and
the fourth serve both.  A time-out is a fault only when an answer is lost by it; those
at a host that does not answer are not bounded.  With two slots a cache is full after
two blocks.  Names, payloads and hosts are symmetric where no property is temporal under
fairness.

`fork_server`, `job_server` and the cache runs check for deadlock.  The others do not:
`host_table` ends (the server exits, the modelled time ends), the put and the download
are over, and the servers of `squirrel` may all have died or hang in a put.

### Fairness

`ForkServer`: the parent is scheduled when it can run, `sleep(1)` ends, the kernel
delivers a pending signal and the handler returns; children run a few library calls and
exit.  Datagrams need not arrive.  `JobServer`: both threads are scheduled, and the
steps of `main()` after a command arrived do not wait for the network; commands need not
arrive.  Strong fairness of `Send`, for each job, says that none is passed over for ever
by the draw that skips it one time in ten.  `Torrent`: the clock goes on (weak fairness
of `GiveUp` and `Timeout`); the network and the server may lose a block or a command any
number of times but not always (strong fairness of delivery, of `Give` and of `Receive`
for each block), without which no client can finish.  `Distribute`: `rand()` draws every
eligible record again and again (strong fairness of `Choose`); datagrams that are not
lost arrive; the timeout of `select` runs out although the loop calls it again with the
same `struct timeval`, because Linux counts that down.  `Squirrel`: the same, and the
alarm's broadcast comes back to its sender.  The wait of the server that is followed
ends however often it is called away to serve datagrams (strong fairness of its
`Timeout`), by the same counting down. `squirrel` assumes in addition that clients
finish or hang up, and `squirrel_reads` does not.

## 4. What disagrees with the code's own comments

Three runs show it:

* **`reaper`, `recv3.c:28`** (`fork_count`): one `waitpid` per signal.  Signals merge,
  and the counter ("number of active children", `recv3.c:21`) stays too high.  When the
  limit is reached with zombies alone, the server sleeps for ever: `WaitEnds` has to ask
  for a running child.
* **`job_thread`, `ft_send_threaded.c:131`** (`job_freed`): a job is found empty, then
  locked and freed; marks made in between are lost ("if there is nothing to do,
  decommission the job", line 130).  The job is that of an ordinary command for a whole
  file, sent to its end.  `MarksAreHandled` counts a mark as handled when its
  job goes, and `FileServer` has `Forget`.
* **`read_or_udp`, `squirrel.c:82`** (`squirrel_reads`): an interrupted `select` returns
  -1, which is taken for input on both sockets, and the server enters `recvfrom` and then
  `read`, whatever there is to read ("interruptable reads handle intervening udp
  requests", line 42).

Others were met while modelling.  The models contain them, and the properties say what
holds in spite of them:

* `map_add`, `storage.c:70`: a block smaller than the head is entered without a search,
  so that a map can hold a block twice once blocks are forgotten one by one, and
  `forget_fblock` leaves one of them.  The server never forgets single blocks;
  `BlockCache` shows that this keeps it safe.
* `size_remember`, `storage.c:203`, and `size_forget`, `storage.c:233`: the scan stops
  one entry early, names are entered again, and one of two entries survives
  `forget_size`.  `OnceIsForgotten` says what it does achieve.
* `main`, `ft_send_threaded.c:401`: jobs are matched by file name only, so that a second
  client's blocks go to the first, although the thread is to serve "clients (plural)"
  (lines 92-95).
* `next_one`, `ft_send_threaded.c:73-78`: the search for the next block starts at the one
  sent last.  A client that asks for that block again after each time it was sent keeps
  the other blocks of the file waiting for ever.  `MarksAreHandled` therefore says that
  no file starves another: the marks of a file are handled if commands for that file come
  to an end, whatever arrives for the others.
* `main`, `ft_send_threaded.c:384`: a command of no ranges has the wrong length for
  `COMMAND_SIZE`, whose `uint32_t` wraps, and is ignored as such.
* `distribute_file`, `ft_send.c:152`, and `sendBlockToAHost`, `ft_send.c:97`: no block
  carries its number, nor a payload (section 2).  "Send the block to 2 hosts" (line 163)
  is what the loop counts acknowledgements for; the hosts may find the same number in
  their buffers each time, and blocks of a file overwrite one another.  `TwoHosts` is
  about hosts that stored what they were sent, and not about blocks.
* `req_is_block_to_store`, `ft_recv.c:60`: acknowledgements that Linux refuses to send
  (section 2).
* `request_file`, `ft_recv.c:200`: waits at the socket its answers do not go to.
* `requestMissingBlocks`, `client.c:104` and `ft_recv.c:159`: the last range is one
  block too long and is not counted; `AsksForMissing` and `WithinLimit` show that nothing
  is asked for twice and that the rule of 75 percent still works, on a smaller number.
* `recv_block`, `help.c:413`: after a datagram of the wrong size it waits without a
  timeout; `Finish` has to allow a client that waits there for ever.

## 5. That the properties can fail

For every property of a passing run there is a mutant: a definition of the model is
replaced by a variant with a plausible programming error (a search left out, a slot not
given back, an off-by-one, a stale value, a bell not rung), and TLC finds the property
violated under the run's own configuration.  The pairs are in `PROJECT.json`.

## 6. Theorems

All are of the form `Spec => []P`, an action property or a refinement, for every value
of the constants that satisfies the named assumptions of the modules.

**StorageProofs** has four parts.

* *The cache as a server uses it* (`BlockCache`).  The inductive invariant is the
  conjunction of the invariants that the run checks.  None is inductive alone: that no
  ASSERT fails needs the flags to match the maps; that they match after a store needs
  that no slot is shared; that `map_add` enters no block twice, since it does not search
  when the block is smaller than the head, needs the head to be the least; and that the
  head stays the least uses that entries only go when their whole file goes.
  `EntryAdded` is the heart of it.
* *The functions of `storage.h` called in any way* (`StorageApi`).  The invariant above
  is lost with the first single block that is forgotten.  What is left is `ApiInv`: a
  slot in use is in a map (`Leakless`), always; and until an ASSERT fails, mapped slots
  are in use and neither blocks nor slots occur twice (`Sound`).  It says nothing of the
  order of a map nor of the content list.  Each static function is shown to keep it by
  itself (`UnlinkGood`, `MapAddGood`, `EvictGood` and others), with what it does to the
  entries of other blocks, and the functions of `storage.h` by composition, in the order
  the code calls them.  `NoLeak` and `FaultsNoticed` follow from the invariant,
  `WritesAreRead` and `CallsDisturbOne` from what is known of one step: the first in a
  damaged cache too, as the entry that a store makes or finds for its block is the first
  that the next scan meets, so that the read returns the payload of that call from the one
  slot the call wrote to.
* *The cache implements `FileCache`* (`CacheImplements`).  The promise refuses a block
  when `NumBlocks` blocks are held, the code when no flag is clear: `HeldCount` is the
  bijection between held blocks and used slots that makes these the same.  `ServeBlock`
  reads what was stored because a block has one entry, `DeleteFile` drops one file
  because no slot is shared.
* *The size list* (`SizeList`).  The order of the list is inductive by itself:
  `StopAtProperties` says where the scan of `size_remember` stops in an ordered list, and
  that what stands there is smaller than the name unless it is the head.  The new entry
  therefore comes before all older ones of its name, which is `LatestSizeIsRead`.  The
  removal of every second entry keeps the order and the first entry of every other name.

The other modules:

* **HostTableProofs**: `RecordInv` says which time a record holds, unless the update
  that is under way has not come to it (`Behind`); `StageInv` what each stage of the
  update knows; `ClockInv` that nothing was heard of in the future.  The record that is
  overwritten is out of date and stays so between its two assignments, because time only
  grows: this is why the handler can run at any point, and why `TimeAssumption` needs
  the clock to start later than the threshold.  Broadcasts follow from `LiveRecordsTrue`,
  and `ExitsWhenFull` from it and `OneRecordPerHost`: the records are an injection of the
  slots into the hosts, so that all `MaxHosts` of them are live hosts.
* **ForkServerProofs**: `ReadIsUpperBound`: once the loop has read the counter only the
  handler changes it, and only downwards, so the limit is kept although the test is on
  an old value.
* **JobServerProofs**: the conjunction of the run's invariants.  That a job is not
  linked twice although `main()` unlocks between search and insertion rests on
  `main()` being the only one to insert; that the thread's pointer stays valid on the
  thread being the only one to remove; that no wake-up is lost on the bell being rung
  after every insertion.  `Implements` is the refinement: each action is an `Ask`, a
  `Give`, a `Forget` or a stutter of FileServer, where `OneJobPerFile` makes the marks of
  one job all that is owed of its file.
* **TorrentProofs**: the invariant relates the missing blocks to those written, and the
  count to both: the blocks counted since the last request and those still missing are
  not more than were asked for.  The case that needs care is the reset, which counts all
  missing blocks but those of the last run.  `RequestsExact` is about the commands: each
  missing block lies in one run, runs are apart, and the runs are numbered in their order,
  so that the groups of `MaxRanges` share no run and leave none out; the last run
  may be closed one block too far, and that block is none of the file.
* **DistributeProofs**: `AcksBacked` says that the acknowledgements under way from a
  host are never more than those it sent less the copies counted for it; `InTime` that,
  while no wait was given up early and no record changed hands, at most one
  acknowledgement is under way, and it is for the block and the record waited for.  Two
  hosts have then stored what they were sent while the block was under way, since
  `notThisHost` bars the record of the first and records are of different hosts; that it
  is the block is not said, and not true (section 4).  `ExtraPaid` is the account of
  `CopiesTooMany`: every block sent is paid for by a copy counted, a fault or a record
  that changed hands, save the one that is waited for as long as it or its
  acknowledgement is under way (`UnderWay`).  A wait that ends by the clock with nothing
  under way has therefore been paid for before.
* **SquirrelProofs**: `Consistent` with the lists of sizes typed: names are full names
  their own server made.  Copies go out in pairs by the parity of `left`; `AcksOfStored`
  needs that slots are not given back, as no server deletes blocks it holds for others.
* **DataProofs** has the lemmas on lists (`First`, removal, insertion, `KeepOnly`, ranks)
  and on the size list as a list, and a theorem of its own: the masks of the three
  parts of a range together set the range, by the arithmetic of words (`SetRangeExact`),
  for every width of a word.

Proved is type correctness of all modules with a state but the abstract ones, and

| Component | Properties |
|---|---|
| block cache | `NeverFaults`, `SlotFlagsExact`, `NoSlotShared`, `HeadIsLeast`, `ListedHaveBlocks`, `ImplementsFileCache`, `NoSlotLeaked`, `FaultsAreNoticed`, `WrittenIsRead`, `OthersUndisturbed` |
| size list | `WellFormed`, `LatestIsRead`, `OnceIsForgotten` |
| host table | `OneRecordPerHost`, `LiveHostsKnown`, `LiveRecordsTrue`, `BroadcastTrue`, `ExitOnlyWhenFull` |
| forking server | `CounterExact`, `ForkLimit` |
| threaded server | `NoUseAfterFree`, `OneJobPerFile`, `MarksAreBlocks`, `NoLostWakeup`, `ImplementsFileServer` |
| torrent client | `NeededExact`, `WithinLimit`, `AsksForMissing`, `MarkedIsAsked` |
| distribution | `CopiesStored`, `TwoHosts`, `CopiesTooMany`, `StuckForever` |
| cluster | `Consistent` |

Every safety property, action property and refinement of a passing run is among them.
Only model-checked is liveness (`WaitEnds`, `MarksAreHandled`, `Finish`, `PutEnds`,
`BlocksServed`, `ClientsServed`): that something happens under fairness needs ENABLED,
which is out of this prover's reach.  So are the three disagreements of section 4, which
TLC refutes on an instance.

Two properties were put so that they can be reasoned about.  `CopiesTooMany` counts
blocks sent (`extra`), not the copies stored: a sum over hosts has no induction here, and
the count is also the larger of the two, since a block is stored only when it was sent.
`OthersUndisturbed` names the case that nothing changed by itself, for a cache of no
blocks.

## 7. Plan

Done: `Storage`, `BlockCache`, `StorageApi`, `FileCache`, `SizeOps`, `SizeList`,
`HostTable`, `ForkServer`, `JobServer`; `Bits`, `FileServer`, `Torrent`, `Distribute`,
`Squirrel`; the theorems of section 6.  Next:

1. Theorems: that the steps of `Distribute!Hear` are those of `HostTable`, with an update
   as one step; safety lemmas towards the liveness properties (that a waiting server has
   something to wait for).
2. `Distribute` over `HostTable` itself, with the steps of an update, instead of its
   summary in `Hear`.
3. The receive loop of `request_file` with several servers that answer, for the day its
   socket is the right one.

## 8. Not modelled

`send-reliable.c` repeats one datagram until anything answers, and its receivers keep
nothing.  `a1/a1.c` is sequential, and what can go wrong in it is inside C strings.
`a5/nose.c` is the predecessor of `a6/nose.c` with the same table, and its handler only
prints it.  `nuts.c`, `hostip.c`, `udpclient.c` and the small senders and receivers of
`a5/Datagrams_and_Uncertainty` keep no state.  `a3` and `a4` are written homework.

Of the modelled parts: byte orders and layouts of messages, logging, printing, parsing
of requests and the answers to clients are left out.  That the SIGALRM handler calls
functions that are not safe in a handler is undefined behaviour in the C library, which
has no state in these models.  The receive loop of `request_file` is modelled in
`Torrent` alone, since in a squirrel server nothing ever arrives there.
