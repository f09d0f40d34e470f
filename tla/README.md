# TLA+ models of the os6 laboratories

This directory models, checks and proves properties of the programs in `src/`:
nine laboratories of an operating-systems course, written in C. Every
laboratory is a small concurrent or reactive program of its own (a daemon, a
directory walker, kernel modules with `/proc` files, threads that share a file,
a `select()` server, interrupt handlers with deferred work). They do not call
each other; what they interact with is the kernel, other processes and their own
threads. So the project is a family of modules, one per program, that share a
buffer module and an abstract specification where two programs share code.
Programs of one kind are put side by side in a module of their own (`Lab05`,
`Lab08`, `Lab09`, `KernelModules`), so that one run checks them.

Line numbers below are those of the source file named with them.

## 1. Inventory

| Component | State | Operations | Interacts with | What is hard | What makes it correct |
|---|---|---|---|---|---|
| `lab_01` syslog daemon | lock file name, inode, lock, pid in it; signal mask and pending signals | `daemonize`, `already_running`/`lockfile`, signal thread `thr_fn`, `err_*` exits | other starts of itself, signals, SIGKILL | the lock belongs to an inode, not to the name; crash between calls; windows in which signals kill; results nobody looks at | one daemon per lock file, nobody else changes its file, lock lives as long as the daemon, SIGTERM ends it |
| `lab_02` directory walk | list stack of (name, depth), current directory, counters | `ftw`, `doPath`, `push`/`pop`, `incStat`, `printStat` | the file system, changed by others meanwhile | names relative to a directory reached by `chdir`; any call may fail; a tree that changes | names are looked up where they were read, nothing visited twice, what remains is visited; the walk ends whatever happens |
| `lab_03` part 1, task list module | none | one loop over the kernel's task list | kernel list | RCU, inside the kernel | - |
| `lab_03` part 2, `md1`-`md3` | state of each module, the commands of `make load`, `make remove` | load, unload, the refused load of `md3` | module loader, several people at once | each target stops at its first failure, and `make load` ends with one by design | the targets leave both modules or none |
| `lab_04` part 1, `/proc` report | one buffer, the section, the scanner's place | copy files in chunks, list directories, scan `maps` and read `pagemap` | files of a process that may end meanwhile | chunks without a terminator; a line across two reads; files that are gone; a scanner that tests its place after it has used it | nothing of a file is lost; every mapping has its pages; the scanner stays in its buffer |
| `lab_04` part 2, `fortune.c` | `cookieBuffer`, `tmpBuffer`, `readInd`, `writeInd`, three `/proc` entries | `initFortune`, `cleanUpFortune`, open/read/write/release | users' processes, `seqfile.c` under the same names, failing copies | handlers without a lock; file visible before the indices are set; limits of the buffer; partial failure of the load | whole fortunes in the order of the writes; no name or memory left behind; no handler without buffer |
| `lab_04` part 2, `seqfile.c` | the same without `tmpBuffer` | the same, read through `showFortune` | `seq_file` | measures before it decides what to print | the same, first fortune twice in a round |
| `lab_05` `app2_threads.c` | `filePos`, mutex, two descriptors, terminal colour | `outputFile` in two threads | each other, terminal | two offsets, one position; end of file met twice | each character once, in order, in its thread's colour; both threads end |
| `lab_05` `app2_threads_right.c` | mutex, two descriptors | copy of the whole file in two threads | each other, terminal | line ends outside the mutex, end of `main` ends the thread, unchecked `open()` | the copies do not mix, none is cut off |
| `lab_05` `app1*`, `app2`, `app3*` | stdio buffers, file offsets | `fscanf`/`fprintf`/`fclose` on two streams | each other through one file | who fills its buffer first; last `fclose` wins; unchecked `open()` and `fopen()` | each character in one place, in order (app1, app2); size and content (app3); every program ends |
| `lab_06` report | no code | - | - | - | - |
| `lab_07` file system module | array, slab cache, object, registration, mounts | load, mount, umount, unload | VFS, processes that mount | order of clean-up, each failing call | nothing left behind but where it is refused, no code run after it has gone |
| `lab_08` part 1, AF_UNIX pair | socket file, `buf`, open descriptors | server loop, SIGINT handler, client | each other, other servers | stale socket file, descriptors never closed, `recv` unchecked, SIGPIPE | the name is the running server's, its own message is printed, who is connected is answered |
| `lab_08` part 2, `select()` server and clients | `arr_sock`, set of `select`, `buf`; per connection: request, answer, FIN, RST | the server's round, the client's loop | each other over TCP | clients that end at any moment; set older than the table; full table | never blocks on one client, each request answered once to its sender |
| `lab_09` part 1, tasklet | key log, its position, tasklet, interrupt, `/proc` file | handler, tasklet, `f()`, load, unload | interrupts, readers | order of unload, failed loads, end of the log | the last key is logged, readers get the log, freed memory is not used, rmmod ends |
| `lab_09` part 2, workqueue | queue, two works, interrupt, `simbol` | handler, works, load, unload | interrupts on several processors, kernel workers | works dropped while pending; keys during load and unload | last key never missed, nothing outlives the module, rmmod ends |

`PROJECT.json` lists the same components with their modules and status, and the
hazards at their lines.

## 2. Modules and how they correspond to the code

| Module | Models | State and actions |
|---|---|---|
| `Daemon` | `lab_01/main.c`, `lib/apue.c` | `pc[p]` is the next call of process p in `main()`/`thr_fn()`. One action per call that other processes can see or that can fail; `daemonize()` is one action, because only its effect on SIGHUP is visible outside. `Die` is the kernel's side of every exit. |
| `DaemonProofs` | - | theorems about `Daemon`, section 5 |
| `DirWalk`, `MCDirWalk` | `lab_02/main.c`, `lib/stack.c`, `lib/statistics.c` | `elem` is the element `doPath()` works on, `pc` its next system call; one action per system call and outcome. `Remove` and `Move` are other processes. `MCDirWalk` gives the tree. |
| `DirWalkProofs` | - | theorems about `DirWalk` |
| `FortuneStore` | what `fortune.c` and `seqfile.c` have in common: buffer, indices, `writeFortune()` | `wpc[w]` is the next access of a writer; an action is an access that another handler can see the state before and after of. |
| `FortuneProc` | `readFortune()` on top of `FortuneStore` | `rpc[r]`, `reg`, `readLen`, `tmpBuffer` |
| `FortuneSeq` | `showFortune()` and `single_open` on top of `FortuneStore` | `spc[r]`, `len`, `shown` |
| `FortuneProofs` | - | theorems about `FortuneStore`, `FortuneProc` and `FortuneSeq` |
| `FortuneCycle` | abstract: a shelf of fortunes and a cursor | `Put`, `Take`, `Rewind` (fortune.c), `RewindAndShow` (seqfile.c) |
| `FortuneLoad` | `initFortune()`, `cleanUpFortune()`, `exitFortune()` of both modules side by side | `entry` is `/proc`, `ptr` the static pointers, `inside` the users in a handler |
| `AlphabetThreads` | `lab_05/src/app2_threads.c` | `pc[t]`, one action per statement of `outputFile()` |
| `StdioStreams` | the other six programs of `lab_05` | `program` is the one that runs, `at[f]` the next statement of stream (or thread) f; an action is a statement that reads, writes or prints, `Desc` says which file offset a stream uses |
| `Lab05` | `AlphabetThreads` or `StdioStreams` | `threads` says which is started |
| `Lab05Proofs` | - | theorems about both |
| `SelectServer` | `lab_08/part2/server.c`, `client.c` | `pc` and `i` are where the server is in its round, `client[c]` where a client is; `inq`, `fin`, `rst`, `backlog` are TCP as the two programs use it |
| `UnixServer` | `lab_08/part1/server.c`, `client.c` | `at[s]` and `peer[c]` are the next call of each server and client, `path` the server that the socket file leads to |
| `Lab08` | `SelectServer` or `UnixServer` | `part` says which |
| `Lab08Proofs` | - | theorems about both |
| `Tasklet` | `lab_09/part1/main.c` | `step` is the next call of init or exit, `func` where the tasklet is, `sched` its SCHED bit, `i` the loop of `f()` |
| `WorkQueue` | `lab_09/part2/main.c` | `stage` is the next call of init or exit, `handler` the work the interrupt is about to queue, `queue`/`running`/`pending` the kernel's workqueue |
| `Lab09` | `Tasklet` or `WorkQueue` | `part` says which |
| `Lab09Proofs` | - | theorems about both |
| `ProcReport`, `MCProcReport` | `lab_04/part1/main.c`, `lib/output_funcs.c` | `section` is the place in `main()`'s list `Plan`, one action per chunk, line of `maps` and way out of a section; `MCProcReport` gives the mappings |
| `ProcReportProofs` | - | theorems about `ProcReport` |
| `FsModule` | `lab_07/main.c` | `fs` is the next call of `myfs_init()` or `myfs_exit()`, `slab` what is allocated, `mount[u]` how far a mount is |
| `ExportModules` | `lab_03/part2/md1.c`-`md3.c`, `Makefile` | `md` is the state of each module, `make[a]` the command an admin's make is at |
| `KernelModules` | `FortuneLoad`, `FsModule` or `ExportModules` | `lab` says which |
| `KernelModuleProofs` | - | theorems about `FortuneLoad`, `FsModule`, `ExportModules` and their sum |

Composition: `FortuneProc` and `FortuneSeq` extend `FortuneStore` with a reader
each and implement `FortuneCycle` (`INSTANCE ... WITH`, the mappings are `Cycle` and `SeqCycle`).
`FortuneLoad` composes the two kernel modules through the names in `/proc`;
where it has one action `Loaded`, `FortuneStore!ResetIndices` says what the late
reset does to a buffer in use. `Lab05`, `Lab08`, `Lab09` and `KernelModules` are
sums: one variable says which program is started, its actions run, and the
variables of the others stay as they are. Their properties are those of the
parts, or the conjunction of two that ask the same question of both
(`PrintsOwnText`, `ClientsAreServed`, `LastKeySeen`, `ModulesUnload`,
`EveryProgramEnds`).

Definitions marked "Seeded fault" are the wrong versions of a definition (a
forgotten reset, a swapped order) with which each property is shown to be able to
fail. No specification refers to them.

### Abstractions

* **Data.** A fortune is a repeated letter and a line end; a name in a directory
  and a client's number are model values; a character of `alphabet.txt` or of a
  copied file is its place in the file. Printed texts, percentages and log lines
  are left out. Only `ProcReport` has text: the lines of `maps` as the scanner
  tells their characters apart, with short addresses.
* **Oops.** A byte behind a `vmalloc()` buffer, a call through a NULL queue or a
  freed queue sets `oops`, and the model halts: nothing is claimed after it. Its
  reachability is a run of its own where the code says otherwise
  (`fortune_fits`). `Tasklet` does the same with `fault` (freed memory or text),
  `ProcReport` with its phases `"crash"` (a NULL stream) and `"overrun"` (the scanner
  writes behind its buffer), `StdioStreams` with the place `"crash"`; `FsModule` goes
  on with `broken`, because what is undefined there may do no harm.
* **Data races** in the fortune handlers are resolved as gcc -O2 compiles them
  (checked on the assembler output): an index is loaded once and kept in a
  register until the next call that may change it, and the two assignments to
  `writeInd` (82, 86) are one store, after those to the buffer.
* **External parts** (`external` in the map): fcntl locks and signal delivery,
  path lookup, `copy_from_user`, the `/proc` registry, TCP and AF_UNIX sockets,
  `queue_work` and the workers, tasklets, the module loader, mounts, stdio. Each is
  modelled from how the code relies on it.

## 3. Runs

| Run | Instance | What it shows | Distinct states |
|---|---|---|---|
| `daemon` | 2 processes, 3 inodes | one daemon per lock file; nobody else changes its file, though `ftruncate()`, `write()` and `remove()` may fail unnoticed; its lock follows it through crashes and restarts; a SIGTERM that comes after the signals are blocked ends it | 439,857 |
| `daemon_twice` | the same | violated: `main.c:40` says that only one daemon runs; a second one starts between `remove(LOCKFILE)` and `exit(0)` of the first, or holds the removed file open | - |
| `kernel_modules` | 2 fortune modules and 2 users; 2 processes that mount; 2 people who load and unload `md1`-`md3` | neither fortune module takes the other's names, a failed load leaves nothing behind, no handler runs without buffer, rmmod ends; the file system leaks only where its registration is refused; `make load` and `make remove`, one after the other, leave `md1` and `md2` both or none | 1,627 |
| `fortune_proc` | buffer of 6 bytes, 1 reader, 1 writer, lengths 1, 2, 5 | without any lock, one reader and one writer see whole fortunes in order (refinement of `FortuneCycle`); used while it is loading, the module still publishes no string without an end | 883,449 |
| `fortune_fits` | the same, one letter | violated: `fortune.c:64` says that the room is checked; the check is two bytes too generous | - |
| `fortune_seq` | the same buffer; 2 readers and the writer in turn, or 1 reader overlapping the writer | in turn: refinement of `FortuneCycle` with the first fortune twice; overlapping: only text of finished writes is printed | 40,259 |
| `walk` | tree of 7 nodes, 6 removable, 2 movable once; every call may fail | names meet the directory they were read in, single and complete visits, the only division by zero, end of the walk | 340,247 |
| `lab05` | `app2_threads.c` with 4 characters; the others with 10 characters and buffers of 4; any file may fail to be opened | order, colour and completeness under the shared position; every character once, in order, in one of two buffers; a whole copy through each open descriptor; copies that do not mix; what reaches the file; every program ends | 40,520 |
| `lab08` | part 2: 3 clients, 2 slots, 2 or 3 descriptors; part 1: 2 servers, 2 clients, backlog 1, 1 or 2 descriptors | never blocks on one client, one slot each, answers match requests, dies only of a reset or a full table; the socket's name follows its server; own message printed; who is connected is served | 319,606 |
| `lab09` | 4 interrupts with 2 keys and a release code; 2 processors; a log of 2 entries | the last key is never missed, nothing outlives the workqueue's module, the tasklet is used after its end only by a key or a reader that comes late in its exit, an undisturbed reader gets the log, rmmod ends | 178,190 |
| `report` | buffer of 40; files of 0 to 90 bytes; 1 or 3 mappings whose lines end anywhere in it; pages that `pread()` fails for | a file read to its end is copied without a gap, a line of `maps` in one read has its pages, and the scanner leaves the buffer only at a line that a read has cut | 129,982 |
| `report_maps` | the same | violated: `output_funcs.c:148` speaks of all pages in the range; those of a line across two reads are missing | - |

Every module has a type invariant (`TypeOK`, `StreamsTypeOK`, ...). All of them are
proved, alone or as part of an inductive invariant; the runs check what could be
wrong instead.
What each property says, and of which lines, is in the comment above it.

### Bounds and why they are enough

* `daemon`: every property relates two processes; a third start is another
  second one. Three inodes are one for each and a fresh name. The theorems have
  no bound.
* Fortune buffer: with 6 bytes and lengths 1, 2 and 5 there are rounds of up to
  three fortunes, one that exactly fills the buffer, and checks that pass and fail
  at each of the last offsets. Length 0 is left out: a write of length zero
  stores its line end over the terminator before it, so fortunes merge.
* One reader and one writer for `fortune.c`: two readers share `tmpBuffer` and
  `readInd`, two writers the same offset, and nothing that would be worth
  stating holds then (a hazard in `PROJECT.json`).
* `walk`: two directories deep, a name that occurs in two directories, a
  directory to come back from before its sibling is looked up. `MaxMoves = 1`:
  after a move, or a failed `chdir("..")`, only `WalkEnds` and the last part of
  `EachVisitedOnce` (the division by zero) are claimed, and one is enough to lead the
  walker to another place.
* `fortune_seq`: `FailedCopies = {0}`. A copy that fails after some bytes leaves
  them behind `writeInd`, where `showFortune()` measures them as a fortune: no
  order is kept after that, and the run says nothing about it (hazard at
  `seqfile.c:41`).
* `lab05`: four characters of which each thread gets some and both meet the end
  (the theorems have no bound); ten fill a buffer of four twice and a third time in
  part, as the 26 of `alphabet.txt` do with 18.
* `lab08`, part 2: `MAX_COUNT_SOCK = 2` for the ten slots. With three descriptors a
  third client finds no slot; with two the third `accept()` fails. Requests are
  not bounded: `owed` is their difference to the answers. `Backlog = 2` is what
  Linux makes of `listen(sock, 1)` over TCP. Part 1: two servers for one name; two
  clients meet a full backlog (`Waiting = 1`), a table of one descriptor fills.
* `lab09`: four interrupts are one key more than the two works, pending and
  running, can take, and fill the log of two entries, start it again and drop one.
* `report`: the first name has 0 to 40 letters, so the end of the 40-cell buffer
  falls on every place of a line; lengths 39, 40, 41 and 90 are around one buffer
  and above two. `Base = 4` keeps addresses of two digits. A mapping alone
  has a name of 20, 30 or 40 letters: 30 and 40 make a line longer than the buffer,
  behind whose rest there is no newline (`"overrun"`). `Silences`: every page has
  an answer, or those of the last mapping have none (as with vsyscall), or one page
  of the first.
* `kernel_modules`: two of everybody; the theorems have no bound.
* `CHECK_DEADLOCK FALSE` in `MCLab08.cfg` only: when the servers are dead and all
  clients are gone nothing is left to happen. Elsewhere an ended program stutters
  in an action of its own and deadlock is checked.

### Fairness

Weak fairness of a process's own next step, and only of processes that nothing
holds up: the signal thread (`Daemon`; for `sigwait()` it says that a pending
SIGTERM is not passed over for ever), the single-threaded walker, the threads of
`lab_05` (the mutex need not be fair: after the end of the file a thread does not
come back for it), a module that has begun to load or unload and the handlers,
works, softirqs and readers that return (`FortuneLoad`, `WorkQueue`, `Tasklet`),
the server processes, and the clients of `UnixServer`, which do nothing but
their next call. No fairness is assumed of users, the clients of
`SelectServer` (a person types), keys, signals, kills or other processes. In a sum each fairness
condition is of a part's action while that part is the one that is started.

## 4. What the runs say about the code

Most of what the code seems to promise holds. Three statements of the sources do
not, and are the three violated runs (`daemon_twice`, `fortune_fits`,
`report_maps`). For the last one the repository has its own evidence: in
`lab_04/part1/result.txt` the mapping `7fd744792000-7fd744793000` is listed under
`maps`, and the `pagemap` section has no line of it (lines 3902 and 3903 are the
ones around it). The models also show, as the reason for a condition in a
property or for a bound:

* `readFortune()` ignores `len` and copies the whole fortune.
* A fortune written before `initFortune()` resets the indices is forgotten.
* After `rename()` of a directory in its way, the walker looks names up in the
  wrong directory, and after a `chdir("..")` that fails, whose result `main.c:34`
  ignores, as well (so the properties about places say `OnTrack`).
* A daemon whose `write()` fails runs with an empty or a stale pid file
  (`main.c:67`, `69`), and one whose `remove()` fails leaves the name behind
  (`main.c:189`): `PidFileStays` claims only that nobody changes the file.
* A program of `lab_05` that could not open its file reads nothing from it and prints
  a copy less, or crashes in `setvbuf()` or `ftell()`.
* A server that meets a reset connection prints another client's number and is
  killed by SIGPIPE; clients that find no slot use up the descriptors.
* A key pressed while the workqueue module loads or after its queue is gone is an
  oops (`WorkQueue!oops`), and one pressed before `INIT_WORK` is lost.
* A chunk that fills the report's buffer has no terminator (`FilesAreCopied` lets
  `Junk` follow it: `result.txt` 514, 535), and a shorter chunk after it is
  printed with the rest of the one before (`result.txt` 526-535).
* `preparePrint()` compares the addresses of its caller's pointers with NULL, never
  what `fopen()` returned: without a file the program crashes
  (`ProcReport!OpenSection`).
* `myfs_init()` frees nothing when `register_filesystem()` fails; when
  `d_make_root()` fails an inode is put twice, and a failed `kmem_cache_alloc()` is
  answered by giving NULL back to the cache (`OnlyKnownDamage`).
* A key between `tasklet_kill()` and `free_irq()` schedules a tasklet that is freed
  next; a reader that enters `f()` between `kfree()` and `remove_proc_entry()` reads
  the freed `my_tasklet->count` (`main.c:92`); and a load that fails half-way leaves
  an interrupt handler, or a `/proc` file, of a module that is gone
  (`FreedOnlyByLatecomers`).
* `md1` alone is a state that neither `make load` (it stops at `insmod md1`) nor
  `make remove` (it stops at `rmmod md2`) leaves. The targets do not get there one
  after the other (`BothOrNone`), because `md3` refuses to be loaded; two at the
  same time, or a command that fails by itself, do.
* The scanner of `maps` tests `x < sizeof buffer` after it has read `buffer[x]`, and
  ends the name with a NUL, then a newline, at a place that is behind the buffer when
  no newline follows the fields (`output_funcs.c:145`, `166`). That takes the rest
  of a line that a `read()` has cut, with no newline behind it in the buffer
  (`OverrunsNeedCutLines`).
* The pages of a mapping that `pread()` of `pagemap` does not answer for (vsyscall,
  `output_funcs.c:152`) have no line in the report.
* An AF_UNIX client that leaves without a message costs the server its life: the
  answer raises SIGPIPE, and the socket file stays for the next `bind()` to fail on.

## 5. Proofs

TLAPS checks the theorems for every value of the constants; they rest on the
named assumptions of the modules only (`DaemonAssumption`, `LoadAssumption`,
`AlphabetAssumption`, `StreamsAssumption`, `SelectAssumption`, `UnixAssumption`,
`TaskletAssumption`, `WorkQueueAssumption`, `StoreAssumption`,
`DirWalkAssumption`, `TreeAssumption`, `ReportAssumption`; `FsModule` and
`ExportModules` need none), and in `FortuneProofs` on hypotheses that each theorem
states. Each proof
module has one step lemma per action of the component, and the theorems at its
end. Where a component is one of several in a sum (`Lab05`, `Lab08`, `Lab09`), a
step of the sum is a step of the part or leaves its variables alone, so the
theorem is stated of the sum's `Spec`, the one the run checks.

* **`DaemonProofs`** (any processes and inodes): `TypeOK`, `OneDaemonPerLockfile`,
  `PidFileStays`, `LockFollowsDaemon`. The inductive
  invariant adds `FdOpen`: a process has `LOCKFILE` open from `open()` to its exit.
  Without it a step of one process could not be told from one on another's inode.
  A lock has one owner, so whoever truncates or writes a lock file holds it; an
  inode that `open()` creates is open nowhere else. `PidFileStays` is an action
  property: `ContentStays` says of each step that it leaves a daemon's file alone.
  In the proof of the invariant, steps that leave the files alone share one lemma
  (`PlainStep`), the death of a process another (`DieStep`).
* **`FortuneProofs`**, `fortune.c` (any size of the buffer, any texts and lengths but
  0). `TypeOK` for any number of readers and writers. `OneWriter` (there is one, and
  it writes at least a byte) gives `PublishedEnds` and `PublishedBytesStay`, the
  fact that replaces a lock: no step changes a byte below `writeInd`. Its invariant
  `WriteInv` knows that the writer works at or behind `writeInd` also after
  `initFortune()` has set it back, and that what it publishes ends with `'\0'`.
  `OneReader` as well gives `CursorAtFortune`: `ReaderInv` says what a reader's
  registers still mean of the buffer after the writer has gone on, and that the
  place it advances to is behind a `'\0'`. Two readers break it, which is the hazard.
* **`FortunesInCycle`** there is the refinement of `FortuneCycle` (`ReadsInCycle`), with
  `OneWriter` and `OneReader`. What the buffer is to `FortuneCycle`, a shelf of
  strings, is counted from its `'\0'`s, so the lemmas come first that say how shelf and
  cursor follow a buffer: they are the same in two buffers that agree below
  `writeInd` (`ShelfSame`), one string longer after a publication (`ShelfGrows`), the
  cursor is 0 at the start and at the end when nothing is left (`ShelfAtStart`,
  `ShelfEnds`). Then each step is a step of the abstract specification or a stutter.
  That needs to know what is in the buffer while it is handled, `TextInv`: the writer's
  bytes below and behind `writeInd` (`BytesInv`), and that what a reader has in its
  registers and in `tmpBuffer` is the string on the shelf from which it started,
  however far the writer has come since (`CopyInv`).
* **`FortuneProofs`**, `seqfile.c`. `SeqTypes` for any readers and writers.
  `OnlyPublishedShown` (`ShowsOnlyPublished`; `OneWriter`, and `OneHasty`: at most one
  reader does not wait for its turn): `PrintInv` says that a reader about to print has
  compared `readInd` with a `writeInd` that has only grown since, which needs `TurnInv`,
  who may be at work together. `FortunesShownInCycle` is the refinement of
  `FortuneCycle` (`ShowsInCycle`) by handlers called one after the other, for any
  number of readers. Its `CycleInv` adds that the buffer holds only `'\0'` behind
  `writeInd` and the text being written (`TailInv`; a copy that fails half-way breaks
  it, so `WholeCopies` is assumed), that no fortune is empty (`FullInv`; an empty one
  measures 0, as the end of the round does), and that `len` leads to the end of the text that will
  be printed, or is 0 and the first fortune is (`ShowInv`).
* **`Lab05Proofs`**, `app2_threads.c` (a file of any length): `TypeOK`, `InOrder`,
  `OwnColour`, `AllWritten`. `Mutex` is mutual exclusion; `Reading` says that between
  `lseek()` and the increment the character read is the one at `filePos`; `Bounded`
  counts the steps of `filePos` past the end (one of each thread, which `TypeOK`
  needs); `Written` says that everything before `filePos` has been
  written, except by the thread that is between its `write()` and its increment
  (`Ahead`).
* **`Lab05Proofs`**, the other programs (a file of any length, buffers of any size):
  `EveryCharacterOnce`, `CopiesDoNotMix`, `BuffersReachFile`. The properties speak of
  what was printed; the inductive `StreamsInv` also of what is held and buffered:
  `TakenInv` says that what the two streams have printed, hold and have in their
  buffers is what was read from the file, in ascending order; `DoneInv` that a stream
  leaves its loop with nothing left; `PlaceInv` which statements two threads can be
  at. `CopyInv` ties the first copy's end to the mutex, `PairInv` is the turn-taking of
  `app2.c`, and `LettersInv`, `AppendInv`, `OverwriteInv` follow `app3*`'s buffers
  into the file. A stream whose file could not be opened is at its end from the
  start (`ready`).
* **`Lab08Proofs`**, part 2 (any number of clients, slots and descriptors):
  `RecvNeverBlocks`, `OneSlotEach`, `AnswersMatchRequests`,
  `DiesOnlyOfResetOrFullTable`. The request is in exactly one place from the client's
  `send()` to the answer it reads (`RequestInv`); what is in the set of `select()`
  is readable until the scan has come to it, though the clients go on (`ScanInv`);
  a slot holds a client that is not in the backlog (`SlotsInv`, `QueueInv`), which is
  why `accept()` cannot make a second slot of it; a connected client is
  somewhere (`PresentInv`).
* **`Lab08Proofs`**, part 1 (any servers and clients): `NameFollowsServer` is
  inductive as it stands. `MessageInv` says whose message is in `buf` from `recv()` to
  `printf()`; with `SendInv` of part 2 it gives `PrintsOwnText`.
* **`Lab09Proofs`** (any number of interrupts and processors, a log of any length).
  `LastKeySeen` of both modules: where the last key is between the interrupt and
  the log. `KeyInv` says it of the works (about to be queued, queued, or running
  and before the port is read) and needs `PendingInv`, for `queue_work()` drops a work
  whose pending bit is set and the key is lost if that work is not queued; `LogInv`
  says it of the tasklet. `NothingOutlivesModule` rests on `StageInv`, what each
  call of load and unload has registered; `FreedOnlyByLatecomers` on `QuietInv`, that
  without a late key the tasklet is scheduled and runs only while its memory is
  there, and that no reader came after `kfree()`; `ReaderShowsLog` on `ReadInv`.
* **`KernelModuleProofs`**, `FortuneLoad` (any number of modules with the same names, any users):
  `TypeOK`, `KeepsItsEntries`, `OneFortuneModule`, `NothingLeftBehind`,
  `HandlersHaveBuffer`. The checked properties say what a registered name implies;
  the inductive `Owners` says it in both directions, and needs `Progress`: a load
  that fails early must not hold the pointer of a name it never got. `Handlers`
  says that a handler runs only until `remove_proc_entry()` has returned.
* **`KernelModuleProofs`**, the rest (any number of mounts, of people who make). `FsInv` says
  that what is allocated and registered is a function of the call the module is at
  (`Allocated`), and that a mount keeps it loaded; `OnlyKnownDamage` alone is not
  inductive, because it does not know what there is to leak. `Stage` says where the
  modules are at each command of a target that is made alone, `Rest` where they
  are between two: both or none. `ExportInv` is that, and nothing once two targets
  were made at the same time or a command has failed by itself (`muddle`);
  `BothOrNone` does not know the stages in between and is not inductive.
  `KernelModulesSafe` puts the three laboratories together, for the specification
  that the run checks.
* **`ProcReportProofs`** (a buffer of any size, files of any length, any number of
  mappings with names of any length, any pages that `pread()` fails for): `TypeOK`,
  `FilesAreCopied`, `WholeLinesAreReported`, `OverrunsNeedCutLines`. For the files
  that are copied, `RestInv` and `BufInv` say that what is to be read is the end of the file, and that
  nothing of it is in the buffer yet; so what is left in the buffer by a chunk before is
  a repetition, and `OutInv` can say that each byte read is in the report behind
  smaller ones only. `ShortInv` is the file that fits: its buffer still has its NUL.
  `StringOfBuffer` is the lemma on `"%s"` of a buffer with or without a NUL.
  For `maps`, `ReadInv` and `BufferInv` say that each read starts at a multiple of
  the buffer's size in the text, that the cells up to `length` are that piece of
  it, and that the pages of a line that lies wholly before the scanner, in this
  piece or in one before, are in the report. `LineIsParsed` is the lemma about the
  scanner: in a buffer that holds a whole line it finds that line's beginning and
  both its addresses, whatever else is in the buffer, an older read or uninitialised
  cells included; `LineIsFound` adds that the newline behind its name is in the
  buffer, which is why the scanner cannot leave it there. `NothingToRestore` says that the newline the code puts back (line
  166) is where one was, so that the scan leaves the buffer as it was read. The text
  and the value of a number are recursive functions; `RecursionExists` shows that
  the function meant by `CHOOSE` exists, by a least counterexample (`Least`, from the
  library's `NatLessThanWellFounded`) in place of an induction. The one assumption
  of the model is that addresses have two digits (`Addresses`), in any base from 2 to 16.
* **`DirWalkProofs`** (any finite tree, any order of `readdir()`, any failing call but
  `chdir("..")`, any removals): `TypeOK`, `NamesMeetTheirDirectory`,
  `EachVisitedOnce`. The stack is the induction: `PlaceInv` says that an element that lies under another one belongs to
  the directory in which the upper one will leave the walker (`After`: `..` leaves it
  one up, everything else where it was), down to the first element. So a `pop()`
  after any mixture of entered, failed and finished directories finds the walker in
  the element's directory. `VisitInv` says that a node of a directory that was read
  is in one place: on the stack once, in `elem`, or visited, and that nothing
  of a directory is on the stack before it has been read. Both are claimed as long as
  nothing was moved and every `..` led up (`OnTrack`); `CrashInv`, for the division by
  zero, needs no such condition. `refused` remembers for which nodes `lstat()` has failed.
  They rest on `TreeAssumption`, what a file system keeps of its directories: no
  two equal names in one, and every chain of parents ends at `Top`.

Every inductive invariant was model-checked on the run's instance before it was
proved. Two properties became stronger by their proofs: `NamesMeetTheirDirectory`
now says of `..` too that it is taken in the directory it was pushed for (the stack
element carries that directory, as it does for entries), and `DirWalk`'s
`TypeOK` has the types of the stack's elements.

**Only model-checked:** liveness, because TLAPS does not reason about fairness here:
`TermEndsDaemon`, `UnloadEnds`, `EveryProgramEnds`, `WalkEnds`, `ClientsAreServed`,
`ModulesUnload`. And the three properties that the runs find violated have, of
course, no theorem.

## 6. Not modelled

* `lab_03` part 1 (one loop that prints the kernel's task list) and `lab_06` (a
  report): no state of their own, no code.
* Two readers of `fortune.c` at once, and what a report does when a file is missing:
  nothing worth stating holds (hazards without a property in `PROJECT.json`).
* Output text, percentages, `errno` messages, the size of a name buffer, integer
  overflow of a client's squared number, format characters in a fortune, the inode's
  fields of `lab_07`, what is printed about a page, key names.

Assumed of the calls the models make, and named at their actions: a `write()` of a
pid (at most 16 bytes) is done as a whole or not at all (`Daemon`); `read()`, `write()`
and `fclose()` of a regular file that is open do not fail (`StdioStreams`); the
properties say nothing after a write behind a buffer or a use of freed memory.

## 7. Plan

Every part with a state of its own is modelled, and every safety property, action
property and refinement that a passing run checks is proved. The liveness properties
stay with TLC. A change to the code starts at the definitions that `map` in
`PROJECT.json` names for its lines.
