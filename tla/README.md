# mini_fs in TLA+

This directory specifies and verifies `mini_fs`: a file system in a single file
(`src/src/*.c`, `src/include/*.h`) with a command line, an interactive shell, a
background log thread, and a second implementation of the same commands as a web
simulator (`src/ui/app.js`).

Contents: the system, the modules, the runs, what the violations show, disagreements without a run, the proofs,
what is left, what is not modelled.

## The system

| component | state it keeps | operations | what makes it correct |
|---|---|---|---|
| volume commands, `fs.c` | superblock `sb` in memory and in block 0 | format, mount, unmount, create, rm, rename, chmod, truncate, write, append, cp, read, stat, ls, statfs, fsck | a file is what was last stored under its name; counters, bitmap and inodes agree after every command; a refused command changes nothing; a process that dies harms no other file |
| inode table, `inode.c` | slots on the disk, no cache | read, write, allocate (first free slot), free, find by name | a slot belongs to at most one file, a name to at most one slot |
| bitmap, `bitmap.c` | bits in memory and on the disk | init, allocate (lowest clear bit), free, sync | a block in use is marked, a marked block is in use, metadata stays marked |
| disk, `disk.c` | descriptor, block size | init, read, write, close | a block read is the block last written |
| command line and shell, `main.c`, `fs_shell` | whether a volume is mounted | dispatch; the shell's unmount-format-mount | every command finds a mounted volume |
| format geometry, `fs_format` and `fsFormat` | none | where superblock, bitmap, inode table and data lie | disjoint regions with room for what they hold |
| log thread, `logger.c` | ring of 1024 messages, head, tail, count, stop flag | init, log, thread loop, cleanup | first in first out, nothing accepted is lost, shutdown terminates |
| samples, `perf.c` | ring of 64 samples, totals | init, record, last, report | the report shows the last 64 samples, oldest first |
| several processes | a superblock and a bitmap each, one disk | the commands | they would have to see each other's changes |
| web simulator: volume, `fs...` of `app.js` | list of files, counters, no bitmap | the same commands in JavaScript | the logic of the C program, as its header says |
| web simulator: command line | none | `smartSplit`, `parseAndRun` | the command gets the words that were meant |
| web simulator: page and timers | controls, editor, reader, tutorial, confetti | terminal, buttons, editor, dialog, reset | what is shown fits the volume; the editor saves what it shows |
| web simulator: records | samples, log lines, history and a place in it | record, log, walk, clear, reset | the last of what happened, in order |
| helpers, `utils.c` | none | two print helpers nobody calls | - |

How they interact. `main` mounts, runs one command and unmounts; the shell mounts once
and runs many. A command takes `fs_mutex`, looks names up in the inode table,
changes bits through `bitmap.c` (each change rewrites the bitmap's blocks and a
counter in `sb`), writes data blocks, the inode, and last `sb`. It then hands a message to the
log ring under `log_mutex` and a sample to the performance ring. Nothing but the log thread
runs beside a command inside a process, and the log thread never touches the volume. On the
page one handler runs at a time: most of them make a line and give it to `runCmd`, which runs it on the volume and redraws
everything; timers run between two handlers.

Behaviours that are hard here:

* long sequences of commands: the bitmap, the free counters, the block lists and the
  inode slots are four records of one thing, each updated by hand in every command;
* a process that dies between two commands, or between two writes of one;
* early returns after something was already changed (cp, format, `_do_write`);
* limits: a full disk, a full table, the 16 pointers, the empty content, the empty
  and the clipped name;
* a shell that goes on after a failed format;
* two processes on one volume, each with caches of its own;
* the log ring, its condition variable and its shutdown;
* words that are no numbers, which every check of the page lets pass;
* a page whose editor, tutorial and timers each remember a volume that may be gone.

`PROJECT.json` lists each hazard at its line, with the properties about it or the reason there is none.

## Modules

### MiniFs - the volume at the granularity of commands

One action per command, each taken atomically: in the only process that has the volume
open, nothing can run between the steps of a command. What can come between two
commands can: `Unmount` (the process ends), `Kill` (it ends without `fs_unmount`), `Mount` (another
process opens the volume), `CliFormat` (a format by a process of its own).

| variable | in the code |
|---|---|
| `up` | a process is past `fs_mount` and before `fs_unmount` |
| `sb`, `bitmap` | `sb` of `fs.c` and `bitmap` of `bitmap.c`; the bitmap as the set of marked blocks |
| `dsb`, `dbitmap` | block 0 and the bitmap blocks of `virtual_disk.bin` |
| `inode` | the inode table on the disk (there is no copy in memory) |
| `data` | the data blocks, byte by byte and padded with zeros |
| `reply` | what the last command answered: its success and what it printed of the volume |

| action | code | worth knowing |
|---|---|---|
| `CliFormat`, `ShellFormat` | `main.c:34-41`, `fs.c:940-947`, `fs_format` | three outcomes: refused before the disk is touched, failed after it was truncated, done. After the second the shell goes on with an all-zero superblock, and `SyncedSb` says why its `fs_unmount` then writes nothing |
| `Mount`, `Unmount`, `Kill` | `fs_mount`, `fs_unmount`, death | |
| `Create`, `Delete`, `Rename`, `Chmod`, `Truncate` | the functions of those names | slots are first-fit (`IsFirst`), lookups see used slots only (`Holders`) |
| `Write`, `AppendTo`, `Copy` | `fs_write`, `fs_append`, `fs_copy` | through `Store`, which is `_do_write` and the two writes after it: frees the old blocks, then takes the lowest clear ones (`FirstFit`), so a file may get its own blocks back |
| `Read`, `Stat`, `Ls`, `Statfs`, `Fsck` | the functions of those names | read counts in the superblock; fsck's verdict is `FsckFindsNothing` |

Every early return is a disjunct `Refuse(cmd)` that answers with an error and changes nothing.
`Copy` takes a slot and gives it back when the content does not fit; as nothing runs in
between, that disjunct too is a `Refuse`.

Abstractions: timestamps, `link_count`, byte totals and all formatting are left
out; free slots are equal (their stale bytes are never read); pointers beyond those the size
calls for are left out (every loop is bounded by the size). I/O counters wrap at `StatWrap`, 2^64 in the code. The failure
exit in the allocation loop of `_do_write` (`fs.c:293`) needs more free blocks counted than there are clear
bits; `CountsAgree`, proved below, is the reason it has no disjunct here. After a kill inside a command
it can be taken, and `CrashFs` has it.

### FileStore - what the volume promises

A durable map from names to files with no slots, blocks, bitmap or superblock: a command does what it
answers and nothing else, and is refused exactly when it has to be. Of the
implementation it keeps what a user can see: the number of files, the room, and
whether a content is stored before the one it replaces is given up (`InPlace`): the C program
needs room for both, the page does not. `MiniFsStore` and `MCWebVolume` map the two volumes to it. In `MiniFsStore` the map is read
off the disk and not off memory, so the refinement says at the same time that a kill loses nothing.

### CrashFs - a kill between two writes

Extends `MiniFs`. A command is started by a `Start...` action, which changes the memory and puts into `todo` the disks its
`disk_write` calls lead through, in the order of `fs.c`; `DiskWrite` makes the next one; `KillBusy` drops the rest, `KillIdle` ends a process that
waits. `job` remembers the command under way or cut off last: the files it is about, the disk before it, and the disk it leads to.

| definition | code |
|---|---|
| `FormatDisks`, `Marked` | `fs_format`: truncation, superblock, then one bitmap write per metadata block |
| `Made` | `fs_create`: `inode_allocate` puts a used slot without a name on the disk, `inode_write` names it, then the superblock |
| `Freed`, `Filled`, `Written`, `Saved` | `_do_write`, `fs_delete`, `fs_truncate_file`: one bitmap write per bit, each new block after its bit, the inode, the superblock |
| `StartWrite` | also the exit at `fs.c:293`: after a kill the counter can promise blocks that are not clear; then the loop runs out of them and inode and superblock stay |
| `StartMount`, `StartUnmount` | `fs_mount`, and `fs_unmount`'s two writes |

A second kill meets a disk the first one left, and so does every command in between. Left out are append and cp, which end in the same
writes, chmod and the commands that change nothing, and the shell's format. The kernel keeps the writes a killed process made, so this is not about
power failures.

### Processes - two processes on one volume

The first process has the variables of `MiniFs`; `Second` is `MiniFs` again with `up2`, `sb2` and `bitmap2` for its memory and the same disk. Commands are whole;
`SyncsOnly` takes back the one place where `MiniFs` says more than the code does once memory and disk differ, the write of a bitmap nobody changed.

### Layout - the arithmetic of a format

`Geometry` and `Acceptable` are the regions and the checks in exact numbers, which are those of JavaScript
(`fsFormat`); `GeometryC` is `fs_format` with every operation modulo `Word`, 2^32. `NoOverflow` is where they agree.

### Logger and LogQueue - the log thread

`Logger` has two threads, the one that runs the commands (`caller`) and the log thread
(`writer`), and what `logger.c` shares between them. Taking `log_mutex` is one step and the
critical section another, since nobody else can see the ring while the mutex is held; the log
thread's inner loop is one step per message. A signal only moves a thread that waits, so it can be lost;
a wait may end without a signal. `fopen` may fail, after which the log thread is gone and the ring fills.
Messages are the numbers of the calls of `fs_log`.

| variable | in the code |
|---|---|
| `log_queue`, `log_head`, `log_tail`, `log_count`, `stop_logger` | the same |
| `log_mutex` | the holder of `log_mutex` |
| `log_file` | the lines of `fs.log`, over all sessions |
| `caller`, `writer` | where the two threads are |
| `sent`, `spurious` | calls of `fs_log` and wake-ups without a signal so far, bounded by `MaxMessages` and `MaxSpurious` |

| action | code |
|---|---|
| `LoggerInit` | `logger_init`, again and again in a shell that formats |
| `Call`, `CallerLock`, `Enqueue` | `fs_log` |
| `Call`, `CallerLock`, `SetStop`, `Join` | `logger_cleanup` |
| `OpenLog`, `WriterLock`, `Wait`, `WakeUp`, `Leave`, `WriteLog`, `Drained` | `logger_thread_func` |

`LogQueue` is the promise: a bounded first-in first-out queue in front of a file, which drops a message only when
full, is empty when it goes down (if the file could be opened), and writes what it accepted eventually. The mapping is at the end of `Logger`.

### WebVolume - the simulated volume

| variable | in the code |
|---|---|
| `formatted`, `superblock`, `nextInode`, `usedDataBlocks` | the fields of `FS` |
| `files` | `FS.files`, as a function from inode numbers; the array is always in their order |
| `reply` | what the last command returned |

One action per `fs...` function, and `Reset` for what `doReset` does to the volume. There is no bitmap: `Numbers` makes up the numbers of new blocks from the counter of used
ones. `NaN` is what `parseInt` makes of a word that is no number; every comparison with it is false, so it passes `MustRefuse`, makes a superblock of NaNs
(`Blank`), a loop that never runs (`Needed`) and a cut at 0 (`Kept`). The map of the disk has at most `DispMax` cells (300 in the code), so of a larger
volume it draws every `ratio`-th block only: cell i stands for block i times `ratio` (`CellBlock`), and `Drawn` says how that block is drawn. The volume the page proposes has 2048 blocks and a
`ratio` of 7.

### CommandLine and WebPage - the page around it

`CommandLine` is how a line becomes words (`Split` is `smartSplit`) and words become a text. `WebPage` extends it and
`WebVolume`: what is typed, clicked and opened, with what a handler leaves to `setTimeout` as actions of their own.

| variable | in the code |
|---|---|
| `controls` | whether terminal and file controls are enabled |
| `writeTarget`, `editor`, `reader` | `writeTarget`, the inline editor, the inline reader |
| `tutStep`, `banner` | `tutStep`, and the step the banner shows |
| `backTimers`, `launchTimers`, `clearTimers`, `confetti` | timers not yet due, and whether pieces are on the page |

| action | code |
|---|---|
| `Submit`, `QuickCreate`, `RowButton`, `Save` | `submitCmd`, `quickCreate`, the buttons of a row, `doInlineWrite`: all through `RunCmd`, which is `runCmd` with `parseAndRun`, `updateTutorial` and `enableControls` |
| `OpenEditor`, `Type`, `CloseEditor`, `OpenReader`, `CloseReader` | the inline editor and reader |
| `ResetAll`, `FormatDialog` | `doReset`, `doFormat` |
| `BackTimer`, `Launch`, `Clear` | the callbacks of `doFormat`, `fsck` and `launchConfetti` |

### Recent, PerfRing, WebRecords - what is remembered

`Recent` is the promise every record of the past makes: the last N items, oldest first. `PerfRing` is the ring of `perf.c`,
`WebRecords` the three lists of the page (samples, log, history), what the tables show of them, and the walk through the history with the arrow keys.
`MCRecords` runs both side by side. `Follow` gives the C ring the operations the page
records and not the page's `perf` reports, which `fsPerfReport` records (`app.js:438`) and `fs_perf` does not (`fs.c:875`).

### MC modules

`MCMiniFs`, `MCCrashFs`, `MCProcesses`, `MCWebVolume`, `MCWebPage`, `MCRecords` and `MCLogger` hold the values of the constants;
`MCWebVolume` and `MCRecords` also hold mappings. `...Proofs` hold the theorems; those about `Layout` are in `WebVolumeProofs`.

## Runs

| run | properties | instance |
|---|---|---|
| `user_view` | `NamesUnique`, `NoLeak`, `FsckClean`, `ImplementsFileStore` | three names (one empty) for two slots, contents of two different bytes, two modes, one metadata block and three data blocks |
| `all_inputs` | `TypeOK`, `Durable`, `NoSharedBlocks`, `MetadataMarked`, `CountsAgree` | the empty content, a content longer than any file, a name that cp clips to an existing one, counters modulo 2; two metadata blocks |
| `cp_clips_names` | `NamesUnique` is violated | a name of 32 characters |
| `empty_write_leaks` | `NoLeak` is violated | the empty content |
| `crash` | `OthersKept`, `NoForeignBytes`, `CleanMeansWhole`, `NamedOnce`, `MetadataSafe`, `ImplementsMiniFs` | two names, two slots, two data blocks, contents of nothing, one block and two, two commands cut off |
| `crash_fsck_blind` | `SpotCheck` is violated | one command cut off |
| `two_processes` | `NoSharedBlocks` is violated | two names, two data blocks |
| `log_thread` | `TypeOK`, `RingInStep`, `FileInOrder`, `NothingLeft`, `ImplementsLogQueue`, `CallsReturn` | a ring of 2, five messages, two wake-ups without a signal, any number of restarts |
| `web_volume` | `TypeOK`, `CountsAgree`, `PointersInRange`, `NamesUnique`, `EnoughBlocks`, `MapCounts`, `ImplementsFileStore` | two names and one of 32 characters, numbers, NaN and a negative cut, three data blocks, a map of at most four cells for six blocks (`ratio` 2) |
| `web_double_alloc` | `NoDoubleAllocation` is violated | the same with numbers only |
| `web_page` | `PageTypeOK`, `EditorSound`, `NeverLockedOut`, `TutorialInStep`, `SaveStores`, `ConfettiGoes` | five names, one with a blank in it, a text with a blank at its end, lines that work and lines that refuse |
| `records` | `TotalsInStep`, `PanelsInStep`, `WalkShows`, `SameOperations`, `ListsAreRecent`, `RingIsRecent` | three samples, two log lines and two lines of history are kept; two operations and the page's own reports |

What each property says is written above it in its module.

Why the instances are large enough. The volumes of the passing runs have blocks of two bytes, two pointers per file and two inodes. So every limit is met from both
sides: two files of two blocks do not fit the disk, one file more does not fit the table,
three blocks do not fit a file; and two files
can take each other's former blocks in any order, which is what sharing and leaking need. In `crash` two cuts are the least with which a command can start on a disk that does not agree with itself and be
cut off in turn. A ring of two messages wraps more than twice with five, and overflows
while the log thread waits for the mutex, is not started yet, or is gone. The lists of `records` all overflow, and the ring of samples wraps, within seven operations.

Bounds. `MiniFs` needs none: its state space is finite. The others are named constants in the guards: `MaxCuts` (`KillBusy`), `MaxMessages` and `MaxSpurious` (`Call`, `WakeUp`), `MaxNumber`
(inode numbers since a format of the page, `Create` and `Copy`), `MaxLength` (contents on a volume without a block size), `MaxTimers` (timers not yet due), `MaxOps`
(operations counted). `InodeSize`, `LeastSize`, `DispMax`, the caps of the lists and the length of the rings are constants of the code scaled down. `CrashFs` has one more: a write waits for marked
metadata (`MetadataKept`), because writing files into metadata blocks after a format that was cut is not modelled.

Symmetry. `user_view` and `web_volume` take names to be alike (the empty one of `user_view` apart): the modules only compare names, and everything checked
there is an invariant or a property of steps.

Deadlock is checked in every run but those of the page, where the bounds can stop the model: without a volume the terminal is
disabled, and inode numbers run out.

Fairness. `MiniFs`, `CrashFs`, `Processes`, `WebVolume` and the records have none: a command is one step, or nothing obliges a process to live, and nothing obliges a user to act. `Logger` has
weak fairness of what a thread does inside the logger (`InsideLogger`, `LogThread`), which is what a
scheduler gives; the choice to log, to stop and to start again (`Call`, `LoggerInit`) has none, and neither has a wake-up
without a signal. Weak fairness is enough for the mutex because the log thread gives it up and
sleeps when the ring is empty; it could only starve the commands by waking up for nothing without end, which `MaxSpurious`
excludes. Under it `CallsReturn` says that no command hangs in `fs_log` and no process hangs in
`logger_cleanup`, the problem `README.md:67` tells of; and `ImplementsLogQueue` includes that accepted
messages are written eventually. `WebPage` has weak fairness of its three timers, for the browser runs callbacks that are due; `ConfettiGoes` rests on it.

### What the violations show

* `cp_clips_names`. `cp a <32 characters>` looks up the long name,
  finds nothing, and stores its first 31 characters. When a file of that name exists there
  are now two, and the second can be reached by no command until the first is removed or renamed
  (`fs.c:542`; `create` and `rename` check the length, `cp` does not).
* `empty_write_leaks`. `write f ""` from the command line
  allocates one block (`fs.c:270`) and sets the size to 0. Every release counts blocks
  from the size, so that block is never given back, and fsck reports a block count mismatch (the shell cannot pass an empty
  string).
* `crash_fsck_blind`. A format killed after its superblock and before the end of its marking loop leaves a disk that mounts, with metadata blocks free. The loop of fsck
  that is to look at these bits (`fs.c:850`) looks at none and prints that the bitmap is consistent (`fs.c:858`).
* `two_processes`. Two processes mount; one creates and writes a file; the other just ends. Its `fs_unmount` writes the bitmap it read at the start, and the block of the file is free
  on the disk. The next allocation gives it to another file. `README.md:31` says that `fs_mutex` protects all operations from races, but that is a variable of a process, and in a process only one thread runs
  operations.
* `web_double_alloc`. Create and write two files, remove the first, write a third: its block is numbered
  after the count of blocks in use (`app.js:166`), which is the number of the second file's block. The page's own fsck reports it (`app.js:394`). Contents are kept by
  file and not by block, so nothing is overwritten, and `ImplementsFileStore` holds with the verdict of fsck set aside.

The properties violated by an input are checked without that input in `user_view`, and the invariants of `all_inputs` hold with it.

### Disagreements

Where the repository is of two minds, and no run is about it:

* A page without a volume asks for a click on the button or for `format 1048576 512` to be typed (`app.js:682`, `index.html:200`). The terminal is disabled just then (`index.html:164`, and
  `app.js:1043` after every reset), so only the button and its dialog can format. `WebPage` has what the code does: `Submit` needs `controls`, `FormatDialog` does not. The converse of
  `NeverLockedOut`, `~formatted => controls`, is false in the initial state of `web_page`, and `PageInv` has `controls = formatted`.
* `app.js:5` claims the logic of the C program. After create, perf, perf the second report of the page lists create and perf, that of the C program lists create: `fsPerfReport` records itself (`app.js:438`),
  `fs_perf` (`fs.c:875`) does not. `Report = records` is therefore false in `records`. `SameOperations` says what they still have in common: the operations, in their order and without a gap, and the
  whole report as long as none of the page's samples is a report. The page then also shows its report as the last operation (`app.js:594`).
* `doReset` sets `tutStep` to 0 and calls `updateTutorial(null)`, which returns at once (`app.js:1301`): the banner goes on showing the step it was at until the next format. `TutorialInStep` asks
  for the banner only on a formatted volume.

## Proofs

### The volume

For all values of the constants that satisfy `NamesAssumption`, `BytesAssumption` and
`GeometryAssumption` (declared in `MiniFs`; any geometry with at least one metadata
block and one data block):

| theorem | module | says |
|---|---|---|
| `TypeCorrect` | `MiniFsProofs` | `TypeOK`: the unsigned counters never go below zero, and an inode lists exactly as many blocks as its size calls for |
| `DurableCorrect` | `MiniFsSafetyProofs` | between commands memory and disk agree |
| `NoSharedBlocksCorrect` | `MiniFsSafetyProofs` | every block of a file is a marked data block with a single owner |
| `MetadataMarkedCorrect` | `MiniFsSafetyProofs` | metadata blocks stay marked |
| `CountsAgreeCorrect` | `MiniFsSafetyProofs` | the free counters equal the clear bits and the free slots |
| `NamesUniqueCorrect` | `MiniFsUserProofs` | no two files of one name, if no name is long enough to be clipped |
| `NoLeakCorrect`, `FsckCleanCorrect` | `MiniFsUserProofs` | every marked block is metadata or has an owner, and fsck agrees, if nobody stores an empty content |
| `StoreCorrect` | `MiniFsUserProofs` | the volume implements `FileStore`, under both conditions |

The two conditions are the two violations above, so they are as weak as the code allows: with a clipped name two files share one, and with an empty
content the room a user sees is not the room there is.

`TypeOK` is inductive by itself. It rests on facts about `Blocks` (monotone, at
most `MaxDirect` for a legal size, at least one block below `BlocksNeeded`), on `ContentType` (the
bytes collected from the blocks are `size` many) and on `StoreType`. The counter
`free_blocks` stays a natural number because `Store` runs only when `FitsNot` is false.

The next four are proved together, because none is inductive alone. `SafeInv` is
`TypeOK /\ Durable /\ DiskSafe`. The step for an allocation needs the clear bits to be owned by
nobody (`Apart`: used blocks are marked), clear bits are taken from memory and
owners are on the disk (`Durable`), the metadata must be marked for the bits to be data blocks
(`MetadataMarked`), and the counters change by the number of distinct blocks
freed and taken, which is the length of the lists only when they name no block twice (`Apart` again). `Apart` is
`NoSharedBlocks` by slots instead of by pointers (`ApartMeans`). What the commands have in common is
proved once: `SlotStep` for a command that rewrites one slot, clears bits that were its own and
sets bits that were clear; `SlotShrink` for one that only clears; `StoreSafe` for `_do_write`;
`FormatSafe` for a format. `SafeStep` then has a step per action.

The next three rest on `UserInv`, which is `SafeInv` with `Blank` and the two properties under their conditions. `Blank` (a disk without a
magic number has counters of zero) is needed because a process with an all-zero superblock sees no names and would let every name through, and because statfs prints its counters. `OwnedStep` is the set of owned blocks after
a slot was rewritten; that freeing a slot's blocks takes nothing from another slot's is `Apart`. `FsckCleanCorrect` then needs no step of its own: `FsckCounts` turns `NoLeak`,
`NoSharedBlocks` and `CountsAgree` into the two counts fsck makes, by cardinalities.

`StoreCorrect` is the refinement: initial states map to initial states, and every step is a step of `FileStore` or changes nothing it can see (`StoreStep`, with one lemma per
command, `CreateImplements` to `FsckImplements`). Three things make it more than unfolding definitions.

* What a reader gets. `StoredFile` says that the bytes collected from the blocks `_do_write` filled are the bytes it was given, whichever blocks those were
  and whatever they held; `OthersSpared` says that the blocks of other files are not among them, which is `Apart`. `FilesStep` turns what happens to one slot
  into what happens to the map from names to files, by `NamesUnique`.
* When a command is refused. `FileStore` computes the room from the contents, `fs.c` looks at a counter. `RoomFree` equates them: the fold over the files is a sum of
  cardinalities (`AddsCounts`, by well-founded induction on subsets of the names), that sum is the number of pointers, and that is the count of fsck.
* A volume that is not there. After a failed format the shell works on zeros, and each command has to answer as a store without files does.

### A kill between two writes

For all values of the constants, in `CrashFsProofs`; like the run, the theorems are about writes that wait for marked metadata (`MetadataKept`):

| theorem | says |
|---|---|
| `CrashSafe` | `CrashInv`, the inductive invariant, with the type of every variable |
| `NamesKept` | no two files of one name, however often commands are cut off (but for nameless ones) |
| `MetadataStays` | metadata stays marked and unowned from a finished format to the next one, however often commands are cut off |
| `WritesAddUp` | until a command is cut off, its writes add up to the step `MiniFs` makes of it |
| `OthersSafe`, `BytesKept` | the first command that is cut off harms no other file, and leaves its own without bytes of others |
| `CleanWhole` | if fsck calls clean what the first cut left, the inode table is the old one or the new one |

There are three invariants, one on top of the other. `CrashInv` is what survives any number of cuts: every disk still to be written is a `GoodDisk` (typed, files point at data blocks,
names differ) and marks the metadata if the one before did (`Chain`). A disk in the middle is described by what differs from
the disk before the command (`Freeing`, `Filling`, `Stuffed`), so nobody has to say which write it is.

`WholeInv` adds the safety of `MiniFs` on the disk the process would leave (`Due`) while nothing was cut: `V` is an instance of `MiniFsSafetyProofs` on that disk, and
its `SafeStep` is used as it stands. The safety is needed for the refinement, not just along with it: without `CountsAgree` create could find no slot, and write run out of blocks at `fs.c:293`.

`PartInv` adds that every disk on the way from the one before the command (`job.was`) to the one after it (`job.due`) is in `Mid(job)`: other files are as they
were (`KeptIn`), the chunks of the file are its own (`OwnBytes`), and fsck counts one slot too many where the table is neither of the two (`TableOf`). There is one lemma per kind of write (`FreeMid`, `FillMid`, `TakenMid`, `DroppedMid`, `RewrittenMid`)
and one per command. A proof of `BytesKept` for every payload showed that a write of nothing clears the block it takes, perhaps one the file had, which is why `NoForeignBytes` allows
`Padding` and the run has the empty content.

### The log thread

For every length of the ring and all bounds (`LoggerAssumption`), in `LoggerProofs`:

| theorem | says |
|---|---|
| `LoggerTypeCorrect` | `TypeOK`: only messages that were given reach the file |
| `RingCorrect` | head, tail and count agree, and the ring is in order |
| `FileCorrect` | `fs.log` has the messages in order and none twice |
| `NothingLeftCorrect` | after `logger_cleanup` nothing accepted is unwritten, unless fs.log could not be opened |
| `QueueCorrect` | every step of the two threads is a step of `LogQueue` or does nothing to the queue |

`LogInv` adds to these who holds the mutex where and what the stop flag excludes
(`Discipline`: a log thread that is done left an empty ring, and nothing can be queued after the flag), and that everything in
the file is older than everything in the ring (`FileBeforeRing`). The arithmetic of the ring is in `ModCase`, from
which `Put`, `Take` and `HeadMoves` follow: what a message put at the head or taken at
the tail does to the k-th message. Each action's share is then `DisciplineStep`, `EnqueueStep` and `WriteStep`. `QueueCorrect` maps the ring to the sequence of its messages (`Pending`):
`Put` makes it longer by one at the end, `Take` shorter by one at the front, and `LogInv` gives each action the guard the abstract one has. It is the safety half of `ImplementsLogQueue`.

### The format, the page's volume, the records

| theorem | module | says |
|---|---|---|
| `LayoutSound` | `WebVolumeProofs` | for every size and block size that is accepted the regions follow one another, the bitmap has a bit for every block, the table has room for every inode, a data block is left |
| `SameLayout` | `WebVolumeProofs` | where `NoOverflow` holds, `fs_format` and `fsFormat` compute the same layout |
| `TypeCorrect`, `CountsRight`, `PointersRight`, `NamesRight`, `BlocksRight`, `MapRight` | `WebVolumeProofs` | the six invariants of `web_volume`, for all arguments, NaN included |
| `RingKeepsRecent`, `NewestRight` | `RecordsProofs` | the ring of samples implements `Recent`, and `perf_last` shows what a report ends with, for every length |
| `TotalsRight`, `PanelsRight`, `WalkRight`, `ListsKeepRecent` | `RecordsProofs` | the invariants of `records`, and that the three lists implement `Recent`, for every length |
| `SameOperationsRight` | `RecordsProofs` | given the same operations, those the page reports are the last ones `perf.c` reports, in order and without a gap, and the reports are equal while none of the page's samples is a report, for rings and lists of any one length |

The six of the page's volume have one inductive invariant, `VolumeInv`, to which `Regions` (where the data region lies) and `Limited` (no file has more than `MaxDirect` blocks) are added. `MapRight` follows from it: the used cells are the multiples of `ratio` in an interval as long as the number of used blocks (`MultiplesWithin`), and there are as many of them as `CeilDivMultiples` counts. The made-up numbers stay in range (`NumberBound`) because the count of used blocks is at most the number of
data blocks, which is `CountsAgree` with a superblock whose counters stay natural. `RingKeepsRecent` and `ListsKeepRecent` are refinements of safety specifications: initial states map to initial
states, and every step is a step of `Recent` or leaves the list alone; modular arithmetic enters by one lemma each about remainders (`Remainder`, `ModCase`). `SameOperationsRight` puts the two side by side. `Tied` says of every operation among the page's samples where the ring has it: as many places from the end of the C report as there were operations since (`OpsSince`). A new operation moves both by one (`AgoNext`, `OpsNext`, `ReportAgo`), a report of the page moves only its own list.

### The page

For all names, lines and texts that satisfy `PageAssumption` and `LineAssumption`, in `WebPageProofs`:

| theorem | says |
|---|---|
| `SplitType` | `smartSplit` makes words of the line's characters, none of them empty |
| `WrittenWords` | the line `doInlineWrite` makes is taken apart into the command, the name and the text, for every plain name and text |
| `PageTypeCorrect`, `EditorRight`, `ControlsRight`, `TutorialRight` | the four invariants of `web_page`, whatever is typed |
| `PageKeepsVolume` | the invariants of the page's volume hold under everything the page does |
| `SaveRight` | saving stores the text that is shown in the file that is named and in no other, or is refused for a reason |

The assumptions say what a character, a blank and a quote are, that no name is empty (`smartSplit` makes no empty word), and that the words typed behind a command are names, for which `parseInt` gives a number or NaN. Names and texts
themselves are unrestricted; `SaveRight` speaks of plain ones, because quotes and blanks in a name really are lost on the way over the command line.

`Scanned` and `Join` are functions defined by recursion; what they compute is proved by induction on the number of characters or of words (`CountUp`), in first-order form. `WrittenParts` goes along the line: the command, the blank, the name, the blank, the quote, the text, the quote.
`PageInv` is `VolumeSound`, the four invariants and the bound of the timers, with `NeverLockedOut` in its stronger form `ControlsInStep`: the controls are enabled exactly when there is a volume. `TutorialInStep` needs to know that no command but a format that works brings a
volume (`Stepped`), which is why the dispatch is gone through command by command (`CallSound`, `ParseSound`).

### Model-checked only

* `ImplementsFileStore` of the page's volume, which holds under conditions on single commands and is stated for the constants of `MCWebVolume`.
* Liveness: `CallsReturn`, `ConfettiGoes`, and the part of `ImplementsLogQueue` that says accepted messages are written eventually. Fairness needs `ENABLED`, which is beyond the prover.

## What is left

1. Disks that fail: `disk_read` and `disk_write` that return an error nobody looks at.
2. Overlapping commands of two processes, at the granularity of `CrashFs`, and which properties two processes keep.
3. append and cp cut off half way.
4. The palette and completion of the page.
5. The refinement of `FileStore` by the page's volume, stated and proved for all constants.

## Not modelled

* In `CrashFs`, append, which is a read and the writes of write, and cp: after a kill left `free_inodes` too high it ignores the result of
  `inode_allocate` (`fs.c:541`) and works on an uninitialised inode.
* Formats to fewer bytes than a superblock (88), after which a short `pread` leaves parts of the old one in memory and the code may work on freed
  memory (`bitmap.c:16`).
* A `pthread_create` that fails, whose thread is joined all the same (`logger.c:54`), and writes to `fs.log` that fail.
* Reads and writes of the disk that fail (`fs.c:370`): a buffer that was not read holds garbage.
* Formats whose arguments wrap in 32 bits are in `Layout` (`GeometryC`) and in no run: `SameLayout` says where they do not.
* Timestamps, `link_count`, byte totals, I/O time, usage messages, `strtok` on shell lines.
* Of the page: palette, completion with Tab, tabs, theme, toasts, hex dump, information windows, and what is only drawn; `index.html` and `style.css`.
* `utils.c`, `fs.h`, the Makefile and the test scripts, which were read for what they say of the program.
