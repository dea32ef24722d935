# DD-GUI: a verification project

DD-GUI copies drives: a window (Slint) lets the user choose a source and a
target, a worker process (`dd-gui` again, started with hidden options, through
`pkexec` and the like when root is needed) does the writing, and bundled uutils
`dd` copies sector by sector when the smart copy can't. The TLA+ modules here
model that program, TLC checks them on small instances and TLAPS proves what
matters most for every instance. Paths below are relative to the repository,
`src/app.rs` stands for the file `src/src/app.rs` that `PROJECT.json` names.

## The system

| part | state | operations | talks to |
|---|---|---|---|
| window, drives (`app.rs`) | `Slot`s, `drives`, `scan`, `rechecking` | pick, scan, Start's check, confirm | drive listing on a thread, results posted to the event loop |
| window, jobs (`app.rs`) | `job_id`, `job`, `run`, `pending` | start, mode dialog, cancel, events, finish | job runner by calls, its events posted back |
| job runner (`job.rs`) | `Shared`, pid, stdin, reader and waiter threads | start, answer, cancel, outcome | worker through stdin, stdout, stderr and the exit code |
| worker plumbing (`worker.rs`) | `CHILD`, the watching thread | watch, prepare, flush, run_child, cancel_now | GUI and dd |
| copier entry (`engine/mod.rs`) | arguments, `clobbered` | run, smart_copy, restore, zeros, full_copy, tidy | plumbing, pipelines |
| copy pipelines (`engine/copy.rs`) | pools, channels, threads | with_writer, to_drive, zeros, to_image | drives and files |
| smart image (`engine/image.rs`) | map, frames, seek table | write, parse, take apart | pipelines, restore |
| restore (`engine/restore.rs`, `engine/formats/`) | decoders, staging | inspect, restore | files, drives |
| raw disk (`engine/disk.rs`) | descriptor, sector buffer | read_at, write_at | the OS |
| analysis (`smart/`) | extents in use | partitions, file systems, LVM | raw disk |
| plan (`plan.rs`) | none | operands, problem, totals | window |
| drive listing (`drives/`) | none | list, remount | OS tools |
| desktop (`desktop.rs`) | tray, theme, file dialogs | | window |
| virtual disks (`engine/formats/`) | decode pool, window of slots, patches | open, next, read, check, replay | files, restore |

What is hard here is what several threads and processes do to one another: two
threads and two channels per copy, four groups of them per image, a pool that decodes
blocks ahead of a reader; a worker that must stop when the GUI says so or dies, but
never writes after it has been reported as done; answers, events and scan results that
arrive after they have ceased to matter; sticks that get swapped between being chosen
and being written. And what a drive or an image looks like after others have stopped
writing it at any point: a file system that was not unmounted, a partition table
half written, a virtual disk whose owner crashed. Leaving out one cell too many there is
silent data loss. `PROJECT.json` lists each such place under `hazards`.

## Modules

**`OrderedCopy`** is what a pipelined copy promises: pieces reach the target in
order, each with its own bytes, nothing follows a torn one, and success means
all of them are there. **`WriterPipe`** (`with_writer`, `to_drive`, `zeros`) and
**`ImagePipe`** (`to_image`) implement it. In both, one action is one step of one
thread between two operations on a channel; a channel end is open as long as the
thread that owns it lives, exactly as dropping works in Rust. A read, a write
and a compression may fail at any time. Data is abstracted to "the bytes of
piece p".

**`JobContract`** is what the GUI relies on while a job runs: nothing written
before the user has said how, nothing after Finished, success only when all of
it is flushed, "not authorized" only when nothing was touched. **`JobProtocol`**
implements it: the UI thread, two readers and the waiter on the GUI's side;
pkexec; the main thread and the watching thread of the worker; the dd process
and its watching thread; three pipes, two of which dd holds open, too. Cancel is
two steps (`started` is read before stdin closes), spawning and storing dd is two
steps (see findings), `cancel_now` is three.

**`DriveChoice`** is the window's part in choosing: the world changes (sticks are
swapped, unplugged, mounted), scans run on threads and their results are posted
late and in any order, and Start checks again. **`AppJobs`** is the window's part
in running: ids, the mode dialog that still takes clicks while it fades, the job
page, and events of jobs given up long ago. Each job in it does what
`JobContract` allows.

**`Rounding`**, **`Extents`** and **`Sectors`** are the algorithms of the smart copy,
as operators on cells (a cell stands for the smallest unit that anything is
aligned with): merging, aligning and capping what's in use (`smart/util.rs`), the
text of an image's map, frames and cursor (`engine/image.rs`, `pieces` of
`engine/copy.rs`), and reads and writes of any alignment made of whole sectors
(`engine/disk.rs`). **`SmartCopy`** puts them together, one action per stage:
`Analyze`, `OpenTarget`, `CopyPiece` to a drive or `MakeImage`, then possibly
`Damage` to the image, `OpenImage`, `RestoreFrame` and `RestoreDone`. What the
readers of file systems find (`Founds`) is an input; what they don't find is free,
and its content is lost by design.

**`RestorePipe`** is the other half of that: the threads of a restore of a smart
image (`restore_smart_v2`): the one that reads frames, the decoders that overtake
each other, and the main thread, which puts them back in order. It implements
`OrderedCopy`, too.

**What is in use.** `Volume` holds what the readers of file systems share; `Fat`, `Exfat`,
`Ntfs`, `Iso9660` (and swap), `Ext`, `F2fs`, `HfsPlus`, `Xfs`, `Btrfs`, `Udf`, `Apfs` and
`Lvm` are one reader each (`smart/<kind>.rs`). In each, `XRead(d, mode)` is the code's
`analyze`: what it tests, in which order, what makes it refuse, what it adds. The rest of the
module is the reader's environment, a driver that mounts the file system: `XFresh`,
`XMounted`, `XChanges`, `XFlushed` (one write that reaches the disk, in any order the
file system allows), `XUnmounted`, `XDamaged`, and `XNeed`, the cells a system that mounts
what is on the disk may depend on, including what it replays from a journal. **`InUse`**
composes them: a partition is mounted, changed, flushed piece by piece, unmounted, pulled
out at any point or damaged, possibly with leftovers of another signature on it
(`probe.rs`), and `Partition(mode)` is what DD-GUI makes of it, in a copy or in a preview.

**`Tables`** is `partitions.rs` (and the end of `probe.rs`): the MBR with its chain of
EBRs, BSD labels of four flavours, the GPT with its other copy and hybrid entries, Apple
maps, and the choice between 512- and 4096-byte sectors by what the entries point at.
**`Partitioning`** is its environment: a tool that edits a table, writes it sector by
sector in any order its users accept, is interrupted, and sectors that become unreadable.

**Virtual disks.** `ImageFile` is the file (`Source`, with the patches of a replayed log)
and the pieces a format describes its disk with. `VDisk` is the machine they share: the
window of slots in front of the reader, merged where neighbours continue one another; the
pool of decoding threads, which take jobs from a queue, answer in any order, and may
panic; the read that fills a buffer from the front slot. `Qcow2`, `Vmdk`, `Vhd`, `Vhdx` and
`Dmg` open a file and follow its layout; the second half of each is the images its writers
make, with the guest's disk beside them. `Vhdx` also has an owner with a write cache: it
logs changes of its block allocation table, applies them, frees and reuses the ring,
flushes, and may crash between any two writes. **`VirtualDisk`** composes them: any image of
any format, or a VHDX at any point of its owner's life, possibly cut short at its end, is
opened and read with buffers of changing size.

`src/` holds no driver, no partitioning tool and no virtual machine: those halves are
marked external in `PROJECT.json`, modelled from what the code in `src/` relies on.

## Runs

| run | instance | shows |
|---|---|---|
| `writer_pipe` | 5 pieces, 3 buffers, target of 0..5 pieces, copy or wipe | the pipe is an ordered copy, terminates, explains its errors, and never writes past the target |
| `image_pipe` | 2 compressors, 7 pieces of data behind free space, 6 permits | frames in order, memory bounded, no part missing, everything ends |
| `job` | all kinds of work; kill and crash at any time | the contract, and that a cancelled job ends |
| `drive_choice` | 2 sticks, 3 changes of the world | the choice is what is listed, and a check ends |
| `app_jobs` | 2 jobs | the window tells the truth, never gets stuck, and one job at most writes |
| `smart_copy` | sources of 15, 27 and 48 cells, sectors of 1, 2 and 4, blocks of 3, 4, 5 and 9, up to 3 extents found, in any order | every copy and restore is exact where data was, and a damaged image is reported |
| `restore_pipe` | 2 decoders, 7 frames, 6 slots | frames in order, slots come back, everything ends |
| `in_use` | 13 kinds of volumes of up to 24 cells, 3 mounts and changes, a crash or a lost block at any point | what is understood keeps all a later mount needs; a clean volume is understood; a preview, also of a mounted volume, shows what the copy will take, and it understands what the copy will |
| `tables` | 10 schemes and 6 drives without one, 32 cells, 2 sector sizes, 2 edits | no partition and no table is left out, and free space is |
| `virtual_disk` | all images of 5 formats with up to 3 blocks or clusters in every state; a VHDX log of 5 sectors and 3 changes; 2 threads, 2 panics; cuts of the file | what is read is the guest's disk or an error, and always what the layout shows; the replayed VHDX has what was flushed; the window is bounded; every read ends |
| `job_gone`, `drive_swapped` | as `job` and `drive_choice` | the findings below |

The pipelines have more pieces than buffers or permits, so every channel fills
and empties. Two jobs are enough for an old one whose events come late and a new
one they could harm. Three changes swap a stick and swap it back.

In `smart_copy` every constant keeps the order it has in the code (blocks smaller and
larger than the alignment and not a multiple of the sector, gaps just above the
alignment, a map that holds fewer extents than can be found), and sizes are chosen
so that a drive's end falls inside a unit, a block and a frame of zeros. Found
extents touch, overlap, contain one another and reach past the end. Any one frame
of an image may be missing.

In `in_use` a volume is as small as its structures allow, and each structure that has
copies or parts has two: FAT copies on both sides of the 12-bit limit (`Fat12Limit` 3 for 4085, `Fat16Limit` 5 for
65525, `Fat32Limit` 6 for 0x0FFFFFF6: a FAT16 and a FAT32 volume have a cluster too many), ext groups
with and without superblock copies, with blocks of 1 KiB and larger, segments, allocation groups,
checkpoint packs, restart pages, chunks, metadata areas, an EFI driver and key lockers. The XFS log of 8 blocks wraps
within three changes, and so does the APFS ring of two checkpoints. `MaxOps` 3 is a mount and two changes, or
two mounts: enough for old and new states of the same block to be on the disk together. In
`tables` an extended partition has up to three logical ones (the chain is cut, edited in
the middle and made to point back) and `MaxLogical` is one more than they need; `ZfsRing` is how far into a slice ZFS keeps its
uberblocks. In
`virtual_disk` the window constants keep their order: a block may be as big as
`InFlightCells`, and `LookAhead` and `MaxAhead` are reached before the end of a disk; a log
of five sectors holds two entries, so it wraps, and old entries lie behind new ones.

**Fairness.** Weak fairness of each thread: the OS schedules it, and a transfer
of one piece comes to an end. In `JobProtocol` neither the user, nor the prompt,
nor the copy is fair: only threads that wait for something that is there. In
`VirtualDisk` the reader keeps reading (it is a copy's producer), a block a thread has taken gets
decoded and an idle thread takes work; panics, and what the owner does, need not come.

**Deadlock.** TLC's deadlock check is off where the system stops by design: when a copy has
returned, a job has ended, a drive has been edited `MaxEdits` times.

## Proofs

`WriterPipe_proofs` proves for any number of pieces, any finite pool and any size
of target: `TypeOK`, `SuccessIsComplete`, `TooSmallFails`,
`WriterExplains` and the refinement `Spec => Copy!Spec`. The inductive invariant
`IInv` adds to the properties: a buffer is in one place (`BufferOwnership`, which Rust's moves
see to and the model has to say), the queue holds consecutive pieces from the
writer's to the producer's (`PieceOrder`), a buffer holds the bytes of the piece it
is queued for (`Contents`), the target holds what the writer has got to
(`WrittenSoFar`), and each thread's end says how the other's went (`Endings`).
`SuccessIsComplete` alone isn't inductive: a success is only complete because the
queue was empty and in order when the writer ended. The assumptions are
`PipeAssumption` and `BuffersAssumption`; the second one (a finite pool) is only
needed by `Capacity`. `WriterExplains` is a theorem only; its run would ask
nothing new.

`ImagePipe_proofs` and `RestorePipe_proofs` prove the two pipelines with several threads in
the middle: `Accounting` of `to_image` for any layout and any number of compressors,
`SlotsAddUp` of `restore_smart_v2` for any number of frames and decoders, and that both
implement `OrderedCopy`, which includes that "parts of the image went missing" is never
their result. Between the two ends, pieces aren't consecutive any more: compressors overtake
each other. What holds instead is that a piece that was read is in one place at most
(`OnePlace`), that it's later than all that is written (`InOrder`), and that none gets lost
and no thread ends early as long as main hasn't seen an error and none is on its way
(`NothingLost`, `Trouble`). That is why main may take "all senders are gone" for "all is
there" (`NothingMissing`). Permits and buffers of `to_image` are counted against the data
in memory, slots of a restore against the frames on their way (`Travelling`), a set that
most steps leave as it is. What sending, receiving and counting
do to a channel comes first in both. The assumptions are `ImageAssumption` and
`RestoreAssumption`: a finite number of threads, at least one.

`Extents_proofs` proves what the operators of the smart copy do, for every value they can be
given. Recursive functions and folds are within reach there, because the induction they need
is put in terms of sets: of the numbers that lack a property one is the smallest (`Minimum`,
from the well-foundedness of `<`), so there is none (`Induction`), and a fold is the last of a
sequence of values that one step after the other leads to. What is proved:

* `TransfersAreWhole` (a drive is only asked for whole sectors), `ReadAtIsExact` and
  `WriteAtIsExact` (a write changes exactly what it's given data for), for any sector size,
  offset, length and buffer. The argument of the last one: what is written back around the
  end of a write is either new, or it lies in the first or the last sector, and then that one
  was read before (`KeptIsRead`). A drive of whole sectors is assumed; a file has sectors of
  one cell, and there a write is one transfer.
* `NormalizeFacts`: `normalize` keeps every cell it was given, and its extents are sorted,
  apart, on the drive and few enough, for every list in any order. `merge`'s loop keeps
  (`Merged`) that what it has put out holds all that it has seen; the doubling of the gap ends
  because at a gap as big as the drive one extent is left.
* `MapReadsBack`: a map is parsed to what was written, also where the end of the drive cuts
  its last unit short (`Unit` divides every number but that one).
* the pieces of an extent follow one another and fit the block (`PiecesOf`), those of free
  space are never longer than `ZerosMax`, and the cursor tells used from free (`RunFacts`).

`SmartCopy_proofs` proves all that `smart_copy` checks, for every drive, every layout found on
it, every block and every target: `LayoutKeepsData`, `ImageIsReadable`, `SuccessIsComplete`,
`FreeUntouched`, `DamageIsReported` and `WholeSectors`. None of them is inductive; `IInv` is:

* `StartInv`: the map is one that reads back, and nothing is written or staged before a target
  is opened.
* `ImageInv`: an image covers the whole drive, or it shows that it doesn't (`Short`): what is
  left unpacks to less, and a seek table doesn't match the frames.
* `TargetInv`: the target has room for the map, and what isn't used is as it was.
* `StagingInv`, `CopyInv`, `RestoreInv`: each used cell is in place, staged, or in what is left
  to do, pieces or frames. This is what makes the end of a copy a complete one (`DoneInv`): then
  nothing is staged and nothing is left. A write that fails has torn a beginning of the buffers
  (`TornAmong`), which still only touches used cells. Whole frames matter in a restore of
  version 2 only: there a damaged image is refused at once, while version 1 restores what there
  is, shifted, until the sum of the sizes shows it; `Restoring` is only claimed of a whole one.

The assumptions are `ExtentsAssumption` (the alignment, the limits and the sizes of frames
aren't 0) and `SmartCopyAssumption` (drives of whole sectors, blocks that aren't empty; what
is found are extents with natural numbers).

`AppJobs_proofs` proves for any number of jobs: `WindowTells`, `NeverStuck` and
`OneWriter`. Its inductive invariant has two halves. `Window` ties what the window shows to
what `State` knows: a check has no job and is on the first page, a question has the newest
job, which has an id, and `run` is only set on the job page. `Workers` ties `State` to the
workers: ids to come have no job (`Unborn`), the job the dialog asks about may not write yet
(`Unanswered`), a worker that may write is held even after a cancel (`Owned`), and an event
in a queue is true of the job that posted it (`EventsMeant`). `OneWriter` isn't inductive
without the last two: a `Finished` that is handled makes `State` forget its job, and only
`EventsMeant` says that this worker is over; only `Unanswered` says that a job given up in
the dialog never writes. The assumption is `JobsAssumption`.

`JobProtocol_proofs` proves `TypeOK`, `PickedModeRuns` and `ImplementsContract` for every
kind of work, with crashes and kills or without; no proof uses the bound on the reports
(`Unreported`). `Touches` says once which actions write which group of
variables; every other lemma then looks at those only. The inductive invariant `IInv` is one
argument in five parts: what comes out of stdin is what was picked (`Answers`), the way the
main thread takes follows from it (`Modes`), a good end lies behind the writes it vouches for
(`Written`), the readers end after the processes and the waiter after the readers (`Ends`),
and a worker past the prompt has said `ready`, which isn't lost while the GUI lives (`Told`).
Success is true of the target by `Written`; "not authorized" is true because the status pipe
has been read to its end by then (`Ends`), so that a missing `ready` was never said (`Told`).
The assumption is `JobAssumption`.

`Answers_proofs` proves what three parts promise that use answers about a thing which goes on
to change: the window, of its scans, a virtual disk, of its decoders, and the reader of a
volume, of what a system left on it. Of `DriveChoice`, for any
set of sticks and any number of changes: `TypeOK`, `ChosenIsListed` (inductive once the types
are known: every step that changes the chosen drive takes it from the list it puts in
`drives`, or lets go of it). The only assumption is `ChoiceAssumption`.

Of `VDisk`, the machine that all formats share: `WindowIsBounded`, for every layout, any
number of threads, panics at any time, any reads and whatever the limits are. `WindowHolds` is
about the steps of `VDisk` alone (`Steps`), with a layout that is only known to be a list of
pieces with natural lengths, sizes and offsets (`IsLayout`; `u64` and `u32` in the code): no
format can break the window. A layout may hold pieces without a length, which `fill` lets pass, `1 << 16`
in a row (`Skip`, `MaxEmpty`). No image of the run gives any, so that part is proved and not
run. The inductive invariant `IInv` has four parts:

* `TypeInv`: layout, slots and pool are what they can be, and a slot that was decoded waits
  for no job.
* `CountInv`: `in_flight` and `in_flight_bytes` are the number and the sum of the sizes of the
  slots with a job. That's bookkeeping in two places (a slot is counted in `push` and
  discounted in `read`, decoded or refused); the lemmas about sums (`CellsOfFront`,
  `CellsOfBack`) and places (`JobsOfFront`, `JobsOfBack`) say what one slot makes of it.
* `JobInv`: a job is in the queue, with one thread or answered, never in two of these, and who
  still waits for an answer has a slot. Without it a thread could answer a slot that is gone.
* `PoolInv`: no job without a pool, and no more threads than were started.

`ContentHolds` says of the same steps what they read, `ReadsTheLayout`: each cell is what the
layout shows there (`Shows`: zeros behind its end, the block or the stored cells where a piece
says so), and an end that is reported comes after all of them. The virtual disk half of
`ReadsTheDisk` thus holds for any layout; what is left to TLC is that each format's layout
shows the guest's disk. It needs `IInv` (a job's answer goes to the slot that asked for it, and
to no other) and three more parts, `ContentInv`:

* `LayoutInv`: what is left of the layout is the end of the one that was opened, and
  `mapped` is where that end begins.
* `SlotInv`: the slots have, one behind the other (`Chain`), all cells from the reader to
  `mapped`. Merging (`ChainMerged`), a slot that is read in part (`ChainRead`) and one
  that is let go of (`ChainTail`) keep the chain; an answer changes nothing in it
  (`SameCellsOf`). The reader only gets past `mapped` when the layout ended before the disk.
* `ReadInv`: what was handed out, and what is in the buffer of a read that still waits, is
  what the layout shows.

A property of `out` alone isn't inductive: a read may wait in the middle of its buffer, and what
it puts there next is in the slots only because of what `fill` took from the layout before.

The assumption is `VDiskAssumption`.

Of `InUse`, for any number of mounts and changes, a pulled cable between any two writes, and
the damage that is modelled:

* `PreviewForetold` (`PreviewForetells`), for all thirteen kinds while they aren't in use, and for
  FAT, exFAT, NTFS, ISO 9660, swap, UDF, APFS and LVM (`ForetoldInUse`) while they are mounted with
  every change written. The argument has two steps. What a copy understands of a disk a preview of that
  disk understands the same, whatever is on it: each reader's tests in a preview follow from its
  tests in a copy (`NtfsAgrees`, ...). And unmounting only writes what a preview doesn't look at,
  the mark, the log or block 0 (`NtfsForetold`, ...), so a preview of a mounted volume is a
  preview of what the copy will read. Of ext, HFS+, XFS, btrfs and F2FS, which put more on the
  disk when they are unmounted, the second step is model-checked only.
* `EnoughHolds` (`UnderstoodIsEnough`), for FAT, exFAT, NTFS, ISO 9660, swap, btrfs, UDF, APFS
  and F2FS: `KeptInFull`. `KeepsIsEnough` reduces it to the reader: leftovers of something else have
  the partition copied in full. For each kind there is a lemma on the reader alone (`FatKeeps`,
  `NtfsKeeps`, ...: of any volume of some shape, what it keeps is what is needed), and an
  invariant which says that drivers leave volumes of that shape.
* `CleanHolds` (`CleanIsUnderstood`), for FAT, exFAT, NTFS, ISO 9660, UDF, APFS and F2FS:
  `UnderstoodAgain`. Swap that was hibernated to isn't understood, by intent.

The inductive invariant, `VolumeInv`, is the conjunction of one for each kind and of
`Lifecycle` (a volume that isn't in use has in memory what is on the disk). What each adds:

* FAT: neither the parameter block nor what width its entries have ever changes (`FatInv`).
  Either copy of the table may be ahead of the other, which is why `read` looks at both.
* exFAT: the disk may have any mixture of old and new chains, entries and bitmap
  (`ExfatVolume`), but the bitmap's own chain never changes; memory is consistent (`ExfatMade`),
  which is what is on the disk after an unmount.
* NTFS (`NtfsInv`): while mounted, the bitmap on the disk has all files, or the mark or an
  open restart page is there as well (`NtfsMarkedOnDisk`). An open page isn't taken for an older one,
  because the pages on the disk are the driver's or older than all of those (`NtfsBehind`), also
  when one of them is torn.
* UDF (`UdfInv`): an open volume says so on the disk before anything else is written, and is closed
  after all else; a table of free blocks that was zeroed calls itself free.
* APFS (`ApfsInv`): of a container in use the disk lacks at most the last checkpoint, its bitmaps
  or both, and in its place there is one at least two older or a torn one (`ApfsBehind`); so the
  newest that is whole has bitmaps that no later one wrote over, which is what a ring of two or more
  is for. A bitmap that reads as zeros doesn't go with its chunk's count, and that these
  counts of a sound container add up to the total (`PartsAddUp`) is what `CleanHolds` needs.
* F2FS (`F2fsInv`): of the two packs one is a checkpoint ahead; the disk has both, or the
  older one with a torn or still older one in the other's place, and the copies of the table that the
  older one names (`F2fsBehind`). Each entry is the pack's or, after damage, empty (`F2fsSound`). An
  empty one is consistent in itself, but it is missed in the pack's total: for any number of
  segments, the sum is the number of cells in their union (`PartsAddUp`), so nothing is lost
  when the numbers agree (`F2fsKeeps`).
* btrfs: chunks stay where they are, and the reader only believes the tree of the superblock's
  generation; ISO 9660 isn't written; swap with an image has a mark.

Every state of `in_use` has `VolumeInv`, as TLC found as well. The assumptions are
`KindsAssumption` and, for each kind, one on its constants (`FatAssumption`, `ExfatAssumption`, `NtfsAssumption`, `IsoAssumption`,
`BtrfsAssumption`, `UdfAssumption`, `ApfsAssumption`, `F2fsAssumption`): where the structures are, that they are on the partition,
and that there are enough units for the volumes that `XFresh` makes. The volumes are
those that `XFresh` makes, of a size the constants give (btrfs: its chunks are fixed).

Liveness (`Terminates`, `CancelStops`, `EndIsReported`, `CheckEnds`, `JobPageEnds`,
`EveryReadEnds`) is model-checked only: it's beyond the prover. Model-checked only are also:

* `UnderstoodIsEnough` of ext, HFS+, XFS and LVM, and `CleanIsUnderstood` of these
  and of btrfs. Their environments lay out concrete groups, journals and trees; a theorem would be about one layout, all of
  whose states TLC goes through.
* `PreviewUnderstands`: it is about the states between two writes of each driver.
* everything about partition tables (`Partitioning`), and that the layouts of the formats show
  the guest's disk (`ReadsTheDisk`, `ReplayKeepsFlushed`). There an instance is a table or an
  image laid out in full, on a geometry that is part of the model, and the same holds.

## Findings

* `job_gone`: when the GUI is gone, `eprintln!` in `cancel_now` panics in the
  watching thread, and an elevated worker goes on.
* `drive_swapped`: an older scan replaces the chosen drive (`app.rs:380`).

Other places where the code and what is said of it part, met while modelling:

* `worker.rs:292` says dd is spawned under the lock; the right side of the assignment is
  evaluated first, so a cancel in between kills the worker and not dd (`Spawn` and
  `KillChild` of `JobProtocol` do this). dd ends itself up to 200 ms later.
* `app.rs:514` says that what was mounted since the pick is unmounted, too. A scan that asked
  before the check and comes in after it, while the dialog is open, puts the older list back
  (`app.rs:380`), and `launch` takes from that what to unmount (`app.rs:862`). `drive_choice` has
  the states, and `job` then has the older entry; no property claims otherwise.
* `smart/util.rs:42` and `smart/mod.rs:19-21` say that a dirty file system is copied in
  full; `fat.rs` and `exfat.rs` never look at the mark, because they follow every copy of
  the FAT, or the bitmap and every file. `in_use` shows that nothing is lost by it.
* `smart/mod.rs:12-13` says that what is not understood counts as used, a sector size in doubt, too;
  `partitions.rs:200-208` settles it by `large > small`, and is unsure only when `small`
  is 0. `Tables.SectorSize` does what the code does.
* `engine/formats/mod.rs:19` says that damaged files give errors. A compressed VMDK
  grain may always come out short (`vmdk.rs:322` sets `short_ok` for each, not only for the
  last), and inflating input that is cut off is no error (`codec.rs:78-81`): such a grain
  reads as zeros. `ReadsTheDisk` excepts it by name (`ShortGrain`). Of a DMG, damage is
  found at the end of a block's range, after its data has been handed on (`Unchecked`).
* A block that a decoder lost with its thread is decoded again by the reader (`vdisk.rs:268`). If
  the decoder panicked on what is in it, so does the reader: such a read neither fails nor ends,
  its thread does (`ReaderPanics`). The properties of reads allow for it.
* `vdisk.rs:82` says at most `IN_FLIGHT_BYTES` are decoded ahead; the check comes before a
  block is added, so the bound is that and one more block (`WindowIsBounded`).
* After a cancel, `app.rs:1176-1177` says "Nothing was written." or "only holds part of the data
  now" from the last report of progress that came in. A copy that a cancel overtakes may
  have written more than was reported, or all of it. `JobContract` says nothing of a
  target after a cancel for that reason.

## Limits of the models

* File systems: one of each kind per partition, and LVM one level deep (`MaxNesting`).
  Sizes are scaled to a few allocation units; a checksum either holds or not. Where a
  driver's order of writes matters (journals, copy on write, barriers), the environment
  follows it; a driver that breaks its own rules is out of scope.
* Previews: the model reads a mounted disk in one step; the code reads one block after the other,
  so a preview may also mix what was there before a write of a driver with what was there after it.
  `PreviewForetells` is about a disk that nothing is on its way to. Blocks that were fsync'd since the
  last commit of F2FS or btrfs (`Late`) are in no map a preview reads, and the copy takes them.
  Where the copy doesn't understand a volume it takes all of it, and a preview may promise
  less (`smart/mod.rs:123-127` says so); neither property speaks of that. `PreviewUnderstands`
  excepts swap that was hibernated to, LVM while pvmove runs, and exFAT between two writes, where an
  entry may be there before its chain is, and the preview gives up. The copy analyzes a drive again once
  it is unmounted (`engine/mod.rs:293`): no map of a preview is ever copied by.
* ext: the block of multiple mount protection (MMP) isn't among the features modelled. APFS: what
  hangs on a snapshot's tree is part of the object map's blocks.
* Tables: the coincidence that an entry, read in sectors of the other size, points at
  another file system or EBR is kept out by the geometry of the drives, see above.
* Virtual disks: a VHDX is only cut short when its owner has closed it (with a pending log,
  the flushed size in its entries can't tell all losses); a fixed VHD whose own data begins
  with a valid dynamic footer; the byte
  budget of a log (16 times its length at least, which the few sectors of a modelled log don't use
  up) and the saturation of 64-bit offsets.
* Detection of a format (`formats/mod.rs:58-140`) is left out: the format is known.

## Plan

Done, in this order: the pipelines (`OrderedCopy`, `WriterPipe`, `ImagePipe`), the job
(`JobContract`, `JobProtocol`), the window (`DriveChoice`, `AppJobs`), the smart copy
(`Extents`, `Sectors`, `SmartCopy`), the restore (`RestorePipe`), what is in use
(`Volume`, the readers, `InUse`), partition tables (`Tables`, `Partitioning`), virtual disks
(`ImageFile`, `VDisk`, the formats, `VirtualDisk`). What would come next:

1. **Job on macOS** (`job.rs:409-526`, `worker.rs:96-123`): the worker that is started
   by another program and talks through files; it should implement `JobContract` as it is.
2. **Tools with a limit** (`drives/mod.rs:112-152`): a process, its output and the
   timeout that kills it; then remounting, and `mounted` in `AppJobs`.
3. **Streams and archives** (`engine/restore.rs`, `engine/formats/tar.rs` and others): the
   stream that `pump` copies, the zip that is unpacked by a thread of its own.
4. **`InUse` as `Founds`**: the result of the readers as the input of `SmartCopy`.

To prove next: that the layouts of the formats show the guest's disk, for images of any size
(with `ContentHolds`, that is `ReadsTheDisk`), the four kinds of volumes that `EnoughHolds`
leaves out, and what the tables do with any drive (`Partitioning`), away from the geometry of
their instances.

## Not modelled

`desktop.rs` (calls into the OS), `fmt.rs` (wording), `plan.rs` (operands and texts, each a
case of its own), the byte layout of images (varints, base64, checksums), what decoder
crates do inside, the parsing of headers, descriptors and of what OS tools print.
