----------------------------- MODULE VirtualDisk -----------------------------
(***************************************************************************)
(* A virtual disk from its file to the stream a restore writes             *)
(* (src/engine/formats): an image of one of the formats, as its owner left *)
(* it, possibly cut short on its way here, is opened and read to its end.  *)
(***************************************************************************)
EXTENDS Qcow2, Vmdk, Vhd, Vhdx, Dmg, VDisk

VARIABLES image,   \* the image of a format that is written once
          cut      \* cells the file has lost at its end

vars == <<image, cut, vhdx, cache, owner, stream>>

VhdxImage == [format |-> "vhdx", size |-> 0]

Init ==
  /\ Closed /\ cut = 0
  /\ cache = {}
  /\ \/ /\ image \in QcowImages \cup VmdkImages \cup VhdImages \cup DmgImages
        /\ vhdx = NewVhdx(<<>>, WholeMeta, Unlogged) /\ owner = NoOwner
     \/ /\ image = VhdxImage
        /\ \/ \E meta \in Metas : vhdx = NewVhdx(OldLog, meta, Unlogged)
           \/ vhdx = NewVhdx(OldLog, WholeMeta, LogOfNothing)
        /\ owner = [NoOwner EXCEPT !.session =
                     IF vhdx = NewVhdx(OldLog, WholeMeta, Unlogged) THEN "new" ELSE "none"]

\* open: the file as it is, or cut short; a VHDX whose owner has stopped at any point.
Result(size) ==
  CASE image.format = "vhdx" -> VhdxOpen(VhdxFile(size), vhdx.heads, vhdx.log, vhdx.meta)
    [] image.format = "qcow2" -> QcowOpen(Source(image.cells, size), image.h)
    [] image.format = "vmdk" -> VmdkOpen(Source(image.cells, size), image.h, image.size)
    [] image.format = "vhd" -> VhdOpen(Source(image.cells, size), image.h, image.size)
    [] image.format = "dmg" -> DmgOpen(Source(image.cells, size), image.h, image.size)

FileSize == IF image.format = "vhdx" THEN VhdxSize ELSE image.size

\* Only the payload of a VHDX that was closed is cut, and only images that are sound.
MayBeCut(n) ==
  \/ n = 0
  \/ /\ n < FileSize
     /\ IF image.format = "vhdx" THEN Header(vhdx.heads).guid = NoLog /\ n <= Len(vhdx.payload) ELSE image.sound

Open ==
  \E n \in 0..3 :
    /\ MayBeCut(n) /\ cut' = n
    /\ Opening(Result(FileSize - n))
    /\ UNCHANGED <<image, vhdx, cache, owner>>

Steady == UNCHANGED <<image, cut, vhdx, cache, owner>>
Read == (Reader \/ ReaderPanics \/ Threads) /\ Steady
Write == outcome = "closed" /\ image.format = "vhdx" /\ Owner /\ UNCHANGED <<image, cut, stream>>

Next == Open \/ Read \/ Write

\* Once open, the disk is read to its end: some thread goes on while any can.
Spec == Init /\ [][Next]_vars /\ WF_vars(Progress /\ Steady)
-----------------------------------------------------------------------------
Beginning(cells, disk) == Len(cells) <= Len(disk) /\ \A i \in DOMAIN cells : cells[i] = disk[i]

\* A compressed grain of a VMDK that is cut short or whose data stops early decodes to
\* less, which is no error (short_ok of every grain, though only the last may be).
ShortGrain(i) == image.format = "vmdk" /\ image.h.compress = 1 /\ cut > 0 /\ out[i] = 0

\* A DMG's range is checked once all of it went by.
Unchecked(i) == \E s \in Range(opened.sums) : s.checked /\ i \in (s.start + 1)..s.end /\ Len(out) < s.end

\* What the reads return is what the owner keeps on the disk, in order, whatever the
\* order its blocks are stored and decoded in; all of it when the stream ends.  A
\* sound image gives it; one that is damaged or cut short may end in an error
\* instead, and one that holds changes of another disk always does.
ReadsTheDisk ==
  image.format # "vhdx" =>
    /\ Len(out) <= Len(image.disk)
    /\ \A i \in DOMAIN out : out[i] = image.disk[i] \/ ShortGrain(i) \/ Unchecked(i)
    /\ outcome = "ended" => Len(out) = Len(image.disk)
    /\ image.sound /\ cut = 0 /\ image.whole => outcome # "failed"
    /\ ~image.whole => out = <<>> /\ outcome # "ended"

\* Whenever the owner of a VHDX stops, what is read is the disk after one of its
\* changes, never less than what it has flushed.
ReplayKeepsFlushed ==
  image.format = "vhdx" =>
    /\ \E change \in owner.flushed..Len(owner.history) :
         Beginning(out, DiskAfter(change)) /\ (outcome = "ended" => Len(out) = Blocks)
    /\ Whole(vhdx.meta) /\ cut = 0 => outcome # "failed"
    /\ ~Whole(vhdx.meta) => out = <<>> /\ outcome # "ended"

\* Every disk that is read ends, though decoders panic, the reader's own among them, and
\* answers never come, and the threads go with it.
Over == outcome \in {"ended", "failed", "panicked"} /\ pool.free = 0 /\ pool.running = {}
EveryReadEnds == (outcome = "reading") ~> Over
=============================================================================
