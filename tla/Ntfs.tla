-------------------------------- MODULE Ntfs ---------------------------------
(***************************************************************************)
(* NTFS (src/smart/ntfs.rs): $Bitmap, unless the volume is marked dirty or *)
(* $LogFile has changes to replay.  $LogFile begins with two restart       *)
(* pages; the valid one with the higher LSN says whether it was closed.    *)
(***************************************************************************)
EXTENDS Volume

CONSTANTS NtfsClusters,  \* clusters of the volume; $Boot is the first
          NtfsSystem     \* the clusters of $MFT, $LogFile and $Bitmap

ASSUME NtfsAssumption == NtfsClusters \in Nat \ {0} /\ NtfsSystem \subseteq 1..(NtfsClusters - 1)

Page(state, lsn, clean) == [state |-> state, lsn |-> lsn, clean |-> clean]
EmptyPage == Page("empty", 0, FALSE)
TornPage == Page("torn", 0, FALSE)

\* log_is_clean: all of it empty, or the newest valid restart area closed.
NewerPage(p, q) == p.lsn < q.lsn \/ (p.lsn = q.lsn /\ q.clean)
ValidPages(d) == {p \in {1, 2} : d.restart[p].state = "valid"}
LogIsClean(d) ==
  \/ d.records = {} /\ \A p \in 1..2 : d.restart[p].state = "empty"
  \/ \E p \in ValidPages(d) :
       /\ d.restart[p].clean
       /\ \A q \in ValidPages(d) : q = p \/ ~NewerPage(d.restart[p], d.restart[q])

\* runs and read_stream: the clusters whose bits $Bitmap holds on disk.
NtfsStored(d) == (0..(NtfsClusters - 1)) \ d.sparse

\* What $Bitmap marks; the parts it does not hold on disk count as used.
NtfsMarked(d) == {c \in 0..(NtfsClusters - 1) : c \in d.bitmap \/ c \notin NtfsStored(d)}

\* The records read.
RecordsRead(mode) == {"mft", "volume", "bitmap"} \cup (IF mode = Copy THEN {"log"} ELSE {})

\* fixup: the update number in each sector of a record tells a torn write.
Fixup(d, record) == record \notin d.torn

NtfsRead(d, mode) ==
  Result(/\ NtfsClusters > 0 /\ d.sectors <= Size
         /\ \A record \in RecordsRead(mode) : Fixup(d, record)
         /\ mode = Copy => ~d.dirty /\ LogIsClean(d),
         {0} \cup NtfsMarked(d), NtfsClusters)
-----------------------------------------------------------------------------
ClosedLog == [p \in 1..2 |-> Page("valid", p, TRUE)]
EmptyLog == [p \in 1..2 |-> EmptyPage]
NtfsVolume(log, sparse, torn, sectors) ==
  [dirty |-> FALSE, restart |-> log, records |-> {}, bitmap |-> {0} \cup NtfsSystem,
   sparse |-> sparse, files |-> {}, torn |-> torn, sectors |-> sectors]

\* Fresh volumes: an empty log or one that was closed; a $Bitmap that is
\* partly sparse, a record that was torn, a partition made smaller.
NtfsFresh ==
  {NtfsVolume(log, sparse, {}, NtfsClusters) : log \in {ClosedLog, EmptyLog}, sparse \in {{}, {NtfsClusters - 1}}}
  \cup {NtfsVolume(ClosedLog, {}, torn, NtfsClusters) : torn \in {{"bitmap"}, {"log"}}}
  \cup {NtfsVolume(ClosedLog, {}, {}, Size + 1)}

NtfsLsn(m) == m.restart[1].lsn + m.restart[2].lsn + 1
NtfsPages(m, clean) == [m EXCEPT !.restart = [p \in 1..2 |-> Page("valid", NtfsLsn(m) + p, clean)]]

\* One driver opens the log, another empties it and marks the volume.
NtfsMounted(d) ==
  IF d.restart[1].state = "empty" THEN [d EXCEPT !.dirty = TRUE]
  ELSE NtfsPages(d, FALSE)
NtfsUnmounted(m) ==
  IF m.dirty THEN [m EXCEPT !.dirty = FALSE, !.records = {}]
  ELSE [NtfsPages(m, TRUE) EXCEPT !.records = {}]

NtfsChanges(m) ==
  LET free == (0..(NtfsClusters - 1)) \ (m.bitmap \cup m.sparse)
      logged(n) == IF m.dirty THEN n ELSE [n EXCEPT !.records = n.files]
  IN  {logged([m EXCEPT !.files = @ \cup {c}, !.bitmap = @ \cup {c}]) : c \in free}
      \cup {logged([m EXCEPT !.files = @ \ {c}, !.bitmap = @ \ {c}]) : c \in m.files}

\* The mark comes first, then the log, then what the log is about; a restart
\* page may be torn.
NtfsMarkedOnDisk(d, m) ==
  d.dirty = m.dirty /\ (m.dirty \/ \E p \in 1..2 : d.restart[p] = m.restart[p])
NtfsFlushed(d, m) ==
  WriteBack(d, m, {"dirty"})
  \cup {[d EXCEPT !.restart[w[1]] = w[2]] : w \in {x \in (1..2) \X {TornPage, m.restart[1], m.restart[2]} :
                                         d.restart[x[1]] # m.restart[x[1]] /\ x[2] \in {TornPage, m.restart[x[1]]}}}
  \cup (IF NtfsMarkedOnDisk(d, m) THEN WriteBack(d, m, {"records"}) ELSE {})
  \cup (IF NtfsMarkedOnDisk(d, m) /\ d.records = m.records THEN WriteBack(d, m, {"files", "bitmap"}) ELSE {})

\* Replaying an open log brings back the files it tells of.
NtfsNeed(d) ==
  IF d.sectors > Size \/ d.torn # {} THEN Cells
  ELSE 0..0 \cup NtfsSystem \cup d.files \cup NtfsClusters..(Size - 1)
       \cup (IF LogIsClean(d) THEN {} ELSE d.records)
=============================================================================
