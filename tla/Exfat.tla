-------------------------------- MODULE Exfat --------------------------------
(***************************************************************************)
(* exFAT (src/smart/exfat.rs): what the allocation bitmap says, and every  *)
(* cluster a directory entry claims.  Both are followed because a volume   *)
(* that was not unmounted may have written either one first.               *)
(*                                                                         *)
(* The heap's clusters have numbers from 2 on; the bitmap file takes 2 and *)
(* 3, the root directory 4.  The root may hold a directory "dir", which    *)
(* may hold a file "file".                                                 *)
(***************************************************************************)
EXTENDS Volume

CONSTANTS ExfatHeap,     \* the heap's first cell
          ExfatClusters  \* clusters of the heap

ASSUME ExfatAssumption == ExfatHeap \in Nat /\ ExfatClusters \in Nat /\ ExfatClusters >= 4

ExfatNumbers == 2..(ExfatClusters + 1)
ExfatAt(c) == ExfatHeap + c - 2
ExfatRoot == 4
EndOfChain == 1
ExfatNames == {"dir", "file"}
NoEntry == [there |-> FALSE, first |-> 2, count |-> 0, contiguous |-> FALSE]

\* The clusters of an allocation in the order of its chain, 0 where it breaks.
ExfatChain(fat, first, count) ==
  LET c[i \in 1..count] ==
        IF i = 1 THEN first
        ELSE IF c[i - 1] \in ExfatNumbers THEN fat[c[i - 1]] ELSE 0
  IN  c

\* Walk::follow: what it marks, or that it gives up (broken or looping chain,
\* past the end, an end that comes early).
Follow(fat, first, count, contiguous) ==
  LET c == IF contiguous THEN [i \in 1..count |-> first + i - 1] ELSE ExfatChain(fat, first, count)
  IN  [ok |-> count >= 1 /\ \A i \in 1..count : c[i] \in ExfatNumbers,
       clusters |-> {c[i] : i \in 1..count}]

Claimed(d, e) == Follow(d.fat[d.active], e.first, e.count, e.contiguous)

\* Walk::system_file: contiguous, unless the chain can be followed and says otherwise.
SystemFile(d, first, count) ==
  LET run == Follow(d.fat[d.active], first, count, TRUE)
      chain == Follow(d.fat[d.active], first, count, FALSE)
  IN  run.ok /\ (chain.ok => chain.clusters = run.clusters)

\* Walk::dir: the entries it comes to; a directory's entries after it.
ExfatEntries(d) ==
  {n \in ExfatNames : d.entry[n].there /\ (n = "file" => d.entry["dir"].there)}

ExfatRead(d, mode) ==
  LET claims == {Claimed(d, d.entry[n]) : n \in ExfatEntries(d)}
      marked == d.bitmap \cup {2, 3, ExfatRoot} \cup UNION {c.clusters : c \in claims}
  IN  Result(/\ d.checksum
             /\ ExfatHeap + ExfatClusters <= d.volume /\ d.volume <= Size
             /\ ExfatRoot \in ExfatNumbers
             /\ SystemFile(d, 2, 2)
             /\ \A c \in claims : c.ok,
             Span(0, ExfatHeap) \cup {ExfatAt(c) : c \in marked},
             ExfatHeap + ExfatClusters)
-----------------------------------------------------------------------------
\* A volume with one FAT or the second of two active, with a bitmap that is
\* fragmented, with a torn boot region, larger than its partition.
ExfatFresh ==
  LET table(next) == [c \in ExfatNumbers |-> IF c = 2 THEN next ELSE IF c \in {3, ExfatRoot} THEN EndOfChain ELSE 0]
      make(active, next, volume, checksum) ==
        [active |-> active, volume |-> volume, checksum |-> checksum, dirty |-> FALSE, bitmap |-> {2, 3, 4},
         fat |-> [f \in 1..2 |-> IF f = active THEN table(next) ELSE [c \in ExfatNumbers |-> 0]],
         entry |-> [n \in ExfatNames |-> NoEntry]]
      end == ExfatHeap + ExfatClusters
  IN  {make(1, 3, end, TRUE), make(2, 3, end, TRUE), make(1, 5, end, TRUE),
       make(1, 3, end, FALSE), make(1, 3, Size + 1, TRUE)}

\* The mark of a volume in use, which the code does not go by.
ExfatMounted(d) == [d EXCEPT !.dirty = TRUE]
ExfatUnmounted(m) == [m EXCEPT !.dirty = FALSE]

\* The driver makes the directory (contiguous) and in it a file of two
\* clusters, contiguous or chained; or deletes the file.
ExfatChanges(m) ==
  LET free == ExfatNumbers \ m.bitmap
      chained(a, b) == [m.fat EXCEPT ![m.active][a] = b, ![m.active][b] = EndOfChain]
  IN  {[m EXCEPT !.entry["dir"] = [there |-> TRUE, first |-> c, count |-> 1, contiguous |-> TRUE],
                 !.bitmap = @ \cup {c}] : c \in IF m.entry["dir"].there THEN {} ELSE free}
      \cup {[m EXCEPT !.entry["file"] = [there |-> TRUE, first |-> a[1], count |-> 2, contiguous |-> a[3]],
                      !.bitmap = @ \cup {a[1], a[2]},
                      !.fat = IF a[3] THEN @ ELSE chained(a[1], a[2])]
            : a \in {x \in free \X free \X BOOLEAN :
                       /\ m.entry["dir"].there /\ ~m.entry["file"].there
                       /\ x[1] # x[2] /\ (x[3] => x[2] = x[1] + 1)}}
      \cup {[m EXCEPT !.entry["file"].there = FALSE,
                      !.bitmap = @ \ Claimed(m, m.entry["file"]).clusters]
            : x \in {y \in {1} : m.entry["file"].there}}

ExfatFlushed(d, m) ==
  WriteBack(d, m, {"dirty"})
  \cup (IF d.dirty THEN WriteBack(d, m, {"bitmap", "fat"}) \cup {[d EXCEPT !.entry[n] = m.entry[n]] : n \in ExfatNames}
        ELSE {})

\* Every file a system finds from the root, what the bitmap holds, and what a
\* fragmented system file hides.
ExfatNeed(d) ==
  IF d.volume > Size \/ d.fat[d.active][2] # 3 \/ ~d.checksum
  THEN Cells
  ELSE {ExfatAt(c) : c \in {2, 3, ExfatRoot} \cup d.bitmap
                           \cup UNION {Claimed(d, d.entry[n]).clusters \cap ExfatNumbers : n \in ExfatEntries(d)}}
       \cup 0..(ExfatHeap - 1) \cup (ExfatHeap + ExfatClusters)..(Size - 1)
=============================================================================
