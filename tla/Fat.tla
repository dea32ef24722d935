--------------------------------- MODULE Fat ---------------------------------
(***************************************************************************)
(* FAT12/16/32 (src/smart/fat.rs).  A cell is a sector.  The BIOS          *)
(* parameter block only gives counts; how wide an entry is follows from    *)
(* the number of clusters, as every system computes it.                    *)
(***************************************************************************)
EXTENDS Volume

CONSTANTS Fat12Limit,    \* clusters from which a FAT has 16 bits (4085)
          Fat16Limit,    \* clusters that no FAT16 has (65525)
          Fat32Limit,    \* clusters that no FAT32 has (0x0FFFFFF6)
          FatSectorBits  \* bits of a sector of the FAT

ASSUME FatAssumption ==
  /\ Fat12Limit \in Nat \ {0, 1} /\ FatSectorBits \in Nat
  /\ {Fat16Limit, Fat32Limit} \subseteq Nat /\ Fat12Limit < Fat16Limit

FatMeta(b) == b.reserved + b.fats * b.fatLen + b.root
FatClusters(b) == (b.total - FatMeta(b)) \div b.spc
FatBits(b) == IF b.fat32 THEN 32 ELSE IF FatClusters(b) < Fat12Limit THEN 12 ELSE 16
FatNumbers(b) == 2..(FatClusters(b) + 1)
ClusterAt(b, n) == FatMeta(b) + (n - 2) * b.spc
ClusterCells(b, n) == Span(ClusterAt(b, n), b.spc)

FatLimit(b) == CASE FatBits(b) = 12 -> Fat12Limit [] FatBits(b) = 16 -> Fat16Limit [] FatBits(b) = 32 -> Fat32Limit

\* geometry: what is taken for a FAT.  `named` is the width its type string
\* gives, 0 for none.
FatGeometry(b) ==
  /\ b.reserved > 0 /\ b.fats > 0 /\ b.fatLen > 0
  /\ b.total > FatMeta(b)
  /\ 0 < FatClusters(b) /\ FatClusters(b) < FatLimit(b)
  /\ FatBits(b) = 32 => b.root = 0 /\ b.version = 0
  /\ FatBits(b) # 32 => b.named \in {0, FatBits(b)}
  /\ (b.fatLen * FatSectorBits) \div FatBits(b) >= FatClusters(b) + 2
  /\ b.total <= Size

\* A cluster is used when a copy of the FAT says so; a bad one is not.
FatInUse(d, n) == \E f \in 1..d.bpb.fats : d.fat[f][n] \notin {"free", "bad"}

FatRead(d, mode) ==
  LET b == d.bpb
      inUse == {n \in FatNumbers(b) : FatInUse(d, n)}
  IN  Result(FatGeometry(b),
             Span(0, FatMeta(b)) \cup UNION {ClusterCells(b, n) : n \in inUse},
             ClusterAt(b, FatClusters(b) + 2))
-----------------------------------------------------------------------------
FatBpb(fat32, fatLen, root, spc, total, named) ==
  [fat32 |-> fat32, reserved |-> 1, fats |-> 2, fatLen |-> fatLen, root |-> root,
   spc |-> spc, total |-> total, named |-> named, version |-> 0]

\* A FAT of each width, about as many clusters as the limit, one forced to a width its size does not give, one on a
\* partition that was made smaller; one of each kind with too many clusters, and a FAT32 of a later version.
\* `width` is what its driver reads.
FatFresh ==
  LET table(b) == {[n \in FatNumbers(b) |-> IF n = bad THEN "bad" ELSE "free"] : bad \in {0, 3}}
      volume(b, width) == {[bpb |-> b, width |-> width, dirty |-> FALSE, fat |-> <<t, t>>] : t \in table(b)}
  IN  UNION {volume(FatBpb(FALSE, 1, 1, 2, 2 * Fat12Limit + 2, 12), 12), volume(FatBpb(FALSE, 1, 1, 1, Fat12Limit + 4, 0), 16),
             volume(FatBpb(FALSE, 1, 1, 1, Fat12Limit + 3, 16), 16), volume(FatBpb(TRUE, 2, 0, 1, 7, 0), 32),
             volume(FatBpb(FALSE, 1, 1, 1, Size + 1, 0), 16), volume(FatBpb(FALSE, 2, 1, 1, Fat16Limit + 6, 0), 16),
             volume(FatBpb(TRUE, 3, 0, 1, Fat32Limit + 7, 0), 32), volume([FatBpb(TRUE, 2, 0, 1, 7, 0) EXCEPT !.version = 1], 32)}

\* The mark of a volume in use, which drivers set and the code never looks at.
FatMounted(d) == [d EXCEPT !.dirty = TRUE]
FatUnmounted(m) == [m EXCEPT !.dirty = FALSE]
FatChanges(m) ==
  LET changed(t) == {[t EXCEPT ![n] = IF t[n] = "free" THEN "next" ELSE "free"] : n \in {k \in DOMAIN t : t[k] # "bad"}}
  IN  {[m EXCEPT !.fat = <<t, t>>] : t \in changed(m.fat[1])}
FatFlushed(d, m) ==
  WriteBack(d, m, {"dirty"})
  \cup (IF d.dirty THEN {[d EXCEPT !.fat[f] = m.fat[f]] : f \in 1..2} ELSE {})

\* A system follows either copy of the FAT, in the width it was made with.
FatNeed(d) ==
  IF d.bpb.total > Size \/ FatBits(d.bpb) # d.width
  THEN Cells
  ELSE 0..(FatMeta(d.bpb) - 1) \cup d.bpb.total..(Size - 1)
       \cup UNION {ClusterCells(d.bpb, n) : n \in {k \in FatNumbers(d.bpb) : \E f \in 1..2 : d.fat[f][k] = "next"}}
=============================================================================
