-------------------------------- MODULE Vmdk --------------------------------
(***************************************************************************)
(* VMDK images (src/engine/formats/vmdk.rs).  A grain is two cells.  Cell  *)
(* 0 of the file holds the header, cell 1 the descriptor; the grain        *)
(* directory's entries are cells of grain tables (0: none).                *)
(***************************************************************************)
EXTENDS ImageFile

VmdkGrain == 2
AtEnd == -1     \* GD_AT_END

\* sparse: a header (the footer's, where the header leaves the directory to it) of a
\* whole disk.  The footer is three sectors, the last cell of the file.
VmdkFooter(src, h) == IF h.gd = AtEnd THEN [h EXCEPT !.gd = h.footer.gd] ELSE h
VmdkSparse(src, h, size) ==
  /\ h.magic = "KDMV"
  /\ h.capacity # 0 \/ ~h.descriptor
  /\ h.gd = AtEnd => (h.footer.there /\ src.size = size)
  /\ h.version <= 3 /\ h.gtes \in 1..512
  /\ h.descriptor /\ ~h.parent
  /\ h.createType \in {"monolithicsparse", "streamoptimized", ""} /\ h.extents <= 1

\* Grains::next, of one grain.  With markers a cell in front says how much is stored.
VmdkGrainPiece(src, h, entry) ==
  IF entry = 0 \/ (entry = 1 /\ h.zeroGrain) THEN Zeros(VmdkGrain)
  ELSE IF h.compress = 0 THEN Stored(entry, VmdkGrain)
  ELSE IF ~h.markers THEN Packed(entry, VmdkGrain + 1, VmdkGrain, TRUE)
  ELSE IF ~Readable(src, entry, 1) THEN Damaged
  ELSE LET len == CellAt(src, entry).v
       IN IF len = 0 \/ len > 2 * VmdkGrain THEN Damaged ELSE Packed(entry + 1, len, VmdkGrain, TRUE)

\* Grains::next from grain g on; without a grain table all of its grains at once.
VmdkLayout(src, h) ==
  LET grains == CeilDiv(h.capacity, VmdkGrain)
      from[g \in 0..grains] ==
        IF g = grains THEN <<>>
        ELSE LET gt == EntryOf(CellAt(src, h.gd), (g \div h.gtes) + 1, 0)
                 span == Min({h.gtes - (g % h.gtes), grains - g})
                 piece == VmdkGrainPiece(src, h, EntryOf(CellAt(src, gt), (g % h.gtes) + 1, 0))
             IN IF ~Readable(src, h.gd, 1) THEN <<Damaged>>
                ELSE IF gt = 0 THEN <<Zeros(span * VmdkGrain)>> \o from[g + span]
                ELSE IF ~Readable(src, gt, 1) THEN <<Damaged>>
                ELSE <<piece>> \o from[g + 1]
  IN from[0]

VmdkOpen(src, h, size) ==
  LET found == VmdkFooter(src, h)
  IN IF VmdkSparse(src, h, size) /\ h.compress \in {0, 1}
     THEN Opened(src, h.capacity, VmdkLayout(src, found))
     ELSE Refused
-----------------------------------------------------------------------------
\* The images VMware and QEMU write.

VmdkKinds == {"none", "zero", "stored", "short", "rotten"}
VmdkGrains == 3
VmdkHeader == [magic |-> "KDMV", version |-> 3, capacity |-> 5, gtes |-> 2, descriptor |-> TRUE, parent |-> FALSE,
               createType |-> "monolithicsparse", extents |-> 1, compress |-> 0, markers |-> FALSE, zeroGrain |-> TRUE,
               gd |-> 2, footer |-> [there |-> FALSE, gd |-> 0]]
VmdkStream == [VmdkHeader EXCEPT !.createType = "streamoptimized", !.compress = 1, !.markers = TRUE, !.zeroGrain = FALSE]
VmdkHeaders ==
  {[VmdkHeader EXCEPT !.magic = "COWD"], [VmdkHeader EXCEPT !.magic = "text"], [VmdkHeader EXCEPT !.capacity = 0],
   [VmdkHeader EXCEPT !.version = 4], [VmdkHeader EXCEPT !.gtes = 513], [VmdkHeader EXCEPT !.descriptor = FALSE],
   [VmdkHeader EXCEPT !.parent = TRUE], [VmdkHeader EXCEPT !.extents = 2], [VmdkHeader EXCEPT !.compress = 2],
   [VmdkStream EXCEPT !.gd = AtEnd]}

\* A grain that holds less than a grain is the disk's last, and compressed.
VmdkAllows(h, g, kind) ==
  CASE kind = "zero" -> h.zeroGrain
    [] kind = "short" -> h.compress = 1 /\ g = VmdkGrains
    [] kind = "rotten" -> h.compress = 1
    [] OTHER -> TRUE

\* The grains, each behind its marker, come between the tables, which are first or last.
VmdkImage(h, kinds, tablesFirst) ==
  LET room == VmdkGrain + 2
      tables == CeilDiv(VmdkGrains, h.gtes)
      first == IF tablesFirst THEN 2 + 1 + tables ELSE 2
      gd == IF tablesFirst THEN 2 ELSE 2 + room * VmdkGrains
      size == 2 + 1 + tables + room * VmdkGrains + (IF h.gd = AtEnd THEN 1 ELSE 0)
      start(g) == first + room * (g - 1)
      marker == IF h.markers THEN 1 ELSE 0
      held(g, i) == 10 * g + i
      grain(o) == ((o - first) \div room) + 1
      missing(t) == \A g \in 1..VmdkGrains : (g - 1) \div h.gtes = t - 1 => kinds[g] = "none"
      entry(g) == CASE kinds[g] = "none" -> 0 [] kinds[g] = "zero" -> 1 [] OTHER -> start(g)
      content(o) ==
        IF o < 2 \/ o >= gd + 1 + tables + (IF tablesFirst THEN room * VmdkGrains ELSE 0) THEN Blank
        ELSE IF o = gd THEN Table([t \in 1..tables |-> IF missing(t) THEN 0 ELSE gd + t])
        ELSE IF o \in (gd + 1)..(gd + tables)
        THEN Table([i \in 1..h.gtes |->
                      LET g == (o - gd - 1) * h.gtes + i IN IF g \in 1..VmdkGrains THEN entry(g) ELSE 0])
        ELSE LET g == grain(o)
                 i == o - start(g) - marker + 1
             IN Data(IF kinds[g] \in {"none", "zero"} THEN Stale
                     ELSE IF i = 0 THEN (IF kinds[g] = "short" THEN 1 ELSE VmdkGrain)
                     ELSE IF i > (IF kinds[g] = "short" THEN 1 ELSE VmdkGrain) THEN 0
                     ELSE IF kinds[g] = "rotten" /\ i = 2 THEN Rot ELSE held(g, i))
      guest(c) ==
        LET g == ((c - 1) \div VmdkGrain) + 1
            i == ((c - 1) % VmdkGrain) + 1
        IN IF kinds[g] \in {"none", "zero"} THEN 0 ELSE held(g, i)
  IN [format |-> "vmdk",
      h |-> IF h.gd = AtEnd THEN [h EXCEPT !.footer.gd = gd] ELSE [h EXCEPT !.gd = gd],
      cells |-> [o \in 0..(size - 1) |-> content(o)], size |-> size,
      disk |-> [c \in 1..h.capacity |-> guest(c)],
      sound |-> h \notin VmdkHeaders /\ \A g \in 1..VmdkGrains : kinds[g] # "rotten",
      whole |-> h.descriptor /\ ~h.parent /\ h.magic = "KDMV" /\ h.extents = 1]

VmdkImages ==
  {VmdkImage(h, [g \in 1..VmdkGrains |-> "stored"], TRUE) : h \in VmdkHeaders}
  \cup UNION {{VmdkImage(h, kinds, tablesFirst) :
                 tablesFirst \in BOOLEAN,
                 kinds \in {k \in [1..VmdkGrains -> VmdkKinds] : \A g \in 1..VmdkGrains : VmdkAllows(h, g, k[g])}} :
              h \in {VmdkHeader, VmdkStream, [VmdkStream EXCEPT !.markers = FALSE],
                     [VmdkStream EXCEPT !.gd = AtEnd, !.footer = [there |-> TRUE, gd |-> 0]]}}
=============================================================================
