-------------------------------- MODULE Vhdx --------------------------------
(***************************************************************************)
(* VHDX images (src/engine/formats/vhdx.rs), and the owner that writes one *)
(* and may stop at any point.                                              *)
(*                                                                         *)
(* A cell of the file is a payload block, or a page of the block           *)
(* allocation table (BAT); cell 0 stands for the headers, the region       *)
(* tables and the metadata.  The log is a ring of sectors of its own.      *)
(***************************************************************************)
EXTENDS ImageFile

CONSTANTS LogSectors,  \* sectors of the log
          MaxWrites    \* changes of the BAT the owner makes, at most

ASSUME VhdxAssumption == LogSectors \in Nat \ {0} /\ MaxWrites \in Nat

Blocks == 3        \* payload blocks of the disk
ChunkRatio == 2    \* payload entries of the BAT between two entries of sector bitmaps
PageEntries == 2
BatEntries == Blocks + ((Blocks - 1) \div ChunkRatio)
Pages == 1..CeilDiv(BatEntries, PageEntries)    \* each at the cell of its number
FirstPayload == Max(Pages) + 1

BatEntry(state, at) == [state |-> state, at |-> at]
Absent == BatEntry(0, 0)
NoLog == "none"    \* a log GUID of zeros
Logged(head) == head.guid # NoLog /\ head.len # 0

\* header: of the two, the valid one with the higher sequence number.
Header(heads) ==
  LET valid == {i \in DOMAIN heads : heads[i].ok}
  IN heads[CHOOSE i \in valid : \A j \in valid : heads[j].seq <= heads[i].seq]

FaultyEntryAt(log, guid, at) ==
  LET h == log[at]
  IN /\ h.part = 0 /\ h.seq # 0 /\ h.len <= LogSectors
     /\ \A j \in 1..(h.len - 1) :
          LET s == log[(at + j) % LogSectors] IN s.guid = h.guid /\ s.seq = h.seq /\ s.part = j

\* parse_entry: an entry of this log whose sectors all are its own (its checksum covers
\* them, and the data sectors repeat its sequence number).
EntryAt(log, guid, at) ==
  LET h == log[at]
  IN /\ h.part = 0 /\ h.seq # 0 /\ h.guid = guid /\ h.len <= LogSectors
     /\ \A j \in 1..(h.len - 1) :
          LET s == log[(at + j) % LogSectors] IN s.guid = guid /\ s.seq = h.seq /\ s.part = j

\* The patches an entry makes, in order: a page from one of its data sectors, or zeros.
Changes(log, at) ==
  LET h == log[at]
  IN [i \in DOMAIN h.changes |->
        LET c == h.changes[i]
        IN Patch(c.at, c.len, IF c.sector = 0 THEN Blank ELSE log[(at + c.sector) % LogSectors].page)]

\* replay_log: the consecutive entries from `tail` on, as their places in the log.
Sequence(log, guid, tail) ==
  LET covered(s) == FoldSeq(LAMBDA at, sum : sum + log[at].len, 0, s)
      grown[n \in 0..LogSectors] ==
        IF n = 0 THEN <<>>
        ELSE LET s == grown[n - 1]
                 head == (tail + covered(s)) % LogSectors
             IN IF /\ Len(s) = n - 1 /\ covered(s) < LogSectors /\ EntryAt(log, guid, head)
                   /\ s # <<>> => log[head].seq = log[Last(s)].seq + 1
                THEN Append(s, head) ELSE s
  IN grown[LogSectors]

\* Valid if the newest entry's tail is one of the sequence's entries.
ValidSequence(log, s) == s # <<>> /\ log[Last(s)].tail \in Range(s)

\* The scan of the log (its budget, 16 times the log's length or more, is not used up by
\* the few sectors of this one): the valid sequence with the newest entry, until it wraps around.
Scanned(log, at, s, valid) ==
  LET newer == valid /\ (at.best = <<>> \/ log[Last(s)].seq > log[Last(at.best)].seq)
      next == IF valid THEN Last(s) + log[Last(s)].len ELSE at.tail + 1
  IN [tail |-> next % LogSectors, old |-> at.tail, best |-> IF newer THEN s ELSE at.best]
ScanFrom(log, guid, at) ==
  IF at.tail <= at.old THEN at
  ELSE LET s == Sequence(log, guid, at.tail) IN Scanned(log, at, s, ValidSequence(log, s))
ActiveSequence(log, guid) ==
  LET scan[n \in 0..(LogSectors + 1)] ==
        IF n = 0 THEN [tail |-> 0, old |-> -1, best |-> <<>>] ELSE ScanFrom(log, guid, scan[n - 1])
  IN scan[LogSectors + 1].best

\* The file with its log, the entries of `s`, replayed on top, or that it is cut short.
Replayed(src, log, s) ==
  LET newest == log[Last(s)]
      from == SelectInSeq(s, LAMBDA at : at = newest.tail)
      patches == FlattenSeq([i \in 1..(Len(s) - from + 1) |-> Changes(log, s[from + i - 1])])
      end == Max({src.size, newest.last} \cup {patches[i].offset + patches[i].len : i \in DOMAIN patches})
  IN IF s = <<>> THEN [ok |-> TRUE, src |-> src]
     ELSE [ok |-> newest.flushed <= src.size, src |-> SetPatches(src, patches, end)]

\* Blocks::next.
BlockPiece(entry) ==
  CASE entry.state = 6 /\ entry.at > 0 -> Stored(entry.at, 1)
    [] entry.state \in {0, 1, 2, 3, 5} -> Zeros(1)
    [] OTHER -> Damaged
VhdxLayout(src) ==
  [i \in 1..Blocks |->
     LET index == (i - 1) + ((i - 1) \div ChunkRatio)
         page == (index \div PageEntries) + 1
     IN IF Readable(src, page, 1)
        THEN BlockPiece(EntryOf(CellAt(src, page), (index % PageEntries) + 1, Absent)) ELSE Damaged]

\* disk: what the region tables (the first valid one) and the metadata say.
VhdxDisk(meta) ==
  /\ meta.regions # {} /\ ~meta.requires /\ ~meta.parent /\ meta.room >= BatEntries

\* open
VhdxOf(replayed, meta) ==
  OpenedIf(replayed.ok /\ VhdxDisk(meta), replayed.src, Blocks, VhdxLayout(replayed.src))
VhdxOpen(src, heads, log, meta) ==
  IF \A i \in DOMAIN heads : ~heads[i].ok THEN Refused
  ELSE VhdxOf(IF Logged(Header(heads)) THEN Replayed(src, log, ActiveSequence(log, Header(heads).guid))
              ELSE [ok |-> TRUE, src |-> src], meta)
-----------------------------------------------------------------------------
\* The owner (Hyper-V, Windows): it logs a change of the BAT before it makes it.  What
\* it writes is in a cache until it flushes, from where any part of it may reach the
\* disk before, in any order, or never.

VARIABLES vhdx,    \* what is on the disk
          cache,   \* what is on its way there
          owner    \* what the owner knows

NoSector == [guid |-> NoLog, seq |-> 0, part |-> 0]
Sector(guid, seq, len, tail, changes, flushed, last) ==
  [guid |-> guid, seq |-> seq, part |-> 0, len |-> len, tail |-> tail, changes |-> changes, flushed |-> flushed, last |-> last]
DataSector(guid, seq, part, page) == [guid |-> guid, seq |-> seq, part |-> part, page |-> page]

NewBat == [p \in Pages |-> [e \in 1..PageEntries |-> Absent]]

\* What an earlier use of the log, with another GUID, left in it: the entries 1 and 2.
OldEntry(seq, at, part) ==
  IF part = 0
  THEN Sector("old", seq, 2, at, <<[at |-> 1, len |-> 1, sector |-> 1]>>, FirstPayload, FirstPayload)
  ELSE DataSector("old", seq, part, Table([e \in 1..PageEntries |-> BatEntry(6, 0)]))
OldLog == [s \in 0..(LogSectors - 1) |-> IF s < 4 THEN OldEntry((s \div 2) + 1, 2 * (s \div 2), s % 2) ELSE NoSector]

WholeMeta == [regions |-> {1, 2}, requires |-> FALSE, parent |-> FALSE, room |-> BatEntries]
Metas ==
  {WholeMeta, [WholeMeta EXCEPT !.regions = {2}], [WholeMeta EXCEPT !.regions = {}],
   [WholeMeta EXCEPT !.requires = TRUE], [WholeMeta EXCEPT !.parent = TRUE], [WholeMeta EXCEPT !.room = BatEntries - 1]}
Whole(meta) == meta \in {WholeMeta, [WholeMeta EXCEPT !.regions = {2}]}

NoOwner == [session |-> "new", seq |-> 0, head |-> 0, size |-> FirstPayload, durable |-> FirstPayload,
            ring |-> <<>>, live |-> <<>>, applying |-> 0, history |-> <<NewBat>>, flushed |-> 1]
Headed(seq, guid, len) == [seq |-> seq, guid |-> guid, len |-> len, ok |-> TRUE]
NewVhdx(log, meta, head) ==
  [heads |-> <<head, Headed(0, NoLog, LogSectors)>>,
   log |-> log, bat |-> NewBat, payload |-> <<>>, meta |-> meta]

ToHead(i, head) == [to |-> "head", at |-> i, what |-> head]
ToLog(at, sector) == [to |-> "log", at |-> at % LogSectors, what |-> sector]
ToBat(page, entries) == [to |-> "bat", at |-> page, what |-> entries]
ToPayload(at, v) == [to |-> "payload", at |-> at, what |-> v]

\* A write that reaches the disk; payload past the end grows the file.
Written(d, w) ==
  CASE w.to = "head" -> [d EXCEPT !.heads[w.at] = w.what]
    [] w.to = "log" -> [d EXCEPT !.log[w.at] = w.what]
    [] w.to = "bat" -> [d EXCEPT !.bat[w.at] = w.what]
    [] w.to = "payload" ->
         [d EXCEPT !.payload = [i \in 1..Max({Len(@), w.at - FirstPayload + 1}) |->
                                  IF i = w.at - FirstPayload + 1 THEN w.what
                                  ELSE IF i <= Len(@) THEN @[i] ELSE 0]]

Unlogged == Headed(1, NoLog, LogSectors)
LogOfNothing == Headed(1, "old", 0)    \* names a log, of no length

\* The header is not written over: it goes to the older one's place.
OtherHead(guid) ==
  LET now == Header(vhdx.heads)
      place == CHOOSE i \in 1..2 : vhdx.heads[i] # now
  IN ToHead(place, Headed(now.seq + 1, guid, LogSectors))

BeginSession ==
  /\ owner.session = "new"
  /\ cache' = {OtherHead("now")} /\ owner' = [owner EXCEPT !.session = "starting"]
  /\ UNCHANGED vhdx

Bat == Last(owner.history)
LogUsed == FoldSeq(LAMBDA e, sum : sum + e.len, 0, owner.ring)

\* One entry: the pages it changes, each with its content or zeroed.
LogEntry(bat, pages, zeroed, payload) ==
  LET changed == SetToSortSeq(pages, <)
      len == IF zeroed THEN 1 ELSE 1 + Len(changed)
      seq == owner.seq + 1
      tail == IF owner.live = <<>> THEN owner.head ELSE Head(owner.live).at
      size == owner.size + Cardinality(payload)
      changes == [i \in DOMAIN changed |-> [at |-> changed[i], len |-> 1, sector |-> IF zeroed THEN 0 ELSE i]]
      entry == [at |-> owner.head, len |-> len, tail |-> tail, change |-> Len(owner.history) + 1]
  IN /\ owner.session = "open" /\ Len(owner.history) <= MaxWrites
     /\ LogUsed + len <= LogSectors
     /\ cache' = cache \cup payload
          \cup {ToLog(owner.head, Sector("now", seq, len, tail, changes, owner.durable, size))}
          \cup (IF zeroed THEN {} ELSE {ToLog(owner.head + i, DataSector("now", seq, i, Table(bat[changed[i]]))) : i \in DOMAIN changed})
     /\ owner' = [owner EXCEPT !.seq = seq, !.head = (@ + len) % LogSectors, !.size = size,
                               !.ring = Append(@, entry), !.live = Append(@, entry), !.history = Append(@, bat)]
     /\ UNCHANGED vhdx

\* Its place in the BAT: a block's entry, between those of the sector bitmaps.
PageOf(b) == (((b - 1) + ((b - 1) \div ChunkRatio)) \div PageEntries) + 1
IndexOf(b) == (((b - 1) + ((b - 1) \div ChunkRatio)) % PageEntries) + 1

Allocate(b) ==
  /\ Bat[PageOf(b)][IndexOf(b)].state # 6
  /\ LogEntry([Bat EXCEPT ![PageOf(b)][IndexOf(b)] = BatEntry(6, owner.size)], {PageOf(b)}, FALSE,
              {ToPayload(owner.size, 10 * b + Len(owner.history))})
Unmap(b) ==
  /\ Bat[PageOf(b)][IndexOf(b)].state = 6
  /\ LogEntry([Bat EXCEPT ![PageOf(b)][IndexOf(b)] = BatEntry(3, 0)], {PageOf(b)}, FALSE, {})
Discard ==
  /\ \E b \in 1..Blocks : Bat[PageOf(b)][IndexOf(b)].state = 6
  /\ \/ LogEntry(NewBat, {p \in Pages : Bat[p] # NewBat[p]}, TRUE, {})
     \/ LogEntry([p \in Pages |-> [e \in 1..PageEntries |-> IF Bat[p][e].state = 6 THEN BatEntry(2, 0) ELSE Bat[p][e]]], Pages, FALSE, {})

\* The flushed changes are made in the BAT itself.
Apply ==
  /\ owner.session = "open" /\ owner.applying < owner.flushed
  /\ \A w \in cache : w.to # "bat"
  /\ cache' = cache \cup {ToBat(p, owner.history[owner.flushed][p]) : p \in {q \in Pages : owner.history[owner.flushed][q] # vhdx.bat[q]}}
  /\ owner' = [owner EXCEPT !.applying = owner.flushed]
  /\ UNCHANGED vhdx

\* A flush: what was logged lasts, what was applied need not be replayed, and the log's
\* space before the newest entry's tail is free.
Flush ==
  /\ owner.session \in {"starting", "open", "closing"} /\ cache # {}
  /\ vhdx' = FoldSet(LAMBDA w, d : Written(d, w), vhdx, cache)
  /\ cache' = {}
  /\ owner' = [owner EXCEPT
       !.session = CASE @ = "starting" -> "open" [] @ = "closing" -> "closed" [] OTHER -> @,
       !.durable = owner.size, !.flushed = Len(owner.history),
       !.live = SelectSeq(@, LAMBDA e : e.change > owner.applying),
       !.ring = IF @ = <<>> THEN @
                ELSE SubSeq(@, SelectInSeq(@, LAMBDA e : e.at = Last(owner.ring).tail), Len(@))]
\* Part of it gets there before; a header on its way may be torn.
Persist ==
  /\ \E w \in cache :
       \/ vhdx' = Written(vhdx, w) /\ cache' = cache \ {w}
       \/ w.to = "head" /\ vhdx.heads[w.at].ok /\ vhdx' = [vhdx EXCEPT !.heads[w.at].ok = FALSE] /\ UNCHANGED cache
  /\ UNCHANGED owner

CloseSession ==
  /\ owner.session = "open" /\ cache = {} /\ owner.live = <<>>
  /\ cache' = {OtherHead(NoLog)} /\ owner' = [owner EXCEPT !.session = "closing"]
  /\ UNCHANGED vhdx

Owner ==
  \/ BeginSession \/ Discard \/ Apply \/ Flush \/ Persist \/ CloseSession
  \/ \E b \in 1..Blocks : Allocate(b) \/ Unmap(b)

\* What is found on the disk when the owner has stopped.
VhdxFile(size) ==
  Source([o \in 0..(FirstPayload + Len(vhdx.payload) - 1) |->
            IF o = 0 THEN Blank ELSE IF o \in Pages THEN Table(vhdx.bat[o]) ELSE Data(vhdx.payload[o - FirstPayload + 1])],
         size)
VhdxSize == FirstPayload + Len(vhdx.payload)

\* The disk after one of the owner's changes, over the payload that got to the disk.
DiskAfter(change) ==
  [b \in 1..Blocks |->
     LET e == owner.history[change][PageOf(b)][IndexOf(b)]
         i == e.at - FirstPayload + 1
     IN IF e.state = 6 /\ i <= Len(vhdx.payload) THEN vhdx.payload[i] ELSE 0]
=============================================================================
