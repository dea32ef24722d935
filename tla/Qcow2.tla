-------------------------------- MODULE Qcow2 --------------------------------
(***************************************************************************)
(* QCOW2 images (src/engine/formats/qcow2.rs).  A cell is a subcluster, a  *)
(* cluster two.  Cluster 0 of the file holds the header, cluster 1 the L1  *)
(* table, in entries that are host cells of L2 tables (0: none).           *)
(***************************************************************************)
EXTENDS ImageFile

QcowCluster == 2
QcowKnown == {"dirty", "corrupt", "compression", "extended"}

QcowFeatures(h) == IF h.version = 3 THEN h.features ELSE {}
QcowExtended(h) == "extended" \in QcowFeatures(h)

\* header
QcowRefuses(h) ==
  \/ h.version \notin {2, 3} \/ h.backing \/ h.encrypted
  \/ ~(QcowFeatures(h) \subseteq QcowKnown)                       \* external data among them
  \/ "compression" \in QcowFeatures(h) /\ h.compression \notin {"deflate", "zstd"}
  \/ h.l1Size < CeilDiv(h.size, QcowCluster * h.l2Entries)
  \/ h.l1 % QcowCluster # 0

QcowNone == [compressed |-> FALSE, zero |-> FALSE, host |-> 0, stored |-> 0, subs |-> {}]

\* Clusters::next, of one cluster.
QcowCell(h, e) ==
  IF e.compressed THEN <<Packed(e.host, e.stored, QcowCluster, FALSE)>>
  ELSE IF e.host % QcowCluster # 0 THEN <<Damaged>>
  ELSE IF e.host = 0 \/ (h.version = 3 /\ ~QcowExtended(h) /\ e.zero) THEN <<Zeros(QcowCluster)>>
  ELSE IF QcowExtended(h)
  THEN [i \in 1..QcowCluster |-> IF i \in e.subs THEN Stored(e.host + i - 1, 1) ELSE Zeros(1)]
  ELSE <<Stored(e.host, QcowCluster)>>

\* Clusters::next from cluster c on; without an L2 table all of its clusters at once.
QcowLayout(src, h) ==
  LET clusters == CeilDiv(h.size, QcowCluster)
      from[c \in 0..clusters] ==
        IF c = clusters THEN <<>>
        ELSE LET l2 == EntryOf(CellAt(src, h.l1), (c \div h.l2Entries) + 1, 0)
                 span == Min({h.l2Entries - (c % h.l2Entries), clusters - c})
             IN IF ~Readable(src, h.l1, QcowCluster) THEN <<Damaged>>
                ELSE IF l2 = 0 THEN <<Zeros(span * QcowCluster)>> \o from[c + span]
                ELSE IF l2 % QcowCluster # 0 \/ ~Readable(src, l2, QcowCluster) THEN <<Damaged>>
                ELSE QcowCell(h, EntryOf(CellAt(src, l2), (c % h.l2Entries) + 1, QcowNone)) \o from[c + 1]
  IN from[0]

QcowOpen(src, h) == OpenedIf(~QcowRefuses(h), src, h.size, QcowLayout(src, h))
-----------------------------------------------------------------------------
\* The images QEMU writes: what it keeps of each cluster of the disk.

QcowKinds == {"none", "zero", "preallocated", "stored", "half", "packed", "rotten", "misplaced"}

QcowHeader == [version |-> 3, backing |-> FALSE, encrypted |-> FALSE, features |-> {}, compression |-> "deflate",
               size |-> 5, l2Entries |-> 2, l1Size |-> 2, l1 |-> 2]
\* The image's header when only its first cluster is looked at: what the code must refuse or may read.
QcowHeaders ==
  {[QcowHeader EXCEPT !.backing = TRUE], [QcowHeader EXCEPT !.version = 1], [QcowHeader EXCEPT !.encrypted = TRUE],
   [QcowHeader EXCEPT !.features = {"external"}], [QcowHeader EXCEPT !.features = {"other"}],
   [QcowHeader EXCEPT !.features = {"compression"}, !.compression = "other"],
   [QcowHeader EXCEPT !.l1Size = 1], [QcowHeader EXCEPT !.l1 = 3]}

QcowAllows(h, kind) ==
  CASE kind = "half" -> QcowExtended(h)
    [] kind \in {"zero", "preallocated"} -> h.version = 3 /\ ~QcowExtended(h)
    [] OTHER -> TRUE

\* The tables come first, then a host cluster for each guest cluster, in order or in reverse.
QcowImage(h, kinds, reversed) ==
  LET clusters == Len(kinds)
      tables == CeilDiv(clusters, h.l2Entries)
      first == QcowCluster * (2 + tables)
      host[c \in 1..clusters] == first + QcowCluster * (IF reversed THEN clusters - c ELSE c - 1)
      size == first + QcowCluster * clusters
      held(c, i) == 10 * c + i                    \* what the guest wrote to subcluster i of cluster c
      cluster(o) == CHOOSE c \in 1..clusters : o \in host[c]..(host[c] + QcowCluster - 1)
      entry(c) ==
        LET kind == kinds[c] IN
        CASE kind = "none" -> QcowNone
          [] kind = "zero" -> [QcowNone EXCEPT !.zero = TRUE]
          [] kind = "preallocated" -> [QcowNone EXCEPT !.zero = TRUE, !.host = host[c]]
          [] kind = "half" -> [QcowNone EXCEPT !.host = host[c], !.subs = {1}]
          [] kind \in {"packed", "rotten"} -> [QcowNone EXCEPT !.compressed = TRUE, !.host = host[c], !.stored = QcowCluster + 1]
          [] kind = "misplaced" -> [QcowNone EXCEPT !.host = host[c] + 1]
          [] OTHER -> [QcowNone EXCEPT !.host = host[c], !.subs = 1..QcowCluster]
      content(o) ==
        IF o = h.l1
        THEN Table([t \in 1..tables |->
                      IF \A c \in 1..clusters : (c - 1) \div h.l2Entries = t - 1 => kinds[c] = "none"
                      THEN 0 ELSE QcowCluster * (1 + t)])
        ELSE IF o < 2 * QcowCluster THEN Blank
        ELSE IF o < first
        THEN LET t == (o \div QcowCluster) - 1
             IN Table([i \in 1..h.l2Entries |->
                         LET c == (t - 1) * h.l2Entries + i
                         IN IF c \in 1..clusters THEN entry(c) ELSE QcowNone])
        ELSE LET c == cluster(o)
                 i == o - host[c] + 1
             IN Data(CASE kinds[c] \in {"none", "zero", "preallocated"} -> Stale
                       [] kinds[c] = "rotten" /\ i = 2 -> Rot
                       [] kinds[c] = "half" /\ i = 2 -> Stale
                       [] OTHER -> held(c, i))
      guest(g) ==
        LET c == ((g - 1) \div QcowCluster) + 1
            i == ((g - 1) % QcowCluster) + 1
        IN IF kinds[c] \in {"none", "zero", "preallocated"} \/ (kinds[c] = "half" /\ i = 2) THEN 0 ELSE held(c, i)
  IN [format |-> "qcow2", h |-> h, cells |-> [o \in 0..(size - 1) |-> content(o)], size |-> size,
      disk |-> [g \in 1..h.size |-> guest(g)],
      sound |-> h \notin QcowHeaders /\ \A c \in 1..clusters : kinds[c] \notin {"rotten", "misplaced"},
      whole |-> ~h.backing /\ ~h.encrypted /\ h.features \subseteq QcowKnown]

\* At most one cluster that is damaged; the clusters in reverse where all are written alike.
QcowDamage == {"rotten", "misplaced"}
QcowMixes(h) ==
  {k \in [1..3 -> QcowKinds] :
     /\ \A c \in 1..3 : QcowAllows(h, k[c])
     /\ Cardinality({c \in 1..3 : k[c] \in QcowDamage}) <= 1}
QcowImages ==
  {QcowImage(h, [c \in 1..3 |-> "stored"], FALSE) : h \in QcowHeaders}
  \cup UNION {{QcowImage(h, kinds, FALSE) : kinds \in QcowMixes(h)}
              \cup {QcowImage(h, kinds, TRUE) : kinds \in [1..3 -> {"stored", "packed"}]} :
              h \in {QcowHeader, [QcowHeader EXCEPT !.version = 2], [QcowHeader EXCEPT !.features = {"extended"}]}}
=============================================================================
