------------------------------ MODULE MCSmartCopy ------------------------------
EXTENDS SmartCopy

\* Drives whose ends cut a unit of the map short, and one with room for more extents
\* than a map may hold.
MCSources == {[size |-> 15, sector |-> 1], [size |-> 27, sector |-> 1]}
             \cup {[size |-> 48, sector |-> s] : s \in {1, 2, 4}}
MCDrives == {[size |-> 12, sector |-> 4], [size |-> 15, sector |-> 1], [size |-> 16, sector |-> 2],
             [size |-> 16, sector |-> 4], [size |-> 28, sector |-> 4], [size |-> 48, sector |-> 2],
             [size |-> 52, sector |-> 4]}
MCFounds == LET one == {Extent(start, len) : start \in {3, 9, 13, 20, 29}, len \in {1, 7}}
            IN {<<>>} \cup {<<e>> : e \in one} \cup {<<e, f>> : e \in one, f \in one}
               \cup {<<e, f, Extent(29, 1)>> : e \in one, f \in one}
================================================================================
