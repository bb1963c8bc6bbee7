--------------------------- MODULE MCSyncEngine ----------------------------
EXTENDS SyncEngine

\* u0 founds the storage and x0 adds the object x to it; u and v are other user changes, a
\* and b change x, d adds y
MCSpecial == {"u0", "u", "v"}
MCObjectOf == [x0 |-> "x", a |-> "x", b |-> "x", d |-> "y"]
MCTwo ==
    [op \in {"u0", "x0", "u", "v", "a", "b", "d"} |-> IF op \in {"b", "u"} THEN "c2" ELSE "c1"]

\* each client keeps to its replica; all of them to A; anyone anywhere
MCHomes == [c \in {"c1", "c2"} |-> IF c = "c1" THEN {"A"} ELSE {"B"}]
MCAll == [c \in {"c1", "c2"} |-> {"A", "B"}]
MCOne == [c \in {"c1", "c2"} |-> {"A"}]
=============================================================================
