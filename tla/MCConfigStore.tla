--------------------------- MODULE MCConfigStore ---------------------------
(* Small instances of ConfigStore for TLC.                                 *)
EXTENDS ConfigStore, TLC
CONSTANTS w1, w2, x1, o1, o2, o3, o4
TwoWriters == {w1, w2}
OneHandEdit == {x1}
ThreeObjects == {o1, o2, o3}
FourObjects == ThreeObjects \cup {o4}
Locked == [w \in Writers |-> IF w = w1 THEN "shared" ELSE "copied"]
Unlocked == [w \in Writers |-> IF w = w1 THEN "copied" ELSE "loaded"]
=============================================================================
