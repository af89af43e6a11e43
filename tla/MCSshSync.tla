----------------------------- MODULE MCSshSync -----------------------------
(* Small instances of Recording for TLC: of the pipeline, one node with a  *)
(* WireGuard end and its BIRD configuration; and of the store, two nodes   *)
(* and a name that one of them may be given.                               *)
EXTENDS Recording, TLC

CONSTANTS n1, wg, roa, bird, v1, v2, v3, s1, s2, a, b, c

MCNodes == {n1}
WgAndBird == {wg, bird}
RoaAndBird == {roa, bird}
MCHome == [t \in Targets |-> n1]
MCKind == [t \in Targets |-> CASE t = wg -> "wg" [] t = roa -> "roa" [] t = bird -> "bird"]
MCRank == [t \in Targets |-> CASE t = wg -> 3 [] t = roa -> 2 [] t = bird -> 1]
MCVersions == {v1, v2}
OneSync == {s1}
TwoSyncs == {s1, s2}
AllTexts == [t \in Targets |-> Versions]
OneWg == [t \in Targets |-> IF Kind[t] = "wg" THEN {v3} ELSE {v1, v2}]
ThreeVersions == {v1, v2, v3}
LikeVersions == Permutations({v1, v2})
OneAddress == [v \in Versions |-> 1]
ManyAddresses == [v \in Versions |-> IF v = v1 THEN 1 ELSE 2]
ManyMtus == ManyAddresses
OneMtu == OneAddress
StoredNames == {a, b, c}
FirstNames == {a, b}
=============================================================================
