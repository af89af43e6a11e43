------------------------------- MODULE MCWeb -------------------------------
(* A small instance of Web for TLC.                                        *)
EXTENDS Web

(* Two changes; one change and a connection that breaks; a vault that is   *)
(* turned, and a click of the user.                                        *)
MCBudgets ==
    {[changes |-> c[1], turns |-> c[2], breaks |-> c[3], clicks |-> c[4]] :
        c \in {<<2, 0, 0, 0>>, <<1, 0, 1, 0>>, <<0, 1, 0, 1>>}}
PolicyParts ==
    {"identity", "routing", "addresses", "roa", "filters", "ingress", "nat", "import", "export"}
TemplateType == [i \in {"p", "q"} |-> IF i = "p" THEN "wg" ELSE "bird"]

TwoLinks == {<<"a", "b">>, <<"x", "a">>}
SystemdApp == [a |-> "systemd"]
MixedSelector == [a |-> "mixed"]
PairOfLink == [l \in {"a", "b"} |-> l]

(* Of the two nodes whose page may be open, the first has a token of its   *)
(* agent to begin with.                                                    *)
InitSmall == InitWeb /\ (screen = "nodePage" => x3 = {"a"})
SpecSmall == InitSmall /\ [][NextWeb]_allVars
=============================================================================
