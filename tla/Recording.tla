----------------------------- MODULE Recording -----------------------------
(* What was recorded of the nodes: by the push pipeline, which compares it *)
(* with what the topology compiles to, and in the store, which keeps it in *)
(* memory and in a table.  They share no state here: a behaviour is one of *)
(* either.                                                                 *)
EXTENDS SshSync

CONSTANTS Names, Managed, MaxSteps, None   \* see StateStore

ASSUME NamesAssumption == Managed \subseteq Names /\ None \notin Names /\ MaxSteps \in Nat

VARIABLES part, topology, cache, rows, update, failed, saved, steps
Store == INSTANCE StateStore
ASSUME NoRecordAssumption == None \notin Store!Record
storeVars == <<topology, cache, rows, update, failed, saved, steps>>
partVars == <<part, vars, storeVars>>

(* What the topology compiles to matters only to the pipeline.             *)
InitParts ==
    /\ part \in {"sync", "store"} /\ Init /\ Store!Init
    /\ part = "store" => unlocked /\ \A t \in WgTargets : desired[t] = Absent
NextSync == part = "sync" /\ Next /\ UNCHANGED <<part, storeVars>>
NextStore == part = "store" /\ Store!Next /\ UNCHANGED <<part, vars>>
SpecParts == InitParts /\ [][NextSync \/ NextStore]_partVars

(* The syncs alone.                                                        *)
SpecSync == InitParts /\ part = "sync" /\ [][NextSync]_partVars

(* The properties of the store, stated in StateStore.                      *)
RestartKeeps == Store!TypeOK /\ Store!RestartKeeps
=============================================================================
