------------------------------ MODULE NodeForm ------------------------------
(***************************************************************************)
(* The dialog that adds or edits a node (AddNodeModal.tsx).  An effect     *)
(* fills some thirty fields when it opens; a probe of the host over SSH,   *)
(* which may take long, fills some of them from what it finds, whatever    *)
(* the dialog is open for by then.  The fields are grouped into parts; a   *)
(* part holds the node it was filled from, "blank", "typed" or "probed".   *)
(***************************************************************************)
EXTENDS Naturals, Sequences, FiniteSets, SequencesExt

CONSTANTS
    Nodes,        \* the nodes there may be
    External,     \* those that are external peers
    MaxEntries,   \* how long the list of entrypoints may grow
    MaxSteps

None == "none"
Parts == {"host", "name", "addresses", "texts", "routing", "entrypoints", "hooks", "templates"}
Entries == {"fallback", "direct"}

VARIABLES
    open, edit,     \* addNodeOpen, nodeToEdit
    isExternal,
    draft,          \* the parts of the form
    entrypoints,    \* the list of entrypoints: the fallback is the one without an address
    server,         \* the nodes there are
    calls,          \* the probe and the save under way, at most one of each
    busy,           \* probing, saving
    crossed,        \* history: a probe was under way when the dialog opened
    touched,        \* history: the parts typed or probed since it opened
    steps
vars == <<open, edit, isExternal, draft, entrypoints, server, calls, busy, crossed, touched, steps>>

NoCall == [at |-> None, of |-> None, found |-> <<>>]
Contents == Nodes \cup {"blank", "typed", "probed"}

TypeOK ==
    /\ open \in BOOLEAN /\ edit \in Nodes \cup {None} /\ isExternal \in BOOLEAN
    /\ draft \in [Parts -> Contents]
    /\ Len(entrypoints) \in 0..(MaxEntries + 1) /\ Range(entrypoints) \subseteq Entries
    /\ server \subseteq Nodes /\ busy \subseteq {"probe", "save"} /\ touched \subseteq Parts
    /\ \A op \in {"probe", "save"} :
           calls[op].at \in {None, "sent", "done"} /\ calls[op].of \in Nodes \cup {None}
    /\ crossed \in BOOLEAN /\ steps \in 0..MaxSteps

Init ==
    /\ open = FALSE /\ edit = None /\ isExternal = FALSE
    /\ draft = [p \in Parts |-> "blank"] /\ entrypoints = <<"fallback">>
    /\ server \in SUBSET Nodes
    /\ calls = [op \in {"probe", "save"} |-> NoCall] /\ busy = {}
    /\ crossed = FALSE /\ touched = {} /\ steps = 0

Step == steps < MaxSteps /\ steps' = steps + 1

-----------------------------------------------------------------------------
(* Entrypoints                                                             *)

(* Entries of one kind are alike: a filter leaves so and so many of them.  *)
EntriesOf(eps, kind) == [i \in 1..Cardinality({j \in DOMAIN eps : eps[j] = kind}) |-> kind]

EnsureFallbackLast(eps) == EntriesOf(eps, "direct") \o EntriesOf(eps, "fallback")
WithFallback(eps) ==
    EnsureFallbackLast(IF "fallback" \in Range(eps) THEN eps ELSE Append(eps, "fallback"))

(* What a node of either kind is given when it has none.                   *)
FilledEntrypoints(n, eps) ==
    IF n \in External THEN IF eps = <<>> THEN <<"direct">> ELSE eps ELSE WithFallback(eps)

-----------------------------------------------------------------------------
(* The effect fills the form; the parts of an edited node are its own.     *)

FillEdit(n) ==
    /\ draft' = [p \in Parts |-> n] /\ isExternal' = (n \in External)
    /\ \E k \in 0..(MaxEntries - 2) : entrypoints' = FilledEntrypoints(n, [i \in 1..k |-> "direct"])

FillNew ==
    /\ draft' = [p \in Parts |-> "blank"] /\ isExternal' = FALSE
    /\ entrypoints' = <<"fallback">>

Opens == /\ ~open /\ Step /\ open' = TRUE
         /\ crossed' = (calls["probe"].at # None) /\ touched' = {}

OpenAdd == Opens /\ edit' = None /\ FillNew /\ UNCHANGED <<server, calls, busy>>
OpenEdit(n) == n \in server /\ Opens /\ edit' = n /\ FillEdit(n) /\ UNCHANGED <<server, calls, busy>>

(* The Cancel button waits for a save, not for a probe; Escape for none.   *)
Close ==
    /\ open /\ open' = FALSE
    /\ UNCHANGED <<edit, isExternal, draft, entrypoints, server, calls, busy, crossed, touched, steps>>

-----------------------------------------------------------------------------
(* Editing: during a save every field is disabled, and during a probe the  *)
(* host.  The name of an external peer is that of the node edited.         *)

Edit(part) ==
    /\ open /\ "save" \notin busy /\ draft[part] # "typed"
    /\ draft' = [draft EXCEPT ![part] = "typed"] /\ touched' = touched \cup {part}
    /\ UNCHANGED <<open, edit, isExternal, entrypoints, server, calls, busy, crossed, steps>>

EditHost == ~isExternal /\ "probe" \notin busy /\ Edit("host")
EditPeerName == isExternal /\ edit = None /\ Edit("name")
EditName == ~isExternal /\ Edit("name")
EditPeer == isExternal /\ Edit("addresses")
EditAddresses == ~isExternal /\ Edit("addresses")
EditTexts == Edit("texts")
EditRouting == ~isExternal /\ Edit("routing")
EditHooks == Edit("hooks")
EditTemplates == ~isExternal /\ Edit("templates")

(* The lists have no such guard.                                           *)
EditEntrypoints(eps) ==
    /\ open /\ Len(eps) <= MaxEntries /\ eps # entrypoints /\ entrypoints' = eps
    /\ draft' = [draft EXCEPT !["entrypoints"] = "typed"] /\ touched' = touched \cup {"entrypoints"}
    /\ UNCHANGED <<open, edit, isExternal, server, calls, busy, crossed, steps>>

HandleAddEntrypoint == EditEntrypoints(EnsureFallbackLast(Append(entrypoints, "direct")))

(* The fallback has no button to remove it.                                *)
HandleRemoveEntrypoint(i) ==
    /\ i \in DOMAIN entrypoints /\ Len(entrypoints) > 1
    /\ isExternal \/ entrypoints[i] # "fallback"
    /\ EditEntrypoints(EnsureFallbackLast(RemoveAt(entrypoints, i)))

ChooseManaged ==
    /\ open /\ edit = None /\ isExternal' = FALSE
    /\ entrypoints' = WithFallback(entrypoints)
    /\ UNCHANGED <<open, edit, draft, server, calls, busy, crossed, touched, steps>>

ChooseExternal ==
    /\ open /\ edit = None /\ isExternal' = TRUE
    /\ LET rest == EntriesOf(entrypoints, "direct")
       IN  entrypoints' = IF rest = <<>> THEN <<"direct">> ELSE rest
    /\ UNCHANGED <<open, edit, draft, server, calls, busy, crossed, touched, steps>>

-----------------------------------------------------------------------------
(* Probing                                                                 *)

HandleProbe ==
    /\ open /\ ~isExternal /\ draft["host"] # "blank" /\ busy = {} /\ Step
    /\ calls' = [calls EXCEPT !["probe"] = [NoCall EXCEPT !.at = "sent", !.of = edit]]
    /\ busy' = busy \cup {"probe"}
    /\ UNCHANGED <<open, edit, isExternal, draft, entrypoints, server, crossed, touched>>

ServerProbes ==
    /\ calls["probe"].at = "sent"
    /\ \E found \in {<<>>, <<"direct">>, <<"fallback", "direct">>} :
           calls' = [calls EXCEPT !["probe"].at = "done", !["probe"].found = found]
    /\ UNCHANGED <<open, edit, isExternal, draft, entrypoints, server, busy, crossed, touched, steps>>

(* A probe for a new node suggests its name as well.                       *)
ProbeArrives ==
    /\ calls["probe"].at = "done"
    /\ LET found == calls["probe"].found
           fills == {"addresses"} \cup (IF found = <<>> THEN {} ELSE {"entrypoints"})
                    \cup (IF calls["probe"].of = None THEN {"name"} ELSE {})
       IN  /\ draft' = [p \in Parts |-> IF p \in fills THEN "probed" ELSE draft[p]]
           /\ touched' = touched \cup fills
           /\ entrypoints' = IF found = <<>> THEN entrypoints ELSE WithFallback(found)
    /\ calls' = [calls EXCEPT !["probe"] = NoCall] /\ busy' = busy \ {"probe"}
    /\ UNCHANGED <<open, edit, isExternal, server, crossed, steps>>

-----------------------------------------------------------------------------
(* Submitting                                                              *)

NameTaken(n) == n \in server /\ n # edit
Required ==
    /\ draft["name"] # "blank"
    /\ ~isExternal => draft["host"] # "blank" /\ draft["addresses"] # "blank"

(* The name the form submits: that of the node edited, or one found or typed. *)
HandleSubmit(n) ==
    /\ open /\ Required /\ "save" \notin busy /\ ~NameTaken(n)
    /\ draft["name"] \in Nodes => n = draft["name"]
    /\ calls' = [calls EXCEPT !["save"] = [NoCall EXCEPT !.at = "sent", !.of = n]]
    /\ busy' = busy \cup {"save"}
    /\ UNCHANGED <<open, edit, isExternal, draft, entrypoints, server, crossed, touched, steps>>

ServerSaves ==
    /\ calls["save"].at = "sent"
    /\ server' = server \cup {calls["save"].of} /\ calls' = [calls EXCEPT !["save"].at = "done"]
    /\ UNCHANGED <<open, edit, isExternal, draft, entrypoints, busy, crossed, touched, steps>>

(* The external peers list the entries with an address only.               *)
FinalEntrypoints ==
    IF isExternal THEN EntriesOf(entrypoints, "direct")
    ELSE EnsureFallbackLast(entrypoints)

(* Success closes the dialog, whatever it is open for.                     *)
Saved ==
    /\ calls["save"].at = "done" /\ open' = FALSE
    /\ calls' = [calls EXCEPT !["save"] = NoCall] /\ busy' = busy \ {"save"}
    /\ UNCHANGED <<edit, isExternal, draft, entrypoints, server, crossed, touched, steps>>

Fails(op) ==
    /\ calls[op].at # None /\ calls' = [calls EXCEPT ![op] = NoCall] /\ busy' = busy \ {op}
    /\ UNCHANGED <<open, edit, isExternal, draft, entrypoints, server, crossed, touched, steps>>

-----------------------------------------------------------------------------
Next ==
    \/ OpenAdd \/ (\E n \in Nodes : OpenEdit(n) \/ HandleSubmit(n)) \/ Close
    \/ EditHost \/ EditPeerName \/ EditName \/ EditPeer \/ EditAddresses \/ EditTexts
    \/ EditRouting \/ EditHooks \/ EditTemplates
    \/ HandleAddEntrypoint \/ (\E i \in 1..(MaxEntries + 1) : HandleRemoveEntrypoint(i))
    \/ ChooseManaged \/ ChooseExternal
    \/ HandleProbe \/ ServerProbes \/ ProbeArrives \/ ServerSaves \/ Saved
    \/ \E op \in {"probe", "save"} : Fails(op)

Spec == Init /\ [][Next]_vars

-----------------------------------------------------------------------------
(* Through every way the list of entrypoints is built, edited, switched    *)
(* between the kinds of node and replaced by a late probe: what a managed  *)
(* node is shown with ends with its one fallback, and is what is saved.    *)
FallbackLast ==
    ~isExternal => /\ Last(entrypoints) = "fallback"
                   /\ Cardinality({i \in DOMAIN entrypoints : entrypoints[i] = "fallback"}) = 1
                   /\ FinalEntrypoints = entrypoints

(* A form holds of the node it was opened for, or what was typed or probed *)
(* since, and what was probed is of its host unless a probe was under way  *)
(* when the dialog opened.                                                 *)
NoLeftovers ==
    open => \A p \in Parts \ touched : draft[p] = IF edit = None THEN "blank" ELSE edit
NotRenamedByProbe == open /\ edit # None /\ ~crossed => draft["name"] # "probed"

(* What disables a button ends with its request.                           *)
NoDeadButton == \A op \in busy : calls[op].at # None
=============================================================================
