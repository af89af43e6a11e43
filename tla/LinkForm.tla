------------------------------ MODULE LinkForm ------------------------------
(***************************************************************************)
(* The dialog that adds or edits a link (AddLinkModal.tsx).  Three effects *)
(* set its fields: one fills them when it opens and whenever the nodes are *)
(* loaded again, one sets the policies by the kind of the link, and one    *)
(* derives ports from the pair of nodes chosen, once per pair.  Effects    *)
(* run after a render, in order, on the values of that render; what they   *)
(* set takes effect with the next.                                         *)
(***************************************************************************)
EXTENDS Naturals, FiniteSets

CONSTANTS
    Nodes,
    External,     \* those that are external peers
    Links,        \* the links there are to edit, pairs of nodes
    MaxTyped,     \* how many fields are typed at a time
    MaxSteps      \* how often the dialog opens and the nodes are loaded

None == "none"
Ports == {"fromPort", "toPort"}
Parts == Ports \cup {"policy", "peer", "other"}
Effects == {"fill", "policy", "derive"}

VARIABLES
    open, edit,     \* addLinkOpen, linkToEdit
    initial,        \* connectFrom and connectTo
    pair,           \* fromNodeName and toNodeName
    kind,           \* linkType
    settings,       \* whether the network settings are there
    draft,          \* the fields: what they hold and of which node or link it is
    derivedFor,     \* lastExtPeerRef or lastInternalPeerRef, one of which is empty
    due,            \* the effects to run after the last render
    calls, busy,    \* the save under way; submitting
    crossed,        \* history: the dialog opened for the very pair it had before
    touched,        \* history: the fields typed since they were last set
    steps
vars == <<open, edit, initial, pair, kind, settings, draft, derivedFor, due, calls, busy, crossed,
          touched, steps>>

Pairs == (Nodes \cup {None}) \X (Nodes \cup {None})
NoPair == <<None, None>>
NoLink == NoPair
Blank == <<"blank", NoPair>>
Typed == <<"typed", NoPair>>
OfLink(l) == <<"link", l>>
Contents == {"blank", "typed", "link", "ip", "asn", "dn42", "default"} \X Pairs

TypeOK ==
    /\ open \in BOOLEAN /\ edit \in Links \cup {NoLink} /\ initial \in Pairs /\ pair \in Pairs
    /\ kind \in {"wireguard", "manual"} /\ settings \in BOOLEAN
    /\ draft \in [Parts -> Contents] /\ touched \subseteq Parts
    /\ derivedFor \in [pair : Pairs, settings : BOOLEAN] \cup {[pair |-> NoPair, settings |-> TRUE]}
    /\ due \subseteq Effects /\ calls \in {"none", "sent"} /\ busy \in BOOLEAN
    /\ crossed \in BOOLEAN /\ steps \in 0..MaxSteps

NoKey == [pair |-> NoPair, settings |-> TRUE]

IsExt(n) == n \in External
IsBothExternal(p) == IsExt(p[1]) /\ IsExt(p[2])
IsExternalLink(p) == ~IsBothExternal(p) /\ (IsExt(p[1]) \/ IsExt(p[2]))
Chosen(p) == p[1] # None /\ p[2] # None
PolicyOf(p) == <<IF IsExternalLink(p) THEN "dn42" ELSE "default", NoPair>>

Init ==
    /\ open = FALSE /\ edit = NoLink /\ initial = NoPair /\ pair = NoPair /\ kind = "wireguard"
    /\ settings = FALSE /\ draft = [p \in Parts |-> IF p = "policy" THEN PolicyOf(NoPair) ELSE Blank]
    /\ derivedFor = [pair |-> NoPair, settings |-> FALSE] /\ due = {}
    /\ calls = "none" /\ busy = FALSE /\ crossed = FALSE /\ touched = {} /\ steps = 0

Settled == due = {}
Step == Settled /\ steps < MaxSteps /\ steps' = steps + 1

-----------------------------------------------------------------------------
(* Opening and closing                                                     *)

(* The pair the fields are filled with: not two external peers.            *)
InitialPair(l, init) ==
    IF l # NoLink THEN l ELSE IF IsBothExternal(init) THEN <<init[1], None>> ELSE init

Opens(l, init) ==
    /\ ~open /\ Step /\ open' = TRUE /\ edit' = l /\ initial' = init
    /\ due' = {"fill"} \cup (IF l # edit THEN {"policy", "derive"} ELSE {})
    /\ crossed' = (InitialPair(l, init) = pair)
    /\ UNCHANGED <<pair, kind, settings, draft, derivedFor, calls, busy, touched>>

HandleAddLink == Opens(NoLink, NoPair)
HandleConnectNodes(a, b) == a # b /\ Opens(NoLink, <<a, b>>)
HandleEditLink(l) == Opens(l, initial)

(* The Cancel button waits for a save; Escape does not.                    *)
Close ==
    /\ open /\ Settled /\ open' = FALSE
    /\ UNCHANGED <<edit, initial, pair, kind, settings, draft, derivedFor, due, calls, busy, crossed,
                   touched, steps>>

(* Every load of the topology makes the nodes anew.                        *)
NodesLoad ==
    /\ Step
    /\ due' = {e \in {"fill", "derive"} : (e = "fill" => open) /\ (e = "derive" => pair # NoPair)}
    /\ UNCHANGED <<open, edit, initial, pair, kind, settings, draft, derivedFor, calls, busy, crossed,
                   touched>>

SettingsLoad ==
    /\ Settled /\ ~settings /\ settings' = TRUE /\ due' = {"derive"}
    /\ UNCHANGED <<open, edit, initial, pair, kind, draft, derivedFor, calls, busy, crossed, touched,
                   steps>>

-----------------------------------------------------------------------------
(* The effects                                                             *)

Fill ==
    IF edit # NoLink THEN [p \in Parts |-> OfLink(edit)]
    ELSE [p \in Parts |-> IF p = "policy" THEN PolicyOf(InitialPair(NoLink, initial)) ELSE Blank]

(* The fill forgets the pair a new link was derived for (a mutant does     *)
(* not), so that the ports it cleared are derived again.                   *)
KeepsKey(ref) == ref

ForgetsKey(ref) == IF edit = NoLink THEN NoKey ELSE ref

(* The policies follow the kind of the link, of a new link only.           *)
SetPolicy(d) == [d EXCEPT !["policy"] = PolicyOf(pair)]

(* An external link has one port to listen on, by the peer's ASN; two      *)
(* managed nodes listen each on a port derived from the other's address.   *)
KeyOf(p) ==
    IF IsExternalLink(p) /\ Chosen(p) THEN [pair |-> p, settings |-> settings]
    ELSE [pair |-> p, settings |-> FALSE]
HasIp(n) == n \in Nodes \ External
Derive(d) ==
    IF IsExternalLink(pair) /\ Chosen(pair)
    THEN [p \in Parts |-> CASE p = "fromPort" /\ ~IsExt(pair[1]) -> <<"asn", <<pair[2], None>>>>
                            [] p = "toPort" /\ ~IsExt(pair[2]) -> <<"asn", <<pair[1], None>>>>
                            [] p = "peer" -> <<"asn", pair>>
                            [] OTHER -> d[p]]
    ELSE [d EXCEPT !["fromPort"] = IF HasIp(pair[2]) THEN <<"ip", <<pair[2], None>>>> ELSE @,
                   !["toPort"] = IF HasIp(pair[1]) THEN <<"ip", <<pair[1], None>>>> ELSE @]

RunEffects ==
    LET fills == "fill" \in due /\ open
        sets == "policy" \in due /\ edit = NoLink
        filled == IF fills THEN Fill ELSE draft
        policied == IF sets THEN SetPolicy(filled) ELSE filled
        ref == IF fills THEN ForgetsKey(derivedFor) ELSE derivedFor
        derives == "derive" \in due /\ edit = NoLink
        next == IF fills THEN InitialPair(edit, initial) ELSE pair
    IN  /\ due # {}
        /\ draft' = IF derives /\ ref # KeyOf(pair) THEN Derive(policied) ELSE policied
        /\ derivedFor' = IF derives THEN KeyOf(pair) ELSE ref
        /\ pair' = next
        /\ kind' = IF fills /\ edit = NoLink THEN "wireguard" ELSE kind
        /\ touched' = {p \in touched : draft'[p] = Typed}
        /\ due' = (IF next # pair THEN {"derive"} ELSE {})
                  \cup (IF IsExternalLink(next) # IsExternalLink(pair) THEN {"policy"} ELSE {})
        /\ UNCHANGED <<open, edit, initial, settings, calls, busy, crossed, steps>>

-----------------------------------------------------------------------------
(* Choosing the nodes: an external peer is never left facing another       *)

Choose(p) ==
    /\ open /\ Settled /\ edit = NoLink /\ ~busy /\ p # pair /\ pair' = p
    /\ due' = {"derive"} \cup (IF IsExternalLink(p) # IsExternalLink(pair) THEN {"policy"} ELSE {})
    /\ crossed' = FALSE
    /\ UNCHANGED <<open, edit, initial, kind, settings, draft, derivedFor, calls, busy, touched, steps>>

SelectFrom(n) == n # pair[2] /\ Choose(<<n, IF IsExt(n) /\ IsExt(pair[2]) THEN None ELSE pair[2]>>)
SelectTo(n) == n # pair[1] /\ Choose(<<IF IsExt(n) /\ IsExt(pair[1]) THEN None ELSE pair[1], n>>)

ChooseType(k) ==
    /\ open /\ Settled /\ edit = NoLink /\ ~IsBothExternal(pair) /\ kind # k /\ kind' = k
    /\ UNCHANGED <<open, edit, initial, pair, settings, draft, derivedFor, due, calls, busy, crossed,
                   touched, steps>>

-----------------------------------------------------------------------------
(* Typing.  Which sections there are follows from the pair and the type;   *)
(* most fields of the form stay enabled during a save.                     *)

ExternalForm == kind = "wireguard" /\ IsExternalLink(pair) /\ Chosen(pair)
Manual == kind = "manual" /\ Chosen(pair)
Standard == kind = "wireguard" /\ ~IsExternalLink(pair) /\ ~IsBothExternal(pair) /\ Chosen(pair)

Edit(part) ==
    /\ open /\ Settled /\ draft[part] # Typed /\ Cardinality(touched) < MaxTyped
    /\ draft' = [draft EXCEPT ![part] = Typed] /\ touched' = touched \cup {part}
    /\ UNCHANGED <<open, edit, initial, pair, kind, settings, derivedFor, due, calls, busy, crossed,
                   steps>>

ManagedPort == IF IsExt(pair[1]) THEN "toPort" ELSE "fromPort"

EditBFD == Edit("other")
EditIPv4 == kind = "wireguard" /\ Edit("other")
EditPsk == kind = "wireguard" /\ Edit("other")
EditLinkNote == ~busy /\ Edit("other")
EditExternalPort == ExternalForm /\ Edit(ManagedPort)
EditExternalPolicy == ExternalForm /\ Edit("policy")
EditExternalNotes == ExternalForm /\ ~busy /\ Edit("other")
EditRemote == ExternalForm /\ Edit("peer")
EditManualEnd1 == Manual /\ (Edit("other") \/ (~IsExt(pair[1]) /\ Edit("policy")))
EditManualEnd2 == Manual /\ (Edit("other") \/ (~IsExt(pair[2]) /\ Edit("policy")))
EditEnd1 == Standard /\ (Edit("fromPort") \/ Edit("policy"))
EditEnd1Note == Standard /\ ~busy /\ Edit("other")
EditEnd2 == Standard /\ (Edit("toPort") \/ Edit("policy"))
EditEnd2Note == Standard /\ ~busy /\ Edit("other")

-----------------------------------------------------------------------------
(* Submitting: each kind of link sends its own fields                      *)

Submits ==
    /\ open /\ Settled /\ ~busy /\ Chosen(pair) /\ pair[1] # pair[2] /\ ~IsBothExternal(pair)
    /\ calls' = "sent" /\ busy' = TRUE
    /\ UNCHANGED <<open, edit, initial, pair, kind, settings, draft, derivedFor, due, crossed, touched,
                   steps>>
SubmitManual == kind = "manual" /\ Submits
SubmitExternal == kind = "wireguard" /\ IsExternalLink(pair) /\ Submits
SubmitStandard == kind = "wireguard" /\ ~IsExternalLink(pair) /\ Submits

(* A saved link closes the dialog, whatever it is open for, and has the    *)
(* topology loaded again, a step of its own.                               *)
Saved ==
    /\ calls = "sent" /\ Settled /\ open' = FALSE /\ calls' = "none" /\ busy' = FALSE
    /\ UNCHANGED <<edit, initial, pair, kind, settings, draft, derivedFor, due, crossed, touched, steps>>

Fails ==
    /\ calls = "sent" /\ Settled /\ calls' = "none" /\ busy' = FALSE
    /\ UNCHANGED <<open, edit, initial, pair, kind, settings, draft, derivedFor, due, crossed, touched,
                   steps>>

-----------------------------------------------------------------------------
Next ==
    \/ HandleAddLink \/ (\E a, b \in Nodes : HandleConnectNodes(a, b))
    \/ (\E l \in Links : HandleEditLink(l)) \/ Close \/ NodesLoad \/ SettingsLoad \/ RunEffects
    \/ (\E n \in Nodes : SelectFrom(n) \/ SelectTo(n)) \/ (\E k \in {"wireguard", "manual"} : ChooseType(k))
    \/ EditBFD \/ EditIPv4 \/ EditPsk \/ EditLinkNote \/ EditExternalPort \/ EditExternalPolicy
    \/ EditExternalNotes \/ EditRemote \/ EditManualEnd1 \/ EditManualEnd2
    \/ EditEnd1 \/ EditEnd1Note \/ EditEnd2 \/ EditEnd2Note
    \/ SubmitManual \/ SubmitExternal \/ SubmitStandard \/ Saved \/ Fails

Spec == Init /\ [][Next]_vars

-----------------------------------------------------------------------------
(* A port shown for a new link is one typed since, or derives from the     *)
(* pair chosen now, never from a pair chosen before; it is missing only if *)
(* the dialog opened for the pair it had, or the nodes loaded again.       *)
PortsOfPair ==
    open /\ Settled /\ edit = NoLink /\ Chosen(pair) =>
        \A p \in (IF IsExternalLink(pair) THEN {ManagedPort} ELSE Ports) \ touched :
            \/ draft[p] = Derive(draft)[p]
            \/ crossed /\ draft[p] = Blank

(* The policies of a new link are those of its kind, or typed.             *)
PolicyOfKind ==
    open /\ Settled /\ edit = NoLink /\ "policy" \notin touched => draft["policy"] = PolicyOf(pair)

(* A link that is edited is shown with its own nodes and its own values,   *)
(* but for what was typed.                                                 *)
FormOfLink ==
    open /\ Settled /\ edit # NoLink =>
        pair = edit /\ \A p \in Parts \ touched : draft[p] = OfLink(edit)

(* What disables the buttons ends with its request.                        *)
NoDeadButton == busy => calls = "sent"
=============================================================================
