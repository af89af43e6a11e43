-------------------------- MODULE WebDialogs_proofs --------------------------
(* Proofs about the dialogs and forms of the web client, whatever they are  *)
(* about and however often they are opened.  Each has an invariant of its   *)
(* own; Web_proofs puts them together.                                      *)
EXTENDS WebDialogs, FiniteSetTheorems, SequenceTheorems, TLAPS

USE BoundsAssumption

-----------------------------------------------------------------------------
(***************************************************************************)
(* SyncDialog.  Since the dialog last started over, with nothing under     *)
(* way, all it asked for is for its target: the invariant follows each     *)
(* request from the button to what is shown.                               *)
(***************************************************************************)
SyncFlags ==
    /\ Sync!NoDeadButton
    /\ \A c \in Lanes : calls[c].op # "none" => calls[c].of \in Sync!Targets
    /\ \A c \in Lanes : calls[c].afterProbe => calls[c].op = "preview"
    /\ \A c \in Lanes : calls[c].own => calls[c].op # "none"
    /\ \A c \in Lanes : calls[c].own /\ calls[c].op = "execute" => "execute" \in busy
    /\ Sync!OneSync

(* x1 is open, x2 the target, x4 what is shown, x5 crossed, x6 mounted.    *)
SyncAnswers ==
    x6 /\ x1 /\ ~x5 =>
        /\ \A c \in Lanes : calls[c].own =>
               calls[c].of = x2 /\ (calls[c].op = "preview" /\ calls[c].at = "done" => calls[c].plan.of = x2)
        /\ x4.results \in {"none", x2}
        /\ "preview" \in busy \/ x4.error \/ x4.plan.of = x2

SyncInv == Sync!TypeOK /\ SyncFlags /\ SyncAnswers


LEMMA SyncInit == ASSUME Sync!Init PROVE SyncInv
<1>1. Sync!TypeOK
    <2>1. Sync!NoPlan \in Sync!Plans
        BY DEF Sync!NoPlan, Sync!Plans, Sync!None
    <2>2. Sync!NoCall \in Sync!Requests
        BY <2>1 DEF Sync!NoCall, Sync!Requests, Sync!None
    <2>3. x4 \in Sync!Shown
        BY <2>1 DEF Sync!Init, Sync!Blank, Sync!Shown, Sync!None
    <2>4. calls \in [Lanes -> Sync!Requests]
        BY <2>2 DEF Sync!Init
    <2>5. x2 \in Sync!Targets
        BY DEF Sync!Init, Sync!Targets
    <2>6. steps \in 0..MaxSteps
        BY DEF Sync!Init
    <2>7. x1 \in BOOLEAN /\ x5 \in BOOLEAN /\ x6 \in BOOLEAN
        BY DEF Sync!Init
    <2>8. x3 \subseteq Nodes /\ busy \subseteq {"preview", "probe", "execute"}
        BY DEF Sync!Init
    <2>9. QED
        BY <2>3, <2>4, <2>5, <2>6, <2>7, <2>8 DEF Sync!TypeOK
<1>2. SyncFlags
    BY DEF Sync!Init, SyncFlags, Sync!OneSync, Sync!Own, Sync!NoDeadButton, Sync!NoCall, Sync!None
<1>3. SyncAnswers
    BY DEF Sync!Init, SyncAnswers
<1>4. QED
    BY <1>1, <1>2, <1>3 DEF SyncInv

LEMMA SyncRequestTyped ==
    ASSUME Sync!TypeOK, NEW c \in Lanes
    PROVE  /\ calls[c] \in Sync!Requests
           /\ calls[c].of \in Sync!Targets \cup {"none"} /\ calls[c].plan \in Sync!Plans
           /\ calls[c].failed \in SUBSET Nodes /\ calls[c].afterProbe \in BOOLEAN /\ calls[c].own \in BOOLEAN
           /\ calls[c].op \in {"none", "preview", "probe", "execute"}
           /\ calls[c].at \in {"none", "sent", "done"}
BY DEF Sync!TypeOK, Sync!Requests, Sync!None

LEMMA SyncSentTyped ==
    ASSUME NEW op \in {"preview", "probe", "execute"}, NEW of \in Sync!Targets
    PROVE  /\ Sync!Sent(op, of) \in Sync!Requests
           /\ Sync!Sent(op, of).op = op /\ Sync!Sent(op, of).of = of
           /\ Sync!Sent(op, of).at = "sent" /\ ~Sync!Sent(op, of).afterProbe /\ Sync!Sent(op, of).own
<1>1. Sync!NoPlan \in Sync!Plans
    BY DEF Sync!NoPlan, Sync!Plans, Sync!None
<1>2. QED
    BY <1>1 DEF Sync!Sent, Sync!NoCall, Sync!Requests, Sync!None

(* A request that was the dialog's, after the dialog is gone.              *)
LEMMA SyncDisowned ==
    ASSUME NEW r \in Sync!Requests, NEW q, q = [r EXCEPT !.own = FALSE]
    PROVE  /\ q \in Sync!Requests /\ ~q.own /\ q.op = r.op /\ q.of = r.of
           /\ q.afterProbe = r.afterProbe
BY DEF Sync!Requests

(* A request takes the place of one that has ended.                        *)
LEMMA SyncSends ==
    ASSUME SyncInv, NEW op \in {"preview", "probe", "execute"}, NEW of \in Sync!Targets,
           NEW c \in Lanes \ Sync!UnderWay, calls' = [calls EXCEPT ![c] = Sync!Sent(op, of)],
           busy' = busy \cup {op}, op = "execute" => "execute" \notin busy
    PROVE  /\ calls' \in [Lanes -> Sync!Requests]
           /\ busy' \subseteq {"preview", "probe", "execute"}
           /\ SyncFlags'
<1>1. Sync!TypeOK /\ SyncFlags /\ c \in Lanes /\ calls[c].op = "none"
    BY DEF SyncInv, Sync!UnderWay, Sync!None
<1>2. calls \in [Lanes -> Sync!Requests] /\ busy \subseteq {"preview", "probe", "execute"}
    BY <1>1 DEF Sync!TypeOK
<1>3. calls' \in [Lanes -> Sync!Requests] /\ busy' \subseteq {"preview", "probe", "execute"}
    BY <1>2, SyncSentTyped
<1>4. /\ calls'[c].op = op /\ ~calls'[c].afterProbe /\ calls'[c].of \in Sync!Targets /\ calls'[c].own
      /\ \A d \in Lanes \ {c} : calls'[d] = calls[d]
      /\ ~calls[c].afterProbe /\ ~calls[c].own
    BY <1>1, <1>2, SyncSentTyped DEF SyncFlags
<1>5. SyncFlags'
    BY <1>1, <1>4 DEF SyncFlags, Sync!OneSync, Sync!Own, Sync!NoDeadButton
<1>6. QED
    BY <1>3, <1>5

(* What ends with a request is what it had disabled, if it was the dialog's. *)
LEMMA SyncEnds ==
    ASSUME SyncInv, NEW c \in Lanes, calls[c].op # "none",
           calls' = [calls EXCEPT ![c] = Sync!NoCall],
           busy' = IF ~calls[c].own THEN busy
                   ELSE busy \ ({calls[c].op} \cup IF calls[c].afterProbe THEN {"probe"} ELSE {})
    PROVE  /\ calls' \in [Lanes -> Sync!Requests]
           /\ busy' \subseteq {"preview", "probe", "execute"}
           /\ \A d \in Lanes : calls'[d].own => d # c /\ calls'[d] = calls[d]
           /\ SyncFlags'
<1>1. Sync!NoCall \in Sync!Requests /\ Sync!NoCall.op = "none" /\ ~Sync!NoCall.afterProbe /\ ~Sync!NoCall.own
    <2>1. Sync!NoPlan \in Sync!Plans
        BY DEF Sync!NoPlan, Sync!Plans, Sync!None
    <2>2. QED
        BY <2>1 DEF Sync!NoCall, Sync!Requests, Sync!None
<1>2. calls \in [Lanes -> Sync!Requests] /\ busy \subseteq {"preview", "probe", "execute"}
    BY DEF SyncInv, Sync!TypeOK
<1>3. /\ calls' \in [Lanes -> Sync!Requests]
      /\ busy' \subseteq {"preview", "probe", "execute"}
      /\ calls'[c].op = "none" /\ ~calls'[c].afterProbe /\ ~calls'[c].own
      /\ \A d \in Lanes \ {c} : calls'[d] = calls[d]
    BY <1>1, <1>2
<1>4. Sync!NoDeadButton'
    <2>1. ASSUME "preview" \in busy' PROVE \E d \in Lanes : calls'[d].own /\ calls'[d].op = "preview"
        <3>1. "preview" \in busy /\ ~(calls[c].own /\ calls[c].op = "preview")
            BY <2>1
        <3>2. PICK d \in Lanes : calls[d].own /\ calls[d].op = "preview"
            BY <3>1 DEF SyncInv, SyncFlags, Sync!NoDeadButton, Sync!Own
        <3>3. QED
            BY <1>3, <3>1, <3>2
    <2>2. ASSUME "execute" \in busy' PROVE \E d \in Lanes : calls'[d].own /\ calls'[d].op = "execute"
        <3>1. "execute" \in busy /\ ~(calls[c].own /\ calls[c].op = "execute")
            BY <2>2
        <3>2. PICK d \in Lanes : calls[d].own /\ calls[d].op = "execute"
            BY <3>1 DEF SyncInv, SyncFlags, Sync!NoDeadButton, Sync!Own
        <3>3. QED
            BY <1>3, <3>1, <3>2
    <2>3. ASSUME "probe" \in busy'
          PROVE  \E d \in Lanes : calls'[d].own /\ (calls'[d].op = "probe" \/ calls'[d].afterProbe)
        <3>1. "probe" \in busy /\ ~(calls[c].own /\ (calls[c].op = "probe" \/ calls[c].afterProbe))
            BY <2>3
        <3>2. PICK d \in Lanes : calls[d].own /\ (calls[d].op = "probe" \/ calls[d].afterProbe)
            BY <3>1 DEF SyncInv, SyncFlags, Sync!NoDeadButton, Sync!Own
        <3>3. QED
            BY <1>3, <3>1, <3>2
    <2>4. QED
        BY <2>1, <2>2, <2>3 DEF Sync!NoDeadButton, Sync!Own
<1>5. \A d \in Lanes : calls'[d].own /\ calls'[d].op = "execute" => "execute" \in busy'
    <2> SUFFICES ASSUME NEW d \in Lanes, calls'[d].own, calls'[d].op = "execute" PROVE "execute" \in busy'
        OBVIOUS
    <2>1. calls[d].own /\ calls[d].op = "execute" /\ d # c
        BY <1>3
    <2>2. "execute" \in busy /\ ~(calls[c].own /\ calls[c].op = "execute")
        BY <2>1 DEF SyncInv, SyncFlags, Sync!OneSync, Sync!Own
    <2>3. QED
        BY <2>2
<1>6. QED
    <2>1. SyncFlags'
        BY <1>3, <1>4, <1>5 DEF SyncInv, SyncFlags, Sync!OneSync, Sync!Own
    <2>2. QED
        BY <1>3, <2>1

(* The dialog starts over: with nothing under way, all is of its target.   *)
LEMMA SyncStartsOver ==
    ASSUME SyncInv, x2' \in Sync!Targets, Sync!StartsOver
    PROVE  /\ calls' \in [Lanes -> Sync!Requests] /\ x4' \in Sync!Shown
           /\ busy' \subseteq {"preview", "probe", "execute"} /\ x5' \in BOOLEAN
           /\ SyncFlags' /\ SyncAnswers'
<1>1. PICK c \in Lanes \ Sync!UnderWay : calls' = [calls EXCEPT ![c] = Sync!Sent("preview", x2')]
    BY DEF Sync!StartsOver
<1>2. /\ busy' = busy \cup {"preview"}
      /\ x5' = (Sync!Own # {})
      /\ x4' = [x4 EXCEPT !.results = Sync!None, !.failed = {}, !.error = FALSE]
    BY DEF Sync!StartsOver
<1>3. /\ calls' \in [Lanes -> Sync!Requests]
      /\ busy' \subseteq {"preview", "probe", "execute"}
      /\ SyncFlags'
    BY <1>1, <1>2, SyncSends
<1>4. x4' \in Sync!Shown /\ x4'.results = "none"
    BY <1>2 DEF SyncInv, Sync!TypeOK, Sync!Shown, Sync!None
<1>5. SyncAnswers'
    <2> SUFFICES ASSUME ~x5'
                 PROVE  \A d \in Lanes : calls'[d].own =>
                            calls'[d].of = x2' /\ calls'[d].at = "sent"
        BY <1>2, <1>4 DEF SyncAnswers
    <2>1. Sync!Own = {}
        BY <1>2
    <2>2. calls \in [Lanes -> Sync!Requests]
        BY DEF SyncInv, Sync!TypeOK
    <2>3. \A d \in Lanes \ {c} : ~calls'[d].own
        BY <1>1, <2>1, <2>2 DEF Sync!Own
    <2>4. calls'[c].of = x2' /\ calls'[c].at = "sent"
        BY <1>1, <2>2, SyncSentTyped
    <2>5. QED
        BY <2>3, <2>4
<1>6. QED
    BY <1>2, <1>3, <1>4, <1>5
LEMMA SyncStep ==
    ASSUME SyncInv, Sync!Next \/ UNCHANGED Sync!vars
    PROVE  SyncInv'
<1> USE DEF SyncInv
<1>1. /\ calls \in [Lanes -> Sync!Requests] /\ x4 \in Sync!Shown
      /\ busy \subseteq {"preview", "probe", "execute"} /\ x1 \in BOOLEAN /\ x5 \in BOOLEAN /\ x6 \in BOOLEAN
      /\ x2 \in Sync!Targets /\ x3 \subseteq Nodes /\ steps \in 0..MaxSteps
    BY DEF Sync!TypeOK
<1>2. ASSUME Sync!Step PROVE steps' \in 0..MaxSteps
    BY <1>1, <1>2 DEF Sync!Step
<1>3. ASSUME NEW t \in Sync!Targets, Sync!OpenSyncModal(t) PROVE SyncInv'
    <2>1. x1' = TRUE /\ x2' = t /\ x3' = x3 /\ x6' = x6 /\ Sync!StartsOver /\ Sync!Step
        BY <1>3 DEF Sync!OpenSyncModal
    <2>2. QED
        BY <1>1, <1>2, <2>1, SyncStartsOver DEF Sync!TypeOK
<1>4. CASE Sync!CloseSyncModal
    <2>1. x1' = FALSE /\ x2' = "all" /\ UNCHANGED <<x3, x4, calls, busy, x5, x6, steps>>
        BY <1>4 DEF Sync!CloseSyncModal
    <2>2. x2' \in Sync!Targets
        BY <2>1 DEF Sync!Targets
    <2>3. SyncFlags' /\ SyncAnswers'
        BY <2>1 DEF SyncFlags, SyncAnswers, Sync!OneSync, Sync!Own, Sync!NoDeadButton
    <2>4. QED
        BY <1>1, <2>1, <2>2, <2>3 DEF Sync!TypeOK
<1>5. CASE Sync!VaultTurns
    <2>1. UNCHANGED <<x1, x2, x3, x6>> /\ Sync!Step
        BY <1>5 DEF Sync!VaultTurns
    <2>2. CASE x6 /\ x1
        <3>1. Sync!StartsOver
            BY <1>5, <2>2 DEF Sync!VaultTurns
        <3>2. QED
            BY <1>1, <1>2, <2>1, <3>1, SyncStartsOver DEF Sync!TypeOK
    <2>3. CASE ~(x6 /\ x1)
        <3>1. UNCHANGED <<x4, calls, busy, x5>>
            BY <1>5, <2>3 DEF Sync!VaultTurns
        <3>2. SyncFlags' /\ SyncAnswers'
            BY <2>1, <3>1 DEF SyncFlags, SyncAnswers, Sync!OneSync, Sync!Own, Sync!NoDeadButton
        <3>3. QED
            BY <1>1, <1>2, <2>1, <3>1, <3>2 DEF Sync!TypeOK
    <2>4. QED
        BY <2>2, <2>3
<1>6. ASSUME NEW n \in Nodes, Sync!ConfigChanges(n) PROVE SyncInv'
    <2>1. UNCHANGED <<x1, x2, x4, calls, busy, x5, x6>> /\ x3' = x3 \cup {n} /\ Sync!Step
        BY <1>6 DEF Sync!ConfigChanges
    <2>2. SyncFlags' /\ SyncAnswers'
        BY <2>1 DEF SyncFlags, SyncAnswers, Sync!OneSync, Sync!Own, Sync!NoDeadButton
    <2>3. QED
        BY <1>1, <1>2, <2>1, <2>2 DEF Sync!TypeOK
<1>7. ASSUME NEW op \in {"probe", "execute"}, Sync!Press(op), UNCHANGED x4 PROVE SyncInv'
    <2>1. PICK c \in Lanes \ Sync!UnderWay : calls' = [calls EXCEPT ![c] = Sync!Sent(op, x2)]
        BY <1>7 DEF Sync!Press
    <2>2. /\ busy' = busy \cup {op} /\ busy \cap {"probe", "execute"} = {}
          /\ UNCHANGED <<x1, x2, x3, x5, x6, steps>>
        BY <1>7 DEF Sync!Press
    <2>3. /\ calls' \in [Lanes -> Sync!Requests]
          /\ busy' \subseteq {"preview", "probe", "execute"}
          /\ SyncFlags'
        BY <1>1, <2>1, <2>2, SyncSends
    <2>4. SyncAnswers'
        <3>1. calls'[c].of = x2 /\ calls'[c].at = "sent"
            BY <1>1, <2>1, SyncSentTyped
        <3>2. \A d \in Lanes \ {c} : calls'[d] = calls[d]
            BY <1>1, <2>1
        <3>3. QED
            BY <1>7, <2>2, <3>1, <3>2 DEF SyncAnswers
    <2>5. QED
        BY <1>1, <1>7, <2>2, <2>3, <2>4 DEF Sync!TypeOK
<1>8. ASSUME NEW c \in Lanes, Sync!ServerPlans(c) PROVE SyncInv'
    <2> DEFINE plan == [of |-> calls[c].of, actions |-> Sync!Scope(calls[c].of),
                        pending |-> Sync!Scope(calls[c].of) \cap x3]
    <2>1. /\ calls[c].op = "preview"
          /\ calls' = [calls EXCEPT ![c].at = "done", ![c].plan = plan]
          /\ UNCHANGED <<x1, x2, x3, x4, busy, x5, x6, steps>>
        BY <1>8 DEF Sync!ServerPlans
    <2>2. calls[c].of \in Sync!Targets /\ Sync!Scope(calls[c].of) \subseteq Nodes
        BY <2>1 DEF SyncFlags, Sync!Scope, Sync!Targets
    <2>3. plan \in Sync!Plans /\ plan.of = calls[c].of
        BY <2>2 DEF Sync!Plans
    <2>4. calls' = [calls EXCEPT ![c] = [calls[c] EXCEPT !.at = "done", !.plan = plan]]
        BY <1>1, <2>1
    <2>5. /\ calls'[c] \in Sync!Requests
          /\ calls'[c].op = calls[c].op /\ calls'[c].of = calls[c].of
          /\ calls'[c].plan.of = calls[c].of /\ calls'[c].afterProbe = calls[c].afterProbe
          /\ calls'[c].own = calls[c].own
          /\ \A d \in Lanes \ {c} : calls'[d] = calls[d]
        BY <1>1, <2>1, <2>3, <2>4 DEF Sync!Requests
    <2>6. calls' \in [Lanes -> Sync!Requests]
        BY <1>1, <2>4, <2>5
    <2>7. \A d \in Lanes : /\ calls'[d].op = calls[d].op /\ calls'[d].of = calls[d].of
                           /\ calls'[d].afterProbe = calls[d].afterProbe /\ calls'[d].own = calls[d].own
                           /\ calls'[d] = calls[d] \/ calls'[d].plan.of = calls[d].of
        BY <2>5
    <2>8. UNCHANGED <<x1, x2, x4, busy, x5, x6>>
        BY <2>1
    <2> HIDE DEF plan
    <2>9. SyncFlags' /\ SyncAnswers'
        <3>1. SyncFlags'
            BY <2>7, <2>8 DEF SyncFlags, Sync!OneSync, Sync!Own, Sync!NoDeadButton
        <3>2. SyncAnswers'
            BY <2>7, <2>8 DEF SyncAnswers
        <3>3. QED
            BY <3>1, <3>2
    <2>10. QED
        BY <1>1, <2>1, <2>6, <2>9 DEF Sync!TypeOK
<1>9. ASSUME NEW c \in Lanes, NEW failed \in SUBSET Nodes,
             Sync!ServerProbes(c) \/ Sync!ServerSyncs(c, failed)
      PROVE  SyncInv'
    <2>1. /\ calls[c].op \in {"probe", "execute"}
          /\ \E lost \in SUBSET Nodes :
                calls' = [calls EXCEPT ![c] = [calls[c] EXCEPT !.at = "done", !.failed = lost]]
          /\ x3' \subseteq Nodes
          /\ UNCHANGED <<x1, x2, x4, busy, x5, x6, steps>>
        <3>1. calls[c] = [calls[c] EXCEPT !.failed = calls[c].failed]
            BY <1>1 DEF Sync!Requests
        <3>2. CASE Sync!ServerProbes(c)
            <4>1. calls' = [calls EXCEPT ![c] = [calls[c] EXCEPT !.at = "done",
                                                                 !.failed = calls[c].failed]]
                BY <1>1, <3>2 DEF Sync!ServerProbes, Sync!Requests
            <4>2. QED
                BY <1>1, <3>2, <4>1, SyncRequestTyped DEF Sync!ServerProbes
        <3>3. CASE Sync!ServerSyncs(c, failed)
            BY <1>1, <3>3 DEF Sync!ServerSyncs
        <3>4. QED
            BY <1>9, <3>2, <3>3
    <2>2. PICK lost \in SUBSET Nodes :
                calls' = [calls EXCEPT ![c] = [calls[c] EXCEPT !.at = "done", !.failed = lost]]
        BY <2>1
    <2>3. calls' \in [Lanes -> Sync!Requests]
        <3>1. [calls[c] EXCEPT !.at = "done", !.failed = lost] \in Sync!Requests
            BY <1>1 DEF Sync!Requests
        <3>2. QED
            BY <1>1, <2>2, <3>1
    <2>4. SyncFlags' /\ SyncAnswers'
        <3>1. \A d \in Lanes : /\ calls'[d].op = calls[d].op /\ calls'[d].of = calls[d].of
                               /\ calls'[d].afterProbe = calls[d].afterProbe /\ calls'[d].own = calls[d].own
                               /\ calls[d].op = "preview" => calls'[d] = calls[d]
            BY <1>1, <2>1, <2>2 DEF Sync!Requests
        <3>2. SyncFlags'
            BY <2>1, <3>1 DEF SyncFlags, Sync!OneSync, Sync!Own, Sync!NoDeadButton
        <3>3. SyncAnswers'
            BY <2>1, <3>1 DEF SyncAnswers
        <3>4. QED
            BY <3>2, <3>3
    <2>5. QED
        BY <1>1, <2>1, <2>3, <2>4 DEF Sync!TypeOK
<1>11. ASSUME NEW c \in Lanes, Sync!PreviewArrives(c) PROVE SyncInv'
    <2>1. /\ calls[c].own /\ calls[c].op = "preview" /\ calls[c].at = "done"
          /\ x4' = [x4 EXCEPT !.plan = calls[c].plan, !.error = FALSE]
          /\ busy' = busy \ ({"preview"} \cup IF calls[c].afterProbe THEN {"probe"} ELSE {})
          /\ calls' = [calls EXCEPT ![c] = Sync!NoCall]
          /\ UNCHANGED <<x1, x2, x3, x5, x6, steps>>
        BY <1>11 DEF Sync!PreviewArrives
    <2>2. x4' \in Sync!Shown /\ x4'.plan = calls[c].plan /\ x4'.results = x4.results
        BY <1>1, <2>1, SyncRequestTyped DEF Sync!Shown
    <2>3. /\ calls' \in [Lanes -> Sync!Requests]
          /\ busy' \subseteq {"preview", "probe", "execute"}
          /\ \A d \in Lanes : calls'[d].own => d # c /\ calls'[d] = calls[d]
          /\ SyncFlags'
        BY <2>1, SyncEnds DEF SyncFlags
    <2>4. SyncAnswers'
        BY <2>1, <2>2, <2>3 DEF SyncAnswers
    <2>5. QED
        BY <1>1, <2>1, <2>2, <2>3, <2>4 DEF Sync!TypeOK
<1>12. ASSUME NEW c \in Lanes, Sync!ProbeArrives(c) PROVE SyncInv'
    <2> DEFINE again == [Sync!Sent("preview", calls[c].of) EXCEPT !.afterProbe = TRUE]
    <2>1. /\ calls[c].own /\ calls[c].op = "probe"
          /\ calls' = [calls EXCEPT ![c] = again]
          /\ busy' = busy \cup {"preview"} /\ x4' = [x4 EXCEPT !.error = FALSE]
          /\ UNCHANGED <<x1, x2, x3, x5, x6, steps>>
        BY <1>12 DEF Sync!ProbeArrives
    <2>2. calls[c].of \in Sync!Targets
        BY <2>1 DEF SyncFlags
    <2>3. /\ again \in Sync!Requests
          /\ again.op = "preview" /\ again.of = calls[c].of
          /\ again.at = "sent" /\ again.afterProbe /\ again.own
        <3>1. Sync!Sent("preview", calls[c].of) \in Sync!Requests
            BY <2>2, SyncSentTyped
        <3>2. /\ Sync!Sent("preview", calls[c].of).op = "preview"
              /\ Sync!Sent("preview", calls[c].of).of = calls[c].of
              /\ Sync!Sent("preview", calls[c].of).at = "sent" /\ Sync!Sent("preview", calls[c].of).own
            BY <2>2, SyncSentTyped
        <3>3. QED
            BY <3>1, <3>2 DEF Sync!Requests
    <2> HIDE DEF again
    <2>4. /\ calls' \in [Lanes -> Sync!Requests]
          /\ calls'[c] = again /\ \A d \in Lanes \ {c} : calls'[d] = calls[d]
        BY <1>1, <2>1, <2>3
    <2>5. x4' \in Sync!Shown /\ x4'.plan = x4.plan /\ x4'.results = x4.results
        BY <1>1, <2>1 DEF Sync!Shown
    <2>6. SyncFlags'
        BY <2>1, <2>2, <2>3, <2>4 DEF SyncFlags, Sync!OneSync, Sync!Own, Sync!NoDeadButton
    <2>7. SyncAnswers'
        BY <2>1, <2>3, <2>4, <2>5 DEF SyncAnswers
    <2>8. QED
        BY <1>1, <2>1, <2>4, <2>5, <2>6, <2>7 DEF Sync!TypeOK
<1>13. ASSUME NEW c \in Lanes, Sync!SyncArrives(c) PROVE SyncInv'
    <2>1. /\ calls[c].own /\ calls[c].op = "execute"
          /\ x4' = [x4 EXCEPT !.results = calls[c].of, !.failed = calls[c].failed]
          /\ busy' = busy \ {"execute"} /\ calls' = [calls EXCEPT ![c] = Sync!NoCall]
          /\ UNCHANGED <<x1, x2, x3, x5, x6, steps>>
        BY <1>13 DEF Sync!SyncArrives
    <2>2. /\ x4' \in Sync!Shown /\ x4'.results = calls[c].of
          /\ x4'.plan = x4.plan /\ x4'.error = x4.error
        BY <1>1, <2>1, SyncRequestTyped DEF Sync!Shown, Sync!None
    <2>3. /\ calls' \in [Lanes -> Sync!Requests]
          /\ busy' \subseteq {"preview", "probe", "execute"}
          /\ \A d \in Lanes : calls'[d].own => d # c /\ calls'[d] = calls[d]
          /\ SyncFlags'
        BY <2>1, SyncEnds DEF SyncFlags
    <2>4. SyncAnswers'
        BY <2>1, <2>2, <2>3 DEF SyncAnswers
    <2>5. QED
        BY <1>1, <2>1, <2>2, <2>3, <2>4 DEF Sync!TypeOK
<1>14. ASSUME NEW c \in Lanes, Sync!Fails(c) PROVE SyncInv'
    <2>1. /\ calls[c].op # "none"
          /\ x4' = [x4 EXCEPT !.error = @ \/ (calls[c].own /\ calls[c].op = "preview")]
          /\ busy' = IF ~calls[c].own THEN busy
                     ELSE busy \ ({calls[c].op} \cup IF calls[c].afterProbe THEN {"probe"} ELSE {})
          /\ calls' = [calls EXCEPT ![c] = Sync!NoCall]
          /\ UNCHANGED <<x1, x2, x3, x5, x6, steps>>
        BY <1>14 DEF Sync!Fails, Sync!None
    <2>2. /\ x4' \in Sync!Shown /\ x4'.results = x4.results /\ x4'.plan = x4.plan
          /\ x4'.error <=> x4.error \/ (calls[c].own /\ calls[c].op = "preview")
        BY <1>1, <2>1 DEF Sync!Shown
    <2>3. /\ calls' \in [Lanes -> Sync!Requests]
          /\ busy' \subseteq {"preview", "probe", "execute"}
          /\ \A d \in Lanes : calls'[d].own => d # c /\ calls'[d] = calls[d]
          /\ SyncFlags'
        BY <2>1, SyncEnds DEF SyncFlags
    <2>4. SyncAnswers'
        BY <2>1, <2>2, <2>3 DEF SyncAnswers
    <2>5. QED
        BY <1>1, <2>1, <2>2, <2>3, <2>4 DEF Sync!TypeOK
<1>15. CASE UNCHANGED Sync!vars
    BY <1>1, <1>15 DEF Sync!vars, Sync!TypeOK, SyncFlags, SyncAnswers, Sync!OneSync, Sync!Own, Sync!NoDeadButton
<1>17. CASE Sync!HandleLogout
    <2>1. /\ x6' = FALSE /\ x4' = Sync!Blank /\ busy' = {} /\ UNCHANGED <<x1, x2, x3, x5, steps>>
          /\ calls' = [c \in Lanes |-> [calls[c] EXCEPT !.own = FALSE]]
        BY <1>17 DEF Sync!HandleLogout
    <2>2. \A c \in Lanes : /\ calls'[c] \in Sync!Requests /\ ~calls'[c].own
                           /\ calls'[c].op = calls[c].op /\ calls'[c].of = calls[c].of
                           /\ calls'[c].afterProbe = calls[c].afterProbe
        <3> SUFFICES ASSUME NEW c \in Lanes
                     PROVE  /\ calls'[c] \in Sync!Requests /\ ~calls'[c].own
                            /\ calls'[c].op = calls[c].op /\ calls'[c].of = calls[c].of
                            /\ calls'[c].afterProbe = calls[c].afterProbe
            OBVIOUS
        <3>1. calls[c] \in Sync!Requests /\ calls'[c] = [calls[c] EXCEPT !.own = FALSE]
            BY <1>1, <2>1
        <3>2. QED
            BY <3>1, SyncDisowned
    <2>3. calls' \in [Lanes -> Sync!Requests]
        BY <2>1, <2>2
    <2>4. x4' \in Sync!Shown
        <3>1. Sync!NoPlan \in Sync!Plans
            BY DEF Sync!NoPlan, Sync!Plans, Sync!None
        <3>2. QED
            BY <2>1, <3>1 DEF Sync!Blank, Sync!Shown, Sync!None
    <2>5. SyncFlags'
        <3>1. Sync!NoDeadButton'
            BY <2>1 DEF Sync!NoDeadButton
        <3>2. Sync!OneSync'
            BY <2>2 DEF Sync!OneSync, Sync!Own
        <3>3. QED
            BY <2>2, <3>1, <3>2 DEF SyncFlags
    <2>6. SyncAnswers'
        BY <2>1 DEF SyncAnswers
    <2>7. QED
        BY <1>1, <2>1, <2>3, <2>4, <2>5, <2>6 DEF Sync!TypeOK
<1>18. CASE Sync!OnLoginSuccess
    <2>1. ~x6 /\ x6' = TRUE /\ UNCHANGED <<x1, x2, x3>> /\ Sync!Step
        BY <1>18 DEF Sync!OnLoginSuccess
    <2>2. CASE x1
        <3>1. Sync!StartsOver
            BY <1>18, <2>2 DEF Sync!OnLoginSuccess
        <3>2. QED
            BY <1>1, <1>2, <2>1, <3>1, SyncStartsOver DEF Sync!TypeOK
    <2>3. CASE ~x1
        <3>1. UNCHANGED <<x4, calls, busy, x5>>
            BY <1>18, <2>3 DEF Sync!OnLoginSuccess
        <3>2. SyncFlags' /\ SyncAnswers'
            BY <2>1, <2>3, <3>1 DEF SyncFlags, SyncAnswers, Sync!OneSync, Sync!Own, Sync!NoDeadButton
        <3>3. QED
            BY <1>1, <1>2, <2>1, <3>1, <3>2 DEF Sync!TypeOK
    <2>4. QED
        BY <2>2, <2>3
(* A request of nobody's takes the place of one, or follows it.            *)
<1>19. ASSUME NEW c \in Lanes, ~calls[c].own, NEW r \in Sync!Requests, ~r.own, r.op = "none" \/ r.of \in Sync!Targets,
              ~r.afterProbe, calls' = [calls EXCEPT ![c] = r], UNCHANGED <<x1, x2, x3, x4, busy, x5, x6>>,
              steps' \in 0..MaxSteps
       PROVE  SyncInv'
    <2>1. calls' \in [Lanes -> Sync!Requests]
        BY <1>1, <1>19
    <2>2. calls'[c] = r /\ \A d \in Lanes \ {c} : calls'[d] = calls[d]
        BY <1>1, <1>19
    <2>3. Sync!NoDeadButton'
        BY <1>19, <2>2 DEF SyncFlags, Sync!NoDeadButton, Sync!Own
    <2>4. SyncFlags'
        BY <1>19, <2>2, <2>3 DEF SyncFlags, Sync!OneSync, Sync!Own
    <2>5. SyncAnswers'
        BY <1>19, <2>2 DEF SyncAnswers
    <2>6. QED
        BY <1>1, <1>19, <2>1, <2>4, <2>5 DEF Sync!TypeOK
<1>20. ASSUME NEW t \in Sync!Targets, Sync!BackgroundSync(t) PROVE SyncInv'
    <2>1. Sync!Step /\ UNCHANGED <<x1, x2, x3, x4, busy, x5, x6>>
        BY <1>20 DEF Sync!BackgroundSync
    <2>2. PICK c \in Lanes \ Sync!UnderWay :
              calls' = [calls EXCEPT ![c] = [Sync!Sent("execute", t) EXCEPT !.own = FALSE]]
        BY <1>20 DEF Sync!BackgroundSync
    <2>3. PICK r : r = [Sync!Sent("execute", t) EXCEPT !.own = FALSE]
        OBVIOUS
    <2>4. r \in Sync!Requests /\ ~r.own /\ r.of = t /\ ~r.afterProbe
        <3>1. PICK q : q = Sync!Sent("execute", t)
            OBVIOUS
        <3>2. q \in Sync!Requests /\ q.of = t /\ ~q.afterProbe
            BY <3>1, SyncSentTyped
        <3>3. QED
            BY <2>3, <3>1, <3>2, SyncDisowned
    <2>5. ~calls[c].own
        BY DEF Sync!UnderWay, Sync!None, SyncFlags
    <2>6. QED
        BY <1>2, <1>19, <2>1, <2>2, <2>3, <2>4, <2>5
<1>21. ASSUME NEW c \in Lanes, Sync!Unheard(c) PROVE SyncInv'
    <2>1. /\ calls[c].op # "none" /\ ~calls[c].own
          /\ UNCHANGED <<x1, x2, x3, x4, busy, x5, x6, steps>>
        BY <1>21 DEF Sync!Unheard, Sync!None
    <2>2. CASE calls[c].op = "probe"
        <3>1. calls' = [calls EXCEPT ![c] = [Sync!Sent("preview", calls[c].of) EXCEPT !.own = FALSE]]
            BY <1>21, <2>2 DEF Sync!Unheard
        <3>2. PICK r : r = [Sync!Sent("preview", calls[c].of) EXCEPT !.own = FALSE]
            OBVIOUS
        <3>3. calls[c].of \in Sync!Targets
            BY <2>1 DEF SyncFlags
        <3>4. r \in Sync!Requests /\ ~r.own /\ r.of = calls[c].of /\ ~r.afterProbe
            <4>1. PICK q : q = Sync!Sent("preview", calls[c].of)
                OBVIOUS
            <4>2. q \in Sync!Requests /\ q.of = calls[c].of /\ ~q.afterProbe
                BY <3>3, <4>1, SyncSentTyped
            <4>3. QED
                BY <3>2, <4>1, <4>2, SyncDisowned
        <3>5. QED
            BY <1>1, <1>19, <2>1, <3>1, <3>2, <3>3, <3>4
    <2>3. CASE calls[c].op # "probe"
        <3>1. calls' = [calls EXCEPT ![c] = Sync!NoCall]
            BY <1>21, <2>3 DEF Sync!Unheard
        <3>2. PICK r : r = Sync!NoCall
            OBVIOUS
        <3>3. r \in Sync!Requests /\ ~r.own /\ r.op = "none" /\ ~r.afterProbe
            <4>1. Sync!NoPlan \in Sync!Plans
                BY DEF Sync!NoPlan, Sync!Plans, Sync!None
            <4>2. QED
                BY <3>2, <4>1 DEF Sync!NoCall, Sync!Requests, Sync!None
        <3>4. QED
            BY <1>1, <1>19, <2>1, <3>1, <3>2, <3>3
    <2>4. QED
        BY <2>2, <2>3
<1>16. QED
    <2>1. ASSUME Sync!HandleUpdateLiveState \/ Sync!ApplyChanges \/ Sync!ForceApply PROVE SyncInv'
        BY <1>7, <2>1 DEF Sync!HandleUpdateLiveState, Sync!ApplyChanges, Sync!ForceApply,
                          Sync!HandleExecuteSync
    <2>2. QED
        BY <1>3, <1>4, <1>5, <1>6, <1>8, <1>9, <1>11, <1>12, <1>13, <1>14, <1>15, <1>17, <1>18, <1>20,
           <1>21, <2>1
           DEF Sync!Next

(* From the invariant to what is stated of the dialog.                     *)
LEMMA SyncShows ==
    ASSUME SyncInv
    PROVE  Sync!TypeOK /\ Sync!NoDeadButton /\ Sync!OneSync /\ Sync!ShowsTarget
<1>1. Sync!OneSync
    BY DEF SyncInv, SyncFlags
<1>2. Sync!ShowsTarget
    BY DEF SyncInv, SyncAnswers, Sync!ShowsTarget, Sync!View, Sync!None
<1>3. QED
    BY <1>1, <1>2 DEF SyncInv, SyncFlags
-----------------------------------------------------------------------------
(***************************************************************************)
(* McpTokens.  x1 is the server, x2 the newest token, x3 what is shown, x4 *)
(* the token selected, x5 the dialog, x6 its target, x7 what crossed       *)
(* requests touched, and whether an answer was lost.                       *)
(***************************************************************************)
TokensFlags ==
    /\ Tokens!NoDeadButton
    /\ \A c \in Lanes : calls[c].op # "none" => calls[c].op \in busy
    /\ \A c \in Lanes : calls[c].op = "none" <=> calls[c].at = "none"
    /\ \A c \in Lanes : calls[c].at = "read" => calls[c].op = "toggle"
    /\ \A c, d \in Lanes : calls[c].op # "none" /\ calls[c].op = calls[d].op => c = d
    /\ ~("load" \in busy /\ "toggle" \in busy)

TokensCounted ==
    /\ \A k \in Tokens!Kinds : x2[k] <= steps + 1
    /\ \A c \in Lanes : calls[c].op = "reset" /\ calls[c].at = "sent" =>
           \A k \in Tokens!Kinds : x2[k] <= steps

TokensNewest ==
    "server" \notin x7 =>
        /\ x1.token = x2
        /\ ~("toggle" \in busy /\ "reset" \in busy)
        /\ \A c \in Lanes : calls[c].at = "read" => calls[c].settings.token = x2

TokensShown ==
    "page" \notin x7 =>
        /\ \A c, d \in Tokens!UnderWay : c = d
        /\ "answer" \notin x7 /\ (\A c \in Lanes : calls[c].at = "done" => calls[c].op = "load")
               => x3 \in {Tokens!NoSettings, x1}
        /\ \A c \in Lanes : calls[c].at = "done" => calls[c].settings = x1

TokensInv == Tokens!TypeOK /\ TokensFlags /\ TokensCounted /\ TokensNewest /\ TokensShown

LEMMA TokensTyped ==
    /\ Tokens!NoSettings \in Tokens!Settings /\ Tokens!NoSettings.enabled = FALSE
    /\ Tokens!NoCall \in Tokens!Requests /\ Tokens!NoCall.op = "none" /\ Tokens!NoCall.at = "none"
    /\ Tokens!NoCall.settings = Tokens!NoSettings
<1>1. Tokens!NoSettings \in Tokens!Settings /\ Tokens!NoSettings.enabled = FALSE
    BY DEF Tokens!NoSettings, Tokens!Settings
<1>2. QED
    BY <1>1 DEF Tokens!NoCall, Tokens!Requests, Tokens!None

LEMMA TokensSent ==
    ASSUME NEW op \in {"load", "toggle", "reset"}, NEW of \in Tokens!Types \cup {"on", "off", Tokens!None}
    PROVE  /\ Tokens!Sent(op, of) \in Tokens!Requests
           /\ Tokens!Sent(op, of).op = op /\ Tokens!Sent(op, of).at = "sent"
BY TokensTyped DEF Tokens!Sent, Tokens!NoCall, Tokens!Requests

(* It holds when the screen is opened.                                      *)
LEMMA TokensInit == ASSUME Tokens!Init PROVE TokensInv
<1>1. x1 \in Tokens!Settings /\ x2 \in [Tokens!Kinds -> 1..(MoreSteps + 1)]
    BY DEF Tokens!Init, Tokens!Settings
<1>2. PICK c \in Lanes : calls = [d \in Lanes |-> IF d = c THEN Tokens!Sent("load", Tokens!None) ELSE Tokens!NoCall]
    BY DEF Tokens!Init
<1>3. /\ calls \in [Lanes -> Tokens!Requests] /\ calls[c].op = "load" /\ calls[c].at = "sent"
      /\ \A d \in Lanes \ {c} : calls[d] = Tokens!NoCall
    BY <1>2, TokensTyped, TokensSent
<1>4. Tokens!TypeOK
    <2>1. steps \in 0..MoreSteps /\ busy \subseteq {"load", "toggle", "reset"}
          /\ x7 \subseteq {"page", "server", "answer"}
        BY DEF Tokens!Init
    <2>2. x4 \in {"read_only", "full_control"} /\ x5 \in BOOLEAN /\ x6 \in Tokens!Types
        BY DEF Tokens!Init, Tokens!Types, Tokens!Kinds
    <2>3. x3 \in Tokens!Settings
        BY TokensTyped DEF Tokens!Init
    <2>4. QED
        BY <1>1, <1>3, <2>1, <2>2, <2>3 DEF Tokens!TypeOK
<1>5. TokensFlags
    BY <1>3, TokensTyped DEF Tokens!Init, TokensFlags, Tokens!NoDeadButton, Tokens!UnderWay, Tokens!None
<1>6. TokensCounted
    BY <1>1, <1>3, TokensTyped DEF Tokens!Init, TokensCounted
<1>7. TokensNewest
    BY <1>3, TokensTyped DEF Tokens!Init, TokensNewest
<1>8. TokensShown
    BY <1>3, TokensTyped DEF Tokens!Init, TokensShown, Tokens!UnderWay, Tokens!None
<1>9. QED
    BY <1>4, <1>5, <1>6, <1>7, <1>8 DEF TokensInv

(* A request is made.                                                      *)
LEMMA TokensSend ==
    ASSUME TokensInv, NEW op \in {"load", "toggle", "reset"},
           NEW of \in Tokens!Types \cup {"on", "off", Tokens!None},
           Tokens!Send(op, of), Tokens!Step, op \notin busy,
           op # "reset" => busy \cap {"load", "toggle"} = {},
           UNCHANGED <<x1, x2, x3, x4, x5, x6>>
    PROVE  TokensInv'
<1> USE DEF TokensInv
<1>1. PICK c \in Lanes \ Tokens!UnderWay : calls' = [calls EXCEPT ![c] = Tokens!Sent(op, of)]
    BY DEF Tokens!Send
<1> DEFINE others == {calls[d].op : d \in Tokens!UnderWay}
<1>2. /\ busy' = busy \cup {op}
      /\ x7' = x7
                    \cup (IF Tokens!UnderWay # {} THEN {"page"} ELSE {})
                    \cup (IF {"reset", "toggle"} \subseteq others \cup {op} THEN {"server"} ELSE {})
    BY DEF Tokens!Send
<1>3. /\ calls \in [Lanes -> Tokens!Requests] /\ busy \subseteq {"load", "toggle", "reset"}
      /\ x7 \subseteq {"page", "server", "answer"}
    BY DEF Tokens!TypeOK
<1>4. /\ calls' \in [Lanes -> Tokens!Requests] /\ calls'[c].op = op /\ calls'[c].at = "sent"
      /\ calls[c].op = "none" /\ \A d \in Lanes \ {c} : calls'[d] = calls[d]
    BY <1>1, <1>3, TokensSent DEF Tokens!UnderWay, Tokens!None
<1>5. \A d \in Lanes : calls[d].op # "none" => calls[d].op \in others
    BY DEF Tokens!UnderWay, Tokens!None
<1>6. steps' = steps + 1 /\ steps < MoreSteps
    BY DEF Tokens!Step
<1>7. Tokens!TypeOK'
    <2>1. x7' \subseteq {"page", "server", "answer"}
        BY <1>2, <1>3
    <2>2. busy' \subseteq {"load", "toggle", "reset"}
        BY <1>2, <1>3
    <2>3. steps' \in 0..MoreSteps
        BY <1>6 DEF Tokens!TypeOK
    <2>4. QED
        BY <1>4, <2>1, <2>2, <2>3 DEF Tokens!TypeOK
<1>8. \A d \in Lanes : calls[d].op # op
    BY DEF TokensFlags
<1>9. TokensFlags'
    <2>1. Tokens!NoDeadButton'
        BY <1>2, <1>4 DEF TokensFlags, Tokens!NoDeadButton, Tokens!UnderWay, Tokens!None
    <2>2. /\ \A d \in Lanes : calls'[d].op # "none" => calls'[d].op \in busy'
          /\ \A d \in Lanes : calls'[d].op = "none" <=> calls'[d].at = "none"
          /\ \A d \in Lanes : calls'[d].at = "read" => calls'[d].op = "toggle"
        BY <1>2, <1>4 DEF TokensFlags
    <2>3. \A d, e \in Lanes : calls'[d].op # "none" /\ calls'[d].op = calls'[e].op => d = e
        BY <1>4, <1>8 DEF TokensFlags
    <2>4. ~("load" \in busy' /\ "toggle" \in busy')
        BY <1>2 DEF TokensFlags
    <2>5. QED
        BY <2>1, <2>2, <2>3, <2>4 DEF TokensFlags
<1>10. TokensCounted'
    <2>1. x2 \in [Tokens!Kinds -> 1..(MoreSteps + 1)] /\ steps \in Nat
        BY DEF Tokens!TypeOK
    <2>2. \A k \in Tokens!Kinds : x2'[k] <= steps'
        BY <1>6, <2>1 DEF TokensCounted
    <2>3. QED
        BY <1>6, <2>1, <2>2 DEF TokensCounted
<1>11. TokensNewest'
    <2> SUFFICES ASSUME "server" \notin x7' PROVE TokensNewest'
        BY DEF TokensNewest
    <2>1. "server" \notin x7 /\ ~({"reset", "toggle"} \subseteq others \cup {op})
        BY <1>2
    <2>2. ~("toggle" \in busy' /\ "reset" \in busy')
        <3> SUFFICES ASSUME "toggle" \in busy', "reset" \in busy' PROVE FALSE
            OBVIOUS
        <3>1. ~("toggle" \in busy /\ "reset" \in busy)
            BY <2>1 DEF TokensNewest
        <3>2. PICK other \in {"toggle", "reset"} : other \in busy /\ other # op
            BY <1>2, <3>1
        <3>3. other \in others
            BY <3>2 DEF TokensFlags, Tokens!NoDeadButton
        <3>4. op \in {"toggle", "reset"}
            BY <1>2, <3>1
        <3>5. QED
            BY <2>1, <3>2, <3>3, <3>4
    <2>3. \A d \in Lanes : calls'[d].at = "read" => d # c
        BY <1>4
    <2>4. QED
        BY <1>4, <2>1, <2>2, <2>3 DEF TokensNewest
<1>12. TokensShown'
    <2> SUFFICES ASSUME "page" \notin x7' PROVE TokensShown'
        BY DEF TokensShown
    <2>1. "page" \notin x7 /\ Tokens!UnderWay = {} /\ ("answer" \in x7' <=> "answer" \in x7)
        BY <1>2
    <2>2. \A d \in Lanes : calls[d].op = "none" /\ calls[d].at = "none"
        BY <2>1 DEF TokensFlags, Tokens!UnderWay, Tokens!None
    <2>3. \A d \in Lanes : (d # c => calls'[d].op = "none") /\ calls'[d].at # "done"
        BY <1>4, <2>2
    <2>4. "answer" \notin x7' => x3' \in {Tokens!NoSettings, x1'}
        BY <2>1, <2>2 DEF TokensShown
    <2>5. QED
        BY <2>3, <2>4 DEF TokensShown, Tokens!UnderWay, Tokens!None
<1>13. QED
    BY <1>7, <1>9, <1>10, <1>11, <1>12

(* A request ends, whatever it answers.                                    *)
LEMMA TokensEnds ==
    ASSUME TokensInv, NEW c \in Lanes, calls[c].op # "none",
           calls' = [calls EXCEPT ![c] = Tokens!NoCall], busy' = busy \ {calls[c].op},
           x5' \in BOOLEAN,
           UNCHANGED <<x1, x2, x4, x6, steps>>,
           \/ calls[c].at # "done" /\ x3' = x3 /\ x7' = x7
           \/ calls[c].at = "done" /\ x3' = calls[c].settings /\ x7' = x7 \ {"answer"}
           \/ /\ calls[c].at = "done" /\ x3' = x3
              /\ x7' = x7 \cup (IF calls[c].op = "load" THEN {} ELSE {"answer"})
    PROVE  TokensInv'
<1> USE DEF TokensInv
<1>1. calls \in [Lanes -> Tokens!Requests] /\ busy \subseteq {"load", "toggle", "reset"}
    BY DEF Tokens!TypeOK
<1>2. /\ calls' \in [Lanes -> Tokens!Requests] /\ calls'[c].op = "none" /\ calls'[c].at = "none"
      /\ \A d \in Lanes \ {c} : calls'[d] = calls[d]
    BY <1>1, TokensTyped
<1> DEFINE answered == calls[c].at = "done" /\ x3' = calls[c].settings
           kept == x3' = x3 /\ ("answer" \notin x7' =>
                       "answer" \notin x7 /\ (calls[c].at = "done" => calls[c].op = "load"))
<1>9. /\ x7' \subseteq {"page", "server", "answer"}
      /\ "server" \in x7' <=> "server" \in x7
      /\ "page" \in x7' <=> "page" \in x7
      /\ answered \/ kept
    <2>1. x7 \subseteq {"page", "server", "answer"}
        BY DEF Tokens!TypeOK
    <2>2. QED
        BY <2>1
<1> HIDE DEF answered, kept
<1>3. Tokens!TypeOK'
    <2>1. x3' \in Tokens!Settings
        BY <1>1, <1>9 DEF Tokens!TypeOK, Tokens!Requests, answered, kept
    <2>2. busy' \subseteq {"load", "toggle", "reset"}
        BY <1>1
    <2>3. QED
        BY <1>2, <1>9, <2>1, <2>2 DEF Tokens!TypeOK
<1>4. TokensFlags'
    <2>1. \A d \in Lanes \ {c} : calls[d].op = calls[c].op => calls[d].op = "none"
        BY DEF TokensFlags
    <2>2. Tokens!NoDeadButton'
        BY <1>2, <2>1 DEF TokensFlags, Tokens!NoDeadButton, Tokens!UnderWay, Tokens!None
    <2>3. \A d \in Lanes : calls'[d].op # "none" => calls'[d].op \in busy'
        BY <1>2, <2>1 DEF TokensFlags
    <2>4. QED
        BY <1>2, <2>2, <2>3 DEF TokensFlags
<1>5. TokensCounted'
    BY <1>2 DEF TokensCounted
<1>6. TokensNewest'
    <2> SUFFICES ASSUME "server" \notin x7' PROVE TokensNewest'
        BY DEF TokensNewest
    <2>1. "server" \notin x7 /\ busy' \subseteq busy
        BY <1>9
    <2>2. QED
        BY <1>2, <2>1, TokensTyped DEF TokensNewest
<1>7. TokensShown'
    <2> SUFFICES ASSUME "page" \notin x7' PROVE TokensShown'
        BY DEF TokensShown
    <2>1. "page" \notin x7
        BY <1>9
    <2>2. \A d \in Lanes \ {c} : calls[d].op = "none" /\ calls[d].at = "none"
        BY <2>1 DEF TokensShown, TokensFlags, Tokens!UnderWay, Tokens!None
    <2>3. ASSUME "answer" \notin x7' PROVE x3' \in {Tokens!NoSettings, x1'}
        <3>1. CASE answered
            BY <2>1, <3>1 DEF TokensShown, answered
        <3>2. CASE kept
            <4>1. x3' = x3 /\ "answer" \notin x7 /\ (calls[c].at = "done" => calls[c].op = "load")
                BY <2>3, <3>2 DEF kept
            <4>2. \A d \in Lanes : calls[d].at = "done" => calls[d].op = "load"
                BY <2>2, <4>1
            <4>3. QED
                BY <2>1, <4>1, <4>2 DEF TokensShown
        <3>3. QED
            BY <1>9, <3>1, <3>2
    <2>4. \A d \in Lanes : calls'[d].op = "none" /\ calls'[d].at = "none"
        BY <1>2, <2>2
    <2>5. QED
        BY <2>3, <2>4 DEF TokensShown, Tokens!UnderWay, Tokens!None
<1>8. QED
    BY <1>3, <1>4, <1>5, <1>6, <1>7

(* What the server does with a request takes its settings to the answer.   *)
LEMMA TokensAnswers ==
    ASSUME TokensInv, NEW c \in Lanes, calls[c].op # "none", calls[c].at # "done",
           NEW at \in {"read", "done"}, NEW settings \in Tokens!Settings,
           calls' = [calls EXCEPT ![c] = [calls[c] EXCEPT !.at = at, !.settings = settings]],
           at = "read" => calls[c].op = "toggle" /\ settings.token = x1.token,
           at = "done" => settings = x1',
           x1' \in Tokens!Settings, x2' \in [Tokens!Kinds -> 1..(MoreSteps + 1)],
           \/ x1' = x1 /\ x2' = x2
           \/ x2' = x2 /\ calls[c].at = "read" /\ x1'.token = calls[c].settings.token
              /\ at = "done"
           \/ /\ calls[c].op = "reset" /\ calls[c].at = "sent" /\ at = "done"
              /\ \A k \in Tokens!Kinds : x2'[k] <= x2[k] + 1
              /\ x1.token = x2 => x1'.token = x2',
           UNCHANGED <<x3, x4, x5, x6, busy, x7, steps>>
    PROVE  TokensInv'
<1> USE DEF TokensInv
<1>1. calls \in [Lanes -> Tokens!Requests] /\ x2 \in [Tokens!Kinds -> 1..(MoreSteps + 1)] /\ steps \in Nat
    BY DEF Tokens!TypeOK
<1>2. /\ calls' \in [Lanes -> Tokens!Requests]
      /\ calls'[c].op = calls[c].op /\ calls'[c].at = at /\ calls'[c].settings = settings
      /\ \A d \in Lanes \ {c} : calls'[d] = calls[d]
    BY <1>1 DEF Tokens!Requests
<1>3. UNCHANGED <<x3, busy, x7, steps>>
    OBVIOUS
<1>4. Tokens!TypeOK'
    BY <1>2 DEF Tokens!TypeOK
<1>5. calls[c].at # "none"
    BY DEF TokensFlags
<1>6. TokensFlags'
    <2>1. \A d \in Lanes : calls'[d].op = calls[d].op
        BY <1>2
    <2>2. \A d \in Lanes : /\ calls'[d].op = "none" <=> calls'[d].at = "none"
                           /\ calls'[d].at = "read" => calls'[d].op = "toggle"
        BY <1>2, <1>5 DEF TokensFlags
    <2>3. Tokens!NoDeadButton'
        BY <1>3, <2>1 DEF TokensFlags, Tokens!NoDeadButton, Tokens!UnderWay, Tokens!None
    <2>4. QED
        BY <1>3, <2>1, <2>2, <2>3 DEF TokensFlags
<1>7. TokensCounted'
    <2>1. CASE x2' = x2
        BY <1>2, <1>3, <2>1 DEF TokensCounted
    <2>2. CASE /\ calls[c].op = "reset" /\ calls[c].at = "sent" /\ at = "done"
               /\ \A k \in Tokens!Kinds : x2'[k] <= x2[k] + 1
        <3>1. \A k \in Tokens!Kinds : x2'[k] <= steps' + 1
            BY <1>1, <1>3, <2>2 DEF TokensCounted
        <3>2. \A d \in Lanes : ~(calls'[d].op = "reset" /\ calls'[d].at = "sent")
            BY <1>2, <2>2 DEF TokensFlags
        <3>3. QED
            BY <3>1, <3>2 DEF TokensCounted
    <2>3. QED
        BY <2>1, <2>2
<1>8. TokensNewest'
    <2> SUFFICES ASSUME "server" \notin x7 PROVE TokensNewest'
        BY <1>3 DEF TokensNewest
    <2>1. /\ x1.token = x2 /\ ~("toggle" \in busy /\ "reset" \in busy)
          /\ \A d \in Lanes : calls[d].at = "read" => calls[d].settings.token = x2
        BY DEF TokensNewest
    <2>2. x1'.token = x2'
        BY <2>1
    <2>3. \A d \in Lanes : calls'[d].at = "read" => calls'[d].settings.token = x2'
        <3>1. CASE x2' = x2
            BY <1>2, <2>1, <3>1
        <3>2. CASE calls[c].op = "reset" /\ at = "done"
            <4>1. \A d \in Lanes : calls[d].at # "read"
                BY <2>1, <3>2 DEF TokensFlags
            <4>2. QED
                BY <1>2, <3>2, <4>1
        <3>3. QED
            BY <3>1, <3>2
    <2>4. QED
        BY <1>3, <2>1, <2>2, <2>3 DEF TokensNewest
<1>9. TokensShown'
    <2> SUFFICES ASSUME "page" \notin x7 PROVE TokensShown'
        BY <1>3 DEF TokensShown
    <2>1. \A d \in Lanes \ {c} : calls[d].op = "none" /\ calls[d].at = "none"
        BY DEF TokensShown, TokensFlags, Tokens!UnderWay, Tokens!None
    <2>2. "answer" \notin x7 => x3 \in {Tokens!NoSettings, x1}
        BY <2>1 DEF TokensShown
    <2>3. calls[c].op = "load" => x1' = x1
        BY DEF TokensFlags
    <2>4. at = "read" => x1' = x1
        OBVIOUS
    <2>5. /\ \A d, e \in Tokens!UnderWay' : d = e
          /\ \A d \in Lanes : calls'[d].at = "done" => calls'[d].settings = x1'
        BY <1>2, <2>1 DEF Tokens!UnderWay, Tokens!None
    <2>6. ASSUME "answer" \notin x7', \A d \in Lanes : calls'[d].at = "done" => calls'[d].op = "load"
          PROVE  x3' \in {Tokens!NoSettings, x1'}
        <3>1. x1' = x1
            BY <1>2, <2>3, <2>4, <2>6
        <3>2. QED
            BY <1>3, <2>2, <2>6, <3>1
    <2>7. QED
        BY <2>5, <2>6 DEF TokensShown
<1>10. QED
    BY <1>4, <1>6, <1>7, <1>8, <1>9

(* Every step of the screen keeps it.                                       *)
LEMMA TokensStep == ASSUME TokensInv, Tokens!Next \/ UNCHANGED Tokens!vars PROVE TokensInv'
<1>1. /\ calls \in [Lanes -> Tokens!Requests] /\ x1 \in Tokens!Settings /\ x6 \in Tokens!Types
      /\ x2 \in [Tokens!Kinds -> 1..(MoreSteps + 1)] /\ steps \in 0..MoreSteps
    BY DEF TokensInv, Tokens!TypeOK
<1>2. CASE Tokens!LoadData
    BY <1>2, TokensSend DEF Tokens!LoadData
<1>3. CASE Tokens!HandleToggleEnabled
    <2>1. PICK of \in {"on", "off"} : Tokens!Send("toggle", of)
        BY <1>3 DEF Tokens!HandleToggleEnabled
    <2>2. QED
        BY <1>3, <2>1, TokensSend DEF Tokens!HandleToggleEnabled
<1>4. CASE Tokens!HandleConfirmReset
    BY <1>1, <1>4, TokensSend DEF Tokens!HandleConfirmReset
<1>5. ASSUME UNCHANGED <<x1, x2, calls, x3, busy, x7, steps>>,
             x4' \in {"read_only", "full_control"}, x5' \in BOOLEAN, x6' \in Tokens!Types
      PROVE  TokensInv'
    BY <1>5 DEF TokensInv, Tokens!TypeOK, TokensFlags, Tokens!NoDeadButton, Tokens!UnderWay, TokensCounted,
                TokensNewest, TokensShown
<1>6. CASE Tokens!RotateFullControl \/ Tokens!RotateReadOnly \/ Tokens!RotateOAuthSecret \/ Tokens!CloseDialog
           \/ UNCHANGED Tokens!vars \/ \E k \in {"read_only", "full_control"} : Tokens!SelectToken(k)
    <2>1. UNCHANGED <<x1, x2, calls, x3, busy, x7, steps>>
        BY <1>6 DEF Tokens!RotateFullControl, Tokens!RotateReadOnly, Tokens!RotateOAuthSecret, Tokens!HandleOpenResetDialog,
                    Tokens!CloseDialog, Tokens!SelectToken, Tokens!vars
    <2>2. /\ x4' \in {"read_only", "full_control"} /\ x5' \in BOOLEAN
          /\ x6' \in Tokens!Types
        BY <1>6 DEF Tokens!RotateFullControl, Tokens!RotateReadOnly, Tokens!RotateOAuthSecret, Tokens!HandleOpenResetDialog,
                    Tokens!CloseDialog, Tokens!SelectToken, Tokens!vars, TokensInv, Tokens!TypeOK, Tokens!Types, Tokens!Kinds
    <2>3. QED
        BY <1>5, <2>1, <2>2
<1>7. ASSUME NEW c \in Lanes, Tokens!ResetMCPToken(c) PROVE TokensInv'
    <2> DEFINE rotated == Tokens!Rotated(calls[c].of)
    <2>1. /\ calls[c].op = "reset" /\ calls[c].at = "sent"
          /\ x2' = [k \in Tokens!Kinds |-> IF k \in rotated THEN x2[k] + 1 ELSE x2[k]]
          /\ x1' = [x1 EXCEPT !.token = [k \in Tokens!Kinds |->
                            IF k \in rotated THEN x2'[k] ELSE x1.token[k]]]
          /\ calls' = [calls EXCEPT ![c].at = "done", ![c].settings = x1']
          /\ UNCHANGED <<x3, x4, x5, x6, busy, x7, steps>>
        BY <1>7 DEF Tokens!ResetMCPToken
    <2> HIDE DEF rotated
    <2>2. \A k \in Tokens!Kinds : x2[k] <= steps
        BY <2>1 DEF TokensInv, TokensCounted
    <2>3. /\ x2' \in [Tokens!Kinds -> 1..(MoreSteps + 1)]
          /\ \A k \in Tokens!Kinds : x2'[k] <= x2[k] + 1
        BY <1>1, <2>1, <2>2
    <2>4. /\ x1' \in Tokens!Settings
          /\ x1'.token = [k \in Tokens!Kinds |-> IF k \in rotated THEN x2'[k] ELSE x1.token[k]]
        BY <1>1, <2>1, <2>3 DEF Tokens!Settings
    <2>5. x1.token = x2 => x1'.token = x2'
        BY <1>1, <2>1, <2>4
    <2>6. calls' = [calls EXCEPT ![c] = [calls[c] EXCEPT !.at = "done", !.settings = x1']]
        BY <1>1, <2>1
    <2>7. QED
        BY <2>1, <2>3, <2>4, <2>5, <2>6, TokensAnswers
<1>8. ASSUME NEW c \in Lanes, Tokens!GetMCPSettings(c) PROVE TokensInv'
    <2>1. calls' = [calls EXCEPT ![c] = [calls[c] EXCEPT !.at = "done", !.settings = x1']]
        BY <1>1, <1>8 DEF Tokens!GetMCPSettings
    <2>2. QED
        BY <1>1, <1>8, <2>1, TokensAnswers DEF Tokens!GetMCPSettings
<1>9. ASSUME NEW c \in Lanes, Tokens!HandleUpdateMCPSettings(c) PROVE TokensInv'
    <2> DEFINE settings == [x1 EXCEPT !.enabled = (calls[c].of = "on")]
    <2>1. settings \in Tokens!Settings /\ settings.token = x1.token
        BY <1>1 DEF Tokens!Settings
    <2>2. calls' = [calls EXCEPT ![c] = [calls[c] EXCEPT !.at = "read", !.settings = settings]]
        BY <1>1, <1>9 DEF Tokens!HandleUpdateMCPSettings, Tokens!Current
    <2> HIDE DEF settings
    <2>3. QED
        BY <1>1, <1>9, <2>1, <2>2, TokensAnswers DEF Tokens!HandleUpdateMCPSettings
<1>10. ASSUME NEW c \in Lanes, Tokens!UpdateMCPSettings(c) PROVE TokensInv'
    <2>1. calls[c].settings \in Tokens!Settings /\ calls[c] = [calls[c] EXCEPT !.settings = @]
        BY <1>1 DEF Tokens!Requests
    <2>2. calls' = [calls EXCEPT ![c] = [calls[c] EXCEPT !.at = "done",
                                                         !.settings = calls[c].settings]]
        BY <1>1, <1>10, <2>1 DEF Tokens!UpdateMCPSettings, Tokens!Requests
    <2>3. QED
        BY <1>1, <1>10, <2>1, <2>2, TokensAnswers DEF Tokens!UpdateMCPSettings
<1>11. ASSUME NEW c \in Lanes, Tokens!Refused(c) PROVE TokensInv'
    BY <1>11, TokensEnds DEF Tokens!Refused, Tokens!Drops, TokensInv, TokensFlags, Tokens!TypeOK
<1>14. ASSUME NEW c \in Lanes, Tokens!Fails(c) PROVE TokensInv'
    <2>1. calls[c].op # "none" /\ x5' \in BOOLEAN
        BY <1>14 DEF Tokens!Fails, TokensInv, TokensFlags, Tokens!TypeOK
    <2>2. QED
        BY <1>14, <2>1, TokensEnds DEF Tokens!Fails, Tokens!Drops
<1>12. ASSUME NEW c \in Lanes, Tokens!LoadArrives(c) \/ Tokens!ToggleArrives(c) \/ Tokens!ResetArrives(c)
       PROVE  TokensInv'
    <2>1. Tokens!Arrives(c) /\ calls[c].op # "none" /\ x5' \in BOOLEAN
        BY <1>12 DEF Tokens!LoadArrives, Tokens!ToggleArrives, Tokens!ResetArrives, TokensInv, Tokens!TypeOK
    <2>2. QED
        BY <2>1, TokensEnds DEF Tokens!Arrives, Tokens!SetData, Tokens!Drops
<1>13. QED
    BY <1>2, <1>3, <1>4, <1>6, <1>7, <1>8, <1>9, <1>10, <1>11, <1>12, <1>14 DEF Tokens!Next

(* From the invariant to what is stated of the screen.                     *)
LEMMA TokensShows ==
    ASSUME TokensInv
    PROVE  Tokens!TypeOK /\ Tokens!NoDeadButton /\ Tokens!RotatedStaysAway /\ Tokens!ShownInForce
<1>1. Tokens!ShownInForce
    <2> SUFFICES ASSUME Tokens!UnderWay = {}, x3 # Tokens!NoSettings, x7 = {}
                 PROVE  Tokens!ActiveToken = x1.token[x4] /\ x3.enabled = x1.enabled
        BY DEF Tokens!ShownInForce
    <2>1. \A c \in Lanes : calls[c].at # "done"
        BY DEF TokensInv, TokensFlags, Tokens!UnderWay, Tokens!None
    <2>2. x3 = x1
        BY <2>1 DEF TokensInv, TokensShown
    <2>3. QED
        BY <2>2 DEF Tokens!ActiveToken
<1>2. QED
    BY <1>1 DEF TokensInv, TokensFlags, TokensNewest, Tokens!RotatedStaysAway
-----------------------------------------------------------------------------
(***************************************************************************)
(* SettingsTabs.  x1 is the tab, x2 what is shown, x3 what it was loaded   *)
(* as, x4 what the server has, x5 what was typed, x6 the number of edits.  *)
(***************************************************************************)
USE FormAssumption

SettingsFlags ==
    /\ Settings!NoDeadButton
    /\ \A c \in Lanes : calls[c].afterRun => calls[c].op = "load" /\ x1 = "tasks"
    /\ \A c \in Lanes : calls[c].op = "run" => x1 = "tasks"

(* Of a load that no other overlapped, the form is disabled until it ends. *)
SettingsLoads ==
    x1 \in {"network", "dns"} =>
        \A c \in Lanes : calls[c].op = "load" =>
            \/ calls[c].overlapped
            \/ /\ calls[c].since = x6 /\ <<"load", SettingForm>> \in busy
               /\ \A d \in Lanes : calls[d].op = "load" => d = c

SettingsInv == Settings!TypeOK /\ SettingsFlags /\ SettingsLoads

LEMMA SettingsNoCall ==
    /\ Settings!NoCall \in Settings!Requests /\ Settings!NoCall.op = "none" /\ Settings!NoCall.afterRun = FALSE
    /\ [f \in SettingFields |-> "blank"] \in Settings!Contents /\ Settings!NoCall.got \in Settings!Contents
<1>1. [f \in SettingFields |-> "blank"] \in Settings!Contents
    BY DEF Settings!Contents, Settings!Draft
<1>2. QED
    BY <1>1 DEF Settings!NoCall, Settings!Requests

LEMMA SettingsTyped ==
    ASSUME Settings!TypeOK
    PROVE  /\ x1 \in Settings!Tabs /\ x2 \in BOOLEAN /\ x3 \in BOOLEAN
           /\ x4 \in Settings!Contents /\ x5 \in Settings!Contents
           /\ calls \in [Lanes -> Settings!Requests] /\ busy \subseteq Settings!Ops \X SettingFields
           /\ x6 \in 0..MaxSettings /\ steps \in 0..MoreSteps
           /\ \A b \in busy : b[1] \in Settings!Ops /\ b[2] \in SettingFields /\ b = <<b[1], b[2]>>
           /\ \A c \in Lanes : /\ calls[c] \in Settings!Requests /\ calls[c].op \in Settings!Ops \cup {"none"}
                               /\ calls[c].field \in SettingFields /\ calls[c].got \in Settings!Contents
                               /\ calls[c].overlapped \in BOOLEAN
<1>1. calls \in [Lanes -> Settings!Requests] /\ busy \subseteq Settings!Ops \X SettingFields
    BY DEF Settings!TypeOK
<1>2. \A c \in Lanes : /\ calls[c] \in Settings!Requests /\ calls[c].op \in Settings!Ops \cup {"none"}
                       /\ calls[c].field \in SettingFields /\ calls[c].got \in Settings!Contents
                       /\ calls[c].overlapped \in BOOLEAN
    BY <1>1 DEF Settings!Requests
<1>3. QED
    BY <1>1, <1>2 DEF Settings!TypeOK

(* It holds when the screen is opened.                                      *)
LEMMA SettingsInit == ASSUME Settings!Init PROVE SettingsInv
<1>1. calls \in [Lanes -> Settings!Requests] /\ x5 \in Settings!Contents
    BY SettingsNoCall DEF Settings!Init
<1>2. x4 \in Settings!Contents
    BY DEF Settings!Init, Settings!Contents, Settings!Draft
<1>3. x2 \in BOOLEAN /\ x3 \in BOOLEAN /\ busy \subseteq Settings!Ops \X SettingFields
    BY DEF Settings!Init
<1>4. x6 \in 0..MaxSettings /\ steps \in 0..MoreSteps
    BY DEF Settings!Init
<1>5. Settings!TypeOK
    BY <1>1, <1>2, <1>3, <1>4 DEF Settings!Init, Settings!TypeOK
<1>6. \A c \in Lanes : calls[c].op = "none" /\ calls[c].afterRun = FALSE
    BY SettingsNoCall DEF Settings!Init
<1>7. SettingsFlags
    BY <1>6 DEF Settings!Init, SettingsFlags, Settings!NoDeadButton
<1>8. SettingsLoads
    BY <1>6 DEF SettingsLoads
<1>9. QED
    BY <1>5, <1>7, <1>8 DEF SettingsInv

(* A request takes the place of one that has ended.                        *)
LEMMA SettingsSend ==
    ASSUME SettingsInv, NEW op \in Settings!Ops, NEW f \in SettingFields, Settings!Send(op, f), op = "load" => f = SettingForm, op = "run" => x1 = "tasks",
           UNCHANGED <<x1, x6>>
    PROVE  /\ calls' \in [Lanes -> Settings!Requests] /\ busy' \subseteq Settings!Ops \X SettingFields
           /\ SettingsFlags' /\ SettingsLoads'
<1>1. PICK c \in Settings!UnderWay("none") : calls' = [d \in Lanes |->
               IF d = c THEN [Settings!NoCall EXCEPT !.op = op, !.field = f, !.at = "sent", !.since = x6,
                                  !.got = IF op = "save" THEN x5 ELSE Settings!NoCall.got,
                                  !.overlapped = op = "load" /\ Settings!UnderWay("load") # {}]
               ELSE [calls[d] EXCEPT !.overlapped = @ \/ (op = "load" /\ calls[d].op = "load")]]
    BY DEF Settings!Send
<1>2. busy' = busy \cup {<<op, f>>}
    BY DEF Settings!Send
<1>3. /\ calls \in [Lanes -> Settings!Requests] /\ busy \subseteq Settings!Ops \X SettingFields /\ x6 \in 0..MaxSettings
      /\ x5 \in Settings!Contents /\ x1' = x1 /\ x6' = x6
      /\ \A b \in busy : b[1] \in Settings!Ops
    BY SettingsTyped DEF SettingsInv
<1>4. c \in Lanes /\ calls[c].op = "none"
    BY DEF Settings!UnderWay
<1> DEFINE sent == [Settings!NoCall EXCEPT !.op = op, !.field = f, !.at = "sent", !.since = x6,
                                  !.got = IF op = "save" THEN x5 ELSE Settings!NoCall.got,
                                  !.overlapped = op = "load" /\ Settings!UnderWay("load") # {}]
<1>5. /\ sent \in Settings!Requests /\ sent.op = op /\ sent.field = f /\ sent.afterRun = FALSE
      /\ sent.since = x6 /\ (sent.overlapped <=> op = "load" /\ Settings!UnderWay("load") # {})
    <2>1. (IF op = "save" THEN x5 ELSE Settings!NoCall.got) \in Settings!Contents
        BY <1>3, SettingsNoCall
    <2>2. QED
        BY <1>3, <2>1, SettingsNoCall DEF Settings!NoCall, Settings!Requests
<1>6. ASSUME NEW d \in Lanes, d # c
      PROVE  /\ calls'[d] \in Settings!Requests /\ calls'[d].op = calls[d].op
             /\ calls'[d].field = calls[d].field /\ calls'[d].since = calls[d].since
             /\ calls'[d].afterRun = calls[d].afterRun
             /\ calls'[d].overlapped <=> calls[d].overlapped \/ (op = "load" /\ calls[d].op = "load")
    BY <1>1, <1>3, <1>6 DEF Settings!Requests
<1>7. calls'[c] = sent
    BY <1>1, <1>4
<1> HIDE DEF sent
<1>8. calls' \in [Lanes -> Settings!Requests]
    <2>1. \A d \in Lanes : calls'[d] \in Settings!Requests
        BY <1>5, <1>6, <1>7
    <2>2. calls' = [d \in Lanes |-> calls'[d]]
        BY <1>1
    <2>3. QED
        BY <2>1, <2>2
<1>9. busy' \subseteq Settings!Ops \X SettingFields
    BY <1>2, <1>3
<1>10. SettingsFlags'
    <2>1. Settings!NoDeadButton'
        <3> SUFFICES ASSUME NEW b \in busy'
                     PROVE  \E d \in Lanes :
                                \/ calls'[d].op = b[1] /\ (b[1] = "save" => calls'[d].field = b[2])
                                \/ b[1] = "run" /\ calls'[d].afterRun
            BY DEF Settings!NoDeadButton
        <3>1. CASE b = <<op, f>>
            BY <1>4, <1>5, <1>7, <3>1
        <3>2. CASE b \in busy
            <4>1. PICK d \in Lanes :
                      \/ calls[d].op = b[1] /\ (b[1] = "save" => calls[d].field = b[2])
                      \/ b[1] = "run" /\ calls[d].afterRun
                BY <3>2 DEF SettingsInv, SettingsFlags, Settings!NoDeadButton
            <4>2. d # c
                BY <1>3, <1>4, <3>2, <4>1 DEF SettingsInv, SettingsFlags, Settings!Ops
            <4>3. QED
                BY <1>6, <4>1, <4>2
        <3>3. QED
            BY <1>2, <3>1, <3>2
    <2>2. \A d \in Lanes : /\ calls'[d].afterRun => calls'[d].op = "load" /\ x1' = "tasks"
                           /\ calls'[d].op = "run" => x1' = "tasks"
        BY <1>3, <1>5, <1>6, <1>7 DEF SettingsInv, SettingsFlags
    <2>3. QED
        BY <2>1, <2>2 DEF SettingsFlags
<1>11. SettingsLoads'
    <2> SUFFICES ASSUME x1 \in {"network", "dns"}, NEW d \in Lanes, calls'[d].op = "load",
                        ~calls'[d].overlapped
                 PROVE  /\ calls'[d].since = x6 /\ <<"load", SettingForm>> \in busy'
                        /\ \A e \in Lanes : calls'[e].op = "load" => e = d
        BY <1>3 DEF SettingsLoads
    <2>1. CASE d = c
        <3>1. op = "load" /\ Settings!UnderWay("load") = {}
            BY <1>5, <1>7, <2>1
        <3>2. \A e \in Lanes \ {c} : calls'[e].op # "load"
            BY <1>6, <3>1 DEF Settings!UnderWay
        <3>3. <<"load", SettingForm>> \in busy'
            BY <1>2, <3>1
        <3>4. QED
            BY <1>5, <1>7, <2>1, <3>2, <3>3
    <2>2. CASE d # c
        <3>1. calls[d].op = "load" /\ ~calls[d].overlapped /\ op # "load"
            BY <1>6, <2>2
        <3>2. /\ calls[d].since = x6 /\ <<"load", SettingForm>> \in busy
              /\ \A e \in Lanes : calls[e].op = "load" => e = d
            BY <3>1 DEF SettingsInv, SettingsLoads
        <3>3. QED
            BY <1>2, <1>5, <1>6, <1>7, <2>2, <3>1, <3>2
    <2>3. QED
        BY <2>1, <2>2
<1>12. QED
    BY <1>8, <1>9, <1>10, <1>11

(* A request ends, and takes down the flags that are its own.              *)
LEMMA SettingsEnds ==
    ASSUME SettingsInv, NEW c \in Lanes, calls[c].op # "none",
           calls' = [calls EXCEPT ![c] = Settings!NoCall], busy' = Settings!Lowered(c),
           UNCHANGED <<x1, x6>>
    PROVE  /\ calls' \in [Lanes -> Settings!Requests] /\ busy' \subseteq Settings!Ops \X SettingFields
           /\ SettingsFlags' /\ SettingsLoads'
<1>1. /\ calls \in [Lanes -> Settings!Requests] /\ busy \subseteq Settings!Ops \X SettingFields
      /\ x1' = x1 /\ x6' = x6
      /\ \A b \in busy : b[1] \in Settings!Ops /\ b[2] \in SettingFields /\ b = <<b[1], b[2]>>
    BY SettingsTyped DEF SettingsInv
<1>2. /\ calls' \in [Lanes -> Settings!Requests] /\ calls'[c].op = "none" /\ calls'[c].afterRun = FALSE
      /\ \A d \in Lanes \ {c} : calls'[d] = calls[d]
    BY <1>1, SettingsNoCall
<1>3. /\ busy' \subseteq busy
      /\ \A b \in busy' : b[1] # calls[c].op /\ ~(b[1] = "run" /\ calls[c].afterRun)
    BY <1>1 DEF Settings!Lowered
<1>4. SettingsFlags'
    <2>1. Settings!NoDeadButton'
        <3> SUFFICES ASSUME NEW b \in busy'
                     PROVE  \E d \in Lanes :
                                \/ calls'[d].op = b[1] /\ (b[1] = "save" => calls'[d].field = b[2])
                                \/ b[1] = "run" /\ calls'[d].afterRun
            BY DEF Settings!NoDeadButton
        <3>1. b \in busy
            BY <1>3
        <3>2. PICK d \in Lanes :
                  \/ calls[d].op = b[1] /\ (b[1] = "save" => calls[d].field = b[2])
                  \/ b[1] = "run" /\ calls[d].afterRun
            BY <3>1 DEF SettingsInv, SettingsFlags, Settings!NoDeadButton
        <3>3. d # c
            BY <1>3, <3>2
        <3>4. QED
            BY <1>2, <3>2, <3>3
    <2>2. \A d \in Lanes : /\ calls'[d].afterRun => calls'[d].op = "load" /\ x1' = "tasks"
                           /\ calls'[d].op = "run" => x1' = "tasks"
        BY <1>1, <1>2 DEF SettingsInv, SettingsFlags
    <2>3. QED
        BY <2>1, <2>2 DEF SettingsFlags
<1>5. SettingsLoads'
    <2> SUFFICES ASSUME x1 \in {"network", "dns"}, NEW d \in Lanes, calls'[d].op = "load",
                        ~calls'[d].overlapped
                 PROVE  /\ calls'[d].since = x6 /\ <<"load", SettingForm>> \in busy'
                        /\ \A e \in Lanes : calls'[e].op = "load" => e = d
        BY <1>1 DEF SettingsLoads
    <2>1. d # c /\ calls'[d] = calls[d]
        BY <1>2
    <2>2. /\ calls[d].since = x6 /\ <<"load", SettingForm>> \in busy
          /\ \A e \in Lanes : calls[e].op = "load" => e = d
        BY <2>1 DEF SettingsInv, SettingsLoads
    <2>3. calls[c].op # "load" /\ calls[c].afterRun = FALSE
        <3>1. calls[c].op # "load"
            BY <2>1, <2>2
        <3>2. calls[c].afterRun \in BOOLEAN
            BY <1>1 DEF Settings!Requests
        <3>3. QED
            BY <3>1, <3>2 DEF SettingsInv, SettingsFlags
    <2>4. <<"load", SettingForm>> \in busy'
        BY <2>2, <2>3 DEF Settings!Lowered
    <2>5. QED
        BY <1>2, <2>1, <2>2, <2>4
<1>6. busy' \subseteq Settings!Ops \X SettingFields
    BY <1>1, <1>3
<1>7. QED
    BY <1>2, <1>4, <1>5, <1>6

(* The operator presses a button that sends a request.                     *)
LEMMA SettingsClick ==
    ASSUME SettingsInv, NEW op \in Settings!Ops, NEW f \in SettingFields, Settings!Click(op, f), op = "load" => f = SettingForm,
           op = "run" => x1 = "tasks"
    PROVE  SettingsInv'
<1>1. /\ Settings!Send(op, f) /\ steps < MoreSteps /\ steps' = steps + 1
      /\ UNCHANGED <<x1, x2, x3, x4, x5, x6>>
    BY DEF Settings!Click
<1>2. /\ calls' \in [Lanes -> Settings!Requests] /\ busy' \subseteq Settings!Ops \X SettingFields
      /\ SettingsFlags' /\ SettingsLoads'
    BY <1>1, SettingsSend
<1>3. steps' \in 0..MoreSteps
    BY <1>1, SettingsTyped DEF SettingsInv
<1>4. QED
    BY <1>1, <1>2, <1>3 DEF SettingsInv, Settings!TypeOK

(* A field is edited: in the network and DNS tabs, not while one is loaded. *)
LEMMA SettingsEdit ==
    ASSUME SettingsInv, NEW f \in SettingFields, Settings!Edit(f),
           x1 \in {"network", "dns"} => <<"load", SettingForm>> \notin busy
    PROVE  SettingsInv'
<1>1. /\ x6 < MaxSettings /\ x6' = x6 + 1 /\ x5' = [x5 EXCEPT ![f] = "typed"]
      /\ UNCHANGED <<x1, x2, x3, x4, calls, busy, steps>>
    BY DEF Settings!Edit
<1>2. x5' \in Settings!Contents /\ x6' \in 0..MaxSettings
    BY <1>1, SettingsTyped DEF SettingsInv, Settings!Contents, Settings!Draft
<1>3. SettingsFlags'
    BY <1>1 DEF SettingsInv, SettingsFlags, Settings!NoDeadButton
<1>4. SettingsLoads'
    BY <1>1 DEF SettingsInv, SettingsLoads
<1>5. QED
    BY <1>1, <1>2, <1>3, <1>4 DEF SettingsInv, Settings!TypeOK

(* Every step of the screen keeps it.                                       *)
LEMMA SettingsStep == ASSUME SettingsInv, Settings!Next \/ UNCHANGED Settings!vars PROVE SettingsInv'
<1>1. /\ x1 \in Settings!Tabs /\ x2 \in BOOLEAN /\ x3 \in BOOLEAN
      /\ x4 \in Settings!Contents /\ x5 \in Settings!Contents
      /\ calls \in [Lanes -> Settings!Requests] /\ busy \subseteq Settings!Ops \X SettingFields
      /\ x6 \in 0..MaxSettings /\ steps \in 0..MoreSteps
    BY SettingsTyped DEF SettingsInv
<1>2. CASE Settings!OpenTab
    <2>1. /\ x2' = TRUE /\ steps < MoreSteps /\ steps' = steps + 1
          /\ UNCHANGED <<x1, x3, x4, x5, x6>>
        BY <1>2 DEF Settings!OpenTab
    <2>2. CASE x1 \in Settings!Loads
        <3>1. Settings!Send("load", SettingForm)
            BY <1>2, <2>2 DEF Settings!OpenTab
        <3>2. /\ calls' \in [Lanes -> Settings!Requests] /\ busy' \subseteq Settings!Ops \X SettingFields
              /\ SettingsFlags' /\ SettingsLoads'
            BY <2>1, <3>1, SettingsSend DEF Settings!Ops
        <3>3. QED
            BY <1>1, <2>1, <3>2 DEF SettingsInv, Settings!TypeOK
    <2>3. CASE x1 \notin Settings!Loads
        <3>1. UNCHANGED <<calls, busy>>
            BY <1>2, <2>3 DEF Settings!OpenTab
        <3>2. SettingsFlags' /\ SettingsLoads'
            BY <2>1, <3>1 DEF SettingsInv, SettingsFlags, Settings!NoDeadButton, SettingsLoads
        <3>3. QED
            BY <1>1, <2>1, <3>1, <3>2 DEF SettingsInv, Settings!TypeOK
    <2>4. QED
        BY <2>2, <2>3
<1>3. CASE Settings!LeaveTab \/ UNCHANGED Settings!vars
    <2>1. /\ x2' \in BOOLEAN
          /\ UNCHANGED <<x1, x3, x4, x5, calls, busy, x6, steps>>
        BY <1>1, <1>3 DEF Settings!LeaveTab, Settings!vars
    <2>2. SettingsFlags' /\ SettingsLoads'
        BY <2>1 DEF SettingsInv, SettingsFlags, Settings!NoDeadButton, SettingsLoads
    <2>3. QED
        BY <2>1, <2>2 DEF SettingsInv, Settings!TypeOK
<1>4. CASE Settings!RefreshTasks \/ Settings!RefreshDatabase \/ Settings!RefreshIntegrations \/ Settings!RefreshVersion
    <2>1. Settings!Click("load", SettingForm)
        BY <1>4 DEF Settings!RefreshTasks, Settings!RefreshDatabase, Settings!RefreshIntegrations, Settings!RefreshVersion
    <2>2. QED
        BY <2>1, SettingsClick DEF SettingsInv, Settings!Ops
<1>5. CASE Settings!EditNetwork \/ Settings!EditDns \/ Settings!EditRetention \/ Settings!EditTelegram \/ Settings!EditPassword
    <2>1. Settings!Edit(SettingForm) /\ (x1 \in {"network", "dns"} => <<"load", SettingForm>> \notin busy)
        BY <1>5 DEF Settings!EditNetwork, Settings!EditDns, Settings!EditRetention, Settings!EditTelegram, Settings!EditPassword, Settings!Busy
    <2>2. QED
        BY <2>1, SettingsEdit DEF SettingsInv
<1>6. ASSUME NEW f \in SettingFields, Settings!EditTask(f) PROVE SettingsInv'
    BY <1>6, SettingsEdit DEF Settings!EditTask, SettingsInv
<1>7. CASE \/ Settings!SaveNetworkSettings \/ Settings!SaveDNSSettings \/ Settings!SyncDNS \/ Settings!SaveRetention \/ Settings!ReclaimDatabase
           \/ Settings!SaveTelegram \/ Settings!TestTelegram \/ Settings!TogglePrometheus \/ Settings!ResetToken
           \/ Settings!ChangePassword \/ Settings!LogoutAll \/ Settings!FlushCacheAndSw
    <2>1. \E op \in Settings!Ops \ {"load", "run"} : Settings!Click(op, SettingForm)
        BY <1>7 DEF Settings!SaveNetworkSettings, Settings!SaveDNSSettings, Settings!SyncDNS, Settings!SaveRetention, Settings!ReclaimDatabase,
                    Settings!SaveTelegram, Settings!TestTelegram, Settings!TogglePrometheus, Settings!ResetToken, Settings!ChangePassword,
                    Settings!LogoutAll, Settings!FlushCacheAndSw, Settings!Ops
    <2>2. QED
        BY <2>1, SettingsClick DEF SettingsInv
<1>8. ASSUME NEW f \in SettingFields, Settings!RunTaskImmediately(f) PROVE SettingsInv'
    BY <1>8, SettingsClick DEF Settings!RunTaskImmediately, SettingsInv, Settings!Ops
<1>9. ASSUME NEW f \in SettingFields, Settings!SaveTaskConfig(f) PROVE SettingsInv'
    <2>1. /\ x1 = "tasks" /\ steps < MoreSteps /\ steps' = steps + 1
          /\ busy' = (busy \ ({"save"} \X SettingFields)) \cup {<<"save", f>>}
          /\ UNCHANGED <<x1, x2, x3, x4, x5, x6>>
        BY <1>9 DEF Settings!SaveTaskConfig
    <2>2. PICK c \in Settings!UnderWay("none") :
              calls' = [calls EXCEPT ![c] = [Settings!NoCall EXCEPT !.op = "save", !.field = f,
                                                           !.at = "sent", !.got = x5]]
        BY <1>9 DEF Settings!SaveTaskConfig
    <2>3. c \in Lanes /\ calls[c].op = "none"
        BY <2>2 DEF Settings!UnderWay
    <2> DEFINE sent == [Settings!NoCall EXCEPT !.op = "save", !.field = f, !.at = "sent", !.got = x5]
    <2>4. sent \in Settings!Requests /\ sent.op = "save" /\ sent.field = f /\ sent.afterRun = FALSE
        BY <1>1, SettingsNoCall DEF Settings!NoCall, Settings!Requests, Settings!Ops
    <2>5. /\ calls' \in [Lanes -> Settings!Requests] /\ calls'[c].op = "save" /\ calls'[c].field = f
          /\ calls'[c].afterRun = FALSE /\ \A d \in Lanes \ {c} : calls'[d] = calls[d]
        BY <1>1, <2>2, <2>3, <2>4
    <2> HIDE DEF sent
    <2>6. busy' \subseteq Settings!Ops \X SettingFields
        BY <1>1, <2>1 DEF Settings!Ops
    <2>7. Settings!NoDeadButton'
        <3> SUFFICES ASSUME NEW b \in busy'
                     PROVE  \E d \in Lanes :
                                \/ calls'[d].op = b[1] /\ (b[1] = "save" => calls'[d].field = b[2])
                                \/ b[1] = "run" /\ calls'[d].afterRun
            BY DEF Settings!NoDeadButton
        <3>1. CASE b = <<"save", f>>
            BY <2>3, <2>5, <3>1
        <3>2. CASE b \in busy /\ b \notin {"save"} \X SettingFields
            <4>1. PICK d \in Lanes :
                      \/ calls[d].op = b[1] /\ (b[1] = "save" => calls[d].field = b[2])
                      \/ b[1] = "run" /\ calls[d].afterRun
                BY <3>2 DEF SettingsInv, SettingsFlags, Settings!NoDeadButton
            <4>2. b[1] \in Settings!Ops
                BY <3>2, SettingsTyped DEF SettingsInv
            <4>3. d # c
                BY <2>3, <4>1, <4>2 DEF SettingsInv, SettingsFlags, Settings!Ops
            <4>4. QED
                BY <2>5, <4>1, <4>3
        <3>3. QED
            BY <2>1, <3>1, <3>2
    <2>8. SettingsFlags'
        <3>1. \A d \in Lanes : /\ calls'[d].afterRun => calls'[d].op = "load" /\ x1' = "tasks"
                               /\ calls'[d].op = "run" => x1' = "tasks"
            BY <2>1, <2>5 DEF SettingsInv, SettingsFlags
        <3>2. QED
            BY <2>7, <3>1 DEF SettingsFlags
    <2>9. SettingsLoads'
        BY <2>1 DEF SettingsLoads
    <2>10. QED
        BY <1>1, <2>1, <2>5, <2>6, <2>8, <2>9 DEF SettingsInv, Settings!TypeOK
<1>10. ASSUME NEW c \in Lanes, Settings!ServerAnswers(c) PROVE SettingsInv'
    <2>1. /\ calls[c].at = "sent" /\ UNCHANGED <<x1, x2, x3, x5, busy, x6, steps>>
        BY <1>10 DEF Settings!ServerAnswers
    <2>2. /\ x4' \in Settings!Contents
          /\ \E got \in Settings!Contents :
                 calls' = [calls EXCEPT ![c] = [calls[c] EXCEPT !.at = "done", !.got = got]]
        <3>1. calls[c] \in Settings!Requests /\ calls[c].got \in Settings!Contents /\ calls[c].field \in SettingFields
            BY SettingsTyped DEF SettingsInv
        <3>2. CASE calls[c].op = "save"
            <4>1. /\ x4' = [x4 EXCEPT ![calls[c].field] = calls[c].got[calls[c].field]]
                  /\ calls' = [calls EXCEPT ![c].at = "done", ![c].got = x4']
                BY <1>10, <3>2 DEF Settings!ServerAnswers
            <4>2. x4' \in Settings!Contents
                BY <1>1, <3>1, <4>1 DEF Settings!Contents
            <4>3. calls' = [calls EXCEPT ![c] = [calls[c] EXCEPT !.at = "done", !.got = x4']]
                BY <1>1, <4>1
            <4>4. QED
                BY <4>2, <4>3
        <3>3. CASE calls[c].op = "load"
            <4>1. calls' = [calls EXCEPT ![c].at = "done", ![c].got = x4] /\ x4' = x4
                BY <1>10, <3>3 DEF Settings!ServerAnswers
            <4>2. calls' = [calls EXCEPT ![c] = [calls[c] EXCEPT !.at = "done", !.got = x4]]
                BY <1>1, <4>1
            <4>3. QED
                BY <1>1, <4>1, <4>2
        <3>4. CASE calls[c].op \notin {"save", "load"}
            <4>1. calls' = [calls EXCEPT ![c].at = "done"] /\ x4' = x4
                BY <1>10, <3>4 DEF Settings!ServerAnswers
            <4>2. calls' = [calls EXCEPT ![c] = [calls[c] EXCEPT !.at = "done",
                                                                 !.got = calls[c].got]]
                BY <1>1, <3>1, <4>1 DEF Settings!Requests
            <4>3. QED
                BY <1>1, <3>1, <4>1, <4>2
        <3>5. QED
            BY <3>2, <3>3, <3>4
    <2>3. PICK got \in Settings!Contents :
              calls' = [calls EXCEPT ![c] = [calls[c] EXCEPT !.at = "done", !.got = got]]
        BY <2>2
    <2>4. \A d \in Lanes :
              /\ calls'[d] \in Settings!Requests
              /\ calls'[d].op = calls[d].op /\ calls'[d].field = calls[d].field
              /\ calls'[d].afterRun = calls[d].afterRun /\ calls'[d].since = calls[d].since
              /\ calls'[d].overlapped = calls[d].overlapped
        BY <1>1, <2>3 DEF Settings!Requests
    <2>5. calls' \in [Lanes -> Settings!Requests]
        BY <1>1, <2>3, <2>4
    <2>6. UNCHANGED <<x1, busy, x6>>
        BY <2>1
    <2>7. SettingsFlags'
        BY <2>4, <2>6 DEF SettingsInv, SettingsFlags, Settings!NoDeadButton
    <2>8. SettingsLoads'
        BY <2>4, <2>6 DEF SettingsInv, SettingsLoads
    <2>9. QED
        BY <1>1, <2>1, <2>2, <2>5, <2>7, <2>8 DEF SettingsInv, Settings!TypeOK
<1>11. ASSUME NEW c \in Lanes, calls[c].op # "none",
              calls' = [calls EXCEPT ![c] = Settings!NoCall], busy' = Settings!Lowered(c),
              x5' \in Settings!Contents, x2' \in BOOLEAN, x3' \in BOOLEAN,
              UNCHANGED <<x1, x4, x6, steps>>
       PROVE  SettingsInv'
    <2>1. /\ calls' \in [Lanes -> Settings!Requests] /\ busy' \subseteq Settings!Ops \X SettingFields
          /\ SettingsFlags' /\ SettingsLoads'
        BY <1>11, SettingsEnds
    <2>2. QED
        BY <1>1, <1>11, <2>1 DEF SettingsInv, Settings!TypeOK
<1>12. ASSUME NEW c \in Lanes, Settings!LoadArrives(c) PROVE SettingsInv'
    <2>1. /\ calls[c].op = "load" /\ x3' = TRUE /\ busy' = Settings!Lowered(c)
          /\ x5' = [f \in SettingFields |-> IF f \in Settings!FieldsOf(x1) /\ x1 # "about"
                                        THEN calls[c].got[f] ELSE x5[f]]
          /\ calls' = [calls EXCEPT ![c] = Settings!NoCall]
          /\ UNCHANGED <<x1, x2, x4, x6, steps>>
        BY <1>12 DEF Settings!LoadArrives
    <2>2. calls[c].got \in Settings!Contents
        BY SettingsTyped DEF SettingsInv
    <2>3. x5' \in Settings!Contents
        BY <1>1, <2>1, <2>2 DEF Settings!Contents
    <2>4. QED
        BY <1>1, <1>11, <2>1, <2>3
<1>13. ASSUME NEW c \in Lanes, Settings!SaveArrives(c) PROVE SettingsInv'
    <2>1. /\ calls[c].op = "save" /\ busy' = Settings!Lowered(c)
          /\ \/ x5' = x5
             \/ x5' = [x5 EXCEPT ![calls[c].field] = calls[c].got[calls[c].field]]
          /\ calls' = [calls EXCEPT ![c] = Settings!NoCall]
          /\ UNCHANGED <<x1, x2, x3, x4, x6, steps>>
        BY <1>13 DEF Settings!SaveArrives
    <2>2. calls[c].got \in Settings!Contents /\ calls[c].field \in SettingFields
        BY SettingsTyped DEF SettingsInv
    <2>3. x5' \in Settings!Contents
        BY <1>1, <2>1, <2>2 DEF Settings!Contents
    <2>4. QED
        BY <1>1, <1>11, <2>1, <2>3
<1>14. ASSUME NEW c \in Lanes, Settings!OtherArrives(c) PROVE SettingsInv'
    <2>1. /\ calls[c].op # "none" /\ busy' = Settings!Lowered(c)
          /\ x5' = x5 \/ x5' = [x5 EXCEPT ![SettingForm] = "blank"]
          /\ x2' = (x2 /\ calls[c].op # "logoutAll")
          /\ calls' = [calls EXCEPT ![c] = Settings!NoCall]
          /\ UNCHANGED <<x1, x3, x4, x6, steps>>
        BY <1>14 DEF Settings!OtherArrives
    <2>2. x5' \in Settings!Contents
        BY <1>1, <2>1 DEF Settings!Contents, Settings!Draft
    <2>3. x2' \in BOOLEAN
        BY <2>1
    <2>4. QED
        BY <1>1, <1>11, <2>1, <2>2, <2>3
<1>15. ASSUME NEW c \in Lanes, Settings!Fails(c) PROVE SettingsInv'
    <2>1. /\ calls[c].op # "none"
          /\ UNCHANGED <<x1, x2, x3, x4, x5, x6, steps>>
        BY <1>15 DEF Settings!Fails
    <2>2. CASE calls[c].op # "run"
        <3>1. calls' = [calls EXCEPT ![c] = Settings!NoCall] /\ busy' = Settings!Lowered(c)
            BY <1>15, <2>2 DEF Settings!Fails
        <3>2. QED
            BY <1>1, <1>11, <2>1, <3>1
    <2>3. CASE calls[c].op = "run"
        <3> DEFINE sent == [Settings!NoCall EXCEPT !.op = "load", !.at = "sent", !.since = x6,
                                !.overlapped = Settings!UnderWay("load") # {}, !.afterRun = TRUE]
        <3>1. calls' = [calls EXCEPT ![c] = sent] /\ busy' = busy \cup {<<"load", SettingForm>>}
            BY <1>15, <2>3 DEF Settings!Fails
        <3>2. sent \in Settings!Requests /\ sent.op = "load" /\ sent.afterRun = TRUE
            BY <1>1, SettingsNoCall DEF Settings!NoCall, Settings!Requests, Settings!Ops
        <3>3. /\ calls' \in [Lanes -> Settings!Requests] /\ calls'[c].op = "load"
              /\ calls'[c].afterRun = TRUE /\ \A d \in Lanes \ {c} : calls'[d] = calls[d]
            BY <1>1, <3>1, <3>2
        <3> HIDE DEF sent
        <3>4. busy' \subseteq Settings!Ops \X SettingFields
            BY <1>1, <3>1 DEF Settings!Ops
        <3>5. x1 = "tasks" /\ x1' = "tasks"
            BY <2>1, <2>3 DEF SettingsInv, SettingsFlags
        <3>6. Settings!NoDeadButton'
            <4> SUFFICES ASSUME NEW b \in busy'
                         PROVE  \E d \in Lanes :
                                  \/ calls'[d].op = b[1] /\ (b[1] = "save" => calls'[d].field = b[2])
                                  \/ b[1] = "run" /\ calls'[d].afterRun
                BY DEF Settings!NoDeadButton
            <4>1. CASE b = <<"load", SettingForm>>
                BY <3>3, <4>1
            <4>2. CASE b \in busy
                <5>1. PICK d \in Lanes :
                          \/ calls[d].op = b[1] /\ (b[1] = "save" => calls[d].field = b[2])
                          \/ b[1] = "run" /\ calls[d].afterRun
                    BY <4>2 DEF SettingsInv, SettingsFlags, Settings!NoDeadButton
                <5>2. d # c \/ b[1] = "run"
                    BY <2>3, <5>1
                <5>3. QED
                    BY <3>3, <5>1, <5>2
            <4>3. QED
                BY <3>1, <4>1, <4>2
        <3>7. SettingsFlags'
            <4>1. \A d \in Lanes : /\ calls'[d].afterRun => calls'[d].op = "load" /\ x1' = "tasks"
                                   /\ calls'[d].op = "run" => x1' = "tasks"
                BY <3>3, <3>5 DEF SettingsInv, SettingsFlags
            <4>2. QED
                BY <3>6, <4>1 DEF SettingsFlags
        <3>8. SettingsLoads'
            BY <3>5 DEF SettingsLoads
        <3>9. QED
            BY <1>1, <2>1, <3>3, <3>4, <3>7, <3>8 DEF SettingsInv, Settings!TypeOK
    <2>4. QED
        BY <2>2, <2>3
<1>16. QED
    BY <1>2, <1>3, <1>4, <1>5, <1>6, <1>7, <1>8, <1>9, <1>10, <1>12, <1>13, <1>14, <1>15 DEF Settings!Next

(* From the invariant to what is stated of the tabs; the last is about the *)
(* step that follows.                                                      *)
LEMMA SettingsShows == ASSUME SettingsInv PROVE Settings!TypeOK /\ Settings!NoDeadButton /\ Settings!KeepsTyping
<1>1. Settings!KeepsTyping
    <2> SUFFICES ASSUME NEW c \in Lanes, x1 \in {"network", "dns"}, calls[c].op = "load",
                        x6 > calls[c].since
                 PROVE  calls[c].overlapped
        BY DEF Settings!KeepsTyping
    <2>1. calls[c].since # x6
        BY SettingsTyped DEF SettingsInv
    <2>2. QED
        BY <2>1 DEF SettingsInv, SettingsLoads
<1>2. QED
    BY <1>1 DEF SettingsInv, SettingsFlags
-----------------------------------------------------------------------------
(***************************************************************************)
(* ConfigDialogs.  x1 is the tab, x2 what the server has, x3 the list and  *)
(* x4 its filter, x5 the requests for it, x6 whether it is loading, x7 the *)
(* dialog, x8 its draft, x9 what was typed, x10 and x11 the save, x12 to   *)
(* x14 the deletion, x15 the number of edits.                              *)
(***************************************************************************)
USE NamesAssumption

ConfigsAnswers == (SUBSET Confs) \cup {{"none"}, {"sent"}}
ConfigsRequests == [at : {"none", "sent", "done"}, item : Confs \cup {"none"}, mode : Configs!Modes]
ConfigsSaves == {c \in ConfigsRequests : c.at # "none" => c.item \in Confs}

(* What a save under way is about is an item.                              *)
ConfigsTypes == Configs!TypeOK /\ x10 \in ConfigsSaves

ConfigsInv == ConfigsTypes /\ Configs!NoLeftovers /\ Configs!NoDeadForm

LEMMA ConfigsTyped ==
    ASSUME ConfigsTypes
    PROVE  /\ x1 \in Configs!Tabs /\ x2 \subseteq Confs /\ x3 \subseteq Confs /\ x4 \in Configs!Filters
           /\ x5 \in [Configs!Askers -> ConfigsAnswers]
           /\ x6 \in BOOLEAN /\ x11 \in BOOLEAN /\ x14 \in BOOLEAN
           /\ x7 \in [open : BOOLEAN, mode : Configs!Modes, of : Confs \cup {"blank"}]
           /\ x8 \in [Configs!AllParts -> Configs!Content] /\ x9 \subseteq Configs!AllParts
           /\ x10 \in ConfigsSaves /\ x13 \in ConfigsRequests /\ x12 \in Confs \cup {"none"}
           /\ x15 \in 0..MaxEdits /\ steps \in 0..MaxSteps
BY DEF ConfigsTypes, Configs!TypeOK, ConfigsAnswers, ConfigsRequests

LEMMA ConfigsNoCall == Configs!NoCall \in ConfigsSaves /\ Configs!NoCall \in ConfigsRequests /\ Configs!NoCall.at = "none"
BY DEF Configs!NoCall, ConfigsSaves, ConfigsRequests, Configs!Modes

LEMMA ConfigsParts == ASSUME x1 \in Configs!Tabs PROVE Configs!PartsOf(x1) \subseteq Configs!AllParts
BY DEF Configs!PartsOf, Configs!AllParts

(* It holds when the screen is opened.                                      *)
LEMMA ConfigsInit == ASSUME Configs!Init PROVE ConfigsInv
<1>1. /\ x1 \in Configs!Tabs /\ x2 = Confs /\ x3 = {} /\ x4 = "all"
      /\ x5 = [a \in Configs!Askers |-> IF a = "tab" THEN {"sent"} ELSE {"none"}] /\ x6 = TRUE
      /\ x7 = Configs!Closed /\ x8 = [p \in Configs!AllParts |-> "blank"] /\ x9 = {}
      /\ x10 = Configs!NoCall /\ x11 = FALSE /\ x12 = "none" /\ x13 = Configs!NoCall /\ x14 = FALSE
    BY DEF Configs!Init
<1>2. x15 \in 0..MaxEdits /\ steps \in 0..MaxSteps
    BY DEF Configs!Init
<1>3. x5 \in [Configs!Askers -> ConfigsAnswers] /\ x5["tab"] # {"none"} /\ "tab" \in Configs!Askers
    BY <1>1 DEF ConfigsAnswers, Configs!Askers
<1>4. x7 \in [open : BOOLEAN, mode : Configs!Modes, of : Confs \cup {"blank"}] /\ ~x7.open
    BY <1>1 DEF Configs!Closed, Configs!Modes
<1>5. x8 \in [Configs!AllParts -> Configs!Content] /\ x4 \in Configs!Filters
    BY <1>1 DEF Configs!Content, Configs!Filters
<1>6. ConfigsTypes
    BY <1>1, <1>2, <1>3, <1>4, <1>5, ConfigsNoCall DEF ConfigsTypes, Configs!TypeOK, ConfigsAnswers, ConfigsRequests
<1>7. Configs!NoLeftovers /\ Configs!NoDeadForm
    BY <1>1, <1>3, <1>4 DEF Configs!NoLeftovers, Configs!NoDeadForm
<1>8. QED
    BY <1>6, <1>7 DEF ConfigsInv

(* What a step leaves alone keeps its type; what it changes is given.      *)
LEMMA ConfigsKept ==
    ASSUME ConfigsTypes, x1' = x1, x2' \subseteq Confs, x3' \subseteq Confs, x4' \in Configs!Filters,
           x5' \in [Configs!Askers -> ConfigsAnswers], x6' \in BOOLEAN, x11' \in BOOLEAN,
           x14' \in BOOLEAN, x7' \in [open : BOOLEAN, mode : Configs!Modes, of : Confs \cup {"blank"}],
           x8' \in [Configs!AllParts -> Configs!Content], x9' \subseteq Configs!AllParts, x10' \in ConfigsSaves,
           x13' \in ConfigsRequests, x12' \in Confs \cup {"none"}, x15' \in 0..MaxEdits,
           steps' \in 0..MaxSteps
    PROVE  ConfigsTypes'
BY DEF ConfigsTypes, Configs!TypeOK, ConfigsAnswers, ConfigsRequests, ConfigsSaves

LEMMA ConfigsCount ==
    ASSUME steps \in 0..MaxSteps, x15 \in 0..MaxEdits
    PROVE  /\ steps < MaxSteps /\ steps' = steps + 1 => steps' \in 0..MaxSteps
           /\ x15 < MaxEdits /\ x15' = x15 + 1 => x15' \in 0..MaxEdits
OBVIOUS

(* Every step of the screen keeps it.                                       *)
LEMMA ConfigsStep == ASSUME ConfigsInv, Configs!Next \/ UNCHANGED Configs!vars PROVE ConfigsInv'
<1>1. /\ x1 \in Configs!Tabs /\ x2 \subseteq Confs /\ x3 \subseteq Confs /\ x4 \in Configs!Filters
      /\ x5 \in [Configs!Askers -> ConfigsAnswers]
      /\ x6 \in BOOLEAN /\ x11 \in BOOLEAN /\ x14 \in BOOLEAN
      /\ x7 \in [open : BOOLEAN, mode : Configs!Modes, of : Confs \cup {"blank"}]
      /\ x8 \in [Configs!AllParts -> Configs!Content] /\ x9 \subseteq Configs!AllParts
      /\ x10 \in ConfigsSaves /\ x13 \in ConfigsRequests /\ x12 \in Confs \cup {"none"}
      /\ x15 \in 0..MaxEdits /\ steps \in 0..MaxSteps
    BY ConfigsTyped DEF ConfigsInv
<1>2. ConfigsTypes /\ Configs!NoLeftovers /\ Configs!NoDeadForm
    BY DEF ConfigsInv
<1>3. /\ steps < MaxSteps /\ steps' = steps + 1 => steps' \in 0..MaxSteps
      /\ x15 < MaxEdits /\ x15' = x15 + 1 => x15' \in 0..MaxEdits
    <2>1. x15 \in 0..MaxEdits /\ steps \in 0..MaxSteps
        BY <1>1
    <2>2. QED
        BY <2>1, ConfigsCount
<1>4. {"sent"} # {"none"} /\ x2 # {"none"} /\ x2 \in ConfigsAnswers
      /\ {"sent"} \in ConfigsAnswers /\ {"none"} \in ConfigsAnswers
    BY <1>1 DEF ConfigsAnswers
(* One asker's list is asked for, answered, or has come.                   *)
<1>5. ASSUME NEW a \in Configs!Askers, NEW v \in ConfigsAnswers, x5' = [x5 EXCEPT ![a] = v]
      PROVE  /\ x5' \in [Configs!Askers -> ConfigsAnswers] /\ x5'[a] = v
             /\ \A b \in Configs!Askers \ {a} : x5'[b] = x5[b]
    BY <1>1, <1>5
<1>6. ASSUME NEW a \in Configs!Askers, Configs!ServerLists(a) PROVE ConfigsInv'
    <2>1. /\ x5[a] = {"sent"} /\ x5' = [x5 EXCEPT ![a] = x2]
          /\ UNCHANGED <<x1, x2, x3, x4, x6, x7, x8, x9, x10, x11,
                         x12, x13, x14, x15, steps>>
        BY <1>6 DEF Configs!ServerLists
    <2>2. /\ x5' \in [Configs!Askers -> ConfigsAnswers] /\ x5'[a] # {"none"}
          /\ \A b \in Configs!Askers \ {a} : x5'[b] = x5[b]
        BY <1>4, <1>5, <2>1
    <2>3. \A b \in Configs!Askers : x5[b] # {"none"} => x5'[b] # {"none"}
        BY <2>2
    <2>4. Configs!NoDeadForm'
        BY <1>2, <2>1, <2>3 DEF Configs!NoDeadForm, Configs!Askers
    <2>5. Configs!NoLeftovers'
        BY <1>2, <2>1 DEF Configs!NoLeftovers, Configs!PartsOf
    <2>6. ConfigsTypes'
        BY <1>1, <1>2, <2>1, <2>2, ConfigsKept
    <2>7. QED
        BY <2>4, <2>5, <2>6 DEF ConfigsInv
<1>7. ASSUME NEW a \in Configs!Askers, Configs!ListArrives(a) PROVE ConfigsInv'
    <2>1. /\ x3' = x3 \/ (x5[a] # {"sent"} /\ x3' = x5[a])
          /\ x5[a] # {"none"}
          /\ x5' = [x5 EXCEPT ![a] = {"none"}] /\ x6' = FALSE
          /\ x11' = (x11 /\ a # "save") /\ x14' = (x14 /\ a # "delete")
          /\ UNCHANGED <<x1, x2, x4, x7, x8, x9, x10, x12, x13, x15,
                         steps>>
        BY <1>7 DEF Configs!ListArrives
    <2>2. /\ x5' \in [Configs!Askers -> ConfigsAnswers]
          /\ \A b \in Configs!Askers \ {a} : x5'[b] = x5[b]
        BY <1>4, <1>5, <2>1
    <2>3. x3' \subseteq Confs
        BY <1>1, <2>1 DEF ConfigsAnswers
    <2>4. x11' \in BOOLEAN /\ x14' \in BOOLEAN /\ x6' \in BOOLEAN
        BY <2>1
    <2>5. Configs!NoDeadForm'
        <3>1. x11' => a # "save" /\ x11
            BY <2>1
        <3>2. x14' => a # "delete" /\ x14
            BY <2>1
        <3>3. x11' => x10'.at # "none" \/ x5'["save"] # {"none"}
            BY <1>2, <2>1, <2>2, <3>1 DEF Configs!NoDeadForm, Configs!Askers
        <3>4. x14' => x13'.at # "none" \/ x5'["delete"] # {"none"}
            BY <1>2, <2>1, <2>2, <3>2 DEF Configs!NoDeadForm, Configs!Askers
        <3>5. QED
            BY <2>1, <3>3, <3>4 DEF Configs!NoDeadForm
    <2>6. Configs!NoLeftovers'
        BY <1>2, <2>1 DEF Configs!NoLeftovers, Configs!PartsOf
    <2>7. ConfigsTypes'
        BY <1>1, <1>2, <2>1, <2>2, <2>3, <2>4, ConfigsKept
    <2>8. QED
        BY <2>5, <2>6, <2>7 DEF ConfigsInv
<1>8. CASE Configs!ReopenTab
    <2>1. /\ x5' = [x5 EXCEPT !["tab"] = {"sent"}] /\ x6' = TRUE
          /\ UNCHANGED <<x1, x2, x3, x4, x7, x8, x9, x10, x11, x12,
                         x13, x14, x15>>
          /\ steps < MaxSteps /\ steps' = steps + 1
        BY <1>8 DEF Configs!ReopenTab
    <2>2. /\ x5' \in [Configs!Askers -> ConfigsAnswers] /\ x5'["tab"] = {"sent"}
          /\ \A b \in Configs!Askers \ {"tab"} : x5'[b] = x5[b]
        BY <1>4, <1>5, <2>1 DEF Configs!Askers
    <2>3. Configs!NoDeadForm'
        BY <1>2, <1>4, <2>1, <2>2 DEF Configs!NoDeadForm, Configs!Askers
    <2>4. Configs!NoLeftovers'
        BY <1>2, <2>1 DEF Configs!NoLeftovers, Configs!PartsOf
    <2>5. ConfigsTypes'
        BY <1>1, <1>2, <1>3, <2>1, <2>2, ConfigsKept
    <2>6. QED
        BY <2>3, <2>4, <2>5 DEF ConfigsInv
<1>9. ASSUME NEW mode \in Configs!Modes, NEW of \in Confs \cup {"blank"}, Configs!Opens(mode, of, Configs!PartsOf(x1))
      PROVE  ConfigsInv'
    <2>1. /\ x7' = [open |-> TRUE, mode |-> mode, of |-> of]
          /\ x8' = [p \in Configs!AllParts |-> IF p \in Configs!PartsOf(x1) THEN of ELSE x8[p]] /\ x9' = {}
          /\ UNCHANGED <<x1, x2, x3, x4, x5, x6, x10, x11, x12,
                         x13, x14, x15>>
          /\ steps < MaxSteps /\ steps' = steps + 1
        BY <1>9 DEF Configs!Opens
    <2>2. of \in Configs!Content
        BY DEF Configs!Content
    <2>3. x8' \in [Configs!AllParts -> Configs!Content]
        BY <1>1, <2>1, <2>2
    <2>4. x7' \in [open : BOOLEAN, mode : Configs!Modes, of : Confs \cup {"blank"}] /\ x7'.of = of
        BY <2>1
    <2>5. Configs!PartsOf(x1) \subseteq Configs!AllParts /\ Configs!PartsOf(x1)' = Configs!PartsOf(x1)
        BY <1>1, <2>1, ConfigsParts DEF Configs!PartsOf
    <2>6. Configs!NoLeftovers'
        BY <2>1, <2>4, <2>5 DEF Configs!NoLeftovers
    <2>7. Configs!NoDeadForm'
        BY <1>2, <2>1 DEF Configs!NoDeadForm
    <2>8. ConfigsTypes'
        BY <1>1, <1>2, <1>3, <2>1, <2>3, <2>4, ConfigsKept
    <2>9. QED
        BY <2>6, <2>7, <2>8 DEF ConfigsInv
<1>10. CASE \/ Configs!OpenCreatePolicy \/ Configs!OpenCreateTemplate
            \/ \E i \in Confs : \/ Configs!OpenEditPolicy(i) \/ Configs!OpenClonePolicy(i)
                                \/ Configs!OpenViewTemplate(i) \/ Configs!OpenEditTemplate(i) \/ Configs!OpenCloneTemplate(i)
    <2>1. \E mode \in Configs!Modes, of \in Confs \cup {"blank"} : Configs!Opens(mode, of, Configs!PartsOf(x1))
        BY <1>10 DEF Configs!OpenCreatePolicy, Configs!OpenCreateTemplate, Configs!OpenEditPolicy, Configs!OpenClonePolicy,
                     Configs!OpenViewTemplate, Configs!OpenEditTemplate, Configs!OpenCloneTemplate, Configs!PartsOf, Configs!Modes
    <2>2. QED
        BY <1>9, <2>1
(* The dialog is closed, or the view of a template becomes its clone.      *)
<1>11. ASSUME UNCHANGED <<x1, x8, x9, x11, x10, x14, x13, x15, steps>>,
              x2' = x2, x3' = x3, x4' \in Configs!Filters,
              UNCHANGED <<x5, x6>>, x12' \in Confs \cup {"none"},
              x7' \in [open : BOOLEAN, mode : Configs!Modes, of : Confs \cup {"blank"}],
              x7'.open => x7.open /\ x7'.of = x7.of
       PROVE  ConfigsInv'
    <2>1. Configs!NoLeftovers'
        BY <1>2, <1>11 DEF Configs!NoLeftovers, Configs!PartsOf
    <2>2. Configs!NoDeadForm'
        BY <1>2, <1>11 DEF Configs!NoDeadForm
    <2>3. ConfigsTypes'
        BY <1>1, <1>2, <1>11, ConfigsKept
    <2>4. QED
        BY <2>1, <2>2, <2>3 DEF ConfigsInv
<1>12. CASE Configs!CloneViewed \/ Configs!CloseDialog
    <2>1. /\ UNCHANGED <<x1, x2, x3, x4, x5, x6, x8, x9, x10, x11,
                         x12, x13, x14, x15, steps>>
          /\ x7.open
          /\ x7' = [x7 EXCEPT !.mode = "create"] \/ x7' = [x7 EXCEPT !.open = FALSE]
        BY <1>12 DEF Configs!CloneViewed, Configs!CloseDialog
    <2>2. /\ x7' \in [open : BOOLEAN, mode : Configs!Modes, of : Confs \cup {"blank"}]
          /\ x7'.of = x7.of
        <3>1. x7 \in [open : BOOLEAN, mode : Configs!Modes, of : Confs \cup {"blank"}] /\ "create" \in Configs!Modes
            BY <1>1 DEF Configs!Modes
        <3>2. CASE x7' = [x7 EXCEPT !.mode = "create"]
            BY <3>1, <3>2
        <3>3. CASE x7' = [x7 EXCEPT !.open = FALSE]
            BY <3>1, <3>3
        <3>4. QED
            BY <2>1, <3>2, <3>3
    <2>3. QED
        BY <1>1, <1>11, <2>1, <2>2
<1>13. CASE Configs!DismissDelete \/ \E f \in Configs!Filters : Configs!FilterTemplates(f)
    <2>1. /\ UNCHANGED <<x1, x2, x3, x5, x6, x7, x8, x9, x10, x11,
                         x13, x14, x15, steps>>
          /\ x4' \in Configs!Filters /\ x12' \in Confs \cup {"none"}
        BY <1>1, <1>13 DEF Configs!DismissDelete, Configs!FilterTemplates
    <2>2. QED
        BY <1>1, <1>11, <2>1
<1>14. ASSUME NEW i \in Confs, Configs!AskDeleteTemplate(i) PROVE ConfigsInv'
    <2>1. /\ UNCHANGED <<x1, x2, x3, x4, x5, x6, x7, x8, x9, x10,
                         x11, x13, x14, x15, steps>>
          /\ x12' = i
        BY <1>14 DEF Configs!AskDeleteTemplate
    <2>2. QED
        BY <1>1, <1>11, <2>1
<1>15. ASSUME NEW part, Configs!Edit(part) PROVE ConfigsInv'
    <2>1. /\ x7.open /\ part \in Configs!PartsOf(x1) /\ x8' = [x8 EXCEPT ![part] = "typed"]
          /\ x9' = x9 \cup {part} /\ x15 < MaxEdits /\ x15' = x15 + 1
          /\ UNCHANGED <<x1, x2, x3, x4, x5, x6, x7, x10, x11,
                         x12, x13, x14, steps>>
        BY <1>15 DEF Configs!Edit
    <2>2. Configs!PartsOf(x1) \subseteq Configs!AllParts /\ Configs!PartsOf(x1)' = Configs!PartsOf(x1)
        BY <1>1, <2>1, ConfigsParts DEF Configs!PartsOf
    <2>3. /\ x8' \in [Configs!AllParts -> Configs!Content] /\ x9' \subseteq Configs!AllParts
          /\ \A p \in Configs!AllParts : x8'[p] = IF p = part THEN "typed" ELSE x8[p]
        BY <1>1, <2>1, <2>2 DEF Configs!Content
    <2>4. Configs!NoLeftovers'
        BY <1>2, <2>1, <2>2, <2>3 DEF Configs!NoLeftovers
    <2>5. Configs!NoDeadForm'
        BY <1>2, <2>1 DEF Configs!NoDeadForm
    <2>6. ConfigsTypes'
        BY <1>1, <1>2, <1>3, <2>1, <2>3, ConfigsKept
    <2>7. QED
        BY <2>4, <2>5, <2>6 DEF ConfigsInv
<1>16. CASE \/ Configs!EditIdentity \/ Configs!EditRouting \/ Configs!EditAddresses \/ Configs!EditRoa \/ Configs!EditFilters \/ Configs!EditIngress
            \/ Configs!EditNat \/ Configs!EditImport \/ Configs!EditExport \/ Configs!EditTemplateId \/ Configs!EditTemplateText
    BY <1>15, <1>16 DEF Configs!EditIdentity, Configs!EditRouting, Configs!EditAddresses, Configs!EditRoa, Configs!EditFilters, Configs!EditIngress,
                        Configs!EditNat, Configs!EditImport, Configs!EditExport, Configs!EditTemplateId, Configs!EditTemplateText
(* Requests that leave the fields alone.                                   *)
<1>17. ASSUME UNCHANGED <<x1, x3, x4, x8, x9, x15, steps>>,
              x2' \subseteq Confs, x5' \in [Configs!Askers -> ConfigsAnswers],
              x6' \in BOOLEAN, x11' \in BOOLEAN, x14' \in BOOLEAN,
              x10' \in ConfigsSaves, x13' \in ConfigsRequests,
              x12' \in Confs \cup {"none"},
              x7' = x7 \/ x7' = [x7 EXCEPT !.open = FALSE], Configs!NoDeadForm'
       PROVE  ConfigsInv'
    <2>1. /\ x7' \in [open : BOOLEAN, mode : Configs!Modes, of : Confs \cup {"blank"}]
          /\ x7'.open => x7.open /\ x7'.of = x7.of
        <3>1. x7 \in [open : BOOLEAN, mode : Configs!Modes, of : Confs \cup {"blank"}]
            BY <1>1
        <3>2. QED
            BY <1>17, <3>1
    <2>2. Configs!NoLeftovers'
        BY <1>2, <1>17, <2>1 DEF Configs!NoLeftovers, Configs!PartsOf
    <2>3. ConfigsTypes'
        BY <1>1, <1>2, <1>17, <2>1, ConfigsKept
    <2>4. QED
        BY <1>17, <2>2, <2>3 DEF ConfigsInv
<1>18. ASSUME NEW i \in Confs, Configs!StartSave(i) PROVE ConfigsInv'
    <2>1. /\ x10' = [at |-> "sent", item |-> i, mode |-> x7.mode] /\ x11' = TRUE
          /\ UNCHANGED <<x1, x2, x3, x4, x5, x6, x7, x8, x9,
                         x12, x13, x14, x15, steps>>
        BY <1>18 DEF Configs!StartSave
    <2>2. x10' \in ConfigsSaves /\ x10'.at = "sent"
        BY <1>1, <2>1 DEF ConfigsSaves, ConfigsRequests
    <2>3. Configs!NoDeadForm'
        BY <1>2, <2>1, <2>2 DEF Configs!NoDeadForm
    <2>4. QED
        BY <1>1, <1>17, <2>1, <2>2, <2>3
<1>19. CASE Configs!ServerSaves
    <2>1. /\ x2' = x2 \cup {x10.item} /\ x10' = [x10 EXCEPT !.at = "done"]
          /\ UNCHANGED <<x1, x3, x4, x5, x6, x7, x8, x9, x11,
                         x12, x13, x14, x15, steps>>
          /\ x10.at = "sent" /\ ((x10.mode = "create") <=> (x10.item \notin x2))
        BY <1>19 DEF Configs!ServerSaves
    <2>2. x10' \in ConfigsSaves /\ x10'.at = "done"
        BY <1>1, <2>1 DEF ConfigsSaves, ConfigsRequests
    <2>3. Configs!NoDeadForm'
        BY <1>2, <2>1, <2>2 DEF Configs!NoDeadForm
    <2>4. x2' \subseteq Confs
        BY <1>1, <2>1 DEF ConfigsSaves
    <2>5. QED
        BY <1>1, <1>17, <2>1, <2>2, <2>3, <2>4
<1>20. CASE Configs!Saved
    <2>1. /\ x10' = Configs!NoCall /\ x7' = [x7 EXCEPT !.open = FALSE]
          /\ x5' = [x5 EXCEPT !["save"] = {"sent"}] /\ x6' = TRUE
          /\ UNCHANGED <<x1, x2, x3, x4, x8, x9, x11, x12, x13,
                         x14, x15, steps>>
        BY <1>20 DEF Configs!Saved
    <2>2. /\ x5' \in [Configs!Askers -> ConfigsAnswers] /\ x5'["save"] = {"sent"}
          /\ \A b \in Configs!Askers \ {"save"} : x5'[b] = x5[b]
        BY <1>4, <1>5, <2>1 DEF Configs!Askers
    <2>3. Configs!NoDeadForm'
        BY <1>2, <1>4, <2>1, <2>2 DEF Configs!NoDeadForm, Configs!Askers
    <2>4. QED
        BY <1>1, <1>17, <2>1, <2>2, <2>3, ConfigsNoCall
<1>21. CASE Configs!SaveFails
    <2>1. /\ x10' = Configs!NoCall /\ x11' = FALSE
          /\ UNCHANGED <<x1, x2, x3, x4, x5, x6, x7, x8, x9,
                         x12, x13, x14, x15, steps>>
        BY <1>21 DEF Configs!SaveFails
    <2>2. Configs!NoDeadForm'
        BY <1>2, <2>1 DEF Configs!NoDeadForm
    <2>3. QED
        BY <1>1, <1>17, <2>1, <2>2, ConfigsNoCall
<1>22. ASSUME NEW i \in Confs \cup {"none"}, x13' = [Configs!NoCall EXCEPT !.at = "sent", !.item = i],
              x14' \in BOOLEAN,
              UNCHANGED <<x1, x2, x3, x4, x5, x6, x7, x8, x9, x10,
                          x11, x12, x15, steps>>
       PROVE  ConfigsInv'
    <2>1. x13' \in ConfigsRequests /\ x13'.at = "sent"
        BY <1>22, ConfigsNoCall DEF ConfigsRequests, Configs!NoCall
    <2>2. Configs!NoDeadForm'
        BY <1>2, <1>22, <2>1 DEF Configs!NoDeadForm
    <2>3. QED
        BY <1>1, <1>17, <1>22, <2>1, <2>2
<1>23. CASE Configs!ConfirmDeleteTemplate
    BY <1>1, <1>22, <1>23 DEF Configs!ConfirmDeleteTemplate
<1>24. ASSUME NEW i \in Confs, Configs!HandleDeletePolicy(i) PROVE ConfigsInv'
    BY <1>1, <1>22, <1>24 DEF Configs!HandleDeletePolicy
<1>25. CASE Configs!ServerDeletes
    <2>1. /\ x2' = x2 \ {x13.item} /\ x13' = [x13 EXCEPT !.at = "done"]
          /\ UNCHANGED <<x1, x3, x4, x5, x6, x7, x8, x9, x10, x11,
                         x12, x14, x15, steps>>
        BY <1>25 DEF Configs!ServerDeletes
    <2>2. x13' \in ConfigsRequests /\ x13'.at = "done"
        BY <1>1, <2>1 DEF ConfigsRequests
    <2>3. Configs!NoDeadForm' /\ x2' \subseteq Confs
        BY <1>1, <1>2, <2>1, <2>2 DEF Configs!NoDeadForm
    <2>4. QED
        BY <1>1, <1>17, <2>1, <2>2, <2>3
<1>26. CASE Configs!Deleted
    <2>1. /\ x13' = Configs!NoCall
          /\ UNCHANGED <<x1, x2, x3, x4, x7, x8, x9, x10, x11, x15, steps>>
        BY <1>26 DEF Configs!Deleted
    <2>2. CASE x13.at = "done"
        <3>1. /\ x12' = (IF x1 = "templates" THEN "none" ELSE x12) /\ x14' = x14
              /\ x5' = [x5 EXCEPT !["delete"] = {"sent"}] /\ x6' = TRUE
            BY <1>26, <2>2 DEF Configs!Deleted
        <3>2. /\ x5' \in [Configs!Askers -> ConfigsAnswers] /\ x5'["delete"] = {"sent"}
              /\ \A b \in Configs!Askers \ {"delete"} : x5'[b] = x5[b]
            BY <1>4, <1>5, <3>1 DEF Configs!Askers
        <3>3. Configs!NoDeadForm'
            BY <1>2, <1>4, <2>1, <3>1, <3>2 DEF Configs!NoDeadForm, Configs!Askers
        <3>4. x12' \in Confs \cup {"none"}
            BY <1>1, <3>1
        <3>5. QED
            BY <1>1, <1>17, <2>1, <3>1, <3>2, <3>3, <3>4, ConfigsNoCall
    <2>3. CASE x13.at # "done"
        <3>1. x14' = FALSE /\ UNCHANGED <<x12, x5, x6>>
            BY <1>26, <2>3 DEF Configs!Deleted
        <3>2. Configs!NoDeadForm'
            BY <1>2, <2>1, <3>1 DEF Configs!NoDeadForm
        <3>3. QED
            BY <1>1, <1>17, <2>1, <3>1, <3>2, ConfigsNoCall
    <2>4. QED
        BY <2>2, <2>3
<1>27. CASE UNCHANGED Configs!vars
    <2>1. UNCHANGED <<x1, x2, x3, x4, x5, x6, x7, x8, x9, x10,
                      x11, x12, x13, x14, x15, steps>>
        BY <1>27 DEF Configs!vars
    <2>2. Configs!NoDeadForm'
        BY <1>2, <2>1 DEF Configs!NoDeadForm
    <2>3. QED
        BY <1>1, <1>17, <2>1, <2>2
<1>28. QED
    BY <1>6, <1>7, <1>8, <1>10, <1>12, <1>13, <1>14, <1>16, <1>18, <1>19, <1>20, <1>21, <1>23, <1>24,
       <1>25, <1>26, <1>27 DEF Configs!Next, Configs!LoadPolicies, Configs!LoadTemplates, Configs!HandleSavePolicy, Configs!HandleSaveTemplate

(* From the invariant to what is stated of the screen.                     *)
LEMMA ConfigsShows == ASSUME ConfigsInv PROVE Configs!TypeOK /\ Configs!NoLeftovers /\ Configs!NoDeadForm
BY DEF ConfigsInv, ConfigsTypes
-----------------------------------------------------------------------------
(***************************************************************************)
(* NodeForm.  x1 is whether it is open, x2 the node edited, x3 whether it  *)
(* is external, x4 the draft, x5 the entrypoints, x6 the nodes there are,  *)
(* x7 whether a probe was under way when it opened, x8 the parts touched.  *)
(***************************************************************************)
NodeRequests ==
    [at : {Node!None, "sent", "done"}, of : Nodes \cup {Node!None},
     found : {<<>>, <<"direct">>, <<"fallback", "direct">>}]

(* What the fields hold besides the entrypoints, and the requests.         *)
NodeTypes ==
    /\ x1 \in BOOLEAN /\ x2 \in Nodes \cup {Node!None} /\ x7 \in BOOLEAN
    /\ x4 \in [Node!Parts -> Node!Contents] /\ x8 \subseteq Node!Parts
    /\ busy \subseteq {"probe", "save"} /\ calls \in [{"probe", "save"} -> NodeRequests]

(* A probe that was not under way when the dialog opened was asked for     *)
(* what it is open for.                                                    *)
NodeProbes == x1 /\ ~x7 /\ calls["probe"].at # Node!None => calls["probe"].of = x2

NodeInv == NodeTypes /\ NodeProbes /\ Node!NoLeftovers /\ Node!NotRenamedByProbe /\ Node!NoDeadButton

LEMMA NodeNoCall == Node!NoCall \in NodeRequests /\ Node!NoCall.at = Node!None
BY DEF Node!NoCall, NodeRequests, Node!None

(* It holds when the screen is opened.                                      *)
LEMMA NodeInit == ASSUME Node!Init PROVE NodeInv
<1>1. /\ x1 = FALSE /\ x2 = Node!None /\ x4 = [p \in Node!Parts |-> "blank"]
      /\ calls = [op \in {"probe", "save"} |-> Node!NoCall] /\ busy = {}
      /\ x7 = FALSE /\ x8 = {}
    BY DEF Node!Init
<1>2. x4 \in [Node!Parts -> Node!Contents]
    BY <1>1 DEF Node!Contents
<1>3. calls \in [{"probe", "save"} -> NodeRequests]
    BY <1>1, NodeNoCall
<1>4. QED
    BY <1>1, <1>2, <1>3 DEF NodeInv, NodeTypes, NodeProbes, Node!NoLeftovers, Node!NotRenamedByProbe, Node!NoDeadButton

(* The requests, and what they disable, are left alone.                    *)
LEMMA NodeKeepsCalls ==
    ASSUME NodeInv, UNCHANGED <<calls, busy>> PROVE Node!NoDeadButton'
BY DEF NodeInv, Node!NoDeadButton

(* Every step of the screen keeps it.                                       *)
LEMMA NodeStep == ASSUME NodeInv, Node!Next \/ UNCHANGED Node!vars PROVE NodeInv'
<1>1. /\ x1 \in BOOLEAN /\ x2 \in Nodes \cup {Node!None} /\ x7 \in BOOLEAN
      /\ x4 \in [Node!Parts -> Node!Contents] /\ x8 \subseteq Node!Parts
      /\ busy \subseteq {"probe", "save"} /\ calls \in [{"probe", "save"} -> NodeRequests]
    BY DEF NodeInv, NodeTypes
<1>2. NodeProbes /\ Node!NoLeftovers /\ Node!NotRenamedByProbe /\ Node!NoDeadButton
    BY DEF NodeInv
<1>3. /\ calls["probe"] \in NodeRequests /\ calls["save"] \in NodeRequests
      /\ calls["probe"].at \in {Node!None, "sent", "done"}
    BY <1>1 DEF NodeRequests
<1>4. ASSUME Node!Opens, UNCHANGED <<calls, busy>>, NEW n \in Nodes \cup {Node!None}, x2' = n,
             x4' = [p \in Node!Parts |-> IF n = Node!None THEN "blank" ELSE n]
      PROVE  NodeInv'
    <2>1. x1' = TRUE /\ x7' = (calls["probe"].at # Node!None) /\ x8' = {}
        BY <1>4 DEF Node!Opens
    <2>2. x4' \in [Node!Parts -> Node!Contents]
        BY <1>4 DEF Node!Contents
    <2>3. NodeProbes'
        BY <1>4, <2>1 DEF NodeProbes
    <2>4. Node!NoLeftovers'
        BY <1>4, <2>1 DEF Node!NoLeftovers
    <2>5. x4'["name"] = IF n = Node!None THEN "blank" ELSE n
        BY <1>4 DEF Node!Parts
    <2>6. Node!NotRenamedByProbe'
        BY <1>4, <2>5 DEF Node!NotRenamedByProbe, Node!None
    <2>7. Node!NoDeadButton'
        BY <1>4, NodeKeepsCalls
    <2>8. QED
        BY <1>1, <1>4, <2>1, <2>2, <2>3, <2>4, <2>6, <2>7 DEF NodeInv, NodeTypes
<1>5. CASE Node!OpenAdd
    BY <1>4, <1>5 DEF Node!OpenAdd, Node!FillNew
<1>6. ASSUME NEW n \in Nodes, Node!OpenEdit(n) PROVE NodeInv'
    <2>1. n # Node!None
        BY DEF Node!None
    <2>2. Node!Opens /\ x2' = n /\ UNCHANGED <<calls, busy>> /\ x4' = [p \in Node!Parts |-> n]
        BY <1>6 DEF Node!OpenEdit, Node!FillEdit
    <2>3. QED
        BY <1>4, <2>1, <2>2
<1>7. ASSUME UNCHANGED <<x2, x7, x4, x8>>, x1' = x1 \/ x1' = FALSE,
             busy' \subseteq {"probe", "save"}, calls' \in [{"probe", "save"} -> NodeRequests],
             calls'["probe"].at # Node!None => calls["probe"].at # Node!None /\ calls'["probe"].of = calls["probe"].of,
             Node!NoDeadButton'
      PROVE  NodeInv'
    <2>1. CASE x1' = x1
        BY <1>1, <1>2, <1>7, <2>1
           DEF NodeInv, NodeTypes, NodeProbes, Node!NoLeftovers, Node!NotRenamedByProbe
    <2>2. CASE x1' = FALSE
        BY <1>1, <1>7, <2>2 DEF NodeInv, NodeTypes, NodeProbes, Node!NoLeftovers, Node!NotRenamedByProbe
    <2>3. QED
        BY <1>7, <2>1, <2>2
<1>8. CASE Node!Close \/ Node!ChooseManaged \/ Node!ChooseExternal
    <2>1. /\ UNCHANGED <<x2, x7, x4, x8, calls, busy>>
          /\ x1' = x1 \/ x1' = FALSE
        BY <1>8 DEF Node!Close, Node!ChooseManaged, Node!ChooseExternal
    <2>2. QED
        BY <1>1, <1>7, <2>1, NodeKeepsCalls
<1>9. ASSUME NEW part \in Node!Parts, x4' = [x4 EXCEPT ![part] = "typed"],
             x8' = x8 \cup {part}, UNCHANGED <<x1, x2, calls, busy, x7>>
      PROVE  NodeInv'
    <2>1. /\ x4' \in [Node!Parts -> Node!Contents] /\ x8' \subseteq Node!Parts
          /\ \A p \in Node!Parts : x4'[p] = IF p = part THEN "typed" ELSE x4[p]
        BY <1>1, <1>9 DEF Node!Contents
    <2>2. Node!NoLeftovers'
        BY <1>2, <1>9, <2>1 DEF Node!NoLeftovers
    <2>3. Node!NotRenamedByProbe'
        BY <1>2, <1>9, <2>1 DEF Node!NotRenamedByProbe, Node!Parts
    <2>4. NodeProbes'
        BY <1>2, <1>9 DEF NodeProbes
    <2>5. QED
        BY <1>1, <1>9, <2>1, <2>2, <2>3, <2>4, NodeKeepsCalls DEF NodeInv, NodeTypes
<1>10. ASSUME NEW part \in Node!Parts, Node!Edit(part) PROVE NodeInv'
    BY <1>9, <1>10 DEF Node!Edit
<1>11. CASE \/ Node!EditHost \/ Node!EditPeerName \/ Node!EditName \/ Node!EditPeer \/ Node!EditAddresses \/ Node!EditTexts
            \/ Node!EditRouting \/ Node!EditHooks \/ Node!EditTemplates
    BY <1>10, <1>11 DEF Node!EditHost, Node!EditPeerName, Node!EditName, Node!EditPeer, Node!EditAddresses, Node!EditTexts,
                        Node!EditRouting, Node!EditHooks, Node!EditTemplates, Node!Parts
<1>12. CASE Node!HandleAddEntrypoint \/ \E i \in 1..(MaxEntries + 1) : Node!HandleRemoveEntrypoint(i)
    <2>1. /\ x4' = [x4 EXCEPT !["entrypoints"] = "typed"]
          /\ x8' = x8 \cup {"entrypoints"} /\ UNCHANGED <<x1, x2, calls, busy, x7>>
        BY <1>12 DEF Node!HandleAddEntrypoint, Node!HandleRemoveEntrypoint, Node!EditEntrypoints
    <2>2. "entrypoints" \in Node!Parts
        BY DEF Node!Parts
    <2>3. QED
        BY <1>9, <2>1, <2>2
<1>13. ASSUME NEW op \in {"probe", "save"}, NEW c \in NodeRequests,
              calls' = [calls EXCEPT ![op] = c]
       PROVE  /\ calls' \in [{"probe", "save"} -> NodeRequests] /\ calls'[op] = c
              /\ \A q \in {"probe", "save"} \ {op} : calls'[q] = calls[q]
    BY <1>1, <1>13
<1>14. CASE Node!HandleProbe
    <2> DEFINE c == [Node!NoCall EXCEPT !.at = "sent", !.of = x2]
    <2>1. /\ calls' = [calls EXCEPT !["probe"] = c] /\ busy' = busy \cup {"probe"}
          /\ UNCHANGED <<x1, x2, x4, x7, x8>>
        BY <1>14 DEF Node!HandleProbe
    <2>2. c \in NodeRequests /\ c.at = "sent" /\ c.of = x2
        BY <1>1, NodeNoCall DEF NodeRequests, Node!NoCall
    <2> HIDE DEF c
    <2>3. /\ calls' \in [{"probe", "save"} -> NodeRequests] /\ calls'["probe"] = c
          /\ calls'["save"] = calls["save"]
        BY <1>13, <2>1, <2>2
    <2>4. NodeProbes'
        BY <2>1, <2>2, <2>3 DEF NodeProbes
    <2>5. Node!NoDeadButton'
        BY <1>1, <1>2, <2>1, <2>2, <2>3 DEF Node!NoDeadButton, Node!None
    <2>6. Node!NoLeftovers' /\ Node!NotRenamedByProbe'
        BY <1>2, <2>1 DEF Node!NoLeftovers, Node!NotRenamedByProbe
    <2>7. busy' \subseteq {"probe", "save"}
        BY <1>1, <2>1
    <2>8. QED
        BY <1>1, <2>1, <2>3, <2>4, <2>5, <2>6, <2>7 DEF NodeInv, NodeTypes
<1>15. CASE Node!ServerProbes
    <2>1. PICK found \in {<<>>, <<"direct">>, <<"fallback", "direct">>} :
              calls' = [calls EXCEPT !["probe"].at = "done", !["probe"].found = found]
        BY <1>15 DEF Node!ServerProbes
    <2> DEFINE c == [calls["probe"] EXCEPT !.at = "done", !.found = found]
    <2>2. calls["probe"].at = "sent" /\ UNCHANGED <<x1, x2, x4, x7, x8, busy>>
        BY <1>15 DEF Node!ServerProbes
    <2>3. calls' = [calls EXCEPT !["probe"] = c]
        BY <1>1, <1>3, <2>1 DEF NodeRequests
    <2>4. c \in NodeRequests /\ c.at = "done" /\ c.of = calls["probe"].of
        BY <1>3 DEF NodeRequests
    <2> HIDE DEF c
    <2>5. /\ calls' \in [{"probe", "save"} -> NodeRequests] /\ calls'["probe"] = c
          /\ calls'["save"] = calls["save"]
        BY <1>13, <2>3, <2>4
    <2>6. Node!NoDeadButton'
        BY <1>1, <1>2, <2>2, <2>4, <2>5 DEF Node!NoDeadButton, Node!None
    <2>7. calls'["probe"].at # Node!None => calls["probe"].at # Node!None /\ calls'["probe"].of = calls["probe"].of
        BY <2>2, <2>4, <2>5 DEF Node!None
    <2>8. QED
        BY <1>1, <1>7, <2>2, <2>5, <2>6, <2>7
<1>16. CASE Node!ProbeArrives
    <2> DEFINE found == calls["probe"].found
               fills == {"addresses"} \cup (IF found = <<>> THEN {} ELSE {"entrypoints"})
                        \cup (IF calls["probe"].of = Node!None THEN {"name"} ELSE {})
    <2>1. /\ x4' = [p \in Node!Parts |-> IF p \in fills THEN "probed" ELSE x4[p]]
          /\ x8' = x8 \cup fills
          /\ calls' = [calls EXCEPT !["probe"] = Node!NoCall] /\ busy' = busy \ {"probe"}
          /\ calls["probe"].at = "done" /\ UNCHANGED <<x1, x2, x7>>
        BY <1>16 DEF Node!ProbeArrives
    <2>2. fills \subseteq Node!Parts /\ ("name" \in fills <=> calls["probe"].of = Node!None)
        BY DEF Node!Parts
    <2> HIDE DEF fills
    <2>3. /\ x4' \in [Node!Parts -> Node!Contents] /\ x8' \subseteq Node!Parts
          /\ \A p \in Node!Parts : x4'[p] = IF p \in fills THEN "probed" ELSE x4[p]
        BY <1>1, <2>1, <2>2 DEF Node!Contents
    <2>4. Node!NoLeftovers'
        BY <1>2, <2>1, <2>3 DEF Node!NoLeftovers
    <2>5. Node!NotRenamedByProbe'
        BY <1>2, <2>1, <2>2, <2>3 DEF Node!NotRenamedByProbe, NodeProbes, Node!Parts, Node!None
    <2>6. /\ calls' \in [{"probe", "save"} -> NodeRequests] /\ calls'["probe"] = Node!NoCall
          /\ calls'["save"] = calls["save"]
        BY <1>13, <2>1, NodeNoCall
    <2>7. Node!NoDeadButton' /\ busy' \subseteq {"probe", "save"}
        BY <1>1, <1>2, <2>1, <2>6 DEF Node!NoDeadButton
    <2>8. NodeProbes'
        BY <2>6, NodeNoCall DEF NodeProbes
    <2>9. QED
        BY <1>1, <2>1, <2>3, <2>4, <2>5, <2>6, <2>7, <2>8 DEF NodeInv, NodeTypes
<1>17. ASSUME NEW n \in Nodes, Node!HandleSubmit(n) PROVE NodeInv'
    <2> DEFINE c == [Node!NoCall EXCEPT !.at = "sent", !.of = n]
    <2>1. /\ calls' = [calls EXCEPT !["save"] = c] /\ busy' = busy \cup {"save"}
          /\ UNCHANGED <<x1, x2, x4, x7, x8>>
        BY <1>17 DEF Node!HandleSubmit
    <2>2. c \in NodeRequests /\ c.at = "sent"
        BY NodeNoCall DEF NodeRequests, Node!NoCall
    <2> HIDE DEF c
    <2>3. /\ calls' \in [{"probe", "save"} -> NodeRequests] /\ calls'["save"] = c
          /\ calls'["probe"] = calls["probe"]
        BY <1>13, <2>1, <2>2
    <2>4. Node!NoDeadButton' /\ busy' \subseteq {"probe", "save"}
        BY <1>1, <1>2, <2>1, <2>2, <2>3 DEF Node!NoDeadButton, Node!None
    <2>5. QED
        BY <1>7, <2>1, <2>3, <2>4
<1>18. CASE Node!ServerSaves
    <2> DEFINE c == [calls["save"] EXCEPT !.at = "done"]
    <2>1. /\ calls["save"].at = "sent" /\ calls' = [calls EXCEPT !["save"].at = "done"]
          /\ UNCHANGED <<x1, x2, x4, x7, x8, busy>>
        BY <1>18 DEF Node!ServerSaves
    <2>2. calls' = [calls EXCEPT !["save"] = c]
        BY <1>1, <1>3, <2>1 DEF NodeRequests
    <2>3. c \in NodeRequests /\ c.at = "done"
        BY <1>3 DEF NodeRequests
    <2> HIDE DEF c
    <2>4. /\ calls' \in [{"probe", "save"} -> NodeRequests] /\ calls'["save"] = c
          /\ calls'["probe"] = calls["probe"]
        BY <1>13, <2>2, <2>3
    <2>5. Node!NoDeadButton'
        BY <1>1, <1>2, <2>1, <2>3, <2>4 DEF Node!NoDeadButton, Node!None
    <2>6. QED
        BY <1>1, <1>7, <2>1, <2>4, <2>5
<1>19. ASSUME NEW op \in {"probe", "save"}, calls' = [calls EXCEPT ![op] = Node!NoCall], busy' = busy \ {op},
              UNCHANGED <<x2, x4, x7, x8>>, x1' = x1 \/ x1' = FALSE
       PROVE  NodeInv'
    <2>1. /\ calls' \in [{"probe", "save"} -> NodeRequests] /\ calls'[op] = Node!NoCall
          /\ \A q \in {"probe", "save"} \ {op} : calls'[q] = calls[q]
        BY <1>13, <1>19, NodeNoCall
    <2>2. Node!NoDeadButton' /\ busy' \subseteq {"probe", "save"}
        BY <1>1, <1>2, <1>19, <2>1 DEF Node!NoDeadButton
    <2>3. calls'["probe"].at # Node!None => calls["probe"].at # Node!None /\ calls'["probe"].of = calls["probe"].of
        BY <2>1, NodeNoCall
    <2>4. QED
        BY <1>7, <1>19, <2>1, <2>2, <2>3
<1>20. CASE Node!Saved \/ \E op \in {"probe", "save"} : Node!Fails(op)
    BY <1>19, <1>20 DEF Node!Saved, Node!Fails
<1>21. CASE UNCHANGED Node!vars
    BY <1>1, <1>7, <1>21, NodeKeepsCalls DEF Node!vars
<1>22. QED
    BY <1>5, <1>6, <1>8, <1>11, <1>12, <1>14, <1>15, <1>16, <1>17, <1>18, <1>20, <1>21 DEF Node!Next

(* From the invariant to what is stated of the screen.                     *)
LEMMA NodeShows == ASSUME NodeInv PROVE Node!NoLeftovers /\ Node!NotRenamedByProbe /\ Node!NoDeadButton
BY DEF NodeInv

(* The lists there are: entries with an address, then those without.       *)
NodeList(k, j) == [i \in 1..(k + j) |-> IF i <= k THEN "direct" ELSE "fallback"]
NodeLists(eps, ext) ==
    \E k \in 0..MaxEntries, j \in {0, 1} : eps = NodeList(k, j) /\ (~ext => j = 1)

(* The form counts as FiniteSets does.                                     *)
LEMMA NodeSizes == \A S : Node!Cardinality(S) = Cardinality(S)
BY DEF Node!Cardinality, Cardinality

(* How many entries of either kind such a list has.                        *)
LEMMA NodeCounts ==
    ASSUME NEW k \in Nat, NEW j \in Nat
    PROVE  /\ DOMAIN NodeList(k, j) = 1..(k + j) /\ Len(NodeList(k, j)) = k + j
           /\ {i \in DOMAIN NodeList(k, j) : NodeList(k, j)[i] = "direct"} = 1..k
           /\ {i \in DOMAIN NodeList(k, j) : NodeList(k, j)[i] = "fallback"} = (k + 1)..(k + j)
           /\ Node!Cardinality(1..k) = k /\ Node!Cardinality((k + 1)..(k + j)) = j /\ IsFiniteSet(1..k)
<1>1. DOMAIN NodeList(k, j) = 1..(k + j) /\ Len(NodeList(k, j)) = k + j
    BY DEF NodeList
<1>2. \A i \in 1..(k + j) : NodeList(k, j)[i] = IF i <= k THEN "direct" ELSE "fallback"
    BY DEF NodeList
<1>3. \A i : (i \in 1..(k + j) /\ i <= k) <=> i \in 1..k
    OBVIOUS
<1>4. \A i : (i \in 1..(k + j) /\ ~(i <= k)) <=> i \in (k + 1)..(k + j)
    OBVIOUS
<1>5. Node!Cardinality(1..k) = k /\ IsFiniteSet(1..k)
    BY FS_Interval, NodeSizes
<1>6. Node!Cardinality((k + 1)..(k + j)) = j
    BY FS_Interval, NodeSizes
<1>7. {i \in DOMAIN NodeList(k, j) : NodeList(k, j)[i] = "direct"} = 1..k
    BY <1>1, <1>2, <1>3
<1>8. {i \in DOMAIN NodeList(k, j) : NodeList(k, j)[i] = "fallback"} = (k + 1)..(k + j)
    BY <1>1, <1>2, <1>4
<1>9. QED
    BY <1>1, <1>5, <1>6, <1>7, <1>8

(* What a list is brought to that has so and so many entries of each kind. *)
LEMMA NodeEnsures ==
    ASSUME NEW eps, NEW k \in Nat, NEW j \in Nat,
           Node!Cardinality({i \in DOMAIN eps : eps[i] = "direct"}) = k,
           Node!Cardinality({i \in DOMAIN eps : eps[i] = "fallback"}) = j
    PROVE  Node!EnsureFallbackLast(eps) = NodeList(k, j)
<1>1. Node!EntriesOf(eps, "direct") = [i \in 1..k |-> "direct"] /\ Node!EntriesOf(eps, "fallback") = [i \in 1..j |-> "fallback"]
    BY DEF Node!EntriesOf
<1>2. [i \in 1..k |-> "direct"] \in [1..k -> Node!Entries]
    BY DEF Node!Entries
<1>3. [i \in 1..j |-> "fallback"] \in [1..j -> Node!Entries]
    BY DEF Node!Entries
<1>4. /\ \A i \in 1..k : [n \in 1..k |-> "direct"][i] = "direct"
      /\ \A i \in 1..j : [n \in 1..j |-> "fallback"][i] = "fallback"
    OBVIOUS
<1>5. PICK d : d = [i \in 1..k |-> "direct"]
    OBVIOUS
<1>6. PICK f : f = [i \in 1..j |-> "fallback"]
    OBVIOUS
<1>7. d \in Seq(Node!Entries) /\ f \in Seq(Node!Entries) /\ Len(d) = k /\ Len(f) = j
    <2>1. d \in [1..k -> Node!Entries] /\ f \in [1..j -> Node!Entries]
        BY <1>2, <1>3, <1>5, <1>6
    <2>2. d \in Seq(Node!Entries) /\ f \in Seq(Node!Entries)
        BY <2>1, SeqDef
    <2>3. DOMAIN d = 1..k /\ DOMAIN f = 1..j
        BY <2>1
    <2>4. DOMAIN d = 1..Len(d) /\ DOMAIN f = 1..Len(f) /\ Len(d) \in Nat /\ Len(f) \in Nat
        BY <2>2, LenProperties
    <2>5. \A m, n \in Nat : 1..m = 1..n => m = n
        OBVIOUS
    <2>6. QED
        BY <2>2, <2>3, <2>4, <2>5
<1>8. /\ d \o f \in Seq(Node!Entries) /\ Len(d \o f) = k + j
      /\ \A i \in 1..(k + j) : (d \o f)[i] = IF i <= k THEN d[i] ELSE f[i - k]
    BY <1>7
<1>9. \A i \in 1..(k + j) : (d \o f)[i] = IF i <= k THEN "direct" ELSE "fallback"
    <2>1. (\A i \in 1..k : d[i] = "direct") /\ (\A i \in 1..j : f[i] = "fallback")
        BY <1>4, <1>5, <1>6
    <2>2. ASSUME NEW i \in 1..(k + j), i <= k PROVE (d \o f)[i] = "direct"
        BY <1>8, <2>1, <2>2
    <2>3. ASSUME NEW i \in 1..(k + j), ~(i <= k) PROVE (d \o f)[i] = "fallback"
        <3>1. i - k \in 1..j
            BY <2>3
        <3>2. QED
            BY <1>8, <2>1, <2>3, <3>1
    <2>4. QED
        BY <2>2, <2>3
<1>10. d \o f = [i \in 1..(k + j) |-> (d \o f)[i]]
    <2>1. PICK s : s = d \o f
        OBVIOUS
    <2>2. s \in [1..(k + j) -> Node!Entries]
        BY <1>8, <2>1, LenProperties
    <2>3. QED
        BY <2>1, <2>2
<1>11. d \o f = NodeList(k, j)
    BY <1>9, <1>10 DEF NodeList
<1>12. QED
    BY <1>1, <1>5, <1>6, <1>11 DEF Node!EnsureFallbackLast

(* It is a list of entries.                                                *)
LEMMA NodeSeq ==
    ASSUME NEW k \in Nat, NEW j \in Nat
    PROVE  /\ NodeList(k, j) \in Seq(Node!Entries) /\ Len(NodeList(k, j)) = k + j
           /\ \A i \in 1..(k + j) : NodeList(k, j)[i] = IF i <= k THEN "direct" ELSE "fallback"
<1>1. NodeList(k, j) \in [1..(k + j) -> Node!Entries]
    BY DEF NodeList, Node!Entries
<1>2. NodeList(k, j) \in Seq(Node!Entries)
    <2>1. k + j \in Nat
        OBVIOUS
    <2>2. PICK n : n = k + j
        OBVIOUS
    <2>3. QED
        BY <1>1, <2>1, <2>2, SeqDef
<1>3. Len(NodeList(k, j)) = k + j
    BY NodeCounts
<1>4. \A i \in 1..(k + j) : NodeList(k, j)[i] = IF i <= k THEN "direct" ELSE "fallback"
    BY DEF NodeList
<1>5. QED
    BY <1>2, <1>3, <1>4

(* A list is left as it is, and one entry more, wherever it is added.      *)
LEMMA NodeKept ==
    ASSUME NEW k \in Nat, NEW j \in Nat PROVE Node!EnsureFallbackLast(NodeList(k, j)) = NodeList(k, j)
<1>1. Node!Cardinality({i \in DOMAIN NodeList(k, j) : NodeList(k, j)[i] = "direct"}) = k
    <2>1. {i \in DOMAIN NodeList(k, j) : NodeList(k, j)[i] = "direct"} = 1..k
        BY NodeCounts
    <2>2. Node!Cardinality(1..k) = k
        BY NodeCounts
    <2>3. QED
        BY <2>1, <2>2
<1>2. Node!Cardinality({i \in DOMAIN NodeList(k, j) : NodeList(k, j)[i] = "fallback"}) = j
    <2>1. {i \in DOMAIN NodeList(k, j) : NodeList(k, j)[i] = "fallback"} = (k + 1)..(k + j)
        BY NodeCounts
    <2>2. Node!Cardinality((k + 1)..(k + j)) = j
        BY NodeCounts
    <2>3. QED
        BY <2>1, <2>2
<1>3. QED
    BY <1>1, <1>2, NodeEnsures

LEMMA NodeMore ==
    ASSUME NEW k \in Nat, NEW j \in Nat
    PROVE  /\ Append(NodeList(k, j), "fallback") = NodeList(k, j + 1)
           /\ Node!EnsureFallbackLast(Append(NodeList(k, j), "direct")) = NodeList(k + 1, j)
<1>1. PICK s : s = NodeList(k, j)
    OBVIOUS
<1>2. /\ s \in Seq(Node!Entries) /\ Len(s) = k + j
      /\ \A i \in 1..(k + j) : s[i] = IF i <= k THEN "direct" ELSE "fallback"
    BY <1>1, NodeSeq
<1>3. ASSUME NEW e \in Node!Entries
      PROVE  /\ Append(s, e) \in Seq(Node!Entries) /\ Len(Append(s, e)) = k + j + 1
             /\ DOMAIN Append(s, e) = 1..(k + j + 1)
             /\ \A i \in 1..(k + j) : Append(s, e)[i] = s[i]
             /\ Append(s, e)[k + j + 1] = e
    BY <1>2, AppendProperties, LenProperties
<1>4. Append(s, "fallback") = NodeList(k, j + 1)
    <2>1. PICK t : t = Append(s, "fallback")
        OBVIOUS
    <2>2. /\ t \in Seq(Node!Entries) /\ Len(t) = k + j + 1
          /\ \A i \in 1..(k + j) : t[i] = s[i]
          /\ t[k + j + 1] = "fallback"
        BY <1>3, <2>1 DEF Node!Entries
    <2>3. PICK u : u = NodeList(k, j + 1)
        OBVIOUS
    <2>4. /\ u \in Seq(Node!Entries) /\ Len(u) = k + j + 1
          /\ \A i \in 1..(k + j + 1) : u[i] = IF i <= k THEN "direct" ELSE "fallback"
        <3>1. PICK m : m = j + 1
            OBVIOUS
        <3>2. m \in Nat /\ k + m = k + j + 1 /\ u = NodeList(k, m)
            BY <2>3, <3>1
        <3>3. u \in Seq(Node!Entries) /\ Len(u) = k + m
            BY <3>2, NodeSeq
        <3>4. \A i \in 1..(k + m) : u[i] = IF i <= k THEN "direct" ELSE "fallback"
            BY <3>2, NodeSeq
        <3>5. QED
            BY <3>2, <3>3, <3>4
    <2>5. \A i \in 1..(k + j + 1) : i \in 1..(k + j) \/ (i = k + j + 1 /\ ~(i <= k))
        OBVIOUS
    <2>6. \A i \in 1..(k + j + 1) : t[i] = u[i]
        BY <1>2, <2>2, <2>4, <2>5
    <2>7. t = u
        BY <2>2, <2>4, <2>6, SeqEqual
    <2>8. QED
        BY <2>1, <2>3, <2>7
<1>5. Node!EnsureFallbackLast(Append(s, "direct")) = NodeList(k + 1, j)
    <2>1. PICK t : t = Append(s, "direct")
        OBVIOUS
    <2>2. /\ DOMAIN t = 1..(k + j + 1)
          /\ \A i \in 1..(k + j) : t[i] = IF i <= k THEN "direct" ELSE "fallback"
          /\ t[k + j + 1] = "direct"
        BY <1>2, <1>3, <2>1 DEF Node!Entries
    <2>3. {i \in DOMAIN t : t[i] = "direct"} = (1..k) \cup {k + j + 1}
        <3>1. \A i : i \in 1..(k + j + 1) <=> i \in 1..k \/ i \in (k + 1)..(k + j) \/ i = k + j + 1
            OBVIOUS
        <3>2. \A i \in 1..k : t[i] = "direct"
            BY <2>2
        <3>3. \A i \in (k + 1)..(k + j) : t[i] = "fallback"
            BY <2>2
        <3>4. QED
            BY <2>2, <3>1, <3>2, <3>3
    <2>4. {i \in DOMAIN t : t[i] = "fallback"} = (k + 1)..(k + j)
        <3>1. \A i : i \in 1..(k + j + 1) <=> i \in 1..k \/ i \in (k + 1)..(k + j) \/ i = k + j + 1
            OBVIOUS
        <3>2. \A i \in 1..k : t[i] = "direct"
            BY <2>2
        <3>3. \A i \in (k + 1)..(k + j) : t[i] = "fallback"
            BY <2>2
        <3>4. QED
            BY <2>2, <3>1, <3>2, <3>3
    <2>5. Node!Cardinality((1..k) \cup {k + j + 1}) = k + 1
        <3>1. ~(k + j + 1 \in 1..k)
            OBVIOUS
        <3>2. IsFiniteSet(1..k) /\ Node!Cardinality(1..k) = k
            BY NodeCounts
        <3>3. PICK S : S = 1..k
            OBVIOUS
        <3>4. Node!Cardinality(S \cup {k + j + 1}) = Node!Cardinality(S) + 1
            BY <3>1, <3>2, <3>3, FS_AddElement, NodeSizes
        <3>5. QED
            BY <3>2, <3>3, <3>4
    <2>6. Node!Cardinality((k + 1)..(k + j)) = j
        BY NodeCounts
    <2>7. Node!Cardinality({i \in DOMAIN t : t[i] = "direct"}) = k + 1
        BY <2>3, <2>5
    <2>8. Node!Cardinality({i \in DOMAIN t : t[i] = "fallback"}) = j
        BY <2>4, <2>6
    <2>9. k + 1 \in Nat
        OBVIOUS
    <2>10. Node!EnsureFallbackLast(t) = NodeList(k + 1, j)
        BY <2>7, <2>8, <2>9, NodeEnsures
    <2>11. QED
        BY <2>1, <2>10
<1>6. QED
    BY <1>1, <1>4, <1>5

(* One entry less, wherever it is removed.                                 *)
LEMMA NodeLess ==
    ASSUME NEW k \in Nat, NEW j \in Nat, NEW i \in 1..(k + j)
    PROVE  \/ i <= k /\ Node!RemoveAt(NodeList(k, j), i) = NodeList(k - 1, j)
           \/ k < i /\ Node!RemoveAt(NodeList(k, j), i) = NodeList(k, j - 1)
<1>1. PICK s : s = NodeList(k, j)
    OBVIOUS
<1>2. /\ s \in Seq(Node!Entries) /\ Len(s) = k + j
      /\ \A n \in 1..(k + j) : s[n] = IF n <= k THEN "direct" ELSE "fallback"
    BY <1>1, NodeSeq
<1>3. PICK a : a = SubSeq(s, 1, i - 1)
    OBVIOUS
<1>4. PICK b : b = SubSeq(s, i + 1, k + j)
    OBVIOUS
<1>5. \A n \in 1..(k + j) : s[n] \in Node!Entries
    BY <1>2, ElementOfSeq
<1>6. /\ a \in Seq(Node!Entries) /\ Len(a) = i - 1
      /\ \A n \in 1..(i - 1) : a[n] = s[n]
    <2>1. /\ \A n \in 1..(i - 1) : s[n] \in Node!Entries
          /\ 1 \in Int /\ i - 1 \in Int /\ (i - 1) - 1 + 1 = i - 1 /\ (1 <= i - 1 \/ i - 1 = 0)
        BY <1>5
    <2>2. /\ a \in Seq(Node!Entries) /\ Len(a) = IF 1 <= i - 1 THEN (i - 1) - 1 + 1 ELSE 0
          /\ \A n \in 1..((i - 1) - 1 + 1) : a[n] = s[1 + n - 1]
        BY <1>3, <2>1, SubSeqProperties
    <2>3. \A n \in 1..(i - 1) : 1 + n - 1 = n
        OBVIOUS
    <2>4. QED
        BY <2>1, <2>2, <2>3
<1>7. /\ b \in Seq(Node!Entries) /\ Len(b) = k + j - i
      /\ \A n \in 1..(k + j - i) : b[n] = s[n + i]
    <2>1. /\ \A n \in (i + 1)..(k + j) : s[n] \in Node!Entries
          /\ i + 1 \in Int /\ k + j \in Int /\ (k + j) - (i + 1) + 1 = k + j - i
          /\ (i + 1 <= k + j \/ k + j - i = 0)
        BY <1>5
    <2>2. /\ b \in Seq(Node!Entries) /\ Len(b) = IF i + 1 <= k + j THEN (k + j) - (i + 1) + 1 ELSE 0
          /\ \A n \in 1..((k + j) - (i + 1) + 1) : b[n] = s[(i + 1) + n - 1]
        BY <1>4, <2>1, SubSeqProperties
    <2>3. \A n \in 1..(k + j - i) : (i + 1) + n - 1 = n + i
        OBVIOUS
    <2>4. QED
        BY <2>1, <2>2, <2>3
<1>8. PICK t : t = a \o b
    OBVIOUS
<1>9. /\ t \in Seq(Node!Entries) /\ Len(t) = k + j - 1
      /\ \A n \in 1..(k + j - 1) : t[n] = IF n <= i - 1 THEN a[n] ELSE b[n - (i - 1)]
    <2>1. /\ t \in Seq(Node!Entries) /\ Len(t) = Len(a) + Len(b)
          /\ \A n \in 1..(Len(a) + Len(b)) : t[n] = IF n <= Len(a) THEN a[n] ELSE b[n - Len(a)]
        <3>1. a \in Seq(Node!Entries) /\ b \in Seq(Node!Entries)
            BY <1>6, <1>7
        <3>2. t \in Seq(Node!Entries)
            BY <1>8, <3>1, ConcatProperties
        <3>3. Len(t) = Len(a) + Len(b)
            BY <1>8, <3>1, ConcatProperties
        <3>4. \A n \in 1..(Len(a) + Len(b)) : t[n] = IF n <= Len(a) THEN a[n] ELSE b[n - Len(a)]
            BY <1>8, <3>1, ConcatProperties
        <3>5. QED
            BY <3>2, <3>3, <3>4
    <2>2. (i - 1) + (k + j - i) = k + j - 1
        OBVIOUS
    <2>3. QED
        BY <1>6, <1>7, <2>1, <2>2
<1>10. \A n \in 1..(k + j - 1) : t[n] = IF n <= i - 1 THEN s[n] ELSE s[n + 1]
    <2>1. ASSUME NEW n \in 1..(k + j - 1), n <= i - 1 PROVE t[n] = s[n]
        BY <1>6, <1>9, <2>1
    <2>2. ASSUME NEW n \in 1..(k + j - 1), ~(n <= i - 1) PROVE t[n] = s[n + 1]
        <3>1. n - (i - 1) \in 1..(k + j - i) /\ (n - (i - 1)) + i = n + 1
            BY <2>2
        <3>2. QED
            BY <1>7, <1>9, <2>2, <3>1
    <2>3. QED
        BY <2>1, <2>2
<1>11. Node!RemoveAt(s, i) = t
    BY <1>2, <1>3, <1>4, <1>8 DEF Node!RemoveAt
<1>12. ASSUME NEW k1 \in Nat, NEW j1 \in Nat, k1 + j1 = k + j - 1,
              \A n \in 1..(k + j - 1) : t[n] = IF n <= k1 THEN "direct" ELSE "fallback"
       PROVE  t = NodeList(k1, j1)
    <2>1. PICK u : u = NodeList(k1, j1)
        OBVIOUS
    <2>2. /\ u \in Seq(Node!Entries) /\ Len(u) = k + j - 1
          /\ \A n \in 1..(k + j - 1) : u[n] = IF n <= k1 THEN "direct" ELSE "fallback"
        BY <1>12, <2>1, NodeSeq
    <2>3. \A n \in 1..(k + j - 1) : t[n] = u[n]
        BY <1>12, <2>2
    <2>4. t = u
        BY <1>9, <2>2, <2>3, SeqEqual
    <2>5. QED
        BY <2>1, <2>4
<1>13. CASE i <= k
    <2>1. \A n \in 1..(k + j - 1) : t[n] = IF n <= k - 1 THEN "direct" ELSE "fallback"
        <3>1. ASSUME NEW n \in 1..(k + j - 1), n <= i - 1 PROVE t[n] = IF n <= k - 1 THEN "direct" ELSE "fallback"
            BY <1>2, <1>10, <1>13, <3>1
        <3>2. ASSUME NEW n \in 1..(k + j - 1), ~(n <= i - 1) PROVE t[n] = IF n <= k - 1 THEN "direct" ELSE "fallback"
            <4>1. n + 1 \in 1..(k + j) /\ (n + 1 <= k <=> n <= k - 1)
                OBVIOUS
            <4>2. QED
                BY <1>2, <1>10, <3>2, <4>1
        <3>3. QED
            BY <3>1, <3>2
    <2>2. k - 1 \in Nat /\ (k - 1) + j = k + j - 1
        BY <1>13
    <2>3. QED
        BY <1>1, <1>11, <1>12, <1>13, <2>1, <2>2
<1>14. CASE k < i
    <2>1. \A n \in 1..(k + j - 1) : t[n] = IF n <= k THEN "direct" ELSE "fallback"
        <3>1. ASSUME NEW n \in 1..(k + j - 1), n <= i - 1 PROVE t[n] = IF n <= k THEN "direct" ELSE "fallback"
            BY <1>2, <1>10, <1>14, <3>1
        <3>2. ASSUME NEW n \in 1..(k + j - 1), ~(n <= i - 1) PROVE t[n] = IF n <= k THEN "direct" ELSE "fallback"
            <4>1. n + 1 \in 1..(k + j) /\ ~(n + 1 <= k) /\ ~(n <= k)
                BY <1>14, <3>2
            <4>2. QED
                BY <1>2, <1>10, <3>2, <4>1
        <3>3. QED
            BY <3>1, <3>2
    <2>2. j - 1 \in Nat /\ k + (j - 1) = k + j - 1
        BY <1>14
    <2>3. QED
        BY <1>1, <1>11, <1>12, <1>14, <2>1, <2>2
<1>15. QED
    BY <1>13, <1>14

(* What a list has of either kind, and what it is given when it has no     *)
(* fallback.                                                               *)
LEMMA NodeHolds ==
    ASSUME NEW k \in Nat, NEW j \in Nat
    PROVE  /\ "fallback" \in Node!Range(NodeList(k, j)) <=> j > 0
           /\ Node!Range(NodeList(k, j)) \subseteq Node!Entries
           /\ Node!EntriesOf(NodeList(k, j), "direct") = NodeList(k, 0)
           /\ NodeList(k, j) = <<>> <=> k + j = 0
<1>1. PICK s : s = NodeList(k, j)
    OBVIOUS
<1>2. /\ s \in Seq(Node!Entries) /\ Len(s) = k + j /\ DOMAIN s = 1..(k + j)
      /\ \A i \in 1..(k + j) : s[i] = IF i <= k THEN "direct" ELSE "fallback"
    <2>1. s \in Seq(Node!Entries) /\ Len(s) = k + j
        BY <1>1, NodeSeq
    <2>2. \A i \in 1..(k + j) : s[i] = IF i <= k THEN "direct" ELSE "fallback"
        BY <1>1, NodeSeq
    <2>3. DOMAIN s = 1..(k + j)
        BY <1>1, NodeCounts
    <2>4. QED
        BY <2>1, <2>2, <2>3
<1>3. ASSUME j > 0 PROVE "fallback" \in Node!Range(s)
    <2>1. k + j \in 1..(k + j) /\ ~(k + j <= k)
        BY <1>3
    <2>2. s[k + j] = "fallback"
        BY <1>2, <2>1
    <2>3. QED
        BY <1>2, <2>1, <2>2 DEF Node!Range
<1>4. ASSUME "fallback" \in Node!Range(s) PROVE j > 0
    <2>1. PICK i \in 1..(k + j) : s[i] = "fallback"
        BY <1>2, <1>4 DEF Node!Range
    <2>2. ~(i <= k)
        BY <1>2, <2>1
    <2>3. QED
        BY <2>1, <2>2
<1>5. Node!Range(s) \subseteq Node!Entries
    BY <1>2, ElementOfSeq DEF Node!Range
<1>6. Node!EntriesOf(s, "direct") = NodeList(k, 0)
    <2>1. {i \in DOMAIN s : s[i] = "direct"} = 1..k /\ Node!Cardinality(1..k) = k
        <3>1. {i \in DOMAIN NodeList(k, j) : NodeList(k, j)[i] = "direct"} = 1..k
            BY NodeCounts
        <3>2. Node!Cardinality(1..k) = k
            BY NodeCounts
        <3>3. QED
            BY <1>1, <3>1, <3>2
    <2>2. Node!EntriesOf(s, "direct") = [i \in 1..k |-> "direct"]
        BY <2>1 DEF Node!EntriesOf
    <2>3. NodeList(k, 0) = [i \in 1..k |-> "direct"]
        <3>1. k + 0 = k /\ \A i \in 1..k : i <= k
            OBVIOUS
        <3>2. QED
            BY <3>1 DEF NodeList
    <2>4. QED
        BY <2>2, <2>3
<1>7. s = <<>> <=> k + j = 0
    <2>1. s # <<>> => Len(s) \in Nat \ {0}
        BY <1>2, EmptySeq
    <2>2. s = <<>> => Len(s) = 0
        BY EmptySeq
    <2>3. QED
        BY <1>2, <2>1, <2>2
<1>8. QED
    BY <1>1, <1>3, <1>4, <1>5, <1>6, <1>7

LEMMA NodeFallback ==
    ASSUME NEW k \in Nat, NEW j \in {0, 1} PROVE Node!WithFallback(NodeList(k, j)) = NodeList(k, 1)
<1>1. CASE j = 0
    <2>1. ~("fallback" \in Node!Range(NodeList(k, 0)))
        BY NodeHolds
    <2>2. Append(NodeList(k, 0), "fallback") = NodeList(k, 1)
        <3>1. Append(NodeList(k, 0), "fallback") = NodeList(k, 0 + 1)
            BY NodeMore
        <3>2. QED
            BY <3>1
    <2>3. Node!EnsureFallbackLast(NodeList(k, 1)) = NodeList(k, 1)
        BY NodeKept
    <2>4. QED
        BY <1>1, <2>1, <2>2, <2>3 DEF Node!WithFallback
<1>2. CASE j = 1
    <2>1. "fallback" \in Node!Range(NodeList(k, 1))
        BY NodeHolds
    <2>2. Node!EnsureFallbackLast(NodeList(k, 1)) = NodeList(k, 1)
        BY NodeKept
    <2>3. QED
        BY <1>2, <2>1, <2>2 DEF Node!WithFallback
<1>3. QED
    BY <1>1, <1>2

(* What a probe finds and the form takes.                                  *)
LEMMA NodeFound ==
    /\ <<"direct">> = NodeList(1, 0) /\ <<"fallback">> = NodeList(0, 1)
    /\ Node!WithFallback(<<"direct">>) = NodeList(1, 1)
    /\ Node!WithFallback(<<"fallback", "direct">>) = NodeList(1, 1)
<1>1. <<"direct">> = NodeList(1, 0)
    <2>1. PICK u : u = NodeList(1, 0)
        OBVIOUS
    <2>2. /\ u \in Seq(Node!Entries) /\ Len(u) = 1 + 0
          /\ \A i \in 1..(1 + 0) : u[i] = IF i <= 1 THEN "direct" ELSE "fallback"
        BY <2>1, NodeSeq
    <2>3. Len(u) = 1 /\ u[1] = "direct"
        BY <2>2
    <2>4. u = <<"direct">>
        <3>1. PICK v : v = <<"direct">>
            OBVIOUS
        <3>2. v \in Seq(Node!Entries) /\ Len(v) = 1 /\ v[1] = "direct"
            BY <3>1 DEF Node!Entries
        <3>3. \A i \in 1..1 : u[i] = v[i]
            BY <2>3, <3>2
        <3>4. u = v
            BY <2>2, <2>3, <3>2, <3>3, SeqEqual
        <3>5. QED
            BY <3>1, <3>4
    <2>5. QED
        BY <2>1, <2>4
<1>2. <<"fallback">> = NodeList(0, 1)
    <2>1. PICK u : u = NodeList(0, 1)
        OBVIOUS
    <2>2. /\ u \in Seq(Node!Entries) /\ Len(u) = 0 + 1
          /\ \A i \in 1..(0 + 1) : u[i] = IF i <= 0 THEN "direct" ELSE "fallback"
        BY <2>1, NodeSeq
    <2>3. Len(u) = 1 /\ u[1] = "fallback"
        BY <2>2
    <2>4. u = <<"fallback">>
        <3>1. PICK v : v = <<"fallback">>
            OBVIOUS
        <3>2. v \in Seq(Node!Entries) /\ Len(v) = 1 /\ v[1] = "fallback"
            BY <3>1 DEF Node!Entries
        <3>3. \A i \in 1..1 : u[i] = v[i]
            BY <2>3, <3>2
        <3>4. u = v
            BY <2>2, <2>3, <3>2, <3>3, SeqEqual
        <3>5. QED
            BY <3>1, <3>4
    <2>5. QED
        BY <2>1, <2>4
<1>3. Node!WithFallback(<<"direct">>) = NodeList(1, 1)
    BY <1>1, NodeFallback
<1>4. Node!WithFallback(<<"fallback", "direct">>) = NodeList(1, 1)
    <2>1. PICK v : v = <<"fallback", "direct">>
        OBVIOUS
    <2>2. DOMAIN v = 1..2 /\ v[1] = "fallback" /\ v[2] = "direct"
        BY <2>1
    <2>3. "fallback" \in Node!Range(v)
        BY <2>2 DEF Node!Range
    <2>4. \A i : i \in 1..2 <=> i = 1 \/ i = 2
        OBVIOUS
    <2>5. {i \in DOMAIN v : v[i] = "direct"} = {2} /\ {i \in DOMAIN v : v[i] = "fallback"} = {1}
        BY <2>2, <2>4
    <2>6. Node!Cardinality({2}) = 1 /\ Node!Cardinality({1}) = 1
        BY FS_Singleton, NodeSizes
    <2>7. /\ Node!Cardinality({i \in DOMAIN v : v[i] = "direct"}) = 1
          /\ Node!Cardinality({i \in DOMAIN v : v[i] = "fallback"}) = 1
        BY <2>5, <2>6
    <2>8. Node!EnsureFallbackLast(v) = NodeList(1, 1)
        BY <2>7, NodeEnsures
    <2>9. QED
        BY <2>1, <2>3, <2>8 DEF Node!WithFallback
<1>5. QED
    BY <1>1, <1>2, <1>3, <1>4

(***************************************************************************)
(* Whatever it is opened for, switched to and filled from, the list is one *)
(* of those, with a fallback for a managed node.                           *)
(***************************************************************************)
NodeEntries == x3 \in BOOLEAN /\ NodeLists(x5, x3)

(* What is saved is of a node.                                             *)
NodeSaves ==
    /\ x6 \subseteq Nodes /\ steps \in 0..MaxSteps
    /\ calls["save"].at = "sent" => calls["save"].of \in Nodes

(* They hold before the dialog is opened.                                  *)
LEMMA NodeEntriesInit == ASSUME Node!Init PROVE NodeEntries /\ NodeSaves
<1>1. /\ x3 = FALSE /\ x5 = <<"fallback">> /\ x6 \in SUBSET Nodes
      /\ calls = [op \in {"probe", "save"} |-> Node!NoCall] /\ steps = 0
    BY DEF Node!Init
<1>2. 0 \in 0..MaxEntries
    BY EntriesAssumption
<1>3. NodeLists(x5, x3)
    BY <1>1, <1>2, NodeFound DEF NodeLists
<1>4. calls["save"].at # "sent"
    BY <1>1 DEF Node!NoCall, Node!None
<1>5. steps \in 0..MaxSteps
    BY <1>1
<1>6. QED
    BY <1>1, <1>3, <1>4, <1>5 DEF NodeEntries, NodeSaves

(* The lists each way of building one gives.                               *)
LEMMA NodeWith ==
    ASSUME NEW eps, NEW ext, NodeLists(eps, ext), NEW ext2 PROVE NodeLists(Node!WithFallback(eps), ext2)
<1>1. PICK k \in 0..MaxEntries, j \in {0, 1} : eps = NodeList(k, j)
    BY DEF NodeLists
<1>2. k \in Nat
    OBVIOUS
<1>3. Node!WithFallback(eps) = NodeList(k, 1)
    BY <1>1, <1>2, NodeFallback
<1>4. QED
    BY <1>3 DEF NodeLists

(* A node that is edited.                                                  *)
LEMMA NodeFills ==
    ASSUME NEW n, NEW k \in 0..(MaxEntries - 2), NEW eps, eps = [i \in 1..k |-> "direct"]
    PROVE  NodeLists(Node!FilledEntrypoints(n, eps), n \in External)
<1>1. k \in Nat /\ k \in 0..MaxEntries /\ 1 \in 0..MaxEntries
    BY EntriesAssumption
<1>2. eps = NodeList(k, 0)
    <2>1. k + 0 = k /\ \A i \in 1..k : i <= k
        BY <1>1
    <2>2. QED
        BY <2>1 DEF NodeList
<1>3. CASE n \in External
    <2>1. CASE eps = <<>>
        <3>1. Node!FilledEntrypoints(n, eps) = NodeList(1, 0)
            BY <1>3, <2>1, NodeFound DEF Node!FilledEntrypoints
        <3>2. QED
            BY <1>1, <1>3, <3>1 DEF NodeLists
    <2>2. CASE eps # <<>>
        <3>1. Node!FilledEntrypoints(n, eps) = NodeList(k, 0)
            BY <1>2, <1>3, <2>2 DEF Node!FilledEntrypoints
        <3>2. QED
            BY <1>1, <1>3, <3>1 DEF NodeLists
    <2>3. QED
        BY <2>1, <2>2
<1>4. CASE ~(n \in External)
    <2>1. Node!FilledEntrypoints(n, eps) = Node!WithFallback(NodeList(k, 0))
        BY <1>2, <1>4 DEF Node!FilledEntrypoints
    <2>2. Node!WithFallback(NodeList(k, 0)) = NodeList(k, 1)
        BY <1>1, NodeFallback
    <2>3. QED
        BY <1>1, <2>1, <2>2 DEF NodeLists
<1>5. QED
    BY <1>3, <1>4

(* An entry that is added or removed.                                      *)
LEMMA NodeAdds ==
    ASSUME NEW eps, NEW ext, NodeLists(eps, ext), NEW eps2,
           eps2 = Node!EnsureFallbackLast(Append(eps, "direct")), Len(eps2) <= MaxEntries
    PROVE  NodeLists(eps2, ext)
<1>1. PICK k \in 0..MaxEntries, j \in {0, 1} : eps = NodeList(k, j) /\ (~ext => j = 1)
    BY DEF NodeLists
<1>2. k \in Nat /\ j \in Nat /\ k + 1 \in Nat
    OBVIOUS
<1>3. eps2 = NodeList(k + 1, j)
    BY <1>1, <1>2, NodeMore
<1>4. Len(eps2) = (k + 1) + j
    BY <1>2, <1>3, NodeSeq
<1>5. k + 1 \in 0..MaxEntries
    BY <1>2, <1>4, EntriesAssumption
<1>6. QED
    BY <1>1, <1>3, <1>5 DEF NodeLists

LEMMA NodeRemoves ==
    ASSUME NEW eps, NEW ext \in BOOLEAN, NodeLists(eps, ext), NEW i \in DOMAIN eps,
           ext \/ eps[i] # "fallback"
    PROVE  NodeLists(Node!EnsureFallbackLast(Node!RemoveAt(eps, i)), ext)
<1>1. PICK k \in 0..MaxEntries, j \in {0, 1} : eps = NodeList(k, j) /\ (~ext => j = 1)
    BY DEF NodeLists
<1>2. k \in Nat /\ j \in Nat
    OBVIOUS
<1>3. i \in 1..(k + j) /\ (eps[i] = IF i <= k THEN "direct" ELSE "fallback")
    <2>1. DOMAIN NodeList(k, j) = 1..(k + j)
        BY <1>2, NodeCounts
    <2>2. i \in 1..(k + j)
        BY <1>1, <2>1
    <2>3. QED
        BY <1>1, <1>2, <2>2, NodeSeq
<1>4. CASE i <= k
    <2>1. Node!RemoveAt(eps, i) = NodeList(k - 1, j)
        BY <1>1, <1>2, <1>3, <1>4, NodeLess
    <2>2. k - 1 \in Nat /\ k - 1 \in 0..MaxEntries
        <3>1. i \in Nat /\ 1 <= i /\ MaxEntries \in Nat /\ k <= MaxEntries
            BY <1>3, EntriesAssumption
        <3>2. QED
            BY <1>2, <1>4, <3>1
    <2>3. Node!EnsureFallbackLast(Node!RemoveAt(eps, i)) = NodeList(k - 1, j)
        BY <1>2, <2>1, <2>2, NodeKept
    <2>4. QED
        BY <1>1, <2>2, <2>3 DEF NodeLists
<1>5. CASE ~(i <= k)
    <2>1. Node!RemoveAt(eps, i) = NodeList(k, j - 1) /\ j = 1 /\ ext
        <3>1. Node!RemoveAt(eps, i) = NodeList(k, j - 1)
            BY <1>1, <1>2, <1>3, <1>5, NodeLess
        <3>2. j = 1
            BY <1>2, <1>3, <1>5
        <3>3. eps[i] = "fallback"
            BY <1>3, <1>5
        <3>4. QED
            BY <3>1, <3>2, <3>3
    <2>2. Node!RemoveAt(eps, i) = NodeList(k, 0)
        BY <2>1
    <2>3. Node!EnsureFallbackLast(Node!RemoveAt(eps, i)) = NodeList(k, 0)
        BY <1>2, <2>2, NodeKept
    <2>4. QED
        BY <2>1, <2>3 DEF NodeLists
<1>6. QED
    BY <1>4, <1>5

(* Another kind of node.                                                   *)
LEMMA NodeChooses ==
    ASSUME NEW eps, NEW ext, NodeLists(eps, ext), NEW eps2,
           eps2 = IF Node!EntriesOf(eps, "direct") = <<>> THEN <<"direct">> ELSE Node!EntriesOf(eps, "direct")
    PROVE  NodeLists(eps2, TRUE)
<1>1. PICK k \in 0..MaxEntries, j \in {0, 1} : eps = NodeList(k, j)
    BY DEF NodeLists
<1>2. k \in Nat /\ j \in Nat /\ 1 \in 0..MaxEntries
    BY EntriesAssumption
<1>3. Node!EntriesOf(eps, "direct") = NodeList(k, 0)
    BY <1>1, <1>2, NodeHolds
<1>4. eps2 = NodeList(1, 0) \/ eps2 = NodeList(k, 0)
    BY <1>3, NodeFound
<1>5. QED
    BY <1>2, <1>4 DEF NodeLists

(* Every step of the screen keeps them.                                    *)
LEMMA NodeEntriesStep ==
    ASSUME NodeTypes, NodeEntries, NodeSaves, Node!Next \/ UNCHANGED Node!vars PROVE NodeEntries'
<1>1. x3 \in BOOLEAN /\ NodeLists(x5, x3)
    BY DEF NodeEntries
<1>2. ASSUME UNCHANGED <<x3, x5>> PROVE NodeEntries'
    BY <1>1, <1>2 DEF NodeEntries
<1>3. CASE Node!OpenAdd
    <2>1. x3' = FALSE /\ x5' = <<"fallback">>
        BY <1>3 DEF Node!OpenAdd, Node!FillNew
    <2>2. 0 \in 0..MaxEntries
        BY EntriesAssumption
    <2>3. NodeLists(<<"fallback">>, FALSE)
        BY <2>2, NodeFound DEF NodeLists
    <2>4. QED
        BY <2>1, <2>3 DEF NodeEntries
<1>4. ASSUME NEW n \in Nodes, Node!OpenEdit(n) PROVE NodeEntries'
    <2>1. PICK k \in 0..(MaxEntries - 2) :
              x5' = Node!FilledEntrypoints(n, [i \in 1..k |-> "direct"])
        BY <1>4 DEF Node!OpenEdit, Node!FillEdit
    <2>2. x3' = (n \in External)
        BY <1>4 DEF Node!OpenEdit, Node!FillEdit
    <2>3. PICK eps : eps = [i \in 1..k |-> "direct"]
        OBVIOUS
    <2>4. NodeLists(Node!FilledEntrypoints(n, eps), n \in External)
        BY <2>3, NodeFills
    <2>5. QED
        BY <2>1, <2>2, <2>3, <2>4 DEF NodeEntries
<1>5. CASE Node!HandleAddEntrypoint
    <2>1. /\ x5' = Node!EnsureFallbackLast(Append(x5, "direct")) /\ x3' = x3
          /\ Len(x5') <= MaxEntries
        BY <1>5 DEF Node!HandleAddEntrypoint, Node!EditEntrypoints
    <2>2. PICK eps2 : eps2 = x5'
        OBVIOUS
    <2>3. NodeLists(eps2, x3)
        BY <1>1, <2>1, <2>2, NodeAdds
    <2>4. QED
        BY <1>1, <2>1, <2>2, <2>3 DEF NodeEntries
<1>6. ASSUME NEW i \in 1..(MaxEntries + 1), Node!HandleRemoveEntrypoint(i) PROVE NodeEntries'
    <2>1. /\ x5' = Node!EnsureFallbackLast(Node!RemoveAt(x5, i)) /\ x3' = x3
          /\ i \in DOMAIN x5 /\ (x3 \/ x5[i] # "fallback")
        BY <1>6 DEF Node!HandleRemoveEntrypoint, Node!EditEntrypoints
    <2>2. NodeLists(Node!EnsureFallbackLast(Node!RemoveAt(x5, i)), x3)
        BY <1>1, <2>1, NodeRemoves
    <2>3. QED
        BY <1>1, <2>1, <2>2 DEF NodeEntries
<1>7. CASE Node!ChooseManaged
    <2>1. x3' = FALSE /\ x5' = Node!WithFallback(x5)
        BY <1>7 DEF Node!ChooseManaged
    <2>2. NodeLists(Node!WithFallback(x5), FALSE)
        BY <1>1, NodeWith
    <2>3. QED
        BY <2>1, <2>2 DEF NodeEntries
<1>8. CASE Node!ChooseExternal
    <2>1. x3' = TRUE
        BY <1>8 DEF Node!ChooseExternal
    <2>2. x5' = IF Node!EntriesOf(x5, "direct") = <<>> THEN <<"direct">> ELSE Node!EntriesOf(x5, "direct")
        BY <1>8 DEF Node!ChooseExternal
    <2>3. NodeLists(x5', TRUE)
        BY <1>1, <2>2, NodeChooses
    <2>4. QED
        BY <2>1, <2>3 DEF NodeEntries
<1>9. CASE Node!ProbeArrives
    <2>1. PICK found : found = calls["probe"].found
        OBVIOUS
    <2>2. found \in {<<>>, <<"direct">>, <<"fallback", "direct">>}
        <3>1. calls["probe"] \in NodeRequests
            BY DEF NodeTypes
        <3>2. QED
            BY <2>1, <3>1 DEF NodeRequests
    <2>3. x3' = x3 /\ (x5' = IF found = <<>> THEN x5 ELSE Node!WithFallback(found))
        BY <1>9, <2>1 DEF Node!ProbeArrives
    <2>4. CASE found = <<>>
        BY <1>2, <2>3, <2>4
    <2>5. CASE found # <<>>
        <3>1. x5' = NodeList(1, 1)
            BY <2>2, <2>3, <2>5, NodeFound
        <3>2. 1 \in 0..MaxEntries
            BY EntriesAssumption
        <3>3. NodeLists(NodeList(1, 1), x3)
            BY <3>2 DEF NodeLists
        <3>4. QED
            BY <1>1, <2>3, <3>1, <3>3 DEF NodeEntries
    <2>6. QED
        BY <2>4, <2>5
<1>10. ASSUME NEW part \in Node!Parts, Node!Edit(part) PROVE NodeEntries'
    BY <1>2, <1>10 DEF Node!Edit
<1>11. CASE \/ Node!EditHost \/ Node!EditPeerName \/ Node!EditName \/ Node!EditPeer \/ Node!EditAddresses \/ Node!EditTexts
            \/ Node!EditRouting \/ Node!EditHooks \/ Node!EditTemplates
    BY <1>10, <1>11 DEF Node!EditHost, Node!EditPeerName, Node!EditName, Node!EditPeer, Node!EditAddresses, Node!EditTexts,
                        Node!EditRouting, Node!EditHooks, Node!EditTemplates, Node!Parts
<1>12. CASE \/ Node!Close \/ Node!HandleProbe \/ Node!ServerProbes \/ Node!ServerSaves \/ Node!Saved
            \/ (\E op \in {"probe", "save"} : Node!Fails(op)) \/ UNCHANGED Node!vars
    BY <1>2, <1>12 DEF Node!Close, Node!HandleProbe, Node!ServerProbes, Node!ServerSaves, Node!Saved, Node!Fails, Node!vars
<1>13. ASSUME NEW n \in Nodes, Node!HandleSubmit(n) PROVE NodeEntries'
    BY <1>2, <1>13 DEF Node!HandleSubmit
<1>14. QED
    BY <1>3, <1>4, <1>5, <1>6, <1>7, <1>8, <1>9, <1>11, <1>12, <1>13 DEF Node!Next

LEMMA NodeSavesStep ==
    ASSUME NodeTypes, NodeSaves, Node!Next \/ UNCHANGED Node!vars PROVE NodeSaves'
<1>1. /\ x6 \subseteq Nodes /\ steps \in 0..MaxSteps
      /\ calls["save"].at = "sent" => calls["save"].of \in Nodes
      /\ calls \in [{"probe", "save"} -> NodeRequests] /\ calls["save"] \in NodeRequests
    BY DEF NodeSaves, NodeTypes
<1>2. ASSUME x6' = x6, steps' \in 0..MaxSteps, calls'["save"] = calls["save"] PROVE NodeSaves'
    BY <1>1, <1>2 DEF NodeSaves
<1>3. CASE Node!OpenAdd \/ \E n \in Nodes : Node!OpenEdit(n)
    <2>1. UNCHANGED <<x6, calls>> /\ steps < MaxSteps /\ steps' = steps + 1
        BY <1>3 DEF Node!OpenAdd, Node!OpenEdit, Node!Opens, Node!Step
    <2>2. steps' \in 0..MaxSteps
        BY <1>1, <2>1
    <2>3. QED
        BY <1>2, <2>1, <2>2
<1>4. CASE Node!HandleProbe
    <2>1. x6' = x6 /\ steps < MaxSteps /\ steps' = steps + 1
        BY <1>4 DEF Node!HandleProbe, Node!Step
    <2>2. calls'["save"] = calls["save"]
        BY <1>1, <1>4 DEF Node!HandleProbe
    <2>3. steps' \in 0..MaxSteps
        BY <1>1, <2>1
    <2>4. QED
        BY <1>2, <2>1, <2>2, <2>3
<1>5. CASE Node!ServerProbes \/ Node!ProbeArrives \/ Node!Fails("probe")
    <2>1. UNCHANGED <<x6, steps>>
        BY <1>5 DEF Node!ServerProbes, Node!ProbeArrives, Node!Fails
    <2>2. calls'["save"] = calls["save"]
        BY <1>1, <1>5 DEF Node!ServerProbes, Node!ProbeArrives, Node!Fails
    <2>3. QED
        BY <1>1, <1>2, <2>1, <2>2
<1>6. CASE Node!Saved \/ Node!Fails("save")
    <2>1. UNCHANGED <<x6, steps>> /\ calls' = [calls EXCEPT !["save"] = Node!NoCall]
        BY <1>6 DEF Node!Saved, Node!Fails
    <2>2. calls'["save"] = Node!NoCall
        BY <1>1, <2>1
    <2>3. QED
        BY <1>1, <2>1, <2>2, NodeNoCall DEF NodeSaves, Node!None
<1>7. CASE Node!ServerSaves
    <2>1. /\ x6' = x6 \cup {calls["save"].of} /\ steps' = steps
          /\ calls["save"].at = "sent" /\ calls' = [calls EXCEPT !["save"].at = "done"]
        BY <1>7 DEF Node!ServerSaves
    <2>2. calls'["save"].at = "done"
        BY <1>1, <2>1 DEF NodeRequests
    <2>3. QED
        BY <1>1, <2>1, <2>2 DEF NodeSaves
<1>8. ASSUME NEW n \in Nodes, Node!HandleSubmit(n) PROVE NodeSaves'
    <2>1. PICK c : c = [Node!NoCall EXCEPT !.at = "sent", !.of = n]
        OBVIOUS
    <2>2. UNCHANGED <<x6, steps>> /\ calls' = [calls EXCEPT !["save"] = c]
        BY <1>8, <2>1 DEF Node!HandleSubmit
    <2>3. c.of = n
        BY <2>1, NodeNoCall DEF NodeRequests
    <2>4. calls'["save"] = c
        BY <1>1, <2>2
    <2>5. QED
        BY <1>1, <2>2, <2>3, <2>4 DEF NodeSaves
<1>9. ASSUME NEW part \in Node!Parts, Node!Edit(part) PROVE NodeSaves'
    BY <1>1, <1>2, <1>9 DEF Node!Edit
<1>10. CASE \/ Node!EditHost \/ Node!EditPeerName \/ Node!EditName \/ Node!EditPeer \/ Node!EditAddresses \/ Node!EditTexts
            \/ Node!EditRouting \/ Node!EditHooks \/ Node!EditTemplates
    BY <1>9, <1>10 DEF Node!EditHost, Node!EditPeerName, Node!EditName, Node!EditPeer, Node!EditAddresses, Node!EditTexts,
                       Node!EditRouting, Node!EditHooks, Node!EditTemplates, Node!Parts
<1>11. CASE \/ Node!Close \/ Node!HandleAddEntrypoint \/ (\E i \in 1..(MaxEntries + 1) : Node!HandleRemoveEntrypoint(i))
            \/ Node!ChooseManaged \/ Node!ChooseExternal \/ UNCHANGED Node!vars
    <2>1. UNCHANGED <<x6, steps, calls>>
        BY <1>11
           DEF Node!Close, Node!HandleAddEntrypoint, Node!HandleRemoveEntrypoint, Node!EditEntrypoints, Node!ChooseManaged,
               Node!ChooseExternal, Node!vars
    <2>2. QED
        BY <1>1, <1>2, <2>1
<1>12. QED
    BY <1>3, <1>4, <1>5, <1>6, <1>7, <1>8, <1>10, <1>11 DEF Node!Next

(* From them to what is stated of the screen.                              *)
LEMMA NodeEntriesShow ==
    ASSUME NodeTypes, NodeEntries, NodeSaves PROVE Node!TypeOK /\ Node!FallbackLast
<1>1. PICK k \in 0..MaxEntries, j \in {0, 1} : x5 = NodeList(k, j) /\ (~x3 => j = 1)
    BY DEF NodeEntries, NodeLists
<1>2. k \in Nat /\ j \in Nat
    OBVIOUS
<1>3. Len(x5) \in 0..(MaxEntries + 1)
    <2>1. Len(x5) = k + j
        BY <1>1, <1>2, NodeSeq
    <2>2. QED
        BY <1>2, <2>1, EntriesAssumption
<1>4. Node!Range(x5) \subseteq Node!Entries
    BY <1>1, <1>2, NodeHolds
<1>5. \A op \in {"probe", "save"} : calls[op].at \in {Node!None, "sent", "done"} /\ calls[op].of \in Nodes \cup {Node!None}
    <2>1. \A op \in {"probe", "save"} : calls[op] \in NodeRequests
        BY DEF NodeTypes
    <2>2. QED
        BY <2>1 DEF NodeRequests
<1>6. Node!TypeOK
    BY <1>3, <1>4, <1>5 DEF Node!TypeOK, NodeTypes, NodeEntries, NodeSaves
<1>7. ASSUME ~x3
      PROVE  Node!Last(x5) = "fallback"
             /\ Node!Cardinality({i \in DOMAIN x5 : x5[i] = "fallback"}) = 1
             /\ Node!FinalEntrypoints = x5
    <2>1. x5 = NodeList(k, 1)
        BY <1>1, <1>7
    <2>2. Len(NodeList(k, 1)) = k + 1 /\ NodeList(k, 1)[k + 1] = "fallback"
        <3>1. k + 1 \in 1..(k + 1) /\ ~(k + 1 <= k)
            BY <1>2
        <3>2. QED
            BY <1>2, <3>1, NodeSeq
    <2>3. Node!Cardinality({i \in DOMAIN NodeList(k, 1) : NodeList(k, 1)[i] = "fallback"}) = 1
        <3>1. {i \in DOMAIN NodeList(k, 1) : NodeList(k, 1)[i] = "fallback"} = (k + 1)..(k + 1)
            BY <1>2, NodeCounts
        <3>2. Node!Cardinality((k + 1)..(k + 1)) = 1
            BY <1>2, NodeCounts
        <3>3. QED
            BY <3>1, <3>2
    <2>4. Node!FinalEntrypoints = x5
        <3>1. Node!EnsureFallbackLast(NodeList(k, 1)) = NodeList(k, 1)
            BY <1>2, NodeKept
        <3>2. QED
            BY <1>7, <2>1, <3>1 DEF Node!FinalEntrypoints
    <2>5. Node!Last(x5) = "fallback"
        BY <2>1, <2>2 DEF Node!Last
    <2>6. QED
        BY <2>1, <2>3, <2>4, <2>5
<1>8. Node!FallbackLast
    BY <1>7 DEF Node!FallbackLast
<1>9. QED
    BY <1>6, <1>8
-----------------------------------------------------------------------------
(***************************************************************************)
(* AppDialog.  x1 is whether it is open, x2 the app edited, x3 the tab, x4 *)
(* the type, x5 the draft, x6 how the nodes are chosen, x7 the selector,   *)
(* x8 its text, x9 whether that does not parse, x10 the parts touched.     *)
(***************************************************************************)
USE AppsAssumption

AppInv == App!TypeOK /\ App!TargetsAgree /\ App!NoLeftovers /\ App!TabExists /\ App!NoDeadButton

LEMMA AppTyped ==
    ASSUME App!TypeOK
    PROVE  /\ x1 \in BOOLEAN /\ x2 \in Apps \cup {App!None} /\ x4 \in App!Types
           /\ x5 \in [App!Parts -> App!Contents] /\ x10 \subseteq App!Parts
           /\ x6 \in {"manual", "all", "tag", "custom"}
           /\ x7 \in App!Selectors /\ x8 \in App!Selectors \cup {"bad"} /\ x9 \in BOOLEAN
           /\ calls \in [App!Previews \cup {"save"} -> {"none", "sent", "done"}]
           /\ busy \subseteq App!Previews \cup {"save"} /\ steps \in 0..MaxSteps
BY DEF App!TypeOK

(* A selector that is chosen tells the choice it is shown as.              *)
LEMMA AppMode ==
    ASSUME NEW s \in App!Selectors
    PROVE  App!DetectTargetMode(s) \in {"manual", "all", "tag", "custom"}
BY DEF App!DetectTargetMode, App!Selectors

(* It holds when the screen is opened.                                      *)
LEMMA AppInit == ASSUME App!Init PROVE AppInv
<1>1. /\ x1 = FALSE /\ x2 = App!None /\ x3 = "general" /\ x4 = "docker"
      /\ x5 = [p \in App!Parts |-> "blank"] /\ x6 = "manual"
      /\ x7 = "name" /\ x8 = "name" /\ x9 = FALSE
      /\ calls = [op \in App!Previews \cup {"save"} |-> "none"] /\ busy = {}
      /\ x10 = {}
    BY DEF App!Init
<1>2. steps \in 0..MaxSteps
    BY DEF App!Init
<1>3. x4 \in App!Types /\ x3 \in UNION {App!TabsOf(t) : t \in App!Types}
    BY <1>1 DEF App!Types, App!TabsOf
<1>4. x5 \in [App!Parts -> App!Contents] /\ x7 \in App!Selectors
    BY <1>1 DEF App!Contents, App!Selectors
<1>5. App!TypeOK
    BY <1>1, <1>2, <1>3, <1>4 DEF App!TypeOK, App!Selectors
<1>6. QED
    BY <1>1, <1>5 DEF AppInv, App!TargetsAgree, App!NoLeftovers, App!TabExists, App!NoDeadButton

(* What the rest of the dialog depends on is left alone.                   *)
LEMMA AppCounts ==
    ASSUME steps \in 0..MaxSteps, App!Step PROVE steps' \in 0..MaxSteps
BY DEF App!Step

(* A part is typed or rendered.                                            *)
LEMMA AppPut ==
    ASSUME AppInv, NEW part \in App!Parts, NEW content \in App!Contents,
           x5' = [x5 EXCEPT ![part] = content], x10' = x10 \cup {part}, x2' = x2,
           x1' => x1
    PROVE  x5' \in [App!Parts -> App!Contents] /\ x10' \subseteq App!Parts /\ App!NoLeftovers'
<1>1. x5 \in [App!Parts -> App!Contents] /\ x10 \subseteq App!Parts
    BY AppTyped DEF AppInv
<1>2. x5' \in [App!Parts -> App!Contents] /\ \A p \in App!Parts \ {part} : x5'[p] = x5[p]
    BY <1>1
<1>3. App!NoLeftovers
    BY DEF AppInv
<1>4. App!NoLeftovers'
    BY <1>2, <1>3 DEF App!NoLeftovers
<1>5. QED
    BY <1>1, <1>2, <1>4

(* Every step of the screen keeps it.                                       *)
LEMMA AppStep == ASSUME AppInv, App!Next \/ UNCHANGED App!vars PROVE AppInv'
<1>1. /\ x1 \in BOOLEAN /\ x2 \in Apps \cup {App!None} /\ x4 \in App!Types
      /\ x5 \in [App!Parts -> App!Contents] /\ x10 \subseteq App!Parts
      /\ x6 \in {"manual", "all", "tag", "custom"}
      /\ x7 \in App!Selectors /\ x8 \in App!Selectors \cup {"bad"} /\ x9 \in BOOLEAN
      /\ calls \in [App!Previews \cup {"save"} -> {"none", "sent", "done"}]
      /\ busy \subseteq App!Previews \cup {"save"} /\ steps \in 0..MaxSteps
    BY AppTyped DEF AppInv
<1>2. x3 \in UNION {App!TabsOf(t) : t \in App!Types}
    BY DEF AppInv, App!TypeOK
<1>3. App!TargetsAgree /\ App!NoLeftovers /\ App!TabExists /\ App!NoDeadButton
    BY DEF AppInv
<1>4. ASSUME UNCHANGED <<x1, x2, x3, x4, x5, calls, busy, x10, steps>>,
             x6' \in {"manual", "all", "tag", "custom"}, x7' \in App!Selectors,
             x8' \in App!Selectors \cup {"bad"}, x9' \in BOOLEAN, App!TargetsAgree'
      PROVE  AppInv'
    BY <1>1, <1>2, <1>3, <1>4 DEF AppInv, App!TypeOK, App!NoLeftovers, App!TabExists, App!NoDeadButton
<1>5. ASSUME NEW s \in App!Selectors, App!ApplyFormSelector(s),
             UNCHANGED <<x1, x2, x3, x4, x5, calls, busy, x10, steps>>
      PROVE  AppInv'
    <2>1. x7' = s /\ x8' = s /\ x9' = FALSE /\ x6' = App!DetectTargetMode(s)
        BY <1>5 DEF App!ApplyFormSelector
    <2>2. x6' \in {"manual", "all", "tag", "custom"}
        BY <2>1, AppMode
    <2>3. App!TargetsAgree'
        BY <2>1 DEF App!TargetsAgree
    <2>4. QED
        BY <1>4, <1>5, <2>1, <2>2, <2>3
<1>6. ASSUME NEW t \in App!Selectors \cup {"bad"}, App!HandleSelectorTextChange(t) PROVE AppInv'
    <2>1. /\ x1 /\ x6 = "custom" /\ x8' = t
          /\ UNCHANGED <<x1, x2, x3, x4, x5, calls, busy, x10, steps>>
        BY <1>6 DEF App!HandleSelectorTextChange
    <2>2. CASE t = "bad"
        <3>1. x9' = TRUE /\ UNCHANGED <<x7, x6>>
            BY <1>6, <2>2 DEF App!HandleSelectorTextChange
        <3>2. App!TargetsAgree'
            BY <2>1, <3>1 DEF App!TargetsAgree
        <3>3. QED
            BY <1>1, <1>4, <2>1, <3>1, <3>2
    <2>3. CASE t # "bad"
        <3>1. App!ApplyFormSelector(t) /\ t \in App!Selectors
            BY <1>6, <2>3 DEF App!HandleSelectorTextChange, App!ApplyFormSelector
        <3>2. QED
            BY <1>5, <2>1, <3>1
    <2>4. QED
        BY <2>2, <2>3
<1>7. ASSUME NEW m \in {"manual", "all", "tag", "custom"}, App!HandleTargetModeChange(m) PROVE AppInv'
    <2>1. /\ x6 # m /\ UNCHANGED <<x1, x2, x3, x4, x5, calls, busy, x10, steps>>
        BY <1>7 DEF App!HandleTargetModeChange
    <2>2. CASE m = "custom"
        <3>1. x6' = "custom" /\ UNCHANGED <<x7, x8, x9>>
            BY <1>7, <2>2 DEF App!HandleTargetModeChange
        <3>2. App!TargetsAgree'
            BY <1>3, <2>1, <3>1 DEF App!TargetsAgree
        <3>3. QED
            BY <1>1, <1>4, <2>1, <3>1, <3>2
    <2>3. CASE m # "custom"
        <3>1. \E s \in App!Selectors : App!ApplyFormSelector(s)
            BY <1>7, <2>3 DEF App!HandleTargetModeChange, App!Selectors
        <3>2. QED
            BY <1>5, <2>1, <3>1
    <2>4. QED
        BY <2>2, <2>3
<1>8. CASE App!ChooseNodes \/ App!ChooseTags
    <2>1. /\ \E s \in App!Selectors : App!ApplyFormSelector(s)
          /\ UNCHANGED <<x1, x2, x3, x4, x5, calls, busy, x10, steps>>
        BY <1>8 DEF App!ChooseNodes, App!ChooseTags, App!ChooseTargets, App!Selectors
    <2>2. QED
        BY <1>5, <2>1
<1>9. ASSUME App!Opens, x2' \in Apps \cup {App!None}, x4' \in App!Types,
             NEW own, own = (IF x2' = App!None THEN "blank" ELSE x2'),
             x5' = App!Filled(own, IF x2' = App!None THEN "sample" ELSE x2'),
             x7' \in App!Selectors, x8' = x7', x9' = FALSE, x6' = App!DetectTargetMode(x7')
      PROVE  AppInv'
    <2>1. x1' = TRUE /\ x3' = "general" /\ x10' = {} /\ UNCHANGED <<calls, busy>> /\ App!Step
        BY <1>9 DEF App!Opens
    <2>2. steps' \in 0..MaxSteps
        BY <1>1, <2>1, AppCounts
    <2>3. own \in App!Contents /\ (IF x2' = App!None THEN "sample" ELSE x2') \in App!Contents /\ "blank" \in App!Contents
        BY <1>9 DEF App!Contents
    <2>4. x5' \in [App!Parts -> App!Contents]
        BY <1>1, <1>9, <2>3 DEF App!Filled
    <2>5. \A p \in App!Parts \ {"rendered"} :
              x5'[p] = IF p \in {"generator", "transpile"} THEN "blank"
                          ELSE IF x2' # App!None THEN x2'
                          ELSE IF p = "definition" THEN "sample" ELSE "blank"
        BY <1>9 DEF App!Filled, App!FormParts, App!Parts
    <2>6. App!NoLeftovers'
        BY <2>1, <2>5 DEF App!NoLeftovers
    <2>7. x3' \in App!TabsOf(x4') /\ x3' \in UNION {App!TabsOf(t) : t \in App!Types}
        BY <1>9, <2>1 DEF App!TabsOf, App!Types
    <2>8. x6' \in {"manual", "all", "tag", "custom"} /\ App!TargetsAgree'
        BY <1>9, AppMode DEF App!TargetsAgree
    <2>9. App!NoDeadButton' /\ App!TabExists'
        BY <1>3, <2>1, <2>7 DEF App!NoDeadButton, App!TabExists
    <2>10. App!TypeOK'
        BY <1>1, <1>9, <2>1, <2>2, <2>4, <2>7, <2>8 DEF App!TypeOK
    <2>11. QED
        BY <2>6, <2>8, <2>9, <2>10 DEF AppInv
<1>10. CASE App!OpenCreateAppModal
    <2>1. App!DetectTargetMode("name") = "manual" /\ "name" \in App!Selectors /\ "docker" \in App!Types
        BY DEF App!DetectTargetMode, App!Selectors, App!Types
    <2>2. /\ App!Opens /\ x2' = App!None /\ x4' = "docker" /\ x5' = App!Filled("blank", "sample")
          /\ x7' = "name" /\ x8' = "name" /\ x9' = FALSE /\ x6' = "manual"
        BY <1>10 DEF App!OpenCreateAppModal
    <2>3. QED
        BY <1>9, <2>1, <2>2
<1>11. ASSUME NEW a \in Apps, App!OpenEditAppModal(a) PROVE AppInv'
    <2>1. /\ App!Opens /\ x2' = a /\ x4' = AppType[a] /\ x5' = App!Filled(a, a)
          /\ x7' = AppSelector[a] /\ x8' = AppSelector[a] /\ x9' = FALSE
          /\ x6' = App!DetectTargetMode(AppSelector[a])
        BY <1>11 DEF App!OpenEditAppModal
    <2>2. a # App!None /\ AppType[a] \in App!Types /\ AppSelector[a] \in App!Selectors
        BY DEF App!None, App!Types, App!Selectors
    <2>3. QED
        BY <1>9, <2>1, <2>2
<1>12. ASSUME UNCHANGED <<x2, x4, x5, x6, x7, x8, x9, x10>>,
              x1' = x1 \/ x1' = FALSE, x3' = x3 \/ (x3' \in App!TabsOf(x4)), steps' \in 0..MaxSteps,
              calls' \in [App!Previews \cup {"save"} -> {"none", "sent", "done"}],
              busy' \subseteq App!Previews \cup {"save"}, App!NoDeadButton'
       PROVE  AppInv'
    <2>1. x3' \in UNION {App!TabsOf(t) : t \in App!Types}
        BY <1>1, <1>2, <1>12
    <2>2. App!TypeOK'
        <3>1. CASE x1' = x1
            BY <1>1, <1>12, <2>1, <3>1 DEF App!TypeOK
        <3>2. CASE x1' = FALSE
            BY <1>1, <1>12, <2>1, <3>2 DEF App!TypeOK
        <3>3. QED
            BY <1>12, <3>1, <3>2
    <2>3. App!TargetsAgree' /\ App!NoLeftovers' /\ App!TabExists'
        <3>1. CASE x1' = x1
            BY <1>3, <1>12, <3>1 DEF App!TargetsAgree, App!NoLeftovers, App!TabExists
        <3>2. CASE x1' = FALSE
            BY <3>2 DEF App!TargetsAgree, App!NoLeftovers, App!TabExists
        <3>3. QED
            BY <1>12, <3>1, <3>2
    <2>4. QED
        BY <1>12, <2>2, <2>3 DEF AppInv
<1>13. CASE App!Close \/ \E t \in App!TabsOf(x4) : App!ChangeTab(t)
    <2>1. /\ UNCHANGED <<x2, x4, x5, x6, x7, x8, x9, x10, calls, busy, steps>>
          /\ x1' = x1 \/ x1' = FALSE
          /\ x3' = x3 \/ x3' \in App!TabsOf(x4)
        BY <1>13 DEF App!Close, App!ChangeTab
    <2>2. App!NoDeadButton'
        BY <1>3, <2>1 DEF App!NoDeadButton
    <2>3. QED
        BY <1>1, <1>12, <2>1, <2>2
<1>14. ASSUME NEW part \in App!Parts, NEW content \in App!Contents, App!Put(part, content),
              x4' = x4 \/ (x4' \in App!Types /\ x3 = "general")
       PROVE  AppInv'
    <2>1. /\ x5' = [x5 EXCEPT ![part] = content] /\ x10' = x10 \cup {part}
          /\ UNCHANGED <<x1, x2, x3, x6, x7, x8, x9, calls, busy, steps>>
        BY <1>14 DEF App!Put
    <2>2. x5' \in [App!Parts -> App!Contents] /\ x10' \subseteq App!Parts /\ App!NoLeftovers'
        BY <2>1, AppPut
    <2>3. x4' \in App!Types /\ App!TabExists'
        BY <1>1, <1>3, <1>14, <2>1 DEF App!TabExists, App!TabsOf
    <2>4. App!TargetsAgree' /\ App!NoDeadButton'
        BY <1>3, <2>1 DEF App!TargetsAgree, App!NoDeadButton
    <2>5. QED
        BY <1>1, <1>2, <2>1, <2>2, <2>3, <2>4 DEF AppInv, App!TypeOK
<1>15. ASSUME NEW t \in App!Types, App!HandleTypeChange(t) PROVE AppInv'
    <2>1. x3 = "general" /\ x4' = t
        BY <1>15 DEF App!HandleTypeChange
    <2>2. CASE x2 = App!None
        <3>1. App!Put("definition", "sample") /\ "definition" \in App!Parts /\ "sample" \in App!Contents
            BY <1>15, <2>2 DEF App!HandleTypeChange, App!Parts, App!Contents
        <3>2. QED
            BY <1>14, <2>1, <3>1
    <2>3. CASE x2 # App!None
        <3>1. UNCHANGED <<x1, x2, x3, x5, x6, x7, x8, x9, calls, busy, x10, steps>>
            BY <1>15, <2>3 DEF App!HandleTypeChange
        <3>2. App!TabExists' /\ App!NoLeftovers' /\ App!TargetsAgree' /\ App!NoDeadButton'
            BY <1>3, <2>1, <3>1 DEF App!TabExists, App!TabsOf, App!NoLeftovers, App!TargetsAgree, App!NoDeadButton
        <3>3. QED
            BY <1>1, <1>2, <2>1, <3>1, <3>2 DEF AppInv, App!TypeOK
    <2>4. QED
        BY <2>2, <2>3
<1>16. CASE \/ App!EditName \/ App!EditFlags \/ App!InsertVariable \/ App!EditCron \/ App!EditDefinition
            \/ App!EditGenerator \/ App!RunGenerator \/ App!EditEnv \/ App!EditFiles
    <2>1. \E part \in App!Parts : App!Put(part, "typed") /\ x4' = x4
        BY <1>16 DEF App!EditName, App!EditFlags, App!InsertVariable, App!EditCron, App!EditDefinition, App!EditGenerator,
                     App!RunGenerator, App!EditEnv, App!EditFiles, App!EditIn, App!Parts
    <2>2. "typed" \in App!Contents
        BY DEF App!Contents
    <2>3. QED
        BY <1>14, <2>1, <2>2
<1>17. ASSUME NEW op \in App!Previews \cup {"save"}, App!Ask(op) PROVE AppInv'
    <2>1. /\ calls' = [calls EXCEPT ![op] = "sent"] /\ busy' = busy \cup {op} /\ App!Step
          /\ UNCHANGED <<x1, x2, x3, x4, x5, x6, x7, x8, x9, x10>>
        BY <1>17 DEF App!Ask
    <2>2. /\ calls' \in [App!Previews \cup {"save"} -> {"none", "sent", "done"}] /\ calls'[op] = "sent"
          /\ \A q \in (App!Previews \cup {"save"}) \ {op} : calls'[q] = calls[q]
        BY <1>1, <2>1
    <2>3. App!NoDeadButton'
        BY <1>1, <1>3, <2>1, <2>2 DEF App!NoDeadButton
    <2>4. steps' \in 0..MaxSteps
        BY <1>1, <2>1, AppCounts
    <2>5. QED
        BY <1>1, <1>12, <2>1, <2>2, <2>3, <2>4
<1>18. CASE App!HandleTranspilePreview \/ App!HandleInterpolatePreview \/ App!HandleSaveApp
    BY <1>17, <1>18 DEF App!HandleTranspilePreview, App!HandleInterpolatePreview, App!HandleSaveApp, App!Previews
<1>19. ASSUME NEW op \in App!Previews \cup {"save"}, App!ServerAnswers(op) PROVE AppInv'
    <2>1. /\ calls' = [calls EXCEPT ![op] = "done"]
          /\ UNCHANGED <<x1, x2, x3, x4, x5, x6, x7, x8, x9, busy, x10, steps>>
        BY <1>19 DEF App!ServerAnswers
    <2>2. /\ calls' \in [App!Previews \cup {"save"} -> {"none", "sent", "done"}] /\ calls'[op] = "done"
          /\ \A q \in (App!Previews \cup {"save"}) \ {op} : calls'[q] = calls[q]
        BY <1>1, <2>1
    <2>3. App!NoDeadButton'
        BY <1>1, <1>3, <2>1, <2>2 DEF App!NoDeadButton
    <2>4. QED
        BY <1>1, <1>12, <2>1, <2>2, <2>3
<1>20. ASSUME NEW op \in App!Previews \cup {"save"}, App!Ends(op)
       PROVE  /\ calls' \in [App!Previews \cup {"save"} -> {"none", "sent", "done"}]
              /\ busy' \subseteq App!Previews \cup {"save"} /\ App!NoDeadButton'
    <2>1. calls' = [calls EXCEPT ![op] = "none"] /\ busy' = busy \ {op}
        BY <1>20 DEF App!Ends
    <2>2. /\ calls' \in [App!Previews \cup {"save"} -> {"none", "sent", "done"}]
          /\ \A q \in (App!Previews \cup {"save"}) \ {op} : calls'[q] = calls[q]
        BY <1>1, <2>1
    <2>3. QED
        BY <1>1, <1>3, <2>1, <2>2 DEF App!NoDeadButton
<1>21. ASSUME NEW op \in App!Previews \cup {"save"}, App!PreviewArrives(op) PROVE AppInv'
    <2>1. /\ op \in App!Previews /\ App!Ends(op) /\ x5' = [x5 EXCEPT ![op] = "rendered"]
          /\ x10' = x10 \cup {op}
          /\ UNCHANGED <<x1, x2, x3, x4, x6, x7, x8, x9, steps>>
        BY <1>21 DEF App!PreviewArrives
    <2>2. op \in App!Parts /\ "rendered" \in App!Contents
        BY <2>1 DEF App!Previews, App!Parts, App!Contents
    <2>3. x5' \in [App!Parts -> App!Contents] /\ x10' \subseteq App!Parts /\ App!NoLeftovers'
        BY <2>1, <2>2, AppPut
    <2>4. /\ calls' \in [App!Previews \cup {"save"} -> {"none", "sent", "done"}]
          /\ busy' \subseteq App!Previews \cup {"save"} /\ App!NoDeadButton'
        BY <1>20, <2>1
    <2>5. App!TargetsAgree' /\ App!TabExists'
        BY <1>3, <2>1 DEF App!TargetsAgree, App!TabExists
    <2>6. QED
        BY <1>1, <1>2, <2>1, <2>3, <2>4, <2>5 DEF AppInv, App!TypeOK
<1>22. CASE App!SaveArrives \/ App!SaveFails
    <2>1. /\ App!Ends("save") /\ (x1' = FALSE \/ x1' = x1)
          /\ UNCHANGED <<x2, x3, x4, x5, x6, x7, x8, x9, x10, steps>>
        BY <1>22 DEF App!SaveArrives, App!SaveFails
    <2>2. /\ calls' \in [App!Previews \cup {"save"} -> {"none", "sent", "done"}]
          /\ busy' \subseteq App!Previews \cup {"save"} /\ App!NoDeadButton'
        <3>1. "save" \in App!Previews \cup {"save"} /\ App!Ends("save")
            BY <2>1
        <3>2. QED
            BY <1>20, <3>1, Zenon
    <2>3. steps' \in 0..MaxSteps
        BY <1>1, <2>1
    <2>4. QED
        BY <1>12, <2>1, <2>2, <2>3
<1>23. CASE UNCHANGED App!vars
    BY <1>1, <1>2, <1>3, <1>23 DEF App!vars, AppInv, App!TypeOK, App!TargetsAgree, App!NoLeftovers, App!TabExists, App!NoDeadButton
<1>24. QED
    BY <1>6, <1>7, <1>8, <1>10, <1>11, <1>13, <1>15, <1>16, <1>18, <1>19, <1>21, <1>22, <1>23 DEF App!Next

(* From the invariant to what is stated of the screen.                     *)
LEMMA AppShows ==
    ASSUME AppInv PROVE App!TypeOK /\ App!TargetsAgree /\ App!NoLeftovers /\ App!TabExists /\ App!NoDeadButton
BY DEF AppInv

-----------------------------------------------------------------------------
(***************************************************************************)
(* ApplyDialog.  x1 and x2 are whether it is open and with what text, x3   *)
(* the text in the editor, x4 the timer of the validation, x5 the snippets *)
(* the server has, x6 what is shown, x7 the snippet chosen, x8 whether     *)
(* requests of the dialog have crossed.                                    *)
(***************************************************************************)
ApplyCalls ==
    [op : Apply!Ops \cup {Apply!None}, text : Apply!Contents \cup {Apply!None}, at : {Apply!None, "sent", "done"}, name : Presets \cup {Apply!None},
     after : Apply!Ops \cup {Apply!None}, got : Apply!Snippets]

(* What the requests hold; only the load of the snippets comes after       *)
(* something else.                                                         *)
ApplyShapes ==
    /\ calls \in [Lanes -> ApplyCalls]
    /\ \A c \in Lanes : calls[c].after # Apply!None => calls[c].op = "list"

(* All validations under way are of the text in the editor, and when none  *)
(* is, so is the verdict.                                                  *)
ApplyVerdict ==
    ~x8 /\ ~x4 /\ x3 # Apply!Empty =>
        /\ \A c \in Apply!Sent("validate") : calls[c].text = x3
        /\ Apply!Sent("validate") = {} => x6.verdict = x3

ApplyChosen == x7 \notin {Apply!None, Apply!Empty} => x3 = x7

ApplyInv == Apply!TypeOK /\ ApplyShapes /\ Apply!NoDeadButton /\ ApplyVerdict /\ ApplyChosen

LEMMA ApplyNothing == Apply!NoSnippets \in Apply!Snippets /\ Apply!NoCall \in ApplyCalls /\ Apply!NoCall.op = Apply!None /\ Apply!NoCall.after = Apply!None
<1>1. Apply!NoSnippets \in Apply!Snippets
    BY DEF Apply!NoSnippets, Apply!Snippets
<1>2. QED
    BY <1>1 DEF Apply!NoCall, ApplyCalls

LEMMA ApplyInit == ASSUME Apply!Init PROVE ApplyInv
<1>1. /\ x1 = FALSE /\ x2 = Apply!None /\ x3 = Apply!Empty /\ x4 = FALSE
      /\ x5 \in [Presets -> Valid \cup {Apply!None}]
      /\ x6 = [verdict |-> Apply!None, valid |-> FALSE, preview |-> Apply!None, list |-> Apply!NoSnippets, tab |-> "editor"]
      /\ calls = [c \in Lanes |-> Apply!NoCall] /\ busy = {} /\ x7 = Apply!None /\ x8 = FALSE /\ steps = 0
    BY DEF Apply!Init
<1>2. ApplyShapes
    BY <1>1, ApplyNothing DEF ApplyShapes
<1>3. x5 \in Apply!Snippets
    BY <1>1, PastedAssumption DEF Apply!Snippets, Apply!Contents
<1>4. steps \in 0..MoreSteps
    BY <1>1
<1>5. x6 \in [verdict : Apply!Contents \cup {Apply!None}, valid : BOOLEAN, preview : Apply!Contents \cup {Apply!None},
                 list : Apply!Snippets, tab : {"editor", "preview", "snippets"}]
    BY <1>1, ApplyNothing
<1>6. \A c \in Lanes : calls[c].op \in Apply!Ops \cup {Apply!None} /\ calls[c].at \in {Apply!None, "sent", "done"}
    BY <1>2 DEF ApplyShapes, ApplyCalls
<1>7. x3 \in Apply!Contents
    BY <1>1 DEF Apply!Contents
<1>8. Apply!TypeOK
    BY <1>1, <1>3, <1>4, <1>5, <1>6, <1>7 DEF Apply!TypeOK
<1>9. Apply!NoDeadButton /\ ApplyVerdict /\ ApplyChosen
    BY <1>1 DEF Apply!NoDeadButton, ApplyVerdict, ApplyChosen
<1>10. QED
    BY <1>2, <1>8, <1>9 DEF ApplyInv

LEMMA ApplyTyped ==
    ASSUME ApplyInv
    PROVE  /\ x1 \in BOOLEAN /\ x2 \in Apply!Contents \cup {Apply!None} /\ x3 \in Apply!Contents
           /\ x4 \in BOOLEAN /\ x5 \in Apply!Snippets /\ x8 \in BOOLEAN
           /\ x6 \in [verdict : Apply!Contents \cup {Apply!None}, valid : BOOLEAN, preview : Apply!Contents \cup {Apply!None},
                         list : Apply!Snippets, tab : {"editor", "preview", "snippets"}]
           /\ busy \subseteq Apply!Ops /\ x7 \in Apply!Contents \cup {Apply!None} /\ steps \in 0..MoreSteps
           /\ ApplyShapes /\ Apply!NoDeadButton /\ ApplyVerdict /\ ApplyChosen
BY DEF ApplyInv, Apply!TypeOK

(* A request other than a validation that is sent.                         *)
LEMMA ApplySends ==
    ASSUME ApplyInv, NEW op \in Apply!Ops, NEW text \in Apply!Contents \cup {Apply!None}, NEW name \in Presets \cup {Apply!None},
           Apply!Send(op, text, name)
    PROVE  /\ ApplyShapes' /\ Apply!NoDeadButton' /\ busy' \subseteq Apply!Ops
           /\ op # "validate" => /\ \A c \in Apply!Sent("validate")' : c \in Apply!Sent("validate") /\ calls'[c] = calls[c]
                                 /\ Apply!Sent("validate") \subseteq Apply!Sent("validate")'
           /\ op = "validate" /\ Apply!Sent("validate") = {} =>
                /\ \A c \in Apply!Sent("validate")' : calls'[c].text = text
                /\ Apply!Sent("validate")' # {}
<1>1. busy \subseteq Apply!Ops /\ ApplyShapes /\ Apply!NoDeadButton
    BY ApplyTyped
<1>2. PICK c \in Lanes : /\ calls[c].op = Apply!None
                         /\ calls' = [calls EXCEPT ![c] = [Apply!NoCall EXCEPT !.op = op, !.text = text, !.name = name, !.at = "sent"]]
    BY DEF Apply!Send, Apply!Free
<1>3. busy' = busy \cup {Apply!Flag(op)} /\ Apply!Flag(op) \in Apply!Ops
    BY DEF Apply!Send, Apply!Flag, Apply!Ops
<1>4. /\ [Apply!NoCall EXCEPT !.op = op, !.text = text, !.name = name, !.at = "sent"] \in ApplyCalls
      /\ [Apply!NoCall EXCEPT !.op = op, !.text = text, !.name = name, !.at = "sent"].op = op
      /\ [Apply!NoCall EXCEPT !.op = op, !.text = text, !.name = name, !.at = "sent"].text = text
      /\ [Apply!NoCall EXCEPT !.op = op, !.text = text, !.name = name, !.at = "sent"].after = Apply!None
    BY ApplyNothing DEF Apply!NoCall, ApplyCalls
<1>5. /\ calls'[c].op = op /\ calls'[c].text = text /\ calls'[c].after = Apply!None
      /\ \A d \in Lanes \ {c} : calls'[d] = calls[d]
    BY <1>1, <1>2, <1>4 DEF ApplyShapes
<1>6. ApplyShapes'
    BY <1>1, <1>2, <1>4, <1>5 DEF ApplyShapes
<1>7. calls[c].after = Apply!None
    BY <1>1, <1>2 DEF ApplyShapes, Apply!None
<1>8. Apply!NoDeadButton'
    <2>1. ASSUME NEW b \in busy' PROVE \E d \in Lanes : Apply!Flag(calls'[d].op) = b \/ calls'[d].after = b
        <3>1. CASE b = Apply!Flag(op)
            BY <1>5, <3>1
        <3>2. CASE b \in busy
            <4>1. PICK d \in Lanes : Apply!Flag(calls[d].op) = b \/ calls[d].after = b
                BY <1>1, <3>2 DEF Apply!NoDeadButton
            <4>2. b # Apply!None
                BY <1>1, <3>2 DEF Apply!Ops, Apply!None
            <4>3. d # c
                BY <1>2, <1>7, <4>1, <4>2 DEF Apply!Flag, Apply!None
            <4>4. QED
                BY <1>5, <4>1, <4>3
        <3>3. QED
            BY <1>3, <3>1, <3>2
    <2>2. QED
        BY <2>1 DEF Apply!NoDeadButton
<1>9. ASSUME op # "validate"
      PROVE  /\ \A d \in Apply!Sent("validate")' : d \in Apply!Sent("validate") /\ calls'[d] = calls[d]
             /\ Apply!Sent("validate") \subseteq Apply!Sent("validate")'
    BY <1>2, <1>5, <1>9 DEF Apply!Sent, Apply!None
<1>10. ASSUME op = "validate", Apply!Sent("validate") = {}
       PROVE  (\A d \in Apply!Sent("validate")' : calls'[d].text = text) /\ Apply!Sent("validate")' # {}
    BY <1>5, <1>10 DEF Apply!Sent
<1>11. QED
    BY <1>1, <1>3, <1>6, <1>8, <1>9, <1>10

(* The text is set, while the validations and the verdict stay.            *)
LEMMA ApplySets ==
    ASSUME ApplyInv, NEW text \in Apply!Contents, Apply!SetContent(text), x8' = x8,
           x6'.verdict = x6.verdict,
           \A c \in Apply!Sent("validate")' : c \in Apply!Sent("validate") /\ calls'[c] = calls[c],
           Apply!Sent("validate") \subseteq Apply!Sent("validate")'
    PROVE  x3' \in Apply!Contents /\ x4' \in BOOLEAN /\ ApplyVerdict'
<1>1. x4 \in BOOLEAN /\ ApplyVerdict
    BY ApplyTyped
<1>2. x3' = text /\ x4' = (IF text = x3 THEN x4 ELSE text # Apply!Empty)
    BY DEF Apply!SetContent
<1>3. ASSUME ~x8', ~x4', x3' # Apply!Empty PROVE ~x8 /\ ~x4 /\ x3 # Apply!Empty /\ x3' = x3
    BY <1>2, <1>3
<1>4. ApplyVerdict'
    BY <1>1, <1>3 DEF ApplyVerdict
<1>5. QED
    BY <1>1, <1>2, <1>4

(* A request that ends.                                                    *)
LEMMA ApplyEnds ==
    ASSUME ApplyInv, NEW c \in Lanes, Apply!Ends(c)
    PROVE  /\ ApplyShapes' /\ Apply!NoDeadButton' /\ busy' \subseteq Apply!Ops
           /\ Apply!Sent("validate")' = Apply!Sent("validate") \ {c}
           /\ \A d \in Lanes \ {c} : calls'[d] = calls[d]
<1>1. busy \subseteq Apply!Ops /\ ApplyShapes /\ Apply!NoDeadButton
    BY ApplyTyped
<1>2. calls' = [calls EXCEPT ![c] = Apply!NoCall] /\ busy' = busy \ {Apply!Flag(calls[c].op), calls[c].after}
    BY DEF Apply!Ends
<1>3. calls'[c] = Apply!NoCall /\ \A d \in Lanes \ {c} : calls'[d] = calls[d]
    BY <1>1, <1>2 DEF ApplyShapes
<1>4. ApplyShapes'
    BY <1>1, <1>2, <1>3, ApplyNothing DEF ApplyShapes
<1>5. Apply!NoDeadButton'
    BY <1>1, <1>2, <1>3 DEF Apply!NoDeadButton
<1>6. Apply!Sent("validate")' = Apply!Sent("validate") \ {c}
    BY <1>3, ApplyNothing DEF Apply!Sent, Apply!None
<1>7. QED
    BY <1>1, <1>2, <1>3, <1>4, <1>5, <1>6

LEMMA ApplyStep == ASSUME ApplyInv, Apply!Next \/ UNCHANGED Apply!vars PROVE ApplyInv'
<1>1. /\ x1 \in BOOLEAN /\ x2 \in Apply!Contents \cup {Apply!None} /\ x3 \in Apply!Contents
      /\ x4 \in BOOLEAN /\ x5 \in Apply!Snippets /\ x8 \in BOOLEAN
      /\ x6 \in [verdict : Apply!Contents \cup {Apply!None}, valid : BOOLEAN, preview : Apply!Contents \cup {Apply!None},
                    list : Apply!Snippets, tab : {"editor", "preview", "snippets"}]
      /\ busy \subseteq Apply!Ops /\ x7 \in Apply!Contents \cup {Apply!None} /\ steps \in 0..MoreSteps
    BY ApplyTyped
<1>2. ApplyShapes /\ Apply!NoDeadButton /\ ApplyVerdict /\ ApplyChosen
    BY ApplyTyped
<1>3. Apply!Step => steps' \in 0..MoreSteps
    BY <1>1 DEF Apply!Step
<1>4. ASSUME x1' \in BOOLEAN, x2' \in Apply!Contents \cup {Apply!None}, x3' \in Apply!Contents,
             x4' \in BOOLEAN, x5' \in Apply!Snippets, x8' \in BOOLEAN,
             x6' \in [verdict : Apply!Contents \cup {Apply!None}, valid : BOOLEAN, preview : Apply!Contents \cup {Apply!None},
                         list : Apply!Snippets, tab : {"editor", "preview", "snippets"}],
             busy' \subseteq Apply!Ops, x7' \in Apply!Contents \cup {Apply!None}, steps' \in 0..MoreSteps,
             ApplyShapes', Apply!NoDeadButton', ApplyVerdict', ApplyChosen'
      PROVE  ApplyInv'
    <2>1. \A c \in Lanes : calls'[c].op \in Apply!Ops \cup {Apply!None} /\ calls'[c].at \in {Apply!None, "sent", "done"}
        BY <1>4 DEF ApplyShapes, ApplyCalls
    <2>2. QED
        BY <1>4, <2>1 DEF ApplyInv, Apply!TypeOK
<1>5. Valid \subseteq Apply!Contents /\ Preset \in Apply!Contents /\ Apply!Empty \in Apply!Contents
    BY PastedAssumption DEF Apply!Contents
<1>6. ASSUME Apply!Step, x2' \in Apply!Contents \cup {Apply!None}, x1' \in BOOLEAN, Apply!Fill, UNCHANGED <<x5, x6, x8>>
      PROVE  ApplyInv'
    <2>1. PICK text : /\ text = (IF x2' # Apply!None THEN x2' ELSE IF x3 = Apply!Empty THEN Preset ELSE x3)
                      /\ Apply!SetContent(text) /\ Apply!Send("list", Apply!None, Apply!None)
                      /\ x7' = (IF x2' # Apply!None THEN Apply!None ELSE x7)
        BY <1>6 DEF Apply!Fill
    <2>2. text \in Apply!Contents
        BY <1>1, <1>5, <1>6, <2>1
    <2>3. "list" \in Apply!Ops /\ "list" # "validate"
        BY DEF Apply!Ops
    <2>4. /\ ApplyShapes' /\ Apply!NoDeadButton' /\ busy' \subseteq Apply!Ops
          /\ \A c \in Apply!Sent("validate")' : c \in Apply!Sent("validate") /\ calls'[c] = calls[c]
          /\ Apply!Sent("validate") \subseteq Apply!Sent("validate")'
        BY <2>1, <2>3, ApplySends
    <2>5. x3' \in Apply!Contents /\ x4' \in BOOLEAN /\ ApplyVerdict'
        BY <1>6, <2>1, <2>2, <2>4, ApplySets
    <2>6. ApplyChosen'
        BY <1>2, <2>1 DEF ApplyChosen, Apply!SetContent
    <2>7. x7' \in Apply!Contents \cup {Apply!None}
        BY <1>1, <2>1
    <2>8. QED
        BY <1>1, <1>3, <1>4, <1>6, <2>4, <2>5, <2>6, <2>7
<1>7. CASE (\E t \in Valid \cup {Apply!None} : Apply!OpenApplyModal(t)) \/ Apply!TopologyLoads
    <2>1. Apply!Step /\ x2' \in Apply!Contents \cup {Apply!None} /\ x1' \in BOOLEAN /\ Apply!Fill /\ UNCHANGED <<x5, x6, x8>>
        <3>1. CASE \E t \in Valid \cup {Apply!None} : Apply!OpenApplyModal(t)
            <4>1. PICK t \in Valid \cup {Apply!None} : Apply!OpenApplyModal(t)
                BY <3>1
            <4>2. Apply!Step /\ x2' = t /\ x1' = TRUE /\ Apply!Fill /\ UNCHANGED <<x5, x6, x8>>
                BY <4>1 DEF Apply!OpenApplyModal
            <4>3. t \in Apply!Contents \cup {Apply!None}
                BY <1>5
            <4>4. QED
                BY <4>2, <4>3
        <3>2. CASE Apply!TopologyLoads
            <4>1. Apply!Step /\ x2' = x2 /\ x1' = x1 /\ Apply!Fill /\ UNCHANGED <<x5, x6, x8>>
                BY <3>2 DEF Apply!TopologyLoads
            <4>2. QED
                BY <1>1, <4>1
        <3>3. QED
            BY <1>7, <3>1, <3>2
    <2>2. QED
        BY <1>6, <2>1
<1>8. CASE Apply!Close \/ (\E t \in {"editor", "preview", "snippets"} : Apply!ChangeTab(t)) \/ UNCHANGED Apply!vars
    <2>1. /\ x1' \in BOOLEAN
          /\ x6' \in [verdict : Apply!Contents \cup {Apply!None}, valid : BOOLEAN, preview : Apply!Contents \cup {Apply!None},
                         list : Apply!Snippets, tab : {"editor", "preview", "snippets"}]
          /\ x6'.verdict = x6.verdict
          /\ UNCHANGED <<x2, x3, x4, x5, calls, busy, x7, x8, steps>>
        <3>1. CASE Apply!Close \/ UNCHANGED Apply!vars
            BY <1>1, <3>1 DEF Apply!Close, Apply!vars
        <3>2. CASE \E t \in {"editor", "preview", "snippets"} : Apply!ChangeTab(t)
            BY <1>1, <3>2 DEF Apply!ChangeTab
        <3>3. QED
            BY <1>8, <3>1, <3>2
    <2>2. ApplyShapes' /\ Apply!NoDeadButton' /\ ApplyVerdict' /\ ApplyChosen'
        BY <1>2, <2>1 DEF ApplyShapes, Apply!NoDeadButton, ApplyVerdict, Apply!Sent, ApplyChosen
    <2>3. QED
        BY <1>1, <1>4, <2>1, <2>2
<1>9. CASE \E t \in Apply!Contents : Apply!Choose(t)
    <2>1. PICK t \in Apply!Contents : Apply!Choose(t)
        BY <1>9
    <2>2. /\ Apply!Step /\ Apply!SetContent(t) /\ x7' = t /\ UNCHANGED <<x1, x2, x5, x6, calls, busy, x8>>
        BY <2>1 DEF Apply!Choose
    <2>3. Apply!Sent("validate")' = Apply!Sent("validate") /\ calls' = calls
        BY <2>2 DEF Apply!Sent
    <2>4. x3' \in Apply!Contents /\ x4' \in BOOLEAN /\ ApplyVerdict'
        BY <2>2, <2>3, ApplySets
    <2>5. ApplyShapes' /\ Apply!NoDeadButton'
        BY <1>2, <2>2 DEF ApplyShapes, Apply!NoDeadButton
    <2>6. ApplyChosen'
        BY <2>2 DEF ApplyChosen, Apply!SetContent
    <2>7. QED
        BY <1>1, <1>3, <1>4, <2>1, <2>2, <2>4, <2>5, <2>6
<1>10. CASE Apply!Validate
    <2>1. /\ x4' = FALSE /\ Apply!Send("validate", x3, Apply!None)
          /\ x8' = (Apply!Sent("validate") # {})
          /\ UNCHANGED <<x1, x2, x3, x5, x6, x7, steps>>
        BY <1>10 DEF Apply!Validate
    <2>2. "validate" \in Apply!Ops
        BY DEF Apply!Ops
    <2>3. /\ ApplyShapes' /\ Apply!NoDeadButton' /\ busy' \subseteq Apply!Ops
          /\ Apply!Sent("validate") = {} => /\ \A c \in Apply!Sent("validate")' : calls'[c].text = x3
                                            /\ Apply!Sent("validate")' # {}
        BY <1>1, <2>1, <2>2, ApplySends
    <2>4. ApplyVerdict'
        BY <2>1, <2>3 DEF ApplyVerdict
    <2>5. ApplyChosen'
        BY <1>2, <2>1 DEF ApplyChosen
    <2>6. x8' \in BOOLEAN /\ x4' \in BOOLEAN
        BY <2>1
    <2>7. QED
        BY <1>1, <1>4, <2>1, <2>3, <2>4, <2>5, <2>6
<1>11. ASSUME NEW op \in Apply!Ops \ {"validate"}, NEW text \in Apply!Contents \cup {Apply!None}, NEW name \in Presets \cup {Apply!None},
              Apply!Send(op, text, name), steps' \in 0..MoreSteps,
              UNCHANGED <<x1, x2, x3, x4, x5, x6, x7, x8>>
       PROVE  ApplyInv'
    <2>1. /\ ApplyShapes' /\ Apply!NoDeadButton' /\ busy' \subseteq Apply!Ops
          /\ \A c \in Apply!Sent("validate")' : c \in Apply!Sent("validate") /\ calls'[c] = calls[c]
          /\ Apply!Sent("validate") \subseteq Apply!Sent("validate")'
        BY <1>11, ApplySends
    <2>2. ApplyVerdict' /\ ApplyChosen'
        BY <1>2, <1>11, <2>1 DEF ApplyVerdict, ApplyChosen
    <2>3. QED
        BY <1>1, <1>4, <1>11, <2>1, <2>2
<1>12. CASE Apply!HandlePreview \/ Apply!GeneratePreview \/ Apply!HandleApply
    <2>1. PICK op \in {"preview", "apply"} :
              Apply!Send(op, x3, Apply!None) /\ UNCHANGED <<x1, x2, x3, x4, x5, x6, x7, x8, steps>>
        BY <1>12 DEF Apply!HandlePreview, Apply!GeneratePreview, Apply!HandleApply
    <2>2. op \in Apply!Ops \ {"validate"}
        BY <2>1 DEF Apply!Ops
    <2>3. QED
        BY <1>1, <1>11, <2>1, <2>2
<1>13. CASE \E n \in Presets : Apply!HandleSaveSnippet(n) \/ Apply!HandleDeleteSnippet(n) \/ Apply!HandleApplySnippetDirect(n)
    <2>1. PICK n \in Presets : Apply!HandleSaveSnippet(n) \/ Apply!HandleDeleteSnippet(n) \/ Apply!HandleApplySnippetDirect(n)
        BY <1>13
    <2>2. x6.list[n] \in Apply!Contents \cup {Apply!None}
        BY <1>1 DEF Apply!Snippets
    <2>3. PICK op \in {"save", "delete", "applySnippet"}, text \in Apply!Contents \cup {Apply!None} :
              Apply!Step /\ Apply!Send(op, text, n) /\ UNCHANGED <<x1, x2, x3, x4, x5, x6, x7, x8>>
        BY <1>1, <2>1, <2>2 DEF Apply!HandleSaveSnippet, Apply!HandleDeleteSnippet, Apply!HandleApplySnippetDirect
    <2>4. op \in Apply!Ops \ {"validate"}
        BY <2>3 DEF Apply!Ops
    <2>5. QED
        BY <1>3, <1>11, <2>3, <2>4
<1>14. CASE \E n \in Presets : Apply!HandleLoadSnippetAndPreview(n)
    <2>1. PICK n \in Presets : Apply!HandleLoadSnippetAndPreview(n)
        BY <1>14
    <2> DEFINE text == x6.list[n]
    <2>2. /\ n \in Apply!Listed /\ Apply!Step /\ Apply!SetContent(text) /\ x7' = text
          /\ x6' = [x6 EXCEPT !.tab = "preview"] /\ Apply!Send("previewSnippet", text, n)
          /\ UNCHANGED <<x1, x2, x5, x8>>
        BY <2>1 DEF Apply!HandleLoadSnippetAndPreview
    <2>3. text \in Apply!Contents
        BY <1>1, <2>1, <2>2 DEF Apply!Snippets, Apply!Listed
    <2>4. "previewSnippet" \in Apply!Ops /\ "previewSnippet" # "validate"
        BY DEF Apply!Ops
    <2>5. /\ ApplyShapes' /\ Apply!NoDeadButton' /\ busy' \subseteq Apply!Ops
          /\ \A c \in Apply!Sent("validate")' : c \in Apply!Sent("validate") /\ calls'[c] = calls[c]
          /\ Apply!Sent("validate") \subseteq Apply!Sent("validate")'
        BY <2>1, <2>2, <2>3, <2>4, ApplySends
    <2>6. /\ x6' \in [verdict : Apply!Contents \cup {Apply!None}, valid : BOOLEAN, preview : Apply!Contents \cup {Apply!None},
                         list : Apply!Snippets, tab : {"editor", "preview", "snippets"}]
          /\ x6'.verdict = x6.verdict
        BY <1>1, <2>2
    <2>7. x3' \in Apply!Contents /\ x4' \in BOOLEAN /\ ApplyVerdict'
        BY <2>2, <2>3, <2>5, <2>6, ApplySets
    <2>8. ApplyChosen'
        BY <2>2 DEF ApplyChosen, Apply!SetContent
    <2>9. QED
        BY <1>1, <1>3, <1>4, <2>2, <2>3, <2>5, <2>6, <2>7, <2>8
<1>15. CASE \E c \in Lanes : Apply!ServerAnswers(c)
    <2>1. PICK c \in Lanes : Apply!ServerAnswers(c)
        BY <1>15
    <2>2. PICK got \in {x5, Apply!NoSnippets} : calls' = [calls EXCEPT ![c].at = "done", ![c].got = got]
        BY <2>1 DEF Apply!ServerAnswers
    <2>3. /\ x5' \in {[x5 EXCEPT ![calls[c].name] = calls[c].text], [x5 EXCEPT ![calls[c].name] = Apply!None], x5}
          /\ UNCHANGED <<x1, x2, x3, x4, x6, busy, x7, x8, steps>>
        BY <2>1 DEF Apply!ServerAnswers
    <2>4. got \in Apply!Snippets
        BY <1>1, <2>2, ApplyNothing
    <2>5. calls[c] \in ApplyCalls
        BY <1>2 DEF ApplyShapes
    <2>6. /\ [calls[c] EXCEPT !.at = "done", !.got = got] \in ApplyCalls
          /\ [calls[c] EXCEPT !.at = "done", !.got = got].op = calls[c].op
          /\ [calls[c] EXCEPT !.at = "done", !.got = got].text = calls[c].text
          /\ [calls[c] EXCEPT !.at = "done", !.got = got].after = calls[c].after
        BY <2>4, <2>5 DEF ApplyCalls
    <2>7. calls' = [calls EXCEPT ![c] = [calls[c] EXCEPT !.at = "done", !.got = got]]
        BY <1>2, <2>2 DEF ApplyShapes
    <2>8. /\ calls' \in [Lanes -> ApplyCalls]
          /\ \A d \in Lanes : /\ calls'[d].op = calls[d].op /\ calls'[d].text = calls[d].text
                              /\ calls'[d].after = calls[d].after
        BY <1>2, <2>6, <2>7 DEF ApplyShapes
    <2>9. ApplyShapes' /\ Apply!NoDeadButton'
        BY <1>2, <2>3, <2>8 DEF ApplyShapes, Apply!NoDeadButton
    <2>10. Apply!Sent("validate")' = Apply!Sent("validate")
        BY <2>8 DEF Apply!Sent
    <2>11. ApplyVerdict' /\ ApplyChosen'
        BY <1>2, <2>3, <2>8, <2>10 DEF ApplyVerdict, ApplyChosen, Apply!Sent
    <2>12. x5' \in Apply!Snippets
        BY <1>1, <2>3, <2>5 DEF Apply!Snippets, ApplyCalls
    <2>13. QED
        BY <1>1, <1>4, <2>3, <2>9, <2>11, <2>12
<1>16. ASSUME NEW c \in Lanes, Apply!Ends(c), x1' \in BOOLEAN,
              x6' \in [verdict : Apply!Contents \cup {Apply!None}, valid : BOOLEAN, preview : Apply!Contents \cup {Apply!None},
                          list : Apply!Snippets, tab : {"editor", "preview", "snippets"}],
              x6'.verdict = IF calls[c].op = "validate" THEN calls[c].text ELSE x6.verdict,
              UNCHANGED <<x2, x3, x4, x5, x7, x8, steps>>
       PROVE  ApplyInv'
    <2>1. /\ ApplyShapes' /\ Apply!NoDeadButton' /\ busy' \subseteq Apply!Ops
          /\ Apply!Sent("validate")' = Apply!Sent("validate") \ {c}
          /\ \A d \in Lanes \ {c} : calls'[d] = calls[d]
        BY <1>16, ApplyEnds
    <2>2. ApplyVerdict'
        <3>1. CASE calls[c].op = "validate"
            <4>1. c \in Apply!Sent("validate")
                BY <3>1 DEF Apply!Sent
            <4>2. QED
                BY <1>2, <1>16, <2>1, <3>1, <4>1 DEF ApplyVerdict, Apply!Sent
        <3>2. CASE calls[c].op # "validate"
            <4>1. c \notin Apply!Sent("validate")
                BY <3>2 DEF Apply!Sent
            <4>2. QED
                BY <1>2, <1>16, <2>1, <3>2, <4>1 DEF ApplyVerdict, Apply!Sent
        <3>3. QED
            BY <3>1, <3>2
    <2>3. ApplyChosen'
        BY <1>2, <1>16 DEF ApplyChosen
    <2>4. QED
        BY <1>1, <1>4, <1>16, <2>1, <2>2, <2>3
<1>17. \A c \in Lanes : calls[c].text \in Apply!Contents \cup {Apply!None} /\ calls[c].got \in Apply!Snippets
    BY <1>2 DEF ApplyShapes, ApplyCalls
<1>18. CASE \E c \in Lanes : Apply!VerdictArrives(c)
    <2>1. PICK c \in Lanes : Apply!VerdictArrives(c)
        BY <1>18
    <2>2. /\ calls[c].op = "validate" /\ Apply!Ends(c)
          /\ x6' = [x6 EXCEPT !.verdict = calls[c].text, !.valid = calls[c].text \in Valid]
          /\ UNCHANGED <<x1, x2, x3, x4, x5, x7, x8, steps>>
        BY <2>1 DEF Apply!VerdictArrives, Apply!Ended
    <2>3. /\ x6' \in [verdict : Apply!Contents \cup {Apply!None}, valid : BOOLEAN, preview : Apply!Contents \cup {Apply!None},
                         list : Apply!Snippets, tab : {"editor", "preview", "snippets"}]
          /\ x6'.verdict = calls[c].text
        <3>1. ASSUME NEW b \in BOOLEAN, x6' = [x6 EXCEPT !.verdict = calls[c].text, !.valid = b]
              PROVE  /\ x6' \in [verdict : Apply!Contents \cup {Apply!None}, valid : BOOLEAN, preview : Apply!Contents \cup {Apply!None},
                                    list : Apply!Snippets, tab : {"editor", "preview", "snippets"}]
                     /\ x6'.verdict = calls[c].text
            BY <1>1, <1>17, <3>1
        <3>2. CASE calls[c].text \in Valid
            <4>1. x6' = [x6 EXCEPT !.verdict = calls[c].text, !.valid = TRUE]
                BY <2>2, <3>2, Zenon
            <4>2. QED
                BY <3>1, <4>1
        <3>3. CASE calls[c].text \notin Valid
            <4>1. (calls[c].text \in Valid) = FALSE
                BY <3>3
            <4>2. x6' = [x6 EXCEPT !.verdict = calls[c].text, !.valid = FALSE]
                BY <2>2, <4>1, Zenon
            <4>3. QED
                BY <3>1, <4>2
        <3>4. QED
            BY <3>2, <3>3
    <2>4. QED
        BY <1>1, <1>16, <2>2, <2>3
<1>19. CASE \E c \in Lanes : Apply!PreviewArrives(c)
    <2>1. PICK c \in Lanes : Apply!PreviewArrives(c)
        BY <1>19
    <2>2. /\ calls[c].op # "validate" /\ Apply!Ends(c)
          /\ x6' = [x6 EXCEPT !.preview = calls[c].text,
                           !.tab = IF calls[c].op = "preview" THEN "preview" ELSE x6.tab]
          /\ UNCHANGED <<x1, x2, x3, x4, x5, x7, x8, steps>>
        BY <2>1 DEF Apply!PreviewArrives, Apply!Ended
    <2>3. /\ x6' \in [verdict : Apply!Contents \cup {Apply!None}, valid : BOOLEAN, preview : Apply!Contents \cup {Apply!None},
                         list : Apply!Snippets, tab : {"editor", "preview", "snippets"}]
          /\ x6'.verdict = x6.verdict
        BY <1>1, <1>17, <2>2
    <2>4. QED
        BY <1>1, <1>16, <2>2, <2>3
<1>20. CASE \E c \in Lanes : Apply!SyncArrives(c) \/ Apply!ListArrives(c)
    <2>1. PICK c \in Lanes : Apply!SyncArrives(c) \/ Apply!ListArrives(c)
        BY <1>20
    <2>2. /\ calls[c].op # "validate" /\ Apply!Ends(c) /\ x1' \in BOOLEAN
          /\ x6' = x6 \/ x6' = [x6 EXCEPT !.list = calls[c].got]
          /\ UNCHANGED <<x2, x3, x4, x5, x7, x8, steps>>
        BY <1>1, <2>1 DEF Apply!SyncArrives, Apply!ListArrives, Apply!Ended
    <2>3. /\ x6' \in [verdict : Apply!Contents \cup {Apply!None}, valid : BOOLEAN, preview : Apply!Contents \cup {Apply!None},
                         list : Apply!Snippets, tab : {"editor", "preview", "snippets"}]
          /\ x6'.verdict = x6.verdict
        BY <1>1, <1>17, <2>2
    <2>4. QED
        BY <1>1, <1>16, <2>2, <2>3
<1>21. CASE \E c \in Lanes : Apply!SnippetsChanged(c)
    <2>1. PICK c \in Lanes : Apply!SnippetsChanged(c)
        BY <1>21
    <2>2. /\ calls[c].op \in {"save", "delete"}
          /\ calls' = [calls EXCEPT ![c] = [Apply!NoCall EXCEPT !.op = "list", !.after = calls[c].op, !.at = "sent"]]
          /\ busy' = busy \cup {"list"}
          /\ UNCHANGED <<x1, x2, x3, x4, x5, x6, x7, x8, steps>>
        BY <2>1 DEF Apply!SnippetsChanged, Apply!Ended
    <2>3. "list" \in Apply!Ops /\ calls[c].op \in Apply!Ops /\ calls[c].op \notin {"list", "validate", "previewSnippet"}
        BY <2>2 DEF Apply!Ops
    <2>4. /\ [Apply!NoCall EXCEPT !.op = "list", !.after = calls[c].op, !.at = "sent"] \in ApplyCalls
          /\ [Apply!NoCall EXCEPT !.op = "list", !.after = calls[c].op, !.at = "sent"].op = "list"
          /\ [Apply!NoCall EXCEPT !.op = "list", !.after = calls[c].op, !.at = "sent"].after = calls[c].op
        BY <2>3, ApplyNothing DEF Apply!NoCall, ApplyCalls
    <2>5. /\ calls'[c].op = "list" /\ calls'[c].after = calls[c].op
          /\ \A d \in Lanes \ {c} : calls'[d] = calls[d]
        BY <1>2, <2>2, <2>4 DEF ApplyShapes
    <2>6. ApplyShapes'
        BY <1>2, <2>2, <2>4, <2>5 DEF ApplyShapes
    <2>7. calls[c].after = Apply!None /\ Apply!Flag(calls[c].op) = calls[c].op /\ Apply!Flag("list") = "list"
        BY <1>2, <2>3 DEF ApplyShapes, Apply!Flag
    <2>8. Apply!NoDeadButton'
        <3>1. ASSUME NEW b \in busy' PROVE \E d \in Lanes : Apply!Flag(calls'[d].op) = b \/ calls'[d].after = b
            <4>1. CASE b = "list"
                BY <2>5, <2>7, <4>1
            <4>2. CASE b \in busy
                <5>1. PICK d \in Lanes : Apply!Flag(calls[d].op) = b \/ calls[d].after = b
                    BY <1>2, <4>2 DEF Apply!NoDeadButton
                <5>2. b # Apply!None
                    BY <1>1, <4>2 DEF Apply!Ops, Apply!None
                <5>3. CASE d = c
                    BY <2>5, <2>7, <5>1, <5>2, <5>3
                <5>4. CASE d # c
                    BY <2>5, <5>1, <5>4
                <5>5. QED
                    BY <5>3, <5>4
            <4>3. QED
                BY <2>2, <4>1, <4>2
        <3>2. QED
            BY <3>1 DEF Apply!NoDeadButton
    <2>9. Apply!Sent("validate")' = Apply!Sent("validate") /\ \A d \in Apply!Sent("validate") : calls'[d] = calls[d]
        BY <2>3, <2>5 DEF Apply!Sent
    <2>10. ApplyVerdict' /\ ApplyChosen'
        BY <1>2, <2>2, <2>9 DEF ApplyVerdict, ApplyChosen
    <2>11. QED
        BY <1>1, <1>4, <2>2, <2>3, <2>6, <2>8, <2>10
<1>22. CASE \E c \in Lanes : Apply!Fails(c)
    <2>1. PICK c \in Lanes : Apply!Fails(c)
        BY <1>22
    <2>2. Apply!Ends(c) /\ UNCHANGED <<x1, x2, x3, x4, x5, x7, x8, steps>>
        BY <2>1 DEF Apply!Fails
    <2>3. x6' = CASE calls[c].op = "validate" -> [x6 EXCEPT !.verdict = calls[c].text, !.valid = FALSE]
                     [] calls[c].op = "list" -> [x6 EXCEPT !.list = Apply!NoSnippets]
                     [] OTHER -> x6
        BY <2>1 DEF Apply!Fails
    <2>4. /\ x6' \in [verdict : Apply!Contents \cup {Apply!None}, valid : BOOLEAN, preview : Apply!Contents \cup {Apply!None},
                         list : Apply!Snippets, tab : {"editor", "preview", "snippets"}]
          /\ x6'.verdict = IF calls[c].op = "validate" THEN calls[c].text ELSE x6.verdict
        <3>1. CASE calls[c].op = "validate"
            <4>1. x6' = [x6 EXCEPT !.verdict = calls[c].text, !.valid = FALSE]
                BY <2>3, <3>1
            <4>2. QED
                BY <1>1, <1>17, <3>1, <4>1
        <3>2. CASE calls[c].op = "list"
            <4>1. x6' = [x6 EXCEPT !.list = Apply!NoSnippets]
                BY <2>3, <3>2
            <4>2. QED
                BY <1>1, <3>2, <4>1, ApplyNothing
        <3>3. CASE calls[c].op # "validate" /\ calls[c].op # "list"
            <4>1. x6' = x6
                BY <2>3, <3>3
            <4>2. QED
                BY <1>1, <3>3, <4>1
        <3>4. QED
            BY <3>1, <3>2, <3>3
    <2>5. QED
        BY <1>1, <1>16, <2>2, <2>4
<1>23. CASE \E c \in Lanes : Apply!Applied(c)
    <2>1. PICK c \in Lanes : Apply!Applied(c)
        BY <1>23
    <2>2. /\ calls[c].op \in {"apply", "applySnippet"} /\ x1' \in BOOLEAN /\ busy' = busy \ {calls[c].op}
          /\ UNCHANGED <<x2, x3, x4, x5, x6, x7, x8, steps>>
        BY <2>1 DEF Apply!Applied, Apply!Ended
    <2>3. PICK autoSync \in BOOLEAN : calls' = [calls EXCEPT ![c] =
              IF autoSync THEN [Apply!NoCall EXCEPT !.op = "sync", !.at = "sent"] ELSE Apply!NoCall]
        BY <2>1 DEF Apply!Applied
    <2>4. PICK r : r = IF autoSync THEN [Apply!NoCall EXCEPT !.op = "sync", !.at = "sent"] ELSE Apply!NoCall
        OBVIOUS
    <2>5. r \in ApplyCalls /\ r.op \in {"sync", Apply!None} /\ r.after = Apply!None
        <3>1. CASE autoSync
            BY <2>4, <3>1, ApplyNothing DEF Apply!NoCall, ApplyCalls, Apply!Ops
        <3>2. CASE ~autoSync
            BY <2>4, <3>2, ApplyNothing
        <3>3. QED
            BY <3>1, <3>2
    <2>6. calls' = [calls EXCEPT ![c] = r]
        BY <2>3, <2>4
    <2>7. calls'[c] = r /\ \A d \in Lanes \ {c} : calls'[d] = calls[d]
        BY <1>2, <2>6 DEF ApplyShapes
    <2>8. ApplyShapes'
        BY <1>2, <2>5, <2>6, <2>7 DEF ApplyShapes
    <2>9. calls[c].after = Apply!None /\ Apply!Flag(calls[c].op) = calls[c].op
        BY <1>2, <2>2 DEF ApplyShapes, Apply!Flag
    <2>10. Apply!NoDeadButton'
        <3>1. ASSUME NEW b \in busy' PROVE \E d \in Lanes : Apply!Flag(calls'[d].op) = b \/ calls'[d].after = b
            <4>1. PICK d \in Lanes : Apply!Flag(calls[d].op) = b \/ calls[d].after = b
                BY <1>2, <2>2, <3>1 DEF Apply!NoDeadButton
            <4>2. b # calls[c].op /\ b # Apply!None
                BY <1>1, <2>2, <3>1 DEF Apply!Ops, Apply!None
            <4>3. d # c
                BY <2>9, <4>1, <4>2
            <4>4. QED
                BY <2>7, <4>1, <4>3
        <3>2. QED
            BY <3>1 DEF Apply!NoDeadButton
    <2>11. Apply!Sent("validate")' = Apply!Sent("validate") /\ \A d \in Apply!Sent("validate") : calls'[d] = calls[d]
        BY <2>2, <2>5, <2>7 DEF Apply!Sent, Apply!None
    <2>12. ApplyVerdict' /\ ApplyChosen'
        BY <1>2, <2>2, <2>11 DEF ApplyVerdict, ApplyChosen
    <2>13. busy' \subseteq Apply!Ops
        BY <1>1, <2>2
    <2>14. QED
        BY <1>1, <1>4, <2>2, <2>8, <2>10, <2>12, <2>13
<1>24. QED
    <2>1. Apply!ChoosePreset \/ Apply!HandleFormat \/ (\E t \in Apply!Contents : Apply!HandleGenerateFromState(t) \/ Apply!Type(t))
              => \E t \in Apply!Contents : Apply!Choose(t)
        BY <1>1, <1>5 DEF Apply!ChoosePreset, Apply!HandleFormat, Apply!HandleGenerateFromState, Apply!Type
    <2>2. QED
        BY <1>7, <1>8, <1>9, <1>10, <1>12, <1>13, <1>14, <1>15, <1>18, <1>19, <1>20, <1>21, <1>22, <1>23, <2>1 DEF Apply!Next

LEMMA ApplyShows == ASSUME ApplyInv PROVE Apply!TypeOK /\ Apply!NoDeadButton /\ Apply!VerdictIsOfText /\ Apply!TextKept
<1>1. Apply!TypeOK /\ Apply!NoDeadButton /\ ApplyVerdict /\ ApplyChosen
    BY DEF ApplyInv
<1>2. Apply!VerdictIsOfText
    BY <1>1 DEF ApplyVerdict, Apply!VerdictIsOfText, Apply!Verdict
<1>3. Apply!TextKept
    BY <1>1 DEF ApplyChosen, Apply!TextKept
<1>4. QED
    BY <1>1, <1>2, <1>3

-----------------------------------------------------------------------------
(***************************************************************************)
(* LinkForm. x1 is whether it is open, x2 the link edited, x3 the pair of  *)
(* nodes it was opened with, x4 the pair chosen, x5 the kind, x6 whether   *)
(* the settings are there, x7 the draft, x8 what the ports were derived    *)
(* for, x9 the effects that are due, x10 whether it was opened for the     *)
(* very pair it had before, x11 the parts touched.                         *)
(***************************************************************************)
(* The ports of a new link are derived from its pair, or typed since.      *)
FormPorts ==
    \A p \in (IF Link!IsExternalLink(x4) THEN {Link!ManagedPort} ELSE Link!Ports) \ x11 :
        x7[p] = Link!Derive(x7)[p] \/ (x10 /\ x7[p] = Link!Blank)

FormKeys == {Link!NoKey} \cup [pair : Link!Pairs, settings : BOOLEAN]

(* With no effect to run that fills or derives, the pair derived for is    *)
(* the one chosen; while one is to run, it will find out if it is another. *)
FormDerives ==
    x1 /\ x2 = Link!NoLink /\ "fill" \notin x9 =>
        /\ "derive" \notin x9 => x8 = Link!NoKey \/ x8.pair = x4
        /\ \/ "derive" \in x9 /\ x8 # Link!KeyOf(x4)
           \/ ~Link!Chosen(x4) \/ FormPorts
        /\ "policy" \in x9 \/ "policy" \in x11 \/ x7["policy"] = Link!PolicyOf(x4)

(* An opened form that is only filled changes its pair, unless it opened   *)
(* for the pair it had.                                                    *)
FormFills ==
    x1 /\ x2 = Link!NoLink /\ "fill" \in x9 /\ "derive" \notin x9 /\ Link!Chosen(x4) =>
        x10 \/ Link!InitialPair(Link!NoLink, x3) # x4

FormOfEdited ==
    x1 /\ x2 # Link!NoLink /\ "fill" \notin x9 =>
        x4 = x2 /\ \A p \in Link!Parts \ x11 : x7[p] = Link!OfLink(x2)

FormTouched == \A p \in x11 : x7[p] = Link!Typed

FormInv ==
    /\ Link!TypeOK /\ x8 \in FormKeys /\ Link!NoDeadButton
    /\ FormTouched /\ FormDerives /\ FormFills /\ FormOfEdited

(* The pairs of nodes, and what a field may hold.                          *)
LEMMA FormPairs ==
    /\ Link!NoPair \in Link!Pairs /\ LinksOfEnds \subseteq Link!Pairs /\ Link!Blank \in Link!Contents /\ Link!Typed \in Link!Contents
    /\ \A l \in Link!Pairs : Link!OfLink(l) \in Link!Contents /\ Link!PolicyOf(l) \in Link!Contents
    /\ \A l \in LinksOfEnds \cup {Link!NoLink}, i \in Link!Pairs : Link!InitialPair(l, i) \in Link!Pairs
    /\ Link!Blank # Link!Typed /\ Link!Ports \subseteq Link!Parts /\ "policy" \in Link!Parts /\ "policy" \notin Link!Ports /\ "peer" \in Link!Parts
<1>1. Link!NoPair \in Link!Pairs /\ \A a, b \in LinkEnds \cup {Link!None} : <<a, b>> \in Link!Pairs
    BY DEF Link!NoPair, Link!Pairs
<1>2. LinksOfEnds \subseteq Link!Pairs
    BY LinksOfAssumption DEF Link!Pairs
<1>3. Link!Blank \in Link!Contents /\ Link!Typed \in Link!Contents /\ Link!Blank # Link!Typed
    BY <1>1 DEF Link!Blank, Link!Typed, Link!Contents
<1>4. \A l \in Link!Pairs : Link!OfLink(l) \in Link!Contents /\ Link!PolicyOf(l) \in Link!Contents
    BY <1>1 DEF Link!OfLink, Link!PolicyOf, Link!Contents
<1>5. ASSUME NEW l \in LinksOfEnds \cup {Link!NoLink}, NEW i \in Link!Pairs PROVE Link!InitialPair(l, i) \in Link!Pairs
    <2>1. i[1] \in LinkEnds \cup {Link!None}
        BY DEF Link!Pairs
    <2>2. <<i[1], Link!None>> \in Link!Pairs
        BY <1>1, <2>1
    <2>3. QED
        BY <1>2, <2>2 DEF Link!InitialPair, Link!NoLink
<1>6. Link!Ports \subseteq Link!Parts /\ "policy" \in Link!Parts /\ "policy" \notin Link!Ports /\ "peer" \in Link!Parts
    BY DEF Link!Ports, Link!Parts
<1>7. QED
    BY <1>1, <1>2, <1>3, <1>4, <1>5, <1>6

(* A key says of which pair it is, and none is not one of a pair.          *)
LEMMA FormKey ==
    ASSUME x6 \in BOOLEAN, NEW p \in Link!Pairs
    PROVE  Link!KeyOf(p).pair = p /\ Link!KeyOf(p) # Link!NoKey /\ Link!KeyOf(p) \in FormKeys
<1>1. Link!KeyOf(p).pair = p /\ Link!KeyOf(p) # Link!NoKey
    <2>1. Link!KeyOf(p).pair = p
        BY DEF Link!KeyOf
    <2>2. CASE p = Link!NoPair
        <3>1. ~Link!Chosen(p)
            BY <2>2 DEF Link!Chosen, Link!NoPair
        <3>2. Link!KeyOf(p).settings = FALSE
            BY <3>1 DEF Link!KeyOf
        <3>3. Link!NoKey.settings = TRUE
            BY DEF Link!NoKey
        <3>4. QED
            BY <2>1, <3>2, <3>3
    <2>3. CASE p # Link!NoPair
        <3>1. Link!NoKey.pair = Link!NoPair
            BY DEF Link!NoKey
        <3>2. QED
            BY <2>1, <2>3, <3>1
    <2>4. QED
        BY <2>1, <2>2, <2>3
<1>2. Link!KeyOf(p) \in FormKeys
    <2>1. CASE Link!IsExternalLink(p) /\ Link!Chosen(p)
        <3>1. Link!KeyOf(p) = [pair |-> p, settings |-> x6]
            BY <2>1 DEF Link!KeyOf
        <3>2. QED
            BY <3>1 DEF FormKeys
    <2>2. CASE ~(Link!IsExternalLink(p) /\ Link!Chosen(p))
        <3>1. Link!KeyOf(p) = [pair |-> p, settings |-> FALSE]
            BY <2>2 DEF Link!KeyOf
        <3>2. QED
            BY <3>1 DEF FormKeys
    <2>3. QED
        BY <2>1, <2>2
<1>3. QED
    BY <1>1, <1>2

(* It holds before the dialog is opened.                                   *)
LEMMA FormInit == ASSUME Link!Init PROVE FormInv
<1>1. /\ x1 = FALSE /\ x2 = Link!NoLink /\ x3 = Link!NoPair /\ x4 = Link!NoPair /\ x5 = "wireguard"
      /\ x6 = FALSE /\ x7 = [p \in Link!Parts |-> IF p = "policy" THEN Link!PolicyOf(Link!NoPair) ELSE Link!Blank]
      /\ x8 = [pair |-> Link!NoPair, settings |-> FALSE] /\ x9 = {}
      /\ calls = "none" /\ busy = FALSE /\ x10 = FALSE /\ x11 = {} /\ steps = 0
    BY DEF Link!Init
<1>2. x7 \in [Link!Parts -> Link!Contents]
    BY <1>1, FormPairs
<1>3. x8 \in [pair : Link!Pairs, settings : BOOLEAN]
    BY <1>1, FormPairs
<1>4. Link!TypeOK /\ x8 \in FormKeys
    <2>1. x8 \in FormKeys
        BY <1>3 DEF FormKeys
    <2>2. x8 \in [pair : Link!Pairs, settings : BOOLEAN] \cup {[pair |-> Link!NoPair, settings |-> TRUE]}
        BY <1>3
    <2>3. x2 \in LinksOfEnds \cup {Link!NoLink} /\ x3 \in Link!Pairs /\ x4 \in Link!Pairs
        BY <1>1, FormPairs
    <2>4. x9 \subseteq Link!Effects /\ x11 \subseteq Link!Parts /\ steps \in 0..MaxSteps
        BY <1>1
    <2>5. /\ x1 \in BOOLEAN /\ x5 \in {"wireguard", "manual"} /\ x6 \in BOOLEAN
          /\ calls \in {"none", "sent"} /\ busy \in BOOLEAN /\ x10 \in BOOLEAN
        BY <1>1
    <2>6. QED
        BY <1>2, <2>1, <2>2, <2>3, <2>4, <2>5 DEF Link!TypeOK
<1>5. QED
    BY <1>1, <1>4 DEF FormInv, Link!NoDeadButton, FormTouched, FormDerives, FormFills, FormOfEdited

(* The types, unfolded.                                                    *)
LEMMA FormTyped ==
    ASSUME FormInv
    PROVE  /\ x1 \in BOOLEAN /\ x2 \in LinksOfEnds \cup {Link!NoLink} /\ x3 \in Link!Pairs /\ x4 \in Link!Pairs
           /\ x5 \in {"wireguard", "manual"} /\ x6 \in BOOLEAN
           /\ x7 \in [Link!Parts -> Link!Contents] /\ x11 \subseteq Link!Parts /\ x8 \in FormKeys
           /\ x9 \subseteq Link!Effects /\ calls \in {"none", "sent"} /\ busy \in BOOLEAN
           /\ x10 \in BOOLEAN /\ steps \in 0..MaxSteps /\ Link!NoDeadButton
           /\ FormTouched /\ FormDerives /\ FormFills /\ FormOfEdited
BY DEF FormInv, Link!TypeOK

(* What is derived is of the pair, and of nothing the form holds already.  *)
LEMMA FormDerived ==
    ASSUME NEW d \in [Link!Parts -> Link!Contents], NEW e \in [Link!Parts -> Link!Contents], x4 \in Link!Pairs
    PROVE  /\ Link!Derive(d) \in [Link!Parts -> Link!Contents] /\ Link!Derive(d)["policy"] = d["policy"]
           /\ Link!Derive(Link!Derive(d)) = Link!Derive(d)
           /\ \A p \in Link!Parts : d[p] = e[p] => Link!Derive(d)[p] = Link!Derive(e)[p]
<1>1. /\ x4[1] \in LinkEnds \cup {Link!None} /\ x4[2] \in LinkEnds \cup {Link!None}
    BY DEF Link!Pairs
<1>2. /\ <<x4[1], Link!None>> \in Link!Pairs /\ <<x4[2], Link!None>> \in Link!Pairs
    BY <1>1 DEF Link!Pairs
<1>3. /\ <<"asn", <<x4[2], Link!None>>>> \in Link!Contents /\ <<"asn", <<x4[1], Link!None>>>> \in Link!Contents
      /\ <<"asn", x4>> \in Link!Contents
      /\ <<"ip", <<x4[2], Link!None>>>> \in Link!Contents /\ <<"ip", <<x4[1], Link!None>>>> \in Link!Contents
    BY <1>2 DEF Link!Contents
<1>4. "fromPort" \in Link!Parts /\ "toPort" \in Link!Parts /\ "policy" \in Link!Parts
    BY DEF Link!Parts, Link!Ports
<1>5. CASE Link!IsExternalLink(x4) /\ Link!Chosen(x4)
    <2> DEFINE D(x) == [p \in Link!Parts |-> CASE p = "fromPort" /\ ~Link!IsExt(x4[1]) -> <<"asn", <<x4[2], Link!None>>>>
                            [] p = "toPort" /\ ~Link!IsExt(x4[2]) -> <<"asn", <<x4[1], Link!None>>>>
                            [] p = "peer" -> <<"asn", x4>>
                            [] OTHER -> x[p]]
    <2>1. \A x : Link!Derive(x) = D(x)
        BY <1>5 DEF Link!Derive
    <2>2. \A x, p : p \in Link!Parts =>
              /\ p = "fromPort" /\ ~Link!IsExt(x4[1]) => D(x)[p] = <<"asn", <<x4[2], Link!None>>>>
              /\ p = "toPort" /\ ~Link!IsExt(x4[2]) => D(x)[p] = <<"asn", <<x4[1], Link!None>>>>
              /\ p = "peer" => D(x)[p] = <<"asn", x4>>
              /\ p # "peer" /\ ~(p = "toPort" /\ ~Link!IsExt(x4[2])) /\ ~(p = "fromPort" /\ ~Link!IsExt(x4[1])) => D(x)[p] = x[p]
        OBVIOUS
    <2>3. \A x : D(x) = [p \in Link!Parts |-> D(x)[p]]
        OBVIOUS
    <2> HIDE DEF D
    <2>4. ASSUME NEW x \in [Link!Parts -> Link!Contents] PROVE D(x) \in [Link!Parts -> Link!Contents]
        <3>1. \A p \in Link!Parts : x[p] \in Link!Contents
            BY <2>4
        <3>2. ASSUME NEW p \in Link!Parts PROVE D(x)[p] \in Link!Contents
            <4>1. CASE p = "peer"
                BY <1>3, <2>2, <4>1
            <4>2. CASE p = "toPort" /\ ~Link!IsExt(x4[2])
                BY <1>3, <2>2, <4>2
            <4>3. CASE p = "fromPort" /\ ~Link!IsExt(x4[1])
                BY <1>3, <2>2, <4>3
            <4>4. CASE /\ p # "peer" /\ ~(p = "toPort" /\ ~Link!IsExt(x4[2]))
                       /\ ~(p = "fromPort" /\ ~Link!IsExt(x4[1]))
                <5>1. D(x)[p] = x[p]
                    BY <2>2, <4>4
                <5>2. QED
                    BY <3>1, <5>1
            <4>5. QED
                BY <4>1, <4>2, <4>3, <4>4
        <3>3. D(x) = [p \in Link!Parts |-> D(x)[p]]
            BY <2>3
        <3>4. QED
            BY <3>2, <3>3
    <2>5. \A p \in Link!Parts : D(D(d))[p] = D(d)[p]
        BY <2>2
    <2>6. D(D(d)) = D(d)
        BY <2>4, <2>5
    <2>7. \A p \in Link!Parts : d[p] = e[p] => D(d)[p] = D(e)[p]
        BY <2>2
    <2>8. D(d)["policy"] = d["policy"]
        BY <1>4, <2>2
    <2>9. QED
        BY <2>1, <2>4, <2>6, <2>7, <2>8
<1>6. CASE ~(Link!IsExternalLink(x4) /\ Link!Chosen(x4))
    <2>1. \A x : Link!Derive(x) = [x EXCEPT !["fromPort"] = IF Link!HasIp(x4[2]) THEN <<"ip", <<x4[2], Link!None>>>> ELSE @,
                                       !["toPort"] = IF Link!HasIp(x4[1]) THEN <<"ip", <<x4[1], Link!None>>>> ELSE @]
        BY <1>6 DEF Link!Derive
    <2>2. \A x \in [Link!Parts -> Link!Contents] :
              /\ Link!Derive(x) \in [Link!Parts -> Link!Contents]
              /\ Link!Derive(x)["fromPort"] = IF Link!HasIp(x4[2]) THEN <<"ip", <<x4[2], Link!None>>>> ELSE x["fromPort"]
              /\ Link!Derive(x)["toPort"] = IF Link!HasIp(x4[1]) THEN <<"ip", <<x4[1], Link!None>>>> ELSE x["toPort"]
              /\ \A p \in Link!Parts \ {"fromPort", "toPort"} : Link!Derive(x)[p] = x[p]
        BY <1>3, <1>4, <2>1
    <2>3. \A p \in Link!Parts : Link!Derive(Link!Derive(d))[p] = Link!Derive(d)[p]
        BY <2>2
    <2>4. Link!Derive(Link!Derive(d)) = Link!Derive(d)
        BY <2>2, <2>3
    <2>5. \A p \in Link!Parts : d[p] = e[p] => Link!Derive(d)[p] = Link!Derive(e)[p]
        BY <2>2
    <2>6. QED
        BY <1>4, <2>2, <2>4, <2>5
<1>7. QED
    BY <1>5, <1>6

(* The form stays as it is, but for what is typed.                         *)
LEMMA FormEdit ==
    ASSUME FormInv, NEW part \in Link!Parts, Link!Edit(part) PROVE FormInv'
<1>1. /\ x1 /\ x9 = {} /\ x7' = [x7 EXCEPT ![part] = Link!Typed] /\ x11' = x11 \cup {part}
      /\ UNCHANGED <<x1, x2, x3, x4, x5, x6, x8, x9, calls, busy, x10, steps>>
    BY DEF Link!Edit, Link!Settled
<1>2. /\ x7 \in [Link!Parts -> Link!Contents] /\ x11 \subseteq Link!Parts /\ x4 \in Link!Pairs
      /\ FormTouched /\ FormDerives /\ FormFills /\ FormOfEdited
    BY FormTyped
<1>3. /\ x7' \in [Link!Parts -> Link!Contents] /\ x7'[part] = Link!Typed /\ x11' \subseteq Link!Parts
      /\ \A p \in Link!Parts \ {part} : x7'[p] = x7[p]
    BY <1>1, <1>2, FormPairs
<1>4. Link!TypeOK' /\ (x8 \in FormKeys)' /\ Link!NoDeadButton'
    BY <1>1, <1>3, FormTyped DEF Link!TypeOK, FormKeys, Link!Pairs, Link!NoDeadButton, Link!NoKey
<1>5. FormTouched'
    BY <1>1, <1>2, <1>3 DEF FormTouched
<1>6. FormDerives'
    <2>1. SUFFICES ASSUME x2 = Link!NoLink
          PROVE  /\ x8 = Link!NoKey \/ x8.pair = x4
                 /\ ~Link!Chosen(x4) \/ FormPorts'
                 /\ "policy" \in x11' \/ x7'["policy"] = Link!PolicyOf(x4)
        BY <1>1 DEF FormDerives, Link!KeyOf, Link!NoKey, Link!Chosen, Link!PolicyOf
    <2>2. /\ x8 = Link!NoKey \/ x8.pair = x4
          /\ ~Link!Chosen(x4) \/ FormPorts
          /\ "policy" \in x11 \/ x7["policy"] = Link!PolicyOf(x4)
        BY <1>1, <1>2, <2>1 DEF FormDerives
    <2>3. FormPorts => FormPorts'
        <3>1. \A p \in Link!Parts \ {part} : Link!Derive(x7)[p] = Link!Derive(x7')[p]
            BY <1>2, <1>3, FormDerived
        <3>2. /\ Link!IsExternalLink(x4)' = Link!IsExternalLink(x4) /\ Link!ManagedPort' = Link!ManagedPort
              /\ Link!Derive(x7)' = Link!Derive(x7') /\ Link!Blank' = Link!Blank
            BY <1>1
               DEF Link!IsExternalLink, Link!ManagedPort, Link!Derive, Link!IsExt, Link!IsBothExternal, Link!Chosen, Link!HasIp
        <3>3. Link!ManagedPort \in Link!Ports
            BY DEF Link!ManagedPort, Link!Ports
        <3>4. QED
            BY <1>1, <1>3, <3>1, <3>2, <3>3, FormPairs DEF FormPorts
    <2>4. "policy" \in x11' \/ x7'["policy"] = Link!PolicyOf(x4)
        BY <1>1, <1>3, <2>2, FormPairs
    <2>5. QED
        BY <2>2, <2>3, <2>4
<1>7. FormFills'
    BY <1>1, <1>2 DEF FormFills
<1>8. FormOfEdited'
    BY <1>1, <1>2, <1>3 DEF FormOfEdited
<1>9. QED
    BY <1>4, <1>5, <1>6, <1>7, <1>8 DEF FormInv

(* What leaves the fields alone.                                           *)
LEMMA FormQuiet ==
    ASSUME FormInv, UNCHANGED <<x2, x3, x4, x6, x7, x8, x9, x10, x11, steps>>,
           x5' \in {"wireguard", "manual"}, x1' \in BOOLEAN, x1' => x1,
           calls' \in {"none", "sent"}, busy' \in BOOLEAN, busy' => calls' = "sent"
    PROVE  FormInv'
<1>1. Link!TypeOK' /\ (x8 \in FormKeys)' /\ Link!NoDeadButton'
    BY FormTyped DEF Link!TypeOK, FormKeys, Link!Pairs, Link!NoDeadButton, Link!NoKey
<1>2. FormTouched'
    BY FormTyped DEF FormTouched
<1>3. FormDerives'
    <2>1. /\ Link!KeyOf(x4)' = Link!KeyOf(x4) /\ Link!Chosen(x4)' = Link!Chosen(x4) /\ FormPorts' = FormPorts
          /\ Link!PolicyOf(x4)' = Link!PolicyOf(x4)
        BY DEF Link!KeyOf, Link!Chosen, FormPorts, Link!PolicyOf, Link!IsExternalLink, Link!ManagedPort, Link!Derive, Link!IsExt, Link!IsBothExternal, Link!HasIp
    <2>2. FormDerives
        BY FormTyped
    <2>3. QED
        BY <2>1, <2>2 DEF FormDerives
<1>4. FormFills' /\ FormOfEdited'
    BY FormTyped DEF FormFills, FormOfEdited
<1>5. QED
    BY <1>1, <1>2, <1>3, <1>4 DEF FormInv

(* The dialog is opened, for a link or a new one.                          *)
LEMMA FormOpens ==
    ASSUME FormInv, NEW l \in LinksOfEnds \cup {Link!NoLink}, NEW i \in Link!Pairs, Link!Opens(l, i) PROVE FormInv'
<1>1. /\ x1' = TRUE /\ x2' = l /\ x3' = i
      /\ x9' = {"fill"} \cup (IF l # x2 THEN {"policy", "derive"} ELSE {})
      /\ x10' = (Link!InitialPair(l, i) = x4) /\ steps < MaxSteps /\ steps' = steps + 1
      /\ UNCHANGED <<x4, x5, x6, x7, x8, calls, busy, x11>>
    BY DEF Link!Opens, Link!Step
<1>2. "fill" \in x9' /\ x9' \subseteq Link!Effects /\ x10' \in BOOLEAN
    BY <1>1 DEF Link!Effects
<1>3. steps' \in 0..MaxSteps
    BY <1>1, FormTyped
<1>4. Link!TypeOK' /\ (x8 \in FormKeys)' /\ Link!NoDeadButton'
    BY <1>1, <1>2, <1>3, FormTyped DEF Link!TypeOK, FormKeys, Link!Pairs, Link!NoDeadButton, Link!NoKey
<1>5. FormTouched'
    BY <1>1, FormTyped DEF FormTouched
<1>6. FormDerives' /\ FormOfEdited'
    BY <1>2 DEF FormDerives, FormOfEdited
<1>7. FormFills'
    <2>1. Link!InitialPair(l, i)' = Link!InitialPair(l, i)
        BY DEF Link!InitialPair
    <2>2. l = Link!NoLink => (x10' \/ Link!InitialPair(Link!NoLink, i) # x4)
        BY <1>1
    <2>3. QED
        BY <1>1, <2>2 DEF FormFills
<1>8. QED
    BY <1>4, <1>5, <1>6, <1>7 DEF FormInv

(* The list of nodes arrives.                                              *)
LEMMA FormLoads == ASSUME FormInv, Link!NodesLoad PROVE FormInv'
<1>1. /\ x9' = {e \in {"fill", "derive"} : (e = "fill" => x1) /\ (e = "derive" => x4 # Link!NoPair)}
      /\ steps < MaxSteps /\ steps' = steps + 1
      /\ UNCHANGED <<x1, x2, x3, x4, x5, x6, x7, x8, calls, busy, x10, x11>>
    BY DEF Link!NodesLoad, Link!Step
<1>2. x9' \subseteq Link!Effects /\ (x1 => "fill" \in x9') /\ (x4 # Link!NoPair => "derive" \in x9')
    BY <1>1 DEF Link!Effects
<1>3. steps' \in 0..MaxSteps
    BY <1>1, FormTyped
<1>4. Link!TypeOK' /\ (x8 \in FormKeys)' /\ Link!NoDeadButton'
    BY <1>1, <1>2, <1>3, FormTyped DEF Link!TypeOK, FormKeys, Link!Pairs, Link!NoDeadButton, Link!NoKey
<1>5. FormTouched'
    BY <1>1, FormTyped DEF FormTouched
<1>6. FormDerives' /\ FormOfEdited'
    BY <1>1, <1>2 DEF FormDerives, FormOfEdited
<1>7. FormFills'
    <2>1. Link!Chosen(x4) => x4 # Link!NoPair
        BY DEF Link!Chosen, Link!NoPair
    <2>2. QED
        BY <1>1, <1>2, <2>1 DEF FormFills
<1>8. QED
    BY <1>4, <1>5, <1>6, <1>7 DEF FormInv

(* The settings arrive.                                                    *)
LEMMA FormSettings == ASSUME FormInv, Link!SettingsLoad PROVE FormInv'
<1>1. /\ x9 = {} /\ x6' = TRUE /\ x9' = {"derive"}
      /\ UNCHANGED <<x1, x2, x3, x4, x5, x7, x8, calls, busy, x10, x11, steps>>
    BY DEF Link!SettingsLoad, Link!Settled
<1>2. x9' \subseteq Link!Effects
    BY <1>1 DEF Link!Effects
<1>3. Link!TypeOK' /\ (x8 \in FormKeys)' /\ Link!NoDeadButton'
    BY <1>1, <1>2, FormTyped DEF Link!TypeOK, FormKeys, Link!Pairs, Link!NoDeadButton, Link!NoKey
<1>4. FormTouched'
    BY <1>1, FormTyped DEF FormTouched
<1>5. FormDerives'
    <2>1. /\ Link!Chosen(x4)' = Link!Chosen(x4) /\ FormPorts' = FormPorts /\ Link!PolicyOf(x4)' = Link!PolicyOf(x4)
        BY <1>1
           DEF Link!Chosen, FormPorts, Link!PolicyOf, Link!IsExternalLink, Link!ManagedPort, Link!Derive, Link!IsExt,
               Link!IsBothExternal, Link!HasIp
    <2>2. FormDerives
        BY FormTyped
    <2>3. QED
        BY <1>1, <2>1, <2>2 DEF FormDerives
<1>6. FormFills' /\ FormOfEdited'
    <2>1. FormFills /\ FormOfEdited
        BY FormTyped
    <2>2. FormFills'
        BY <1>1 DEF FormFills
    <2>3. FormOfEdited'
        BY <1>1, <2>1 DEF FormOfEdited
    <2>4. QED
        BY <2>2, <2>3
<1>7. QED
    BY <1>3, <1>4, <1>5, <1>6 DEF FormInv

(* Another pair is chosen.                                                 *)
LEMMA FormChooses ==
    ASSUME FormInv, NEW p \in Link!Pairs, Link!Choose(p) PROVE FormInv'
<1>1. /\ x1 /\ x9 = {} /\ x2 = Link!NoLink /\ p # x4 /\ x4' = p
      /\ x9' = {"derive"} \cup (IF Link!IsExternalLink(p) # Link!IsExternalLink(x4) THEN {"policy"} ELSE {})
      /\ x10' = FALSE
      /\ UNCHANGED <<x1, x2, x3, x5, x6, x7, x8, calls, busy, x11, steps>>
    BY DEF Link!Choose, Link!Settled
<1>2. x9' \subseteq Link!Effects /\ "derive" \in x9' /\ "fill" \notin x9'
    BY <1>1 DEF Link!Effects
<1>3. Link!TypeOK' /\ (x8 \in FormKeys)' /\ Link!NoDeadButton'
    BY <1>1, <1>2, FormTyped DEF Link!TypeOK, FormKeys, Link!Pairs, Link!NoDeadButton, Link!NoKey
<1>4. FormTouched'
    BY <1>1, FormTyped DEF FormTouched
<1>5. FormDerives'
    <2>1. /\ x8 = Link!NoKey \/ x8.pair = x4
          /\ "policy" \in x11 \/ x7["policy"] = Link!PolicyOf(x4)
        BY <1>1, FormTyped DEF FormDerives
    <2>2. x8 # Link!KeyOf(p)
        BY <1>1, <2>1, FormKey, FormTyped
    <2>3. Link!KeyOf(x4)' = Link!KeyOf(p) /\ Link!PolicyOf(x4)' = Link!PolicyOf(p)
        BY <1>1 DEF Link!KeyOf, Link!PolicyOf, Link!IsExternalLink, Link!IsExt, Link!IsBothExternal, Link!Chosen
    <2>4. "policy" \in x9' \/ Link!PolicyOf(p) = Link!PolicyOf(x4)
        BY <1>1 DEF Link!PolicyOf
    <2>5. QED
        BY <1>1, <1>2, <2>1, <2>2, <2>3, <2>4 DEF FormDerives
<1>6. FormFills' /\ FormOfEdited'
    BY <1>1, <1>2 DEF FormFills, FormOfEdited
<1>7. QED
    BY <1>3, <1>4, <1>5, <1>6 DEF FormInv

(* The effects run, on the values of the last render.                      *)
LEMMA FormEffects == ASSUME FormInv, Link!RunEffects PROVE FormInv'
<1> DEFINE fills == "fill" \in x9 /\ x1
           sets == "policy" \in x9 /\ x2 = Link!NoLink
           derives == "derive" \in x9 /\ x2 = Link!NoLink
           filled == IF fills THEN Link!Fill ELSE x7
           policied == IF sets THEN Link!SetPolicy(filled) ELSE filled
           ref == IF fills THEN Link!ForgetsKey(x8) ELSE x8
           next == IF fills THEN Link!InitialPair(x2, x3) ELSE x4
<1>1. /\ x7' = (IF derives /\ ref # Link!KeyOf(x4) THEN Link!Derive(policied) ELSE policied)
      /\ x8' = (IF derives THEN Link!KeyOf(x4) ELSE ref)
      /\ x4' = next
      /\ x5' = (IF fills /\ x2 = Link!NoLink THEN "wireguard" ELSE x5)
      /\ x11' = {p \in x11 : x7'[p] = Link!Typed}
      /\ x9' = (IF next # x4 THEN {"derive"} ELSE {})
                \cup (IF Link!IsExternalLink(next) # Link!IsExternalLink(x4) THEN {"policy"} ELSE {})
      /\ UNCHANGED <<x1, x2, x3, x6, calls, busy, x10, steps>>
    BY DEF Link!RunEffects
<1>2. /\ x1 \in BOOLEAN /\ x2 \in LinksOfEnds \cup {Link!NoLink} /\ x3 \in Link!Pairs /\ x4 \in Link!Pairs
      /\ x5 \in {"wireguard", "manual"} /\ x6 \in BOOLEAN /\ x7 \in [Link!Parts -> Link!Contents]
      /\ x11 \subseteq Link!Parts /\ x8 \in FormKeys /\ x10 \in BOOLEAN
      /\ FormTouched /\ FormDerives /\ FormFills /\ FormOfEdited
    BY FormTyped
<1>3. Link!KeyOf(x4) \in FormKeys /\ Link!KeyOf(x4) # Link!NoKey /\ Link!KeyOf(x4).pair = x4
    BY <1>2, FormKey
<1>4. /\ Link!Fill \in [Link!Parts -> Link!Contents]
      /\ x2 # Link!NoLink => \A p \in Link!Parts : Link!Fill[p] = Link!OfLink(x2)
      /\ x2 = Link!NoLink => /\ \A p \in Link!Ports : Link!Fill[p] = Link!Blank
                             /\ Link!Fill["policy"] = Link!PolicyOf(Link!InitialPair(Link!NoLink, x3))
    <2>1. Link!InitialPair(Link!NoLink, x3) \in Link!Pairs
        BY <1>2, FormPairs
    <2>2. CASE x2 # Link!NoLink
        <3>1. Link!Fill = [p \in Link!Parts |-> Link!OfLink(x2)] /\ Link!OfLink(x2) \in Link!Contents
            BY <1>2, <2>2, FormPairs DEF Link!Fill
        <3>2. QED
            BY <2>2, <3>1
    <2>3. CASE x2 = Link!NoLink
        <3>1. Link!Fill = [p \in Link!Parts |-> IF p = "policy" THEN Link!PolicyOf(Link!InitialPair(Link!NoLink, x3)) ELSE Link!Blank]
            BY <2>3 DEF Link!Fill
        <3>2. Link!PolicyOf(Link!InitialPair(Link!NoLink, x3)) \in Link!Contents /\ Link!Blank \in Link!Contents
            BY <2>1, FormPairs
        <3>3. QED
            BY <2>3, <3>1, <3>2, FormPairs
    <2>4. QED
        BY <2>2, <2>3
<1>5. filled \in [Link!Parts -> Link!Contents]
    BY <1>2, <1>4
<1>6. /\ policied \in [Link!Parts -> Link!Contents]
      /\ ~sets => policied = filled
      /\ sets => policied["policy"] = Link!PolicyOf(x4)
      /\ \A p \in Link!Parts \ {"policy"} : policied[p] = filled[p]
    BY <1>2, <1>5, FormPairs DEF Link!SetPolicy
<1>7. /\ fills /\ x2 = Link!NoLink => ref = Link!NoKey
      /\ ref \in FormKeys
      /\ ~fills => ref = x8
    BY <1>2 DEF Link!ForgetsKey, FormKeys
<1>8. /\ next \in Link!Pairs
      /\ fills /\ x2 = Link!NoLink => next = Link!InitialPair(Link!NoLink, x3)
      /\ fills /\ x2 # Link!NoLink => next = x2
      /\ ~fills => next = x4 /\ filled = x7
      /\ fills => filled = Link!Fill
    BY <1>2, FormPairs DEF Link!InitialPair
<1>9. x9' \subseteq Link!Effects /\ "fill" \notin x9' /\ (next # x4 <=> "derive" \in x9')
      /\ ("policy" \in x9' <=> Link!IsExternalLink(next) # Link!IsExternalLink(x4))
    BY <1>1 DEF Link!Effects
<1> HIDE DEF filled, policied, ref, next
<1>10. x7' \in [Link!Parts -> Link!Contents] /\ x8' \in FormKeys /\ x7'["policy"] = policied["policy"]
    BY <1>1, <1>2, <1>3, <1>6, <1>7, FormDerived
<1>11. x11' \subseteq Link!Parts /\ x5' \in {"wireguard", "manual"}
    BY <1>1, <1>2
<1>12. Link!TypeOK' /\ (x8 \in FormKeys)' /\ Link!NoDeadButton'
    <2>1. (x8 \in FormKeys)'
        BY <1>10 DEF FormKeys, Link!Pairs, Link!NoKey
    <2>2. Link!TypeOK'
        BY <1>1, <1>8, <1>9, <1>10, <1>11, FormTyped DEF Link!TypeOK, FormKeys, Link!NoKey
    <2>3. Link!NoDeadButton'
        BY <1>1, FormTyped DEF Link!NoDeadButton
    <2>4. QED
        BY <2>1, <2>2, <2>3
<1>13. FormTouched'
    BY <1>1 DEF FormTouched, Link!Typed
<1>14. FormFills'
    BY <1>9 DEF FormFills
<1>15. FormOfEdited'
    <2>1. SUFFICES ASSUME x1, x2 # Link!NoLink
          PROVE  next = x2 /\ \A p \in Link!Parts \ x11' : x7'[p] = Link!OfLink(x2)
        BY <1>1 DEF FormOfEdited, Link!OfLink
    <2>2. x7' = policied /\ policied = filled
        BY <1>1, <1>6, <2>1
    <2>3. CASE fills
        BY <1>4, <1>8, <2>1, <2>2, <2>3
    <2>4. CASE ~fills
        <3>1. x4 = x2 /\ \A p \in Link!Parts \ x11 : x7[p] = Link!OfLink(x2)
            BY <1>2, <2>1, <2>4 DEF FormOfEdited
        <3>2. x7' = x7 /\ x11' = x11
            BY <1>1, <1>2, <1>8, <2>2, <2>4 DEF FormTouched
        <3>3. QED
            BY <1>8, <2>4, <3>1, <3>2
    <2>5. QED
        BY <2>3, <2>4
<1>16. FormDerives'
    <2>1. SUFFICES ASSUME x1, x2 = Link!NoLink
          PROVE  /\ "derive" \notin x9' => x8' = Link!NoKey \/ x8'.pair = next
                 /\ ("derive" \in x9' /\ x8' # Link!KeyOf(next)) \/ ~Link!Chosen(next) \/ FormPorts'
                 /\ "policy" \in x9' \/ "policy" \in x11' \/ x7'["policy"] = Link!PolicyOf(next)
        <3>1. Link!KeyOf(x4)' = Link!KeyOf(next) /\ Link!Chosen(x4)' = Link!Chosen(next) /\ Link!PolicyOf(x4)' = Link!PolicyOf(next)
            BY <1>1 DEF Link!KeyOf, Link!Chosen, Link!PolicyOf, Link!IsExternalLink, Link!IsExt, Link!IsBothExternal
        <3>2. QED
            BY <1>1, <3>1 DEF FormDerives, Link!NoKey
    <2>2. ~fills => "fill" \notin x9
        BY <2>1
    <2>3. "derive" \notin x9' => x8' = Link!NoKey \/ x8'.pair = next
        <3>1. SUFFICES ASSUME next = x4
              PROVE  x8' = Link!NoKey \/ x8'.pair = next
            BY <1>9
        <3>2. CASE derives
            BY <1>1, <1>3, <3>1, <3>2
        <3>3. CASE ~derives /\ fills
            BY <1>1, <1>7, <2>1, <3>3
        <3>4. CASE ~derives /\ ~fills
            <4>1. x8 = Link!NoKey \/ x8.pair = x4
                BY <1>2, <2>1, <2>2, <3>4 DEF FormDerives
            <4>2. QED
                BY <1>1, <1>7, <3>1, <3>4, <4>1
        <3>5. QED
            BY <3>2, <3>3, <3>4
    <2>4. "policy" \in x9' \/ "policy" \in x11' \/ x7'["policy"] = Link!PolicyOf(next)
        <3>1. SUFFICES ASSUME Link!IsExternalLink(next) = Link!IsExternalLink(x4)
              PROVE  "policy" \in x11' \/ x7'["policy"] = Link!PolicyOf(next)
            BY <1>9 DEF Link!IsExternalLink
        <3>2. Link!PolicyOf(next) = Link!PolicyOf(x4)
            BY <3>1 DEF Link!PolicyOf
        <3>3. CASE sets
            BY <1>6, <1>10, <3>2, <3>3
        <3>4. CASE ~sets /\ fills
            BY <1>4, <1>6, <1>8, <1>10, <2>1, <3>4
        <3>5. CASE ~sets /\ ~fills
            <4>1. "policy" \in x11 \/ x7["policy"] = Link!PolicyOf(x4)
                BY <1>2, <2>1, <2>2, <3>5 DEF FormDerives
            <4>2. x7'["policy"] = x7["policy"]
                BY <1>6, <1>8, <1>10, <3>5
            <4>3. QED
                BY <1>1, <1>2, <3>2, <4>1, <4>2 DEF FormTouched
        <3>6. QED
            BY <3>3, <3>4, <3>5
    <2>5. ("derive" \in x9' /\ x8' # Link!KeyOf(next)) \/ ~Link!Chosen(next) \/ FormPorts'
        <3>1. CASE next # x4
            <4>1. "derive" \in x9'
                BY <1>9, <3>1
            <4>2. Link!KeyOf(next).pair = next /\ Link!KeyOf(next) # Link!NoKey
                BY <1>2, <1>8, FormKey
            <4>3. fills
                BY <1>8, <3>1
            <4>4. x8' = Link!KeyOf(x4) \/ x8' = Link!NoKey
                BY <1>1, <1>7, <2>1, <4>3
            <4>5. QED
                BY <1>3, <3>1, <4>1, <4>2, <4>4
        <3>2. CASE next = x4 /\ Link!Chosen(x4)
            <4>1. /\ Link!IsExternalLink(x4)' = Link!IsExternalLink(x4) /\ Link!ManagedPort' = Link!ManagedPort
                  /\ Link!Derive(x7)' = Link!Derive(x7') /\ Link!Blank' = Link!Blank /\ x10' = x10
                BY <1>1, <3>2
                   DEF Link!IsExternalLink, Link!ManagedPort, Link!Derive, Link!IsExt, Link!IsBothExternal, Link!Chosen, Link!HasIp,
                       Link!Blank
            <4>2. Link!ManagedPort \in Link!Ports
                BY DEF Link!ManagedPort, Link!Ports
            <4>3. SUFFICES \A p \in (IF Link!IsExternalLink(x4) THEN {Link!ManagedPort} ELSE Link!Ports) \ x11' :
                              x7'[p] = Link!Derive(x7')[p] \/ (x10 /\ x7'[p] = Link!Blank)
                BY <4>1 DEF FormPorts
            <4>4. CASE derives /\ ref # Link!KeyOf(x4)
                <5>1. x7' = Link!Derive(policied) /\ Link!Derive(x7') = x7'
                    BY <1>1, <1>2, <1>6, <4>4, FormDerived
                <5>2. QED
                    BY <5>1
            <4>5. CASE fills /\ ~derives
                <5>1. x10
                    BY <1>2, <1>8, <2>1, <3>2, <4>5 DEF FormFills
                <5>2. \A p \in Link!Ports : x7'[p] = Link!Blank
                    BY <1>1, <1>4, <1>6, <1>8, <2>1, <4>5, FormPairs
                <5>3. QED
                    BY <4>2, <5>1, <5>2
            <4>6. CASE ~fills /\ ~(derives /\ ref # Link!KeyOf(x4))
                <5>1. FormPorts
                    <6>1. ref = x8
                        BY <1>7, <4>6
                    <6>2. QED
                        BY <1>2, <2>1, <2>2, <3>2, <4>6, <6>1 DEF FormDerives
                <5>2. \A p \in Link!Ports : x7'[p] = x7[p]
                    BY <1>1, <1>6, <1>8, <4>6, FormPairs
                <5>3. \A p \in Link!Ports : p \in x11 => p \in x11'
                    BY <1>1, <1>2, <5>2 DEF FormTouched
                <5>4. \A p \in Link!Ports : Link!Derive(x7')[p] = Link!Derive(x7)[p]
                    BY <1>2, <1>10, <5>2, FormDerived, FormPairs
                <5>5. QED
                    BY <4>2, <5>1, <5>2, <5>3, <5>4 DEF FormPorts
            <4>7. CASE fills /\ derives /\ ref = Link!KeyOf(x4)
                BY <1>3, <1>7, <2>1, <4>7
            <4>8. QED
                BY <4>4, <4>5, <4>6, <4>7
        <3>3. QED
            BY <3>1, <3>2
    <2>6. QED
        BY <2>3, <2>4, <2>5
<1>17. QED
    BY <1>12, <1>13, <1>14, <1>15, <1>16 DEF FormInv

(* Every step of the dialog keeps it.                                      *)
LEMMA FormStep == ASSUME FormInv, Link!Next \/ UNCHANGED Link!vars PROVE FormInv'
<1>1. \A a, b \in LinkEnds \cup {Link!None} : <<a, b>> \in Link!Pairs
    BY DEF Link!Pairs
<1>2. Link!NoPair \in Link!Pairs /\ x4 \in Link!Pairs /\ x3 \in Link!Pairs
    BY FormPairs, FormTyped
<1>3. x4[1] \in LinkEnds \cup {Link!None} /\ x4[2] \in LinkEnds \cup {Link!None}
    BY <1>2 DEF Link!Pairs
<1>4. \A p \in {"fromPort", "toPort", "policy", "peer", "other"} : p \in Link!Parts
    BY DEF Link!Parts, Link!Ports
<1>5. Link!ManagedPort \in Link!Parts
    BY <1>4 DEF Link!ManagedPort
<1>6. \A p \in Link!Parts : Link!Edit(p) => FormInv'
    BY FormEdit
<1>7. \A p \in Link!Pairs : Link!Choose(p) => FormInv'
    BY FormChooses
<1>8. \A l \in LinksOfEnds \cup {Link!NoLink}, i \in Link!Pairs : Link!Opens(l, i) => FormInv'
    BY FormOpens
<1>9. CASE Link!HandleAddLink
    BY <1>2, <1>8, <1>9 DEF Link!HandleAddLink
<1>10. CASE \E a, b \in LinkEnds : Link!HandleConnectNodes(a, b)
    <2>1. PICK a \in LinkEnds, b \in LinkEnds : Link!Opens(Link!NoLink, <<a, b>>)
        BY <1>10 DEF Link!HandleConnectNodes
    <2>2. <<a, b>> \in Link!Pairs
        BY <1>1
    <2>3. QED
        BY <1>8, <2>1, <2>2
<1>11. CASE \E l \in LinksOfEnds : Link!HandleEditLink(l)
    BY <1>2, <1>8, <1>11 DEF Link!HandleEditLink
<1>12. CASE Link!Close
    BY <1>12, FormQuiet, FormTyped DEF Link!Close, Link!NoDeadButton
<1>13. CASE Link!NodesLoad
    BY <1>13, FormLoads
<1>14. CASE Link!SettingsLoad
    BY <1>14, FormSettings
<1>15. CASE Link!RunEffects
    BY <1>15, FormEffects
<1>16. CASE \E n \in LinkEnds : Link!SelectFrom(n) \/ Link!SelectTo(n)
    <2>1. PICK n \in LinkEnds : Link!SelectFrom(n) \/ Link!SelectTo(n)
        BY <1>16
    <2>2. /\ <<n, IF Link!IsExt(n) /\ Link!IsExt(x4[2]) THEN Link!None ELSE x4[2]>> \in Link!Pairs
          /\ <<IF Link!IsExt(n) /\ Link!IsExt(x4[1]) THEN Link!None ELSE x4[1], n>> \in Link!Pairs
        BY <1>1, <1>3
    <2>3. QED
        BY <1>7, <2>1, <2>2 DEF Link!SelectFrom, Link!SelectTo
<1>17. CASE \E k \in {"wireguard", "manual"} : Link!ChooseType(k)
    BY <1>17, FormQuiet, FormTyped DEF Link!ChooseType, Link!NoDeadButton
<1>18. CASE \/ Link!EditBFD \/ Link!EditIPv4 \/ Link!EditPsk \/ Link!EditLinkNote \/ Link!EditExternalPort \/ Link!EditExternalPolicy
            \/ Link!EditExternalNotes \/ Link!EditRemote \/ Link!EditManualEnd1 \/ Link!EditManualEnd2
            \/ Link!EditEnd1 \/ Link!EditEnd1Note \/ Link!EditEnd2 \/ Link!EditEnd2Note
    <2>1. \E p \in Link!Parts : Link!Edit(p)
        BY <1>4, <1>5, <1>18
           DEF Link!EditBFD, Link!EditIPv4, Link!EditPsk, Link!EditLinkNote, Link!EditExternalPort, Link!EditExternalPolicy,
               Link!EditExternalNotes, Link!EditRemote, Link!EditManualEnd1, Link!EditManualEnd2, Link!EditEnd1, Link!EditEnd1Note,
               Link!EditEnd2, Link!EditEnd2Note
    <2>2. QED
        BY <1>6, <2>1
<1>19. CASE Link!SubmitManual \/ Link!SubmitExternal \/ Link!SubmitStandard
    <2>1. Link!Submits
        BY <1>19 DEF Link!SubmitManual, Link!SubmitExternal, Link!SubmitStandard
    <2>2. QED
        BY <2>1, FormQuiet, FormTyped DEF Link!Submits
<1>20. CASE Link!Saved
    BY <1>20, FormQuiet, FormTyped DEF Link!Saved
<1>21. CASE Link!Fails
    BY <1>21, FormQuiet, FormTyped DEF Link!Fails
<1>22. CASE UNCHANGED Link!vars
    BY <1>22, FormQuiet, FormTyped DEF Link!vars, Link!NoDeadButton
<1>23. QED
    BY <1>9, <1>10, <1>11, <1>12, <1>13, <1>14, <1>15, <1>16, <1>17, <1>18, <1>19, <1>20, <1>21, <1>22
       DEF Link!Next

(* From the invariant to what is stated of the screen.                     *)
LEMMA FormShows ==
    ASSUME FormInv PROVE Link!TypeOK /\ Link!PortsOfPair /\ Link!PolicyOfKind /\ Link!FormOfLink /\ Link!NoDeadButton
<1>1. Link!TypeOK /\ Link!NoDeadButton /\ FormDerives /\ FormOfEdited
    BY DEF FormInv
<1>2. Link!PortsOfPair
    BY <1>1 DEF FormDerives, FormPorts, Link!PortsOfPair, Link!Settled
<1>3. Link!PolicyOfKind
    BY <1>1 DEF FormDerives, Link!PolicyOfKind, Link!Settled
<1>4. Link!FormOfLink
    BY <1>1 DEF FormOfEdited, Link!FormOfLink, Link!Settled
<1>5. QED
    BY <1>1, <1>2, <1>3, <1>4
=============================================================================
