----------------------------- MODULE Selection -----------------------------
(***************************************************************************)
(* The reads of one source during one reconciliation: the policy is loaded  *)
(* (accesspolicy), the source is planned into exact targets                 *)
(* (selection/planner.go), every target is authorized and bound             *)
(* (authorization/enforcer.go, selection/binder.go), and the targets are    *)
(* listed page by page (selection/executor.go), while objects come and go,  *)
(* continuation tokens expire and the lease may be revoked at any moment.   *)
(*                                                                          *)
(* A source's objects are their UIDs.  objects holds those that match its   *)
(* selectors.  A target is its namespace; a continuation token is the set   *)
(* of objects of the list's snapshot still to be sent.  The order of the    *)
(* objects of a page is left out: it decides neither which pages exceed a   *)
(* ceiling nor, all being dropped on failure, what is kept.  The routes     *)
(* registered between binding and listing are RouteRegistry's.              *)
(***************************************************************************)
EXTENDS Planner, FiniteSets, FiniteSetsExt

CONSTANTS
    Policies,          \* installation policies, as optional objects
    Sources,           \* sources of the Facet
    Objects,           \* UIDs
    Home,              \* the namespace of each object
    Size,              \* its canonical size
    PageLimit, MaxResources, MaxInputBytes,
    MaxChurn           \* bound: creations and deletions of objects

ASSUME SelectionAssumption ==
    /\ \A p \in Policies : p \subseteq PolicyObject /\ \A a, b \in p : a = b
    /\ \A s \in Sources :
          /\ s.kind \in Kinds            \* its resource type
          /\ s.namespaces \subseteq Seq(Nat)   \* its optional list of namespaces
          /\ s.selectors \in BOOLEAN     \* whether its selectors parse
          /\ s.fields \in BOOLEAN        \* whether it has a field selector
    /\ IsFiniteSet(Objects)
    /\ Home \in [Objects -> Namespaces \cup {Cluster}]
    /\ Size \in [Objects -> Nat]
    /\ {PageLimit, MaxResources, MaxInputBytes} \subseteq Nat \ {0}
    /\ MaxChurn \in Nat

VARIABLES
    policy, source,    \* the objects this attempt reads
    objects,           \* the cluster's objects
    churned,           \* how often objects changed
    done,              \* evaluationCtx is done
    current,           \* Verifier.IsCurrent: the lease is not superseded
    pc,
    snapshot,          \* accesspolicy.Snapshot
    todo,              \* targets still to be listed
    token,             \* continueToken: none, or what the list has left
    restarted, items,  \* listTarget's locals
    collected,         \* Execute's collected
    seen, bytes,       \* selectionBudget
    outcome,           \* SelectionOutcome: pending, ok, or the reason
    base,              \* ghost: the objects of each target's last fresh list
    listed,            \* ghost: the targets a request was sent for
    late               \* ghost: requests sent after the lease was revoked

inputs == <<policy, source>>

cluster == <<objects, churned>>

lease == <<done, current>>

budget == <<seen, bytes>>

ghosts == <<base, listed, late>>

vars == <<inputs, cluster, lease, pc, snapshot, todo, token, restarted, items,
          collected, budget, outcome, ghosts>>

Targets == Namespaces \cup {Cluster}

Reasons == {"abandoned", "Discovery", "InvalidSelector", "InvalidNamespaceScope",
            "AuthorizationDenied", "AuthorizationStale", "ReadInterrupted",
            "ListExpired", "ReadForbidden", "UnsupportedSelector",
            "ReadUnavailable", "InvalidObject", "SelectionLimitExceeded"}

Steps == {"load", "plan", "authorize", "execute", "context", "capability",
          "adapter", "permit", "send", "receive", "done"}

TypeOK ==
    /\ policy \in Policies /\ source \in Sources
    /\ objects \subseteq Objects /\ churned \in 0 .. MaxChurn
    /\ done \in BOOLEAN /\ current \in BOOLEAN
    /\ pc \in Steps
    /\ snapshot.policy \subseteq PolicyObject
    /\ todo \subseteq Targets
    /\ token \subseteq SUBSET Objects
    /\ restarted \in BOOLEAN
    /\ items \subseteq Objects /\ collected \subseteq Objects
    /\ seen \subseteq Objects /\ Cardinality(seen) <= MaxResources
    /\ bytes \in 0 .. MaxInputBytes
    /\ outcome \in {"pending", "ok"} \cup Reasons
    /\ base \in [Targets -> SUBSET Objects]
    /\ listed \subseteq Targets
    /\ late \in Nat

Init ==
    /\ policy \in Policies /\ source \in Sources
    /\ objects \in SUBSET Objects /\ churned = 0
    /\ done = FALSE /\ current = TRUE
    /\ pc = "load"
    /\ snapshot = DenyAll("PolicyUnavailable")
    /\ todo = {}
    /\ token = {} /\ restarted = FALSE /\ items = {}
    /\ collected = {}
    /\ seen = {} /\ bytes = 0
    /\ outcome = "pending"
    /\ base = [t \in Targets |-> {}] /\ listed = {} /\ late = 0

----------------------------------------------------------------------------
(* The environment.                                                         *)

(* A newer identity of the Facet or a policy change supersedes the lease:   *)
(* the tracker advances and cancels in one critical section.                *)
Revoke ==
    /\ pc # "done" /\ current
    /\ current' = FALSE /\ done' = TRUE
    /\ UNCHANGED <<inputs, cluster, pc, snapshot, todo, token, restarted, items,
                   collected, budget, outcome, ghosts>>

(* The evaluation deadline passes.                                          *)
Expire ==
    /\ pc # "done" /\ ~done
    /\ done' = TRUE
    /\ UNCHANGED <<inputs, cluster, current, pc, snapshot, todo, token, restarted,
                   items, collected, budget, outcome, ghosts>>

(* An object that matches the source is created or deleted; a deleted one   *)
(* that is created again has a UID of its own.                              *)
Churn ==
    /\ pc # "done" /\ churned < MaxChurn
    /\ \E o \in Objects : objects' \in {objects \cup {o}, objects \ {o}} \ {objects}
    /\ churned' = churned + 1
    /\ UNCHANGED <<inputs, lease, pc, snapshot, todo, token, restarted, items,
                   collected, budget, outcome, ghosts>>

----------------------------------------------------------------------------
(* The attempt ends with this outcome for the source.  A failure keeps no   *)
(* resource.                                                                *)
Finish(reason) ==
    /\ pc' = "done" /\ outcome' = reason
    /\ collected' = IF reason = "ok" THEN collected ELSE {}
    /\ UNCHANGED <<inputs, cluster, lease, snapshot, todo, token, restarted, items,
                   budget, ghosts>>

(* evaluationState, asked before each stage: an attempt whose context is    *)
(* done is given up.                                                        *)
Abandon ==
    /\ pc \in {"load", "plan", "authorize", "execute"} /\ done
    /\ Finish("abandoned")

Load ==
    /\ pc = "load" /\ ~done
    /\ \E read \in {"succeeded", "failed"} : snapshot' = LoadWithValidation(read, policy, TRUE)
    /\ pc' = "plan"
    /\ UNCHANGED <<inputs, cluster, lease, todo, token, restarted, items, collected,
                   budget, outcome, ghosts>>

(* Planner.Plan: discovery, then the selectors, then the targets.           *)
PlanFails ==
    /\ pc = "plan" /\ ~done
    /\ \/ Finish("Discovery")
       \/ PlanReason(source) # "" /\ Finish(PlanReason(source))

Plan ==
    /\ pc = "plan" /\ ~done
    /\ PlanReason(source) = ""
    /\ todo' = DeriveTargets(source)
    /\ pc' = "authorize"
    /\ UNCHANGED <<inputs, cluster, lease, snapshot, token, restarted, items,
                   collected, budget, outcome, ghosts>>

RequestForTarget(t) == [kind |-> source.kind, namespace |-> t]

(* Enforcer.EvaluateBatch: the targets for which it mints a capability.     *)
Capabilities == {t \in todo : Evaluate(snapshot, RequestForTarget(t)) = "Allowed"}

(* BindCapabilities: the plan is executable when every target is covered.   *)
(* An ended context, which EvaluateBatch reports, is Abandon's.             *)
Authorize ==
    /\ pc = "authorize" /\ ~done
    /\ IF todo \subseteq Capabilities
       THEN /\ pc' = "execute"
            /\ UNCHANGED <<inputs, cluster, lease, snapshot, todo, token, restarted,
                           items, collected, budget, outcome, ghosts>>
       ELSE Finish("AuthorizationDenied")

----------------------------------------------------------------------------
(* Executor.Execute and listTarget.  Targets are listed in the order of     *)
(* their namespaces.                                                        *)
Target == CHOOSE t \in todo : \A u \in todo : t <= u

Goto(step) ==
    /\ pc' = step
    /\ UNCHANGED <<inputs, cluster, lease, snapshot, todo, token, restarted, items,
                   collected, budget, outcome, ghosts>>

Execute == pc = "execute" /\ ~done /\ Goto("context")

(* Every target is listed.                                                  *)
Listed == pc = "context" /\ todo = {} /\ Finish("ok")

(* The head of listTarget's loop: the context, then the capability.         *)
CheckContext ==
    /\ pc = "context" /\ todo # {}
    /\ IF done THEN Finish("ReadInterrupted") ELSE Goto("capability")

CheckCapability ==
    /\ pc = "capability"
    /\ IF current THEN Goto("adapter") ELSE Finish("AuthorizationStale")

(* DynamicResourceLister.List checks both again.  listTarget reports its    *)
(* refusal as an interruption: what makes a capability stale has also ended *)
(* the context.                                                             *)
AdapterContext ==
    /\ pc = "adapter"
    /\ IF done THEN Finish("ReadInterrupted") ELSE Goto("permit")

AdapterCapability ==
    /\ pc = "permit"
    /\ IF current THEN Goto("send")
       ELSE Finish(IF done THEN "ReadInterrupted" ELSE "AuthorizationStale")

Send ==
    /\ pc = "send"
    /\ pc' = "receive"
    /\ listed' = listed \cup {Target}
    /\ late' = late + (IF current THEN 0 ELSE 1)
    /\ UNCHANGED <<inputs, cluster, lease, snapshot, todo, token, restarted, items,
                   collected, budget, outcome, base>>

(* What the list still has to send: a fresh list reads the cluster, a       *)
(* continued one its snapshot.                                              *)
Remaining == IF token = {} THEN {o \in objects : Home[o] = Target} ELSE UNION token

Pages == {p \in SUBSET Remaining :
              Cardinality(p) = Min({PageLimit, Cardinality(Remaining)})}

(* The size of these objects together: every byte is an object and a        *)
(* position in its canonical form.                                          *)
Bytes(S) == Cardinality(UNION {{o} \X (1 .. Size[o]) : o \in S})

(* Mutant: the ceiling on resources is compared before the object counts.   *)
ExceedsOneMore(new) ==
    \/ Cardinality(seen) + Cardinality(new) > MaxResources + 1
    \/ bytes + Bytes(new) > MaxInputBytes

(* Some first-seen object of the page finds the budget full.                *)
Exceeds(new) ==
    \/ Cardinality(seen) + Cardinality(new) > MaxResources
    \/ bytes + Bytes(new) > MaxInputBytes

(* Mutant: the checks are made once per target.                             *)
LoopOnce(rest) == IF rest = {} THEN "context" ELSE "send"

(* Where listTarget goes after a page with this rest.                       *)
Loop(rest) == "context"

(* A page within the budget; the last one completes the target.             *)
ReceivePage ==
    /\ pc = "receive"
    /\ base' = IF token = {} THEN [base EXCEPT ![Target] = Remaining] ELSE base
    /\ \E page \in Pages :
         LET new  == page \ seen
             rest == Remaining \ page
         IN  /\ ~Exceeds(new)
             /\ seen' = seen \cup new /\ bytes' = bytes + Bytes(new)
             /\ IF rest = {}
                THEN /\ collected' = collected \cup items \cup new
                     /\ todo' = todo \ {Target}
                     /\ token' = {} /\ items' = {} /\ restarted' = FALSE
                ELSE /\ items' = items \cup new
                     /\ token' = {rest}
                     /\ UNCHANGED <<collected, todo, restarted>>
             /\ pc' = Loop(rest)
    /\ UNCHANGED <<inputs, cluster, lease, snapshot, outcome, listed, late>>

(* A page that does not fit.  An object that cannot be measured would end   *)
(* the same way, but one that was decoded can always be encoded again.      *)
ReceiveTooMuch ==
    /\ pc = "receive"
    /\ \E page \in Pages : Exceeds(page \ seen)
    /\ base' = IF token = {} THEN [base EXCEPT ![Target] = Remaining] ELSE base
    /\ pc' = "done" /\ outcome' = "SelectionLimitExceeded" /\ collected' = {}
    /\ UNCHANGED <<inputs, cluster, lease, snapshot, todo, token, restarted, items,
                   budget, listed, late>>

(* Mutant: the bytes of the objects already accepted stay counted.          *)
RestartKeepsBytes ==
    /\ seen' = seen \ items /\ bytes' = bytes
    /\ items' = {} /\ token' = {} /\ restarted' = TRUE

(* Mutant: the objects already accepted stay accepted.                      *)
RestartKeepsItems ==
    /\ seen' = seen /\ bytes' = bytes
    /\ items' = items /\ token' = {} /\ restarted' = TRUE

(* Mutant: a list may start over any number of times.                       *)
RestartAgain ==
    /\ seen' = seen \ items /\ bytes' = bytes - Bytes(items)
    /\ items' = {} /\ token' = {} /\ restarted' = FALSE

(* The target is listed from the start, what it had put into the budget     *)
(* taken out.                                                               *)
Restart ==
    /\ seen' = seen \ items /\ bytes' = bytes - Bytes(items)
    /\ items' = {} /\ token' = {} /\ restarted' = TRUE

(* IsResourceExpired: the first time the list starts over, the second time  *)
(* is an error.                                                             *)
ReceiveExpired ==
    /\ pc = "receive" /\ ~done
    /\ IF restarted THEN Finish("ListExpired")
       ELSE /\ Restart
            /\ pc' = "context"
            /\ UNCHANGED <<inputs, cluster, lease, snapshot, todo, collected, outcome,
                           ghosts>>

(* mapListError, and a response without identities or without content.      *)
ListErrors == {"timeout", "forbidden", "rejected", "failed", "empty", "malformed"}

MapListError(error) ==
    CASE error = "malformed" -> "InvalidObject"
      [] error = "empty"     -> "ReadUnavailable"
      [] error = "timeout"   -> "ReadInterrupted"
      [] error = "forbidden" -> "ReadForbidden"
      [] error = "rejected"  -> IF source.fields THEN "UnsupportedSelector"
                                ELSE "ReadUnavailable"
      [] error = "failed"    -> "ReadUnavailable"

ReceiveError ==
    /\ pc = "receive"
    /\ \E error \in ListErrors :
         Finish(IF done /\ error \notin {"empty", "malformed"} THEN "ReadInterrupted"
                ELSE MapListError(error))

----------------------------------------------------------------------------
Step ==
    \/ Load \/ Plan \/ PlanFails \/ Authorize \/ Abandon \/ Execute
    \/ CheckContext \/ CheckCapability \/ AdapterContext \/ AdapterCapability
    \/ Send \/ ReceivePage \/ ReceiveTooMuch \/ ReceiveExpired \/ ReceiveError
    \/ Listed

Next == Step \/ Revoke \/ Expire \/ Churn

Spec == Init /\ [][Next]_vars

(* The goroutine keeps running and every request is answered.               *)
FairSpec == Spec /\ WF_vars(Step)

----------------------------------------------------------------------------
Fresh == UNION {base[t] : t \in Targets}

(* A request is sent only when every target of the source lies within what  *)
(* the policy read by this attempt lets an installation observe: a missing, *)
(* unreadable or invalid policy reads nothing, and one denied target stops  *)
(* the whole source (LoadWithValidation, Evaluate, BindCapabilities).       *)
OnlyPermittedReads ==
    listed # {} =>
        /\ snapshot.terminal = ""
        /\ \A t \in DeriveTargets(source) :
             RequestForTarget(t) \in UNION {Ceiling(p) : p \in policy}

(* A source is read whole or not at all: a successful outcome is exactly    *)
(* what each target held when its last list began, whatever pages, expired  *)
(* tokens and changes came between, and a failure keeps nothing (Execute).  *)
SourceAtomic ==
    pc = "done" => collected = IF outcome = "ok" THEN Fresh ELSE {}

(* Objects counted before a list had to start over are not counted twice:   *)
(* the ceilings only refuse a source whose lists really exceed them, and    *)
(* never let one through (the rollback of selectionBudget in listTarget).   *)
CeilingsExact ==
    LET over == Cardinality(Fresh) > MaxResources \/ Bytes(Fresh) > MaxInputBytes
    IN  /\ outcome = "SelectionLimitExceeded" => over
        /\ outcome = "ok" => ~over

(* Once the lease is revoked at most the request about to be sent still     *)
(* goes out: every page, restart and target asks again (listTarget,         *)
(* DynamicResourceLister.List).                                             *)
RevocationStops == late <= 1

(* Whatever expires or changes meanwhile, the source gets its outcome: a    *)
(* target restarts once and each page shortens its list (listTarget).       *)
Terminates == <>(pc = "done")
=============================================================================
