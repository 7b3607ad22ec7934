-------------------------- MODULE Selection_proofs --------------------------
(***************************************************************************)
(* Selection for every policy, source, set of objects and limit: a revoked  *)
(* lease sends at most one more request, only reads that the installation   *)
(* policy permits are ever sent, a source is read whole or not at all, and  *)
(* the ceilings are exact.                                                  *)
(***************************************************************************)
EXTENDS Selection, NaturalSets

(***************************************************************************)
(* RevocationStops.                                                         *)
(***************************************************************************)

(* A superseded lease has a cancelled context; a request sent after the     *)
(* revocation was the one already permitted, so the loop is either waiting  *)
(* for its answer or back at the check that will end it.                    *)
Revoked ==
    /\ done \in BOOLEAN /\ current \in BOOLEAN
    /\ ~current => done
    /\ late \in {0, 1}
    /\ late = 1 => ~current /\ pc \in {"receive", "context", "done"}

(* Ending the attempt or moving between the checks sends nothing.           *)
LEMMA FinishRevoked ==
    ASSUME NEW reason, Revoked, Finish(reason)
    PROVE  Revoked'
BY DEF Finish, Revoked, inputs, cluster, lease, budget, ghosts

(* Every step keeps Revoked.                                                *)
LEMMA StepRevoked ==
    ASSUME Revoked, [Next]_vars
    PROVE  Revoked'
<1>1. CASE Load
  BY <1>1 DEF Load, Revoked, inputs, cluster, lease, budget, ghosts
<1>2. CASE Plan
  BY <1>2 DEF Plan, Revoked, inputs, cluster, lease, budget, ghosts
<1>3. CASE PlanFails
  BY <1>3, FinishRevoked DEF PlanFails
<1>4. CASE Authorize
  <2>1. CASE todo \subseteq Capabilities
    BY <1>4, <2>1 DEF Authorize, Revoked, inputs, cluster, lease, budget, ghosts
  <2>2. CASE ~(todo \subseteq Capabilities)
    BY <1>4, <2>2, FinishRevoked DEF Authorize
  <2> QED BY <2>1, <2>2
<1>5. CASE Abandon
  BY <1>5, FinishRevoked DEF Abandon
<1>6. CASE Execute
  BY <1>6 DEF Execute, Goto, Revoked, inputs, cluster, lease, budget, ghosts
<1>7. CASE CheckContext
  <2>1. CASE done
    BY <1>7, <2>1, FinishRevoked DEF CheckContext
  <2>2. CASE ~done
    BY <1>7, <2>2 DEF CheckContext, Goto, Revoked, inputs, cluster, lease, budget, ghosts
  <2> QED BY <2>1, <2>2
<1>8. CASE CheckCapability
  <2>1. CASE current
    BY <1>8, <2>1 DEF CheckCapability, Goto, Revoked, inputs, cluster, lease, budget, ghosts
  <2>2. CASE ~current
    BY <1>8, <2>2, FinishRevoked DEF CheckCapability
  <2> QED BY <2>1, <2>2
<1>9. CASE AdapterContext
  <2>1. CASE done
    BY <1>9, <2>1, FinishRevoked DEF AdapterContext
  <2>2. CASE ~done
    BY <1>9, <2>2 DEF AdapterContext, Goto, Revoked, inputs, cluster, lease, budget, ghosts
  <2> QED BY <2>1, <2>2
<1>10. CASE AdapterCapability
  <2>1. CASE current
    BY <1>10, <2>1 DEF AdapterCapability, Goto, Revoked, inputs, cluster, lease, budget, ghosts
  <2>2. CASE ~current
    BY <1>10, <2>2, FinishRevoked DEF AdapterCapability
  <2> QED BY <2>1, <2>2
<1>11. CASE Send
  BY <1>11 DEF Send, Revoked, inputs, cluster, lease, budget
<1>12. CASE ReceivePage
  BY <1>12 DEF ReceivePage, Loop, Revoked, inputs, cluster, lease
<1>13. CASE ReceiveTooMuch
  BY <1>13 DEF ReceiveTooMuch, Revoked, inputs, cluster, lease, budget
<1>14. CASE ReceiveExpired
  <2>1. CASE restarted
    BY <1>14, <2>1, FinishRevoked DEF ReceiveExpired
  <2>2. CASE ~restarted
    BY <1>14, <2>2 DEF ReceiveExpired, Revoked, inputs, cluster, lease, ghosts
  <2> QED BY <2>1, <2>2
<1>15. CASE ReceiveError
  BY <1>15, FinishRevoked DEF ReceiveError
<1>16. CASE Listed
  BY <1>16, FinishRevoked DEF Listed
<1>17. CASE Revoke
  BY <1>17 DEF Revoke, Revoked, inputs, cluster, budget, ghosts
<1>18. CASE Expire
  BY <1>18 DEF Expire, Revoked, inputs, cluster, budget, ghosts
<1>19. CASE Churn
  BY <1>19 DEF Churn, Revoked, inputs, lease, budget, ghosts
<1>20. CASE UNCHANGED vars
  BY <1>20 DEF Revoked, vars, lease, ghosts
<1> QED
  BY <1>1, <1>2, <1>3, <1>4, <1>5, <1>6, <1>7, <1>8, <1>9, <1>10, <1>11, <1>12, <1>13,
     <1>14, <1>15, <1>16, <1>17, <1>18, <1>19, <1>20 DEF Next, Step

(* At most one request follows a revocation, however many pages, targets    *)
(* and restarts the source would still have needed (listTarget).            *)
THEOREM RevocationStopsReads == Spec => []RevocationStops
<1>1. Init => Revoked
  <2>1. Init => late = 0 /\ current = TRUE /\ done = FALSE
    BY DEF Init
  <2>2. late = 0 => late \in {0, 1} /\ late # 1
    OBVIOUS
  <2>3. Init => /\ done \in BOOLEAN /\ current \in BOOLEAN
                /\ ~current => done
    BY <2>1, Zenon
  <2> QED BY <2>1, <2>2, <2>3 DEF Revoked
<1>2. Revoked /\ [Next]_vars => Revoked'
  BY StepRevoked
<1>3. Revoked => RevocationStops
  BY DEF Revoked, RevocationStops
<1> QED
  BY <1>1, <1>2, <1>3, PTL DEF Spec

(***************************************************************************)
(* OnlyPermittedReads.                                                      *)
(***************************************************************************)

(* What LoadWithValidation makes of the policy: without a terminal reason    *)
(* there is a valid policy, and the snapshot is its compilation.            *)
Loaded ==
    /\ snapshot.terminal \in {"", "PolicyUnavailable", "PolicyMissing", "PolicyInvalid"}
    /\ snapshot.terminal = "" =>
         \E p \in policy : p.fits /\ p.wellFormed /\ snapshot.policy = {Compile(p)}

(* A target that the evaluator allows is within the ceiling of the policy   *)
(* that was loaded, for every policy and request the planner can form.      *)
LEMMA AllowedIsPermitted ==
    ASSUME policy \in Policies, source \in Sources, Loaded,
           NEW t \in DeriveTargets(source),
           Evaluate(snapshot, RequestForTarget(t)) = "Allowed"
    PROVE  /\ snapshot.terminal = ""
           /\ RequestForTarget(t) \in UNION {Ceiling(p) : p \in policy}
<1>1. snapshot.terminal = ""
  BY DEF Loaded, Evaluate
<1>2. PICK p \in policy : p.fits /\ p.wellFormed /\ snapshot.policy = {Compile(p)}
  BY <1>1 DEF Loaded
<1>3. p \in PolicyObject
  BY <1>2, SelectionAssumption
<1> DEFINE r == RequestForTarget(t)
           c == Compile(p)
<1>4. Decide(c, r) = "Allowed"
  <2>1. (CHOOSE q \in snapshot.policy : TRUE) = c
    BY <1>2
  <2> QED BY <1>1, <2>1 DEF Evaluate
<1>5. /\ c.mode = p.mode /\ c.include = p.include /\ c.exclude = p.exclude
      /\ c.kinds = p.kinds /\ c.allowClusterScoped = p.allowClusterScoped
      /\ c.system = {SystemOf(p)}
  BY <1>3 DEF Compile, PolicyObject
<1>6. r.kind = source.kind /\ r.namespace = t /\ r = [kind |-> source.kind, namespace |-> t]
  BY DEF RequestForTarget
<1>7. ValidateRequest(r) /\ r.kind \in p.kinds
  BY <1>4, <1>5 DEF Decide
<1>8. r \in Ceiling(p)
  <2>1. CASE source.kind \in ClusterKinds
    <3>1. t = Cluster
      BY <2>1 DEF DeriveTargets
    <3>2. p.allowClusterScoped
      BY <1>4, <1>5, <1>6, <1>7, <2>1 DEF Decide
    <3> QED BY <1>2, <1>6, <1>7, <2>1, <3>1, <3>2 DEF Ceiling, Validate, ValidateRequest
  <2>2. CASE source.kind \notin ClusterKinds
    <3>1. t \in Namespaces
      BY <1>6, <1>7, <2>2 DEF ValidateRequest
    <3>2. t \notin p.exclude /\ AllowedNamespace(c, t)
      BY <1>4, <1>5, <1>6, <1>7, <2>2 DEF Decide
    <3>3. p.mode \in Modes
      BY <1>3 DEF PolicyObject
    <3>4. UNION c.system = SystemOf(p)
      BY <1>5
    <3> QED BY <1>2, <1>5, <1>6, <1>7, <2>2, <3>1, <3>2, <3>3, <3>4
            DEF Ceiling, Validate, ValidateRequest, AllowedNamespace, Modes
  <2> QED BY <2>1, <2>2
<1> QED BY <1>1, <1>2, <1>8

Bound == {"execute", "context", "capability", "adapter", "permit", "send", "receive"}

(* The inductive invariant: from the binding on, every target of the source *)
(* is allowed by the snapshot, and the targets still to be listed are among *)
(* them; nothing is sent before the policy is loaded.                       *)
Covered ==
    /\ policy \in Policies /\ source \in Sources
    /\ Loaded
    /\ pc = "load" => listed = {}
    /\ pc = "authorize" => todo = DeriveTargets(source)
    /\ pc \in Bound =>
         /\ todo \subseteq DeriveTargets(source)
         /\ \A t \in DeriveTargets(source) : Evaluate(snapshot, RequestForTarget(t)) = "Allowed"
    /\ pc \in {"capability", "adapter", "permit", "send", "receive"} => todo # {}
    /\ OnlyPermittedReads

(* A step that reads no policy and sends no request, and leaves the targets *)
(* of a bound plan alone or drops some, keeps the invariant.                *)
LEMMA QuietCovered ==
    ASSUME Covered, UNCHANGED <<policy, source, snapshot, listed>>,
           pc' = "load" => pc = "load",
           pc' = "authorize" => pc = "authorize" /\ todo' = todo,
           pc' \in Bound => pc \in Bound /\ todo' \subseteq todo,
           pc' \in {"capability", "adapter", "permit", "send", "receive"} => todo' # {}
    PROVE  Covered'
<1>1. Loaded' /\ OnlyPermittedReads'
  BY DEF Covered, Loaded, OnlyPermittedReads, RequestForTarget
<1>2. \A t : (Evaluate(snapshot, RequestForTarget(t)))' = Evaluate(snapshot, RequestForTarget(t))
  BY DEF Evaluate, RequestForTarget
<1> QED BY <1>1, <1>2 DEF Covered

(* Ending the attempt.                                                      *)
LEMMA FinishCovered ==
    ASSUME NEW reason, Covered, Finish(reason)
    PROVE  Covered'
BY QuietCovered DEF Finish, Bound, inputs, ghosts

(* Going from one check to the next.                                        *)
LEMMA GotoCovered ==
    ASSUME NEW step \in Bound, Covered, pc \in Bound, Goto(step),
           step \in {"execute", "context"} \/ todo # {}
    PROVE  Covered'
BY QuietCovered DEF Goto, Bound, inputs, ghosts

(* Loading the policy: the snapshot is a deny-all state or the compilation  *)
(* of the one valid policy there is.                                        *)
LEMMA LoadCovered ==
    ASSUME Covered, Load
    PROVE  Covered'
<1>1. PICK read \in {"succeeded", "failed"} : snapshot' = LoadWithValidation(read, policy, TRUE)
  BY DEF Load
<1>2. /\ UNCHANGED <<policy, source, todo, listed>>
      /\ listed = {} /\ pc' = "plan"
  BY DEF Load, Covered, inputs, ghosts
<1>3. Loaded'
  <2>1. CASE read = "failed" \/ policy = {}
    BY <1>1, <1>2, <2>1 DEF LoadWithValidation, DenyAll, Loaded
  <2>2. CASE read # "failed" /\ policy # {}
    <3> DEFINE p == CHOOSE q \in policy : TRUE
    <3>1. p \in policy
      BY <2>2
    <3>2. p \in PolicyObject
      BY <3>1, SelectionAssumption DEF Covered
    <3>3. CASE ~(p.fits /\ p.wellFormed)
      BY <1>1, <1>2, <2>2, <3>3 DEF LoadWithValidation, Validate, DenyAll, Loaded
    <3>4. CASE p.fits /\ p.wellFormed
      <4>1. snapshot' = [terminal |-> "", policy |-> {Compile(p)}]
        BY <1>1, <2>2, <3>4 DEF LoadWithValidation, Validate
      <4> QED BY <1>2, <3>1, <3>4, <4>1 DEF Loaded, Compile, SystemOf
    <3> QED BY <3>3, <3>4
  <2> QED BY <2>1, <2>2
<1> QED BY <1>2, <1>3 DEF Covered, Bound, OnlyPermittedReads

(* Sending a request, the one step that reads.                              *)
LEMMA SendCovered ==
    ASSUME Covered, Send
    PROVE  Covered'
<1>1. /\ UNCHANGED <<policy, source, snapshot, todo>>
      /\ pc = "send" /\ pc' = "receive"
  BY DEF Send, inputs
<1>2. PICK t \in DeriveTargets(source) : t \in todo
  BY <1>1 DEF Covered, Bound
<1>3. \A u \in DeriveTargets(source) :
         /\ snapshot.terminal = ""
         /\ RequestForTarget(u) \in UNION {Ceiling(p) : p \in policy}
  BY <1>1, AllowedIsPermitted DEF Covered, Bound
<1>4. OnlyPermittedReads'
  BY <1>1, <1>2, <1>3 DEF OnlyPermittedReads, RequestForTarget
<1>5. Loaded'
  BY <1>1 DEF Loaded, Covered
<1>6. \A u : (Evaluate(snapshot, RequestForTarget(u)))' = Evaluate(snapshot, RequestForTarget(u))
  BY <1>1 DEF Evaluate, RequestForTarget
<1> QED BY <1>1, <1>4, <1>5, <1>6 DEF Covered, Bound

(* Every step keeps Covered.                                                *)
LEMMA StepCovered ==
    ASSUME Covered, [Next]_vars
    PROVE  Covered'
<1>1. CASE Load
  BY <1>1, LoadCovered
<1>2. CASE Plan
  <2>1. /\ UNCHANGED <<policy, source, snapshot, listed>>
        /\ todo' = DeriveTargets(source) /\ pc' = "authorize"
    BY <1>2 DEF Plan, inputs, ghosts
  <2>2. Loaded' /\ OnlyPermittedReads'
    BY <2>1 DEF Covered, Loaded, OnlyPermittedReads, RequestForTarget
  <2>3. DeriveTargets(source)' = DeriveTargets(source)
    BY <2>1 DEF DeriveTargets
  <2> QED BY <2>1, <2>2, <2>3 DEF Covered, Bound
<1>3. CASE PlanFails
  BY <1>3, FinishCovered DEF PlanFails
<1>4. CASE Authorize
  <2>1. CASE todo \subseteq Capabilities
    <3>1. /\ UNCHANGED <<policy, source, snapshot, listed, todo>>
          /\ pc = "authorize" /\ pc' = "execute"
      BY <1>4, <2>1 DEF Authorize, inputs, ghosts
    <3>2. Loaded' /\ OnlyPermittedReads'
      BY <3>1 DEF Covered, Loaded, OnlyPermittedReads, RequestForTarget
    <3>3. \A u : (Evaluate(snapshot, RequestForTarget(u)))' = Evaluate(snapshot, RequestForTarget(u))
      BY <3>1 DEF Evaluate, RequestForTarget
    <3>4. \A t \in DeriveTargets(source) : Evaluate(snapshot, RequestForTarget(t)) = "Allowed"
      BY <2>1, <3>1 DEF Covered, Capabilities
    <3> QED BY <3>1, <3>2, <3>3, <3>4 DEF Covered, Bound
  <2>2. CASE ~(todo \subseteq Capabilities)
    BY <1>4, <2>2, FinishCovered DEF Authorize
  <2> QED BY <2>1, <2>2
<1>5. CASE Abandon
  BY <1>5, FinishCovered DEF Abandon
<1>6. CASE Execute
  BY <1>6, GotoCovered DEF Execute, Bound
<1>7. CASE CheckContext
  BY <1>7, FinishCovered, GotoCovered DEF CheckContext, Bound
<1>8. CASE CheckCapability
  BY <1>8, FinishCovered, GotoCovered DEF CheckCapability, Bound, Covered
<1>9. CASE AdapterContext
  BY <1>9, FinishCovered, GotoCovered DEF AdapterContext, Bound, Covered
<1>10. CASE AdapterCapability
  BY <1>10, FinishCovered, GotoCovered DEF AdapterCapability, Bound, Covered
<1>11. CASE Send
  BY <1>11, SendCovered
<1>12. CASE ReceivePage
  BY <1>12, QuietCovered DEF ReceivePage, Loop, Bound, inputs
<1>13. CASE ReceiveTooMuch
  BY <1>13, QuietCovered DEF ReceiveTooMuch, Bound, inputs
<1>14. CASE ReceiveExpired
  <2>1. CASE restarted
    BY <1>14, <2>1, FinishCovered DEF ReceiveExpired
  <2>2. CASE ~restarted
    BY <1>14, <2>2, QuietCovered DEF ReceiveExpired, Bound, inputs, ghosts
  <2> QED BY <2>1, <2>2
<1>15. CASE ReceiveError
  BY <1>15, FinishCovered DEF ReceiveError
<1>16. CASE Listed
  BY <1>16, FinishCovered DEF Listed
<1>17. CASE Revoke
  BY <1>17, QuietCovered DEF Revoke, Covered, inputs, ghosts
<1>18. CASE Expire
  BY <1>18, QuietCovered DEF Expire, Covered, inputs, ghosts
<1>19. CASE Churn
  BY <1>19, QuietCovered DEF Churn, Covered, inputs, ghosts
<1>20. CASE UNCHANGED vars
  BY <1>20, QuietCovered DEF Covered, vars, inputs, ghosts
<1> QED
  BY <1>1, <1>2, <1>3, <1>4, <1>5, <1>6, <1>7, <1>8, <1>9, <1>10, <1>11, <1>12, <1>13,
     <1>14, <1>15, <1>16, <1>17, <1>18, <1>19, <1>20 DEF Next, Step

(* No request is ever sent outside the ceiling of the policy this attempt   *)
(* loaded, nor for a source of which one target is outside                  *)
(* (LoadWithValidation, Evaluate, EvaluateBatch, BindCapabilities).         *)
THEOREM ReadsArePermitted == Spec => []OnlyPermittedReads
<1>1. Init => Covered
  BY DEF Init, Covered, Loaded, Bound, DenyAll, OnlyPermittedReads
<1>2. Covered /\ [Next]_vars => Covered'
  BY StepCovered
<1>3. Covered => OnlyPermittedReads
  BY DEF Covered
<1> QED
  BY <1>1, <1>2, <1>3, PTL DEF Spec

(***************************************************************************)
(* SourceAtomic and CeilingsExact.                                          *)
(***************************************************************************)

(* The bytes of these objects.                                              *)
Encoding(S) == UNION {{o} \X (1 .. Size[o]) : o \in S}

(* They are finitely many.                                                  *)
LEMMA EncodingFinite ==
    ASSUME NEW S, S \subseteq Objects
    PROVE  IsFiniteSet(S) /\ IsFiniteSet(Encoding(S))
<1>1. IsFiniteSet(S)
  BY SelectionAssumption, FS_Subset
<1> DEFINE code == [o \in S |-> {o} \X (1 .. Size[o])]
           codes == {code[o] : o \in S}
<1>2. code \in Surjection(S, codes)
  BY DEF Surjection
<1>3. IsFiniteSet(codes)
  <2> HIDE DEF code, codes
  <2> QED BY <1>1, <1>2, FS_Surjection
<1>4. ASSUME NEW o \in S PROVE IsFiniteSet(code[o])
  <2>1. Size[o] \in Nat
    BY SelectionAssumption
  <2>2. IsFiniteSet(1 .. Size[o])
    BY <2>1, FS_Interval
  <2>3. IsFiniteSet({o})
    BY FS_Singleton
  <2>4. IsFiniteSet({o} \X (1 .. Size[o]))
    BY <2>2, <2>3, FS_Product
  <2> QED BY <2>4
<1>5. \A c \in codes : IsFiniteSet(c)
  BY <1>4
<1>6. IsFiniteSet(UNION codes)
  <2> HIDE DEF codes
  <2> QED BY <1>3, <1>5, FS_UNION
<1>7. Encoding(S) = UNION codes
  BY DEF Encoding
<1> QED BY <1>1, <1>6, <1>7

(* Sizes add up over disjoint sets of objects ...                           *)
LEMMA BytesAdd ==
    ASSUME NEW S, NEW T, S \subseteq Objects, T \subseteq Objects, S \cap T = {}
    PROVE  /\ Bytes(S) \in Nat /\ Bytes(T) \in Nat
           /\ Bytes(S \cup T) = Bytes(S) + Bytes(T)
           /\ Cardinality(S) \in Nat /\ Cardinality(T) \in Nat
           /\ Cardinality(S \cup T) = Cardinality(S) + Cardinality(T)
<1>1. /\ IsFiniteSet(S) /\ IsFiniteSet(Encoding(S))
      /\ IsFiniteSet(T) /\ IsFiniteSet(Encoding(T))
  BY EncodingFinite
<1>2. Encoding(S \cup T) = Encoding(S) \cup Encoding(T)
  BY DEF Encoding
<1>3. Encoding(S) \cap Encoding(T) = {}
  BY DEF Encoding
<1>4. Bytes(S) = Cardinality(Encoding(S)) /\ Bytes(T) = Cardinality(Encoding(T))
  BY DEF Bytes, Encoding
<1>5. Bytes(S \cup T) = Cardinality(Encoding(S \cup T))
  BY DEF Bytes, Encoding
<1>6. /\ Cardinality(Encoding(S)) \in Nat /\ Cardinality(Encoding(T)) \in Nat
      /\ Cardinality(S) \in Nat /\ Cardinality(T) \in Nat /\ Cardinality({}) = 0
  BY <1>1, FS_CardinalityType, FS_EmptySet
<1>7. Cardinality(Encoding(S) \cup Encoding(T))
        = Cardinality(Encoding(S)) + Cardinality(Encoding(T)) - Cardinality({})
  BY <1>1, <1>3, FS_Union
<1>8. Cardinality(S \cup T) = Cardinality(S) + Cardinality(T) - Cardinality({})
  BY <1>1, FS_Union
<1>9. Bytes(S \cup T) = Bytes(S) + Bytes(T) - 0
  BY <1>2, <1>4, <1>5, <1>6, <1>7
<1>10. Bytes(S) \in Nat /\ Bytes(T) \in Nat
  BY <1>4, <1>6
<1>11. Cardinality(S \cup T) = Cardinality(S) + Cardinality(T) - 0
  BY <1>6, <1>8
<1>12. \A m, n \in Nat : m + n - 0 = m + n
  OBVIOUS
<1> QED BY <1>6, <1>9, <1>10, <1>11, <1>12

(* ... and only grow with the set.                                          *)
LEMMA BytesGrow ==
    ASSUME NEW S, NEW T, T \subseteq Objects, S \subseteq T
    PROVE  /\ Bytes(S) \in Nat /\ Bytes(T) \in Nat /\ Bytes(S) <= Bytes(T)
           /\ Cardinality(S) \in Nat /\ Cardinality(T) \in Nat
           /\ Cardinality(S) <= Cardinality(T)
<1>1. T = S \cup (T \ S) /\ S \cap (T \ S) = {} /\ S \subseteq Objects /\ T \ S \subseteq Objects
  OBVIOUS
<1> DEFINE U == T \ S
<1>2. /\ Bytes(S) \in Nat /\ Bytes(U) \in Nat
      /\ Bytes(S \cup U) = Bytes(S) + Bytes(U)
      /\ Cardinality(S) \in Nat /\ Cardinality(U) \in Nat
      /\ Cardinality(S \cup U) = Cardinality(S) + Cardinality(U)
  <2> HIDE DEF U
  <2> QED BY <1>1, BytesAdd DEF U
<1>3. S \cup U = T
  BY <1>1
<1> QED BY <1>2, <1>3

(* The planner derives targets that exist.                                  *)
LEMMA TargetsDerived ==
    ASSUME NEW s \in Sources, PlanReason(s) = ""
    PROVE  DeriveTargets(s) \subseteq Targets
<1>1. ValidScope(s)
  BY DEF PlanReason
<1>2. CASE s.kind \in ClusterKinds
  BY <1>2 DEF DeriveTargets, Targets
<1>3. CASE s.kind \notin ClusterKinds
  <2>1. CASE s.namespaces = {}
    BY <1>3, <2>1, OwnerAssumption DEF DeriveTargets, Targets
  <2>2. CASE s.namespaces # {}
    <3>1. DeriveTargets(s) = UNION {{names[i] : i \in DOMAIN names} : names \in s.namespaces}
      BY <1>3, <2>2 DEF DeriveTargets
    <3>2. \A names \in s.namespaces : \A i \in DOMAIN names : names[i] \in Namespaces
      BY <1>1, <1>3 DEF ValidScope, ValidNamespaces
    <3>3. ASSUME NEW t \in DeriveTargets(s) PROVE t \in Namespaces
      <4>1. PICK names \in s.namespaces : t \in {names[i] : i \in DOMAIN names}
        BY <3>1
      <4> QED BY <3>2, <4>1
    <3> QED BY <3>3 DEF Targets
  <2> QED BY <2>1, <2>2
<1> QED BY <1>2, <1>3

(* listTarget is given one of the targets that are left.                    *)
LEMMA TargetLeft ==
    ASSUME todo \subseteq Targets, todo # {}
    PROVE  Target \in todo
<1>1. todo \subseteq Nat
  BY PolicyAssumption DEF Targets, Cluster
<1>2. \E t \in todo : \A u \in todo : t <= u
  BY <1>1, LeastNatural
<1> QED BY <1>2 DEF Target

(* Nothing is listed before the plan is bound.                              *)
Unread ==
    /\ collected = {} /\ token = {} /\ items = {}
    /\ seen = {} /\ bytes = 0
    /\ \A t \in Targets : base[t] = {}

(* While the targets are listed: each finished one is collected as its last *)
(* list began; a list in progress is what was sent and what its token still *)
(* holds, each object once; a target not begun has given nothing; and the   *)
(* budget counts exactly what is collected and what is in progress, so that *)
(* starting over takes out what was put in.                                 *)
Reading ==
    /\ \A t \in Targets : \A o \in base[t] : Home[o] = t
    /\ \A t \in todo : t # Target => base[t] = {}
    /\ collected = UNION {base[t] : t \in Targets \ todo}
    /\ token = {} => items = {}
    /\ \A rest \in token :
          /\ token = {rest} /\ rest # {} /\ todo # {}
          /\ items \cup rest = base[Target] /\ items \cap rest = {}
    /\ seen = collected \cup items
    /\ bytes = Bytes(seen)

(* The inductive invariant of the two properties.                           *)
Progress ==
    /\ pc # "done" => outcome = "pending"
    /\ pc \in {"load", "plan", "authorize"} => Unread
    /\ pc \in Bound => Reading
    /\ SourceAtomic /\ CeilingsExact

(* The state of the reads.                                                  *)
reads == <<todo, token, items, collected, seen, bytes, base>>

(* A step of the attempt that changes no read.                              *)
LEMMA QuietProgress ==
    ASSUME Progress, UNCHANGED <<reads, outcome>>, pc # "done", pc' # "done",
           pc' \in {"load", "plan", "authorize"} => pc \in {"load", "plan", "authorize"},
           pc' \in Bound => pc \in Bound
    PROVE  Progress'
<1>1. Unread => Unread'
  BY DEF Unread, reads
<1>2. Reading => Reading'
  BY DEF Reading, reads, Target, Bytes
<1>3. outcome' = "pending"
  BY DEF Progress
<1> QED BY <1>1, <1>2, <1>3 DEF Progress, SourceAtomic, CeilingsExact

(* A failure other than a full budget keeps nothing.                        *)
LEMMA FailProgress ==
    ASSUME NEW reason, Finish(reason), reason \notin {"ok", "SelectionLimitExceeded"}
    PROVE  Progress'
BY DEF Finish, Progress, Bound, SourceAtomic, CeilingsExact

(* Success: every target is collected, and the budget counted all of it.    *)
LEMMA ListedProgress ==
    ASSUME TypeOK, Progress, Listed
    PROVE  Progress'
<1>1. /\ pc = "context" /\ todo = {} /\ pc' = "done" /\ outcome' = "ok"
      /\ collected' = collected /\ base' = base
  BY DEF Listed, Finish, ghosts
<1>2. Reading
  BY <1>1 DEF Progress, Bound
<1>3. Fresh = collected
  BY <1>1, <1>2 DEF Reading, Fresh
<1>4. seen = Fresh /\ bytes = Bytes(Fresh)
  BY <1>1, <1>2, <1>3 DEF Reading
<1>5. Cardinality(Fresh) <= MaxResources /\ Bytes(Fresh) <= MaxInputBytes
  BY <1>4 DEF TypeOK
<1>6. Cardinality(Fresh) \in Nat /\ Bytes(Fresh) \in Nat
  BY <1>4, BytesGrow DEF TypeOK
<1>7. Fresh' = Fresh /\ Bytes(Fresh)' = Bytes(Fresh)
  BY <1>1 DEF Fresh, Bytes
<1>8. SourceAtomic'
  BY <1>1, <1>3, <1>7 DEF SourceAtomic
<1>9. CeilingsExact'
  <2>1. ~(Cardinality(Fresh) > MaxResources) /\ ~(Bytes(Fresh) > MaxInputBytes)
    BY <1>5, <1>6, SelectionAssumption
  <2> QED BY <1>1, <1>7, <2>1 DEF CeilingsExact
<1> QED BY <1>1, <1>8, <1>9 DEF Progress, Bound

(* What is still to come of the target being listed, given the list that    *)
(* the answer belongs to: together with what came it is that list, and none *)
(* of it has been seen.                                                     *)
LEMMA AnswerSplits ==
    ASSUME TypeOK, Reading, todo # {},
           base' = IF token = {} THEN [base EXCEPT ![Target] = Remaining] ELSE base
    PROVE  /\ Target \in todo /\ Target \in Targets
           /\ Remaining \subseteq Objects
           /\ base' \in [Targets -> SUBSET Objects]
           /\ items \cup Remaining = base'[Target]
           /\ Remaining \cap seen = {}
           /\ \A t \in Targets : t # Target => base'[t] = base[t]
           /\ \A t \in Targets : \A o \in base'[t] : Home[o] = t
<1>1. Target \in todo /\ Target \in Targets
  BY TargetLeft DEF TypeOK
<1>2. Remaining \subseteq Objects /\ base' \in [Targets -> SUBSET Objects]
  BY <1>1 DEF Remaining, TypeOK
<1>3. \A t \in Targets : t # Target => base'[t] = base[t]
  BY <1>1 DEF TypeOK
<1>4. /\ items \cup Remaining = base'[Target] /\ items \cap Remaining = {}
      /\ \A o \in Remaining : Home[o] = Target
  <2>1. CASE token = {}
    <3>1. items = {} /\ base'[Target] = Remaining
      BY <1>1, <2>1 DEF Reading, TypeOK
    <3>2. \A o \in Remaining : Home[o] = Target
      BY <2>1 DEF Remaining
    <3> QED BY <3>1, <3>2
  <2>2. CASE token # {}
    <3>1. PICK rest \in token : TRUE
      BY <2>2
    <3>2. /\ token = {rest} /\ items \cup rest = base[Target] /\ items \cap rest = {}
      BY <3>1 DEF Reading
    <3>3. Remaining = rest /\ base' = base
      BY <2>2, <3>2 DEF Remaining
    <3>4. \A o \in base[Target] : Home[o] = Target
      BY <1>1 DEF Reading
    <3> QED BY <3>2, <3>3, <3>4
  <2> QED BY <2>1, <2>2
<1>5. \A o \in collected : Home[o] # Target
  BY <1>1 DEF Reading
<1>6. Remaining \cap seen = {}
  BY <1>4, <1>5 DEF Reading
<1>7. \A t \in Targets : \A o \in base'[t] : Home[o] = t
  <2>1. \A o \in items : Home[o] = Target
    <3>1. CASE token = {}
      BY <3>1 DEF Reading
    <3>2. CASE token # {}
      BY <1>1, <3>2 DEF Reading
    <3> QED BY <3>1, <3>2
  <2>2. \A o \in base'[Target] : Home[o] = Target
    BY <1>4, <2>1
  <2> QED BY <1>3, <2>2 DEF Reading
<1> QED BY <1>1, <1>2, <1>3, <1>4, <1>6, <1>7

(* A page that fits: what came stays apart from what is left, and a         *)
(* finished target is collected as its list began.                          *)
LEMMA PageProgress ==
    ASSUME TypeOK, Covered, Progress, ReceivePage
    PROVE  /\ Progress'
           /\ seen' \subseteq Objects /\ Cardinality(seen') <= MaxResources
           /\ bytes' \in 0 .. MaxInputBytes
           /\ items' \subseteq Objects /\ collected' \subseteq Objects
           /\ token' \subseteq SUBSET Objects
           /\ todo' \subseteq todo /\ restarted' \in BOOLEAN
           /\ base' \in [Targets -> SUBSET Objects]
<1>1. pc = "receive" /\ todo # {} /\ Reading /\ outcome = "pending"
  BY DEF ReceivePage, Covered, Progress, Bound
<1>2. base' = IF token = {} THEN [base EXCEPT ![Target] = Remaining] ELSE base
  BY DEF ReceivePage
<1> DEFINE T == Target
           R == Remaining
<1>3. /\ T \in todo /\ T \in Targets /\ R \subseteq Objects
      /\ base' \in [Targets -> SUBSET Objects]
      /\ items \cup R = base'[T] /\ R \cap seen = {}
      /\ \A t \in Targets : t # T => base'[t] = base[t]
      /\ \A t \in Targets : \A o \in base'[t] : Home[o] = t
  BY <1>1, <1>2, AnswerSplits
<1>4. PICK page \in Pages :
        LET new  == page \ seen
            rest == R \ page
        IN  /\ ~Exceeds(new)
            /\ seen' = seen \cup new /\ bytes' = bytes + Bytes(new)
            /\ IF rest = {}
               THEN /\ collected' = collected \cup items \cup new
                    /\ todo' = todo \ {T}
                    /\ token' = {} /\ items' = {} /\ restarted' = FALSE
               ELSE /\ items' = items \cup new
                    /\ token' = {rest}
                    /\ UNCHANGED <<collected, todo, restarted>>
            /\ pc' = Loop(rest)
  BY DEF ReceivePage
<1>5. page \subseteq R /\ page \ seen = page /\ page \cap seen = {} /\ page \subseteq Objects
  BY <1>3, <1>4 DEF Pages
<1>6. /\ ~Exceeds(page) /\ seen' = seen \cup page /\ bytes' = bytes + Bytes(page)
      /\ pc' = "context" /\ outcome' = "pending"
  BY <1>1, <1>4, <1>5 DEF Loop, ReceivePage
<1>7. seen = collected \cup items /\ bytes = Bytes(seen) /\ seen \subseteq Objects
      /\ items \subseteq Objects /\ collected \subseteq Objects
  BY <1>1 DEF Reading, TypeOK
<1>8. /\ Bytes(seen) \in Nat /\ Bytes(page) \in Nat
      /\ Bytes(seen \cup page) = Bytes(seen) + Bytes(page)
      /\ Cardinality(seen) \in Nat /\ Cardinality(page) \in Nat
      /\ Cardinality(seen \cup page) = Cardinality(seen) + Cardinality(page)
  BY <1>5, <1>7, BytesAdd
<1>9. /\ seen' \subseteq Objects /\ Cardinality(seen') <= MaxResources
      /\ bytes' \in 0 .. MaxInputBytes /\ bytes' = Bytes(seen')
  <2>1. /\ ~(Cardinality(seen) + Cardinality(page) > MaxResources)
        /\ ~(bytes + Bytes(page) > MaxInputBytes)
    BY <1>6 DEF Exceeds
  <2>2. MaxResources \in Nat /\ MaxInputBytes \in Nat
    BY SelectionAssumption
  <2>3. Cardinality(seen') <= MaxResources
    BY <1>6, <1>8, <2>1, <2>2
  <2>4. bytes' \in Nat /\ bytes' <= MaxInputBytes
    BY <1>6, <1>7, <1>8, <2>1, <2>2
  <2>5. bytes' = Bytes(seen')
    BY <1>6, <1>7, <1>8
  <2> QED BY <1>5, <1>6, <1>7, <2>2, <2>3, <2>4, <2>5
<1>10. \A u \in todo : u # T => base'[u] = {}
  BY <1>1, <1>3 DEF Reading, TypeOK
<1>11. UNION {base'[t] : t \in Targets \ todo} = collected
  <2>1. \A t \in Targets \ todo : base'[t] = base[t]
    BY <1>3
  <2> QED BY <1>1, <2>1 DEF Reading
<1>12. Bytes(seen)' = Bytes(seen')
  BY DEF Bytes
<1>13. /\ Reading'
       /\ items' \subseteq Objects /\ collected' \subseteq Objects
       /\ token' \subseteq SUBSET Objects
       /\ todo' \subseteq todo /\ restarted' \in BOOLEAN
  <2>1. CASE R \ page = {}
    <3>1. /\ collected' = collected \cup items \cup page
          /\ todo' = todo \ {T} /\ token' = {} /\ items' = {} /\ restarted' = FALSE
      BY <1>4, <1>5, <2>1
    <3>2. items \cup page = base'[T]
      BY <1>3, <1>5, <2>1
    <3>3. collected' = UNION {base'[t] : t \in Targets \ todo'}
      <4>1. Targets \ todo' = (Targets \ todo) \cup {T}
        BY <1>3, <3>1
      <4>2. UNION {base'[t] : t \in (Targets \ todo) \cup {T}}
              = (UNION {base'[t] : t \in Targets \ todo}) \cup base'[T]
        OBVIOUS
      <4> QED BY <1>11, <3>1, <3>2, <4>1, <4>2
    <3>4. \A u \in todo' : base'[u] = {}
      BY <1>10, <3>1
    <3>5. seen' = collected' \cup items'
      BY <1>6, <1>7, <3>1
    <3> QED BY <1>3, <1>5, <1>7, <1>9, <1>12, <3>1, <3>3, <3>4, <3>5 DEF Reading
  <2>2. CASE R \ page # {}
    <3> DEFINE rest == R \ page
    <3>1. /\ items' = items \cup page /\ token' = {rest}
          /\ collected' = collected /\ todo' = todo /\ restarted' = restarted
      BY <1>4, <1>5, <2>2
    <3>2. T' = T
      BY <3>1 DEF Target
    <3>3. items' \cup rest = base'[T] /\ items' \cap rest = {}
      <4>1. R \cap items = {}
        BY <1>3, <1>7
      <4> QED BY <1>3, <1>5, <3>1, <4>1
    <3>4. seen' = collected' \cup items'
      BY <1>6, <1>7, <3>1
    <3>5. rest # {} /\ rest \subseteq Objects /\ todo' # {}
      BY <1>1, <1>3, <2>2, <3>1
    <3>6. collected' = UNION {base'[t] : t \in Targets \ todo'}
      BY <1>11, <3>1
    <3>7. \A u \in todo' : u # T' => base'[u] = {}
      BY <1>10, <3>1, <3>2
    <3>8. token' # {} /\ \A r \in token' : r = rest
      BY <3>1
    <3>9. /\ items' \subseteq Objects /\ collected' \subseteq Objects
          /\ token' \subseteq SUBSET Objects /\ restarted' \in BOOLEAN
      BY <1>5, <1>7, <3>1, <3>5 DEF TypeOK
    <3> HIDE DEF rest, T, R
    <3>10. Reading'
      BY <1>3, <1>9, <1>12, <3>1, <3>2, <3>3, <3>4, <3>5, <3>6, <3>7, <3>8 DEF Reading, T
    <3> QED BY <3>1, <3>9, <3>10
  <2> QED BY <2>1, <2>2
<1>14. Progress'
  BY <1>6, <1>13 DEF Progress, Bound, SourceAtomic, CeilingsExact
<1> QED BY <1>3, <1>9, <1>13, <1>14

(* A page that does not fit: the lists themselves exceed a ceiling.         *)
LEMMA TooMuchProgress ==
    ASSUME TypeOK, Covered, Progress, ReceiveTooMuch
    PROVE  Progress' /\ base' \in [Targets -> SUBSET Objects]
<1>1. pc = "receive" /\ todo # {} /\ Reading
  BY DEF ReceiveTooMuch, Covered, Progress, Bound
<1>2. /\ base' = IF token = {} THEN [base EXCEPT ![Target] = Remaining] ELSE base
      /\ pc' = "done" /\ outcome' = "SelectionLimitExceeded" /\ collected' = {}
  BY DEF ReceiveTooMuch
<1>3. /\ Target \in todo /\ Target \in Targets /\ Remaining \subseteq Objects
      /\ base' \in [Targets -> SUBSET Objects]
      /\ items \cup Remaining = base'[Target] /\ Remaining \cap seen = {}
      /\ \A t \in Targets : t # Target => base'[t] = base[t]
  BY <1>1, <1>2, AnswerSplits
<1>4. PICK page \in Pages : Exceeds(page \ seen)
  BY DEF ReceiveTooMuch
<1>5. page \subseteq Remaining /\ page \ seen = page /\ page \cap seen = {} /\ page \subseteq Objects
  BY <1>3, <1>4 DEF Pages
<1>6. seen \subseteq Objects /\ bytes = Bytes(seen) /\ seen = collected \cup items
  BY <1>1 DEF Reading, TypeOK
<1> DEFINE F == UNION {base'[t] : t \in Targets}
<1>7. seen \cup page \subseteq F /\ F \subseteq Objects
  <2>1. collected \subseteq F
    BY <1>1, <1>3 DEF Reading
  <2>2. items \cup page \subseteq F
    BY <1>3, <1>5
  <2> QED BY <1>3, <1>6, <2>1, <2>2
<1>8. /\ Bytes(seen) \in Nat /\ Bytes(page) \in Nat
      /\ Bytes(seen \cup page) = Bytes(seen) + Bytes(page)
      /\ Cardinality(seen) \in Nat /\ Cardinality(page) \in Nat
      /\ Cardinality(seen \cup page) = Cardinality(seen) + Cardinality(page)
  BY <1>5, <1>6, BytesAdd
<1>9. /\ Bytes(F) \in Nat /\ Bytes(seen \cup page) <= Bytes(F)
      /\ Cardinality(F) \in Nat /\ Cardinality(seen \cup page) <= Cardinality(F)
  <2> HIDE DEF F
  <2> QED BY <1>7, BytesGrow
<1>10. Cardinality(F) > MaxResources \/ Bytes(F) > MaxInputBytes
  <2>1. \/ Cardinality(seen) + Cardinality(page) > MaxResources
        \/ Bytes(seen) + Bytes(page) > MaxInputBytes
    BY <1>4, <1>5, <1>6 DEF Exceeds
  <2>2. MaxResources \in Nat /\ MaxInputBytes \in Nat
    BY SelectionAssumption
  <2> HIDE DEF F
  <2> QED BY <1>8, <1>9, <2>1, <2>2
<1>11. Fresh' = F /\ Bytes(Fresh)' = Bytes(F)
  BY DEF Fresh, Bytes
<1>12. CeilingsExact'
  <2> HIDE DEF F
  <2> QED BY <1>2, <1>10, <1>11 DEF CeilingsExact
<1>13. SourceAtomic'
  BY <1>2 DEF SourceAtomic
<1> QED BY <1>2, <1>3, <1>12, <1>13 DEF Progress, Bound

(* A list that starts over gives back exactly what it had put in.           *)
LEMMA RestartProgress ==
    ASSUME TypeOK, Covered, Progress, ReceiveExpired, ~restarted
    PROVE  /\ Progress'
           /\ seen' \subseteq seen /\ Cardinality(seen') <= MaxResources
           /\ bytes' \in 0 .. MaxInputBytes
<1>1. /\ pc = "receive" /\ todo # {} /\ Reading /\ outcome = "pending"
  BY DEF ReceiveExpired, Covered, Progress, Bound
<1>2. /\ seen' = seen \ items /\ bytes' = bytes - Bytes(items)
      /\ items' = {} /\ token' = {} /\ pc' = "context"
      /\ todo' = todo /\ collected' = collected /\ outcome' = outcome /\ base' = base
  BY DEF ReceiveExpired, Restart, ghosts
<1>3. collected \cap items = {}
  <2>1. CASE token = {}
    BY <1>1, <2>1 DEF Reading
  <2>2. CASE token # {}
    <3>1. Target \in todo /\ items \subseteq base[Target]
      BY <1>1, <2>2, TargetLeft DEF Reading, TypeOK
    <3>2. \A o \in items : Home[o] = Target
      BY <1>1, <3>1 DEF Reading, TypeOK
    <3>3. \A o \in collected : Home[o] # Target
      BY <1>1, <3>1 DEF Reading
    <3> QED BY <3>2, <3>3
  <2> QED BY <2>1, <2>2
<1>4. seen' = collected /\ seen = collected \cup items
  BY <1>1, <1>2, <1>3 DEF Reading
<1>5. /\ Bytes(collected) \in Nat /\ Bytes(items) \in Nat
      /\ Bytes(collected \cup items) = Bytes(collected) + Bytes(items)
      /\ Cardinality(collected) \in Nat /\ Cardinality(items) \in Nat
      /\ Cardinality(collected \cup items) = Cardinality(collected) + Cardinality(items)
  BY <1>3, BytesAdd DEF TypeOK
<1>6. bytes = Bytes(collected) + Bytes(items) /\ bytes <= MaxInputBytes
      /\ Cardinality(collected) + Cardinality(items) <= MaxResources
  BY <1>1, <1>4, <1>5 DEF Reading, TypeOK
<1>7. bytes' = Bytes(collected)
  BY <1>2, <1>5, <1>6
<1>8. bytes' \in 0 .. MaxInputBytes /\ Cardinality(seen') <= MaxResources
  <2>1. MaxResources \in Nat /\ MaxInputBytes \in Nat
    BY SelectionAssumption
  <2> QED BY <1>4, <1>5, <1>6, <1>7, <2>1
<1>9. Target' = Target
  BY <1>2 DEF Target
<1>10. Bytes(seen)' = Bytes(collected)
  BY <1>4 DEF Bytes
<1>11. Reading'
  BY <1>1, <1>2, <1>4, <1>7, <1>9, <1>10 DEF Reading
<1> QED BY <1>1, <1>2, <1>4, <1>8, <1>11 DEF Progress, Bound, SourceAtomic, CeilingsExact

(* A loaded policy is a policy.                                             *)
LEMMA LoadTyped ==
    ASSUME NEW read, NEW p \in Policies
    PROVE  LoadWithValidation(read, p, TRUE).policy \subseteq PolicyObject
<1>1. CASE read = "failed" \/ p = {}
  BY <1>1 DEF LoadWithValidation, DenyAll
<1>2. CASE read # "failed" /\ p # {}
  <2> DEFINE q == CHOOSE q \in p : TRUE
  <2>1. q \in PolicyObject
    BY <1>2, SelectionAssumption
  <2> HIDE DEF q
  <2>2. SystemOf(q) \subseteq Namespaces
    BY <2>1, PolicyAssumption DEF SystemOf, PolicyObject
  <2>3. Compile(q) \in PolicyObject
    BY <2>1, <2>2 DEF Compile, PolicyObject
  <2>4. LoadWithValidation(read, p, TRUE) \in
          {DenyAll("PolicyInvalid"), [terminal |-> "", policy |-> {Compile(q)}]}
    BY <1>2 DEF LoadWithValidation, q
  <2>5. DenyAll("PolicyInvalid").policy = {}
    BY DEF DenyAll
  <2>6. [terminal |-> "", policy |-> {Compile(q)}].policy = {Compile(q)}
    OBVIOUS
  <2>7. CASE LoadWithValidation(read, p, TRUE) = DenyAll("PolicyInvalid")
    BY <2>5, <2>7
  <2>8. CASE LoadWithValidation(read, p, TRUE) = [terminal |-> "", policy |-> {Compile(q)}]
    BY <2>3, <2>6, <2>8
  <2> QED BY <2>4, <2>7, <2>8
<1> QED BY <1>1, <1>2

(* The end of an attempt has one of the reasons.                            *)
LEMMA FinishTyped ==
    ASSUME NEW reason \in Reasons \cup {"ok"}, TypeOK, Finish(reason)
    PROVE  TypeOK'
<1>1. /\ pc' = "done" /\ outcome' = reason /\ collected' \in {collected, {}}
      /\ UNCHANGED <<policy, source, objects, churned, done, current, snapshot, todo, token,
                     restarted, items, seen, bytes, base, listed, late>>
  BY DEF Finish, inputs, cluster, lease, budget, ghosts
<1> QED BY <1>1 DEF TypeOK, Steps

(* Going from one check to the next.                                        *)
LEMMA GotoTyped ==
    ASSUME NEW step \in Steps, TypeOK, Goto(step)
    PROVE  TypeOK'
BY DEF Goto, TypeOK, inputs, cluster, lease, budget, ghosts

(* What listTarget reports when it fails.                                   *)
LEMMA ErrorReasons ==
    ASSUME NEW error \in ListErrors
    PROVE  MapListError(error) \in Reasons \ {"SelectionLimitExceeded"}
BY DEF ListErrors, MapListError, Reasons

(* The inductive invariant of the reads.                                    *)
ReadInv == TypeOK /\ Covered /\ Progress

(* The end of an attempt that fails for another reason than its size.       *)
LEMMA FinishReads ==
    ASSUME NEW reason \in Reasons, reason # "SelectionLimitExceeded", ReadInv, Finish(reason)
    PROVE  TypeOK' /\ Progress'
<1>1. reason # "ok"
  BY DEF Reasons
<1> QED BY <1>1, FinishTyped, FailProgress DEF ReadInv

(* The checks change no read.                                               *)
LEMMA GotoReads ==
    ASSUME NEW step \in Bound, ReadInv, pc \in Bound, Goto(step)
    PROVE  TypeOK' /\ Progress'
<1>1. step \in Steps /\ pc # "done" /\ step # "done"
      /\ step \notin {"load", "plan", "authorize"}
  BY DEF Bound, Steps
<1>2. UNCHANGED <<reads, outcome>> /\ pc' = step
  BY DEF Goto, reads, budget, ghosts
<1> QED BY <1>1, <1>2, GotoTyped, QuietProgress DEF ReadInv

(* The targets of a plan, and what changes when it is bound.                *)
LEMMA BindingReads ==
    ASSUME ReadInv, Load \/ Plan \/ PlanFails \/ Authorize \/ Abandon
    PROVE  TypeOK' /\ Progress'
<1>1. CASE Load
  <2>1. /\ UNCHANGED <<reads, outcome>> /\ pc = "load" /\ pc' = "plan"
        /\ UNCHANGED <<policy, source, objects, churned, done, current, restarted, listed, late>>
    BY <1>1 DEF Load, reads, inputs, cluster, lease, budget, ghosts
  <2>2. snapshot'.policy \subseteq PolicyObject
    BY <1>1, LoadTyped DEF Load, ReadInv, TypeOK
  <2>3. TypeOK'
    BY <2>1, <2>2 DEF ReadInv, TypeOK, Steps, reads
  <2> QED BY <2>1, <2>3, QuietProgress DEF ReadInv, Bound
<1>2. CASE Plan
  <2>1. /\ UNCHANGED <<token, items, collected, seen, bytes, base, outcome>>
        /\ pc = "plan" /\ pc' = "authorize" /\ todo' = DeriveTargets(source)
        /\ UNCHANGED <<policy, source, objects, churned, done, current, snapshot, restarted,
                       listed, late>>
        /\ PlanReason(source) = ""
    BY <1>2 DEF Plan, inputs, cluster, lease, budget, ghosts
  <2>2. todo' \subseteq Targets
    BY <2>1, TargetsDerived DEF ReadInv, TypeOK
  <2>3. TypeOK'
    BY <2>1, <2>2 DEF ReadInv, TypeOK, Steps
  <2>4. Unread' /\ outcome' = "pending"
    BY <2>1 DEF ReadInv, Progress, Unread
  <2> QED BY <2>1, <2>3, <2>4 DEF Progress, Bound, SourceAtomic, CeilingsExact
<1>3. CASE PlanFails
  <2>1. PICK reason \in {"Discovery", "InvalidSelector", "InvalidNamespaceScope"} : Finish(reason)
    BY <1>3 DEF PlanFails, PlanReason
  <2> QED BY <2>1, FinishReads DEF Reasons
<1>4. CASE Authorize
  <2>1. CASE todo \subseteq Capabilities
    <3>1. /\ UNCHANGED <<reads, outcome>> /\ pc = "authorize" /\ pc' = "execute"
          /\ UNCHANGED <<policy, source, objects, churned, done, current, snapshot, restarted,
                         listed, late>>
      BY <1>4, <2>1 DEF Authorize, reads, inputs, cluster, lease, budget, ghosts
    <3>2. TypeOK'
      BY <3>1 DEF ReadInv, TypeOK, Steps, reads
    <3>3. Unread' /\ outcome' = "pending"
      BY <3>1 DEF ReadInv, Progress, Unread, reads
    <3>4. Bytes({})' = 0
      <4>1. Encoding({}) = {}
        BY DEF Encoding
      <4>2. Cardinality({}) = 0
        BY FS_EmptySet
      <4> QED BY <4>1, <4>2 DEF Bytes, Encoding
    <3>5. UNION {base'[t] : t \in Targets \ todo'} = {}
      BY <3>3 DEF Unread
    <3>6. todo' \subseteq Targets
      BY <3>2 DEF TypeOK
    <3>7. Reading'
      BY <3>3, <3>4, <3>5, <3>6 DEF Unread, Reading
    <3> QED BY <3>1, <3>2, <3>3, <3>7 DEF Progress, Bound, SourceAtomic, CeilingsExact
  <2>2. CASE ~(todo \subseteq Capabilities)
    BY <1>4, <2>2, FinishReads DEF Authorize, Reasons
  <2> QED BY <2>1, <2>2
<1>5. CASE Abandon
  BY <1>5, FinishReads DEF Abandon, Reasons
<1> QED BY <1>1, <1>2, <1>3, <1>4, <1>5

(* The answers to a request.                                                *)
LEMMA AnswerReads ==
    ASSUME ReadInv, ReceivePage \/ ReceiveTooMuch \/ ReceiveExpired \/ ReceiveError
    PROVE  TypeOK' /\ Progress'
<1>1. CASE ReceivePage
  <2>1. /\ Progress'
        /\ seen' \subseteq Objects /\ Cardinality(seen') <= MaxResources
        /\ bytes' \in 0 .. MaxInputBytes
        /\ items' \subseteq Objects /\ collected' \subseteq Objects
        /\ token' \subseteq SUBSET Objects
        /\ todo' \subseteq todo /\ restarted' \in BOOLEAN
        /\ base' \in [Targets -> SUBSET Objects]
    BY <1>1, PageProgress DEF ReadInv
  <2>2. /\ pc' = "context"
        /\ UNCHANGED <<policy, source, objects, churned, done, current, snapshot, outcome,
                       listed, late>>
    BY <1>1 DEF ReceivePage, Loop, inputs, cluster, lease
  <2> QED BY <2>1, <2>2 DEF ReadInv, TypeOK, Steps
<1>2. CASE ReceiveTooMuch
  <2>1. Progress' /\ base' \in [Targets -> SUBSET Objects]
    BY <1>2, TooMuchProgress DEF ReadInv
  <2>2. /\ pc' = "done" /\ outcome' = "SelectionLimitExceeded" /\ collected' = {}
        /\ UNCHANGED <<policy, source, objects, churned, done, current, snapshot, todo, token,
                       restarted, items, seen, bytes, listed, late>>
    BY <1>2 DEF ReceiveTooMuch, inputs, cluster, lease, budget
  <2> QED BY <2>1, <2>2 DEF ReadInv, TypeOK, Steps, Reasons
<1>3. CASE ReceiveExpired
  <2>1. CASE restarted
    BY <1>3, <2>1, FinishReads DEF ReceiveExpired, Reasons
  <2>2. CASE ~restarted
    <3>1. /\ Progress' /\ seen' \subseteq seen /\ Cardinality(seen') <= MaxResources
          /\ bytes' \in 0 .. MaxInputBytes
      BY <1>3, <2>2, RestartProgress DEF ReadInv
    <3>2. /\ pc' = "context" /\ items' = {} /\ token' = {} /\ restarted' = TRUE
          /\ UNCHANGED <<policy, source, objects, churned, done, current, snapshot, todo,
                         collected, outcome, base, listed, late>>
      BY <1>3, <2>2 DEF ReceiveExpired, Restart, inputs, cluster, lease, ghosts
    <3> QED BY <3>1, <3>2 DEF ReadInv, TypeOK, Steps
  <2> QED BY <2>1, <2>2
<1>4. CASE ReceiveError
  <2>1. PICK reason \in Reasons \ {"SelectionLimitExceeded"} : Finish(reason)
    BY <1>4, ErrorReasons DEF ReceiveError, Reasons
  <2> QED BY <2>1, FinishReads
<1> QED BY <1>1, <1>2, <1>3, <1>4

(* Every step keeps the invariant of the reads.                             *)
LEMMA StepReads ==
    ASSUME ReadInv, [Next]_vars
    PROVE  ReadInv'
<1>0. Covered'
  BY StepCovered DEF ReadInv
<1>1. CASE Load \/ Plan \/ PlanFails \/ Authorize \/ Abandon
  BY <1>0, <1>1, BindingReads DEF ReadInv
<1>2. CASE ReceivePage \/ ReceiveTooMuch \/ ReceiveExpired \/ ReceiveError
  BY <1>0, <1>2, AnswerReads DEF ReadInv
<1>3. CASE Execute
  BY <1>0, <1>3, GotoReads DEF Execute, Bound, ReadInv
<1>4. CASE CheckContext
  BY <1>0, <1>4, GotoReads, FinishReads DEF CheckContext, Bound, Reasons, ReadInv
<1>5. CASE CheckCapability
  BY <1>0, <1>5, GotoReads, FinishReads DEF CheckCapability, Bound, Reasons, ReadInv
<1>6. CASE AdapterContext
  BY <1>0, <1>6, GotoReads, FinishReads DEF AdapterContext, Bound, Reasons, ReadInv
<1>7. CASE AdapterCapability
  BY <1>0, <1>7, GotoReads, FinishReads DEF AdapterCapability, Bound, Reasons, ReadInv
<1>8. CASE Send
  <2>1. /\ pc = "send" /\ pc' = "receive" /\ UNCHANGED <<reads, outcome>>
        /\ UNCHANGED <<policy, source, objects, churned, done, current, snapshot, restarted>>
        /\ listed' = listed \cup {Target} /\ late' \in {late, late + 1}
    BY <1>8 DEF Send, reads, inputs, cluster, lease, budget, ReadInv, TypeOK
  <2>2. Target \in todo
    BY <2>1, TargetLeft DEF ReadInv, Covered, TypeOK
  <2>3. late' \in Nat
    BY <2>1 DEF ReadInv, TypeOK
  <2>4. TypeOK'
    BY <2>1, <2>2, <2>3 DEF ReadInv, TypeOK, Steps, reads
  <2> QED BY <1>0, <2>1, <2>4, QuietProgress DEF ReadInv, Bound
<1>9. CASE Listed
  <2>1. TypeOK'
    BY <1>9, FinishTyped DEF Listed, ReadInv
  <2> QED BY <1>0, <1>9, <2>1, ListedProgress DEF ReadInv
<1>10. CASE Revoke \/ Expire \/ Churn
  <2>1. /\ UNCHANGED <<reads, outcome, pc>> /\ pc # "done"
        /\ UNCHANGED <<policy, source, snapshot, restarted, listed, late>>
    BY <1>10 DEF Revoke, Expire, Churn, reads, inputs, cluster, lease, budget, ghosts
  <2>2. /\ objects' \subseteq Objects /\ churned' \in 0 .. MaxChurn
        /\ done' \in BOOLEAN /\ current' \in BOOLEAN
    <3>1. CASE Revoke \/ Expire
      BY <3>1 DEF Revoke, Expire, cluster, ReadInv, TypeOK
    <3>2. CASE Churn
      BY <3>2, SelectionAssumption DEF Churn, lease, ReadInv, TypeOK
    <3> QED BY <1>10, <3>1, <3>2
  <2>3. TypeOK'
    BY <2>1, <2>2 DEF ReadInv, TypeOK, reads
  <2> QED BY <1>0, <2>1, <2>3, QuietProgress DEF ReadInv
<1>11. CASE UNCHANGED vars
  <2>1. /\ UNCHANGED <<reads, outcome, pc>>
        /\ UNCHANGED <<policy, source, objects, churned, done, current, snapshot, restarted,
                       listed, late>>
    BY <1>11 DEF vars, reads, inputs, cluster, lease, budget, ghosts
  <2>2. TypeOK'
    BY <2>1 DEF ReadInv, TypeOK, reads
  <2>3. (Unread => Unread') /\ (Reading => Reading')
    BY <2>1 DEF Unread, Reading, reads, Target, Bytes
  <2>4. (SourceAtomic => SourceAtomic') /\ (CeilingsExact => CeilingsExact')
    BY <2>1 DEF SourceAtomic, CeilingsExact, Fresh, Bytes, reads
  <2> QED BY <1>0, <2>1, <2>2, <2>3, <2>4 DEF ReadInv, Progress
<1> QED
  BY <1>1, <1>2, <1>3, <1>4, <1>5, <1>6, <1>7, <1>8, <1>9, <1>10, <1>11 DEF Next, Step

(* So it holds in every reachable state.                                    *)
LEMMA SpecReads == Spec => []ReadInv
<1>1. Init => ReadInv
  <2> SUFFICES ASSUME Init PROVE ReadInv
    OBVIOUS
  <2>1. Covered
    BY DEF Init, Covered, Loaded, Bound, DenyAll, OnlyPermittedReads
  <2>2. Progress
    BY DEF Init, Progress, Bound, Unread, SourceAtomic, CeilingsExact
  <2>3. Cardinality(seen) = 0 /\ 0 <= MaxResources /\ 0 \in 0 .. MaxInputBytes
        /\ 0 \in 0 .. MaxChurn
    BY FS_EmptySet, SelectionAssumption DEF Init
  <2>4. TypeOK
    BY <2>3 DEF Init, TypeOK, Steps, DenyAll
  <2> QED BY <2>1, <2>2, <2>4 DEF ReadInv
<1>2. ReadInv /\ [Next]_vars => ReadInv'
  BY StepReads
<1> QED
  BY <1>1, <1>2, PTL DEF Spec

(* Type correctness, the budget included: it never holds more resources or  *)
(* bytes than its ceilings, nor fewer than none.                            *)
THEOREM TypeCorrect == Spec => []TypeOK
<1>1. ReadInv => TypeOK
  BY DEF ReadInv
<1> QED
  BY <1>1, SpecReads, PTL

(* Whatever pages, expired tokens and changes of the cluster come between,  *)
(* a source that is read is each target as its last list began, and one     *)
(* that fails keeps nothing (Execute, listTarget).                          *)
THEOREM SourceIsAtomic == Spec => []SourceAtomic
<1>1. ReadInv => SourceAtomic
  BY DEF ReadInv, Progress
<1> QED
  BY <1>1, SpecReads, PTL

(* The ceilings refuse a source exactly when its lists exceed them: what a  *)
(* restarted list had counted is given back (selectionBudget).              *)
THEOREM CeilingsAreExact == Spec => []CeilingsExact
<1>1. ReadInv => CeilingsExact
  BY DEF ReadInv, Progress
<1> QED
  BY <1>1, SpecReads, PTL
=============================================================================
