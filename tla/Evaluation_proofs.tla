-------------------------- MODULE Evaluation_proofs -------------------------
(***************************************************************************)
(* Evaluation for every Facet, policy, cluster and profile of limits: what  *)
(* the steps leave for one another, that a status which blames something    *)
(* that may pass is left by an attempt that is repeated, that what the      *)
(* webhook admits the runtime accepts, that a status which reports Ready    *)
(* hides nothing, that transition times move exactly with the conditions,   *)
(* that what is written fits its limit, and that averages are rounded as    *)
(* their mode says.                                                         *)
(***************************************************************************)
EXTENDS Evaluation, NaturalSets

(***************************************************************************)
(* The inductive invariant.                                                 *)
(***************************************************************************)

(* Before an attempt has assessed its sources.                              *)
Early == {"stopped", "idle", "validate"}

(* What may pass by itself.                                                 *)
Passing == {"EvaluationTimedOut", "ReadUnavailable", "ListExpired"}

Configurations == {"accepted", "invalid"}

Authorizations ==
    {"allowed", "policy-missing", "policy-invalid", "unavailable", "denied", "not-evaluated",
     "read-forbidden"}

Resolutions == {"not-evaluated", "unavailable", "failed", "resolved"}

PlanErrors ==
    {"", "InvalidSource", "InvalidSelector", "InvalidNamespaceScope", "AuthorizationDenied"}

Assessment ==
    [configuration : Configurations, authorization : Authorizations,
     resolution : Resolutions]

Entry == [assessment : Assessment, err : PlanErrors, canExecute : BOOLEAN]

(* What LoadWithValidation has made of the policy.                          *)
Loaded == snapshot.terminal \in {"", "PolicyUnavailable", "PolicyMissing", "PolicyInvalid"}

Unavailable == snapshot.terminal = "PolicyUnavailable"

(* The control: which step may follow which, and what it finds.             *)
Control ==
    /\ pc \in Steps /\ outcome \in {"none", "done", "error"}
    /\ facet \in 0 .. Len(Facets) /\ policy \in 1 .. Len(Policies) /\ world \in 1 .. Len(Worlds)
    /\ expired \in BOOLEAN /\ onLease \in BOOLEAN
    /\ retryable \in BOOLEAN /\ published \in BOOLEAN
    /\ terminal \in {"result", "budget"}
    /\ attempts \in Nat /\ writes \in Nat /\ writes <= attempts
    /\ Running => writes < attempts /\ ~published /\ facet # 0
    /\ published => facet # 0

(* The loops over the sources.                                              *)
Loops ==
    /\ pc \in Early => completed = {} /\ ~retryable /\ terminal = "result" /\ snapshot = NoSnapshot
    /\ pc \in {"load", "plan", "routes"} => completed = {}
    /\ pc = "load" => ~retryable
    /\ pc \in {"load", "plan", "read", "evaluate"} => Sources # <<>>
    /\ pc \in {"plan", "read", "evaluate"} => index \in DOMAIN Sources
    /\ pc \in {"read", "evaluate"} => completed = 1 .. (index - 1)
    /\ pc = "compose" => completed = DOMAIN Sources
    /\ completed \subseteq DOMAIN Sources
    /\ pc \notin Early =>
          /\ planned \in Seq(Entry) /\ Len(planned) = Len(Sources)
          /\ DOMAIN selected = DOMAIN Sources /\ DOMAIN results = DOMAIN Sources

(* What the webhook has admitted.                                           *)
Valid(sources) ==
    \A s \in ToSet(sources) :
        ConfigurationOutcome(s) = "accepted" /\ s.descriptor /\ PlanReason(s) = ""

Webhook ==
    /\ admitted # {} => facet # 0 /\ Valid(Sources)
    /\ \A p \in admitted : WithinBudgets(Sources, p)
    /\ terminal = "budget" =>
          pc = "publish" /\ retryable /\ ~WithinBudgets(Sources, profile)
    /\ admitted # {} /\ pc \notin Early =>
          \A i \in DOMAIN Sources : planned[i].assessment.configuration = "accepted"

(* What an attempt has met that may pass makes it return an error.          *)
Blame(i) ==
    /\ planned[i].assessment.authorization = "unavailable" => retryable
    /\ planned[i].assessment.resolution = "unavailable" => retryable
    /\ selected[i].err \in Passing => retryable
    /\ results[i].err \in Passing => retryable

Blames ==
    /\ Unavailable => retryable
    /\ pc \notin Early => \A i \in DOMAIN Sources : Blame(i)

(* A source's result, and the status, are records.                          *)
IsResult(s) ==
    s = [err |-> s.err, fieldErrors |-> s.fieldErrors, resources |-> s.resources,
         aggregates |-> s.aggregates]

IsStatus(s) ==
    /\ s = [generation |-> s.generation, conditions |-> s.conditions, result |-> s.result,
            summary |-> s.summary]
    /\ IsList(s.conditions)

Records ==
    /\ IsStatus(status)
    /\ Loaded
    /\ pc \notin Early => \A i \in DOMAIN Sources :
          /\ IsResult(results[i])
          /\ selected[i] = [err |-> selected[i].err, resources |-> selected[i].resources]
          /\ IsList(selected[i].resources)
          /\ planned[i].canExecute => Sources[i].kind \in Served

(* The whole: the steps of an attempt find what they need, and the status   *)
(* is what the properties ask.                                              *)
Inv == Control /\ Loops /\ Webhook /\ Blames /\ Records /\
       TransientIsRetried /\ AdmittedIsAccepted

(***************************************************************************)
(* Sequences.                                                               *)
(***************************************************************************)

(* Min is one of the numbers it is taken of, and the least.                 *)
LEMMA MinIsLeast ==
    ASSUME NEW S, S \subseteq Nat, S # {}
    PROVE  Min(S) \in S /\ \A y \in S : Min(S) <= y
<1>1. \E x \in S : \A y \in S : x <= y
  BY LeastNatural
<1> QED BY <1>1 DEF Min

(* Every position that is kept has a rank of its own, from 1 to their       *)
(* number.                                                                  *)
LEMMA NthKept ==
    ASSUME NEW K, K \subseteq Nat, IsFiniteSet(K)
    PROVE  /\ Cardinality(K) \in Nat
           /\ \A n \in 1 .. Cardinality(K) : Nth(K, n) \in K
           /\ \A i \in K : \E n \in 1 .. Cardinality(K) : Nth(K, n) = i
<1> DEFINE below(i) == {j \in K : j < i}
           rank == [i \in K |-> Cardinality(below(i))]
           c == Cardinality(K)
           T == 0 .. (c - 1)
<1>1. c \in Nat
  BY FS_CardinalityType
<1>2. ASSUME NEW i \in K
      PROVE  /\ IsFiniteSet(below(i)) /\ Cardinality(below(i)) \in Nat
             /\ Cardinality(below(i)) < c
  <2>1. below(i) \in SUBSET K /\ i \notin below(i) /\ below(i) # K
    OBVIOUS
  <2>2. /\ IsFiniteSet(below(i)) /\ Cardinality(below(i)) <= c
        /\ (c = Cardinality(below(i)) => K = below(i))
    <3> HIDE DEF below
    <3> QED BY <2>1, FS_Subset
  <2>3. Cardinality(below(i)) \in Nat
    <3> HIDE DEF below
    <3> QED BY <2>2, FS_CardinalityType
  <2> QED BY <1>1, <2>1, <2>2, <2>3
<1>3. ASSUME NEW i \in K, NEW k \in K, i < k
      PROVE  Cardinality(below(i)) # Cardinality(below(k))
  <2>1. below(i) \in SUBSET below(k)
    <3>1. \A j \in K : j < i => j < k
      BY <1>3
    <3> QED BY <3>1
  <2>2. i \in below(k) /\ i \notin below(i)
    BY <1>3
  <2>3. IsFiniteSet(below(k))
    BY <1>2
  <2>4. below(k) # below(i)
    BY <2>2
  <2> HIDE DEF below
  <2> QED BY <2>1, <2>3, <2>4, FS_Subset
<1>4. \A i, k \in K : Cardinality(below(i)) = Cardinality(below(k)) => i = k
  <2> SUFFICES ASSUME NEW i \in K, NEW k \in K, i # k
               PROVE  Cardinality(below(i)) # Cardinality(below(k))
    OBVIOUS
  <2>1. i < k \/ k < i
    OBVIOUS
  <2> HIDE DEF below
  <2> QED BY <2>1, <1>3
<1>5. rank \in Injection(K, T)
  <2>1. rank \in [K -> T]
    <3>1. \A i \in K : Cardinality(below(i)) \in T
      BY <1>1, <1>2
    <3> HIDE DEF below, T
    <3> QED BY <3>1
  <2>2. \A i, k \in K : rank[i] = rank[k] => i = k
    <3> HIDE DEF below
    <3> QED BY <1>4
  <2> HIDE DEF rank, T
  <2> QED BY <2>1, <2>2 DEF Injection, IsInjective
<1>6. IsFiniteSet(T) /\ Cardinality(T) = c
  <2>1. IsFiniteSet(T) /\ Cardinality(T) = IF 0 > c - 1 THEN 0 ELSE c - 1 - 0 + 1
    <3> HIDE DEF c
    <3>1. 0 \in Int /\ c - 1 \in Int
      BY <1>1
    <3> QED BY <3>1, FS_Interval
  <2> HIDE DEF c, T
  <2> QED BY <1>1, <2>1
<1>7. rank \in Surjection(K, T)
  <2> HIDE DEF rank, T
  <2> QED BY <1>5, <1>6, FS_Injection
<1>8. \A n \in 1 .. c : \E i \in K : Cardinality(below(i)) = n - 1
  <2>1. \A m \in T : \E i \in K : rank[i] = m
    <3> HIDE DEF T, rank
    <3> QED BY <1>7 DEF Surjection
  <2>2. ASSUME NEW n \in 1 .. c PROVE n - 1 \in T
    BY <1>1
  <2> HIDE DEF T, below, c
  <2> QED BY <2>1, <2>2
<1>9. \A n \in 1 .. c : Nth(K, n) \in K /\ Cardinality(below(Nth(K, n))) = n - 1
  BY <1>8 DEF Nth
<1>10. ASSUME NEW i \in K PROVE \E n \in 1 .. c : Nth(K, n) = i
  <2> DEFINE n == Cardinality(below(i)) + 1
  <2>1. n \in 1 .. c /\ n - 1 = Cardinality(below(i))
    BY <1>1, <1>2
  <2>2. Nth(K, n) \in K /\ Cardinality(below(Nth(K, n))) = Cardinality(below(i))
    <3> HIDE DEF n, below, c
    <3> QED BY <1>9, <2>1
  <2>3. Nth(K, n) = i
    <3> HIDE DEF n, below
    <3> QED BY <1>4, <2>2
  <2> QED BY <2>1, <2>3
<1> QED BY <1>1, <1>9, <1>10

(* What Keep returns of a list, given the positions that it keeps.          *)
LEMMA KeptList ==
    ASSUME NEW S, NEW s \in Seq(S), NEW K, K \subseteq DOMAIN s,
           NEW k, k = [n \in 1 .. Cardinality(K) |-> s[Nth(K, n)]]
    PROVE  /\ k \in Seq(S)
           /\ DOMAIN k = 1 .. Cardinality(K) /\ Cardinality(K) \in Nat
           /\ \A c \in ToSet(k) : \E i \in K : c = s[i]
           /\ \A i \in K : s[i] \in ToSet(k)
<1>1. DOMAIN s = 1 .. Len(s) /\ Len(s) \in Nat /\ \A i \in DOMAIN s : s[i] \in S
  OBVIOUS
<1>2. K \subseteq Nat /\ IsFiniteSet(K)
  <2>1. K \in SUBSET (1 .. Len(s)) /\ K \subseteq Nat
    BY <1>1
  <2>2. IsFiniteSet(1 .. Len(s))
    BY <1>1, FS_Interval
  <2> QED BY <2>1, <2>2, FS_Subset
<1>3. /\ Cardinality(K) \in Nat
      /\ \A n \in 1 .. Cardinality(K) : Nth(K, n) \in K
      /\ \A i \in K : \E n \in 1 .. Cardinality(K) : Nth(K, n) = i
  BY <1>2, NthKept
<1>4. DOMAIN k = 1 .. Cardinality(K) /\ \A n \in DOMAIN k : k[n] = s[Nth(K, n)]
  OBVIOUS
<1>5. \A n \in DOMAIN k : k[n] \in S
  BY <1>1, <1>3, <1>4
<1>6. k \in Seq(S)
  BY <1>3, <1>5
<1>7. \A c \in ToSet(k) : \E i \in K : c = s[i]
  BY <1>3, <1>4 DEF ToSet
<1>8. \A i \in K : s[i] \in ToSet(k)
  BY <1>3, <1>4 DEF ToSet
<1> QED BY <1>3, <1>4, <1>6, <1>7, <1>8

(* The first position of a kind, or 0.                                      *)
LEMMA FirstPosition ==
    ASSUME NEW n \in Nat, NEW I, I \subseteq 1 .. n,
           NEW r, r = IF I # {} THEN Min(I) ELSE 0
    PROVE  r \in Nat /\ (r = 0 => I = {}) /\ (r # 0 => r \in I)
<1>1. I \subseteq Nat /\ 0 \notin I
  OBVIOUS
<1>2. I # {} => Min(I) \in I
  BY <1>1, MinIsLeast
<1> QED BY <1>1, <1>2

(* A list has positions from 1 on.                                          *)
LEMMA ListPositions ==
    ASSUME NEW s, IsList(s)
    PROVE  /\ Len(s) \in Nat /\ DOMAIN s = 1 .. Len(s) /\ s \in Seq(ToSet(s))
           /\ (s = <<>>) = (Len(s) = 0)
           /\ \A i \in DOMAIN s : s[i] \in ToSet(s)
BY DEF IsList, ToSet

(* Every sequence is a list of its elements.                                *)
LEMMA SequenceIsList ==
    ASSUME NEW S, NEW s \in Seq(S)
    PROVE  IsList(s)
<1>1. s \in [1 .. Len(s) -> ToSet(s)]
  BY DEF ToSet
<1> QED BY <1>1 DEF IsList

(***************************************************************************)
(* The conditions.                                                          *)
(***************************************************************************)

(* A condition is a record.                                                 *)
IsCondition(c) ==
    c = [type |-> c.type, status |-> c.status, reason |-> c.reason,
         generation |-> c.generation, source |-> c.source, since |-> c.since]

(* The parts of a condition.                                                *)
LEMMA ConditionParts ==
    ASSUME NEW t, NEW v, NEW r, NEW g, NEW o,
           NEW c, c = Condition(t, v, r, g, o)
    PROVE  /\ IsCondition(c) /\ c.type = t /\ c.status = v /\ c.reason = r
BY DEF Condition, IsCondition

(* acceptedCondition: whether some source's configuration is invalid.       *)
LEMMA AcceptedMeans ==
    ASSUME NEW A \in Seq(Assessment), NEW g, NEW scoped,
           NEW c, c = AcceptedCondition(g, A, scoped)
    PROVE  /\ IsCondition(c) /\ c.type = "Accepted" /\ c.reason # "unavailable"
           /\ \/ c.status = "True" /\ \A i \in DOMAIN A : A[i].configuration = "accepted"
              \/ c.status = "False" /\ \E i \in DOMAIN A : A[i].configuration = "invalid"
<1> DEFINE I == {i \in 1 .. Len(A) : A[i].configuration = "invalid"}
           bad == SelectInSeq(A, LAMBDA s : s.configuration = "invalid")
<1>1. bad = IF I # {} THEN Min(I) ELSE 0
  BY DEF SelectInSeq
<1>2. bad \in Nat /\ (bad = 0 => I = {}) /\ (bad # 0 => bad \in I)
  <2>1. Len(A) \in Nat /\ I \subseteq 1 .. Len(A)
    OBVIOUS
  <2> HIDE DEF I, bad
  <2> QED BY <1>1, <2>1, FirstPosition
<1>3. DOMAIN A = 1 .. Len(A) /\ \A i \in DOMAIN A : A[i].configuration \in {"accepted", "invalid"}
  <2>1. DOMAIN A = 1 .. Len(A) /\ \A i \in DOMAIN A : A[i] \in Assessment
    OBVIOUS
  <2> QED BY <2>1 DEF Assessment, Configurations
<1>4. c = IF bad = 0 THEN Condition("Accepted", "True", "ConfigurationAccepted", g, 0)
          ELSE Condition("Accepted", "False", "InvalidConfiguration", g, Ordinal(bad, scoped))
  BY DEF AcceptedCondition
<1> HIDE DEF bad
<1>6. CASE bad = 0
  <2>1. \A i \in DOMAIN A : A[i].configuration = "accepted"
    BY <1>2, <1>3, <1>6
  <2>2. c = Condition("Accepted", "True", "ConfigurationAccepted", g, 0)
    BY <1>4, <1>6
  <2>3. /\ IsCondition(c) /\ c.type = "Accepted" /\ c.status = "True"
        /\ c.reason = "ConfigurationAccepted"
    BY <2>2, ConditionParts
  <2> QED BY <2>1, <2>3
<1>7. CASE bad # 0
  <2>1. \E i \in DOMAIN A : A[i].configuration = "invalid"
    BY <1>2, <1>3, <1>7
  <2>2. c = Condition("Accepted", "False", "InvalidConfiguration", g, Ordinal(bad, scoped))
    BY <1>4, <1>7
  <2>3. /\ IsCondition(c) /\ c.type = "Accepted" /\ c.status = "False"
        /\ c.reason = "InvalidConfiguration"
    BY <2>2, ConditionParts
  <2> QED BY <2>1, <2>3
<1> QED BY <1>6, <1>7

(* authorizedCondition: the policy's own state, or the first source that is *)
(* not allowed, is what it reports.                                         *)
LEMMA AuthorizedMeans ==
    ASSUME NEW A \in Seq(Assessment), NEW G, NEW g, NEW scoped,
           NEW e, e.sources = A, e.global = G,
           NEW c, c = AuthorizedCondition(g, e, scoped)
    PROVE  /\ IsCondition(c) /\ c.type = "Authorized"
           /\ \/ c.reason \in G
              \/ G = {} /\ c.reason = "allowed" /\ c.status = "True"
                 /\ \A i \in DOMAIN A : A[i].authorization = "allowed"
              \/ G = {} /\ \E i \in DOMAIN A : /\ c.reason = A[i].authorization
                                               /\ A[i].authorization # "allowed"
<1> DEFINE I == {i \in 1 .. Len(A) : A[i].authorization # "allowed"}
           bad == SelectInSeq(A, LAMBDA s : s.authorization # "allowed")
           o == IF G # {} THEN CHOOSE x \in G : TRUE
                ELSE IF bad = 0 THEN "allowed" ELSE A[bad].authorization
           n == IF G # {} THEN 0 ELSE Ordinal(bad, scoped)
<1>1. bad = IF I # {} THEN Min(I) ELSE 0
  BY DEF SelectInSeq
<1>2. bad \in Nat /\ (bad = 0 => I = {}) /\ (bad # 0 => bad \in I)
  <2>1. Len(A) \in Nat /\ I \subseteq 1 .. Len(A)
    OBVIOUS
  <2> HIDE DEF I, bad
  <2> QED BY <1>1, <2>1, FirstPosition
<1>3. DOMAIN A = 1 .. Len(A)
  OBVIOUS
<1>4. c = Condition("Authorized", AuthorizationStatus(o), o, g, n)
  BY DEF AuthorizedCondition
<1>5. /\ IsCondition(c) /\ c.type = "Authorized" /\ c.reason = o
      /\ c.status = AuthorizationStatus(o)
  <2> HIDE DEF o, n
  <2> QED BY <1>4, ConditionParts
<1>6. CASE G # {}
  BY <1>5, <1>6
<1>7. CASE G = {} /\ bad = 0
  <2>1. o = "allowed"
    <3> HIDE DEF bad
    <3> QED BY <1>7
  <2>2. c.status = "True"
    BY <1>5, <2>1 DEF AuthorizationStatus
  <2>3. \A i \in DOMAIN A : A[i].authorization = "allowed"
    <3> HIDE DEF bad
    <3> QED BY <1>2, <1>3, <1>7
  <2> HIDE DEF o, bad
  <2> QED BY <1>5, <1>7, <2>1, <2>2, <2>3
<1>8. CASE G = {} /\ bad # 0
  <2>1. o = A[bad].authorization /\ bad \in DOMAIN A /\ A[bad].authorization # "allowed"
    <3> HIDE DEF bad
    <3> QED BY <1>2, <1>3, <1>8
  <2> HIDE DEF o, bad
  <2> QED BY <1>5, <1>8, <2>1
<1> QED BY <1>6, <1>7, <1>8

(* resolutionCondition: the first source that is not resolved.              *)
LEMMA ResolutionMeans ==
    ASSUME NEW A \in Seq(Assessment), NEW g, NEW scoped,
           NEW c, c = ResolutionCondition(g, A, scoped)
    PROVE  /\ IsCondition(c) /\ c.type = "SourcesResolved"
           /\ \/ c.reason = "resolved" /\ c.status = "True"
                 /\ \A i \in DOMAIN A : A[i].resolution = "resolved"
              \/ \E i \in DOMAIN A : c.reason = A[i].resolution /\ A[i].resolution # "resolved"
<1> DEFINE I == {i \in 1 .. Len(A) : A[i].resolution # "resolved"}
           bad == SelectInSeq(A, LAMBDA s : s.resolution # "resolved")
           v == IF A[bad].resolution = "failed" THEN "False" ELSE "Unknown"
<1>1. bad = IF I # {} THEN Min(I) ELSE 0
  BY DEF SelectInSeq
<1>2. bad \in Nat /\ (bad = 0 => I = {}) /\ (bad # 0 => bad \in I)
  <2>1. Len(A) \in Nat /\ I \subseteq 1 .. Len(A)
    OBVIOUS
  <2> HIDE DEF I, bad
  <2> QED BY <1>1, <2>1, FirstPosition
<1>3. DOMAIN A = 1 .. Len(A)
  OBVIOUS
<1>4. c = IF bad = 0 THEN Condition("SourcesResolved", "True", "resolved", g, 0)
          ELSE Condition("SourcesResolved", v, A[bad].resolution, g, Ordinal(bad, scoped))
  BY DEF ResolutionCondition
<1> HIDE DEF bad, v
<1>5. CASE bad = 0
  <2>1. c = Condition("SourcesResolved", "True", "resolved", g, 0)
    BY <1>4, <1>5
  <2>2. /\ IsCondition(c) /\ c.type = "SourcesResolved" /\ c.status = "True"
        /\ c.reason = "resolved"
    BY <2>1, ConditionParts
  <2> QED BY <1>2, <1>3, <1>5, <2>2
<1>6. CASE bad # 0
  <2>1. c = Condition("SourcesResolved", v, A[bad].resolution, g, Ordinal(bad, scoped))
    BY <1>4, <1>6
  <2>2. IsCondition(c) /\ c.type = "SourcesResolved" /\ c.reason = A[bad].resolution
    BY <2>1, ConditionParts
  <2> QED BY <1>2, <1>3, <1>6, <2>2
<1> QED BY <1>5, <1>6

(* evaluationCondition and degradedCondition.                               *)
LEMMA ReadyMeans ==
    ASSUME NEW g, NEW r, NEW v, NEW c,
           c = Condition("Ready", v, r, g, 0) \/ c = Condition("Degraded", v, r, g, 0)
    PROVE  /\ IsCondition(c) /\ c.reason = r /\ c.status = v
           /\ c.type \in {"Ready", "Degraded"}
BY ConditionParts

(* SetStatusCondition changes nothing but the time of the transition.       *)
LEMMA SetKeepsParts ==
    ASSUME NEW P, NEW d, IsCondition(d), NEW now,
           NEW c, c = SetStatusCondition(P, d, now)
    PROVE  c.type = d.type /\ c.status = d.status /\ c.reason = d.reason
<1>1. \E x : c = [d EXCEPT !.since = x]
  BY DEF SetStatusCondition
<1>2. PICK x : c = [d EXCEPT !.since = x]
  BY <1>1
<1> QED BY <1>2 DEF IsCondition

(* mergeConditions: a condition of the status is a desired one, or one of   *)
(* another writer that was persisted; and every desired one is there.       *)
LEMMA MergedMeans ==
    ASSUME NEW P, IsList(P), NEW D, IsList(D), \A i \in DOMAIN D : IsCondition(D[i]),
           NEW now, NEW M, M = MergeConditions(P, D, now)
    PROVE  /\ IsList(M)
           /\ \A c \in ToSet(M) :
                 \/ \E i \in DOMAIN D : /\ c.type = D[i].type /\ c.status = D[i].status
                                        /\ c.reason = D[i].reason
                 \/ c \in ToSet(P) /\ ~IsCanonical(c.type)
           /\ \A i \in DOMAIN D : \E c \in ToSet(M) :
                 c.type = D[i].type /\ c.status = D[i].status /\ c.reason = D[i].reason
<1> DEFINE L == [i \in DOMAIN D |-> SetStatusCondition(P, D[i], now)]
           K == {i \in DOMAIN P : ~IsCanonical(P[i].type)}
           R == [n \in 1 .. Cardinality(K) |-> P[Nth(K, n)]]
<1>1. M = L \o R
  BY DEF MergeConditions, Keep
<1>2. /\ Len(P) \in Nat /\ DOMAIN P = 1 .. Len(P) /\ P \in Seq(ToSet(P))
      /\ Len(D) \in Nat /\ DOMAIN D = 1 .. Len(D)
  BY ListPositions
<1>3. /\ R \in Seq(ToSet(P))
      /\ \A c \in ToSet(R) : c \in ToSet(P) /\ ~IsCanonical(c.type)
  <2>1. K \subseteq DOMAIN P /\ \A i \in K : P[i] \in ToSet(P) /\ ~IsCanonical(P[i].type)
    BY DEF ToSet
  <2>2. R \in Seq(ToSet(P)) /\ \A c \in ToSet(R) : \E i \in K : c = P[i]
    <3> HIDE DEF K
    <3>1. R = [n \in 1 .. Cardinality(K) |-> P[Nth(K, n)]]
      OBVIOUS
    <3>2. K \subseteq DOMAIN P
      BY <2>1
    <3> HIDE DEF R
    <3> QED BY ONLY <1>2, <3>1, <3>2, KeptList
  <2> HIDE DEF R
  <2> QED BY <2>1, <2>2
<1>4. /\ DOMAIN L = 1 .. Len(D)
      /\ \A i \in DOMAIN L : /\ L[i].type = D[i].type /\ L[i].status = D[i].status
                             /\ L[i].reason = D[i].reason
  <2>1. DOMAIN L = 1 .. Len(D)
    BY <1>2
  <2>2. ASSUME NEW i \in DOMAIN D
        PROVE  /\ L[i].type = D[i].type /\ L[i].status = D[i].status
               /\ L[i].reason = D[i].reason
    <3>1. L[i] = SetStatusCondition(P, D[i], now)
      OBVIOUS
    <3> HIDE DEF L
    <3> QED BY <3>1, SetKeepsParts
  <2> HIDE DEF L
  <2> QED BY <1>2, <2>1, <2>2
<1>5. L \in Seq(ToSet(L)) /\ Len(L) = Len(D)
  BY <1>2, <1>4 DEF ToSet
<1> HIDE DEF L, R, K
<1> DEFINE S == ToSet(L) \cup ToSet(P)
<1>6. L \in Seq(S) /\ R \in Seq(S)
  BY <1>3, <1>5
<1>7. /\ M \in Seq(S) /\ Len(M) = Len(L) + Len(R) /\ DOMAIN M = 1 .. Len(M)
      /\ \A i \in 1 .. Len(M) : M[i] = IF i <= Len(L) THEN L[i] ELSE R[i - Len(L)]
  BY <1>1, <1>6
<1>8. Len(L) \in Nat /\ Len(R) \in Nat /\ DOMAIN L = 1 .. Len(L) /\ DOMAIN R = 1 .. Len(R)
  BY <1>6
<1>9. IsList(M)
  <2> HIDE DEF S
  <2> QED BY <1>7, SequenceIsList
<1>10. ASSUME NEW c \in ToSet(M) PROVE c \in ToSet(L) \/ c \in ToSet(R)
  <2>1. PICK i \in 1 .. Len(M) : c = M[i]
    BY <1>7 DEF ToSet
  <2>2. CASE i <= Len(L)
    BY <1>7, <1>8, <2>1, <2>2 DEF ToSet
  <2>3. CASE i > Len(L)
    <3>1. i - Len(L) \in DOMAIN R /\ c = R[i - Len(L)]
      BY <1>7, <1>8, <2>1, <2>3
    <3> QED BY <3>1 DEF ToSet
  <2> QED BY <1>7, <1>8, <2>2, <2>3
<1>11. ASSUME NEW i \in DOMAIN D PROVE L[i] \in ToSet(M)
  <2>1. i \in 1 .. Len(M) /\ M[i] = L[i]
    BY <1>2, <1>4, <1>5, <1>7, <1>8
  <2> QED BY <1>7, <2>1 DEF ToSet
<1>12. ASSUME NEW c \in ToSet(L)
       PROVE  \E i \in DOMAIN D : /\ c.type = D[i].type /\ c.status = D[i].status
                                  /\ c.reason = D[i].reason
  BY <1>2, <1>4 DEF ToSet
<1>13. \A c \in ToSet(M) :
          \/ \E i \in DOMAIN D : /\ c.type = D[i].type /\ c.status = D[i].status
                                 /\ c.reason = D[i].reason
          \/ c \in ToSet(P) /\ ~IsCanonical(c.type)
  BY <1>3, <1>10, <1>12
<1>14. \A i \in DOMAIN D : \E c \in ToSet(M) :
          c.type = D[i].type /\ c.status = D[i].status /\ c.reason = D[i].reason
  BY <1>2, <1>4, <1>11
<1> QED BY <1>9, <1>13, <1>14

(* What a canonical condition may say, given the assessments of the sources *)
(* and the state of the policy.                                             *)
Reports(c, A, G, t) ==
    /\ c.reason = "unavailable" =>
          \/ "unavailable" \in G
          \/ \E i \in DOMAIN A : \/ A[i].authorization = "unavailable"
                                 \/ A[i].resolution = "unavailable"
    /\ c.type = "Accepted" /\ c.status = "False" =>
          \/ t = "budget" /\ c.reason = "ConfigurationBudgetExceeded"
          \/ \E i \in DOMAIN A : A[i].configuration = "invalid"

(* A list of the five canonical conditions.                                 *)
LEMMA FiveConditions ==
    ASSUME NEW a, NEW b, NEW c, NEW d, NEW e, NEW D, D = <<a, b, c, d, e>>
    PROVE  /\ IsList(D) /\ DOMAIN D = 1 .. 5
           /\ D[1] = a /\ D[2] = b /\ D[3] = c /\ D[4] = d /\ D[5] = e
<1>1. D \in Seq({a, b, c, d, e})
  OBVIOUS
<1>2. IsList(D)
  BY <1>1, SequenceIsList
<1> QED BY <1>2

(* Each of the three lists of conditions reports what it may.               *)
LEMMA DesiredReports ==
    ASSUME NEW A \in Seq(Assessment), NEW G, NEW g, NEW e, e.sources = A, e.global = G,
           NEW t,
           NEW D, \/ D = DesiredConditions(g, e) \/ D = CompactLimitConditions(g, e)
                  \/ D = ConfigurationBudgetConditions(g) /\ t = "budget"
    PROVE  IsList(D) /\ \A i \in DOMAIN D : IsCondition(D[i]) /\ Reports(D[i], A, G, t)
<1> DEFINE degraded == HasResultErrors(e.result)
           reason == IF degraded THEN "EvaluationDegraded" ELSE "EvaluationSucceeded"
<1>1. ASSUME NEW scoped, NEW ready \in BOOLEAN, NEW r, r # "unavailable",
             D = <<AcceptedCondition(g, A, scoped), AuthorizedCondition(g, e, scoped),
                   ResolutionCondition(g, A, scoped),
                   ReadyCondition(g, ready, r), DegradedCondition(g, ready, r)>>
      PROVE  IsList(D) /\ \A i \in DOMAIN D : IsCondition(D[i]) /\ Reports(D[i], A, G, t)
  <2>1. /\ IsList(D) /\ DOMAIN D = 1 .. 5
        /\ D[1] = AcceptedCondition(g, A, scoped) /\ D[2] = AuthorizedCondition(g, e, scoped)
        /\ D[3] = ResolutionCondition(g, A, scoped)
        /\ D[4] = ReadyCondition(g, ready, r) /\ D[5] = DegradedCondition(g, ready, r)
    BY <1>1, FiveConditions
  <2>2. IsCondition(D[1]) /\ Reports(D[1], A, G, t)
    <3>1. /\ IsCondition(D[1]) /\ D[1].type = "Accepted" /\ D[1].reason # "unavailable"
          /\ \/ D[1].status = "True"
             \/ D[1].status = "False" /\ \E i \in DOMAIN A : A[i].configuration = "invalid"
      BY <2>1, AcceptedMeans
    <3> QED BY <3>1 DEF Reports
  <2>3. IsCondition(D[2]) /\ Reports(D[2], A, G, t)
    <3>1. /\ IsCondition(D[2]) /\ D[2].type = "Authorized"
          /\ \/ D[2].reason \in G
             \/ D[2].reason = "allowed"
             \/ \E i \in DOMAIN A : D[2].reason = A[i].authorization
      BY <2>1, AuthorizedMeans
    <3> QED BY <3>1 DEF Reports
  <2>4. IsCondition(D[3]) /\ Reports(D[3], A, G, t)
    <3>1. /\ IsCondition(D[3]) /\ D[3].type = "SourcesResolved"
          /\ \/ D[3].reason = "resolved"
             \/ \E i \in DOMAIN A : D[3].reason = A[i].resolution
      BY <2>1, ResolutionMeans
    <3> QED BY <3>1 DEF Reports
  <2>5. ASSUME NEW i \in {4, 5} PROVE IsCondition(D[i]) /\ Reports(D[i], A, G, t)
    <3>1. \E v : D[i] = Condition("Ready", v, r, g, 0) \/ D[i] = Condition("Degraded", v, r, g, 0)
      BY <2>1 DEF ReadyCondition, DegradedCondition
    <3>2. IsCondition(D[i]) /\ D[i].reason = r /\ D[i].type \in {"Ready", "Degraded"}
      BY <3>1, ReadyMeans
    <3> QED BY <1>1, <3>2 DEF Reports
  <2> QED BY <2>1, <2>2, <2>3, <2>4, <2>5
<1>2. CASE D = DesiredConditions(g, e)
  <2>1. /\ D = <<AcceptedCondition(g, A, TRUE), AuthorizedCondition(g, e, TRUE),
                 ResolutionCondition(g, A, TRUE),
                 ReadyCondition(g, ~degraded, reason), DegradedCondition(g, ~degraded, reason)>>
        /\ reason # "unavailable"
    BY <1>2 DEF DesiredConditions
  <2>2. (~degraded) \in BOOLEAN
    OBVIOUS
  <2> HIDE DEF degraded, reason
  <2> QED BY <1>1, <2>1, <2>2
<1>3. CASE D = CompactLimitConditions(g, e)
  <2>1. D = <<AcceptedCondition(g, A, FALSE), AuthorizedCondition(g, e, FALSE),
              ResolutionCondition(g, A, FALSE),
              ReadyCondition(g, FALSE, "ResultLimitExceeded"),
              DegradedCondition(g, FALSE, "ResultLimitExceeded")>>
    BY <1>3 DEF CompactLimitConditions
  <2> QED BY <1>1, <2>1
<1>4. CASE D = ConfigurationBudgetConditions(g) /\ t = "budget"
  <2>1. /\ IsList(D) /\ DOMAIN D = 1 .. 5
        /\ D[1] = Condition("Accepted", "False", "ConfigurationBudgetExceeded", g, 0)
        /\ D[2] = Condition("Authorized", "Unknown", "not-evaluated", g, 0)
        /\ D[3] = Condition("SourcesResolved", "Unknown", "not-evaluated", g, 0)
        /\ D[4] = Condition("Ready", "False", "ConfigurationBudgetExceeded", g, 0)
        /\ D[5] = Condition("Degraded", "True", "EvaluationUnavailable", g, 0)
    BY <1>4, FiveConditions DEF ConfigurationBudgetConditions, ReadyCondition, DegradedCondition
  <2>2. /\ \A i \in 1 .. 3 : IsCondition(D[i]) /\ D[i].reason # "unavailable"
        /\ D[1].reason = "ConfigurationBudgetExceeded"
        /\ D[2].type = "Authorized" /\ D[3].type = "SourcesResolved"
    <3>1. IsCondition(D[1]) /\ D[1].reason = "ConfigurationBudgetExceeded"
      BY <2>1, ConditionParts
    <3>2. IsCondition(D[2]) /\ D[2].reason = "not-evaluated" /\ D[2].type = "Authorized"
      BY <2>1, ConditionParts
    <3>3. IsCondition(D[3]) /\ D[3].reason = "not-evaluated" /\ D[3].type = "SourcesResolved"
      BY <2>1, ConditionParts
    <3> QED BY <3>1, <3>2, <3>3
  <2>3. /\ \A i \in {4, 5} : IsCondition(D[i]) /\ D[i].reason # "unavailable"
        /\ \A i \in {4, 5} : D[i].type \in {"Ready", "Degraded"}
    <3>1. /\ IsCondition(D[4]) /\ D[4].reason = "ConfigurationBudgetExceeded"
          /\ D[4].type \in {"Ready", "Degraded"}
      BY <2>1, ReadyMeans
    <3>2. /\ IsCondition(D[5]) /\ D[5].reason = "EvaluationUnavailable"
          /\ D[5].type \in {"Ready", "Degraded"}
      BY ONLY <2>1, ConditionParts
    <3> QED BY <3>1, <3>2
  <2>4. ASSUME NEW i \in 1 .. 5 PROVE IsCondition(D[i]) /\ Reports(D[i], A, G, t)
    <3>1. i = 1 \/ i = 2 \/ i = 3 \/ i \in {4, 5}
      OBVIOUS
    <3>2. t = "budget"
      BY <1>4
    <3> QED BY <2>2, <2>3, <3>1, <3>2 DEF Reports
  <2> QED BY <2>1, <2>4
<1> QED BY <1>2, <1>3, <1>4

(* What an evaluation hands over to the publisher.                          *)
IsEvaluation(e, t, R, G, A) ==
    e = [terminal |-> t, result |-> R, global |-> G, sources |-> A]

(* A status that shows the result or none, and whose canonical conditions   *)
(* report what they may.                                                    *)
Faithful(s, A, G, R, t) ==
    /\ IsStatus(s) /\ s.result \subseteq {R}
    /\ \A c \in ToSet(s.conditions) : IsCanonical(c.type) => Reports(c, A, G, t)

(* composeBoundedStatus: what is left of a status is faithful.              *)
LEMMA CandidateReports ==
    ASSUME NEW A \in Seq(Assessment), NEW G, NEW R, NEW P, IsList(P), NEW g, NEW now, NEW limit,
           NEW t \in {"result", "budget"},
           NEW e, IsEvaluation(e, t, R, G, A),
           NEW s, s \in ComposeBounded(g, P, e, now, limit)
    PROVE  Faithful(s, A, G, R, t)
<1> DEFINE f == [e EXCEPT !.terminal = "limit"]
           Good(D) == IsList(D) /\ \A i \in DOMAIN D : IsCondition(D[i]) /\ Reports(D[i], A, G, t)
<1>1. /\ e.terminal = t /\ e.sources = A /\ e.global = G /\ e.result = R
      /\ f.terminal = "limit" /\ f.sources = A /\ f.global = G /\ f.result = R
  BY DEF IsEvaluation
<1>2. s = Compose(g, P, e, now) \/ s = Compose(g, P, f, now)
  BY DEF ComposeBounded
<1>3. ASSUME NEW D, Good(D), NEW r, r \subseteq {R},
             s = Status(g, MergeConditions(P, D, now), r)
      PROVE  Faithful(s, A, G, R, t)
  <2> DEFINE M == MergeConditions(P, D, now)
  <2>1. IsList(D) /\ \A i \in DOMAIN D : IsCondition(D[i]) /\ Reports(D[i], A, G, t)
    BY <1>3
  <2>2. /\ IsList(M)
        /\ \A c \in ToSet(M) :
              \/ \E i \in DOMAIN D : /\ c.type = D[i].type /\ c.status = D[i].status
                                     /\ c.reason = D[i].reason
              \/ ~IsCanonical(c.type)
    <3> QED BY <2>1, MergedMeans
  <2>3. /\ s = [generation |-> s.generation, conditions |-> s.conditions, result |-> s.result,
                summary |-> s.summary]
        /\ s.conditions = M /\ s.result = r
    <3>1. s = Status(g, M, r)
      BY <1>3
    <3> HIDE DEF M
    <3> QED BY <3>1 DEF Status
  <2>4. ASSUME NEW c \in ToSet(M), IsCanonical(c.type) PROVE Reports(c, A, G, t)
    <3>1. PICK i \in DOMAIN D : /\ c.type = D[i].type /\ c.status = D[i].status
                                /\ c.reason = D[i].reason
      BY <2>2, <2>4
    <3>2. Reports(D[i], A, G, t)
      BY <2>1
    <3> QED BY <3>1, <3>2 DEF Reports
  <2> HIDE DEF M
  <2> QED BY <1>3, <2>2, <2>3, <2>4 DEF IsStatus, Faithful
<1> HIDE DEF f
<1>4. CASE s = Compose(g, P, e, now) /\ t = "result"
  <2> DEFINE D == DesiredConditions(g, e)
  <2>1. s = Status(g, MergeConditions(P, D, now), {R})
    BY <1>1, <1>4 DEF Compose
  <2>2. Good(D)
    BY <1>1, DesiredReports
  <2>3. {R} \subseteq {R}
    OBVIOUS
  <2> HIDE DEF Good, D
  <2> QED BY <1>3, <2>1, <2>2, <2>3
<1>5. CASE s = Compose(g, P, e, now) /\ t = "budget"
  <2> DEFINE D == ConfigurationBudgetConditions(g)
             none == {}
  <2>1. s = Status(g, MergeConditions(P, D, now), none)
    BY <1>1, <1>5 DEF Compose
  <2>2. Good(D)
    BY <1>1, <1>5, DesiredReports
  <2>3. none \subseteq {R}
    OBVIOUS
  <2> HIDE DEF Good, D, none
  <2> QED BY ONLY <1>3, <2>1, <2>2, <2>3
<1>6. CASE s = Compose(g, P, f, now)
  <2> DEFINE D == CompactLimitConditions(g, f)
             none == {}
  <2>1. s = Status(g, MergeConditions(P, D, now), none)
    BY <1>1, <1>6 DEF Compose
  <2>2. Good(D)
    BY <1>1, DesiredReports
  <2>3. none \subseteq {R}
    OBVIOUS
  <2> HIDE DEF Good, D, none
  <2> QED BY ONLY <1>3, <2>1, <2>2, <2>3
<1> QED BY <1>2, <1>4, <1>5, <1>6

(* What is read back of a status has the same conditions and errors.        *)
LEMMA DecodedKeeps ==
    ASSUME NEW s, IsStatus(s), NEW d, d = DecodedStatus(s),
           \A r \in s.result : \A i \in DOMAIN r : IsResult(r[i])
    PROVE  /\ IsStatus(d) /\ d.conditions = s.conditions
           /\ \A q \in d.result : \E r \in s.result :
                 DOMAIN q = DOMAIN r /\ \A i \in DOMAIN r : q[i].err = r[i].err
<1> DEFINE D == {[i \in DOMAIN r |-> DecodedSource(r[i])] : r \in s.result}
<1>1. d = [s EXCEPT !.result = D]
  BY DEF DecodedStatus
<1>2. /\ d = [generation |-> s.generation, conditions |-> s.conditions, result |-> D,
              summary |-> s.summary]
      /\ IsList(s.conditions)
  <2> HIDE DEF D
  <2> QED BY <1>1 DEF IsStatus
<1>3. IsStatus(d) /\ d.conditions = s.conditions /\ d.result = D
  <2> HIDE DEF D
  <2> QED BY <1>2 DEF IsStatus
<1>4. ASSUME NEW x, IsResult(x) PROVE DecodedSource(x).err = x.err
  <2>1. \E a, b : DecodedSource(x) = [x EXCEPT !.resources = a, !.aggregates = b]
    BY DEF DecodedSource
  <2>2. PICK a, b : DecodedSource(x) = [x EXCEPT !.resources = a, !.aggregates = b]
    BY <2>1
  <2> QED BY <1>4, <2>2 DEF IsResult
<1>5. ASSUME NEW q \in D
      PROVE  \E r \in s.result : DOMAIN q = DOMAIN r /\ \A i \in DOMAIN r : q[i].err = r[i].err
  <2>1. PICK r \in s.result : q = [i \in DOMAIN r |-> DecodedSource(r[i])]
    OBVIOUS
  <2>2. \A i \in DOMAIN r : IsResult(r[i])
    OBVIOUS
  <2> QED BY <1>4, <2>1, <2>2
<1> QED BY <1>3, <1>5

(***************************************************************************)
(* The stages of a source.                                                  *)
(***************************************************************************)

(* The reasons of a path are its own.                                       *)
LEMMA ParseReasons ==
    ASSUME NEW path
    PROVE  ParseReason(path) \in {"", "UnsupportedExpression", "InvalidExpression"}
<1> DEFINE bad == SelectInSeq(path, LAMBDA t : t.op \in {"unsupported", "malformed"})
<1>1. ParseReason(path) = IF bad = 0 THEN ""
                          ELSE IF path[bad].op = "unsupported" THEN "UnsupportedExpression"
                          ELSE "InvalidExpression"
  BY DEF ParseReason
<1> HIDE DEF bad
<1> QED BY <1>1

(* Extraction fails for something that may pass only where the selection    *)
(* has.                                                                     *)
LEMMA ExtractBlames ==
    ASSUME NEW fields, NEW read, IsList(read.resources), NEW ceiling,
           NEW x, x = Extract(fields, read, ceiling), x.err \in Passing
    PROVE  read.err \in Passing
<1> DEFINE failures == ExtractionFailures(fields)
           plan == ExtractionPlan(fields)
           resources == IF plan = <<>> THEN <<>>
                        ELSE [i \in DOMAIN read.resources |->
                                 EvaluateResource(plan, read.resources[i])]
           produced == Produce(resources, LAMBDA r : r.error, ExtractedWeight, ceiling)
           failed == IF failures # {} THEN ParseReason(fields[Min(failures)].path)
                     ELSE IF read.err # "" THEN read.err ELSE produced
<1>1. x = [err |-> failed, resources |-> IF failed = "" THEN resources ELSE <<>>]
  BY DEF Extract
<1>2. x.err = failed
  <2> HIDE DEF failed, resources
  <2> QED BY ONLY <1>1
<1>3. produced \in {"", "EvaluationTypeMismatch", "ValueLimitExceeded"}
  <2>1. DOMAIN resources \subseteq Nat /\
        \A i \in DOMAIN resources : resources[i].error \in {"", "EvaluationTypeMismatch"}
    <3>1. DOMAIN read.resources = 1 .. Len(read.resources) /\ Len(read.resources) \in Nat
      BY ListPositions
    <3>2. CASE plan = <<>>
      <4>1. resources = <<>>
        BY <3>2
      <4> HIDE DEF resources
      <4>2. DOMAIN resources = {}
        BY ONLY <4>1
      <4> QED BY ONLY <4>2
    <3>3. CASE plan # <<>>
      <4>1. resources = [i \in DOMAIN read.resources |->
                            EvaluateResource(plan, read.resources[i])]
        BY <3>3
      <4>2. \A r : EvaluateResource(plan, r).error \in {"", "EvaluationTypeMismatch"}
        BY DEF EvaluateResource
      <4> HIDE DEF resources, plan
      <4>3. /\ DOMAIN resources = 1 .. Len(read.resources)
            /\ \A i \in DOMAIN resources :
                  resources[i] = EvaluateResource(plan, read.resources[i])
        BY ONLY <3>1, <4>1
      <4>4. DOMAIN resources \subseteq Nat
        BY ONLY <3>1, <4>3
      <4> QED BY ONLY <4>2, <4>3, <4>4
    <3> QED BY <3>2, <3>3
  <2> HIDE DEF resources
  <2>2. \E bad : /\ bad \subseteq DOMAIN resources
                 /\ produced = IF bad = {} THEN ""
                               ELSE IF resources[Min(bad)].error # "" THEN resources[Min(bad)].error
                               ELSE "ValueLimitExceeded"
    BY DEF Produce
  <2>3. PICK bad : /\ bad \subseteq DOMAIN resources
                   /\ produced = IF bad = {} THEN ""
                                 ELSE IF resources[Min(bad)].error # "" THEN resources[Min(bad)].error
                                 ELSE "ValueLimitExceeded"
    BY <2>2
  <2>4. bad # {} => Min(bad) \in DOMAIN resources
    BY <2>1, <2>3, MinIsLeast
  <2> HIDE DEF produced
  <2> QED BY <2>1, <2>3, <2>4
<1>4. ParseReason(fields[Min(failures)].path) \notin Passing
  <2> HIDE DEF failures
  <2> QED BY ParseReasons DEF Passing
<1>5. produced \notin Passing
  <2> HIDE DEF produced
  <2> QED BY <1>3 DEF Passing
<1>6. failed \in Passing
  <2> HIDE DEF failed
  <2> QED BY <1>2
<1> HIDE DEF produced, failures
<1> QED BY <1>4, <1>5, <1>6

(* A conversion or the operators add no such error.                         *)
LEMMA ConvertBlames ==
    ASSUME NEW fields, NEW extracted, NEW ceiling,
           NEW x, x = Convert(fields, extracted, ceiling), x.err \in Passing
    PROVE  extracted.err \in Passing
<1> DEFINE resources == [i \in DOMAIN extracted.resources |->
                            ConvertResource(fields, extracted.resources[i])]
           produced == Produce(resources,
                           LAMBDA r : IF Projectable(r) THEN "" ELSE "ValueLimitExceeded",
                           LAMBDA r : FieldsWeight(r.fields), ceiling)
           failed == IF extracted.err # "" THEN extracted.err ELSE produced
<1>1. x = [err |-> failed, resources |-> IF failed = "" THEN resources ELSE <<>>]
  BY DEF Convert
<1>2. x.err = failed
  <2> HIDE DEF failed, resources
  <2> QED BY ONLY <1>1
<1>3. produced \in {"", "ValueLimitExceeded"}
  <2> HIDE DEF resources
  <2> QED BY DEF Produce
<1> HIDE DEF produced
<1> QED BY <1>2, <1>3 DEF Passing

(* The operators blame nothing that may pass: what they report is a limit or*)
(* a declaration.                                                           *)
LEMMA OperateBlames ==
    ASSUME NEW fields, NEW typed, NEW ceiling,
           NEW x, x = Operate(fields, typed, ceiling), x.err \in Passing
    PROVE  typed.err \in Passing
<1> DEFINE failures == OperatorFailures(fields)
           resources == [i \in DOMAIN typed.resources |->
                             EvaluateOperators(fields, typed.resources[i])]
           produced == Produce(resources, LAMBDA r : "", OperatorWeight, ceiling)
           failed == IF typed.err # "" THEN typed.err
                     ELSE IF failures # {} THEN "" ELSE produced
<1>1. x = [err |-> failed, fieldErrors |-> IF failed = "" THEN failures ELSE {},
           resources |-> IF failed = "" /\ failures = {} THEN resources ELSE <<>>]
  BY DEF Operate
<1>2. x.err = failed
  <2> HIDE DEF failed, resources
  <2> QED BY ONLY <1>1
<1>3. produced \in {"", "ValueLimitExceeded"}
  <2> HIDE DEF resources
  <2> QED BY DEF Produce
<1> HIDE DEF produced
<1> QED BY <1>2, <1>3 DEF Passing

(* Nor does the aggregation, and what is published is a result.             *)
LEMMA AggregateBlames ==
    ASSUME NEW source, NEW operated, NEW limits,
           NEW x, x = Published(Aggregate(source, operated, limits))
    PROVE  IsResult(x) /\ (x.err \in Passing => operated.err \in Passing)
<1> DEFINE plan == SortBy(source.aggregations, LAMBDA d : d.name)
           aggregates == [i \in DOMAIN plan |->
                             AggregateOf(plan[i], source.fields, operated.resources, limits)]
           produced == Produce(aggregates, LAMBDA a : "", AggregateWeight, limits.values)
           failed == IF operated.err # "" THEN operated.err ELSE produced
           y == Aggregate(source, operated, limits)
<1>1. y = IF failed # ""
          THEN [err |-> failed, fieldErrors |-> {}, resources |-> <<>>, aggregates |-> <<>>]
          ELSE [err |-> "", fieldErrors |-> operated.fieldErrors,
                resources |-> operated.resources, aggregates |-> aggregates]
  BY DEF Aggregate
<1>2. produced \in {"", "ValueLimitExceeded"}
  <2> HIDE DEF aggregates
  <2> QED BY DEF Produce
<1>3. \E r : x = [y EXCEPT !.resources = r]
  BY DEF Published
<1> HIDE DEF y, failed, aggregates
<1>4. IsResult(y) /\ (y.err = "" \/ y.err = failed)
  BY <1>1 DEF IsResult
<1>5. IsResult(x) /\ x.err = y.err
  BY <1>3, <1>4 DEF IsResult
<1>6. failed = operated.err \/ failed = produced
  BY DEF failed
<1> HIDE DEF produced
<1> QED BY <1>2, <1>4, <1>5, <1>6 DEF Passing

(* Together.                                                                *)
LEMMA OutcomeBlames ==
    ASSUME NEW source, NEW read, IsList(read.resources), NEW x, x = Outcome(source, read)
    PROVE  IsResult(x) /\ (x.err \in Passing => read.err \in Passing)
<1> DEFINE extracted == Extract(source.fields, read, profile.values)
           typed     == Convert(source.fields, extracted, profile.values)
           operated  == Operate(source.fields, typed, profile.values)
<1>1. x = Published(Aggregate(source, operated, profile))
  BY DEF Outcome
<1>2. IsResult(x) /\ (x.err \in Passing => operated.err \in Passing)
  <2> HIDE DEF operated
  <2> QED BY <1>1, AggregateBlames
<1>3. operated.err \in Passing => typed.err \in Passing
  <2> HIDE DEF typed
  <2> QED BY OperateBlames
<1>4. typed.err \in Passing => extracted.err \in Passing
  <2> HIDE DEF extracted
  <2> QED BY ConvertBlames
<1>5. extracted.err \in Passing => read.err \in Passing
  BY ExtractBlames
<1> QED BY <1>2, <1>3, <1>4, <1>5

(***************************************************************************)
(* The webhook.                                                             *)
(***************************************************************************)

(* The type of a declared field is that of a field.                         *)
LEMMA TypeOfDeclared ==
    ASSUME NEW fields, IsList(fields), NEW i \in DOMAIN fields
    PROVE  \E j \in DOMAIN fields : TypeOf(fields, fields[i].name) = fields[j].type
<1> DEFINE I == {j \in 1 .. Len(fields) : fields[j].name = fields[i].name}
           f == SelectInSeq(fields, LAMBDA g : g.name = fields[i].name)
<1>1. f = IF I # {} THEN Min(I) ELSE 0
  BY DEF SelectInSeq
<1>2. Len(fields) \in Nat /\ DOMAIN fields = 1 .. Len(fields)
  BY ListPositions
<1>3. I \subseteq 1 .. Len(fields) /\ i \in I
  BY <1>2
<1>4. f # 0 /\ f \in I
  <2> HIDE DEF I, f
  <2> QED BY <1>1, <1>2, <1>3, FirstPosition
<1>5. TypeOf(fields, fields[i].name) = IF f = 0 THEN "" ELSE fields[f].type
  BY DEF TypeOf
<1> HIDE DEF f
<1> QED BY <1>2, <1>4, <1>5

(* validateSourceDeclarations leaves no failure of an operator to the       *)
(* runtime: what it skips is the failure of a field without a type, which   *)
(* the typed plan reports.                                                  *)
LEMMA NoOperatorFailure ==
    ASSUME NEW s, IsList(s.fields), \A f \in ToSet(s.fields) : IsList(f.operators),
           TypedFailures(s.fields) = {}, ~OperatorIssue(s)
    PROVE  OperatorFailures(s.fields) = {}
<1>1. SUFFICES ASSUME NEW r \in OperatorFailures(s.fields)
               PROVE  FALSE
  OBVIOUS
<1>2. PICK i \in DOMAIN s.fields : r \in FieldFailures(s.fields[i])
  BY DEF OperatorFailures
<1> DEFINE field == s.fields[i]
<1>3. \A j \in DOMAIN s.fields : s.fields[j].type \in SupportedTypes
  BY DEF TypedFailures
<1>4. "" \notin SupportedTypes
  BY DEF SupportedTypes, ScalarTypes
<1>5. field.type # ""
  BY <1>3, <1>4
<1>6. \E j \in DOMAIN field.operators :
         r = [name |-> field.name, index |-> j,
              reason |-> OperatorReason(field.operators[j], field.type)]
  BY <1>2, <1>5 DEF FieldFailures
<1>7. r.name = field.name /\ r.index \in DOMAIN field.operators
  <2> HIDE DEF field
  <2> QED BY <1>6
<1>8. r.index >= 0
  <2>1. IsList(field.operators)
    BY DEF ToSet
  <2>2. DOMAIN field.operators = 1 .. Len(field.operators) /\ Len(field.operators) \in Nat
    <3> HIDE DEF field
    <3> QED BY <2>1, ListPositions
  <2> HIDE DEF field
  <2> QED BY <1>7, <2>2
<1>9. TypeOf(s.fields, r.name) # ""
  <2>1. PICK j \in DOMAIN s.fields : TypeOf(s.fields, s.fields[i].name) = s.fields[j].type
    BY ONLY IsList(s.fields), i \in DOMAIN s.fields, TypeOfDeclared
  <2> QED BY <1>3, <1>4, <1>7, <2>1
<1> QED BY <1>8, <1>9 DEF OperatorIssue

(* ValidateFacet: what is allowed is within the budgets, accepted by        *)
(* configurationOutcome and planned without an error.                       *)
LEMMA AllowedIsValid ==
    ASSUME NEW sources,
           \A s \in ToSet(sources) : IsSource(s),
           NEW limits, NEW read,
           ValidateFacet(sources, limits, TRUE, Served, read) = "Allowed"
    PROVE  WithinBudgets(sources, limits) /\ Valid(sources)
<1>1. /\ WithinBudgets(sources, limits) /\ ValidSemantics(sources)
      /\ {s \in ToSet(sources) : SourceReason(s, TRUE, Served) # ""} = {}
  BY DEF ValidateFacet
<1>2. ASSUME NEW s \in ToSet(sources)
      PROVE  ConfigurationOutcome(s) = "accepted" /\ s.descriptor /\ PlanReason(s) = ""
  <2>1. s.descriptor /\ PlanReason(s) = ""
    <3>1. SourceReason(s, TRUE, Served) = ""
      BY <1>1
    <3>2. s.descriptor
      BY <1>1 DEF ValidSemantics
    <3> QED BY <3>1, <3>2 DEF SourceReason
  <2>2. /\ ExtractionFailures(s.fields) = {} /\ TypedFailures(s.fields) = {}
        /\ ~OperatorIssue(s) /\ ~AggregationIssue(s) /\ ~GroupingIssue(s)
    BY <1>1 DEF ValidSemantics, ValidDeclarations
  <2>3. OperatorFailures(s.fields) = {}
    <3>1. IsList(s.fields) /\ \A f \in ToSet(s.fields) : IsList(f.operators)
      BY DEF IsSource
    <3> QED BY <2>2, <3>1, NoOperatorFailure
  <2>4. \A d \in ToSet(s.aggregations) : AggregateReason(d, s.fields) = ""
    BY <2>2 DEF AggregationIssue, GroupingIssue
  <2> QED BY <2>1, <2>2, <2>3, <2>4 DEF ConfigurationOutcome
<1> QED BY <1>1, <1>2 DEF Valid

(***************************************************************************)
(* The steps that are not part of an attempt, or end one.                   *)
(***************************************************************************)

(* The form of a Facet's sources.                                           *)
LEMMA SourcesShape ==
    ASSUME Control
    PROVE  /\ IsList(Sources) /\ Len(Sources) \in Nat /\ DOMAIN Sources = 1 .. Len(Sources)
           /\ (Sources = <<>>) = (Len(Sources) = 0)
           /\ \A s \in ToSet(Sources) : IsSource(s)
           /\ \A i \in DOMAIN Sources : Sources[i] \in ToSet(Sources)
<1>1. /\ IsList(Sources)
      /\ \A s \in ToSet(Sources) : IsSource(s)
  <2>1. CASE facet = 0
    <3>1. Sources = <<>>
      BY <2>1 DEF Sources
    <3>2. ToSet(Sources) = {}
      BY <3>1 DEF ToSet
    <3> QED BY <3>1, <3>2 DEF IsList
  <2>2. CASE facet # 0
    <3>1. Sources = Facets[facet]
      BY <2>2 DEF Sources
    <3>2. DOMAIN Facets = 1 .. Len(Facets) /\ Len(Facets) \in Nat
          /\ \A i \in DOMAIN Facets : Facets[i] \in ToSet(Facets)
      BY EvaluationAssumption, ListPositions
    <3>3. Sources \in ToSet(Facets)
      BY <2>2, <3>1, <3>2 DEF Control
    <3> QED BY <3>3, EvaluationAssumption
  <2> QED BY <2>1, <2>2
<1> QED BY <1>1, ListPositions

(* Nothing of an attempt is left: what Reset establishes.                   *)
LEMMA ResetKeeps ==
    ASSUME Inv, Reset, pc' \in {"stopped", "idle"}, UNCHANGED <<facet, admitted>>,
           IsStatus(status)'
    PROVE  Loops' /\ Webhook' /\ Blames' /\ Records'
<1>1. /\ completed' = {} /\ retryable' = FALSE /\ terminal' = "result"
      /\ snapshot' = NoSnapshot /\ Sources' = Sources
  BY DEF Reset, Sources
<1>2. pc' \in Early /\ pc' \notin {"load", "plan", "routes", "read", "evaluate", "compose"}
  BY DEF Early
<1>3. Loops'
  BY <1>1, <1>2 DEF Loops
<1>4. Webhook'
  BY <1>1, <1>2 DEF Inv, Webhook
<1>5. snapshot'.terminal = ""
  BY <1>1 DEF NoSnapshot
<1>6. Blames'
  BY <1>2, <1>5 DEF Blames, Unavailable
<1>7. Records'
  BY <1>2, <1>5 DEF Records, Loaded
<1> QED BY <1>3, <1>4, <1>6, <1>7

(* The initial state.                                                       *)
LEMMA InitInv == Init => Inv
<1> SUFFICES ASSUME Init PROVE Inv
  OBVIOUS
<1>1. /\ pc = "stopped" /\ facet = 0 /\ policy = 1 /\ world = 1 /\ writes = 0 /\ attempts = 0
      /\ completed = {} /\ retryable = FALSE /\ terminal = "result" /\ published = FALSE
      /\ expired = FALSE /\ onLease = FALSE /\ outcome = "none" /\ admitted = {}
      /\ snapshot = NoSnapshot /\ status = Status(0, <<>>, {})
  BY DEF Init
<1>2. pc \in Early /\ ~Running
  BY <1>1 DEF Early, Running
<1>3. Control
  <2>1. Len(Facets) \in Nat /\ 1 \in 1 .. Len(Policies) /\ 1 \in 1 .. Len(Worlds)
    BY EvaluationAssumption, ListPositions
  <2>2. /\ facet \in 0 .. Len(Facets) /\ policy \in 1 .. Len(Policies)
        /\ world \in 1 .. Len(Worlds)
        /\ attempts \in Nat /\ writes \in Nat /\ writes <= attempts
    BY <1>1, <2>1
  <2>3. /\ expired \in BOOLEAN /\ onLease \in BOOLEAN /\ retryable \in BOOLEAN
        /\ published \in BOOLEAN /\ ~published
    BY <1>1, Zenon
  <2>4. pc \in Steps /\ outcome \in {"none", "done", "error"} /\ terminal \in {"result", "budget"}
    BY <1>1 DEF Steps
  <2> QED BY <1>2, <2>2, <2>3, <2>4 DEF Control
<1>4. Loops
  BY <1>1, <1>2 DEF Loops, Early
<1>5. Webhook
  BY <1>1, <1>2 DEF Webhook
<1>6. snapshot.terminal = ""
  BY <1>1 DEF NoSnapshot
<1>7. Blames
  BY <1>2, <1>6 DEF Blames, Unavailable
<1>8. IsStatus(status)
  <2>1. IsList(<<>>)
    BY DEF IsList
  <2> QED BY <1>1, <2>1 DEF IsStatus, Status
<1>9. Records
  BY <1>2, <1>6, <1>8 DEF Records, Loaded
<1>10. TransientIsRetried /\ AdmittedIsAccepted
  BY <1>1 DEF TransientIsRetried, AdmittedIsAccepted
<1> QED BY <1>3, <1>4, <1>5, <1>7, <1>9, <1>10 DEF Inv

(* While nothing is published the status may say anything.                  *)
LEMMA Unpublished ==
    ASSUME published' = FALSE
    PROVE  TransientIsRetried' /\ AdmittedIsAccepted'
BY DEF TransientIsRetried, AdmittedIsAccepted

(* Start: nothing is left of an attempt, and nothing is published.          *)
LEMMA StartInv ==
    ASSUME Inv, Start
    PROVE  Inv'
<1>1. /\ Reset /\ outcome' = "none" /\ published' = FALSE
      /\ UNCHANGED <<facet, policy, world, admitted, status, writes, attempts>>
      /\ pc' \in {"stopped", "idle"}
  BY DEF Start, stored
<1>2. Control'
  BY <1>1 DEF Inv, Control, Steps, Running, Reset
<1>3. IsStatus(status)'
  BY <1>1 DEF Inv, Records, IsStatus
<1>4. Loops' /\ Webhook' /\ Blames' /\ Records'
  BY <1>1, <1>3, ResetKeeps
<1>5. TransientIsRetried' /\ AdmittedIsAccepted'
  BY <1>1, Unpublished
<1> QED BY <1>2, <1>4, <1>5 DEF Inv

(* An attempt that ends without a status: Abandon, RoutesFail,              *)
(* PublishInterrupted, PublishFails, and Publish where nothing fits.        *)
LEMMA EndInv ==
    ASSUME Inv, Running, NEW returned \in {"done", "error"}, End(returned),
           UNCHANGED <<status, writes, published>>
    PROVE  Inv'
<1>1. /\ Reset /\ outcome' = returned /\ pc' = "idle"
      /\ UNCHANGED <<facet, policy, world, admitted, attempts>>
  BY DEF End, cluster
<1>2. published' = FALSE
  BY DEF Inv, Control
<1>3. Control'
  BY <1>1, <1>2 DEF Inv, Control, Steps, Running, Reset
<1>4. IsStatus(status)'
  BY DEF Inv, Records, IsStatus
<1>5. Loops' /\ Webhook' /\ Blames' /\ Records'
  BY <1>1, <1>4, ResetKeeps
<1>6. TransientIsRetried' /\ AdmittedIsAccepted'
  BY <1>2, Unpublished
<1> QED BY <1>3, <1>5, <1>6 DEF Inv

(* A step that leaves the attempt and the status as they are.               *)
LEMMA FrameInv ==
    ASSUME Inv, UNCHANGED <<pc, profile, facet, admitted, status, work, outcome, published>>
    PROVE  /\ Loops' /\ Webhook' /\ Blames' /\ Records'
           /\ TransientIsRetried' /\ AdmittedIsAccepted'
<1>1. /\ UNCHANGED <<pc, profile, facet, admitted, status, outcome, published>>
      /\ UNCHANGED <<onLease, index, snapshot, planned, selected, results, completed, terminal,
                     retryable>>
      /\ Sources' = Sources
  BY DEF work, Sources
<1>2. Loops'
  BY <1>1 DEF Inv, Loops
<1>3. Webhook'
  BY <1>1 DEF Inv, Webhook
<1>4. Blames'
  BY <1>1 DEF Inv, Blames, Blame, Unavailable
<1>5. Records'
  BY <1>1 DEF Inv, Records, IsStatus, Loaded
<1>6. TransientIsRetried' /\ AdmittedIsAccepted'
  BY <1>1 DEF Inv, TransientIsRetried, AdmittedIsAccepted
<1> QED BY <1>2, <1>3, <1>4, <1>5, <1>6

(* A step that changes nothing.                                             *)
LEMMA StutterInv ==
    ASSUME Inv, UNCHANGED vars
    PROVE  Inv'
<1>1. UNCHANGED <<pc, profile, facet, admitted, status, work, outcome, published>>
  BY DEF vars, cluster, stored, ended
<1>2. Control'
  BY DEF vars, cluster, stored, ended, work, Inv, Control, Running
<1> QED BY <1>1, <1>2, FrameInv DEF Inv

(* Change: the attempt and the status stay as they are.                     *)
LEMMA ChangeInv ==
    ASSUME Inv, Change
    PROVE  Inv'
<1>1. /\ UNCHANGED <<pc, profile, facet, admitted, status, work, outcome, published>>
      /\ UNCHANGED <<writes, attempts, expired, onLease, retryable, terminal>>
      /\ policy' \in 1 .. Len(Policies) /\ world' \in 1 .. Len(Worlds)
  BY DEF Change, stored, ended, work, Inv, Control
<1>2. Control'
  BY <1>1 DEF Inv, Control, Running
<1> QED BY <1>1, <1>2, FrameInv DEF Inv

(* Expire: only the deadline has passed.                                    *)
LEMMA ExpireInv ==
    ASSUME Inv, Expire
    PROVE  Inv'
<1>1. /\ UNCHANGED <<pc, profile, facet, admitted, status, work, outcome, published>>
      /\ UNCHANGED <<policy, world, writes, attempts, onLease, retryable, terminal>>
  BY DEF Expire, cluster, stored, ended, work
<1>2. expired' = TRUE
  BY DEF Expire
<1>3. Control'
  BY <1>1, <1>2 DEF Inv, Control, Running
<1> QED BY <1>1, <1>3, FrameInv DEF Inv

(* A Facet that the webhook has admitted is valid within its limits.        *)
LEMMA CreateInv ==
    ASSUME Inv, Create
    PROVE  Inv'
<1>1. /\ facet = 0 /\ pc = "idle" /\ facet' \in 1 .. Len(Facets)
      /\ UNCHANGED <<profile, policy, world, status, writes, pc, attempts, expired, outcome,
                     published, onLease, index, snapshot, planned, selected, results, completed,
                     terminal, retryable>>
  BY DEF Create, stored, work, ended
<1>2. /\ ~published /\ pc \in Early /\ pc \notin {"load", "plan", "routes", "read", "evaluate",
                                                   "compose", "publish"}
      /\ completed = {} /\ ~retryable /\ terminal = "result" /\ snapshot = NoSnapshot
  BY <1>1 DEF Inv, Control, Loops, Early
<1>3. Control'
  <2>1. facet' \in 0 .. Len(Facets) /\ facet' # 0
    BY <1>1, EvaluationAssumption, ListPositions
  <2> QED BY <1>1, <1>2, <2>1 DEF Inv, Control, Running
<1>4. Loops'
  BY <1>1, <1>2 DEF Loops
<1>5. Webhook'
  <2> DEFINE read == LoadWithValidation("succeeded", Policies[policy], FALSE)
  <2>1. Sources' = Facets[facet'] /\ facet' # 0
    BY <1>1, EvaluationAssumption, ListPositions DEF Sources
  <2>2. admitted' = IF ValidateFacet(Sources', profile, TRUE, Served, read) = "Allowed"
                    THEN {profile} ELSE {}
    BY <2>1 DEF Create
  <2>3. CASE ValidateFacet(Sources', profile, TRUE, Served, read) = "Allowed"
    <3>1. \A s \in ToSet(Sources') : IsSource(s)
      <4>1. /\ DOMAIN Facets = 1 .. Len(Facets)
            /\ \A i \in DOMAIN Facets : Facets[i] \in ToSet(Facets)
        BY EvaluationAssumption, ListPositions
      <4> QED BY <1>1, <2>1, <4>1, EvaluationAssumption
    <3>2. WithinBudgets(Sources', profile) /\ Valid(Sources')
      <4> HIDE DEF read
      <4> QED BY <2>3, <3>1, AllowedIsValid
    <3>3. admitted' = {profile}
      BY <2>2, <2>3
    <3> QED BY <1>1, <1>2, <2>1, <3>2, <3>3 DEF Webhook
  <2>4. CASE ValidateFacet(Sources', profile, TRUE, Served, read) # "Allowed"
    <3>1. admitted' = {}
      BY <2>2, <2>4
    <3> QED BY <1>1, <1>2, <3>1 DEF Webhook
  <2> QED BY <2>3, <2>4
<1>6. Blames'
  BY <1>1, <1>2 DEF Blames, Inv, Unavailable
<1>7. Records'
  BY <1>1, <1>2 DEF Records, Inv, IsStatus, Loaded
<1>8. TransientIsRetried' /\ AdmittedIsAccepted'
  BY <1>1, <1>2 DEF TransientIsRetried, AdmittedIsAccepted
<1> QED BY <1>3, <1>4, <1>5, <1>6, <1>7, <1>8 DEF Inv

(* Annotate: the condition of another writer is none of the five.           *)
LEMMA AnnotateInv ==
    ASSUME Inv, Annotate
    PROVE  Inv'
<1> DEFINE new == [Condition("Foreign", "True", "Foreign", 0, 0) EXCEPT !.since = attempts]
<1>1. /\ pc = "publish"
      /\ UNCHANGED <<profile, facet, policy, world, admitted, writes, pc, attempts, expired,
                     outcome, published, onLease, index, snapshot, planned, selected, results,
                     completed, terminal, retryable>>
      /\ status' = [status EXCEPT !.conditions = Append(@, new)]
  BY DEF Annotate, work, ended
<1>2. ~published /\ Sources' = Sources
  BY <1>1 DEF Inv, Control, Running, Sources
<1>3. Control'
  BY <1>1 DEF Inv, Control, Running
<1>4. Loops'
  BY <1>1, <1>2 DEF Inv, Loops
<1>5. Webhook'
  BY <1>1, <1>2 DEF Inv, Webhook
<1>6. Blames'
  BY <1>1, <1>2 DEF Inv, Blames, Blame, Unavailable
<1>7. IsStatus(status')
  <2> HIDE DEF new
  <2>1. IsStatus(status)
    BY DEF Inv, Records
  <2>2. IsList(Append(status.conditions, new))
    <3>1. status.conditions \in Seq(ToSet(status.conditions) \cup {new})
      BY <2>1 DEF IsStatus, IsList
    <3>2. Append(status.conditions, new) \in Seq(ToSet(status.conditions) \cup {new})
      BY <3>1
    <3> QED BY <3>2, SequenceIsList
  <2>3. /\ status'.conditions = Append(status.conditions, new)
        /\ status' = [generation |-> status.generation,
                      conditions |-> Append(status.conditions, new),
                      result |-> status.result, summary |-> status.summary]
    BY <1>1, <2>1 DEF IsStatus
  <2> QED BY <2>2, <2>3 DEF IsStatus
<1>8. Records'
  BY <1>1, <1>2, <1>7 DEF Inv, Records, Loaded
<1>9. TransientIsRetried' /\ AdmittedIsAccepted'
  BY <1>1, <1>2 DEF TransientIsRetried, AdmittedIsAccepted
<1> QED BY <1>3, <1>4, <1>5, <1>6, <1>8, <1>9 DEF Inv

(* Begin: the attempt starts from nothing, and has not published yet.       *)
LEMMA BeginInv ==
    ASSUME Inv, Begin
    PROVE  Inv'
<1>1. /\ pc = "idle" /\ facet # 0 /\ pc' = "validate" /\ attempts' = attempts + 1
      /\ outcome' = "none" /\ published' = FALSE
      /\ UNCHANGED <<profile, facet, policy, world, admitted, status, writes, expired, onLease,
                     index, snapshot, planned, selected, results, completed, terminal, retryable>>
  BY DEF Begin, cluster, stored, work
<1>2. /\ Sources' = Sources /\ pc \in Early /\ pc' \in Early
      /\ pc' \notin {"load", "plan", "routes", "read", "evaluate", "compose", "publish"}
  BY <1>1 DEF Sources, Early
<1>3. Control'
  <2>1. attempts' \in Nat /\ writes' \in Nat /\ writes' <= attempts' /\ writes' < attempts'
    BY <1>1 DEF Inv, Control
  <2>2. pc' \in Steps /\ outcome' \in {"none", "done", "error"}
    BY <1>1 DEF Steps
  <2>3. published' \in BOOLEAN /\ ~published' /\ facet' # 0
    BY <1>1, Zenon
  <2> QED BY <1>1, <2>1, <2>2, <2>3 DEF Inv, Control
<1>4. Loops'
  BY <1>1, <1>2 DEF Inv, Loops
<1>5. Webhook'
  BY <1>1, <1>2 DEF Inv, Webhook, Loops
<1>6. Blames'
  BY <1>1, <1>2 DEF Inv, Blames, Unavailable
<1>7. Records'
  BY <1>1, <1>2 DEF Inv, Records, IsStatus, Loaded
<1>8. TransientIsRetried' /\ AdmittedIsAccepted'
  BY <1>1, Unpublished
<1> QED BY <1>3, <1>4, <1>5, <1>6, <1>7, <1>8 DEF Inv

(***************************************************************************)
(* The steps of an attempt.                                                 *)
(***************************************************************************)

(* What a step within an attempt leaves alone.                              *)
LEMMA WithinAttempt ==
    ASSUME Inv, Running, pc' \in Steps,
           UNCHANGED <<facet, policy, world, attempts, writes, outcome, published>>,
           expired' \in BOOLEAN, onLease' \in BOOLEAN, retryable' \in BOOLEAN,
           terminal' \in {"result", "budget"}
    PROVE  /\ Control' /\ TransientIsRetried' /\ AdmittedIsAccepted' /\ Sources' = Sources
           /\ published' = FALSE
<1>1. ~published /\ facet # 0 /\ writes < attempts /\ published \in BOOLEAN
  BY DEF Inv, Control
<1>2. published' = FALSE
  BY <1>1
<1>3. TransientIsRetried' /\ AdmittedIsAccepted'
  BY <1>2, Unpublished
<1>4. Control'
  BY <1>1 DEF Inv, Control
<1> QED BY <1>2, <1>3, <1>4 DEF Sources

(* ReplaceRoutes: the loop over the sources starts, or there is none.       *)
LEMMA ReplaceRoutesInv ==
    ASSUME Inv, ReplaceRoutes
    PROVE  Inv'
<1>1. /\ pc = "routes"
      /\ \/ Sources = <<>> /\ pc' = "compose"
         \/ Sources # <<>> /\ pc' = "read" /\ index' = 1
      /\ UNCHANGED <<profile, facet, policy, world, admitted, status, writes, attempts, expired,
                     onLease, snapshot, planned, selected, results, completed, terminal,
                     retryable, outcome, published>>
  BY DEF ReplaceRoutes, Live, cluster, stored, ended
<1>2. /\ Control' /\ TransientIsRetried' /\ AdmittedIsAccepted' /\ Sources' = Sources
  <2>1. Running /\ pc' \in Steps
    BY <1>1 DEF Running, Steps
  <2>2. /\ expired' \in BOOLEAN /\ onLease' \in BOOLEAN /\ retryable' \in BOOLEAN
        /\ terminal' \in {"result", "budget"}
    BY <1>1 DEF Inv, Control
  <2> QED BY <1>1, <2>1, <2>2, WithinAttempt
<1>3. pc \notin Early /\ pc' \notin Early
  BY <1>1 DEF Early
<1>4. Loops'
  <2>1. /\ DOMAIN Sources = 1 .. Len(Sources) /\ Len(Sources) \in Nat
        /\ (Sources = <<>>) = (Len(Sources) = 0)
    BY SourcesShape DEF Inv
  <2>2. completed' = {} /\ (1 .. 0) = {}
    BY <1>1 DEF Inv, Loops
  <2>3. pc' = "compose" => completed' = DOMAIN Sources'
    BY <1>1, <1>2, <2>1, <2>2
  <2>4. pc' # "compose" => index' \in DOMAIN Sources' /\ completed' = 1 .. (index' - 1)
    BY <1>1, <1>2, <2>1, <2>2
  <2> QED BY <1>1, <1>2, <1>3, <2>3, <2>4 DEF Inv, Loops
<1>5. Webhook'
  BY <1>1, <1>2, <1>3 DEF Inv, Webhook
<1>6. Blames'
  BY <1>1, <1>2, <1>3 DEF Inv, Blames, Blame, Unavailable
<1>7. Records'
  BY <1>1, <1>2, <1>3 DEF Inv, Records, IsStatus, Loaded
<1> QED BY <1>2, <1>4, <1>5, <1>6, <1>7 DEF Inv

(* AllCompleted: every source has its result.                               *)
LEMMA AllCompletedInv ==
    ASSUME Inv, AllCompleted
    PROVE  Inv'
<1>1. /\ pc = "compose" /\ pc' = "publish" /\ onLease' = expired
      /\ UNCHANGED <<profile, facet, policy, world, admitted, status, writes, attempts, expired,
                     snapshot, planned, selected, results, completed, terminal,
                     retryable, outcome, published>>
  BY DEF AllCompleted, cluster, stored, ended
<1>2. /\ Control' /\ TransientIsRetried' /\ AdmittedIsAccepted' /\ Sources' = Sources
  <2>1. Running /\ pc' \in Steps
    BY <1>1 DEF Running, Steps
  <2>2. /\ expired' \in BOOLEAN /\ onLease' \in BOOLEAN /\ retryable' \in BOOLEAN
        /\ terminal' \in {"result", "budget"}
    BY <1>1 DEF Inv, Control
  <2> QED BY <1>1, <2>1, <2>2, WithinAttempt
<1>3. pc \notin Early /\ pc' \notin Early
  BY <1>1 DEF Early
<1>4. Loops'
  BY <1>1, <1>2, <1>3 DEF Inv, Loops
<1>5. Webhook'
  BY <1>1, <1>2, <1>3 DEF Inv, Webhook
<1>6. Blames'
  BY <1>1, <1>2, <1>3 DEF Inv, Blames, Blame, Unavailable
<1>7. Records'
  BY <1>1, <1>2, <1>3 DEF Inv, Records, IsStatus, Loaded
<1> QED BY <1>2, <1>4, <1>5, <1>6, <1>7 DEF Inv

(* A source that has timed out is blamed, and the attempt is repeated.      *)
LEMMA FinishTimedOutInv ==
    ASSUME Inv, FinishTimedOut
    PROVE  Inv'
<1>1. /\ pc \in {"load", "plan", "routes", "read", "evaluate"}
      /\ pc' = "publish" /\ onLease' = TRUE /\ retryable' = TRUE
      /\ results' = [i \in DOMAIN Sources |->
                        IF i \in completed THEN results[i] ELSE SourceError("EvaluationTimedOut")]
      /\ UNCHANGED <<profile, facet, policy, world, admitted, status, writes, attempts, expired,
                     snapshot, planned, selected, completed, terminal, outcome, published>>
  BY DEF FinishTimedOut, cluster, stored, ended
<1>2. /\ Control' /\ TransientIsRetried' /\ AdmittedIsAccepted' /\ Sources' = Sources
  <2>1. Running /\ pc' \in Steps
    BY <1>1 DEF Running, Steps
  <2>2. expired' \in BOOLEAN /\ terminal' \in {"result", "budget"}
    BY <1>1 DEF Inv, Control
  <2>3. onLease' \in BOOLEAN /\ retryable' \in BOOLEAN
    BY <1>1, Zenon
  <2> QED BY <1>1, <2>1, <2>2, <2>3, WithinAttempt
<1>3. pc \notin Early /\ pc' \notin Early
  BY <1>1 DEF Early
<1>4. Loops'
  BY <1>1, <1>2, <1>3 DEF Inv, Loops
<1>5. Webhook'
  BY <1>1, <1>2, <1>3 DEF Inv, Webhook
<1>6. Blames'
  BY <1>1, <1>2, <1>3 DEF Blames, Blame
<1>7. Records'
  <2>1. ASSUME NEW i \in DOMAIN Sources PROVE IsResult(results'[i])
    <3>1. IsResult(results[i])
      BY <1>3 DEF Inv, Records
    <3>2. IsResult(SourceError("EvaluationTimedOut"))
      BY DEF IsResult, SourceError
    <3> QED BY <1>1, <3>1, <3>2
  <2> QED BY <1>1, <1>2, <1>3, <2>1 DEF Inv, Records, IsStatus, Loaded
<1> QED BY <1>2, <1>4, <1>5, <1>6, <1>7 DEF Inv

(* The policy is loaded; one that is unavailable is a reason to repeat.     *)
LEMMA LoadInv ==
    ASSUME Inv, Load
    PROVE  Inv'
<1>1. /\ pc = "load" /\ pc' = "plan" /\ index' = 1
      /\ retryable' = (snapshot'.terminal = "PolicyUnavailable")
      /\ \E read \in {"succeeded", "failed"} :
            snapshot' = LoadWithValidation(read, Policies[policy], TRUE)
      /\ UNCHANGED <<profile, facet, policy, world, admitted, status, writes, attempts, expired,
                     onLease, planned, selected, results, completed, terminal, outcome,
                     published>>
  BY DEF Load, Live, cluster, stored, ended
<1>2. /\ Control' /\ TransientIsRetried' /\ AdmittedIsAccepted' /\ Sources' = Sources
  <2>1. Running /\ pc' \in Steps
    BY <1>1 DEF Running, Steps
  <2>2. expired' \in BOOLEAN /\ onLease' \in BOOLEAN /\ terminal' \in {"result", "budget"}
    BY <1>1 DEF Inv, Control
  <2>3. retryable' \in BOOLEAN
    BY <1>1, Zenon
  <2> QED BY <1>1, <2>1, <2>2, <2>3, WithinAttempt
<1>3. pc \notin Early /\ pc' \notin Early
  BY <1>1 DEF Early
<1>4. snapshot'.terminal \in {"", "PolicyUnavailable", "PolicyMissing", "PolicyInvalid"}
  <2>1. PICK read \in {"succeeded", "failed"} :
           snapshot' = LoadWithValidation(read, Policies[policy], TRUE)
    BY <1>1
  <2>2. LoadWithValidation("failed", Policies[policy], TRUE).terminal = "PolicyUnavailable"
    BY DEF LoadWithValidation, DenyAll
  <2>3. LoadWithValidation("succeeded", Policies[policy], TRUE).terminal
            \in {"", "PolicyMissing", "PolicyInvalid"}
    BY DEF LoadWithValidation, DenyAll
  <2> QED BY <2>1, <2>2, <2>3
<1>5. Loops'
  <2>1. /\ DOMAIN Sources = 1 .. Len(Sources) /\ Len(Sources) \in Nat
        /\ (Sources = <<>>) = (Len(Sources) = 0)
    BY SourcesShape DEF Inv
  <2>2. index' \in DOMAIN Sources'
    BY <1>1, <1>2, <2>1 DEF Inv, Loops
  <2> QED BY <1>1, <1>2, <1>3, <2>2 DEF Inv, Loops
<1>6. Webhook'
  BY <1>1, <1>2, <1>3 DEF Inv, Webhook
<1>7. Blames'
  <2>1. snapshot'.terminal = "PolicyUnavailable" => retryable'
    BY <1>1
  <2>2. ~retryable
    BY <1>1 DEF Inv, Loops
  <2>3. ASSUME NEW i \in DOMAIN Sources PROVE Blame(i)'
    <3>1. Blame(i)
      BY <1>3 DEF Inv, Blames
    <3> QED BY <1>1, <2>2, <3>1 DEF Blame
  <2> QED BY <1>2, <2>1, <2>3 DEF Blames, Unavailable
<1>8. Records'
  BY <1>1, <1>2, <1>3, <1>4 DEF Inv, Records, IsStatus, Loaded
<1> QED BY <1>2, <1>5, <1>6, <1>7, <1>8 DEF Inv

(* The first assessment of a source.                                        *)
LEMMA FirstAssessment ==
    ASSUME NEW source,
           NEW e, e = [assessment |-> [configuration |-> ConfigurationOutcome(source),
                                       authorization |-> "not-evaluated",
                                       resolution |-> "not-evaluated"],
                       err |-> "", canExecute |-> FALSE]
    PROVE  /\ e \in Entry /\ e.assessment.configuration = ConfigurationOutcome(source)
           /\ e.assessment.authorization = "not-evaluated"
           /\ e.assessment.resolution = "not-evaluated" /\ e.canExecute = FALSE
<1> DEFINE a == [configuration |-> ConfigurationOutcome(source),
                 authorization |-> "not-evaluated", resolution |-> "not-evaluated"]
           no == FALSE
<1>1. ConfigurationOutcome(source) \in Configurations
  BY DEF ConfigurationOutcome, Configurations
<1>2. a \in Assessment
  BY <1>1 DEF Assessment, Authorizations, Resolutions
<1>3. /\ a.configuration = ConfigurationOutcome(source)
      /\ a.authorization = "not-evaluated" /\ a.resolution = "not-evaluated"
  OBVIOUS
<1>4. e = [assessment |-> a, err |-> "", canExecute |-> no]
  OBVIOUS
<1>5. "" \in PlanErrors /\ no \in BOOLEAN
  BY DEF PlanErrors
<1>6. e \in Entry /\ e.assessment = a /\ e.canExecute = no
  <2> HIDE DEF a, no
  <2> QED BY ONLY <1>2, <1>4, <1>5 DEF Entry
<1>7. e.canExecute = FALSE
  BY <1>6 DEF no
<1> HIDE DEF a
<1> QED BY <1>3, <1>6, <1>7

(* ValidateBudgets: a Facet over its budgets is not one that the webhook has*)
(* admitted under these limits, and an admitted one is assessed accepted.   *)
LEMMA ValidateBudgetsInv ==
    ASSUME Inv, ValidateBudgets
    PROVE  Inv'
<1> DEFINE entry(i) == [assessment |-> [configuration |-> ConfigurationOutcome(Sources[i]),
                                        authorization |-> "not-evaluated",
                                        resolution |-> "not-evaluated"],
                        err |-> "", canExecute |-> FALSE]
<1>1. /\ pc = "validate"
      /\ planned' = [i \in DOMAIN Sources |-> entry(i)]
      /\ selected' = [i \in DOMAIN Sources |-> Nothing]
      /\ results' = [i \in DOMAIN Sources |-> SourceError("")]
      /\ UNCHANGED <<profile, facet, policy, world, admitted, status, writes, attempts, expired,
                     index, snapshot, completed, outcome, published>>
  BY DEF ValidateBudgets, cluster, stored, ended
<1>2. \/ /\ WithinBudgets(Sources, profile)
         /\ pc' = (IF Sources = <<>> THEN "routes" ELSE "load")
         /\ UNCHANGED <<onLease, terminal, retryable>>
      \/ /\ ~WithinBudgets(Sources, profile)
         /\ pc' = "publish" /\ onLease' = TRUE /\ terminal' = "budget" /\ retryable' = TRUE
  BY DEF ValidateBudgets
<1>3. /\ pc \in Early /\ completed = {} /\ ~retryable /\ terminal = "result"
      /\ snapshot = NoSnapshot
  BY <1>1 DEF Inv, Loops, Early
<1>4. /\ Control' /\ TransientIsRetried' /\ AdmittedIsAccepted' /\ Sources' = Sources
  <2>1. Running /\ pc' \in Steps
    BY <1>1, <1>2 DEF Running, Steps
  <2>2. expired' \in BOOLEAN
    BY <1>1 DEF Inv, Control
  <2>3. terminal' \in {"result", "budget"}
    BY <1>2, <1>3
  <2>4. onLease' \in BOOLEAN
    <3>1. CASE UNCHANGED onLease
      BY <3>1 DEF Inv, Control
    <3>2. CASE onLease' = TRUE
      BY <3>2, Zenon
    <3> QED BY <1>2, <3>1, <3>2
  <2>5. retryable' \in BOOLEAN
    <3>1. CASE UNCHANGED retryable
      BY <3>1 DEF Inv, Control
    <3>2. CASE retryable' = TRUE
      BY <3>2, Zenon
    <3> QED BY <1>2, <3>1, <3>2
  <2> QED BY <1>1, <2>1, <2>2, <2>3, <2>4, <2>5, WithinAttempt
<1>5. /\ DOMAIN Sources = 1 .. Len(Sources) /\ Len(Sources) \in Nat
      /\ \A i \in DOMAIN Sources : Sources[i] \in ToSet(Sources)
  BY SourcesShape DEF Inv
<1>6. ASSUME NEW i \in DOMAIN Sources
      PROVE  /\ planned'[i] \in Entry
             /\ planned'[i].assessment.configuration = ConfigurationOutcome(Sources[i])
             /\ planned'[i].assessment.authorization = "not-evaluated"
             /\ planned'[i].assessment.resolution = "not-evaluated"
             /\ planned'[i].canExecute = FALSE
  <2>1. planned'[i] = entry(i)
    BY <1>1
  <2> QED BY <2>1, FirstAssessment
<1>7. planned' \in Seq(Entry) /\ Len(planned') = Len(Sources)
  <2> HIDE DEF entry
  <2>1. DOMAIN planned' = 1 .. Len(Sources) /\ planned' = [i \in 1 .. Len(Sources) |-> entry(i)]
    BY <1>1, <1>5
  <2>2. \A i \in 1 .. Len(Sources) : planned'[i] \in Entry
    BY <1>5, <1>6
  <2>3. planned' \in [1 .. Len(Sources) -> Entry]
    BY <2>1, <2>2
  <2> QED BY <1>5, <2>3
<1>8. pc' \notin Early /\ pc' \in {"routes", "load", "publish"}
  BY <1>2 DEF Early
<1>9. Loops'
  <2>1. DOMAIN selected' = DOMAIN Sources /\ DOMAIN results' = DOMAIN Sources
    BY <1>1
  <2>2. pc' = "load" => Sources # <<>> /\ ~retryable'
    BY <1>2, <1>3
  <2> QED BY <1>1, <1>3, <1>4, <1>7, <1>8, <2>1, <2>2 DEF Loops
<1>10. Webhook'
  <2>1. terminal' = "budget" => /\ pc' = "publish" /\ retryable'
                                /\ ~WithinBudgets(Sources, profile)
    BY <1>2, <1>3
  <2>2. ASSUME admitted # {}, NEW i \in DOMAIN Sources
        PROVE  planned'[i].assessment.configuration = "accepted"
    <3>1. Valid(Sources)
      BY <2>2 DEF Inv, Webhook
    <3> QED BY <1>5, <1>6, <3>1 DEF Valid
  <2> QED BY <1>1, <1>4, <2>1, <2>2 DEF Inv, Webhook
<1>11. /\ \A i \in DOMAIN Sources : selected'[i] = Nothing /\ results'[i] = SourceError("")
       /\ Nothing = [err |-> Nothing.err, resources |-> Nothing.resources] /\ Nothing.err = ""
       /\ IsList(Nothing.resources)
       /\ IsResult(SourceError("")) /\ SourceError("").err = ""
  <2>1. \A i \in DOMAIN Sources : selected'[i] = Nothing /\ results'[i] = SourceError("")
    BY <1>1
  <2>2. Nothing.resources = <<>> /\ IsList(<<>>)
    BY DEF Nothing, IsList
  <2>3. Nothing = [err |-> Nothing.err, resources |-> Nothing.resources] /\ Nothing.err = ""
    BY DEF Nothing
  <2>4. IsResult(SourceError("")) /\ SourceError("").err = ""
    BY DEF SourceError, IsResult
  <2> QED BY <2>1, <2>2, <2>3, <2>4
<1>12. Blames'
  <2>1. ASSUME NEW i \in DOMAIN Sources PROVE Blame(i)'
    BY <1>6, <1>11 DEF Blame, Passing
  <2>2. snapshot'.terminal = ""
    BY <1>1, <1>3 DEF NoSnapshot
  <2> QED BY <1>4, <2>1, <2>2 DEF Blames, Unavailable
<1>13. Records'
  BY <1>1, <1>4, <1>6, <1>11 DEF Inv, Records, IsStatus, Loaded
<1> QED BY <1>4, <1>9, <1>10, <1>12, <1>13 DEF Inv

(* The parts of an entry of the plan, and an entry of these parts.          *)
EntryWith(c, a, r, m, x) ==
    [assessment |-> [configuration |-> c, authorization |-> a, resolution |-> r],
     err |-> m, canExecute |-> x]

(* The parts of a plan's entry ...                                          *)
LEMMA EntryParts ==
    ASSUME NEW e \in Entry
    PROVE  /\ e.assessment.configuration \in Configurations
           /\ e.assessment.authorization \in Authorizations
           /\ e.assessment.resolution \in Resolutions
           /\ e.err \in PlanErrors /\ e.canExecute \in BOOLEAN
           /\ e = EntryWith(e.assessment.configuration, e.assessment.authorization,
                            e.assessment.resolution, e.err, e.canExecute)
<1>1. /\ e.assessment \in Assessment /\ e.err \in PlanErrors /\ e.canExecute \in BOOLEAN
      /\ e = [assessment |-> e.assessment, err |-> e.err, canExecute |-> e.canExecute]
  BY DEF Entry
<1> DEFINE a == e.assessment
<1>2. /\ a.configuration \in Configurations /\ a.authorization \in Authorizations
      /\ a.resolution \in Resolutions
      /\ a = [configuration |-> a.configuration, authorization |-> a.authorization,
              resolution |-> a.resolution]
  <2>1. a \in Assessment
    BY <1>1
  <2> HIDE DEF a
  <2> QED BY <2>1 DEF Assessment
<1> QED BY <1>1, <1>2 DEF EntryWith

(* ... and an entry of these parts.                                         *)
LEMMA EntryOf ==
    ASSUME NEW c \in Configurations, NEW a \in Authorizations, NEW r \in Resolutions,
           NEW m \in PlanErrors, NEW x \in BOOLEAN,
           NEW e, e = EntryWith(c, a, r, m, x)
    PROVE  /\ e \in Entry /\ e.assessment.configuration = c /\ e.assessment.authorization = a
           /\ e.assessment.resolution = r /\ e.err = m /\ e.canExecute = x
<1> DEFINE s == [configuration |-> c, authorization |-> a, resolution |-> r]
<1>1. s \in Assessment /\ s.configuration = c /\ s.authorization = a /\ s.resolution = r
  BY DEF Assessment
<1>2. e = [assessment |-> s, err |-> m, canExecute |-> x]
  BY DEF EntryWith
<1> HIDE DEF s
<1> QED BY <1>1, <1>2 DEF Entry

(* assessmentForPlanningError: an entry that blames discovery has met it    *)
(* unavailable, and only a source that cannot be planned is invalid.        *)
LEMMA UnplannedEntry ==
    ASSUME NEW e \in Entry,
           NEW reason \in {"DiscoveryUnavailable", "UnknownType", "InvalidSelector",
                           "InvalidNamespaceScope", "InvalidDescriptor"},
           NEW u, u = Unplanned(e, reason)
    PROVE  /\ u \in Entry /\ u.canExecute = e.canExecute
           /\ \/ u.assessment.configuration = e.assessment.configuration
              \/ reason \in {"InvalidSelector", "InvalidNamespaceScope", "InvalidDescriptor"}
           /\ \/ u.assessment.authorization = e.assessment.authorization
              \/ reason = "DiscoveryUnavailable"
           /\ \/ u.assessment.resolution \in {e.assessment.resolution, "failed", "resolved"}
              \/ reason = "DiscoveryUnavailable"
           /\ u.err # ""
<1> DEFINE c == e.assessment.configuration
           a == e.assessment.authorization
           r == e.assessment.resolution
           m == e.err
           x == e.canExecute
<1>1. /\ c \in Configurations /\ a \in Authorizations /\ r \in Resolutions /\ m \in PlanErrors
      /\ x \in BOOLEAN /\ e = EntryWith(c, a, r, m, x)
  BY EntryParts
<1> HIDE DEF c, a, r, m, x
<1>2. CASE reason = "DiscoveryUnavailable"
  <2>1. u = EntryWith(c, "unavailable", "unavailable", "InvalidSource", x)
    BY <1>1, <1>2 DEF Unplanned, EntryWith
  <2>2. /\ "unavailable" \in Authorizations /\ "unavailable" \in Resolutions
        /\ "InvalidSource" \in PlanErrors
    BY DEF Authorizations, Resolutions, PlanErrors
  <2>3. /\ u \in Entry /\ u.assessment.configuration = c /\ u.canExecute = x
        /\ u.err = "InvalidSource"
    BY <1>1, <2>1, <2>2, EntryOf
  <2> QED BY <1>2, <2>3 DEF c, x
<1>3. CASE reason = "UnknownType"
  <2>1. u = EntryWith(c, a, "failed", "InvalidSource", x)
    BY <1>1, <1>3 DEF Unplanned, EntryWith
  <2>2. "failed" \in Resolutions /\ "InvalidSource" \in PlanErrors
    BY DEF Resolutions, PlanErrors
  <2>3. /\ u \in Entry /\ u.assessment.configuration = c /\ u.assessment.authorization = a
        /\ u.assessment.resolution = "failed" /\ u.canExecute = x /\ u.err = "InvalidSource"
    BY <1>1, <2>1, <2>2, EntryOf
  <2> QED BY <2>3 DEF c, a, x
<1>4. CASE reason \in {"InvalidSelector", "InvalidNamespaceScope"}
  <2>1. u = EntryWith("invalid", a, "resolved", reason, x)
    BY <1>1, <1>4 DEF Unplanned, EntryWith
  <2>2. "invalid" \in Configurations /\ "resolved" \in Resolutions /\ reason \in PlanErrors
    BY <1>4 DEF Configurations, Resolutions, PlanErrors
  <2>3. /\ u \in Entry /\ u.assessment.authorization = a
        /\ u.assessment.resolution = "resolved" /\ u.canExecute = x /\ u.err = reason
    BY <1>1, <2>1, <2>2, EntryOf
  <2> QED BY <1>4, <2>3 DEF a, x
<1>5. CASE reason = "InvalidDescriptor"
  <2>1. u = EntryWith("invalid", a, r, "InvalidSource", x)
    BY <1>1, <1>5 DEF Unplanned, EntryWith
  <2>2. "invalid" \in Configurations /\ "InvalidSource" \in PlanErrors
    BY DEF Configurations, PlanErrors
  <2>3. /\ u \in Entry /\ u.assessment.authorization = a
        /\ u.assessment.resolution = r /\ u.canExecute = x /\ u.err = "InvalidSource"
    BY <1>1, <2>1, <2>2, EntryOf
  <2> QED BY <1>5, <2>3 DEF a, r, x
<1> QED BY <1>2, <1>3, <1>4, <1>5

(* EvaluateBatch: a target is refused as unavailable only where the policy  *)
(* is.                                                                      *)
LEMMA AuthorizedEntry ==
    ASSUME Loaded, NEW e \in Entry, NEW source, NEW u, u = Authorized(e, source)
    PROVE  /\ u \in Entry /\ u.assessment.configuration = e.assessment.configuration
           /\ u.assessment.resolution = "resolved"
           /\ u.assessment.authorization = "unavailable" => Unavailable
<1> DEFINE c == e.assessment.configuration
           a == e.assessment.authorization
           r == e.assessment.resolution
           m == e.err
           x == e.canExecute
           decision(t) == Evaluate(snapshot, [kind |-> source.kind, namespace |-> t])
           denied == {t \in DeriveTargets(source) : decision(t) # "Allowed"}
           o == AuthorizationOutcome(decision(Max(denied)))
           yes == TRUE
<1>1. /\ c \in Configurations /\ a \in Authorizations /\ r \in Resolutions /\ m \in PlanErrors
      /\ x \in BOOLEAN /\ e = EntryWith(c, a, r, m, x)
  BY EntryParts
<1>2. u = IF denied = {}
          THEN [e EXCEPT !.assessment.resolution = "resolved",
                         !.assessment.authorization = "allowed", !.canExecute = yes]
          ELSE [e EXCEPT !.assessment.resolution = "resolved",
                         !.assessment.authorization = o, !.err = "AuthorizationDenied"]
  BY DEF Authorized
<1>3. /\ "allowed" \in Authorizations /\ "resolved" \in Resolutions
      /\ "AuthorizationDenied" \in PlanErrors /\ yes \in BOOLEAN
  BY DEF Authorizations, Resolutions, PlanErrors
<1>4. o \in Authorizations /\ (o = "unavailable" => Unavailable)
  <2> DEFINE d == decision(Max(denied))
  <2>1. d = "PolicyUnavailable" => snapshot.terminal = "PolicyUnavailable"
    <3> DEFINE q == [kind |-> source.kind, namespace |-> Max(denied)]
    <3>1. d = IF snapshot.terminal # "" THEN snapshot.terminal
              ELSE Decide(CHOOSE p \in snapshot.policy : TRUE, q)
      BY DEF Evaluate
    <3>2. \A p : Decide(p, q) # "PolicyUnavailable"
      <4> HIDE DEF q
      <4> QED BY DEF Decide
    <3> HIDE DEF d, q
    <3> QED BY <3>1, <3>2
  <2>2. o = AuthorizationOutcome(d)
    OBVIOUS
  <2> HIDE DEF d, o
  <2> QED BY <2>1, <2>2 DEF AuthorizationOutcome, Authorizations, Unavailable
<1> HIDE DEF c, a, r, m, x, o, denied, yes
<1>5. CASE denied = {}
  <2>1. u = EntryWith(c, "allowed", "resolved", m, yes)
    BY <1>1, <1>2, <1>5 DEF EntryWith
  <2>2. /\ u \in Entry /\ u.assessment.configuration = c
        /\ u.assessment.authorization = "allowed" /\ u.assessment.resolution = "resolved"
    BY ONLY <1>1, <1>3, <2>1, EntryOf
  <2> QED BY <2>2 DEF c
<1>6. CASE denied # {}
  <2>1. u = EntryWith(c, o, "resolved", "AuthorizationDenied", x)
    BY <1>1, <1>2, <1>6 DEF EntryWith
  <2>2. /\ u \in Entry /\ u.assessment.configuration = c
        /\ u.assessment.authorization = o /\ u.assessment.resolution = "resolved"
    BY ONLY <1>1, <1>3, <1>4, <2>1, EntryOf
  <2> QED BY <1>4, <2>2 DEF c
<1> QED BY <1>5, <1>6

(* The planning loop: what it blames makes the attempt return an error, and *)
(* what was admitted stays accepted.                                        *)
LEMMA PlanInv ==
    ASSUME Inv, Plan
    PROVE  Inv'
<1> DEFINE source == Sources[index]
           entry == planned[index]
           reason(reachable) == SourceReason(source, reachable, Served)
<1>1. /\ pc = "plan"
      /\ \/ index < Len(Sources) /\ pc' = "plan" /\ index' = index + 1
         \/ ~(index < Len(Sources)) /\ pc' = "routes" /\ index' = 0
      /\ UNCHANGED <<profile, facet, policy, world, admitted, status, writes, attempts, expired,
                     onLease, snapshot, selected, results, completed, terminal, outcome,
                     published>>
  BY DEF Plan, Live, Advance, cluster, stored, ended
<1>2. \E reachable \in BOOLEAN :
         \/ UNCHANGED <<planned, retryable>>
         \/ /\ reason(reachable) # ""
            /\ planned' = [planned EXCEPT ![index] = Unplanned(entry, reason(reachable))]
            /\ retryable' = (retryable \/ reason(reachable) = "DiscoveryUnavailable")
         \/ /\ reason(reachable) = ""
            /\ planned' = [planned EXCEPT ![index] = Authorized(entry, source)]
            /\ UNCHANGED retryable
  BY DEF Plan
<1>3. PICK reachable \in BOOLEAN :
         \/ UNCHANGED <<planned, retryable>>
         \/ /\ reason(reachable) # ""
            /\ planned' = [planned EXCEPT ![index] = Unplanned(entry, reason(reachable))]
            /\ retryable' = (retryable \/ reason(reachable) = "DiscoveryUnavailable")
         \/ /\ reason(reachable) = ""
            /\ planned' = [planned EXCEPT ![index] = Authorized(entry, source)]
            /\ UNCHANGED retryable
  BY <1>2
<1>4. /\ DOMAIN Sources = 1 .. Len(Sources) /\ Len(Sources) \in Nat /\ index \in DOMAIN Sources
      /\ planned \in Seq(Entry) /\ DOMAIN planned = DOMAIN Sources /\ entry \in Entry
      /\ source \in ToSet(Sources) /\ pc \notin Early /\ pc' \notin Early
  <2>1. pc \notin Early /\ pc' \notin Early
    BY <1>1 DEF Early
  <2>2. DOMAIN Sources = 1 .. Len(Sources) /\ Len(Sources) \in Nat /\ index \in DOMAIN Sources
        /\ source \in ToSet(Sources)
    BY <1>1, SourcesShape DEF Inv, Loops
  <2>3. planned \in Seq(Entry) /\ Len(planned) = Len(Sources)
    BY <2>1 DEF Inv, Loops
  <2> QED BY <2>1, <2>2, <2>3
<1>5. Blame(index) /\ (planned[index].canExecute => source.kind \in Served)
      /\ (admitted # {} => entry.assessment.configuration = "accepted" /\ source.descriptor
                          /\ PlanReason(source) = "")
  BY <1>4 DEF Inv, Blames, Records, Webhook, Valid
<1>6. /\ planned' \in Seq(Entry) /\ Len(planned') = Len(planned)
      /\ \A i \in DOMAIN Sources : i # index => planned'[i] = planned[i]
      /\ retryable' \in BOOLEAN /\ (retryable => retryable')
      /\ admitted # {} => planned'[index].assessment.configuration = "accepted"
      /\ planned'[index].assessment.authorization = "unavailable" => retryable'
      /\ planned'[index].assessment.resolution = "unavailable" => retryable'
      /\ planned'[index].canExecute => source.kind \in Served
  <2>1. ASSUME NEW e \in Entry, planned' = [planned EXCEPT ![index] = e]
        PROVE  /\ planned' \in Seq(Entry) /\ Len(planned') = Len(planned)
               /\ planned'[index] = e
               /\ \A i \in DOMAIN Sources : i # index => planned'[i] = planned[i]
    <3> HIDE DEF entry, source
    <3> QED BY ONLY <1>4, <2>1
  <2>2. CASE UNCHANGED <<planned, retryable>>
    BY <1>4, <1>5, <2>2 DEF Blame, Inv, Control
  <2>3. CASE /\ reason(reachable) # ""
             /\ planned' = [planned EXCEPT ![index] = Unplanned(entry, reason(reachable))]
             /\ retryable' = (retryable \/ reason(reachable) = "DiscoveryUnavailable")
    <3> DEFINE why == reason(reachable)
               e == Unplanned(entry, why)
    <3>1. /\ why \in {"DiscoveryUnavailable", "UnknownType", "InvalidSelector",
                      "InvalidNamespaceScope", "InvalidDescriptor"}
          /\ source.descriptor /\ PlanReason(source) = "" =>
                why \notin {"InvalidSelector", "InvalidNamespaceScope", "InvalidDescriptor"}
      <4> HIDE DEF source
      <4> QED BY <2>3 DEF SourceReason, PlanReason
    <3>2. /\ retryable' \in BOOLEAN /\ (retryable => retryable')
          /\ why = "DiscoveryUnavailable" => retryable'
      BY <2>3, Zenon
    <3>3. /\ e \in Entry /\ e.canExecute = entry.canExecute
          /\ \/ e.assessment.configuration = entry.assessment.configuration
             \/ why \in {"InvalidSelector", "InvalidNamespaceScope", "InvalidDescriptor"}
          /\ \/ e.assessment.authorization = entry.assessment.authorization
             \/ why = "DiscoveryUnavailable"
          /\ \/ e.assessment.resolution \in {entry.assessment.resolution, "failed", "resolved"}
             \/ why = "DiscoveryUnavailable"
      <4>1. entry \in Entry BY <1>4
      <4>2. e = Unplanned(entry, why) OBVIOUS
      <4> HIDE DEF why, entry, e
      <4> QED BY ONLY <3>1, <4>1, <4>2, UnplannedEntry
    <3>4. planned' = [planned EXCEPT ![index] = e]
      BY <2>3
    <3> HIDE DEF why, e
    <3>5. /\ planned' \in Seq(Entry) /\ Len(planned') = Len(planned)
          /\ planned'[index] = e
          /\ \A i \in DOMAIN Sources : i # index => planned'[i] = planned[i]
      BY <2>1, <3>3, <3>4
    <3>6. /\ entry.assessment.authorization = "unavailable" => retryable
          /\ entry.assessment.resolution = "unavailable" => retryable
      BY <1>5 DEF Blame
    <3> QED BY <1>5, <3>1, <3>2, <3>3, <3>5, <3>6
  <2>4. CASE /\ reason(reachable) = ""
             /\ planned' = [planned EXCEPT ![index] = Authorized(entry, source)]
             /\ UNCHANGED retryable
    <3> DEFINE e == Authorized(entry, source)
    <3>1. source.kind \in Served
      <4> HIDE DEF source
      <4> QED BY <2>4 DEF SourceReason
    <3>2. /\ retryable' \in BOOLEAN /\ (retryable => retryable')
          /\ Unavailable => retryable'
      BY <2>4 DEF Inv, Control, Blames
    <3>3. /\ e \in Entry /\ e.assessment.configuration = entry.assessment.configuration
          /\ e.assessment.resolution = "resolved"
          /\ e.assessment.authorization = "unavailable" => Unavailable
      <4>1. Loaded
        BY DEF Inv, Records
      <4>2. entry \in Entry /\ e = Authorized(entry, source)
        BY <1>4
      <4> HIDE DEF entry, source, e
      <4> QED BY ONLY <4>1, <4>2, AuthorizedEntry
    <3>4. planned' = [planned EXCEPT ![index] = e]
      BY <2>4
    <3> HIDE DEF e
    <3>5. /\ planned' \in Seq(Entry) /\ Len(planned') = Len(planned)
          /\ planned'[index] = e
          /\ \A i \in DOMAIN Sources : i # index => planned'[i] = planned[i]
      BY <2>1, <3>3, <3>4
    <3> QED BY <1>5, <3>1, <3>2, <3>3, <3>5
  <2> QED BY <1>3, <2>2, <2>3, <2>4
<1>7. /\ Control' /\ TransientIsRetried' /\ AdmittedIsAccepted' /\ Sources' = Sources
  <2>1. Running /\ pc' \in Steps
    BY <1>1 DEF Running, Steps
  <2>2. expired' \in BOOLEAN /\ onLease' \in BOOLEAN /\ terminal' \in {"result", "budget"}
    BY <1>1 DEF Inv, Control
  <2> QED BY <1>1, <1>6, <2>1, <2>2, WithinAttempt
<1>8. Loops'
  <2>1. pc' = "plan" => index' \in DOMAIN Sources'
    BY <1>1, <1>4, <1>7
  <2>2. Sources' # <<>>
    BY <1>1, <1>7 DEF Inv, Loops
  <2> QED BY <1>1, <1>4, <1>6, <1>7, <2>1, <2>2 DEF Inv, Loops
<1>9. Webhook'
  BY <1>1, <1>4, <1>6, <1>7 DEF Inv, Webhook
<1>10. Blames'
  <2>1. ASSUME NEW i \in DOMAIN Sources PROVE Blame(i)'
    <3>1. Blame(i)
      BY <1>4 DEF Inv, Blames
    <3> QED BY <1>1, <1>6, <3>1 DEF Blame
  <2> QED BY <1>1, <1>6, <1>7, <2>1 DEF Inv, Blames, Unavailable
<1>11. Records'
  <2>1. \A i \in DOMAIN Sources : planned'[i].canExecute => Sources[i].kind \in Served
    BY <1>4, <1>6 DEF Inv, Records
  <2> QED BY <1>1, <1>4, <1>7, <2>1 DEF Inv, Records, IsStatus, Loaded
<1> QED BY <1>7, <1>8, <1>9, <1>10, <1>11 DEF Inv

(* What a read returns is a list.                                           *)
LEMMA ObjectsList ==
    ASSUME world \in 1 .. Len(Worlds), NEW source, source.kind \in Served,
           NEW s, s = ObjectsOf(source)
    PROVE  IsList(s)
<1> DEFINE w == Worlds[world][source.kind]
           K == {i \in DOMAIN w : w[i].namespace \in DeriveTargets(source)}
<1>1. IsList(w)
  <2>1. Worlds[world] \in ToSet(Worlds)
    BY EvaluationAssumption, ListPositions
  <2> QED BY <2>1, EvaluationAssumption
<1>2. s = [n \in 1 .. Cardinality(K) |-> w[Nth(K, n)]]
  BY DEF ObjectsOf, Keep
<1>3. K \subseteq DOMAIN w
  OBVIOUS
<1> HIDE DEF w, K
<1>4. w \in Seq(ToSet(w))
  BY <1>1 DEF IsList
<1>5. s \in Seq(ToSet(w))
  BY ONLY <1>2, <1>3, <1>4, KeptList
<1> QED BY <1>5, SequenceIsList

(* A read that fails for something that may pass is retried, and a source   *)
(* that cannot be read has an error of its plan.                            *)
LEMMA ReadInv ==
    ASSUME Inv, Read
    PROVE  Inv'
<1> DEFINE source == Sources[index]
           entry == planned[index]
<1>1. /\ pc = "read" /\ pc' = "evaluate"
      /\ UNCHANGED <<profile, facet, policy, world, admitted, status, writes, attempts, expired,
                     onLease, index, snapshot, results, completed, terminal, outcome, published>>
  BY DEF Read, Live, cluster, stored, ended
<1>2. \/ /\ entry.canExecute
         /\ selected' = [selected EXCEPT ![index] = [err |-> "", resources |-> ObjectsOf(source)]]
         /\ UNCHANGED <<planned, retryable>>
      \/ \E reason \in ReadFailures :
            /\ selected' = [selected EXCEPT ![index].err = reason]
            /\ planned' = IF reason # "ReadForbidden" THEN planned
                          ELSE [planned EXCEPT ![index].assessment.authorization
                                    = "read-forbidden"]
            /\ retryable' = (retryable \/ RetryableSelection(reason))
      \/ /\ selected' = [selected EXCEPT ![index].err = entry.err]
         /\ UNCHANGED <<planned, retryable>>
  BY DEF Read
<1>3. /\ DOMAIN Sources = 1 .. Len(Sources) /\ Len(Sources) \in Nat /\ index \in DOMAIN Sources
      /\ planned \in Seq(Entry) /\ DOMAIN planned = DOMAIN Sources /\ entry \in Entry
      /\ DOMAIN selected = DOMAIN Sources /\ pc \notin Early /\ pc' \notin Early
  <2>1. pc \notin Early /\ pc' \notin Early
    BY <1>1 DEF Early
  <2>2. DOMAIN Sources = 1 .. Len(Sources) /\ Len(Sources) \in Nat /\ index \in DOMAIN Sources
    BY <1>1, SourcesShape DEF Inv, Loops
  <2>3. /\ planned \in Seq(Entry) /\ Len(planned) = Len(Sources)
        /\ DOMAIN selected = DOMAIN Sources
    BY <2>1 DEF Inv, Loops
  <2> QED BY <2>1, <2>2, <2>3
<1>4. /\ Blame(index) /\ (entry.canExecute => source.kind \in Served)
      /\ selected[index] = [err |-> selected[index].err, resources |-> selected[index].resources]
      /\ IsList(selected[index].resources)
      /\ (admitted # {} => entry.assessment.configuration = "accepted")
  BY <1>3 DEF Inv, Blames, Records, Webhook
<1>5. /\ DOMAIN selected' = DOMAIN selected
      /\ \A i \in DOMAIN Sources : i # index => selected'[i] = selected[i]
      /\ selected'[index] = [err |-> selected'[index].err,
                             resources |-> selected'[index].resources]
      /\ IsList(selected'[index].resources)
      /\ selected'[index].err \in Passing => retryable'
      /\ retryable' \in BOOLEAN /\ (retryable => retryable')
  <2>1. ASSUME NEW r, NEW o, IsList(o),
               selected' = [selected EXCEPT ![index] = [err |-> r, resources |-> o]]
        PROVE  /\ DOMAIN selected' = DOMAIN selected
               /\ \A i \in DOMAIN Sources : i # index => selected'[i] = selected[i]
               /\ selected'[index] = [err |-> selected'[index].err,
                                      resources |-> selected'[index].resources]
               /\ IsList(selected'[index].resources) /\ selected'[index].err = r
    <3> HIDE DEF source, entry
    <3> QED BY ONLY <1>3, <2>1
  <2>2. ASSUME NEW r, selected' = [selected EXCEPT ![index].err = r]
        PROVE  selected' = [selected EXCEPT ![index] =
                               [err |-> r, resources |-> selected[index].resources]]
    <3>1. [selected[index] EXCEPT !.err = r] = [err |-> r, resources |-> selected[index].resources]
      BY <1>4
    <3> QED BY <2>2, <3>1
  <2>3. CASE /\ entry.canExecute
             /\ selected' = [selected EXCEPT ![index] =
                                [err |-> "", resources |-> ObjectsOf(source)]]
             /\ UNCHANGED <<planned, retryable>>
    <3>1. IsList(ObjectsOf(source))
      <4>1. world \in 1 .. Len(Worlds) /\ source.kind \in Served
        BY <1>4, <2>3 DEF Inv, Control
      <4> HIDE DEF source
      <4> QED BY <4>1, ObjectsList
    <3>2. retryable' \in BOOLEAN /\ (retryable => retryable')
      BY <2>3 DEF Inv, Control
    <3> QED BY <2>1, <2>3, <3>1, <3>2 DEF Passing
  <2>4. ASSUME NEW reason \in ReadFailures,
               selected' = [selected EXCEPT ![index].err = reason],
               retryable' = (retryable \/ RetryableSelection(reason))
        PROVE  /\ DOMAIN selected' = DOMAIN selected
               /\ \A i \in DOMAIN Sources : i # index => selected'[i] = selected[i]
               /\ selected'[index] = [err |-> selected'[index].err,
                                      resources |-> selected'[index].resources]
               /\ IsList(selected'[index].resources)
               /\ selected'[index].err \in Passing => retryable'
               /\ retryable' \in BOOLEAN /\ (retryable => retryable')
    <3>1. retryable' \in BOOLEAN /\ (retryable => retryable')
          /\ (RetryableSelection(reason) => retryable')
      BY <2>4, Zenon
    <3>2. reason \in Passing => RetryableSelection(reason)
      BY EvaluationAssumption DEF ReadReasons, Passing, RetryableSelection
    <3> QED BY <1>4, <2>1, <2>2, <2>4, <3>1, <3>2
  <2>5. CASE /\ selected' = [selected EXCEPT ![index].err = entry.err]
             /\ UNCHANGED <<planned, retryable>>
    <3>1. entry.err \notin Passing
      <4>1. entry.err \in PlanErrors
        <5> HIDE DEF entry
        <5> QED BY <1>3, EntryParts
      <4> QED BY <4>1 DEF PlanErrors, Passing
    <3>2. retryable' \in BOOLEAN /\ (retryable => retryable')
      BY <2>5 DEF Inv, Control
    <3> QED BY <1>4, <2>1, <2>2, <2>5, <3>1, <3>2
  <2> QED BY <1>2, <2>3, <2>4, <2>5
<1>6. /\ planned' \in Seq(Entry) /\ Len(planned') = Len(planned)
      /\ \A i \in DOMAIN Sources : i # index => planned'[i] = planned[i]
      /\ planned'[index].assessment.configuration = entry.assessment.configuration
      /\ planned'[index].assessment.resolution = entry.assessment.resolution
      /\ planned'[index].assessment.authorization
             \in {entry.assessment.authorization, "read-forbidden"}
      /\ planned'[index].canExecute = entry.canExecute
  <2>1. CASE UNCHANGED planned
    BY <1>3, <2>1
  <2>2. CASE planned' = [planned EXCEPT ![index].assessment.authorization = "read-forbidden"]
    <3> DEFINE c == entry.assessment.configuration
               a == entry.assessment.authorization
               r == entry.assessment.resolution
               m == entry.err
               x == entry.canExecute
               e == [entry EXCEPT !.assessment.authorization = "read-forbidden"]
    <3>1. /\ c \in Configurations /\ r \in Resolutions /\ m \in PlanErrors
          /\ x \in BOOLEAN /\ entry = EntryWith(c, a, r, m, x)
      <4> HIDE DEF entry
      <4> QED BY <1>3, EntryParts
    <3>2. planned' = [planned EXCEPT ![index] = e]
      BY <2>2
    <3> HIDE DEF c, a, r, m, x, entry
    <3>3. e = EntryWith(c, "read-forbidden", r, m, x)
      BY <3>1 DEF EntryWith
    <3> HIDE DEF e
    <3>4. "read-forbidden" \in Authorizations
      BY DEF Authorizations
    <3>5. /\ e \in Entry /\ e.assessment.configuration = c /\ e.assessment.resolution = r
          /\ e.assessment.authorization = "read-forbidden" /\ e.canExecute = x
      BY ONLY <3>1, <3>3, <3>4, EntryOf
    <3>6. /\ planned' \in Seq(Entry) /\ Len(planned') = Len(planned) /\ planned'[index] = e
          /\ \A i \in DOMAIN Sources : i # index => planned'[i] = planned[i]
      BY ONLY <1>3, <3>2, <3>5
    <3> QED BY <3>5, <3>6 DEF c, r, x
  <2> QED BY <1>2, <2>1, <2>2
<1>7. /\ Control' /\ TransientIsRetried' /\ AdmittedIsAccepted' /\ Sources' = Sources
  <2>1. Running /\ pc' \in Steps
    BY <1>1 DEF Running, Steps
  <2>2. expired' \in BOOLEAN /\ onLease' \in BOOLEAN /\ terminal' \in {"result", "budget"}
    BY <1>1 DEF Inv, Control
  <2> QED BY <1>1, <1>5, <2>1, <2>2, WithinAttempt
<1>8. Loops'
  BY <1>1, <1>3, <1>5, <1>6, <1>7 DEF Inv, Loops
<1>9. Webhook'
  BY <1>1, <1>3, <1>4, <1>6, <1>7 DEF Inv, Webhook
<1>10. Blames'
  <2>1. ASSUME NEW i \in DOMAIN Sources PROVE Blame(i)'
    <3>1. Blame(i)
      BY <1>3 DEF Inv, Blames
    <3>2. CASE i # index
      BY <1>1, <1>5, <1>6, <3>1, <3>2 DEF Blame
    <3>3. CASE i = index
      BY <1>1, <1>5, <1>6, <3>1, <3>3 DEF Blame
    <3> QED BY <3>2, <3>3
  <2> QED BY <1>1, <1>5, <1>7, <2>1 DEF Inv, Blames, Unavailable
<1>11. Records'
  <2>1. ASSUME NEW i \in DOMAIN Sources
        PROVE  /\ IsResult(results'[i])
               /\ selected'[i] = [err |-> selected'[i].err, resources |-> selected'[i].resources]
               /\ IsList(selected'[i].resources)
               /\ planned'[i].canExecute => Sources[i].kind \in Served
    <3>1. /\ IsResult(results[i])
          /\ selected[i] = [err |-> selected[i].err, resources |-> selected[i].resources]
          /\ IsList(selected[i].resources)
          /\ planned[i].canExecute => Sources[i].kind \in Served
      BY <1>3 DEF Inv, Records
    <3>2. CASE i # index
      BY <1>1, <1>5, <1>6, <3>1, <3>2
    <3>3. CASE i = index
      BY <1>1, <1>5, <1>6, <3>1, <3>3
    <3> QED BY <3>2, <3>3
  <2> QED BY <1>1, <1>3, <1>7, <2>1 DEF Inv, Records, IsStatus, Loaded
<1> QED BY <1>7, <1>8, <1>9, <1>10, <1>11 DEF Inv

(* What the stages make of a source blames no more than its read.           *)
LEMMA EvaluateSourceInv ==
    ASSUME Inv, EvaluateSource
    PROVE  Inv'
<1> DEFINE o == Outcome(Sources[index], selected[index])
<1>1. /\ pc = "evaluate"
      /\ \/ index < Len(Sources) /\ pc' = "read" /\ index' = index + 1
         \/ ~(index < Len(Sources)) /\ pc' = "compose" /\ index' = 0
      /\ results' = [results EXCEPT ![index] = o]
      /\ completed' = completed \cup {index}
      /\ UNCHANGED <<profile, facet, policy, world, admitted, status, writes, attempts, expired,
                     onLease, snapshot, planned, selected, terminal, retryable, outcome,
                     published>>
  BY DEF EvaluateSource, Live, Advance, cluster, stored, ended
<1>2. /\ Control' /\ TransientIsRetried' /\ AdmittedIsAccepted' /\ Sources' = Sources
  <2>1. Running /\ pc' \in Steps
    BY <1>1 DEF Running, Steps
  <2>2. /\ expired' \in BOOLEAN /\ onLease' \in BOOLEAN /\ retryable' \in BOOLEAN
        /\ terminal' \in {"result", "budget"}
    BY <1>1 DEF Inv, Control
  <2> QED BY <1>1, <2>1, <2>2, WithinAttempt
<1>3. /\ DOMAIN Sources = 1 .. Len(Sources) /\ Len(Sources) \in Nat /\ index \in DOMAIN Sources
      /\ DOMAIN results = DOMAIN Sources /\ pc \notin Early /\ pc' \notin Early
      /\ completed = 1 .. (index - 1)
  <2>1. pc \notin Early /\ pc' \notin Early
    BY <1>1 DEF Early
  <2>2. DOMAIN Sources = 1 .. Len(Sources) /\ Len(Sources) \in Nat /\ index \in DOMAIN Sources
    BY <1>1, SourcesShape DEF Inv, Loops
  <2>3. DOMAIN results = DOMAIN Sources /\ completed = 1 .. (index - 1)
    BY <1>1, <2>1 DEF Inv, Loops
  <2> QED BY <2>1, <2>2, <2>3
<1>4. IsResult(o) /\ (o.err \in Passing => selected[index].err \in Passing)
  <2>1. IsList(selected[index].resources)
    BY <1>3 DEF Inv, Records
  <2> QED BY <2>1, OutcomeBlames
<1> HIDE DEF o
<1>5. /\ DOMAIN results' = DOMAIN Sources /\ results'[index] = o
      /\ \A i \in DOMAIN Sources : i # index => results'[i] = results[i]
  BY <1>1, <1>3
<1>6. completed' = 1 .. index /\ index \in Nat
  BY <1>1, <1>3
<1>7. Loops'
  <2>1. pc' = "read" => index' \in DOMAIN Sources /\ completed' = 1 .. (index' - 1)
    BY <1>1, <1>3, <1>6
  <2>2. pc' = "compose" => completed' = DOMAIN Sources
    <3>1. pc' = "compose" => index = Len(Sources)
      BY <1>1, <1>3
    <3> QED BY <1>3, <1>6, <3>1
  <2>3. completed' \subseteq DOMAIN Sources
    BY <1>3, <1>6
  <2>4. Sources # <<>>
    BY <1>1 DEF Inv, Loops
  <2> QED BY <1>1, <1>2, <1>3, <1>5, <2>1, <2>2, <2>3, <2>4 DEF Inv, Loops
<1>8. Webhook'
  BY <1>1, <1>2, <1>3 DEF Inv, Webhook
<1>9. Blames'
  <2>1. ASSUME NEW i \in DOMAIN Sources PROVE Blame(i)'
    <3>1. Blame(i)
      BY <1>3 DEF Inv, Blames
    <3>2. CASE i # index
      BY <1>1, <1>5, <3>1, <3>2 DEF Blame
    <3>3. CASE i = index
      BY <1>1, <1>4, <1>5, <3>1, <3>3 DEF Blame
    <3> QED BY <3>2, <3>3
  <2> QED BY <1>1, <1>2, <2>1 DEF Inv, Blames, Unavailable
<1>10. Records'
  <2>1. \A i \in DOMAIN Sources : IsResult(results'[i])
    BY <1>3, <1>4, <1>5 DEF Inv, Records
  <2> QED BY <1>1, <1>2, <1>3, <2>1 DEF Inv, Records, IsStatus, Loaded
<1> QED BY <1>2, <1>7, <1>8, <1>9, <1>10 DEF Inv

(* What the attempt publishes is what it has met.                           *)
LEMMA CandidateMeans ==
    ASSUME Inv, pc = "publish",
           NEW s \in ComposeBounded(Generation, status.conditions, Evaluated, attempts,
                                    profile.status)
    PROVE  /\ IsStatus(s) /\ s.result \subseteq {results}
           /\ \A c \in ToSet(s.conditions) :
                 /\ IsCanonical(c.type) /\ c.reason = "unavailable" => retryable
                 /\ admitted # {} /\ c.type = "Accepted" /\ c.status = "False" =>
                       c.reason = "ConfigurationBudgetExceeded" /\ profile \notin admitted
<1> DEFINE A == [i \in DOMAIN planned |-> planned[i].assessment]
           G == GlobalAuthorization
           P == status.conditions
<1>1. /\ planned \in Seq(Entry) /\ Len(planned) = Len(Sources)
      /\ DOMAIN Sources = 1 .. Len(Sources) /\ DOMAIN planned = DOMAIN Sources
      /\ pc \notin Early
  <2>1. pc \notin Early
    BY DEF Early
  <2>2. planned \in Seq(Entry) /\ Len(planned) = Len(Sources)
    BY <2>1 DEF Inv, Loops
  <2>3. DOMAIN Sources = 1 .. Len(Sources)
    BY SourcesShape DEF Inv
  <2> QED BY <2>1, <2>2, <2>3
<1>2. A \in Seq(Assessment)
  <2>1. \A i \in DOMAIN planned : planned[i].assessment \in Assessment
    <3>1. \A i \in DOMAIN planned : planned[i] \in Entry
      BY <1>1
    <3> QED BY <3>1 DEF Entry
  <2>2. DOMAIN planned = 1 .. Len(planned) /\ Len(planned) \in Nat
    BY <1>1
  <2>3. A \in [1 .. Len(planned) -> Assessment]
    BY <2>1, <2>2
  <2> QED BY <2>2, <2>3
<1>3. DOMAIN A = DOMAIN Sources /\ \A i \in DOMAIN Sources : A[i] = planned[i].assessment
  BY <1>1
<1>4. IsEvaluation(Evaluated, terminal, results, G, A)
  BY DEF Evaluated, IsEvaluation
<1>5. terminal \in {"result", "budget"} /\ IsList(P)
  BY DEF Inv, Control, Records, IsStatus
<1> HIDE DEF A, G, P
<1>6. /\ IsStatus(s) /\ s.result \subseteq {results}
      /\ \A c \in ToSet(s.conditions) :
            IsCanonical(c.type) => Reports(c, A, G, terminal)
  <2> DEFINE t == terminal
             R == results
             e == Evaluated
             g == Generation
             now == attempts
             limit == profile.status
  <2>1. /\ s \in ComposeBounded(g, P, e, now, limit)
        /\ IsEvaluation(e, t, R, G, A)
        /\ t \in {"result", "budget"}
    BY <1>4, <1>5 DEF P
  <2> HIDE DEF t, R, e, g, now, limit
  <2>2. Faithful(s, A, G, R, t)
    BY ONLY <1>2, <1>5, <2>1, CandidateReports
  <2> QED BY ONLY <2>2 DEF t, R, Faithful
<1>7. "unavailable" \in G => retryable
  <2>1. "unavailable" \in G => Unavailable
    BY DEF G, GlobalAuthorization, AuthorizationOutcome, Unavailable, Inv, Records, Loaded
  <2> QED BY <2>1 DEF Inv, Blames
<1>8. ASSUME NEW c \in ToSet(s.conditions), IsCanonical(c.type), c.reason = "unavailable"
      PROVE  retryable
  <2>1. \/ "unavailable" \in G
        \/ \E i \in DOMAIN A : \/ A[i].authorization = "unavailable"
                               \/ A[i].resolution = "unavailable"
    BY <1>6, <1>8 DEF Reports
  <2>2. ASSUME NEW i \in DOMAIN A, \/ A[i].authorization = "unavailable"
                                   \/ A[i].resolution = "unavailable"
        PROVE  retryable
    <3>1. Blame(i)
      BY <1>1, <1>3 DEF Inv, Blames
    <3> QED BY <1>3, <2>2, <3>1 DEF Blame
  <2> QED BY <1>7, <2>1, <2>2
<1>9. ASSUME NEW c \in ToSet(s.conditions), admitted # {}, c.type = "Accepted",
             c.status = "False"
      PROVE  c.reason = "ConfigurationBudgetExceeded" /\ profile \notin admitted
  <2>1. IsCanonical(c.type)
    BY <1>9 DEF IsCanonical, Canonical, ToSet
  <2>2. \/ terminal = "budget" /\ c.reason = "ConfigurationBudgetExceeded"
        \/ \E i \in DOMAIN A : A[i].configuration = "invalid"
    BY <1>6, <1>9, <2>1 DEF Reports
  <2>3. \A i \in DOMAIN A : A[i].configuration = "accepted"
    BY <1>1, <1>3, <1>9 DEF Inv, Webhook
  <2>4. terminal = "budget" /\ c.reason = "ConfigurationBudgetExceeded"
    BY <2>2, <2>3
  <2> QED BY <2>4 DEF Inv, Webhook
<1> QED BY <1>6, <1>8, <1>9

(* Publish: the status reports what the attempt has met, and the attempt    *)
(* returns an error when that may pass.                                     *)
LEMMA PublishInv ==
    ASSUME Inv, Publish
    PROVE  Inv'
<1> DEFINE C == ComposeBounded(Generation, status.conditions, Evaluated, attempts,
                               profile.status)
<1>1. pc = "publish" /\ Running /\ pc \notin Early
  BY DEF Publish, Running, Early
<1>2. CASE C = {}
  <2>1. End("error") /\ UNCHANGED <<status, writes, published>>
    BY <1>2 DEF Publish, stored
  <2> QED BY <1>1, <2>1, EndInv
<1>3. CASE C # {}
  <2>1. PICK s \in C : IF s = status THEN UNCHANGED stored
                       ELSE status' = DecodedStatus(s) /\ writes' = writes + 1
    BY <1>3 DEF Publish
  <2>2. published' = TRUE /\ End(Ended)
    BY <1>3 DEF Publish
  <2>3. /\ Reset /\ pc' = "idle" /\ outcome' = Ended
        /\ UNCHANGED <<profile, facet, policy, world, admitted, attempts>>
    BY <2>2 DEF End, cluster
  <2> HIDE DEF C
  <2>4. /\ IsStatus(s) /\ s.result \subseteq {results}
        /\ \A c \in ToSet(s.conditions) :
              /\ IsCanonical(c.type) /\ c.reason = "unavailable" => retryable
              /\ admitted # {} /\ c.type = "Accepted" /\ c.status = "False" =>
                    c.reason = "ConfigurationBudgetExceeded" /\ profile \notin admitted
    BY <1>1, CandidateMeans DEF C
  <2>5. /\ DOMAIN results = DOMAIN Sources
        /\ \A i \in DOMAIN results : IsResult(results[i]) /\ (results[i].err \in Passing => retryable)
    BY <1>1 DEF Inv, Loops, Records, Blames, Blame
  <2>6. /\ IsStatus(status') /\ status'.conditions = s.conditions
        /\ \A q \in status'.result :
              DOMAIN q = DOMAIN results /\ \A i \in DOMAIN q : q[i].err = results[i].err
    <3>1. CASE s = status
      BY <2>1, <2>4, <3>1 DEF stored
    <3>2. CASE s # status
      <4>1. status' = DecodedStatus(s)
        BY <2>1, <3>2
      <4>2. \A r \in s.result : \A i \in DOMAIN r : IsResult(r[i])
        BY <2>4, <2>5
      <4>3. /\ IsStatus(status') /\ status'.conditions = s.conditions
            /\ \A q \in status'.result : \E r \in s.result :
                  DOMAIN q = DOMAIN r /\ \A i \in DOMAIN r : q[i].err = r[i].err
        BY <2>4, <4>1, <4>2, DecodedKeeps
      <4> QED BY <2>4, <4>3
    <3> QED BY <3>1, <3>2
  <2>7. writes' \in Nat /\ writes' <= attempts'
    <3>1. writes \in Nat /\ attempts \in Nat /\ writes < attempts /\ attempts' = attempts
      BY <1>1, <2>3 DEF Inv, Control
    <3>2. writes' = writes \/ writes' = writes + 1
      BY <2>1 DEF stored
    <3> QED BY <3>1, <3>2
  <2>8. Control'
    <3>1. facet # 0 /\ outcome' \in {"none", "done", "error"}
      BY <1>1, <2>3 DEF Inv, Control, Ended
    <3>2. ~Running'
      BY <2>3 DEF Running
    <3> QED BY <2>2, <2>3, <2>7, <3>1, <3>2 DEF Inv, Control, Steps, Reset
  <2>9. Loops' /\ Webhook' /\ Blames' /\ Records'
    <3>1. IsStatus(status)'
      BY <2>6 DEF IsStatus
    <3> QED BY <2>3, <3>1, ResetKeeps
  <2>10. TransientIsRetried'
    <3>1. ASSUME NEW c \in ToSet(status'.conditions), IsCanonical(c.type),
                 c.reason = "unavailable"
          PROVE  retryable
      BY <2>4, <2>6, <3>1
    <3>2. ASSUME NEW r \in status'.result, NEW x \in ToSet(r), x.err \in Passing
          PROVE  retryable
      <4>1. PICK i \in DOMAIN r : x = r[i]
        BY DEF ToSet
      <4> QED BY <2>5, <2>6, <3>2, <4>1
    <3>3. retryable => outcome' = "error"
      BY <2>3 DEF Ended
    <3> QED BY <3>1, <3>2, <3>3 DEF TransientIsRetried, Passing
  <2>11. AdmittedIsAccepted'
    BY <2>3, <2>4, <2>6 DEF AdmittedIsAccepted
  <2> QED BY <2>8, <2>9, <2>10, <2>11 DEF Inv
<1> QED BY <1>2, <1>3

(* Every step keeps the invariant.                                          *)
LEMMA StepInv ==
    ASSUME Inv, [Next]_vars
    PROVE  Inv'
<1>1. CASE Abandon
  <2>1. Running /\ End("done") /\ UNCHANGED <<status, writes, published>>
    BY <1>1 DEF Abandon, stored
  <2> QED BY <2>1, EndInv
<1>2. CASE RoutesFail
  <2>1. Running /\ End("error") /\ UNCHANGED <<status, writes, published>>
    BY <1>2 DEF RoutesFail, Live, Running, stored
  <2> QED BY <2>1, EndInv
<1>3. CASE PublishInterrupted
  <2>1. Running /\ End("done") /\ UNCHANGED <<status, writes, published>>
    BY <1>3 DEF PublishInterrupted, Running, stored
  <2> QED BY <2>1, EndInv
<1>4. CASE PublishFails
  <2>1. Running /\ End("error") /\ UNCHANGED <<status, writes, published>>
    BY <1>4 DEF PublishFails, Running, stored
  <2> QED BY <2>1, EndInv
<1>5. CASE Start \/ Create \/ Change \/ Annotate \/ Expire
  BY <1>5, StartInv, CreateInv, ChangeInv, AnnotateInv, ExpireInv
<1>6. CASE Begin \/ ValidateBudgets \/ FinishTimedOut \/ Load \/ Plan
  BY <1>6, BeginInv, ValidateBudgetsInv, FinishTimedOutInv, LoadInv, PlanInv
<1>7. CASE ReplaceRoutes \/ Read \/ EvaluateSource \/ AllCompleted \/ Publish
  BY <1>7, ReplaceRoutesInv, ReadInv, EvaluateSourceInv, AllCompletedInv, PublishInv
<1>8. CASE UNCHANGED vars
  BY <1>8, StutterInv
<1> QED BY <1>1, <1>2, <1>3, <1>4, <1>5, <1>6, <1>7, <1>8 DEF Next

(***************************************************************************)
(* The theorems.                                                            *)
(***************************************************************************)

(* Every reachable state satisfies the inductive invariant.                 *)
LEMMA Invariant == Spec => []Inv
<1>1. Inv /\ [Next]_vars => Inv'
  BY StepInv
<1> QED BY InitInv, <1>1, PTL DEF Spec

(* TypeOK, for every Facet, policy, cluster, profile and number of sources:  *)
(* the variables have their types, the loops of EvaluateAndPublish stay     *)
(* within the sources, every source has an entry, the attempt composes a    *)
(* status only when all are completed, and there is at most one write of    *)
(* the status for every attempt.                                            *)
THEOREM TypeCorrect == Spec => []TypeOK
<1>1. Inv => TypeOK
  BY DEF Inv, Control, Loops, TypeOK, Early
<1> QED BY Invariant, <1>1, PTL

(* TransientIsRetried: whatever fails, and whenever the deadline passes, a  *)
(* status that blames the deadline, an unavailable policy, discovery or     *)
(* read, or an expired list is only left by an attempt whose Reconcile      *)
(* returns an error and is therefore repeated.                              *)
THEOREM TransientsAreRetried == Spec => []TransientIsRetried
<1>1. Inv => TransientIsRetried
  BY DEF Inv
<1> QED BY Invariant, <1>1, PTL

(* AdmittedIsAccepted: a Facet that ValidateFacet of the webhook allows is   *)
(* never reported as an invalid configuration by the runtime, and as over   *)
(* budget only under limits other than those it was admitted with: the      *)
(* checks that the two make apart from each other agree for every Facet.    *)
THEOREM AdmittedStaysAccepted == Spec => []AdmittedIsAccepted
<1>1. Inv => AdmittedIsAccepted
  BY DEF Inv
<1> QED BY Invariant, <1>1, PTL

(***************************************************************************)
(* Ready hides nothing: what a source without errors says.                  *)
(***************************************************************************)

(* A list of declarations with names, and the same sorted by name.          *)
IsNamed(seq) == IsList(seq) /\ \A i \in DOMAIN seq : seq[i].name \in Nat

ByName(seq) == SortBy(seq, LAMBDA d : d.name)

(* The resources of one stage, made of those of the stage before.           *)
Extracts(rs, fields, objects) ==
    ExtractionPlan(fields) # <<>> =>
        rs = [i \in DOMAIN objects |-> EvaluateResource(ExtractionPlan(fields), objects[i])]

Converts(rs, fields, from) == rs = [i \in DOMAIN from |-> ConvertResource(fields, from[i])]

Operates(rs, fields, from) == rs = [i \in DOMAIN from |-> EvaluateOperators(fields, from[i])]

(* What a source's result says when nothing went wrong in it as a whole.    *)
Clean(x) == /\ x.err = "" /\ x.fieldErrors = {}
            /\ \A a \in ToSet(x.aggregates) : a.state = "values"

SameResources(x, y) == x.resources = y.resources

AllPlanned(source) ==
    \A d \in ToSet(source.aggregations) : AggregateReason(d, source.fields) = ""

(* Sorting by name loses nothing: each element has a place of its own.      *)
LEMMA SortedList ==
    ASSUME NEW seq, IsNamed(seq), NEW r, r = ByName(seq)
    PROVE  DOMAIN r = DOMAIN seq /\ \A i \in DOMAIN seq : \E n \in DOMAIN r : r[n] = seq[i]
<1> DEFINE D == DOMAIN seq
           before(i, j) == \/ seq[i].name < seq[j].name
                           \/ seq[i].name = seq[j].name /\ i < j
           ahead(i) == {j \in D : before(j, i)}
           place(i) == Cardinality(ahead(i)) + 1
<1>1. r = [n \in D |-> seq[CHOOSE i \in D : place(i) = n]]
  BY DEF SortBy, ByName
<1>2. /\ Len(seq) \in Nat /\ D = 1 .. Len(seq)
      /\ \A i \in DOMAIN seq : seq[i].name \in Nat
  BY ListPositions DEF IsNamed
<1>3. IsFiniteSet(D) /\ Cardinality(D) = Len(seq)
  <2>1. IsFiniteSet(1 .. Len(seq))
        /\ Cardinality(1 .. Len(seq)) = IF 1 > Len(seq) THEN 0 ELSE Len(seq) - 1 + 1
    <3>1. 1 \in Int /\ Len(seq) \in Int
      BY <1>2
    <3> QED BY ONLY <3>1, FS_Interval
  <2> HIDE DEF D
  <2> QED BY <1>2, <2>1
<1>4. ASSUME NEW i \in D
      PROVE  IsFiniteSet(ahead(i)) /\ Cardinality(ahead(i)) \in Nat /\ place(i) \in D
  <2>1. ahead(i) \in SUBSET D /\ i \in D /\ i \notin ahead(i)
    BY <1>2
  <2>2. /\ IsFiniteSet(ahead(i)) /\ Cardinality(ahead(i)) <= Cardinality(D)
        /\ (Cardinality(D) = Cardinality(ahead(i)) => D = ahead(i))
    <3> HIDE DEF ahead, D
    <3> QED BY <1>3, <2>1, FS_Subset
  <2>3. Cardinality(ahead(i)) \in Nat
    <3> HIDE DEF ahead, D
    <3> QED BY <2>2, FS_CardinalityType
  <2> HIDE DEF ahead, D
  <2> QED BY <1>2, <1>3, <2>1, <2>2, <2>3
<1>5. ASSUME NEW i \in D, NEW k \in D, before(i, k)
      PROVE  place(i) # place(k)
  <2>1. ahead(i) \in SUBSET ahead(k)
    <3>1. ASSUME NEW j \in D, before(j, i) PROVE before(j, k)
      BY <1>2, <1>5, <3>1
    <3> HIDE DEF before
    <3> QED BY <3>1
  <2>2. i \in ahead(k) /\ i \notin ahead(i)
    BY <1>2, <1>5
  <2>3. IsFiniteSet(ahead(k)) /\ Cardinality(ahead(k)) \in Nat /\ Cardinality(ahead(i)) \in Nat
    BY <1>4
  <2> HIDE DEF ahead, before
  <2>4. Cardinality(ahead(i)) # Cardinality(ahead(k))
    BY <2>1, <2>2, <2>3, FS_Subset
  <2> QED BY <2>3, <2>4
<1>6. ASSUME NEW i \in D, NEW k \in D, place(i) = place(k)
      PROVE  i = k
  <2>1. i # k => before(i, k) \/ before(k, i)
    BY <1>2
  <2> HIDE DEF before, ahead, place, D
  <2> QED BY <1>5, <1>6, <2>1
<1>7. ASSUME NEW i \in D PROVE \E n \in D : seq[CHOOSE k \in D : place(k) = n] = seq[i]
  <2>1. place(i) \in D
    BY <1>4
  <2>2. (CHOOSE k \in D : place(k) = place(i)) = i
    <3> HIDE DEF place, D
    <3> QED BY <1>6
  <2> HIDE DEF place, D
  <2> QED BY <2>1, <2>2
<1> HIDE DEF place, D
<1>8. DOMAIN r = D /\ \A n \in D : r[n] = seq[CHOOSE k \in D : place(k) = n]
  BY <1>1
<1> QED BY <1>7, <1>8 DEF D

(* ExtractBatchWithLimit without an error: every declaration compiles, the  *)
(* source was read, and every object has its resource.                      *)
LEMMA ExtractClean ==
    ASSUME NEW fields, IsList(fields), NEW read, NEW ceiling,
           NEW x, x = Extract(fields, read, ceiling), x.err = ""
    PROVE  /\ ExtractionFailures(fields) = {} /\ read.err = ""
           /\ Extracts(x.resources, fields, read.resources)
<1> DEFINE failures == ExtractionFailures(fields)
           plan == ExtractionPlan(fields)
           resources == IF plan = <<>> THEN <<>>
                        ELSE [i \in DOMAIN read.resources |->
                                 EvaluateResource(plan, read.resources[i])]
           produced == Produce(resources, LAMBDA r : r.error, ExtractedWeight, ceiling)
           failed == IF failures # {} THEN ParseReason(fields[Min(failures)].path)
                     ELSE IF read.err # "" THEN read.err ELSE produced
<1>1. x = [err |-> failed, resources |-> IF failed = "" THEN resources ELSE <<>>]
  BY DEF Extract
<1>2. failed = "" /\ x.resources = resources
  <2> HIDE DEF failed, resources
  <2> QED BY ONLY <1>1, x.err = ""
<1>3. failures = {}
  <2>1. failures # {} => Min(failures) \in failures
    <3>1. failures \subseteq Nat
      <4>1. DOMAIN fields = 1 .. Len(fields) /\ Len(fields) \in Nat
        BY ListPositions
      <4>2. failures \subseteq DOMAIN fields
        BY DEF ExtractionFailures
      <4> HIDE DEF failures
      <4> QED BY ONLY <4>1, <4>2
    <3> HIDE DEF failures
    <3> QED BY <3>1, MinIsLeast
  <2>2. \A i \in failures : ParseReason(fields[i].path) # ""
    BY DEF ExtractionFailures
  <2>3. failures # {} => failed = ParseReason(fields[Min(failures)].path)
    OBVIOUS
  <2> HIDE DEF failures, failed
  <2> QED BY <1>2, <2>1, <2>2, <2>3
<1>4. read.err = ""
  <2> HIDE DEF failures, produced
  <2> QED BY <1>2, <1>3
<1> QED BY <1>2, <1>3, <1>4 DEF Extracts

(* ConvertBatchWithLimit without an error.                                  *)
LEMMA ConvertClean ==
    ASSUME NEW fields, NEW extracted, NEW ceiling,
           NEW x, x = Convert(fields, extracted, ceiling), x.err = ""
    PROVE  extracted.err = "" /\ Converts(x.resources, fields, extracted.resources)
<1> DEFINE resources == [i \in DOMAIN extracted.resources |->
                            ConvertResource(fields, extracted.resources[i])]
           produced == Produce(resources,
                           LAMBDA r : IF Projectable(r) THEN "" ELSE "ValueLimitExceeded",
                           LAMBDA r : FieldsWeight(r.fields), ceiling)
           failed == IF extracted.err # "" THEN extracted.err ELSE produced
<1>1. x = [err |-> failed, resources |-> IF failed = "" THEN resources ELSE <<>>]
  BY DEF Convert
<1>2. failed = "" /\ x.resources = resources
  <2> HIDE DEF failed, resources
  <2> QED BY ONLY <1>1, x.err = ""
<1> HIDE DEF produced
<1> QED BY <1>2 DEF Converts

(* The operators without an error.                                          *)
LEMMA OperateClean ==
    ASSUME NEW fields, NEW typed, NEW ceiling,
           NEW x, x = Operate(fields, typed, ceiling), x.err = "", x.fieldErrors = {}
    PROVE  /\ typed.err = "" /\ OperatorFailures(fields) = {}
           /\ Operates(x.resources, fields, typed.resources)
<1> DEFINE failures == OperatorFailures(fields)
           resources == [i \in DOMAIN typed.resources |->
                             EvaluateOperators(fields, typed.resources[i])]
           produced == Produce(resources, LAMBDA r : "", OperatorWeight, ceiling)
           failed == IF typed.err # "" THEN typed.err
                     ELSE IF failures # {} THEN "" ELSE produced
<1>1. x = [err |-> failed, fieldErrors |-> IF failed = "" THEN failures ELSE {},
           resources |-> IF failed = "" /\ failures = {} THEN resources ELSE <<>>]
  BY DEF Operate
<1>2. failed = "" /\ failures = {} /\ x.resources = resources
  <2> HIDE DEF failed, resources, failures
  <2> QED BY ONLY <1>1, x.err = "", x.fieldErrors = {}
<1> HIDE DEF produced, failures
<1>3. typed.err = ""
  BY <1>2
<1> QED BY <1>2, <1>3 DEF failures, Operates

(* The aggregation without an error: every declaration is planned.          *)
LEMMA AggregateClean ==
    ASSUME NEW source, IsSource(source), NEW operated, NEW limits,
           NEW x, x = Aggregate(source, operated, limits), Clean(x)
    PROVE  /\ operated.err = "" /\ operated.fieldErrors = {}
           /\ SameResources(x, operated) /\ AllPlanned(source)
<1> DEFINE planning == SortBy(source.aggregations, LAMBDA d : d.name)
           aggregates == [i \in DOMAIN planning |->
                            AggregateOf(planning[i], source.fields, operated.resources, limits)]
           produced == Produce(aggregates, LAMBDA a : "", AggregateWeight, limits.values)
           failed == IF operated.err # "" THEN operated.err ELSE produced
<1>1. x = IF failed # ""
          THEN [err |-> failed, fieldErrors |-> {}, resources |-> <<>>, aggregates |-> <<>>]
          ELSE [err |-> "", fieldErrors |-> operated.fieldErrors,
                resources |-> operated.resources, aggregates |-> aggregates]
  BY DEF Aggregate
<1>2. /\ failed = "" /\ x.fieldErrors = operated.fieldErrors
      /\ x.resources = operated.resources /\ x.aggregates = aggregates
  <2>1. x.err = ""
    BY DEF Clean
  <2> HIDE DEF failed, aggregates
  <2> QED BY ONLY <1>1, <2>1
<1>3. operated.err = ""
  <2> HIDE DEF produced
  <2> QED BY <1>2
<1>4. ASSUME NEW d \in ToSet(source.aggregations)
      PROVE  AggregateReason(d, source.fields) = ""
  <2>1. PICK i \in DOMAIN source.aggregations : d = source.aggregations[i]
    BY DEF ToSet
  <2>2. \E n \in DOMAIN planning : planning[n] = source.aggregations[i]
    <3> DEFINE seq == source.aggregations
    <3>1. IsNamed(seq)
      BY DEF IsSource, IsNamed, ToSet
    <3>2. planning = ByName(seq) /\ i \in DOMAIN seq
      BY DEF ByName
    <3> HIDE DEF planning, seq
    <3>3. \E n \in DOMAIN planning : planning[n] = seq[i]
      BY ONLY <3>1, <3>2, SortedList
    <3> QED BY ONLY <3>3 DEF seq
  <2>3. PICK n \in DOMAIN planning : planning[n] = d
    BY <2>1, <2>2
  <2> HIDE DEF planning
  <2>4. DOMAIN aggregates = DOMAIN planning
        /\ aggregates[n] = AggregateOf(d, source.fields, operated.resources, limits)
    BY <2>3
  <2> HIDE DEF aggregates
  <2>5. AggregateOf(d, source.fields, operated.resources, limits).state = "values"
    BY <1>2, <2>4 DEF ToSet, Clean
  <2>6. SUFFICES ASSUME AggregateReason(d, source.fields) # "" PROVE FALSE
    OBVIOUS
  <2>7. AggregateOf(d, source.fields, operated.resources, limits)
            = FailedAggregate(d, AggregateReason(d, source.fields))
    BY <2>6 DEF AggregateOf
  <2>8. FailedAggregate(d, AggregateReason(d, source.fields)).state = "error"
    BY DEF FailedAggregate
  <2> QED BY ONLY <2>5, <2>7, <2>8
<1>5. operated.fieldErrors = {}
  BY <1>2 DEF Clean
<1> QED BY <1>2, <1>3, <1>4, <1>5 DEF AllPlanned, SameResources

(* A source whose fields compile has only supported types.                  *)
LEMMA TypesSupported ==
    ASSUME NEW source, IsSource(source), OperatorFailures(source.fields) = {}
    PROVE  TypedFailures(source.fields) = {}
<1>1. SUFFICES ASSUME NEW i \in DOMAIN source.fields, source.fields[i].type \notin SupportedTypes
               PROVE  FALSE
  BY DEF TypedFailures
<1> DEFINE f == source.fields[i]
<1>2. f \in ToSet(source.fields)
  BY DEF ToSet
<1>3. f.type = "" /\ IsList(f.operators)
  BY <1>1, <1>2 DEF IsSource
<1>4. FieldFailures(f) = {}
  BY DEF OperatorFailures
<1> HIDE DEF f
<1>5. f.operators # <<>>
  BY <1>3, <1>4 DEF FieldFailures
<1>6. 1 \in DOMAIN f.operators
  <2>1. /\ Len(f.operators) \in Nat /\ DOMAIN f.operators = 1 .. Len(f.operators)
        /\ (f.operators = <<>>) = (Len(f.operators) = 0)
    BY ONLY <1>3, ListPositions
  <2> QED BY ONLY <1>5, <2>1
<1>7. OperatorReason(f.operators[1], f.type) = "InvalidOperand"
  BY <1>3 DEF OperatorReason
<1>8. [name |-> f.name, index |-> 1, reason |-> OperatorReason(f.operators[1], f.type)]
         \in FieldFailures(f)
  BY <1>5, <1>6, <1>7 DEF FieldFailures
<1> QED BY <1>4, <1>8

(* What a source's result says of what was read.                            *)
Shown(source, read, x) ==
    source.fields # <<>> =>
        \A o \in ToSet(read.resources) :
            \/ \E shown \in ToSet(x.resources) : shown.id = o.id
            \/ Rejects(source, o)

(* A source's result without errors: the source is accepted, it was read,   *)
(* and every object that was read is there or rejected.                     *)
LEMMA OutcomeComplete ==
    ASSUME NEW source, IsSource(source), NEW read, IsList(read.resources),
           NEW x, x = Outcome(source, read), ~SourceHasErrors(x)
    PROVE  /\ read.err = "" /\ ConfigurationOutcome(source) = "accepted"
           /\ OperatorFailures(source.fields) = {} /\ Shown(source, read, x)
<1> DEFINE values    == profile.values
           fields    == source.fields
           plan      == ExtractionPlan(fields)
           extracted == Extract(fields, read, values)
           typed     == Convert(fields, extracted, values)
           operated  == Operate(fields, typed, values)
           whole     == Aggregate(source, operated, profile)
<1>1. x = [whole EXCEPT !.resources = Keep(@, LAMBDA r : r.state # "rejected")]
  BY DEF Outcome, Published
<1>2. IsResult(whole)
  <2> HIDE DEF operated
  <2> QED BY DEF Aggregate, IsResult
<1>3. /\ x.err = whole.err /\ x.fieldErrors = whole.fieldErrors
      /\ x.aggregates = whole.aggregates
      /\ x.resources = Keep(whole.resources, LAMBDA r : r.state # "rejected")
  <2> DEFINE kept == Keep(whole.resources, LAMBDA r : r.state # "rejected")
  <2>1. x = [whole EXCEPT !.resources = kept]
    BY <1>1
  <2> HIDE DEF whole, kept
  <2>2. /\ x.err = whole.err /\ x.fieldErrors = whole.fieldErrors
        /\ x.aggregates = whole.aggregates /\ x.resources = kept
    BY ONLY <1>2, <2>1 DEF IsResult
  <2> QED BY <2>2 DEF kept
<1>4. Clean(whole)
  <2> HIDE DEF whole
  <2> QED BY <1>3 DEF SourceHasErrors, Clean
<1>5. /\ operated.err = "" /\ operated.fieldErrors = {}
      /\ whole.resources = operated.resources /\ AllPlanned(source)
  <2>1. whole = Aggregate(source, operated, profile)
    OBVIOUS
  <2> DEFINE limits == profile
  <2>2. whole = Aggregate(source, operated, limits)
    BY <2>1
  <2>3. IsSource(source) /\ Clean(whole)
    BY <1>4
  <2> HIDE DEF whole, operated, limits
  <2>4. /\ operated.err = "" /\ operated.fieldErrors = {}
        /\ SameResources(whole, operated) /\ AllPlanned(source)
    BY ONLY <2>2, <2>3, AggregateClean
  <2> QED BY <2>4 DEF SameResources
<1>6. /\ typed.err = "" /\ OperatorFailures(fields) = {}
      /\ Operates(operated.resources, fields, typed.resources)
  <2>1. operated = Operate(fields, typed, values)
    OBVIOUS
  <2> HIDE DEF typed, operated, fields, values, whole
  <2> QED BY ONLY <1>5, <2>1, OperateClean
<1>7. extracted.err = "" /\ Converts(typed.resources, fields, extracted.resources)
  <2>1. typed = Convert(fields, extracted, values)
    OBVIOUS
  <2> HIDE DEF typed, extracted, fields, values
  <2> QED BY ONLY <1>6, <2>1, ConvertClean
<1>8. /\ ExtractionFailures(fields) = {} /\ read.err = ""
      /\ Extracts(extracted.resources, fields, read.resources)
  <2>1. extracted = Extract(fields, read, values) /\ IsList(fields)
    BY DEF IsSource
  <2> HIDE DEF extracted, fields, values
  <2> QED BY ONLY <1>7, <2>1, ExtractClean
<1>9. ConfigurationOutcome(source) = "accepted"
  <2>1. TypedFailures(fields) = {}
    BY <1>6, TypesSupported
  <2> HIDE DEF extracted, typed, operated, whole
  <2> QED BY <1>5, <1>6, <1>8, <2>1 DEF ConfigurationOutcome, AllPlanned
<1>10. ASSUME fields # <<>>, NEW o \in ToSet(read.resources), ~Rejects(source, o)
       PROVE  \E shown \in ToSet(x.resources) : shown.id = o.id
  <2>1. PICK i \in DOMAIN read.resources : o = read.resources[i]
    BY DEF ToSet
  <2>2. plan # <<>>
    <3>1. IsNamed(fields) /\ IsList(fields)
      BY DEF IsSource, IsNamed, ToSet
    <3>2. DOMAIN plan = DOMAIN fields
      <4>1. plan = ByName(fields)
        BY DEF ExtractionPlan, ByName
      <4> HIDE DEF plan, fields
      <4> QED BY ONLY <3>1, <4>1, SortedList
    <3>3. 1 \in DOMAIN fields
      <4> HIDE DEF fields
      <4> QED BY <1>10, <3>1, ListPositions
    <3> HIDE DEF plan, fields
    <3> QED BY <3>2, <3>3
  <2> DEFINE e == EvaluateResource(plan, o)
             t == ConvertResource(fields, e)
             p == EvaluateOperators(fields, t)
             W == whole.resources
             K == {j \in DOMAIN W : W[j].state # "rejected"}
  <2>3. i \in DOMAIN W /\ W[i] = p /\ DOMAIN W = DOMAIN read.resources
    <3> HIDE DEF extracted, typed, operated, whole, plan, fields
    <3>1. DOMAIN extracted.resources = DOMAIN read.resources /\ extracted.resources[i] = e
      BY <1>8, <2>1, <2>2 DEF Extracts, plan
    <3> HIDE DEF e
    <3>2. DOMAIN typed.resources = DOMAIN read.resources /\ typed.resources[i] = t
      BY <1>7, <3>1 DEF Converts
    <3> HIDE DEF t
    <3> QED BY <1>5, <1>6, <3>2 DEF Operates
  <2>4. e.id = o.id
    BY DEF EvaluateResource
  <2>5. t.id = e.id
    <3> HIDE DEF e
    <3> QED BY DEF ConvertResource
  <2>6. p.id = t.id /\ p.state # "rejected"
    <3>1. p.id = t.id
      <4> HIDE DEF t
      <4> QED BY DEF EvaluateOperators
    <3>2. p.state # "rejected"
      BY <1>10 DEF Rejects
    <3> QED BY <3>1, <3>2
  <2>7. W[i] \in ToSet(x.resources)
    <3>1. x.resources = [n \in 1 .. Cardinality(K) |-> W[Nth(K, n)]]
      <4> HIDE DEF whole
      <4> QED BY <1>3 DEF Keep
    <3>2. W \in Seq(ToSet(W))
      <4>1. DOMAIN W = 1 .. Len(read.resources) /\ Len(read.resources) \in Nat
        <5> HIDE DEF W
        <5> QED BY <2>3, ListPositions
      <4>2. W = [j \in DOMAIN W |-> W[j]]
        <5> HIDE DEF extracted, typed, operated, whole
        <5> QED BY <1>5, <1>6 DEF Operates
      <4> HIDE DEF W
      <4>3. \A j \in 1 .. Len(read.resources) : W[j] \in ToSet(W)
        BY <4>1 DEF ToSet
      <4> QED BY <4>1, <4>2, <4>3
    <3>3. K \subseteq DOMAIN W /\ i \in K
      <4> HIDE DEF W, p
      <4> QED BY <2>3, <2>6
    <3> HIDE DEF W, K
    <3> QED BY <3>1, <3>2, <3>3, KeptList
  <2> HIDE DEF p, t, e, W
  <2> QED BY <2>3, <2>4, <2>5, <2>6, <2>7
<1> HIDE DEF extracted, typed, operated, whole
<1> QED BY <1>6, <1>8, <1>9, <1>10 DEF Shown

(* What is read back of a result without errors has none, and shows the     *)
(* same objects.                                                            *)
LEMMA DecodedComplete ==
    ASSUME NEW x, IsResult(x), NEW y, y = DecodedSource(x),
           NEW source, NEW read, Shown(source, read, x), ~SourceHasErrors(x)
    PROVE  Shown(source, read, y) /\ ~SourceHasErrors(y)
<1> DEFINE R == [i \in DOMAIN x.resources |-> DecodedResource(x.resources[i])]
           A == [i \in DOMAIN x.aggregates |-> DecodedAggregate(x.aggregates[i])]
<1>1. y = [x EXCEPT !.resources = R, !.aggregates = A]
  BY DEF DecodedSource
<1>2. y.err = x.err /\ y.fieldErrors = x.fieldErrors /\ y.resources = R /\ y.aggregates = A
  <2> HIDE DEF R, A
  <2> QED BY ONLY <1>1, IsResult(x) DEF IsResult
<1>3. /\ x.err = "" /\ x.fieldErrors = {}
      /\ \A r \in ToSet(x.resources) :
            r.reason = "" /\ \A f \in ToSet(r.fields) : f.state # "error"
      /\ \A a \in ToSet(x.aggregates) : a.state = "values"
  BY DEF SourceHasErrors
<1>4. ASSUME NEW s \in ToSet(R)
      PROVE  s.reason = "" /\ \A f \in ToSet(s.fields) : f.state # "error"
  <2>1. PICK i \in DOMAIN x.resources : s = DecodedResource(x.resources[i])
    BY DEF ToSet
  <2> DEFINE r == x.resources[i]
  <2>2. r.reason = "" /\ \A f \in ToSet(r.fields) : f.state # "error"
    BY <1>3 DEF ToSet
  <2> HIDE DEF r
  <2>3. /\ s.reason = r.reason
        /\ s.fields = [j \in DOMAIN r.fields |-> DecodedField(r.fields[j])]
    BY <2>1 DEF DecodedResource, r
  <2>4. ASSUME NEW f \in ToSet(s.fields) PROVE f.state # "error"
    <3>1. PICK j \in DOMAIN r.fields : f = DecodedField(r.fields[j])
      BY <2>3 DEF ToSet
    <3>2. f.state = r.fields[j].state
      BY <3>1 DEF DecodedField
    <3> QED BY <2>2, <3>2 DEF ToSet
  <2> QED BY <2>2, <2>3, <2>4
<1>5. ASSUME NEW a \in ToSet(A) PROVE a.state = "values"
  <2>1. PICK i \in DOMAIN x.aggregates : a = DecodedAggregate(x.aggregates[i])
    BY DEF ToSet
  <2>2. a.state = x.aggregates[i].state
    BY <2>1 DEF DecodedAggregate
  <2> QED BY <1>3, <2>2 DEF ToSet
<1>6. ASSUME NEW r \in ToSet(x.resources) PROVE \E s \in ToSet(R) : s.id = r.id
  <2>1. PICK i \in DOMAIN x.resources : r = x.resources[i]
    BY DEF ToSet
  <2>2. R[i] \in ToSet(R) /\ R[i] = DecodedResource(r)
    BY <2>1 DEF ToSet
  <2> HIDE DEF R
  <2>3. R[i].id = r.id
    BY <2>2 DEF DecodedResource
  <2> QED BY <2>2, <2>3
<1> HIDE DEF R, A
<1>7. ~SourceHasErrors(y)
  BY <1>2, <1>3, <1>4, <1>5 DEF SourceHasErrors
<1>8. Shown(source, read, y)
  BY <1>2, <1>6 DEF Shown
<1> QED BY <1>7, <1>8

(***************************************************************************)
(* Ready hides nothing: what the conditions say.                            *)
(***************************************************************************)

(* A list of conditions has one with this type and status.                  *)
Has(C, type, value) == \E c \in ToSet(C) : c.type = type /\ c.status = value

(* The five conditions in their order.                                      *)
FiveTypes(D) ==
    /\ IsList(D) /\ DOMAIN D = 1 .. 5 /\ \A i \in 1 .. 5 : IsCondition(D[i])
    /\ D[1].type = "Accepted" /\ D[2].type = "Authorized" /\ D[3].type = "SourcesResolved"
    /\ D[4].type = "Ready" /\ D[5].type = "Degraded"

(* What is merged shows the five, and Ready only from among them.           *)
LEMMA MergedShows ==
    ASSUME NEW P, IsList(P), NEW D, FiveTypes(D), NEW now,
           NEW M, M = MergeConditions(P, D, now)
    PROVE  /\ Has(M, "Ready", "True") => D[4].status = "True"
           /\ \A i \in 1 .. 5 : Has(M, D[i].type, D[i].status)
<1>1. /\ \A c \in ToSet(M) :
            \/ \E i \in DOMAIN D : /\ c.type = D[i].type /\ c.status = D[i].status
                                   /\ c.reason = D[i].reason
            \/ c \in ToSet(P) /\ ~IsCanonical(c.type)
      /\ \A i \in DOMAIN D : \E c \in ToSet(M) :
            c.type = D[i].type /\ c.status = D[i].status /\ c.reason = D[i].reason
  BY MergedMeans DEF FiveTypes
<1>2. ASSUME NEW c \in ToSet(M), c.type = "Ready", c.status = "True"
      PROVE  D[4].status = "True"
  <2>1. IsCanonical(c.type)
    BY <1>2 DEF IsCanonical, Canonical, ToSet
  <2>2. PICK i \in DOMAIN D : c.type = D[i].type /\ c.status = D[i].status
    BY <1>1, <2>1
  <2>3. i = 4
    BY <1>2, <2>2 DEF FiveTypes
  <2> QED BY <1>2, <2>2, <2>3
<1>3. \A i \in 1 .. 5 : Has(M, D[i].type, D[i].status)
  BY <1>1 DEF Has, FiveTypes
<1> QED BY <1>2, <1>3 DEF Has

(* The five conditions of an evaluation.                                    *)
LEMMA EvaluationConditions ==
    ASSUME NEW A \in Seq(Assessment), NEW G, NEW g, NEW e, e.sources = A, e.global = G,
           NEW scoped, NEW ready \in BOOLEAN, NEW r,
           NEW D, D = <<AcceptedCondition(g, A, scoped), AuthorizedCondition(g, e, scoped),
                        ResolutionCondition(g, A, scoped),
                        ReadyCondition(g, ready, r), DegradedCondition(g, ready, r)>>
    PROVE  /\ FiveTypes(D)
           /\ D[4].status = "True" => ready
           /\ (\A i \in DOMAIN A : A[i].configuration = "accepted") => D[1].status = "True"
           /\ (\A i \in DOMAIN A : A[i].resolution = "resolved") => D[3].status = "True"
           /\ G = {} /\ (\A i \in DOMAIN A : A[i].authorization = "allowed")
                 => D[2].status = "True"
<1>1. /\ IsList(D) /\ DOMAIN D = 1 .. 5
      /\ D[1] = AcceptedCondition(g, A, scoped) /\ D[2] = AuthorizedCondition(g, e, scoped)
      /\ D[3] = ResolutionCondition(g, A, scoped)
      /\ D[4] = ReadyCondition(g, ready, r) /\ D[5] = DegradedCondition(g, ready, r)
  BY FiveConditions
<1>2. /\ IsCondition(D[1]) /\ D[1].type = "Accepted"
      /\ \/ D[1].status = "True" /\ \A i \in DOMAIN A : A[i].configuration = "accepted"
         \/ D[1].status = "False" /\ \E i \in DOMAIN A : A[i].configuration = "invalid"
  BY <1>1, AcceptedMeans
<1>3. /\ IsCondition(D[2]) /\ D[2].type = "Authorized"
      /\ G = {} /\ (\A i \in DOMAIN A : A[i].authorization = "allowed")
            => D[2].status = "True"
  <2>1. \/ D[2].reason \in G
        \/ D[2].status = "True"
        \/ \E i \in DOMAIN A : A[i].authorization # "allowed"
    BY <1>1, AuthorizedMeans
  <2>2. IsCondition(D[2]) /\ D[2].type = "Authorized"
    BY <1>1, AuthorizedMeans
  <2> QED BY <2>1, <2>2
<1>4. /\ IsCondition(D[3]) /\ D[3].type = "SourcesResolved"
      /\ \/ D[3].reason = "resolved" /\ D[3].status = "True"
            /\ \A i \in DOMAIN A : A[i].resolution = "resolved"
         \/ \E i \in DOMAIN A : D[3].reason = A[i].resolution /\ A[i].resolution # "resolved"
  BY <1>1, ResolutionMeans
<1>5. /\ IsCondition(D[4]) /\ D[4].type = "Ready" /\ (D[4].status = "True" => ready)
  <2>1. D[4] = Condition("Ready", IF ready THEN "True" ELSE "False", r, g, 0)
    BY <1>1 DEF ReadyCondition
  <2> DEFINE v == IF ready THEN "True" ELSE "False"
  <2>2. v = "True" => ready
    OBVIOUS
  <2> HIDE DEF v
  <2>3. D[4] = Condition("Ready", v, r, g, 0)
    BY <2>1 DEF v
  <2> QED BY ONLY <2>2, <2>3, ConditionParts
<1>6. IsCondition(D[5]) /\ D[5].type = "Degraded"
  <2>1. \E v : D[5] = Condition("Degraded", v, r, g, 0)
    BY <1>1 DEF DegradedCondition
  <2> QED BY ONLY <2>1, ConditionParts
<1> QED BY <1>1, <1>2, <1>3, <1>4, <1>5, <1>6 DEF FiveTypes

(***************************************************************************)
(* Ready hides nothing: the conditions of each outcome.                     *)
(***************************************************************************)

(* The five conditions of a configuration that exceeds its budget.          *)
LEMMA BudgetConditions ==
    ASSUME NEW g, NEW D, D = ConfigurationBudgetConditions(g)
    PROVE  FiveTypes(D) /\ D[4].status = "False"
<1>1. /\ IsList(D) /\ DOMAIN D = 1 .. 5
      /\ D[1] = Condition("Accepted", "False", "ConfigurationBudgetExceeded", g, 0)
      /\ D[2] = Condition("Authorized", "Unknown", "not-evaluated", g, 0)
      /\ D[3] = Condition("SourcesResolved", "Unknown", "not-evaluated", g, 0)
      /\ D[4] = Condition("Ready", "False", "ConfigurationBudgetExceeded", g, 0)
      /\ D[5] = Condition("Degraded", "True", "EvaluationUnavailable", g, 0)
  BY FiveConditions DEF ConfigurationBudgetConditions, ReadyCondition, DegradedCondition
<1>2. /\ IsCondition(D[1]) /\ D[1].type = "Accepted"
      /\ IsCondition(D[2]) /\ D[2].type = "Authorized"
  BY <1>1, ConditionParts
<1>3. /\ IsCondition(D[3]) /\ D[3].type = "SourcesResolved"
      /\ IsCondition(D[5]) /\ D[5].type = "Degraded"
  BY <1>1, ConditionParts
<1>4. IsCondition(D[4]) /\ D[4].type = "Ready" /\ D[4].status = "False"
  BY <1>1, ConditionParts
<1>5. \A i \in 1 .. 5 : IsCondition(D[i])
  BY <1>2, <1>3, <1>4
<1> QED BY <1>1, <1>2, <1>3, <1>4, <1>5 DEF FiveTypes

(* A status that reports Ready shows the whole result, and the other        *)
(* conditions say what the assessments do.                                  *)
Ready(s, A, G, R) ==
    /\ ~HasResultErrors(R) /\ s.result = {R} /\ s.summary = {Summary(R)}
    /\ (\A i \in DOMAIN A : A[i].configuration = "accepted") =>
          Has(s.conditions, "Accepted", "True")
    /\ (\A i \in DOMAIN A : A[i].resolution = "resolved") =>
          Has(s.conditions, "SourcesResolved", "True")
    /\ G = {} /\ (\A i \in DOMAIN A : A[i].authorization = "allowed") =>
          Has(s.conditions, "Authorized", "True")

(* composeBoundedStatus: only a result that fits and has no errors is       *)
(* reported as Ready.                                                       *)
LEMMA ReadyReports ==
    ASSUME NEW A \in Seq(Assessment), NEW G, NEW R, NEW P, IsList(P), NEW g, NEW now, NEW limit,
           NEW t \in {"result", "budget"},
           NEW e, IsEvaluation(e, t, R, G, A),
           NEW s, s \in ComposeBounded(g, P, e, now, limit),
           Has(s.conditions, "Ready", "True")
    PROVE  t = "result" /\ Ready(s, A, G, R)
<1> DEFINE f == [e EXCEPT !.terminal = "limit"]
<1>1. /\ e.terminal = t /\ e.sources = A /\ e.global = G /\ e.result = R
      /\ f.terminal = "limit" /\ f.sources = A /\ f.global = G /\ f.result = R
  BY DEF IsEvaluation
<1>2. s = Compose(g, P, e, now) \/ s = Compose(g, P, f, now)
  BY DEF ComposeBounded
<1>3. ASSUME NEW D, FiveTypes(D), NEW r, s = Status(g, MergeConditions(P, D, now), r)
      PROVE  /\ s.result = r /\ s.summary = {Summary(q) : q \in r} /\ D[4].status = "True"
             /\ \A i \in 1 .. 5 : Has(s.conditions, D[i].type, D[i].status)
  <2> DEFINE M == MergeConditions(P, D, now)
  <2>1. /\ Has(M, "Ready", "True") => D[4].status = "True"
        /\ \A i \in 1 .. 5 : Has(M, D[i].type, D[i].status)
    <3>1. M = MergeConditions(P, D, now)
      OBVIOUS
    <3> HIDE DEF M
    <3> QED BY <1>3, <3>1, MergedShows
  <2> HIDE DEF M
  <2>2. s = [generation |-> g, conditions |-> M, result |-> r,
             summary |-> {Summary(q) : q \in r}]
    BY <1>3 DEF Status, M
  <2> QED BY <2>1, <2>2
<1>4. CASE s = Compose(g, P, e, now) /\ t = "result"
  <2> DEFINE D == DesiredConditions(g, e)
             degraded == HasResultErrors(e.result)
             why == IF degraded THEN "EvaluationDegraded" ELSE "EvaluationSucceeded"
             ready == ~degraded
  <2>1. s = Status(g, MergeConditions(P, D, now), {R})
    BY <1>1, <1>4 DEF Compose
  <2>2. D = <<AcceptedCondition(g, A, TRUE), AuthorizedCondition(g, e, TRUE),
              ResolutionCondition(g, A, TRUE),
              ReadyCondition(g, ready, why), DegradedCondition(g, ready, why)>>
    BY <1>1 DEF DesiredConditions
  <2>3. ready \in BOOLEAN
    BY Zenon
  <2> DEFINE yes == TRUE
  <2>4. D = <<AcceptedCondition(g, A, yes), AuthorizedCondition(g, e, yes),
              ResolutionCondition(g, A, yes),
              ReadyCondition(g, ready, why), DegradedCondition(g, ready, why)>>
    BY <2>2
  <2>5. ready => ~HasResultErrors(R)
    BY <1>1
  <2> HIDE DEF D, ready, why, yes, f
  <2>6. /\ FiveTypes(D)
        /\ D[4].status = "True" => ready
        /\ (\A i \in DOMAIN A : A[i].configuration = "accepted") => D[1].status = "True"
        /\ (\A i \in DOMAIN A : A[i].resolution = "resolved") => D[3].status = "True"
        /\ G = {} /\ (\A i \in DOMAIN A : A[i].authorization = "allowed")
              => D[2].status = "True"
    BY <1>1, <2>3, <2>4, EvaluationConditions
  <2> DEFINE r == {R}
  <2>7. s = Status(g, MergeConditions(P, D, now), r)
    BY <2>1
  <2>8. {Summary(q) : q \in r} = {Summary(R)}
    OBVIOUS
  <2> HIDE DEF r
  <2>9. /\ s.result = r /\ s.summary = {Summary(q) : q \in r} /\ D[4].status = "True"
        /\ \A i \in 1 .. 5 : Has(s.conditions, D[i].type, D[i].status)
    BY <1>3, <2>6, <2>7
  <2>10. /\ Has(s.conditions, "Accepted", D[1].status) /\ Has(s.conditions, "Authorized", D[2].status)
         /\ Has(s.conditions, "SourcesResolved", D[3].status)
    BY <2>6, <2>9 DEF FiveTypes
  <2>11. s.result = {R} /\ s.summary = {Summary(R)}
    BY <2>8, <2>9 DEF r
  <2> QED BY <1>4, <2>5, <2>6, <2>9, <2>10, <2>11 DEF Ready
<1>5. CASE s = Compose(g, P, e, now) /\ t = "budget"
  <2> DEFINE D == ConfigurationBudgetConditions(g)
             none == {}
  <2>1. s = Status(g, MergeConditions(P, D, now), none)
    BY <1>1, <1>5 DEF Compose
  <2>2. FiveTypes(D) /\ D[4].status = "False"
    BY BudgetConditions
  <2> HIDE DEF D, none, f
  <2>3. D[4].status = "True"
    BY <1>3, <2>1, <2>2
  <2> QED BY <2>2, <2>3
<1>6. CASE s = Compose(g, P, f, now)
  <2> DEFINE D == CompactLimitConditions(g, f)
             none == {}
             no == FALSE
             why == "ResultLimitExceeded"
  <2>1. s = Status(g, MergeConditions(P, D, now), none)
    BY <1>1, <1>6 DEF Compose
  <2>2. D = <<AcceptedCondition(g, A, no), AuthorizedCondition(g, f, no),
              ResolutionCondition(g, A, no),
              ReadyCondition(g, no, why), DegradedCondition(g, no, why)>>
    BY <1>1 DEF CompactLimitConditions
  <2>3. no \in BOOLEAN /\ ~no
    BY Zenon
  <2> HIDE DEF D, none, no, why, f
  <2>4. FiveTypes(D) /\ (D[4].status = "True" => no)
    BY <1>1, <2>2, <2>3, EvaluationConditions
  <2>5. D[4].status = "True"
    BY <1>3, <2>1, <2>4
  <2> QED BY <2>3, <2>4, <2>5
<1> QED BY <1>2, <1>4, <1>5, <1>6

(***************************************************************************)
(* Ready hides nothing: what an attempt knows of each source.               *)
(***************************************************************************)

(* Every target of the source was allowed, by a policy that could be        *)
(* loaded, and its kind resolved.                                           *)
Granted(i) ==
    /\ planned[i].assessment.configuration = ConfigurationOutcome(Sources[i])
    /\ planned[i].assessment.authorization = "allowed"
    /\ planned[i].assessment.resolution = "resolved"
    /\ DeriveTargets(Sources[i]) # {} => snapshot.terminal = ""

(* The operators of the source compile, without which it is not planned.    *)
Compiles(i) == OperatorFailures(Sources[i].fields) = {}

(* Before the source is planned, ...                                        *)
Fresh(i) ==
    /\ ~planned[i].canExecute
    /\ planned[i].assessment.configuration = ConfigurationOutcome(Sources[i])

(* ... when it is, ...                                                      *)
Decided(i) ==
    /\ planned[i].canExecute => Granted(i)
    /\ ~planned[i].canExecute => planned[i].err # "" \/ ~Compiles(i)

(* ... when it was read, ...                                                *)
WasRead(i) == selected[i].err = "" /\ Compiles(i) => Granted(i)

(* ... and when it is completed: a result without errors is that of a       *)
(* source which was granted, accepted and read, and shows what was read.    *)
Honest(i) ==
    ~SourceHasErrors(results[i]) =>
        /\ selected[i].err = "" /\ Shown(Sources[i], selected[i], results[i])
        /\ Granted(i) /\ ConfigurationOutcome(Sources[i]) = "accepted"

(* The source is still to be planned, or planned and still to be read.      *)
ToPlan(i) == pc = "load" \/ (pc = "plan" /\ i >= index)

ToRead(i) ==
    \/ pc = "plan" /\ i < index
    \/ pc = "routes"
    \/ pc = "read" /\ i >= index
    \/ pc = "evaluate" /\ i > index

(* What is known of a source at each step.                                  *)
Known(i) ==
    /\ ToPlan(i) => Fresh(i)
    /\ ToRead(i) => Decided(i)
    /\ pc = "evaluate" /\ i = index => WasRead(i)
    /\ i \in completed => Honest(i)

(* A status is composed of sources that are completed or have an error.     *)
Settled(i) == i \in completed \/ results[i].err # ""

(* The second inductive invariant: how far each source has come, and that   *)
(* none is forgotten when the status is composed.                           *)
Progress ==
    /\ pc \notin Early => \A i \in DOMAIN Sources : Known(i)
    /\ pc = "publish" /\ terminal = "result" => \A i \in DOMAIN Sources : Settled(i)

(* No attempt, nothing to know.                                             *)
LEMMA EarlyProgress ==
    ASSUME pc' \in Early
    PROVE  Progress'
BY DEF Progress, Early

(* A step that leaves the attempt as it is.                                 *)
LEMMA FrameProgress ==
    ASSUME Progress, UNCHANGED <<pc, facet, index, snapshot, planned, selected, results,
                                 completed, terminal>>
    PROVE  Progress'
<1>1. Sources' = Sources
  BY DEF Sources
<1>2. ASSUME NEW i \in DOMAIN Sources, Known(i) PROVE Known(i)'
  BY <1>1, <1>2 DEF Known, ToPlan, ToRead, Fresh, Decided, WasRead, Honest, Granted, Compiles
<1> QED BY <1>1, <1>2 DEF Progress, Settled

(* A source whose entry, read and result stay is known as it was.           *)
LEMMA SameSource ==
    ASSUME NEW i, Sources' = Sources, snapshot' = snapshot, planned'[i] = planned[i],
           selected'[i] = selected[i], results'[i] = results[i]
    PROVE  /\ Fresh(i)' = Fresh(i) /\ Decided(i)' = Decided(i) /\ WasRead(i)' = WasRead(i)
           /\ Honest(i)' = Honest(i)
BY DEF Fresh, Decided, WasRead, Honest, Granted, Compiles

(* ValidateBudgets: nothing is planned yet.                                 *)
LEMMA ValidateBudgetsProgress ==
    ASSUME Inv, Inv', ValidateBudgets
    PROVE  Progress'
<1>1. /\ pc = "validate" /\ UNCHANGED <<facet, completed>>
      /\ planned' = [i \in DOMAIN Sources |->
                      [assessment |-> [configuration |-> ConfigurationOutcome(Sources[i]),
                                       authorization |-> "not-evaluated",
                                       resolution |-> "not-evaluated"],
                       err |-> "", canExecute |-> FALSE]]
  BY DEF ValidateBudgets, cluster
<1>2. \/ /\ pc' = (IF Sources = <<>> THEN "routes" ELSE "load")
      \/ /\ pc' = "publish" /\ terminal' = "budget"
  BY DEF ValidateBudgets
<1>3. Sources' = Sources /\ completed' = {}
  BY <1>1 DEF Sources, Inv, Loops, Early
<1>4. ASSUME NEW i \in DOMAIN Sources PROVE Known(i)'
  <2>1. /\ planned'[i].assessment.configuration = ConfigurationOutcome(Sources[i])
        /\ planned'[i].canExecute = FALSE
    <3>1. planned'[i] = [assessment |-> [configuration |-> ConfigurationOutcome(Sources[i]),
                                         authorization |-> "not-evaluated",
                                         resolution |-> "not-evaluated"],
                         err |-> "", canExecute |-> FALSE]
      BY <1>1
    <3> QED BY <3>1, FirstAssessment
  <2>2. Fresh(i)'
    BY <1>3, <2>1 DEF Fresh
  <2>3. Sources # <<>>
    OBVIOUS
  <2>4. pc' \in {"load", "publish"}
    BY <1>2, <2>3
  <2> QED BY <1>3, <2>2, <2>4 DEF Known, ToRead
<1> QED BY <1>2, <1>3, <1>4 DEF Progress

(* FinishTimedOut: a source without a result has an error.                  *)
LEMMA FinishTimedOutProgress ==
    ASSUME Inv, Inv', Progress, FinishTimedOut
    PROVE  Progress'
<1>1. /\ pc \in {"load", "plan", "routes", "read", "evaluate"} /\ pc' = "publish"
      /\ results' = [i \in DOMAIN Sources |->
                        IF i \in completed THEN results[i] ELSE SourceError("EvaluationTimedOut")]
      /\ UNCHANGED <<facet, snapshot, planned, selected, completed, terminal>>
  BY DEF FinishTimedOut, cluster
<1>2. Sources' = Sources /\ pc \notin Early
  BY <1>1 DEF Sources, Early
<1>3. ASSUME NEW i \in DOMAIN Sources PROVE Known(i)' /\ Settled(i)'
  <2>1. CASE i \in completed
    <3>1. results'[i] = results[i] /\ i \in completed'
      BY <1>1, <2>1
    <3>2. Honest(i)
      BY <1>2, <2>1 DEF Progress, Known
    <3>3. Honest(i)'
      BY <1>1, <1>2, <3>1, <3>2, SameSource
    <3> QED BY <1>1, <3>1, <3>3 DEF Known, Settled, ToPlan, ToRead
  <2>2. CASE i \notin completed
    <3>1. results'[i] = SourceError("EvaluationTimedOut") /\ i \notin completed'
      BY <1>1, <2>2
    <3>2. results'[i].err # ""
      BY <3>1 DEF SourceError
    <3> QED BY <1>1, <3>1, <3>2 DEF Known, Settled, ToPlan, ToRead
  <2> QED BY <2>1, <2>2
<1> QED BY <1>2, <1>3 DEF Progress

(* Load: no source is planned yet.                                          *)
LEMMA LoadProgress ==
    ASSUME Inv, Inv', Progress, Load
    PROVE  Progress'
<1>1. /\ pc = "load" /\ pc' = "plan" /\ index' = 1
      /\ UNCHANGED <<facet, planned, selected, results, completed, terminal>>
  BY DEF Load, Live, cluster
<1>2. /\ Sources' = Sources /\ pc \notin Early /\ completed' = {}
      /\ DOMAIN Sources = 1 .. Len(Sources)
  BY <1>1, SourcesShape DEF Sources, Early, Inv, Loops
<1>3. ASSUME NEW i \in DOMAIN Sources PROVE Known(i)'
  <2>1. Fresh(i)
    BY <1>1, <1>2 DEF Progress, Known, ToPlan
  <2>2. Fresh(i)'
    BY <1>1, <1>2, <2>1 DEF Fresh
  <2>3. ~(i < 1)
    BY <1>2
  <2> QED BY <1>1, <1>2, <2>2, <2>3 DEF Known, ToRead
<1> QED BY <1>1, <1>2, <1>3 DEF Progress

(* EvaluateBatch: a source that may be read has no target that is denied.   *)
LEMMA AuthorizedDecides ==
    ASSUME Loaded, NEW e \in Entry, ~e.canExecute, NEW source, NEW u, u = Authorized(e, source)
    PROVE  /\ u.assessment.resolution = "resolved"
           /\ u.assessment.configuration = e.assessment.configuration
           /\ u.canExecute => /\ u.assessment.authorization = "allowed"
                              /\ DeriveTargets(source) # {} => snapshot.terminal = ""
           /\ ~u.canExecute => u.err # ""
<1> DEFINE c == e.assessment.configuration
           a == e.assessment.authorization
           r == e.assessment.resolution
           m == e.err
           x == e.canExecute
           decision(t) == Evaluate(snapshot, [kind |-> source.kind, namespace |-> t])
           denied == {t \in DeriveTargets(source) : decision(t) # "Allowed"}
           o == AuthorizationOutcome(decision(Max(denied)))
           yes == TRUE
<1>1. /\ c \in Configurations /\ a \in Authorizations /\ r \in Resolutions /\ m \in PlanErrors
      /\ x \in BOOLEAN /\ e = EntryWith(c, a, r, m, x)
  BY EntryParts
<1>2. u = IF denied = {}
          THEN [e EXCEPT !.assessment.resolution = "resolved",
                         !.assessment.authorization = "allowed", !.canExecute = yes]
          ELSE [e EXCEPT !.assessment.resolution = "resolved",
                         !.assessment.authorization = o, !.err = "AuthorizationDenied"]
  BY DEF Authorized
<1>3. /\ "allowed" \in Authorizations /\ "resolved" \in Resolutions
      /\ "AuthorizationDenied" \in PlanErrors /\ yes \in BOOLEAN
  BY DEF Authorizations, Resolutions, PlanErrors
<1>8. yes /\ ~x
  OBVIOUS
<1>4. denied = {} /\ DeriveTargets(source) # {} => snapshot.terminal = ""
  <2> SUFFICES ASSUME denied = {}, NEW t \in DeriveTargets(source)
               PROVE  snapshot.terminal = ""
    OBVIOUS
  <2>1. decision(t) = "Allowed"
    OBVIOUS
  <2>2. snapshot.terminal # "" => snapshot.terminal = "Allowed"
    BY <2>1 DEF Evaluate
  <2> QED BY <2>2 DEF Loaded
<1>5. o \in Authorizations
  <2> DEFINE d == decision(Max(denied))
  <2>1. o = AuthorizationOutcome(d)
    OBVIOUS
  <2> HIDE DEF d, o
  <2> QED BY <2>1 DEF AuthorizationOutcome, Authorizations
<1> HIDE DEF c, a, r, m, x, o, denied, yes
<1>6. CASE denied = {}
  <2>1. u = EntryWith(c, "allowed", "resolved", m, yes)
    BY <1>1, <1>2, <1>6 DEF EntryWith
  <2>2. /\ u.assessment.configuration = c /\ u.assessment.authorization = "allowed"
        /\ u.assessment.resolution = "resolved" /\ u.canExecute = yes
    BY ONLY <1>1, <1>3, <2>1, EntryOf
  <2> QED BY <1>4, <1>6, <1>8, <2>2 DEF c
<1>7. CASE denied # {}
  <2>1. u = EntryWith(c, o, "resolved", "AuthorizationDenied", x)
    BY <1>1, <1>2, <1>7 DEF EntryWith
  <2>2. /\ u.assessment.configuration = c /\ u.assessment.resolution = "resolved"
        /\ u.err = "AuthorizationDenied" /\ u.canExecute = x
    BY ONLY <1>1, <1>3, <1>5, <2>1, EntryOf
  <2> QED BY <1>8, <2>2 DEF c
<1> QED BY <1>6, <1>7

(* Plan: the source is decided, the others stay as they were.               *)
LEMMA PlanProgress ==
    ASSUME Inv, Inv', Progress, Plan
    PROVE  Progress'
<1> DEFINE source == Sources[index]
           entry == planned[index]
           reason(reachable) == SourceReason(source, reachable, Served)
<1>1. /\ pc = "plan"
      /\ \/ index < Len(Sources) /\ pc' = "plan" /\ index' = index + 1
         \/ ~(index < Len(Sources)) /\ pc' = "routes" /\ index' = 0
      /\ UNCHANGED <<facet, snapshot, selected, results, completed, terminal>>
  BY DEF Plan, Live, Advance, cluster
<1>2. PICK reachable \in BOOLEAN :
         \/ OperatorFailures(source.fields) # {} /\ UNCHANGED planned
         \/ /\ reason(reachable) # ""
            /\ planned' = [planned EXCEPT ![index] = Unplanned(entry, reason(reachable))]
         \/ /\ reason(reachable) = ""
            /\ planned' = [planned EXCEPT ![index] = Authorized(entry, source)]
  BY DEF Plan
<1>3. /\ DOMAIN Sources = 1 .. Len(Sources) /\ Len(Sources) \in Nat /\ index \in DOMAIN Sources
      /\ DOMAIN planned = DOMAIN Sources /\ entry \in Entry
      /\ pc \notin Early /\ completed = {} /\ Sources' = Sources
  <2>1. pc \notin Early /\ Sources' = Sources
    BY <1>1 DEF Early, Sources
  <2>2. DOMAIN Sources = 1 .. Len(Sources) /\ Len(Sources) \in Nat /\ index \in DOMAIN Sources
    BY <1>1, SourcesShape DEF Inv, Loops
  <2>3. planned \in Seq(Entry) /\ Len(planned) = Len(Sources) /\ completed = {}
    BY <1>1, <2>1 DEF Inv, Loops
  <2> QED BY <2>1, <2>2, <2>3
<1>k. PICK k : k = index
  OBVIOUS
<1>4. Fresh(k)
  BY <1>k, <1>1, <1>3 DEF Progress, Known, ToPlan
<1>5. \A i \in DOMAIN Sources : i # index => planned'[i] = planned[i]
  BY <1>2, <1>3
<1>6. Decided(k)'
  <2>1. CASE OperatorFailures(source.fields) # {} /\ UNCHANGED planned
    <3>1. ~Compiles(k)' /\ ~planned'[k].canExecute
      BY <1>k, <1>1, <1>3, <1>4, <2>1 DEF Compiles, Fresh
    <3> QED BY <1>1, <3>1 DEF Decided
  <2>2. CASE /\ reason(reachable) # ""
             /\ planned' = [planned EXCEPT ![index] = Unplanned(entry, reason(reachable))]
    <3> DEFINE why == reason(reachable)
               e == Unplanned(entry, why)
    <3>1. why \in {"DiscoveryUnavailable", "UnknownType", "InvalidSelector",
                   "InvalidNamespaceScope", "InvalidDescriptor"}
      <4> HIDE DEF source
      <4> QED BY <2>2 DEF SourceReason, PlanReason
    <3>2. e.canExecute = entry.canExecute /\ e.err # ""
      <4>1. entry \in Entry BY <1>3
      <4>2. e = Unplanned(entry, why) OBVIOUS
      <4> HIDE DEF why, entry, e
      <4> QED BY ONLY <3>1, <4>1, <4>2, UnplannedEntry
    <3>3. planned'[k] = e
      BY <1>k, <1>3, <2>2
    <3> HIDE DEF why, e
    <3>4. ~planned'[k].canExecute /\ planned'[k].err # ""
      BY <1>k, <1>4, <3>2, <3>3 DEF Fresh
    <3> QED BY <1>1, <3>4 DEF Decided
  <2>3. CASE /\ reason(reachable) = ""
             /\ planned' = [planned EXCEPT ![index] = Authorized(entry, source)]
    <3> DEFINE e == Authorized(entry, source)
    <3>1. /\ e.assessment.resolution = "resolved"
          /\ e.assessment.configuration = entry.assessment.configuration
          /\ e.canExecute => /\ e.assessment.authorization = "allowed"
                             /\ DeriveTargets(source) # {} => snapshot.terminal = ""
          /\ ~e.canExecute => e.err # ""
      <4>1. Loaded /\ ~entry.canExecute
        BY <1>k, <1>4 DEF Inv, Records, Fresh
      <4>2. entry \in Entry /\ e = Authorized(entry, source)
        BY <1>3
      <4> HIDE DEF entry, source, e
      <4> QED BY ONLY <4>1, <4>2, AuthorizedDecides
    <3>2. planned'[k] = e
      BY <1>k, <1>3, <2>3
    <3>3. entry.assessment.configuration = ConfigurationOutcome(source)
      BY <1>k, <1>4 DEF Fresh
    <3> HIDE DEF e
    <3>4. planned'[k].canExecute => Granted(k)'
      BY <1>k, <1>1, <1>3, <3>1, <3>2, <3>3 DEF Granted
    <3>5. ~planned'[k].canExecute => planned'[k].err # ""
      BY <3>1, <3>2
    <3> QED BY <1>1, <3>4, <3>5 DEF Decided
  <2> QED BY <1>2, <2>1, <2>2, <2>3
<1>7. index' # index
  BY <1>1, <1>3
<1>8. ASSUME NEW i \in DOMAIN Sources PROVE Known(i)'
  <2>1. CASE i = index
    <3>1. ~ToPlan(i)' /\ pc' # "evaluate" /\ i \notin completed'
      BY <1>1, <1>3, <2>1 DEF ToPlan
    <3> QED BY <1>k, <1>6, <2>1, <3>1 DEF Known
  <2>2. CASE i # index
    <3>1. Known(i)
      BY <1>3 DEF Progress
    <3>2. Fresh(i)' = Fresh(i) /\ Decided(i)' = Decided(i)
      BY <1>1, <1>3, <1>5, <2>2, SameSource
    <3>3. ToPlan(i)' => ToPlan(i)
      BY <1>1, <1>3, <2>2 DEF ToPlan
    <3>4. ToRead(i)' => ToRead(i)
      BY <1>1, <1>3, <2>2 DEF ToRead
    <3>5. i \notin completed' /\ pc' # "evaluate"
      BY <1>1, <1>3
    <3> QED BY <3>1, <3>2, <3>3, <3>4, <3>5 DEF Known
  <2> QED BY <2>1, <2>2
<1> QED BY <1>1, <1>3, <1>8 DEF Progress

(* ReplaceRoutes: every source is still to be read.                         *)
LEMMA ReplaceRoutesProgress ==
    ASSUME Inv, Inv', Progress, ReplaceRoutes
    PROVE  Progress'
<1>1. /\ pc = "routes"
      /\ \/ Sources = <<>> /\ pc' = "compose"
         \/ Sources # <<>> /\ pc' = "read" /\ index' = 1
      /\ UNCHANGED <<facet, snapshot, planned, selected, results, completed, terminal>>
  BY DEF ReplaceRoutes, Live, cluster
<1>2. Sources' = Sources /\ pc \notin Early /\ completed = {}
  BY <1>1 DEF Sources, Early, Inv, Loops
<1>3. ASSUME NEW i \in DOMAIN Sources PROVE Known(i)'
  <2>1. Decided(i)
    BY <1>1, <1>2 DEF Progress, Known, ToRead
  <2>2. Decided(i)'
    BY <1>1, <1>2, <2>1, SameSource
  <2> QED BY <1>1, <1>2, <2>2 DEF Known, ToPlan
<1> QED BY <1>1, <1>2, <1>3 DEF Progress

(* AllCompleted: every source is completed.                                 *)
LEMMA AllCompletedProgress ==
    ASSUME Inv, Inv', Progress, AllCompleted
    PROVE  Progress'
<1>1. /\ pc = "compose" /\ pc' = "publish"
      /\ UNCHANGED <<facet, snapshot, planned, selected, results, completed, terminal>>
  BY DEF AllCompleted, cluster
<1>2. Sources' = Sources /\ pc \notin Early /\ completed = DOMAIN Sources
  BY <1>1 DEF Sources, Early, Inv, Loops
<1>3. ASSUME NEW i \in DOMAIN Sources PROVE Known(i)' /\ Settled(i)'
  <2>1. Honest(i)
    BY <1>1, <1>2 DEF Progress, Known
  <2>2. Honest(i)'
    BY <1>1, <1>2, <2>1, SameSource
  <2> QED BY <1>1, <1>2, <2>2 DEF Known, Settled, ToPlan, ToRead
<1> QED BY <1>2, <1>3 DEF Progress

(* Read: a source that is read without an error was granted.                *)
LEMMA ReadProgress ==
    ASSUME Inv, Inv', Progress, Read
    PROVE  Progress'
<1> DEFINE source == Sources[index]
           entry == planned[index]
<1>1. /\ pc = "read" /\ pc' = "evaluate"
      /\ UNCHANGED <<facet, index, snapshot, results, completed, terminal>>
  BY DEF Read, Live, cluster
<1>2. \/ /\ entry.canExecute /\ UNCHANGED planned
         /\ selected' = [selected EXCEPT ![index] = [err |-> "", resources |-> ObjectsOf(source)]]
      \/ \E reason \in ReadFailures :
            /\ selected' = [selected EXCEPT ![index].err = reason]
            /\ planned' = IF reason # "ReadForbidden" THEN planned
                          ELSE [planned EXCEPT ![index].assessment.authorization
                                    = "read-forbidden"]
      \/ /\ ~entry.canExecute /\ UNCHANGED planned
         /\ selected' = [selected EXCEPT ![index].err = entry.err]
  BY DEF Read
<1>3. /\ DOMAIN Sources = 1 .. Len(Sources) /\ Len(Sources) \in Nat /\ index \in DOMAIN Sources
      /\ DOMAIN planned = DOMAIN Sources /\ DOMAIN selected = DOMAIN Sources
      /\ pc \notin Early /\ Sources' = Sources /\ completed = 1 .. (index - 1)
  <2>1. pc \notin Early /\ Sources' = Sources
    BY <1>1 DEF Early, Sources
  <2>2. DOMAIN Sources = 1 .. Len(Sources) /\ Len(Sources) \in Nat /\ index \in DOMAIN Sources
    BY <1>1, SourcesShape DEF Inv, Loops
  <2>3. /\ planned \in Seq(Entry) /\ Len(planned) = Len(Sources)
        /\ DOMAIN selected = DOMAIN Sources /\ completed = 1 .. (index - 1)
    BY <1>1, <2>1 DEF Inv, Loops
  <2> QED BY <2>1, <2>2, <2>3
<1>4. \A i \in DOMAIN Sources : i # index =>
         planned'[i] = planned[i] /\ selected'[i] = selected[i]
  BY <1>2, <1>3
<1>5. Decided(index)
  BY <1>1, <1>3 DEF Progress, Known, ToRead
<1>6. selected[index] = [err |-> selected[index].err, resources |-> selected[index].resources]
  BY <1>3 DEF Inv, Records
<1>7. ASSUME NEW r, selected' = [selected EXCEPT ![index].err = r]
      PROVE  selected'[index].err = r
  <2>1. selected'[index] = [selected[index] EXCEPT !.err = r]
    BY <1>3, <1>7
  <2> DEFINE old == selected[index]
  <2> HIDE DEF old
  <2> QED BY <1>6, <2>1
<1>8. WasRead(index)'
  <2>1. CASE entry.canExecute /\ UNCHANGED planned
    <3>1. Granted(index)
      BY <1>5, <2>1 DEF Decided
    <3>2. Granted(index)'
      BY <1>1, <1>3, <2>1, <3>1 DEF Granted
    <3> QED BY <3>2 DEF WasRead
  <2>2. ASSUME NEW reason \in ReadFailures, selected' = [selected EXCEPT ![index].err = reason]
        PROVE  WasRead(index)'
    <3>1. reason # ""
      BY EvaluationAssumption DEF ReadReasons
    <3> QED BY <1>1, <1>7, <2>2, <3>1 DEF WasRead
  <2>3. CASE /\ ~entry.canExecute /\ UNCHANGED planned
             /\ selected' = [selected EXCEPT ![index].err = entry.err]
    <3>1. entry.err # "" \/ ~Compiles(index)
      BY <1>5, <2>3 DEF Decided
    <3>2. selected'[index].err = entry.err
      BY <1>7, <2>3
    <3> QED BY <1>1, <1>3, <3>1, <3>2 DEF WasRead, Compiles
  <2> QED BY <1>2, <2>1, <2>2, <2>3
<1>9. ASSUME NEW i \in DOMAIN Sources PROVE Known(i)'
  <2>1. CASE i = index
    <3>1. ~ToPlan(i)' /\ ~ToRead(i)' /\ i \notin completed'
      BY <1>1, <1>3, <2>1 DEF ToPlan, ToRead
    <3> QED BY <1>8, <2>1, <3>1 DEF Known
  <2>2. CASE i # index
    <3>1. Known(i)
      BY <1>3 DEF Progress
    <3>2. Decided(i)' = Decided(i) /\ Honest(i)' = Honest(i)
      BY <1>1, <1>3, <1>4, <2>2, SameSource
    <3>3. ~ToPlan(i)' /\ (ToRead(i)' => ToRead(i)) /\ (i \in completed' => i \in completed)
      BY <1>1, <1>3, <2>2 DEF ToPlan, ToRead
    <3>4. ~(pc' = "evaluate" /\ i = index')
      BY <1>1, <2>2
    <3> QED BY <3>1, <3>2, <3>3, <3>4 DEF Known
  <2> QED BY <2>1, <2>2
<1> QED BY <1>1, <1>3, <1>9 DEF Progress

(* EvaluateSource: the stages hide nothing of what was read.                *)
LEMMA EvaluateSourceProgress ==
    ASSUME Inv, Inv', Progress, EvaluateSource
    PROVE  Progress'
<1> DEFINE o == Outcome(Sources[index], selected[index])
<1>1. /\ pc = "evaluate"
      /\ \/ index < Len(Sources) /\ pc' = "read" /\ index' = index + 1
         \/ ~(index < Len(Sources)) /\ pc' = "compose" /\ index' = 0
      /\ results' = [results EXCEPT ![index] = o]
      /\ completed' = completed \cup {index}
      /\ UNCHANGED <<facet, snapshot, planned, selected, terminal>>
  BY DEF EvaluateSource, Live, Advance, cluster
<1>2. /\ DOMAIN Sources = 1 .. Len(Sources) /\ Len(Sources) \in Nat /\ index \in DOMAIN Sources
      /\ DOMAIN results = DOMAIN Sources /\ pc \notin Early /\ completed = 1 .. (index - 1)
      /\ Sources' = Sources /\ IsSource(Sources[index]) /\ IsList(selected[index].resources)
  <2>1. pc \notin Early /\ Sources' = Sources
    BY <1>1 DEF Early, Sources
  <2>2. DOMAIN Sources = 1 .. Len(Sources) /\ Len(Sources) \in Nat /\ index \in DOMAIN Sources
        /\ IsSource(Sources[index])
    BY <1>1, SourcesShape DEF Inv, Loops
  <2>3. DOMAIN results = DOMAIN Sources /\ completed = 1 .. (index - 1)
    BY <1>1, <2>1 DEF Inv, Loops
  <2>4. IsList(selected[index].resources)
    BY <2>1, <2>2 DEF Inv, Records
  <2> QED BY <2>1, <2>2, <2>3, <2>4
<1>k. PICK k : k = index
  OBVIOUS
<1>3. WasRead(k)
  BY <1>k, <1>1, <1>2 DEF Progress, Known
<1>4. ASSUME ~SourceHasErrors(o)
      PROVE  /\ selected[index].err = "" /\ ConfigurationOutcome(Sources[index]) = "accepted"
             /\ Compiles(k) /\ Shown(Sources[index], selected[index], o)
  <2> DEFINE source == Sources[index]
             read == selected[index]
  <2>1. o = Outcome(source, read)
    OBVIOUS
  <2>2. IsSource(source) /\ IsList(read.resources)
    BY <1>2
  <2> HIDE DEF source, read, o
  <2>3. /\ read.err = "" /\ ConfigurationOutcome(source) = "accepted"
        /\ OperatorFailures(source.fields) = {} /\ Shown(source, read, o)
    BY ONLY <1>4, <2>1, <2>2, OutcomeComplete
  <2> QED BY <1>k, <2>3 DEF source, read, Compiles
<1> HIDE DEF o
<1>5. /\ results'[k] = o
      /\ \A i \in DOMAIN Sources : i # index => results'[i] = results[i]
  BY <1>k, <1>1, <1>2
<1>6. Honest(k)'
  <2>1. ASSUME ~SourceHasErrors(o) PROVE Granted(k)'
    <3>1. Granted(k)
      BY <1>k, <1>3, <1>4, <2>1 DEF WasRead
    <3> QED BY <1>1, <1>2, <3>1 DEF Granted
  <2> SUFFICES ASSUME ~SourceHasErrors(results'[k])
               PROVE  /\ selected'[k].err = ""
                      /\ Shown(Sources'[k], selected'[k], results'[k])
                      /\ Granted(k)' /\ ConfigurationOutcome(Sources'[k]) = "accepted"
    BY <1>k DEF Honest
  <2>2. ~SourceHasErrors(o)
    BY <1>5
  <2>3. /\ Sources'[k] = Sources[index] /\ selected'[k] = selected[index]
        /\ results'[k] = o
    BY <1>k, <1>1, <1>2, <1>5
  <2> QED BY <1>4, <2>1, <2>2, <2>3
<1>7. ASSUME NEW i \in DOMAIN Sources PROVE Known(i)'
  <2>1. CASE i = index
    <3>1. ~ToPlan(i)' /\ ~ToRead(i)' /\ pc' # "evaluate"
      BY <1>1, <1>2, <2>1 DEF ToPlan, ToRead
    <3> QED BY <1>k, <1>6, <2>1, <3>1 DEF Known
  <2>2. CASE i # index
    <3>1. Known(i)
      BY <1>2 DEF Progress
    <3>2. Decided(i)' = Decided(i) /\ Honest(i)' = Honest(i)
      BY <1>1, <1>2, <1>5, <2>2, SameSource
    <3>3. ~ToPlan(i)' /\ (ToRead(i)' => ToRead(i)) /\ (i \in completed' => i \in completed)
      BY <1>1, <1>2, <2>2 DEF ToPlan, ToRead
    <3>4. pc' # "evaluate"
      BY <1>1
    <3> QED BY <3>1, <3>2, <3>3, <3>4 DEF Known
  <2> QED BY <2>1, <2>2
<1> QED BY <1>1, <1>2, <1>7 DEF Progress

(* Every step keeps what is known of the sources.                           *)
LEMMA StepProgress ==
    ASSUME Inv, Inv', Progress, [Next]_vars
    PROVE  Progress'
<1>1. CASE Start \/ Create \/ Begin
  <2>1. pc' \in Early
    BY <1>1 DEF Start, Create, Begin, Early
  <2> QED BY <2>1, EarlyProgress
<1>2. CASE Abandon \/ RoutesFail \/ PublishInterrupted \/ PublishFails \/ Publish
  <2>1. pc' \in Early
    BY <1>2 DEF Abandon, RoutesFail, PublishInterrupted, PublishFails, Publish, End, Early
  <2> QED BY <2>1, EarlyProgress
<1>3. CASE Change \/ Annotate \/ Expire \/ UNCHANGED vars
  <2>1. UNCHANGED <<pc, facet, index, snapshot, planned, selected, results, completed, terminal>>
    BY <1>3 DEF Change, Annotate, Expire, vars, cluster, work
  <2> QED BY <2>1, FrameProgress
<1>4. CASE ValidateBudgets \/ FinishTimedOut \/ Load \/ Plan
  BY <1>4, ValidateBudgetsProgress, FinishTimedOutProgress, LoadProgress, PlanProgress
<1>5. CASE ReplaceRoutes \/ Read \/ EvaluateSource \/ AllCompleted
  BY <1>5, ReplaceRoutesProgress, ReadProgress, EvaluateSourceProgress, AllCompletedProgress
<1> QED BY <1>1, <1>2, <1>3, <1>4, <1>5 DEF Next

(***************************************************************************)
(* Ready hides nothing: the status.                                         *)
(***************************************************************************)

(* The conditions, the summary and the sources of a status that reports     *)
(* Ready.                                                                   *)
CompleteConditions(C) ==
    /\ Has(C, "Accepted", "True") /\ Has(C, "SourcesResolved", "True")
    /\ \/ Has(C, "Authorized", "True")
       \/ \A s \in ToSet(Sources) : DeriveTargets(s) = {}

CompleteSummary(summary) ==
    \A x \in summary : x.failed = 0 /\ x.successful = Len(Sources)

(* What an attempt that reports Ready has met and composed.                 *)
LEMMA CandidateReady ==
    ASSUME Inv, Progress, pc = "publish",
           NEW s \in ComposeBounded(Generation, status.conditions, Evaluated, attempts,
                                    profile.status),
           Has(s.conditions, "Ready", "True")
    PROVE  /\ s.result = {results} /\ CompleteConditions(s.conditions)
           /\ CompleteSummary(s.summary)
           /\ \A i \in DOMAIN Sources :
                 /\ selected[i].err = "" /\ ~SourceHasErrors(results[i])
                 /\ Shown(Sources[i], selected[i], results[i])
<1> DEFINE A == [i \in DOMAIN planned |-> planned[i].assessment]
           G == GlobalAuthorization
           P == status.conditions
<1>1. /\ planned \in Seq(Entry) /\ Len(planned) = Len(Sources) /\ Len(Sources) \in Nat
      /\ DOMAIN Sources = 1 .. Len(Sources) /\ DOMAIN planned = DOMAIN Sources
      /\ pc \notin Early /\ DOMAIN results = DOMAIN Sources
  <2>1. pc \notin Early
    BY DEF Early
  <2>2. /\ planned \in Seq(Entry) /\ Len(planned) = Len(Sources)
        /\ DOMAIN results = DOMAIN Sources
    BY <2>1 DEF Inv, Loops
  <2>3. DOMAIN Sources = 1 .. Len(Sources) /\ Len(Sources) \in Nat
    BY SourcesShape DEF Inv
  <2> QED BY <2>1, <2>2, <2>3
<1>2. A \in Seq(Assessment)
  <2>1. \A i \in DOMAIN planned : planned[i].assessment \in Assessment
    <3>1. \A i \in DOMAIN planned : planned[i] \in Entry
      BY <1>1
    <3> QED BY <3>1 DEF Entry
  <2>2. DOMAIN planned = 1 .. Len(planned) /\ Len(planned) \in Nat
    BY <1>1
  <2>3. A \in [1 .. Len(planned) -> Assessment]
    BY <2>1, <2>2
  <2> QED BY <2>2, <2>3
<1>3. DOMAIN A = DOMAIN Sources /\ \A i \in DOMAIN Sources : A[i] = planned[i].assessment
  BY <1>1
<1>4. IsEvaluation(Evaluated, terminal, results, G, A)
  BY DEF Evaluated, IsEvaluation
<1>5. terminal \in {"result", "budget"} /\ IsList(P)
  BY DEF Inv, Control, Records, IsStatus
<1> HIDE DEF A, G, P
<1>6. terminal = "result" /\ Ready(s, A, G, results)
  <2> DEFINE t == terminal
             R == results
             e == Evaluated
             g == Generation
             now == attempts
             limit == profile.status
  <2>1. /\ s \in ComposeBounded(g, P, e, now, limit)
        /\ IsEvaluation(e, t, R, G, A)
        /\ t \in {"result", "budget"}
        /\ Has(s.conditions, "Ready", "True")
    BY <1>4, <1>5 DEF P
  <2> HIDE DEF t, R, e, g, now, limit
  <2>2. t = "result" /\ Ready(s, A, G, R)
    BY ONLY <1>2, <1>5, <2>1, ReadyReports
  <2> QED BY ONLY <2>2 DEF t, R
<1>7. ASSUME NEW i \in DOMAIN Sources
      PROVE  /\ ~SourceHasErrors(results[i]) /\ results[i].err = "" /\ Honest(i)
  <2>1. ~SourceHasErrors(results[i])
    BY <1>1, <1>6 DEF Ready, HasResultErrors, ToSet
  <2>2. results[i].err = ""
    BY <2>1 DEF SourceHasErrors
  <2>3. Settled(i)
    BY <1>6 DEF Progress
  <2>4. Known(i)
    BY <1>1 DEF Progress
  <2> QED BY <2>1, <2>2, <2>3, <2>4 DEF Known, Settled
<1>8. ASSUME NEW i \in DOMAIN Sources
      PROVE  /\ selected[i].err = "" /\ Shown(Sources[i], selected[i], results[i])
             /\ Granted(i) /\ ConfigurationOutcome(Sources[i]) = "accepted"
  BY <1>7 DEF Honest
<1>9. /\ \A i \in DOMAIN A : A[i].configuration = "accepted"
      /\ \A i \in DOMAIN A : A[i].resolution = "resolved"
      /\ \A i \in DOMAIN A : A[i].authorization = "allowed"
  BY <1>3, <1>8 DEF Granted
<1>10. G = {} \/ \A x \in ToSet(Sources) : DeriveTargets(x) = {}
  <2>1. G = {} \/ snapshot.terminal # ""
    BY DEF G, GlobalAuthorization
  <2>2. ASSUME snapshot.terminal # "", NEW x \in ToSet(Sources) PROVE DeriveTargets(x) = {}
    <3>1. PICK i \in DOMAIN Sources : x = Sources[i]
      BY DEF ToSet
    <3> QED BY <1>8, <2>2, <3>1 DEF Granted
  <2> QED BY <2>1, <2>2
<1>11. CompleteConditions(s.conditions)
  BY <1>6, <1>9, <1>10 DEF Ready, CompleteConditions
<1>12. CompleteSummary(s.summary)
  <2>1. /\ {i \in DOMAIN results : results[i].err = ""} = 1 .. Len(Sources)
        /\ {i \in DOMAIN results : results[i].err # ""} = {}
    BY <1>1, <1>7
  <2>2. Cardinality(1 .. Len(Sources)) = Len(Sources)
    <3>1. 1 \in Int /\ Len(Sources) \in Int
      BY <1>1
    <3>2. Cardinality(1 .. Len(Sources)) = IF 1 > Len(Sources) THEN 0 ELSE Len(Sources) - 1 + 1
      BY ONLY <3>1, FS_Interval
    <3> QED BY <1>1, <3>2
  <2>3. Cardinality({}) = 0
    BY FS_EmptySet
  <2> DEFINE matched == Sum([i \in DOMAIN results |-> Len(results[i].resources)])
  <2>4. Summary(results) = [successful |-> Len(Sources), failed |-> 0, matched |-> matched]
    <3>1. Summary(results) =
             [successful |-> Cardinality({i \in DOMAIN results : results[i].err = ""}),
              failed     |-> Cardinality({i \in DOMAIN results : results[i].err # ""}),
              matched    |-> matched]
      BY DEF Summary
    <3> HIDE DEF matched
    <3> QED BY <2>1, <2>2, <2>3, <3>1
  <2> HIDE DEF matched
  <2>5. s.summary = {Summary(results)}
    BY <1>6 DEF Ready
  <2> QED BY <2>4, <2>5 DEF CompleteSummary
<1> QED BY <1>6, <1>7, <1>8, <1>11, <1>12 DEF Ready

(* What is read back of a status with a result.                             *)
LEMMA DecodedParts ==
    ASSUME NEW s, IsStatus(s), NEW R, s.result = {R}, NEW d, d = DecodedStatus(s),
           NEW q, q = [i \in DOMAIN R |-> DecodedSource(R[i])]
    PROVE  d.conditions = s.conditions /\ d.summary = s.summary /\ d.result = {q}
<1> DEFINE D == {[i \in DOMAIN r |-> DecodedSource(r[i])] : r \in s.result}
<1>1. d = [s EXCEPT !.result = D]
  BY DEF DecodedStatus
<1>2. D = {q}
  OBVIOUS
<1> HIDE DEF D
<1>3. d.conditions = s.conditions /\ d.summary = s.summary /\ d.result = D
  BY <1>1 DEF IsStatus
<1> QED BY <1>2, <1>3

(* Publish: the status reports Ready only where it is complete.             *)
LEMMA PublishReady ==
    ASSUME Inv, Progress, Publish
    PROVE  ReadyIsComplete'
<1> DEFINE C == ComposeBounded(Generation, status.conditions, Evaluated, attempts,
                               profile.status)
<1>1. pc = "publish" /\ Running /\ pc \notin Early
  BY DEF Publish, Running, Early
<1>2. CASE C = {}
  <2>1. UNCHANGED published
    BY <1>2 DEF Publish
  <2> QED BY <1>1, <2>1 DEF Inv, Control, ReadyIsComplete
<1>3. CASE C # {}
  <2>1. PICK s \in C : IF s = status THEN UNCHANGED stored
                       ELSE status' = DecodedStatus(s) /\ writes' = writes + 1
    BY <1>3 DEF Publish
  <2>2. basis' = selected /\ facet' = facet /\ Sources' = Sources
    BY <1>3 DEF Publish, End, cluster, Sources
  <2> HIDE DEF C
  <2>3. IsStatus(s)
    BY <1>1, CandidateMeans DEF C
  <2>4. \A i \in DOMAIN Sources : IsResult(results[i])
    BY <1>1 DEF Inv, Records
  <2>5. DOMAIN results = DOMAIN Sources
    BY <1>1 DEF Inv, Loops
  <2>6. status'.conditions = s.conditions
    <3>1. CASE s = status
      BY <2>1, <3>1 DEF stored
    <3>2. CASE s # status
      <4>1. status' = DecodedStatus(s)
        BY <2>1, <3>2
      <4>2. \E D : DecodedStatus(s) = [s EXCEPT !.result = D]
        BY DEF DecodedStatus
      <4> QED BY <2>3, <4>1, <4>2 DEF IsStatus
    <3> QED BY <3>1, <3>2
  <2> SUFFICES ASSUME Has(status'.conditions, "Ready", "True") PROVE ReadyIsComplete'
    BY DEF ReadyIsComplete, Shows, Has
  <2>7. /\ s.result = {results} /\ CompleteConditions(s.conditions)
        /\ CompleteSummary(s.summary)
        /\ \A i \in DOMAIN Sources :
              /\ selected[i].err = "" /\ ~SourceHasErrors(results[i])
              /\ Shown(Sources[i], selected[i], results[i])
    BY <1>1, <2>6, CandidateReady DEF C
  <2>8. /\ CompleteSummary(status'.summary)
        /\ \E r \in status'.result : \A i \in DOMAIN Sources :
              ~SourceHasErrors(r[i]) /\ Shown(Sources[i], selected[i], r[i])
    <3>1. CASE s = status
      BY <2>1, <2>7, <3>1 DEF stored
    <3>2. CASE s # status
      <4> DEFINE q == [i \in DOMAIN results |-> DecodedSource(results[i])]
      <4>1. status'.summary = s.summary /\ status'.result = {q}
        <5>1. status' = DecodedStatus(s)
          BY <2>1, <3>2
        <5> DEFINE d == status'
                   R == results
        <5>2. /\ IsStatus(s) /\ s.result = {R} /\ d = DecodedStatus(s)
              /\ q = [i \in DOMAIN R |-> DecodedSource(R[i])]
          BY <2>3, <2>7, <5>1
        <5> HIDE DEF d, R, q
        <5>3. d.summary = s.summary /\ d.result = {q}
          BY ONLY <5>2, DecodedParts
        <5> QED BY <5>3 DEF d
      <4>2. ASSUME NEW i \in DOMAIN Sources
            PROVE  ~SourceHasErrors(q[i]) /\ Shown(Sources[i], selected[i], q[i])
        <5> DEFINE x == results[i]
                   y == q[i]
                   source == Sources[i]
                   read == selected[i]
        <5>1. y = DecodedSource(x)
          BY <2>5
        <5>2. IsResult(x) /\ Shown(source, read, x) /\ ~SourceHasErrors(x)
          BY <2>4, <2>7
        <5> HIDE DEF x, y, source, read, q
        <5>3. Shown(source, read, y) /\ ~SourceHasErrors(y)
          BY ONLY <5>1, <5>2, DecodedComplete
        <5> QED BY <5>3 DEF y, source, read
      <4> HIDE DEF q
      <4> QED BY <2>7, <4>1, <4>2
    <3> QED BY <3>1, <3>2
  <2>9. PICK r \in status'.result : \A i \in DOMAIN Sources :
           ~SourceHasErrors(r[i]) /\ Shown(Sources[i], selected[i], r[i])
    BY <2>8
  <2>10. /\ Shows("Accepted", "True")' /\ Shows("SourcesResolved", "True")'
         /\ \/ Shows("Authorized", "True")'
            \/ \A x \in ToSet(Sources) : DeriveTargets(x) = {}
    BY <2>6, <2>7 DEF CompleteConditions, Has, Shows
  <2>11. \A x \in status'.summary : x.failed = 0 /\ x.successful = Len(Sources)
    BY <2>8 DEF CompleteSummary
  <2>12. ASSUME NEW i \in DOMAIN Sources
         PROVE  /\ basis'[i].err = "" /\ ~SourceHasErrors(r[i])
                /\ Sources[i].fields # <<>> =>
                      \A o \in ToSet(basis'[i].resources) :
                          \/ \E shown \in ToSet(r[i].resources) : shown.id = o.id
                          \/ Rejects(Sources[i], o)
    BY <2>2, <2>7, <2>9 DEF Shown
  <2> QED BY <2>2, <2>10, <2>11, <2>12 DEF ReadyIsComplete
<1> QED BY <1>2, <1>3

(* Every step leaves a status that reports Ready complete.                  *)
LEMMA StepReady ==
    ASSUME Inv, Progress, ReadyIsComplete, [Next]_vars
    PROVE  ReadyIsComplete'
<1>1. ASSUME published' = FALSE PROVE ReadyIsComplete'
  BY <1>1 DEF ReadyIsComplete
<1>2. ASSUME UNCHANGED <<facet, status, published, basis>> PROVE ReadyIsComplete'
  BY <1>2 DEF ReadyIsComplete, Shows, Sources
<1>3. ASSUME Running \/ facet = 0, UNCHANGED published PROVE published' = FALSE
  BY <1>3 DEF Inv, Control
<1>4. CASE Start \/ Begin
  BY <1>1, <1>4 DEF Start, Begin
<1>5. CASE Create \/ Annotate \/ Expire \/ Abandon \/ ValidateBudgets \/ FinishTimedOut
  BY <1>1, <1>3, <1>5 DEF Create, Annotate, Expire, Abandon, ValidateBudgets, FinishTimedOut,
                          Running, ended
<1>6. CASE Load \/ Plan \/ ReplaceRoutes \/ RoutesFail \/ Read \/ EvaluateSource
  BY <1>1, <1>3, <1>6 DEF Load, Plan, ReplaceRoutes, RoutesFail, Read, EvaluateSource, Live,
                          Running, ended
<1>7. CASE AllCompleted \/ PublishInterrupted \/ PublishFails
  BY <1>1, <1>3, <1>7 DEF AllCompleted, PublishInterrupted, PublishFails, Running, ended
<1>8. CASE Change \/ UNCHANGED vars
  BY <1>2, <1>8 DEF Change, vars, cluster, stored, ended
<1>9. CASE Publish
  BY <1>9, PublishReady
<1> QED BY <1>4, <1>5, <1>6, <1>7, <1>8, <1>9 DEF Next

(* ReadyIsComplete: for every Facet, policy and cluster, whatever fails and *)
(* whenever the deadline passes, a status that Publish confirms or writes   *)
(* with Ready True reports an accepted configuration, resolved kinds and    *)
(* authorized targets, counts every source as successful, and has every     *)
(* object that Executor.Execute returned and the operators accept, without  *)
(* an error.                                                                *)
THEOREM ReadyHidesNothing == Spec => []ReadyIsComplete
<1>1. Init => Progress /\ ReadyIsComplete
  BY DEF Init, Progress, ReadyIsComplete, Early
<1>2. Inv /\ Inv' /\ Progress /\ ReadyIsComplete /\ [Next]_vars => (Progress /\ ReadyIsComplete)'
  BY StepProgress, StepReady
<1> QED BY Invariant, <1>1, <1>2, PTL DEF Spec

(***************************************************************************)
(* The transition times of the conditions.                                  *)
(***************************************************************************)

(* The conditions of other writers.                                         *)
Foreign(P) == Keep(P, LAMBDA c : ~IsCanonical(c.type))

(* The persisted conditions: the five in their order, or none of them, and  *)
(* then those of other writers.                                             *)
Split(P, n) ==
    /\ IsList(P) /\ n \in {0, 5} /\ n <= Len(P)
    /\ \A i \in 1 .. Len(P) : /\ i <= n => P[i].type = Canonical[i]
                              /\ i > n => ~IsCanonical(P[i].type)

(* Whichever of the two it is.                                              *)
Ordered(P) == \E n : Split(P, n)

(* The five were last set before the time that comes.                       *)
Dated(P, now) ==
    \A c \in ToSet(P) : IsCanonical(c.type) => c.since \in Nat /\ c.since < now

(* The time of the next status: that of the present attempt, or of the one  *)
(* to come.                                                                 *)
Clock == IF Running THEN attempts ELSE attempts + 1

(* The third inductive invariant.                                           *)
Times == Ordered(status.conditions) /\ Dated(status.conditions, Clock)

(* The five types differ.                                                   *)
LEMMA CanonicalTypes ==
    /\ \A i \in 1 .. 5 : IsCanonical(Canonical[i])
    /\ \A i, j \in 1 .. 5 : Canonical[i] = Canonical[j] => i = j
    /\ ~IsCanonical("Foreign")
<1>1. /\ Canonical[1] = "Accepted" /\ Canonical[2] = "Authorized"
      /\ Canonical[3] = "SourcesResolved" /\ Canonical[4] = "Ready"
      /\ Canonical[5] = "Degraded" /\ DOMAIN Canonical = 1 .. 5
  BY DEF Canonical
<1>2. \A i \in 1 .. 5 : i \in {1, 2, 3, 4, 5}
  OBVIOUS
<1>3. \A i, j \in 1 .. 5 : Canonical[i] = Canonical[j] => i = j
  BY <1>1, <1>2
<1>4. ~IsCanonical("Foreign") /\ \A i \in 1 .. 5 : IsCanonical(Canonical[i])
  BY <1>1, <1>2 DEF IsCanonical, ToSet
<1> QED BY <1>3, <1>4

(* The conditions of other writers are the rest of the list.                *)
LEMMA ForeignIsRest ==
    ASSUME NEW P, NEW n, Split(P, n), NEW F, F = Foreign(P)
    PROVE  /\ IsList(F) /\ Len(F) = Len(P) - n /\ DOMAIN F = 1 .. (Len(P) - n)
           /\ F = [m \in 1 .. (Len(P) - n) |-> P[n + m]]
<1> DEFINE K == {i \in DOMAIN P : ~IsCanonical(P[i].type)}
           c == Len(P) - n
<1>1. /\ Len(P) \in Nat /\ DOMAIN P = 1 .. Len(P) /\ n \in {0, 5} /\ n <= Len(P)
      /\ n \in Nat /\ c \in Nat
  <2>1. Len(P) \in Nat /\ DOMAIN P = 1 .. Len(P)
    BY ListPositions DEF Split
  <2> QED BY <2>1 DEF Split
<1>2. K = (n + 1) .. Len(P)
  <2>1. ASSUME NEW i \in 1 .. Len(P) PROVE IsCanonical(P[i].type) <=> i <= n
    <3>1. CASE i <= n
      <4>1. i \in 1 .. 5 /\ P[i].type = Canonical[i]
        BY <1>1, <3>1 DEF Split
      <4> QED BY <3>1, <4>1, CanonicalTypes
    <3>2. CASE ~(i <= n)
      <4>1. i > n
        BY <1>1, <3>2
      <4>2. ~IsCanonical(P[i].type)
        BY <4>1 DEF Split
      <4> QED BY <3>2, <4>2 DEF IsCanonical
    <3> QED BY <3>1, <3>2
  <2>2. ASSUME NEW i PROVE i \in K <=> i \in (n + 1) .. Len(P)
    BY <1>1, <2>1
  <2> HIDE DEF K
  <2> QED BY <2>2
<1>3. ASSUME NEW a \in Int, NEW b \in Int
      PROVE  Cardinality(a .. b) = IF a > b THEN 0 ELSE b - a + 1
  BY FS_Interval
<1>4. Cardinality(K) = c
  <2>1. n + 1 \in Int /\ Len(P) \in Int
    BY <1>1
  <2>2. Cardinality((n + 1) .. Len(P)) = IF n + 1 > Len(P) THEN 0 ELSE Len(P) - (n + 1) + 1
    BY ONLY <1>3, <2>1
  <2>3. Cardinality(K) = Cardinality((n + 1) .. Len(P))
    BY <1>2
  <2> DEFINE x == Cardinality(K)
             y == Cardinality((n + 1) .. Len(P))
  <2>4. x = y /\ y = IF n + 1 > Len(P) THEN 0 ELSE Len(P) - (n + 1) + 1
    BY <2>2, <2>3
  <2> HIDE DEF x, y
  <2>5. x = Len(P) - n
    <3> DEFINE l == Len(P)
    <3>1. l \in Nat /\ n \in Nat /\ n <= l
      BY <1>1
    <3>2. x = IF n + 1 > l THEN 0 ELSE l - (n + 1) + 1
      BY <2>4
    <3> HIDE DEF l
    <3>3. x = l - n
      BY ONLY <3>1, <3>2
    <3> QED BY <3>3 DEF l
  <2> QED BY <2>5 DEF x
<1>5. ASSUME NEW i \in K PROVE Cardinality({j \in K : j < i}) = i - 1 - n
  <2>1. i \in Int /\ n + 1 \in Int /\ i - 1 \in Int /\ i >= n + 1
    BY <1>1, <1>2
  <2>2. {j \in K : j < i} = (n + 1) .. (i - 1)
    BY <1>1, <1>2, <2>1
  <2>3. Cardinality((n + 1) .. (i - 1)) = IF n + 1 > i - 1 THEN 0 ELSE i - 1 - (n + 1) + 1
    BY ONLY <1>3, <2>1
  <2> DEFINE x == Cardinality({j \in K : j < i})
             y == Cardinality((n + 1) .. (i - 1))
  <2>4. x = y /\ y = IF n + 1 > i - 1 THEN 0 ELSE i - 1 - (n + 1) + 1
    BY <2>2, <2>3
  <2> HIDE DEF x, y
  <2>5. x = i - 1 - n
    BY <1>1, <2>1, <2>4
  <2> QED BY <2>5 DEF x
<1>6. ASSUME NEW m \in 1 .. c PROVE Nth(K, m) = n + m
  <2>1. n + m \in K
    BY <1>1, <1>2
  <2>2. \A i \in K : (Cardinality({j \in K : j < i}) = m - 1) <=> i = n + m
    <3> SUFFICES ASSUME NEW i \in K
                 PROVE  (Cardinality({j \in K : j < i}) = m - 1) <=> i = n + m
      OBVIOUS
    <3>1. i \in Int
      BY <1>1, <1>2
    <3> QED BY <1>1, <1>5, <3>1
  <2> HIDE DEF K, c
  <2> QED BY <2>1, <2>2 DEF Nth
<1>7. F = [m \in 1 .. Cardinality(K) |-> P[Nth(K, m)]]
  BY DEF Foreign, Keep
<1> HIDE DEF K
<1>8. F = [m \in 1 .. c |-> P[n + m]]
  <2> HIDE DEF c
  <2> QED BY <1>4, <1>6, <1>7
<1>9. F \in Seq(ToSet(P))
  <2>1. ASSUME NEW m \in 1 .. c PROVE P[n + m] \in ToSet(P)
    <3>1. n + m \in DOMAIN P
      BY <1>1
    <3> QED BY <3>1 DEF ToSet
  <2> QED BY <1>1, <1>8, <2>1
<1>10. Len(F) = c /\ DOMAIN F = 1 .. c
  BY <1>1, <1>8
<1> QED BY <1>8, <1>9, <1>10, SequenceIsList

(* A list that starts with another.                                         *)
LEMMA Prefix ==
    ASSUME NEW F, IsList(F), NEW H, IsList(H), Len(F) <= Len(H),
           \A m \in 1 .. Len(F) : F[m] = H[m]
    PROVE  IsPrefix(F, H)
<1>1. F \in Seq(ToSet(F)) /\ H \in Seq(ToSet(H)) /\ Len(F) \in Nat /\ Len(H) \in Nat
  BY ListPositions
<1>2. SubSeq(F, 1, Len(F)) = [m \in 1 .. Len(F) |-> F[m]]
  BY <1>1
<1>3. SubSeq(H, 1, Len(F)) = [m \in 1 .. Len(F) |-> H[m]]
  BY <1>1
<1> QED BY <1>2, <1>3 DEF IsPrefix

(* SetStatusCondition: the time moves exactly when the status changes.      *)
LEMMA SetMoves ==
    ASSUME NEW P, NEW n, Split(P, n), NEW now \in Nat, Dated(P, now),
           NEW k \in 1 .. 5, NEW d, IsCondition(d), d.type = Canonical[k],
           NEW c, c = SetStatusCondition(P, d, now)
    PROVE  /\ c.type = Canonical[k] /\ c.since \in Nat /\ c.since <= now
           /\ \A p \in ToSet(P) : p.type = c.type =>
                 ((p.since = c.since) <=> (p.status = c.status))
<1> DEFINE I == {i \in 1 .. Len(P) : P[i].type = d.type}
           at == SelectInSeq(P, LAMBDA x : x.type = d.type)
           since == IF at # 0 /\ P[at].status = d.status THEN P[at].since ELSE now
<1>1. at = IF I # {} THEN Min(I) ELSE 0
  BY DEF SelectInSeq
<1>2. Len(P) \in Nat /\ DOMAIN P = 1 .. Len(P) /\ n \in {0, 5} /\ n <= Len(P)
  <2>1. Len(P) \in Nat /\ DOMAIN P = 1 .. Len(P)
    BY ListPositions DEF Split
  <2> QED BY <2>1 DEF Split
<1>3. at \in Nat /\ (at = 0 => I = {}) /\ (at # 0 => at \in I)
  <2>1. I \subseteq 1 .. Len(P)
    OBVIOUS
  <2> HIDE DEF I, at
  <2> QED BY <1>1, <1>2, <2>1, FirstPosition
<1>4. c = [d EXCEPT !.since = since]
  BY DEF SetStatusCondition
<1> HIDE DEF since, at
<1>5. c.type = d.type /\ c.status = d.status /\ c.since = since
  BY <1>4 DEF IsCondition
<1>6. ASSUME NEW i \in I PROVE i = k /\ P[i].since \in Nat /\ P[i].since < now
  <2>1. i \in 1 .. Len(P) /\ P[i].type = Canonical[k] /\ IsCanonical(P[i].type)
    BY CanonicalTypes
  <2>2. i <= n
    <3>1. i > n => ~IsCanonical(P[i].type)
      BY <2>1 DEF Split
    <3> QED BY <1>2, <2>1, <3>1
  <2>3. P[i].type = Canonical[i] /\ i \in 1 .. 5
    BY <1>2, <2>1, <2>2 DEF Split
  <2>4. i = k
    BY <2>1, <2>3, CanonicalTypes
  <2>5. P[i] \in ToSet(P)
    BY <1>2, <2>1 DEF ToSet
  <2> QED BY <2>1, <2>4, <2>5 DEF Dated
<1>7. since \in Nat /\ since <= now
  BY <1>3, <1>6 DEF since
<1>8. ASSUME NEW p \in ToSet(P), p.type = c.type
      PROVE  (p.since = c.since) <=> (p.status = c.status)
  <2>1. PICK i \in DOMAIN P : p = P[i]
    BY DEF ToSet
  <2>2. i \in I /\ I # {}
    BY <1>2, <1>5, <1>8, <2>1
  <2>3. at \in I /\ at = i /\ at # 0
    <3> HIDE DEF I
    <3> QED BY <1>3, <1>6, <2>2
  <2>4. p.since \in Nat /\ p.since < now
    BY <1>6, <2>1, <2>2
  <2>5. since = IF p.status = d.status THEN p.since ELSE now
    BY <2>1, <2>3 DEF since
  <2> QED BY <1>5, <2>4, <2>5
<1> QED BY <1>5, <1>7, <1>8

(* What is merged is ordered again, and keeps the conditions of others.     *)
LEMMA MergedIsOrdered ==
    ASSUME NEW P, NEW n, Split(P, n), NEW D, FiveTypes(D), NEW now,
           NEW M, M = MergeConditions(P, D, now)
    PROVE  /\ Split(M, 5) /\ Len(M) = 5 + Len(P) - n /\ Foreign(M) = Foreign(P)
           /\ \A k \in 1 .. 5 : M[k] = SetStatusCondition(P, D[k], now)
<1> DEFINE L == [i \in DOMAIN D |-> SetStatusCondition(P, D[i], now)]
           F == Foreign(P)
           c == Len(P) - n
<1>1. M = L \o F
  BY DEF MergeConditions, Foreign
<1>2. /\ IsList(F) /\ Len(F) = c /\ DOMAIN F = 1 .. c
      /\ F = [m \in 1 .. c |-> P[n + m]]
  BY ForeignIsRest
<1>3. /\ IsList(P) /\ Len(P) \in Nat /\ DOMAIN P = 1 .. Len(P) /\ n \in {0, 5} /\ n <= Len(P)
      /\ n \in Nat /\ c \in Nat
  <2>1. IsList(P)
    BY DEF Split
  <2>2. Len(P) \in Nat /\ DOMAIN P = 1 .. Len(P)
    BY <2>1, ListPositions
  <2> QED BY <2>1, <2>2 DEF Split
<1>4. /\ DOMAIN D = 1 .. 5 /\ \A k \in 1 .. 5 : IsCondition(D[k]) /\ D[k].type = Canonical[k]
  <2>1. /\ Canonical[1] = "Accepted" /\ Canonical[2] = "Authorized"
        /\ Canonical[3] = "SourcesResolved" /\ Canonical[4] = "Ready"
        /\ Canonical[5] = "Degraded"
    BY DEF Canonical
  <2>2. \A k \in 1 .. 5 : k \in {1, 2, 3, 4, 5}
    OBVIOUS
  <2> QED BY <2>1, <2>2 DEF FiveTypes
<1>5. \A k \in 1 .. 5 : L[k] = SetStatusCondition(P, D[k], now)
  BY <1>4
<1>6. L \in Seq(ToSet(L)) /\ Len(L) = 5
  <2>1. L = [i \in 1 .. 5 |-> SetStatusCondition(P, D[i], now)]
    BY <1>4
  <2> DEFINE set(i) == SetStatusCondition(P, D[i], now)
  <2>2. L = [i \in 1 .. 5 |-> set(i)]
    BY <2>1
  <2> HIDE DEF L, set
  <2>3. DOMAIN L = 1 .. 5 /\ \A i \in 1 .. 5 : L[i] \in ToSet(L)
    BY <2>2 DEF ToSet
  <2>4. L \in [1 .. 5 -> ToSet(L)]
    BY <2>2, <2>3
  <2> DEFINE five == 5
             T == ToSet(L)
  <2>5. five \in Nat /\ L \in [1 .. five -> T]
    BY <2>4
  <2> HIDE DEF five, T
  <2>6. L \in Seq(T) /\ Len(L) = five
    BY ONLY <2>5
  <2> QED BY <2>6 DEF five, T
<1> HIDE DEF L, F, c
<1> DEFINE S == ToSet(L) \cup ToSet(F)
<1>7. L \in Seq(S) /\ F \in Seq(S) /\ Len(F) \in Nat
  <2>1. F \in Seq(ToSet(F)) /\ Len(F) \in Nat /\ L \in Seq(ToSet(L))
    BY <1>2, <1>6, ListPositions
  <2> QED BY ONLY <2>1
<1>8. /\ M \in Seq(S) /\ Len(M) = 5 + c /\ DOMAIN M = 1 .. (5 + c)
      /\ \A i \in 1 .. (5 + c) : M[i] = IF i <= 5 THEN L[i] ELSE F[i - 5]
  <2> HIDE DEF S
  <2>1. /\ M \in Seq(S) /\ Len(M) = Len(L) + Len(F) /\ DOMAIN M = 1 .. Len(M)
        /\ \A i \in 1 .. Len(M) : M[i] = IF i <= Len(L) THEN L[i] ELSE F[i - Len(L)]
    BY ONLY <1>1, <1>7
  <2>2. Len(L) = 5 /\ Len(F) = c
    BY <1>2, <1>6
  <2> QED BY ONLY <1>3, <2>1, <2>2
<1>9. \A k \in 1 .. 5 : M[k] = L[k] /\ M[k].type = Canonical[k]
  <2> SUFFICES ASSUME NEW k \in 1 .. 5 PROVE M[k] = L[k] /\ M[k].type = Canonical[k]
    OBVIOUS
  <2>1. k \in 1 .. (5 + c) /\ k <= 5
    BY <1>3
  <2>2. M[k] = L[k]
    BY <1>8, <2>1
  <2>3. L[k] = SetStatusCondition(P, D[k], now) /\ IsCondition(D[k])
    BY <1>4, <1>5
  <2>4. L[k].type = D[k].type
    BY ONLY <2>3, SetKeepsParts
  <2> QED BY <1>4, <2>2, <2>4
<1>10. \A m \in 1 .. c : M[5 + m] = F[m] /\ ~IsCanonical(F[m].type)
  <2> SUFFICES ASSUME NEW m \in 1 .. c PROVE M[5 + m] = F[m] /\ ~IsCanonical(F[m].type)
    OBVIOUS
  <2>1. 5 + m \in 1 .. (5 + c) /\ ~(5 + m <= 5) /\ 5 + m - 5 = m
    BY <1>3
  <2>2. M[5 + m] = F[m]
    <3>1. M[5 + m] = F[5 + m - 5]
      BY <1>8, <2>1
    <3> QED BY <2>1, <3>1
  <2>3. n + m \in 1 .. Len(P) /\ n + m > n
    BY <1>3 DEF c
  <2>4. ~IsCanonical(P[n + m].type)
    BY <2>3 DEF Split
  <2>5. F[m] = P[n + m]
    BY <1>2
  <2> QED BY <2>2, <2>4, <2>5
<1>11. IsList(M)
  <2> HIDE DEF S
  <2> QED BY <1>8, SequenceIsList
<1>12. Split(M, 5)
  <2>1. 5 \in {0, 5} /\ 5 <= Len(M)
    BY <1>3, <1>8
  <2>2. ASSUME NEW i \in 1 .. Len(M)
        PROVE  /\ i <= 5 => M[i].type = Canonical[i]
               /\ i > 5 => ~IsCanonical(M[i].type)
    <3>1. CASE i <= 5
      <4>1. i \in 1 .. 5 /\ ~(i > 5)
        BY <3>1
      <4> QED BY <1>9, <4>1
    <3>2. CASE ~(i <= 5)
      <4>1. i - 5 \in 1 .. c /\ 5 + (i - 5) = i
        BY <1>3, <1>8, <3>2
      <4>2. M[5 + (i - 5)] = F[i - 5] /\ ~IsCanonical(F[i - 5].type)
        BY ONLY <1>10, <4>1
      <4> QED BY <3>2, <4>1, <4>2
    <3> QED BY <3>1, <3>2
  <2> QED BY <1>11, <2>1, <2>2 DEF Split
<1>13. Foreign(M) = F
  <2>1. Len(M) - 5 = c
    BY <1>3, <1>8
  <2>2. Foreign(M) = [m \in 1 .. (Len(M) - 5) |-> M[5 + m]]
    BY <1>12, ForeignIsRest
  <2>3. Foreign(M) = [m \in 1 .. c |-> F[m]]
    BY <1>10, <2>1, <2>2
  <2>4. F = [m \in 1 .. c |-> F[m]]
    BY <1>2
  <2> QED BY <2>3, <2>4
<1>14. Len(M) = 5 + Len(P) - n
  BY <1>3, <1>8 DEF c
<1> QED BY <1>5, <1>9, <1>12, <1>13, <1>14 DEF F

(* What composeBoundedStatus returns: it fits, and its conditions are five  *)
(* merged with those that were persisted.  Without a result it is that of a *)
(* configuration over budget, or the status with the result does not fit.   *)
Composed(s, g, P, now, r) ==
    \E D : FiveTypes(D) /\ s = Status(g, MergeConditions(P, D, now), r)

(* With some five conditions the result does not fit.                       *)
Oversized(g, P, now, R, limit) ==
    \E D : /\ FiveTypes(D)
           /\ ~(StatusWeight(Status(g, MergeConditions(P, D, now), {R})) <= limit)

(* composeBoundedStatus, of an evaluation with these parts.                 *)
LEMMA CandidateForm ==
    ASSUME NEW A \in Seq(Assessment), NEW G, NEW R, NEW P, NEW g, NEW now, NEW limit,
           NEW t \in {"result", "budget"},
           NEW e, IsEvaluation(e, t, R, G, A),
           NEW s, s \in ComposeBounded(g, P, e, now, limit)
    PROVE  /\ StatusWeight(s) <= limit
           /\ \/ Composed(s, g, P, now, {R})
              \/ Composed(s, g, P, now, {}) /\ (t = "budget" \/ Oversized(g, P, now, R, limit))
<1> DEFINE f == [e EXCEPT !.terminal = "limit"]
           whole == Compose(g, P, e, now)
           compact == Compose(g, P, f, now)
<1>1. /\ e.terminal = t /\ e.sources = A /\ e.global = G /\ e.result = R
      /\ f.terminal = "limit" /\ f.sources = A /\ f.global = G /\ f.result = R
  BY DEF IsEvaluation
<1>2. /\ \/ s = whole
         \/ s = compact /\ t # "budget" /\ ~(StatusWeight(whole) <= limit)
      /\ StatusWeight(s) <= limit
  BY <1>1 DEF ComposeBounded
<1>3. ASSUME t = "result"
      PROVE  \E D : FiveTypes(D) /\ whole = Status(g, MergeConditions(P, D, now), {R})
  <2> DEFINE D == DesiredConditions(g, e)
             degraded == HasResultErrors(e.result)
             why == IF degraded THEN "EvaluationDegraded" ELSE "EvaluationSucceeded"
             ready == ~degraded
             yes == TRUE
  <2>1. whole = Status(g, MergeConditions(P, D, now), {R})
    BY <1>1, <1>3 DEF Compose
  <2>2. D = <<AcceptedCondition(g, A, yes), AuthorizedCondition(g, e, yes),
              ResolutionCondition(g, A, yes),
              ReadyCondition(g, ready, why), DegradedCondition(g, ready, why)>>
    BY <1>1 DEF DesiredConditions
  <2>3. ready \in BOOLEAN
    BY Zenon
  <2> HIDE DEF D, ready, why, yes, f, whole
  <2>4. FiveTypes(D)
    BY <1>1, <2>2, <2>3, EvaluationConditions
  <2> QED BY <2>1, <2>4
<1>4. ASSUME t = "budget" PROVE Composed(whole, g, P, now, {})
  <2> DEFINE D == ConfigurationBudgetConditions(g)
  <2>1. whole = Status(g, MergeConditions(P, D, now), {})
    BY <1>1, <1>4 DEF Compose
  <2>2. FiveTypes(D)
    BY BudgetConditions
  <2> HIDE DEF D, whole
  <2> QED BY <2>1, <2>2 DEF Composed
<1>5. Composed(compact, g, P, now, {})
  <2> DEFINE D == CompactLimitConditions(g, f)
             no == FALSE
             why == "ResultLimitExceeded"
  <2>1. compact = Status(g, MergeConditions(P, D, now), {})
    BY <1>1 DEF Compose
  <2>2. D = <<AcceptedCondition(g, A, no), AuthorizedCondition(g, f, no),
              ResolutionCondition(g, A, no),
              ReadyCondition(g, no, why), DegradedCondition(g, no, why)>>
    BY <1>1 DEF CompactLimitConditions
  <2>3. no \in BOOLEAN
    BY Zenon
  <2> HIDE DEF D, no, why, f, compact
  <2>4. FiveTypes(D)
    BY <1>1, <2>2, <2>3, EvaluationConditions
  <2> QED BY <2>1, <2>4 DEF Composed
<1> HIDE DEF whole, compact, f
<1>6. t = "result" => Composed(whole, g, P, now, {R})
  BY <1>3 DEF Composed
<1>7. t = "result" /\ ~(StatusWeight(whole) <= limit) => Oversized(g, P, now, R, limit)
  BY <1>3 DEF Oversized
<1> QED BY <1>2, <1>4, <1>5, <1>6, <1>7

(* The same of what an attempt publishes.                                   *)
LEMMA CandidateShape ==
    ASSUME Inv, pc = "publish",
           NEW s \in ComposeBounded(Generation, status.conditions, Evaluated, attempts,
                                    profile.status)
    PROVE  /\ StatusWeight(s) <= profile.status
           /\ \/ Composed(s, Generation, status.conditions, attempts, {results})
              \/ /\ Composed(s, Generation, status.conditions, attempts, {})
                 /\ \/ terminal = "budget"
                    \/ Oversized(Generation, status.conditions, attempts, results,
                                 profile.status)
<1> DEFINE A == [i \in DOMAIN planned |-> planned[i].assessment]
           G == GlobalAuthorization
<1>1. planned \in Seq(Entry)
  BY DEF Inv, Loops, Early
<1>2. A \in Seq(Assessment)
  <2>1. \A i \in DOMAIN planned : planned[i].assessment \in Assessment
    <3>1. \A i \in DOMAIN planned : planned[i] \in Entry
      BY <1>1
    <3> QED BY <3>1 DEF Entry
  <2>2. DOMAIN planned = 1 .. Len(planned) /\ Len(planned) \in Nat
    BY <1>1
  <2>3. A \in [1 .. Len(planned) -> Assessment]
    BY <2>1, <2>2
  <2> QED BY <2>2, <2>3
<1>3. IsEvaluation(Evaluated, terminal, results, G, A)
  BY DEF Evaluated, IsEvaluation
<1>4. terminal \in {"result", "budget"}
  BY DEF Inv, Control
<1> HIDE DEF A, G
<1> DEFINE t == terminal
           R == results
           P == status.conditions
           e == Evaluated
           g == Generation
           now == attempts
           limit == profile.status
<1>5. /\ s \in ComposeBounded(g, P, e, now, limit) /\ IsEvaluation(e, t, R, G, A)
      /\ t \in {"result", "budget"}
  BY <1>3, <1>4
<1> HIDE DEF t, R, P, e, g, now, limit
<1>6. /\ StatusWeight(s) <= limit
      /\ \/ Composed(s, g, P, now, {R})
         \/ Composed(s, g, P, now, {}) /\ (t = "budget" \/ Oversized(g, P, now, R, limit))
  BY ONLY <1>2, <1>5, CandidateForm
<1> QED BY ONLY <1>6 DEF t, R, P, g, now, limit

(***************************************************************************)
(* The transition times of the conditions: what a step does to them.        *)
(***************************************************************************)

(* What a step may do to the conditions.                                    *)
Moves(P, Q) ==
    /\ \A c \in ToSet(P), d \in ToSet(Q) :
          c.type = d.type /\ IsCanonical(c.type) => (c.since = d.since) = (c.status = d.status)
    /\ IsPrefix(Foreign(P), Foreign(Q))

(* There is one condition of each of the five types at most.                *)
LEMMA OneOfType ==
    ASSUME NEW P, NEW n, Split(P, n), NEW i \in DOMAIN P, IsCanonical(P[i].type)
    PROVE  i \in 1 .. 5 /\ P[i].type = Canonical[i]
<1>1. Len(P) \in Nat /\ DOMAIN P = 1 .. Len(P)
  BY ListPositions DEF Split
<1>2. i > n => ~IsCanonical(P[i].type)
  BY <1>1 DEF Split
<1>3. n \in {0, 5}
  BY DEF Split
<1>4. i <= n /\ i \in 1 .. 5
  BY <1>1, <1>2, <1>3
<1>5. P[i].type = Canonical[i]
  BY <1>1, <1>4 DEF Split
<1> QED BY <1>4, <1>5

(* Conditions that stay move no time.                                       *)
LEMMA SameMoves ==
    ASSUME NEW P, Ordered(P)
    PROVE  Moves(P, P)
<1>1. PICK n : Split(P, n)
  BY DEF Ordered
<1>2. ASSUME NEW c \in ToSet(P), NEW d \in ToSet(P), c.type = d.type, IsCanonical(c.type)
      PROVE  c = d
  <2>1. PICK i \in DOMAIN P, j \in DOMAIN P : c = P[i] /\ d = P[j]
    BY DEF ToSet
  <2>2. i \in 1 .. 5 /\ P[i].type = Canonical[i]
    BY <1>1, <1>2, <2>1, OneOfType
  <2>3. j \in 1 .. 5 /\ P[j].type = Canonical[j]
    BY <1>1, <1>2, <2>1, OneOfType
  <2>4. i = j
    BY <1>2, <2>1, <2>2, <2>3, CanonicalTypes
  <2> QED BY <2>1, <2>4
<1>3. IsList(Foreign(P))
  BY <1>1, ForeignIsRest
<1>4. IsPrefix(Foreign(P), Foreign(P))
  <2> DEFINE F == Foreign(P)
  <2>1. IsList(F) /\ Len(F) \in Nat
    BY <1>3, ListPositions
  <2> HIDE DEF F
  <2>2. Len(F) <= Len(F) /\ \A m \in 1 .. Len(F) : F[m] = F[m]
    BY <2>1
  <2>3. IsPrefix(F, F)
    BY <2>1, <2>2, Prefix
  <2> QED BY <2>3 DEF F
<1>5. ASSUME NEW c \in ToSet(P), NEW d \in ToSet(P), c.type = d.type, IsCanonical(c.type)
      PROVE  (c.since = d.since) = (c.status = d.status)
  BY <1>2, <1>5
<1> QED BY <1>4, <1>5 DEF Moves

(* mergeConditions: the times that move are those of the conditions whose   *)
(* status changes.                                                          *)
LEMMA MergedMoves ==
    ASSUME NEW P, Ordered(P), NEW now \in Nat, Dated(P, now), NEW D, FiveTypes(D),
           NEW M, M = MergeConditions(P, D, now)
    PROVE  Ordered(M) /\ Dated(M, now + 1) /\ Moves(P, M)
<1>1. PICK n : Split(P, n)
  BY DEF Ordered
<1>2. /\ Split(M, 5) /\ Foreign(M) = Foreign(P)
      /\ \A k \in 1 .. 5 : M[k] = SetStatusCondition(P, D[k], now)
  BY <1>1, MergedIsOrdered
<1>3. \A k \in 1 .. 5 : IsCondition(D[k]) /\ D[k].type = Canonical[k]
  <2>1. /\ Canonical[1] = "Accepted" /\ Canonical[2] = "Authorized"
        /\ Canonical[3] = "SourcesResolved" /\ Canonical[4] = "Ready"
        /\ Canonical[5] = "Degraded"
    BY DEF Canonical
  <2>2. \A k \in 1 .. 5 : k \in {1, 2, 3, 4, 5}
    OBVIOUS
  <2> QED BY <2>1, <2>2 DEF FiveTypes
<1>4. ASSUME NEW d \in ToSet(M), IsCanonical(d.type)
      PROVE  /\ d.since \in Nat /\ d.since <= now
             /\ \A p \in ToSet(P) : p.type = d.type =>
                   ((p.since = d.since) <=> (p.status = d.status))
  <2>1. PICK k \in DOMAIN M : d = M[k]
    BY DEF ToSet
  <2>2. k \in 1 .. 5
    BY <1>2, <1>4, <2>1, OneOfType
  <2>3. /\ d = SetStatusCondition(P, D[k], now) /\ IsCondition(D[k])
        /\ D[k].type = Canonical[k]
    BY <1>2, <1>3, <2>1, <2>2
  <2> QED BY <1>1, <2>2, <2>3, SetMoves
<1>5. Dated(M, now + 1)
  BY <1>4 DEF Dated
<1>6. Ordered(M)
  BY <1>2 DEF Ordered
<1>7. IsPrefix(Foreign(P), Foreign(M))
  <2>1. Moves(P, P)
    BY SameMoves
  <2> QED BY <1>2, <2>1 DEF Moves
<1>8. ASSUME NEW c \in ToSet(P), NEW d \in ToSet(M), c.type = d.type, IsCanonical(c.type)
      PROVE  (c.since = d.since) = (c.status = d.status)
  BY <1>4, <1>8
<1> QED BY <1>5, <1>6, <1>7, <1>8 DEF Moves

(* A condition of another writer that is added.                             *)
LEMMA AppendMoves ==
    ASSUME NEW P, Ordered(P), NEW now, Dated(P, now), NEW x, ~IsCanonical(x.type),
           NEW Q, Q = Append(P, x)
    PROVE  Ordered(Q) /\ Dated(Q, now) /\ Moves(P, Q)
<1>1. PICK n : Split(P, n)
  BY DEF Ordered
<1>2. /\ Len(P) \in Nat /\ DOMAIN P = 1 .. Len(P) /\ P \in Seq(ToSet(P))
      /\ n \in {0, 5} /\ n <= Len(P)
  <2>1. Len(P) \in Nat /\ DOMAIN P = 1 .. Len(P) /\ P \in Seq(ToSet(P))
    BY <1>1, ListPositions DEF Split
  <2> QED BY <1>1, <2>1 DEF Split
<1> DEFINE S == ToSet(P) \cup {x}
<1>3. P \in Seq(S) /\ x \in S
  BY ONLY <1>2
<1>4. /\ Q \in Seq(S) /\ Len(Q) = Len(P) + 1 /\ DOMAIN Q = 1 .. (Len(P) + 1)
      /\ Q[Len(P) + 1] = x /\ \A i \in 1 .. Len(P) : Q[i] = P[i]
  <2> HIDE DEF S
  <2> QED BY <1>2, <1>3
<1>5. IsList(Q)
  <2> HIDE DEF S
  <2> QED BY <1>4, SequenceIsList
<1>6. ToSet(Q) \subseteq ToSet(P) \cup {x}
  <2>1. ASSUME NEW i \in 1 .. (Len(P) + 1) PROVE Q[i] \in ToSet(P) \cup {x}
    <3>1. i \in 1 .. Len(P) \/ i = Len(P) + 1
      BY <1>2
    <3> QED BY <1>2, <1>4, <3>1 DEF ToSet
  <2> QED BY <1>4, <2>1 DEF ToSet
<1>7. Split(Q, n)
  <2>1. ASSUME NEW i \in 1 .. Len(Q)
        PROVE  /\ i <= n => Q[i].type = Canonical[i]
               /\ i > n => ~IsCanonical(Q[i].type)
    <3>1. CASE i \in 1 .. Len(P)
      <4>1. /\ i <= n => P[i].type = Canonical[i]
            /\ i > n => ~IsCanonical(P[i].type)
        BY <1>1, <3>1 DEF Split
      <4> QED BY <1>4, <3>1, <4>1
    <3>2. CASE i = Len(P) + 1
      <4>1. ~(i <= n)
        BY <1>2, <3>2
      <4> QED BY <1>4, <3>2, <4>1
    <3> QED BY <1>2, <1>4, <3>1, <3>2
  <2>2. n <= Len(Q)
    BY <1>2, <1>4
  <2> QED BY <1>2, <1>5, <2>1, <2>2 DEF Split
<1>8. Dated(Q, now)
  BY <1>6 DEF Dated
<1>9. IsPrefix(Foreign(P), Foreign(Q))
  <2> DEFINE F == Foreign(P)
             H == Foreign(Q)
             c == Len(P) - n
  <2>1. IsList(F) /\ Len(F) = c /\ F = [m \in 1 .. c |-> P[n + m]]
    BY <1>1, ForeignIsRest
  <2>2. /\ IsList(H) /\ Len(H) = Len(Q) - n
        /\ H = [m \in 1 .. (Len(Q) - n) |-> Q[n + m]]
    <3>1. H = Foreign(Q)
      OBVIOUS
    <3> HIDE DEF H
    <3> QED BY ONLY <1>7, <3>1, ForeignIsRest
  <2>3. c \in Nat /\ Len(H) = c + 1 /\ Len(Q) - n = c + 1
    BY <1>2, <1>4, <2>2
  <2> HIDE DEF F, H
  <2>4. ASSUME NEW m \in 1 .. c PROVE F[m] = H[m]
    <3>1. m \in 1 .. (Len(Q) - n) /\ n + m \in 1 .. Len(P)
      BY <1>2, <2>3
    <3>2. F[m] = P[n + m]
      BY <2>1
    <3>3. H[m] = Q[n + m]
      BY <2>2, <3>1
    <3> QED BY <1>4, <3>1, <3>2, <3>3
  <2>5. IsPrefix(F, H)
    <3> HIDE DEF c
    <3>1. Len(F) <= Len(H) /\ \A m \in 1 .. Len(F) : F[m] = H[m]
      BY <2>1, <2>3, <2>4
    <3> QED BY <2>1, <2>2, <3>1, Prefix
  <2> QED BY <2>5 DEF F, H
<1>10. ASSUME NEW c \in ToSet(P), NEW d \in ToSet(Q), c.type = d.type, IsCanonical(c.type)
       PROVE  (c.since = d.since) = (c.status = d.status)
  <2>1. d \in ToSet(P)
    BY <1>6, <1>10
  <2>2. Moves(P, P)
    BY SameMoves
  <2> QED BY <1>10, <2>1, <2>2 DEF Moves
<1> QED BY <1>7, <1>8, <1>9, <1>10 DEF Ordered, Moves

(* The clock never goes back, and the times of the five stay before it.     *)
LEMMA LaterDated ==
    ASSUME NEW P, NEW a \in Int, NEW b \in Int, a <= b, Dated(P, a)
    PROVE  Dated(P, b)
BY DEF Dated

(* What is merged with what was persisted.                                  *)
LEMMA ComposedMoves ==
    ASSUME NEW s, NEW g, NEW P, Ordered(P), NEW now \in Nat, Dated(P, now), NEW r,
           Composed(s, g, P, now, r)
    PROVE  Ordered(s.conditions) /\ Dated(s.conditions, now + 1) /\ Moves(P, s.conditions)
<1>1. PICK D : FiveTypes(D) /\ s = Status(g, MergeConditions(P, D, now), r)
  BY DEF Composed
<1> DEFINE M == MergeConditions(P, D, now)
<1>2. Ordered(M) /\ Dated(M, now + 1) /\ Moves(P, M)
  <2>1. M = MergeConditions(P, D, now)
    OBVIOUS
  <2> HIDE DEF M
  <2> QED BY <1>1, <2>1, MergedMoves
<1>3. s.conditions = M
  <2>1. s = Status(g, M, r)
    BY <1>1
  <2> HIDE DEF M
  <2> QED BY <2>1 DEF Status
<1> HIDE DEF M
<1> QED BY <1>2, <1>3

(* A step that leaves the conditions alone.                                 *)
LEMMA StillTimes ==
    ASSUME Inv, Times, status'.conditions = status.conditions, attempts' \in Nat,
           Clock <= Clock'
    PROVE  Times' /\ Moves(status.conditions, status'.conditions)
<1> DEFINE P == status.conditions
           a == Clock
           b == Clock'
<1>1. Ordered(P) /\ Dated(P, a) /\ a <= b /\ a \in Int /\ b \in Int
  BY DEF Times, Inv, Control, Clock
<1>2. Moves(P, P) /\ Dated(P, b)
  <2> HIDE DEF P, a, b
  <2> QED BY <1>1, SameMoves, LaterDated
<1>3. Times'
  BY <1>1, <1>2 DEF Times
<1> QED BY <1>2, <1>3

(* Publish: the persisted conditions become those that were composed.       *)
LEMMA PublishTimes ==
    ASSUME Inv, Inv', Times, Publish
    PROVE  Times' /\ Moves(status.conditions, status'.conditions)
<1> DEFINE C == ComposeBounded(Generation, status.conditions, Evaluated, attempts,
                               profile.status)
<1>1. /\ pc = "publish" /\ Running /\ ~Running' /\ attempts' = attempts /\ attempts \in Nat
      /\ Clock = attempts /\ Clock' = attempts + 1
  BY DEF Publish, Running, Clock, End, Inv, Control
<1>2. CASE UNCHANGED status
  BY <1>1, <1>2, StillTimes
<1>3. CASE ~UNCHANGED status
  <2>1. PICK s \in C : status' = DecodedStatus(s)
    BY <1>3 DEF Publish, stored
  <2> HIDE DEF C
  <2>2. IsStatus(s)
    BY <1>1, CandidateMeans DEF C
  <2>3. status'.conditions = s.conditions
    <3>1. \E D : DecodedStatus(s) = [s EXCEPT !.result = D]
      BY DEF DecodedStatus
    <3> QED BY <2>1, <2>2, <3>1 DEF IsStatus
  <2> DEFINE P == status.conditions
             g == Generation
             now == attempts
             R == results
             Q == status'.conditions
  <2>4. Composed(s, g, P, now, {R}) \/ Composed(s, g, P, now, {})
    BY <1>1, CandidateShape DEF C
  <2>5. Ordered(P) /\ Dated(P, now) /\ now \in Nat
    BY <1>1 DEF Times
  <2>6. Q = s.conditions
    BY <2>3
  <2> HIDE DEF P, g, now, R, Q
  <2>7. Ordered(Q) /\ Dated(Q, now + 1) /\ Moves(P, Q)
    BY ONLY <2>4, <2>5, <2>6, ComposedMoves
  <2>8. Times'
    BY <1>1, <2>7 DEF Times, Q, now
  <2> QED BY <2>7, <2>8 DEF P, Q
<1> QED BY <1>2, <1>3

(* Annotate: one condition more.                                            *)
LEMMA AnnotateTimes ==
    ASSUME Inv, Inv', Times, Annotate
    PROVE  Times' /\ Moves(status.conditions, status'.conditions)
<1> DEFINE P == status.conditions
           x == [Condition("Foreign", "True", "Foreign", 0, 0) EXCEPT !.since = attempts]
           Q == status'.conditions
           now == Clock
<1>1. Clock' = Clock
  BY DEF Annotate, Clock, Running
<1>2. Q = Append(P, x)
  BY DEF Annotate, Inv, Records, IsStatus
<1>3. x.type = "Foreign"
  BY DEF Condition
<1>4. Ordered(P) /\ Dated(P, now) /\ ~IsCanonical(x.type)
  BY <1>3, CanonicalTypes DEF Times
<1> HIDE DEF P, x, Q, now
<1>5. Ordered(Q) /\ Dated(Q, now) /\ Moves(P, Q)
  BY ONLY <1>2, <1>4, AppendMoves
<1>6. Times'
  BY <1>1, <1>5 DEF Times, Q, now
<1> QED BY <1>5, <1>6 DEF P, Q

(* Every step moves the times of the conditions whose status it changes.    *)
LEMMA StepTimes ==
    ASSUME Inv, Inv', Times, [Next]_vars
    PROVE  Times' /\ Moves(status.conditions, status'.conditions)
<1>1. attempts \in Nat /\ attempts' \in Nat
  BY DEF Inv, Control
<1>2. ASSUME UNCHANGED <<status, attempts>>, Running' => Running
      PROVE  Times' /\ Moves(status.conditions, status'.conditions)
  <2>1. Clock <= Clock'
    BY <1>1, <1>2 DEF Clock
  <2> QED BY <1>1, <1>2, <2>1, StillTimes
<1>3. CASE Begin
  <2>1. UNCHANGED status /\ Clock <= Clock'
    BY <1>1, <1>3 DEF Begin, Clock, Running, stored
  <2> QED BY <1>1, <2>1, StillTimes
<1>4. CASE Start \/ Create \/ Change \/ Expire \/ Abandon
  BY <1>2, <1>4 DEF Start, Create, Change, Expire, Abandon, End, Running, stored
<1>5. CASE ValidateBudgets \/ FinishTimedOut \/ Load \/ Plan \/ ReplaceRoutes \/ RoutesFail
  BY <1>2, <1>5 DEF ValidateBudgets, FinishTimedOut, Load, Plan, ReplaceRoutes, RoutesFail,
                    Live, End, Running, stored
<1>6. CASE Read \/ EvaluateSource \/ AllCompleted \/ PublishInterrupted \/ PublishFails
  BY <1>2, <1>6 DEF Read, EvaluateSource, AllCompleted, PublishInterrupted, PublishFails,
                    Live, End, Running, stored
<1>7. CASE UNCHANGED vars
  BY <1>2, <1>7 DEF vars, stored, Running
<1> QED BY <1>3, <1>4, <1>5, <1>6, <1>7, PublishTimes, AnnotateTimes DEF Next

(* Nothing has a time at first.                                             *)
LEMMA InitTimes == Init => Times
<1> SUFFICES ASSUME Init PROVE Times
  OBVIOUS
<1>1. status.conditions = <<>>
  BY DEF Init, Status
<1>2. Split(<<>>, 0) /\ ToSet(<<>>) = {}
  BY DEF Split, IsList, ToSet
<1> QED BY <1>1, <1>2 DEF Times, Ordered, Dated

(* ConditionTransitions: whatever five conditions mergeConditions is given  *)
(* and whatever other writers add, no step moves the transition time of a   *)
(* condition whose status stays, every step that changes the status moves   *)
(* it, and the conditions of others keep their order and their content.     *)
THEOREM TransitionsAreExact == Spec => ConditionTransitions
<1>1. Init => Times
  BY InitTimes
<1>2. Inv /\ Inv' /\ Times /\ [Next]_vars => Times'
  BY StepTimes
<1>3. Inv /\ Inv' /\ Times /\ [Next]_vars => TransitionExact
  BY StepTimes DEF Moves, Foreign, TransitionExact
<1> QED BY Invariant, <1>1, <1>2, <1>3, PTL DEF Spec, ConditionTransitions

(***************************************************************************)
(* The size of what is written.                                             *)
(***************************************************************************)

(* What is read back of a field has its size.                               *)
LEMMA DecodedFieldWeight ==
    ASSUME NEW f PROVE FieldWeight(DecodedField(f)) = FieldWeight(f)
<1> DEFINE g == DecodedField(f)
<1>1. g.state = f.state /\ g.matches = DecodedMatches(f.matches)
  BY DEF DecodedField
<1>2. DOMAIN g.matches = DOMAIN f.matches
  BY <1>1 DEF DecodedMatches
<1> HIDE DEF g
<1>3. FieldWeight(g) = FieldWeight(f)
  BY <1>1, <1>2 DEF FieldWeight, Size
<1> QED BY <1>3 DEF g

(* So has a resource.                                                       *)
LEMMA DecodedResourceWeight ==
    ASSUME NEW r PROVE OperatorWeight(DecodedResource(r)) = OperatorWeight(r)
<1> DEFINE d == DecodedResource(r)
           F == r.fields
           H == [j \in DOMAIN F |-> DecodedField(F[j])]
<1>1. d.state = r.state /\ d.fields = H
  BY DEF DecodedResource
<1>2. DOMAIN H = DOMAIN F /\ \A j \in DOMAIN F : H[j] = DecodedField(F[j])
  OBVIOUS
<1> HIDE DEF d, F, H
<1>3. \A j \in DOMAIN F : FieldWeight(H[j]) = FieldWeight(F[j])
  BY <1>2, DecodedFieldWeight
<1>4. [j \in DOMAIN H |-> FieldWeight(H[j])] = [j \in DOMAIN F |-> FieldWeight(F[j])]
  BY <1>2, <1>3
<1>5. FieldsWeight(H) = FieldsWeight(F)
  BY <1>4 DEF FieldsWeight
<1>6. OperatorWeight(d) = OperatorWeight(r)
  BY <1>1, <1>5 DEF OperatorWeight, F
<1> QED BY <1>6 DEF d

(* So has a group of an aggregate,                                          *)
LEMMA DecodedGroupWeight ==
    ASSUME NEW g PROVE GroupWeight(DecodedGroup(g)) = GroupWeight(g)
<1> DEFINE d == DecodedGroup(g)
<1>1. /\ d.keys = DecodedMatches(g.keys) /\ d.contributors = g.contributors
      /\ d.value = DecodedValue(g.value)
  BY DEF DecodedGroup
<1>2. DOMAIN d.keys = DOMAIN g.keys
  BY <1>1 DEF DecodedMatches
<1>3. DOMAIN d.value.matches = DOMAIN g.value.matches
  BY <1>1 DEF DecodedValue
<1> HIDE DEF d
<1>4. GroupWeight(d) = GroupWeight(g)
  BY <1>1, <1>2, <1>3 DEF GroupWeight, Size
<1> QED BY <1>4 DEF d

(* and an aggregate.                                                        *)
LEMMA DecodedAggregateWeight ==
    ASSUME NEW a PROVE AggregateWeight(DecodedAggregate(a)) = AggregateWeight(a)
<1> DEFINE d == DecodedAggregate(a)
           F == a.groups
           H == [j \in DOMAIN F |-> DecodedGroup(F[j])]
<1>1. d.failures = a.failures /\ d.groups = H
  BY DEF DecodedAggregate
<1>2. DOMAIN H = DOMAIN F /\ \A j \in DOMAIN F : H[j] = DecodedGroup(F[j])
  OBVIOUS
<1> HIDE DEF d, F, H
<1>3. \A j \in DOMAIN F : GroupWeight(H[j]) = GroupWeight(F[j])
  BY <1>2, DecodedGroupWeight
<1>4. [j \in DOMAIN H |-> GroupWeight(H[j])] = [j \in DOMAIN F |-> GroupWeight(F[j])]
  BY <1>2, <1>3
<1>5. AggregateWeight(d) = AggregateWeight(a)
  BY <1>1, <1>4 DEF AggregateWeight, F
<1> QED BY <1>5 DEF d

(* So has the result of a source,                                           *)
LEMMA DecodedSourceWeight ==
    ASSUME NEW x, IsResult(x) PROVE SourceWeight(DecodedSource(x)) = SourceWeight(x)
<1> DEFINE y == DecodedSource(x)
           X == x.resources
           Z == x.aggregates
           R == [i \in DOMAIN X |-> DecodedResource(X[i])]
           A == [i \in DOMAIN Z |-> DecodedAggregate(Z[i])]
<1>1. y = [x EXCEPT !.resources = R, !.aggregates = A]
  BY DEF DecodedSource
<1>2. /\ DOMAIN R = DOMAIN X /\ \A i \in DOMAIN X : R[i] = DecodedResource(X[i])
      /\ DOMAIN A = DOMAIN Z /\ \A i \in DOMAIN Z : A[i] = DecodedAggregate(Z[i])
  OBVIOUS
<1> HIDE DEF y, R, A
<1>3. y.fieldErrors = x.fieldErrors /\ y.resources = R /\ y.aggregates = A
  BY ONLY <1>1, IsResult(x) DEF IsResult
<1> HIDE DEF X, Z
<1>4. [i \in DOMAIN R |-> OperatorWeight(R[i])] = [i \in DOMAIN X |-> OperatorWeight(X[i])]
  <2>1. \A i \in DOMAIN X : OperatorWeight(R[i]) = OperatorWeight(X[i])
    BY <1>2, DecodedResourceWeight
  <2> QED BY <1>2, <2>1
<1>5. [i \in DOMAIN A |-> AggregateWeight(A[i])] = [i \in DOMAIN Z |-> AggregateWeight(Z[i])]
  <2>1. \A i \in DOMAIN Z : AggregateWeight(A[i]) = AggregateWeight(Z[i])
    BY <1>2, DecodedAggregateWeight
  <2> QED BY <1>2, <2>1
<1>6. SourceWeight(y) = SourceWeight(x)
  BY <1>3, <1>4, <1>5 DEF SourceWeight, X, Z
<1> QED BY <1>6 DEF y

(* and the whole of it.                                                     *)
LEMMA DecodedResultWeight ==
    ASSUME NEW R, \A i \in DOMAIN R : IsResult(R[i]),
           NEW q, q = [i \in DOMAIN R |-> DecodedSource(R[i])]
    PROVE  ResultWeight(q) = ResultWeight(R)
<1>1. DOMAIN q = DOMAIN R /\ \A i \in DOMAIN R : q[i] = DecodedSource(R[i])
  OBVIOUS
<1>2. \A i \in DOMAIN R : SourceWeight(q[i]) = SourceWeight(R[i])
  BY <1>1, DecodedSourceWeight
<1>3. [i \in DOMAIN q |-> SourceWeight(q[i])] = [i \in DOMAIN R |-> SourceWeight(R[i])]
  BY ONLY <1>1, <1>2
<1> QED BY <1>3 DEF ResultWeight

(* The size of a status with a result.                                      *)
LEMMA WholeWeight ==
    ASSUME NEW s, NEW R, s.result = {R}
    PROVE  StatusWeight(s) = Len(s.conditions) + ResultWeight(R)
<1>1. (CHOOSE r \in s.result : TRUE) = R
  OBVIOUS
<1>2. s.result # {}
  OBVIOUS
<1> QED BY <1>1, <1>2 DEF StatusWeight

(* A status without a result weighs its conditions.                         *)
LEMMA CompactWeight ==
    ASSUME NEW s, s.result = {}
    PROVE  StatusWeight(s) = Len(s.conditions) + 0
BY DEF StatusWeight

(* What is merged has as many conditions whatever the five say.             *)
LEMMA MergedLength ==
    ASSUME NEW P, Ordered(P), NEW now, NEW D, FiveTypes(D), NEW E, FiveTypes(E)
    PROVE  Len(MergeConditions(P, D, now)) = Len(MergeConditions(P, E, now))
<1>1. PICK n : Split(P, n)
  BY DEF Ordered
<1> DEFINE M == MergeConditions(P, D, now)
           N == MergeConditions(P, E, now)
<1>2. M = MergeConditions(P, D, now) /\ N = MergeConditions(P, E, now)
  OBVIOUS
<1> HIDE DEF M, N
<1>3. Len(M) = 5 + Len(P) - n
  BY ONLY <1>1, <1>2, FiveTypes(D), MergedIsOrdered
<1>4. Len(N) = 5 + Len(P) - n
  BY ONLY <1>1, <1>2, FiveTypes(E), MergedIsOrdered
<1> QED BY <1>3, <1>4 DEF M, N

(* The status with the result that did not fit is larger than the limit     *)
(* with the conditions that were written instead.                           *)
LEMMA OversizedMeans ==
    ASSUME NEW s, NEW g, NEW P, Ordered(P), NEW now, NEW R, NEW limit,
           Composed(s, g, P, now, {}), Oversized(g, P, now, R, limit)
    PROVE  ~(Len(s.conditions) + ResultWeight(R) <= limit)
<1>1. PICK D : FiveTypes(D) /\ s = Status(g, MergeConditions(P, D, now), {})
  BY DEF Composed
<1>2. PICK E : /\ FiveTypes(E)
               /\ ~(StatusWeight(Status(g, MergeConditions(P, E, now), {R})) <= limit)
  BY DEF Oversized
<1> DEFINE M == MergeConditions(P, D, now)
           N == MergeConditions(P, E, now)
           u == Status(g, N, {R})
<1>3. Len(M) = Len(N)
  BY <1>1, <1>2, MergedLength
<1>4. s = Status(g, M, {}) /\ u = Status(g, N, {R}) /\ ~(StatusWeight(u) <= limit)
  BY <1>1, <1>2
<1> HIDE DEF M, N, u
<1>5. s.conditions = M /\ u.conditions = N /\ u.result = {R}
  BY <1>4 DEF Status
<1>6. StatusWeight(u) = Len(N) + ResultWeight(R)
  BY ONLY <1>5, WholeWeight
<1> QED BY <1>3, <1>4, <1>5, <1>6

(* What is written of a status that was composed is as large.               *)
LEMMA WrittenWeight ==
    ASSUME NEW s, IsStatus(s), NEW R, \A i \in DOMAIN R : IsResult(R[i]),
           s.result = {R} \/ s.result = {}, NEW d, d = DecodedStatus(s)
    PROVE  /\ StatusWeight(d) = StatusWeight(s) /\ d.conditions = s.conditions
           /\ d.result = {} => s.result = {}
<1>1. CASE s.result = {R}
  <2> DEFINE q == [i \in DOMAIN R |-> DecodedSource(R[i])]
  <2>1. q = [i \in DOMAIN R |-> DecodedSource(R[i])]
    OBVIOUS
  <2> HIDE DEF q
  <2>2. d.conditions = s.conditions /\ d.result = {q}
    BY <1>1, <2>1, DecodedParts
  <2>3. ResultWeight(q) = ResultWeight(R)
    BY <2>1, DecodedResultWeight
  <2>4. StatusWeight(s) = Len(s.conditions) + ResultWeight(R)
    BY ONLY <1>1, WholeWeight
  <2>5. StatusWeight(d) = Len(d.conditions) + ResultWeight(q)
    BY ONLY <2>2, WholeWeight
  <2> QED BY <2>2, <2>3, <2>4, <2>5
<1>2. CASE s.result = {}
  <2> DEFINE D == {[i \in DOMAIN r |-> DecodedSource(r[i])] : r \in s.result}
  <2>1. d = [s EXCEPT !.result = D] /\ D = {}
    BY <1>2 DEF DecodedStatus
  <2> HIDE DEF D
  <2>2. d.conditions = s.conditions /\ d.result = {}
    BY <2>1 DEF IsStatus
  <2> QED BY <1>2, <2>2, CompactWeight
<1> QED BY <1>1, <1>2

(* Publish: what is written fits, and has the result where it can.          *)
LEMMA PublishBounded ==
    ASSUME Inv, Times, Publish
    PROVE  WriteBounded
<1> DEFINE C == ComposeBounded(Generation, status.conditions, Evaluated, attempts,
                               profile.status)
<1>1. pc = "publish" /\ pc \notin Early
  BY DEF Publish, Early
<1>2. CASE writes' = writes
  BY <1>2 DEF WriteBounded
<1>3. CASE writes' # writes
  <2>1. PICK s \in C : status' = DecodedStatus(s)
    BY <1>3 DEF Publish, stored
  <2> HIDE DEF C
  <2>2. IsStatus(s)
    BY <1>1, CandidateMeans DEF C
  <2> DEFINE P == status.conditions
             g == Generation
             now == attempts
             R == results
             d == status'
             limit == profile.status
             budget == terminal = "budget"
  <2>3. /\ StatusWeight(s) <= limit
        /\ \/ Composed(s, g, P, now, {R})
           \/ /\ Composed(s, g, P, now, {})
              /\ budget \/ Oversized(g, P, now, R, limit)
    BY <1>1, CandidateShape DEF C
  <2>4. \A i \in DOMAIN R : IsResult(R[i])
    BY <1>1 DEF Inv, Records, Loops
  <2>5. Ordered(P)
    BY DEF Times
  <2>6. d = DecodedStatus(s)
    BY <2>1
  <2> HIDE DEF P, g, now, R, d, limit, budget
  <2>7. \A r : Composed(s, g, P, now, r) => s.result = r
    BY DEF Composed, Status
  <2>8. s.result = {R} \/ s.result = {}
    BY <2>3, <2>7
  <2>9. /\ StatusWeight(d) = StatusWeight(s) /\ d.conditions = s.conditions
        /\ d.result = {} => s.result = {}
    BY ONLY <2>2, <2>4, <2>6, <2>8, WrittenWeight
  <2>10. StatusWeight(d) <= limit
    BY <2>3, <2>9
  <2>11. ASSUME d.result = {} PROVE budget \/ ~(Len(d.conditions) + ResultWeight(R) <= limit)
    <3>1. s.result = {}
      BY <2>9, <2>11
    <3>2. {R} # {}
      OBVIOUS
    <3>3. Composed(s, g, P, now, {}) /\ (budget \/ Oversized(g, P, now, R, limit))
      BY <2>3, <2>7, <3>1, <3>2
    <3>4. Oversized(g, P, now, R, limit) => ~(Len(s.conditions) + ResultWeight(R) <= limit)
      BY ONLY <2>5, <3>3, OversizedMeans
    <3> QED BY <2>9, <3>3, <3>4
  <2> QED BY <2>10, <2>11 DEF WriteBounded, R, d, limit, budget
<1> QED BY <1>2, <1>3

(* Every step that writes.                                                  *)
LEMMA StepBounded ==
    ASSUME Inv, Times, [Next]_vars
    PROVE  WriteBounded
<1>1. ASSUME UNCHANGED writes PROVE WriteBounded
  BY <1>1 DEF WriteBounded
<1>2. CASE Start \/ Create \/ Change \/ Annotate \/ Expire \/ Begin \/ Abandon
  BY <1>1, <1>2 DEF Start, Create, Change, Annotate, Expire, Begin, Abandon, stored
<1>3. CASE ValidateBudgets \/ FinishTimedOut \/ Load \/ Plan \/ ReplaceRoutes \/ RoutesFail
  BY <1>1, <1>3 DEF ValidateBudgets, FinishTimedOut, Load, Plan, ReplaceRoutes, RoutesFail,
                    stored
<1>4. CASE Read \/ EvaluateSource \/ AllCompleted \/ PublishInterrupted \/ PublishFails
  BY <1>1, <1>4 DEF Read, EvaluateSource, AllCompleted, PublishInterrupted, PublishFails,
                    stored
<1>5. CASE UNCHANGED vars
  BY <1>1, <1>5 DEF vars, stored
<1> QED BY <1>2, <1>3, <1>4, <1>5, PublishBounded DEF Next

(* StatusBounded: what Publish writes fits the status limit also when it is *)
(* read back, for every profile and result, and composeBoundedStatus drops  *)
(* the result only of a Facet over budget or where it does not fit beside   *)
(* the conditions, those of other writers included.                         *)
THEOREM StatusStaysBounded == Spec => StatusBounded
<1>1. Init => Times
  BY InitTimes
<1>2. Inv /\ Inv' /\ Times /\ [Next]_vars => Times'
  BY StepTimes
<1>3. Inv /\ Times /\ [Next]_vars => WriteBounded
  BY StepBounded
<1> QED BY Invariant, <1>1, <1>2, <1>3, PTL DEF Spec, StatusBounded

(***************************************************************************)
(* The rounding of averages.                                                *)
(***************************************************************************)

(* The quotient and the remainder of a positive value.                      *)
LEMMA Divided ==
    ASSUME NEW a \in Nat, NEW w \in Nat \ {0}
    PROVE  /\ a \div w \in Nat /\ a % w \in Nat /\ a % w < w
           /\ a = (a \div w) * w + (a % w)
OBVIOUS

(* Multiples.                                                               *)
LEMMA Multiples ==
    ASSUME NEW c \in Int, NEW s \in Nat \ {0}, NEW d \in Nat \ {0}
    PROVE  /\ (c * s) * d = c * (d * s) /\ (-(c * s)) * d = -(c * (d * s))
           /\ (c * s) % s = 0 /\ (-(c * s)) % s = 0
           /\ c * s \in Int /\ d * s \in Nat \ {0}
<1>1. (c * s) * d = c * (d * s) /\ (-(c * s)) * d = -(c * (d * s))
  OBVIOUS
<1>2. (c * s) % s = 0
  OBVIOUS
<1>3. -(c * s) = (-c) * s
  OBVIOUS
<1>4. ((-c) * s) % s = 0
  OBVIOUS
<1>5. c * s \in Int /\ d * s \in Nat \ {0}
  OBVIOUS
<1> QED BY <1>1, <1>2, <1>3, <1>4, <1>5

(* An even number of steps is a multiple of two of them.                    *)
LEMMA EvenMultiples ==
    ASSUME NEW c \in Int, c % 2 = 0, NEW s \in Nat \ {0}
    PROVE  (c * s) % (2 * s) = 0 /\ (-(c * s)) % (2 * s) = 0
<1>1. PICK b \in Int : c = 2 * b
  <2>1. c = 2 * (c \div 2) /\ c \div 2 \in Int
    OBVIOUS
  <2> QED BY <2>1
<1> DEFINE t == 2 * s
<1>2. c * s = b * t /\ -(c * s) = (-b) * t /\ t \in Nat \ {0}
  BY <1>1
<1> HIDE DEF t
<1>3. (b * t) % t = 0 /\ ((-b) * t) % t = 0
  BY <1>2, Multiples
<1> QED BY <1>2, <1>3 DEF t

(* roundRationalDecimal, for every value, divisor, precision and mode: the  *)
(* result is what IsRounded asks of it.  Halves, negative values and a      *)
(* precision without decimals are no exception.                             *)
THEOREM RoundingIsExact ==
    \A num \in Int, den \in Nat \ {0}, precision \in 0 .. Digits, mode \in RoundingModes :
        IsRounded(Round(num, den, precision, mode), num, den, 10 ^ (Digits - precision), mode)
<1> SUFFICES ASSUME NEW num \in Int, NEW den \in Nat \ {0}, NEW precision \in 0 .. Digits,
                    NEW mode \in RoundingModes
             PROVE  IsRounded(Round(num, den, precision, mode), num, den,
                              10 ^ (Digits - precision), mode)
  OBVIOUS
<1> DEFINE s == 10 ^ (Digits - precision)
           w == den * s
           a == IF num < 0 THEN -num ELSE num
           q == a \div w
           r == a % w
           up == ShouldRoundUp(q, r, w, mode)
           c == q + (IF up THEN 1 ELSE 0)
           shown == Round(num, den, precision, mode)
<1>1. s \in Nat \ {0}
  <2>1. Digits - precision \in 0 .. Digits
    BY TypedOutputAssumption
  <2> QED BY <2>1, UnitsAssumption
<1>2. shown = IF num < 0 THEN -(c * s) ELSE c * s
  BY DEF Round
<1>3. a \in Nat
  OBVIOUS
<1>4. up <=> /\ r # 0
              /\ \/ mode = "awayFromZero"
                 \/ mode = "halfAwayFromZero" /\ 2 * r >= w
                 \/ mode = "halfEven" /\ 2 * r > w
                 \/ mode = "halfEven" /\ 2 * r = w /\ q % 2 = 1
  BY DEF ShouldRoundUp
<1> HIDE DEF s, shown
<1>5. w \in Nat \ {0}
  BY <1>1
<1> HIDE DEF w, a
<1>6. q \in Nat /\ r \in Nat /\ r < w /\ a = q * w + r
  <2>1. /\ a \div w \in Nat /\ a % w \in Nat /\ a % w < w
        /\ a = (a \div w) * w + (a % w)
    BY ONLY <1>3, <1>5, Divided
  <2> QED BY ONLY <2>1 DEF q, r
<1> HIDE DEF q, r, up
<1>7. c \in Nat /\ (c = q \/ c = q + 1) /\ (up => c = q + 1) /\ (~up => c = q)
  BY <1>6
<1> HIDE DEF c
<1> DEFINE p == c * w
           e == p - a
<1>8. p \in Int /\ a \in Int /\ (up => p = q * w + w) /\ (~up => p = q * w)
  <2>1. (q + 1) * w = q * w + w
    BY <1>5, <1>6
  <2> QED BY <1>3, <1>5, <1>7, <2>1
<1>9. e \in Int /\ (up => e = w - r) /\ (~up => e = -r)
  <2> DEFINE m == q * w
  <2>1. m \in Int /\ a = m + r /\ (up => p = m + w) /\ (~up => p = m)
    BY <1>5, <1>6, <1>8
  <2> HIDE DEF m, p
  <2> QED BY <1>5, <1>6, <1>8, <2>1
<1> HIDE DEF p, e
<1>10. c \in Int /\ s \in Nat \ {0} /\ den \in Nat \ {0}
  BY <1>1, <1>7
<1>11. (c * s) * den = p /\ (-(c * s)) * den = -p
  <2>1. (c * s) * den = c * (den * s) /\ (-(c * s)) * den = -(c * (den * s))
    BY ONLY <1>10, Multiples
  <2> QED BY ONLY <2>1 DEF p, w
<1>12. shown % s = 0
  <2>1. (c * s) % s = 0 /\ (-(c * s)) % s = 0
    BY ONLY <1>10, Multiples
  <2> QED BY ONLY <1>2, <2>1
<1>13. c % 2 = 0 => shown % (2 * s) = 0
  <2>1. c % 2 = 0 => (c * s) % (2 * s) = 0 /\ (-(c * s)) % (2 * s) = 0
    BY ONLY <1>10, EvenMultiples
  <2> QED BY ONLY <1>2, <2>1
<1> DEFINE error == shown * den - num
<1>14. error = IF num < 0 THEN -e ELSE e
  <2>1. CASE num < 0
    <3>1. shown = -(c * s)
      BY ONLY <1>2, <2>1
    <3>2. shown * den = -p
      BY ONLY <1>11, <3>1
    <3>3. num = -a
      BY <2>1 DEF a
    <3> QED BY <1>8, <2>1, <3>2, <3>3 DEF e
  <2>2. CASE ~(num < 0)
    <3>1. shown = c * s
      BY ONLY <1>2, <2>2
    <3>2. shown * den = p
      BY ONLY <1>11, <3>1
    <3>3. num = a
      BY <2>2 DEF a
    <3> QED BY <1>8, <2>2, <3>2, <3>3 DEF e
  <2> QED BY <2>1, <2>2
<1> HIDE DEF error
<1>15. /\ mode = "towardZero" => e <= 0 /\ e >= -(w - 1)
       /\ mode = "awayFromZero" => e >= 0 /\ e <= w - 1
       /\ mode \in {"halfEven", "halfAwayFromZero"} => 2 * e >= -w /\ 2 * e <= w
       /\ mode = "halfAwayFromZero" /\ (2 * e = w \/ 2 * e = -w) => e >= 0
       /\ mode = "halfEven" /\ (2 * e = w \/ 2 * e = -w) => c % 2 = 0
  <2>1. CASE up
    BY <1>4, <1>5, <1>6, <1>7, <1>9, <2>1
  <2>2. CASE ~up
    BY <1>4, <1>5, <1>6, <1>7, <1>9, <2>2
  <2> QED BY <2>1, <2>2
<1>16. /\ 2 * error >= -w /\ 2 * error <= w <=> 2 * e >= -w /\ 2 * e <= w
       /\ 2 * error = w \/ 2 * error = -w <=> 2 * e = w \/ 2 * e = -w
       /\ -(w - 1) <= error /\ error <= w - 1 <=> -(w - 1) <= e /\ e <= w - 1
       /\ (IF num < 0 THEN error <= 0 ELSE error >= 0) <=> e >= 0
       /\ (IF num < 0 THEN error >= 0 ELSE error <= 0) <=> e <= 0
  BY ONLY <1>5, <1>9, <1>14, num \in Int
<1>17. w - 1 \in Nat /\ e \in Int /\ w \in Int
  BY <1>5, <1>9
<1> DEFINE Multiple == shown % s = 0
           Even == shown % (2 * s) = 0
           Outward == IF num < 0 THEN error <= 0 ELSE error >= 0
           Inward == IF num < 0 THEN error >= 0 ELSE error <= 0
           Within == -(w - 1) <= error /\ error <= w - 1
           Near == 2 * error >= -w /\ 2 * error <= w
           Half == 2 * error = w \/ 2 * error = -w
<1>18. IsRounded(shown, num, den, s, mode) <=>
          /\ Multiple
          /\ CASE mode = "towardZero"   -> Inward /\ Within
               [] mode = "awayFromZero" -> Outward /\ Within
               [] OTHER -> Near /\ (Half => IF mode = "halfEven" THEN Even ELSE Outward)
  BY DEF IsRounded, error, w
<1>19. Multiple /\ (c % 2 = 0 => Even)
  BY <1>12, <1>13
<1>20. /\ Near <=> 2 * e >= -w /\ 2 * e <= w
       /\ Half <=> 2 * e = w \/ 2 * e = -w
       /\ Within <=> -(w - 1) <= e /\ e <= w - 1
       /\ Outward <=> e >= 0
       /\ Inward <=> e <= 0
  BY ONLY <1>16
<1> HIDE DEF Multiple, Even, Outward, Inward, Within, Near, Half
<1>21. mode = "towardZero" => Inward /\ Within
  BY ONLY <1>15, <1>17, <1>20
<1>22. mode = "awayFromZero" => Outward /\ Within
  BY ONLY <1>15, <1>17, <1>20
<1>23. mode \in {"halfEven", "halfAwayFromZero"} =>
          Near /\ (Half => IF mode = "halfEven" THEN Even ELSE Outward)
  BY ONLY <1>15, <1>17, <1>19, <1>20
<1>24. IsRounded(shown, num, den, s, mode)
  BY ONLY <1>18, <1>19, <1>21, <1>22, <1>23, mode \in RoundingModes DEF RoundingModes
<1> QED BY <1>24 DEF shown, s
=============================================================================
