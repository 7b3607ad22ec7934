---------------------------- MODULE Aggregation ----------------------------
(***************************************************************************)
(* Aggregation (internal/aggregation): the matches of a field, over all     *)
(* accepted resources of a source, are grouped by other fields and reduced  *)
(* to values.                                                               *)
(*                                                                          *)
(* A declaration has a name (its lexical rank), a function, a target field, *)
(* a list groupBy of fields, whether it shows provenance, an optional       *)
(* precision and a rounding mode ("" if omitted).  A resource is its id,    *)
(* whose order is the order of provenances; a contribution is one non-null  *)
(* match of one resource, with the keys of its group.                       *)
(***************************************************************************)
EXTENDS Operators

CONSTANT
    DefaultPrecision   \* defaultAveragePrecision

ASSUME AggregationAssumption == DefaultPrecision \in 0 .. Digits

----------------------------------------------------------------------------
(* compatibleFunction.                                                      *)
CompatibleFunction(function, type) ==
    CASE function = "sum"            -> type \in {"integer", "number", "duration", "quantity"}
      [] function = "average"        -> type \in {"integer", "number"}
      [] function \in {"min", "max"} -> type \in ScalarTypes
      [] OTHER                       -> type \in SupportedTypes

Declared(fields) == {fields[i].name : i \in DOMAIN fields}

(* The reason groupBy[i] is refused.                                        *)
GroupReason(groupBy, i, fields) ==
    IF \E j \in 1 .. (i - 1) : groupBy[j] = groupBy[i] THEN "DuplicateGroupField"
    ELSE IF groupBy[i] \notin Declared(fields) THEN "UnknownField"
    ELSE IF TypeOf(fields, groupBy[i]) \notin ScalarTypes THEN "UnsupportedGroupType"
    ELSE ""

GroupFailures(d, fields) == {i \in DOMAIN d.groupBy : GroupReason(d.groupBy, i, fields) # ""}

TargetReason(d, fields) ==
    LET type == TypeOf(fields, d.field)
    IN  IF type \notin SupportedTypes THEN "UnknownField"
        ELSE IF ~CompatibleFunction(d.function, type) THEN "IncompatibleFunction"
        ELSE ""

(* supportedRoundingMode.                                                   *)
RoundingModes == {"halfEven", "halfAwayFromZero", "towardZero", "awayFromZero"}

Precision(d) == IF d.precision = {} THEN DefaultPrecision ELSE CHOOSE p \in d.precision : TRUE

Rounding(d) == IF d.rounding = "" THEN "halfEven" ELSE d.rounding

(* Only an average has options, and they are in range: as many decimal      *)
(* places as values have, which stand for the code's 18, and a known mode.  *)
ValidAverageOptions(d) ==
    IF d.function = "average"
    THEN Precision(d) \in 0 .. Digits /\ Rounding(d) \in RoundingModes
    ELSE d.precision = {} /\ d.rounding = ""

(* planDeclaration: the target, the grouping fields, the average's options. *)
AggregateReason(d, fields) ==
    LET groups == GroupFailures(d, fields)
    IN  IF TargetReason(d, fields) # "" THEN TargetReason(d, fields)
        ELSE IF groups # {} THEN GroupReason(d.groupBy, Min(groups), fields)
        ELSE IF ~ValidAverageOptions(d) THEN "InvalidAverageOptions"
        ELSE ""

----------------------------------------------------------------------------
FieldOf(resource, name) ==
    resource.fields[SelectInSeq(resource.fields, LAMBDA f : f.name = name)]

(* A grouping field holds exactly one match, and not a null one.            *)
HasKey(resource, name) ==
    /\ FieldOf(resource, name).state = "values"
    /\ Len(FieldOf(resource, name).matches) = 1
    /\ ~IsNull(FieldOf(resource, name).matches[1])

(* What formGroups reports of a resource that it cannot use.                *)
ResourceReason(d, resource) ==
    IF resource.state = "unsuccessful" THEN resource.reason
    ELSE IF \E i \in DOMAIN d.groupBy : ~HasKey(resource, d.groupBy[i]) THEN "InvalidGroupKey"
    ELSE IF FieldOf(resource, d.field).state = "error" THEN "TargetFieldError"
    ELSE ""

(* The resources formGroups looks at: a rejected one does not count.        *)
Considered(resources) ==
    SortBy(SelectSeq(resources, LAMBDA r : r.state # "rejected"), LAMBDA r : r.id)

AggregateFailures(d, resources) ==
    SelectSeq([i \in DOMAIN Considered(resources) |->
                   [id |-> Considered(resources)[i].id,
                    reason |-> ResourceReason(d, Considered(resources)[i])]],
              LAMBDA f : f.reason # "")

ContributionsOf(d, resource) ==
    LET matches == FieldOf(resource, d.field).matches
    IN  SelectSeq([i \in DOMAIN matches |->
                       [keys |-> [j \in DOMAIN d.groupBy |->
                                      FieldOf(resource, d.groupBy[j]).matches[1]],
                        match |-> matches[i], id |-> resource.id]],
                  LAMBDA c : ~IsNull(c.match))

(* In the order of provenance, then of the matches.                         *)
Contributions(d, resources) ==
    LET usable == SelectSeq(Considered(resources), LAMBDA r : ResourceReason(d, r) = "")
    IN  FoldLeft(LAMBDA all, r : all \o ContributionsOf(d, r), <<>>, usable)

(* compareKeyTuples.                                                        *)
KeysLess(left, right) ==
    \E i \in DOMAIN left : /\ left[i].v < right[i].v
                           /\ \A j \in 1 .. (i - 1) : left[j].v = right[j].v

(* The groups' keys, in order.  Without grouping there is one group, be it  *)
(* empty; a group exists only where it has a contribution.                  *)
GroupKeys(d, contributions) ==
    SetToSortSeq({contributions[i].keys : i \in DOMAIN contributions}
                     \cup (IF d.groupBy = <<>> THEN {<<>>} ELSE {}), KeysLess)

InGroup(contributions, keys) == SelectSeq(contributions, LAMBDA c : c.keys = keys)

(* appendUniqueProvenance.                                                  *)
Ids(contributions) ==
    FoldLeft(LAMBDA ids, c : IF Contains(ids, c.id) THEN ids ELSE Append(ids, c.id),
             <<>>, contributions)

(* Mutant: a value is listed where it occurs last.                          *)
LatestValues(contributions) ==
    FoldLeft(LAMBDA seen, c : Append(SelectSeq(seen, LAMBDA m : m # c.match), c.match),
             <<>>, contributions)

(* First occurrences of a value.                                            *)
DistinctValues(contributions) ==
    FoldLeft(LAMBDA seen, c : IF Contains(seen, c.match) THEN seen ELSE Append(seen, c.match),
             <<>>, contributions)

Holding(contributions, match) == SelectSeq(contributions, LAMBDA c : c.match = match)

----------------------------------------------------------------------------
Total(contributions) == FoldLeft(LAMBDA n, c : n + c.match.v, 0, contributions)

(* The match that no later one beats.                                       *)
Extreme(contributions, Beats(_, _)) ==
    FoldLeft(LAMBDA best, c : IF Beats(c.match, best) THEN c.match ELSE best,
             contributions[1].match, contributions)

(* A value without, and with, matches of its own provenance.                *)
AbsentValue(type) == [type |-> type, state |-> "absent", matches |-> <<>>, reason |-> ""]

OneValue(type, match) ==
    [type |-> type, state |-> "values", reason |-> "",
     matches |-> <<[match |-> match, contributors |-> <<>>]>>]

ManyValued(type, matches) ==
    [type |-> type, state |-> "values", matches |-> matches, reason |-> ""]

NoValue(reason) == [type |-> "", state |-> "error", matches |-> <<>>, reason |-> reason]

(* reduceGroup, for a field of this type.                                   *)
Reduce(d, type, contributions) ==
    LET shown(of) == IF d.provenance THEN Ids(of) ELSE <<>>
        empty     == contributions = <<>>
        distinct  == DistinctValues(contributions)
    IN  CASE d.function = "collect" ->
                 ManyValued(type, [i \in DOMAIN contributions |->
                     [match |-> contributions[i].match,
                      contributors |-> shown(<<contributions[i]>>)]])
          [] d.function = "count" -> OneValue("integer", Value("integer", Len(contributions) * One))
          [] d.function = "sum" ->
                 IF Representable(type, Total(contributions))
                 THEN OneValue(type, Value(type, Total(contributions)))
                 ELSE NoValue("Overflow")
          [] d.function = "distinct" ->
                 ManyValued(type, [i \in DOMAIN distinct |->
                     [match |-> distinct[i],
                      contributors |-> shown(Holding(contributions, distinct[i]))]])
          [] empty -> AbsentValue(type)
          [] d.function = "average" ->
                 OneValue("number", Value("number", Round(Total(contributions),
                              Len(contributions), Precision(d), Rounding(d))))
          [] d.function \in {"min", "max"} /\ Len(contributions) > 1 /\ type \notin Comparable ->
                 NoValue("InvalidInput")
          [] d.function = "min"   -> OneValue(type, Extreme(contributions, Less))
          [] d.function = "max"   ->
                 OneValue(type, Extreme(contributions, LAMBDA a, b : Less(b, a)))
          [] d.function = "first" -> OneValue(type, contributions[1].match)
          [] d.function = "last"  -> OneValue(type, Last(contributions).match)

(* The limits of formGroups and aggregateLimitFailure.                      *)
Exceeded(d, contributions, profile) ==
    LET keys     == GroupKeys(d, contributions)
        group(i) == InGroup(contributions, keys[i])
        values(i) == DistinctValues(group(i))
        perValue(i) ==
            CASE d.function = "collect"  -> Len(group(i))
              [] d.function = "distinct" ->
                     Sum([v \in DOMAIN values(i) |-> Len(Ids(Holding(group(i), values(i)[v])))])
              [] OTHER -> 0
        provenance == IF ~d.provenance THEN 0
                      ELSE Sum([i \in DOMAIN keys |-> Len(Ids(group(i))) + perValue(i)])
    IN  \/ Len(keys) > profile.groups
        \/ Len(contributions) > profile.contributions
        \/ d.function = "collect" /\ Len(contributions) > profile.collected
        \/ d.function = "distinct"
           /\ Sum([i \in DOMAIN keys |-> Len(values(i))]) > profile.distinct
        \/ provenance > profile.provenance

FailedAggregate(d, reason) ==
    [name |-> d.name, state |-> "error", reason |-> reason, groups |-> <<>>, failures |-> <<>>]

(* One entry of EvaluateBatchWithLimit with reduceAggregate: one group that *)
(* cannot be reduced fails the aggregate, one resource that cannot be used  *)
(* degrades it.                                                             *)
AggregateOf(d, fields, resources, profile) ==
    LET contributions == Contributions(d, resources)
        failures      == AggregateFailures(d, resources)
        keys          == GroupKeys(d, contributions)
        group(i)      == InGroup(contributions, keys[i])
        value(i)      == Reduce(d, TypeOf(fields, d.field), group(i))
        bad           == {i \in DOMAIN keys : value(i).state = "error"}
    IN  IF AggregateReason(d, fields) # "" THEN FailedAggregate(d, AggregateReason(d, fields))
        ELSE IF Exceeded(d, contributions, profile) THEN FailedAggregate(d, "CardinalityExceeded")
        ELSE IF bad # {} THEN FailedAggregate(d, value(Min(bad)).reason)
        ELSE [name |-> d.name, reason |-> "",
              state |-> IF failures = <<>> THEN "values" ELSE "degraded",
              groups |-> [i \in DOMAIN keys |->
                  [keys |-> keys[i], value |-> value(i),
                   contributors |-> IF d.provenance THEN Ids(group(i)) ELSE <<>>]],
              failures |-> failures]

(* The canonical size of a projected aggregate.                             *)
GroupWeight(g) == Size(g.keys) + Size(g.contributors) + Size(g.value.matches)

AggregateWeight(a) ==
    1 + Size(a.failures) + Sum([i \in DOMAIN a.groups |-> GroupWeight(a.groups[i])])

(* EvaluateBatchWithLimit, for one source: aggregates that do not fit take  *)
(* the source's resources with them.                                        *)
Aggregate(source, operated, profile) ==
    LET planned    == SortBy(source.aggregations, LAMBDA d : d.name)
        aggregates == [i \in DOMAIN planned |->
                           AggregateOf(planned[i], source.fields, operated.resources, profile)]
        failed     == IF operated.err # "" THEN operated.err
                      ELSE Produce(aggregates, LAMBDA a : "", AggregateWeight, profile.values)
    IN  IF failed # ""
        THEN [err |-> failed, fieldErrors |-> {}, resources |-> <<>>, aggregates |-> <<>>]
        ELSE [err |-> "", fieldErrors |-> operated.fieldErrors,
              resources |-> operated.resources, aggregates |-> aggregates]
=============================================================================
