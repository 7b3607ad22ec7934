----------------------------- MODULE Operators -----------------------------
(***************************************************************************)
(* Value operators (internal/operators): the operators of each field are    *)
(* planned against the field's type, and every resource is transformed,     *)
(* accepted or rejected by them in declaration order.                       *)
(*                                                                          *)
(* An operator declaration has its name op, an optional operand value and a *)
(* list of operands values.  An operand is the type of its one branch, "" if *)
(* it has none, several, or is not in the value state, and the native value *)
(* of that branch.                                                          *)
(***************************************************************************)
EXTENDS TypedOutput

CONSTANT
    StringFacts        \* <<op, text, operand>> of the strings' library that hold

EqualityOperators == {"eq", "ne", "in", "notIn"}

OrderOperators == {"gt", "gte", "lt", "lte"}

StringOperators == {"contains", "startsWith", "endsWith", "matches"}

StateOperators == {"exists", "notExists", "default", "coalesce"}

SingleValue == {"eq", "ne", "default"} \cup OrderOperators \cup StringOperators

ManyValues == {"in", "notIn"}

(* compatibleOperator.                                                      *)
CompatibleOperator(op, type) ==
    \/ op \in EqualityOperators /\ type \in ScalarTypes
    \/ op \in OrderOperators /\ type \in ScalarTypes \ {"string", "boolean"}
    \/ op \in StringOperators /\ type = "string"
    \/ op \in StateOperators /\ type \in SupportedTypes

(* The operands a declaration must carry.                                   *)
ValidArity(d) ==
    IF d.op \in SingleValue THEN d.value # {} /\ d.values = <<>>
    ELSE IF d.op \in ManyValues THEN d.value = {} /\ d.values # <<>>
    ELSE d.value = {} /\ d.values = <<>>

(* decodeOperand.                                                           *)
ValidOperand(operand, type) ==
    operand.type = type /\ ConversionReason(type, operand.native) = ""

(* planOperator: the reason a declaration is refused.                       *)
OperatorReason(d, type) ==
    LET operands == d.value \cup ToSet(d.values)
    IN  IF type = "" THEN "InvalidOperand"
        ELSE IF ~CompatibleOperator(d.op, type) THEN "IncompatibleOperator"
        ELSE IF ~ValidArity(d) THEN "InvalidArity"
        ELSE IF \E o \in operands : ~ValidOperand(o, type) THEN "InvalidOperand"
        ELSE IF d.op = "matches" /\ \E o \in operands : "pattern" \notin o.native.forms
             THEN "InvalidPattern"
        ELSE ""

(* The failures of one field, with the index of the declaration or -1.      *)
FieldFailures(field) ==
    IF field.type = "" /\ field.operators = <<>>
    THEN {[name |-> field.name, index |-> -1, reason |-> "InvalidOperand"]}
    ELSE {[name |-> field.name, index |-> i,
           reason |-> OperatorReason(field.operators[i], field.type)] :
              i \in {j \in DOMAIN field.operators :
                        OperatorReason(field.operators[j], field.type) # ""}}

(* CompileSource: all failures; the names and indexes determine their       *)
(* order.  A source with one is never evaluated.                            *)
OperatorFailures(fields) == UNION {FieldFailures(fields[i]) : i \in DOMAIN fields}

----------------------------------------------------------------------------
(* The converted operands of a planned declaration.                         *)
OperandOf(d, type) == ConvertMatch(type, (CHOOSE o \in d.value : TRUE).native)

OperandsOf(d, type) == {ConvertMatch(type, o.native) : o \in ToSet(d.values)}

NonNull(field) == {m \in ToSet(field.matches) : ~IsNull(m)}

(* The predicates of applyOperator.  A negative one needs a non-null match  *)
(* to hold, so neither of a pair holds on a field without values.           *)
Accepts(d, field) ==
    LET values  == NonNull(field)
        operand == OperandOf(d, field.type)
        some(P(_)) == \E m \in values : P(m)
    IN  CASE d.op = "exists"    -> field.matches # <<>>
          [] d.op = "notExists" -> field.matches = <<>>
          [] d.op = "eq"  -> some(LAMBDA m : EqualMatches(m, operand))
          [] d.op = "ne"  -> values # {} /\ ~some(LAMBDA m : EqualMatches(m, operand))
          [] d.op = "gt"  -> some(LAMBDA m : Less(operand, m))
          [] d.op = "gte" -> some(LAMBDA m : ~Less(m, operand))
          [] d.op = "lt"  -> some(LAMBDA m : Less(m, operand))
          [] d.op = "lte" -> some(LAMBDA m : ~Less(operand, m))
          [] d.op = "in"    -> values \cap OperandsOf(d, field.type) # {}
          [] d.op = "notIn" -> values # {} /\ values \cap OperandsOf(d, field.type) = {}
          [] d.op \in StringOperators ->
                 some(LAMBDA m : <<d.op, m.v, operand.v>> \in StringFacts)
          [] OTHER -> TRUE

(* The transformations of applyOperator.                                    *)
Transformed(d, field) ==
    LET matches == field.matches
        first   == SelectInSeq(matches, LAMBDA m : ~IsNull(m))
    IN  CASE d.op = "default" ->
                 ReplaceMatches(field,
                     IF matches = <<>> THEN <<OperandOf(d, field.type)>>
                     ELSE [i \in DOMAIN matches |->
                               IF IsNull(matches[i]) THEN OperandOf(d, field.type)
                               ELSE matches[i]])
          [] d.op = "coalesce" /\ matches # <<>> ->
                 ReplaceMatches(field, <<IF first = 0 THEN Null(field.type) ELSE matches[first]>>)
          [] OTHER -> field

(* One field under its operators, in turn: the set of one resulting field,  *)
(* or the empty set when a predicate rejects the resource.                  *)
ApplyOperators(operators, field) ==
    FoldLeft(LAMBDA acc, d : {Transformed(d, f) : f \in {g \in acc : Accepts(d, g)}},
             {field}, operators)

OperatorsOf(fields, name) ==
    fields[SelectInSeq(fields, LAMBDA f : f.name = name)].operators

(* evaluateResource: fields in name order.  The first that fails or rejects *)
(* decides; an error field without operators stays beside the others.       *)
EvaluateOperators(fields, resource) ==
    LET after(i) == ApplyOperators(OperatorsOf(fields, resource.fields[i].name),
                                   resource.fields[i])
        fails(i) == /\ resource.fields[i].state = "error"
                    /\ OperatorsOf(fields, resource.fields[i].name) # <<>>
        decided  == {i \in DOMAIN resource.fields : fails(i) \/ after(i) = {}}
    IN  IF decided = {}
        THEN [id |-> resource.id, state |-> "accepted", reason |-> "",
              fields |-> [i \in DOMAIN resource.fields |-> CHOOSE f \in after(i) : TRUE]]
        ELSE IF fails(Min(decided))
        THEN [id |-> resource.id, state |-> "unsuccessful", reason |-> "InvalidInput",
              fields |-> <<>>]
        ELSE [id |-> resource.id, state |-> "rejected", reason |-> "", fields |-> <<>>]

(* accountOperatorResource: what is published of the resource.              *)
OperatorWeight(resource) ==
    CASE resource.state = "accepted" -> FieldsWeight(resource.fields)
      [] resource.state = "unsuccessful" -> 2
      [] OTHER -> 0

(* EvaluateBatchWithLimit, for one source.  A source whose plan is invalid  *)
(* has only its planning failures, and no error.                            *)
Operate(fields, typed, ceiling) ==
    LET failures  == OperatorFailures(fields)
        resources == [i \in DOMAIN typed.resources |->
                          EvaluateOperators(fields, typed.resources[i])]
        failed    == IF typed.err # "" THEN typed.err
                     ELSE IF failures # {} THEN ""
                     ELSE Produce(resources, LAMBDA r : "", OperatorWeight, ceiling)
    IN  [err |-> failed,
         fieldErrors |-> IF failed = "" THEN failures ELSE {},
         resources |-> IF failed = "" /\ failures = {} THEN resources ELSE <<>>]
=============================================================================
