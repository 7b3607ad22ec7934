---------------------------- MODULE TypedOutput ----------------------------
(***************************************************************************)
(* Typed output (internal/typedoutput): native JSON matches become values   *)
(* of the type a field declares, and typed values are compared, summed and  *)
(* rounded for the operators and the aggregates.                            *)
(*                                                                          *)
(* Numbers are counted in units of 10^-Digits; MinInt and MaxInt bound the  *)
(* whole numbers an int64 holds.  A text is used as a string by its rank id *)
(* and as anything else by the number it denotes, when it has the lexical   *)
(* form: "boolean", "integer", "decimal", "timestamp", "duration",          *)
(* "quantity"; "inexact" marks a duration or quantity with more digits than *)
(* its canonical form keeps, "huge" a decimal with more digits or a larger  *)
(* exponent than maxCanonicalDecimalDigits, which no native number has.     *)
(***************************************************************************)
EXTENDS Extraction

CONSTANTS
    Digits,            \* decimal places that values have here
    MinInt, MaxInt     \* the range of int64

ASSUME TypedOutputAssumption ==
    /\ Digits \in Nat
    /\ MinInt \in Int /\ MaxInt \in Nat /\ MinInt <= 0

(* The units of each precision, which the provers know nothing of.          *)
ASSUME UnitsAssumption == \A k \in 0 .. Digits : 10 ^ k \in Nat \ {0}

One == 10 ^ Digits

Whole(v) == v % One = 0

(* The whole number fits an int64.                                          *)
IsInt64(v) == MinInt * One <= v /\ v <= MaxInt * One

ScalarTypes == {"string", "integer", "number", "boolean", "timestamp", "duration",
                "quantity"}

(* IsSupportedType.                                                         *)
SupportedTypes == ScalarTypes \cup {"object", "list"}

----------------------------------------------------------------------------
(* CompileSource of planner.go: the fields without a type.                  *)
TypedFailures(fields) == {i \in DOMAIN fields : fields[i].type \notin SupportedTypes}

(* convertNonNull and the converters: the reason a native value is refused. *)
ConversionReason(type, native) ==
    LET text    == native.k = "text"
        form(f) == text /\ f \in native.forms
    IN  CASE type = "string" -> IF text THEN "" ELSE "ConversionTypeMismatch"
          [] type = "integer" ->
                 IF ~text /\ native.k \notin {"int", "float"} THEN "ConversionTypeMismatch"
                 ELSE IF text /\ ~form("integer") THEN "InvalidValue"
                 ELSE IF ~Whole(native.v) THEN "ForbiddenConversion"
                 ELSE IF ~IsInt64(native.v) THEN "ConversionOverflow" ELSE ""
          [] type = "number" ->
                 IF ~text /\ native.k \notin {"int", "float"} THEN "ConversionTypeMismatch"
                 ELSE IF text /\ ~form("decimal") THEN "InvalidValue"
                 ELSE IF form("huge") THEN "ConversionOverflow" ELSE ""
          [] type = "boolean" ->
                 IF ~text /\ native.k # "bool" THEN "ConversionTypeMismatch"
                 ELSE IF text /\ ~form("boolean") THEN "InvalidValue" ELSE ""
          [] type \in {"timestamp", "duration", "quantity"} ->
                 IF ~text THEN "ConversionTypeMismatch"
                 ELSE IF ~form(type) THEN "InvalidValue"
                 ELSE IF type = "duration" /\ form("inexact") THEN "ForbiddenConversion"
                 ELSE IF type = "duration" /\ ~IsInt64(native.v) THEN "ConversionOverflow"
                 ELSE IF type = "quantity" /\ ~(-MaxInt * One <= native.v /\ native.v <= MaxInt * One)
                      THEN "ConversionOverflow"
                 ELSE IF type = "quantity" /\ form("inexact") THEN "ForbiddenConversion"
                 ELSE ""
          [] type \in {"object", "list"} ->
                 IF native.k = type THEN "" ELSE "ConversionTypeMismatch"
          [] OTHER -> IF type = "" THEN "MissingType" ELSE "UnsupportedType"

(* A typed match.  A timestamp keeps the location of its instant, which the *)
(* conversion makes UTC; a composite keeps its native value.                *)
Null(type) == [t |-> type, k |-> "null"]

Value(type, v) ==
    [t |-> type, k |-> "value", v |-> v, loc |-> IF type = "timestamp" THEN "UTC" ELSE ""]

IsNull(match) == match.k = "null"

(* ConvertMatch, of a native value that is not refused.                     *)
ConvertMatch(type, native) ==
    CASE native.k = "null"           -> Null(type)
      [] type \in {"object", "list"} -> Value(type, native)
      [] type = "string"             -> Value(type, native.id)
      [] OTHER                       -> Value(type, native.v)

MatchReason(type, native) ==
    IF native.k = "null" /\ type \in SupportedTypes THEN ""
    ELSE ConversionReason(type, native)

----------------------------------------------------------------------------
(* FieldOutcome: absent, values or error.                                   *)
Absent(name, type) ==
    [name |-> name, type |-> type, state |-> "absent", matches |-> <<>>, reason |-> ""]

Values(name, type, matches) ==
    [name |-> name, type |-> type, state |-> "values", matches |-> matches, reason |-> ""]

Failed(name, type, reason) ==
    [name |-> name, type |-> type, state |-> "error", matches |-> <<>>, reason |-> reason]

(* convertFieldContext: the first match that cannot be converted fails the  *)
(* field.                                                                   *)
ConvertField(name, type, values) ==
    LET bad == SelectInSeq(values, LAMBDA n : MatchReason(type, n) # "")
    IN  IF values = <<>> THEN Absent(name, type)
        ELSE IF bad # 0 THEN Failed(name, type, MatchReason(type, values[bad]))
        ELSE Values(name, type, [i \in DOMAIN values |-> ConvertMatch(type, values[i])])

(* ReplaceFieldMatches.                                                     *)
ReplaceMatches(field, matches) ==
    IF matches = <<>> THEN Absent(field.name, field.type)
    ELSE Values(field.name, field.type, matches)

TypeOf(fields, name) == LET f == SelectInSeq(fields, LAMBDA g : g.name = name)
                        IN  IF f = 0 THEN "" ELSE fields[f].type

(* convertResourceContext: a field without a planned type is an error field *)
(* without a type, which the structural result cannot carry.                *)
ConvertResource(fields, resource) ==
    [id |-> resource.id,
     fields |-> [i \in DOMAIN resource.fields |->
         LET f    == resource.fields[i]
             type == TypeOf(fields, f.name)
         IN  IF type \in SupportedTypes THEN ConvertField(f.name, type, f.values)
             ELSE Failed(f.name, "", "InvalidInput")]]

(* buildFieldResult refuses a field whose type is unsupported.              *)
Projectable(resource) == \A i \in DOMAIN resource.fields : resource.fields[i].type # ""

(* The canonical size of a projected resource: its identity, its values and *)
(* its errors.                                                              *)
FieldWeight(f) == IF f.state = "error" THEN 1 ELSE Size(f.matches)

FieldsWeight(fields) == 1 + Sum([i \in DOMAIN fields |-> FieldWeight(fields[i])])

(* ConvertBatchWithLimit and convertSourceContextWithLimit, for one source. *)
Convert(fields, extracted, ceiling) ==
    LET resources == [i \in DOMAIN extracted.resources |->
                          ConvertResource(fields, extracted.resources[i])]
        failed    == IF extracted.err # "" THEN extracted.err
                     ELSE Produce(resources,
                              LAMBDA r : IF Projectable(r) THEN "" ELSE "ValueLimitExceeded",
                              LAMBDA r : FieldsWeight(r.fields), ceiling)
    IN  [err |-> failed, resources |-> IF failed = "" THEN resources ELSE <<>>]

----------------------------------------------------------------------------
(* EqualMatches and CompareMatches, on matches of one type; Comparable are  *)
(* the types CompareMatches has a case for.                                 *)
EqualMatches(left, right) == ~IsNull(left) /\ ~IsNull(right) /\ left.v = right.v

Comparable == ScalarTypes \ {"boolean"}

Less(left, right) == left.v < right.v

(* roundRationalDecimal: num / den to a precision, in units of 10^-Digits.  *)
ShouldRoundUp(quotient, remainder, den, mode) ==
    /\ remainder # 0
    /\ \/ mode = "awayFromZero"
       \/ mode = "halfAwayFromZero" /\ 2 * remainder >= den
       \/ mode = "halfEven" /\ 2 * remainder > den
       \/ mode = "halfEven" /\ 2 * remainder = den /\ quotient % 2 = 1

(* Mutant: the quotient of a negative value is rounded as it is.            *)
RoundSigned(num, den, precision, mode) ==
    LET step     == 10 ^ (Digits - precision)
        quotient == num \div (den * step)
        up       == ShouldRoundUp(quotient, num % (den * step), den * step, mode)
    IN  (quotient + (IF up THEN 1 ELSE 0)) * step

Round(num, den, precision, mode) ==
    LET step     == 10 ^ (Digits - precision)
        absolute == IF num < 0 THEN -num ELSE num
        quotient == absolute \div (den * step)
        up       == ShouldRoundUp(quotient, absolute % (den * step), den * step, mode)
        rounded  == (quotient + (IF up THEN 1 ELSE 0)) * step
    IN  IF num < 0 THEN -rounded ELSE rounded

(* MatchFromExact: an integer or a duration must be whole and fit; the text *)
(* of a quantity is converted again; a number has no range.                 *)
Representable(type, v) ==
    CASE type \in {"integer", "duration"} -> Whole(v) /\ IsInt64(v)
      [] type = "quantity" -> -MaxInt * One <= v /\ v <= MaxInt * One
      [] OTHER -> TRUE

----------------------------------------------------------------------------
(* metav1.Time, external: what a status field holds after it was written    *)
(* and read back.  The JSON form has whole seconds, and decoding yields the *)
(* instant in the local zone.                                               *)
Decoded(match) ==
    IF match.t # "timestamp" \/ IsNull(match) THEN match
    ELSE [match EXCEPT !.v = match.v - (match.v % One), !.loc = "Local"]
=============================================================================
