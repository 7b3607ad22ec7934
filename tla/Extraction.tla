----------------------------- MODULE Extraction -----------------------------
(***************************************************************************)
(* Field extraction (internal/extraction): the restricted JSONPath of each  *)
(* declared field is parsed into operations, and the operations are         *)
(* evaluated against every selected object.                                 *)
(*                                                                          *)
(* A path is the sequence of its lexical tokens after the leading dot: a    *)
(* key (.name or ['name']), an index, a wildcard, or a token the parser     *)
(* refuses as unsupported or as malformed; {.} is the empty sequence.       *)
(* Names of fields are natural numbers, their rank in lexical order; the    *)
(* API server has refused duplicate names and names outside the pattern.    *)
(*                                                                          *)
(* A native JSON value is a record with its kind k: null; bool, int or      *)
(* float with the number v; text with its rank id among strings, the number *)
(* v it denotes and the lexical forms it has; object with its members at;   *)
(* list with its items.  Objects come decoded from the API server, so no    *)
(* native value is of any other kind (InvalidResource).                     *)
(***************************************************************************)
EXTENDS Limits

Key(name) == [op |-> "property", arg |-> name]

Index(i) == [op |-> "index", arg |-> i]

Wildcard == [op |-> "wildcard", arg |-> 0]

Unsupported == [op |-> "unsupported", arg |-> 0]

Malformed == [op |-> "malformed", arg |-> 0]

----------------------------------------------------------------------------
(* parsePath: the reason of the first token that is refused, if one is.     *)
ParseReason(path) ==
    LET bad == SelectInSeq(path, LAMBDA t : t.op \in {"unsupported", "malformed"})
    IN  IF bad = 0 THEN ""
        ELSE IF path[bad].op = "unsupported" THEN "UnsupportedExpression"
        ELSE "InvalidExpression"

(* A sequence sorted by a numeric attribute, equal ones in their order.     *)
SortBy(seq, Attr(_)) ==
    LET before(i, j) == \/ Attr(seq[i]) < Attr(seq[j])
                        \/ Attr(seq[i]) = Attr(seq[j]) /\ i < j
        place(i) == Cardinality({j \in DOMAIN seq : before(j, i)}) + 1
    IN  [n \in DOMAIN seq |-> seq[CHOOSE i \in DOMAIN seq : place(i) = n]]

(* The elements of a sequence that pass the test, in their order: the n-th  *)
(* has n - 1 of them before it.                                             *)
Nth(kept, n) == CHOOSE i \in kept : Cardinality({j \in kept : j < i}) = n - 1

Keep(seq, Test(_)) ==
    LET kept == {i \in DOMAIN seq : Test(seq[i])}
    IN  [n \in 1 .. Cardinality(kept) |-> seq[Nth(kept, n)]]

(* CompileSourceAll: the submitted fields that do not compile and, for a    *)
(* source without one, the plans in the order of the field names.           *)
ExtractionFailures(fields) == {i \in DOMAIN fields : ParseReason(fields[i].path) # ""}

ExtractionPlan(fields) == SortBy(fields, LAMBDA f : f.name)

----------------------------------------------------------------------------
(* The values one operation finds in one branch, as a set of one sequence;  *)
(* the empty set when the branch has the wrong kind.                        *)
Found(operation, branch) ==
    CASE operation.op = "property" /\ branch.k = "object" ->
             {IF operation.arg \in DOMAIN branch.at THEN <<branch.at[operation.arg]>>
              ELSE <<>>}
      [] operation.op = "index" /\ branch.k = "list" ->
             {IF operation.arg < Len(branch.items)
              THEN <<branch.items[operation.arg + 1]>> ELSE <<>>}
      [] operation.op = "wildcard" /\ branch.k = "list" -> {branch.items}
      [] OTHER -> {}

(* evaluateField: each operation over every branch the one before it left,  *)
(* in order.  The empty set is EvaluationTypeMismatch.                      *)
EvaluateField(field, root) ==
    LET over(operation, branches) ==
            FoldLeft(LAMBDA next, branch : {n \o f : n \in next,
                                                     f \in Found(operation, branch)},
                     {<<>>}, branches)
    IN  FoldLeft(LAMBDA found, operation : UNION {over(operation, b) : b \in found},
                 {<<root>>}, field.path)

(* EvaluateResource: one field whose path does not fit the object fails the *)
(* resource, and with it the source.                                        *)
EvaluateResource(plan, resource) ==
    LET found(i) == EvaluateField(plan[i], resource.object)
    IN  IF \E i \in DOMAIN plan : found(i) = {}
        THEN [id |-> resource.id, error |-> "EvaluationTypeMismatch", fields |-> <<>>]
        ELSE [id |-> resource.id, error |-> "",
              fields |-> [i \in DOMAIN plan |->
                              [name |-> plan[i].name, values |-> CHOOSE v \in found(i) : TRUE]]]

(* The canonical size of an extracted resource: its identity and each value. *)
ExtractedWeight(resource) ==
    FoldLeft(LAMBDA n, f : n + Len(f.values), 1, resource.fields)

(* ExtractBatchWithLimit, for one source: a declaration that does not       *)
(* compile comes before the selection's failure, and one resource that      *)
(* fails or does not fit leaves the source without resources.               *)
Extract(fields, selected, ceiling) ==
    LET failures  == ExtractionFailures(fields)
        plan      == ExtractionPlan(fields)
        resources == IF plan = <<>> THEN <<>>
                     ELSE [i \in DOMAIN selected.resources |->
                               EvaluateResource(plan, selected.resources[i])]
        failed    == IF failures # {} THEN ParseReason(fields[Min(failures)].path)
                     ELSE IF selected.err # "" THEN selected.err
                     ELSE Produce(resources, LAMBDA r : r.error, ExtractedWeight, ceiling)
    IN  [err |-> failed, resources |-> IF failed = "" THEN resources ELSE <<>>]
=============================================================================
