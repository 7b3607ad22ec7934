---------------------------- MODULE MCEvaluation ----------------------------
(* Evaluation of a few Facets in namespaces 1 and 2.  Values have one       *)
(* decimal place; texts are ranks, 1 and 2 those of the groups.             *)
EXTENDS Evaluation

MCDefaults ==
    [sources |-> 2, namespaces |-> 2, fields |-> 3, operators |-> 2, operands |-> 2,
     aggregations |-> 9, groupBy |-> 2, members |-> 1, spec |-> 20, values |-> 40, groups |-> 3, contributions |-> 9,
     collected |-> 4, distinct |-> 4, provenance |-> 12, status |-> 46]

MCMinInt == -20

None == [k |-> "null"]

Num(v) == [k |-> "float", v |-> v]

Bool(v) == [k |-> "bool", v |-> v]

Text(id) == [k |-> "text", id |-> id, v |-> 0, forms |-> {"pattern"}]

Time(v) == [k |-> "text", id |-> 10 + v, v |-> v, forms |-> {"timestamp"}]

(* A decimal with too many digits, which is no whole number.                *)
Huge == [k |-> "text", id |-> 9, v |-> 0, forms |-> {"decimal", "huge"}]

List(items) == [k |-> "list", items |-> items]

Pod(ns, id, n, g, t) ==
    [id |-> id, namespace |-> ns, object |-> [k |-> "object",
        at |-> [n |-> List(n), g |-> g, t |-> t, b |-> Bool(id % 2)]]]

(* The cluster's objects: at first every value converts; then a text among  *)
(* the numbers, a missing group, a number where a list is expected.         *)
World(pods) == [Pod |-> pods, Node |-> <<>>]

MCWorlds ==
    <<World(<<Pod(1, 1, <<Num(-100), Num(20)>>, Text(1), Time(15)),
              Pod(1, 2, <<None, Num(-150)>>, Text(1), Time(15)),
              Pod(1, 3, <<>>, Text(2), None),
              Pod(2, 4, <<Num(-50)>>, Text(2), Time(20))>>),
      World(<<Pod(1, 1, <<Num(-10), Num(-15), Num(-15), Num(-10)>>, Text(1), Time(18)),
              Pod(1, 2, <<Huge>>, Text(1), Time(30)),
              Pod(1, 3, <<Num(20)>>, None, Time(10)),
              [id |-> 4, namespace |-> 2,
               object |-> [k |-> "object", at |-> [n |-> Num(1)]]]>>)>>

P == [wellFormed |-> TRUE, fits |-> TRUE, mode |-> "Explicit", include |-> {1, 2},
      exclude |-> {}, system |-> {}, kinds |-> {"Pod"}, allowClusterScoped |-> FALSE]

MCPolicies == <<{P}, {[P EXCEPT !.exclude = {2}]}, {[P EXCEPT !.fits = FALSE]}, {}>>

Field(name, path, type, operators) ==
    [name |-> name, path |-> path, type |-> type, operators |-> operators]

Op(op, value, values) == [op |-> op, value |-> value, values |-> values]

Operand(type, native) == [type |-> type, native |-> native]

N(type, operators) == Field(1, <<Key("n"), Wildcard>>, type, operators)

G(type, operators) == Field(2, <<Key("g")>>, type, operators)

Agg(name, function, groupBy) ==
    [name |-> name, function |-> function, field |-> 1, groupBy |-> groupBy,
     provenance |-> FALSE, precision |-> {}, rounding |-> ""]

S(fields, aggregations) ==
    [kind |-> "Pod", descriptor |-> TRUE, namespaces |-> {}, selectors |-> TRUE,
     members |-> 1, fields |-> fields, aggregations |-> aggregations]

Rich ==
    S(<<G("string", <<>>), N("number", <<>>)>>,
      <<Agg(9, "sum", <<>>), Agg(8, "average", <<2>>),
        [Agg(7, "average", <<>>) EXCEPT !.precision = {0}, !.rounding = "towardZero"],
        Agg(6, "min", <<2>>), Agg(5, "max", <<>>), Agg(4, "count", <<2>>),
        [Agg(3, "collect", <<>>) EXCEPT !.provenance = TRUE],
        [Agg(2, "distinct", <<2>>) EXCEPT !.provenance = TRUE], Agg(1, "last", <<>>)>>)

(* Predicates and transformations, read in both namespaces.                 *)
Filtered ==
    [S(<<N("number", <<Op("default", {Operand("number", Num(0))}, <<>>),
                       Op("gte", {Operand("number", Num(0))}, <<>>)>>),
         G("string", <<Op("in", {}, <<Operand("string", Text(1)), Operand("string", Text(2))>>)>>)>>,
       <<Agg(1, "sum", <<>>), Agg(2, "count", <<2>>)>>) EXCEPT !.namespaces = {<<2, 1>>}]

(* Whole numbers whose sum overflows, a minimum of booleans, a field        *)
(* without operators that fails alone.                                      *)
Edges ==
    S(<<N("integer", <<Op("exists", {}, <<>>)>>),
        Field(3, <<Key("b")>>, "boolean", <<>>),
        Field(4, <<Key("n"), Index(0)>>, "integer", <<>>)>>,
      <<Agg(1, "sum", <<>>), [Agg(2, "min", <<>>) EXCEPT !.field = 3], Agg(3, "first", <<3>>)>>)

(* Only text 1 starts with text 1.                                          *)
MCStringFacts == {<<"startsWith", 1, 1>>}

Prefixed ==
    S(<<G("string", <<Op("startsWith", {Operand("string", Text(1))}, <<>>)>>)>>,
      <<[Agg(1, "count", <<>>) EXCEPT !.field = 2]>>)

Times ==
    S(<<Field(1, <<Key("t")>>, "timestamp", <<>>)>>,
      <<Agg(1, "max", <<>>), Agg(2, "collect", <<1>>)>>)

(* Each refused by one stage of the plans, or over budget.                  *)
Invalid ==
    <<S(<<N("", <<>>)>>, <<>>),
     S(<<N("", <<Op("exists", {}, <<>>)>>)>>, <<Agg(1, "count", <<>>)>>),
     S(<<G("string", <<Op("gt", {Operand("string", Text(1))}, <<>>)>>)>>, <<>>),
     S(<<N("number", <<Op("eq", {}, <<Operand("number", Num(0))>>)>>)>>, <<>>),
     S(<<N("number", <<>>), G("string", <<>>)>>,
       <<Agg(1, "count", <<2, 2>>), Agg(2, "count", <<7>>)>>),
     S(<<N("string", <<>>)>>, <<Agg(1, "average", <<>>)>>),
     S(<<Field(1, <<Key("n"), Unsupported>>, "number", <<>>)>>, <<>>),
     S(<<N("number", <<>>)>>, <<[Agg(1, "average", <<>>) EXCEPT !.precision = {2}]>>),
     [S(<<N("number", <<>>)>>, <<>>) EXCEPT !.descriptor = FALSE],
     [S(<<N("number", <<>>)>>, <<>>) EXCEPT !.members = 2],
     [S(<<N("number", <<>>)>>, <<>>) EXCEPT !.selectors = FALSE],
     [S(<<N("number", <<>>)>>, <<>>) EXCEPT !.kind = "Node", !.namespaces = {<<1>>}]>>

MCFacets ==
    <<<<Rich>>, <<Filtered, Prefixed>>, <<Edges>>, <<Times>>, <<>>,
      <<[S(<<N("number", <<>>)>>, <<>>) EXCEPT !.kind = "Gone"]>>,
      <<[S(<<N("number", <<>>)>>, <<>>) EXCEPT !.namespaces = {<<>>}]>>,
      <<S(<<>>, <<>>)>>,
      <<Rich, Times, Edges>>, <<Rich, Edges>>>>
    \o [i \in DOMAIN Invalid |-> <<Invalid[i]>>]

(* As by default; small enough that nothing but the conditions fits; too    *)
(* small for them; beyond the structural ceiling.                           *)
MCOverrides ==
    {<<>>, [sources |-> 1, values |-> 12, status |-> 5], [status |-> 4], [sources |-> 3]}
=============================================================================
