------------------------------- MODULE Limits -------------------------------
(***************************************************************************)
(* The manager's limits (internal/limits/profile.go): the effective profile *)
(* that a process resolves once, from the defaults and its overrides, and   *)
(* the accountant that counts what one stage of one source produces.        *)
(*                                                                          *)
(* A profile is a function from the names of limits to numbers; overrides   *)
(* are such a function on some of the names.  Canonical bytes are counted   *)
(* in weights.                                                              *)
(***************************************************************************)
EXTENDS Integers, Sequences, SequencesExt

CONSTANTS
    Defaults,          \* DefaultProfile
    AdmissionLimits    \* the limits whose default is a structural ceiling

ASSUME LimitsAssumption ==
    /\ AdmissionLimits \subseteq DOMAIN Defaults
    /\ Defaults \in [DOMAIN Defaults -> Nat \ {0}]

----------------------------------------------------------------------------
(* positiveInt, boundedAdmission: what an override may be.                  *)
ValidOverride(limit, value) ==
    /\ value > 0
    /\ limit \in AdmissionLimits => value <= Defaults[limit]

(* Resolve: {} when one override is invalid, else the effective profile.    *)
Resolve(overrides) ==
    IF \A l \in DOMAIN overrides : ValidOverride(l, overrides[l])
    THEN {[l \in DOMAIN Defaults |->
               IF l \in DOMAIN overrides THEN overrides[l] ELSE Defaults[l]]}
    ELSE {}

(* Of a list of numbers, and the number of entries of a list.              *)
Sum(numbers) == FoldLeft(LAMBDA total, n : total + n, 0, numbers)

Size(list) == Cardinality(DOMAIN list)

(* Accountant.AddBytes, on what was used before.                            *)
WouldExceed(used, size, ceiling) == used + size > ceiling

(* A stage that produces one item after another: the first item with an     *)
(* error of its own, or that does not fit beside those before it, ends the  *)
(* source with that reason; "" when all are produced.                       *)
Produce(items, Error(_), Weight(_), ceiling) ==
    LET used == FoldLeft(LAMBDA acc, item : Append(acc, acc[Len(acc)] + Weight(item)),
                         <<0>>, items)
        bad  == {i \in DOMAIN items :
                     \/ Error(items[i]) # ""
                     \/ WouldExceed(used[i], Weight(items[i]), ceiling)}
    IN  IF bad = {} THEN ""
        ELSE IF Error(items[Min(bad)]) # "" THEN Error(items[Min(bad)])
        ELSE "ValueLimitExceeded"
=============================================================================
