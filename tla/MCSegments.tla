----------------------------- MODULE MCSegments -----------------------------
(* A small instance of TrialSegments for TLC. *)
EXTENDS TrialSegments

CONSTANTS s1, s2, c1, c2

MCCustomerOf == (s1 :> c1) @@ (s2 :> c2)
MCTrials ==
  {[type |-> "started", sub |-> s1, at |-> 1], [type |-> "started", sub |-> s1, at |-> 2],
   [type |-> "converted", sub |-> s1, at |-> 2], [type |-> "expired", sub |-> s2, at |-> 2]}

\* "7" is a number to infer_type, "gold" is not; both may stand in a string column.
MCInferType == ("7" :> "number") @@ ("gold" :> "string")
MCCasts == ("7" :> {"number", "string"}) @@ ("gold" :> {"string"})
MCNumberOf == "7" :> 7
MCCountry == (c1 :> "US") @@ (c2 :> "DE")
MCTenure == (c1 :> 3) @@ (c2 :> 1)

Typed(type, field, op, shape, val) ==
  [kind |-> "condition", field |-> field, op |-> op, shape |-> shape, value |-> val,
   type |-> type]
Cond(field, op, val) == Typed("string", field, op, "text", val)
Num(field, op, val) == Typed("number", field, op, "number", val)
Listed(field, op, val) == Typed("string", field, op, "list", val)
OrOf(parts) == [kind |-> "or", parts |-> parts]
AndOf(parts) == [kind |-> "and", parts |-> parts]

Tier == <<"attr", "tier">>
CountryField == <<"customer", "country">>
TenureField == <<"computed", "tenure_months">>
Start == <<"row", "started_at">>

MCBodies ==
  [gold |-> AndOf(<< Cond(Tier, "=", "gold") >>),
   either |-> OrOf(<< Cond(Tier, "=", "7"), Cond(Tier, "=", "gold") >>),
   untiered |-> OrOf(<< Typed("string", Tier, "is_empty", "none", Null),
                        Listed(Tier, "not in", {"gold"}) >>),
   scored |-> AndOf(<< Num(Tier, ">=", 5), Num(Tier, "<", 9) >>),
   nested |-> OrOf(<< AndOf(<< Cond(CountryField, "=", "US"), Num(TenureField, ">=", 2) >>),
                     AndOf(<< Cond(CountryField, "=", "DE"), OrOf(<< Num(TenureField, "<", 1),
                                                                 Cond(Tier, "=", "gold") >>) >>) >>),
   veteran |-> AndOf(<< Num(TenureField, ">=", 1), Num(TenureField, "<", 3) >>),
   second |-> AndOf(<< Typed("number", Start, "between", "pair", <<2, 2>>) >>),
   \* The patterns "ol" and "x".
   goldish |-> AndOf(<< Cond(Tier, "contains", {"gold"}), Cond(Tier, "not_contains", {}) >>),
   badlist |-> AndOf(<< Typed("string", Tier, "in", "number", 7) >>),
   strange |-> [kind |-> "xor", parts |-> <<>>]]

MCFirstSegments ==
  [id \in {"gold", "either", "untiered", "scored", "nested", "veteran", "second"} |-> id]
    @@ ("mine" :> NoRow)
MCEdits == {"mine"} \X {"goldish", "badlist", "strange"}

MCPeriodOf == ("day" :> (1 :> 1 @@ 2 :> 2)) @@ ("month" :> (1 :> 1 @@ 2 :> 1))

Q(start, end, interval, universe, compare) ==
  [start |-> start, end |-> end, interval |-> interval, universe |-> universe,
   compare |-> compare]
MCQueries ==
  {Q(1, 2, "day", NoSegment, <<"either", "gold", "untiered">>),
   Q(1, 2, "month", "nested", <<>>), Q(1, 1, "day", "either", <<"nested", "gold">>),
   Q(1, 2, "month", "scored", <<"nested">>), Q(1, 2, "day", "veteran", <<>>),
   Q(1, 1, "day", "second", <<>>), Q(2, 2, "month", NoSegment, <<"second", "scored">>),
   Q(1, 2, "day", "mine", <<"untiered">>)}
=============================================================================
