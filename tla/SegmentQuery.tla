---------------------------- MODULE SegmentQuery ----------------------------
(***************************************************************************)
(* The segment language (tidemill/segments/model.py, compiler.py) and the  *)
(* part of the cube algebra it compiles to (tidemill/metrics/query.py):    *)
(* a definition is a tree of conditions; its compiled filters refer to     *)
(* their operands through bind parameters that a whole statement shares.   *)
(*                                                                         *)
(* A condition is [kind |-> "condition", field, op, shape, value]; a field *)
(* is <<namespace, name>>, a bare name having the namespace "row"; a shape *)
(* is what JSON the value is.  A group is [kind |-> "and" | "or", parts].  *)
(* A pattern (contains, starts_with...) is the set of the texts it fits.   *)
(***************************************************************************)
EXTENDS Integers, SequencesExt

CONSTANTS
  Null, NoSegment,
  Cube      \* [joins, dims, times]: what a metric's cube declares; a dimension
            \* is mapped to the joins it needs

Patterns == {"contains", "starts_with", "ends_with"}
Emptiness == {"is_empty", "is_not_empty"}
Operators == {"=", "!=", ">", ">=", "<", "<=", "in", "not in", "between",
              "not_contains"} \union Patterns \union Emptiness

-----------------------------------------------------------------------------
\* parse_definition: what POST and PUT /segments take in.
RECURSIVE Parses(_)
Parses(node) ==
  \/ node.kind = "condition"
  \/ node.kind \in {"and", "or"} /\ \A i \in DOMAIN node.parts : Parses(node.parts[i])

\* A dimension or a time dimension; only the former may be called computed.
DeclaredIn(namespace) ==
  IF namespace = "computed" THEN DOMAIN Cube.dims ELSE DOMAIN Cube.dims \union Cube.times

\* _validate_condition: the operator is known and its value is of a shape it can
\* take ...
WellShaped(cond) ==
  /\ cond.op \in Operators
  /\ cond.op \in {"in", "not in"} => cond.shape \in {"list", "pair"}
  /\ cond.op = "between" => cond.shape = "pair"
  /\ cond.op \in Emptiness => cond.shape = "none"

\* ... and the field resolves; the column of a joined table is not looked up.
FieldResolves(cond, knownKeys) ==
  CASE cond.field[1] = "attr" -> cond.field[2] \in knownKeys
    [] cond.field[1] \in {"customer", "subscription"} -> cond.field[1] \in Cube.joins
    [] OTHER -> cond.field[2] \in DeclaredIn(cond.field[1])

\* validate_definition: no error is found in the tree.
RECURSIVE Validates(_, _)
Validates(node, knownKeys) ==
  IF node.kind = "condition" THEN WellShaped(node) /\ FieldResolves(node, knownKeys)
  ELSE /\ node.parts # <<>>
       /\ \A i \in DOMAIN node.parts : Validates(node.parts[i], knownKeys)

\* _compile_condition and _filter_clause raise for fewer: any key is an
\* attribute, a time dimension may be called computed, a text is a list.
Compilable(cond) ==
  /\ cond.op \in Operators
  /\ cond.op \in {"in", "not in", "between"} => cond.shape \in {"list", "pair", "text"}
  /\ CASE cond.field[1] = "attr" -> TRUE
       [] cond.field[1] \in {"customer", "subscription"} -> cond.field[1] \in Cube.joins
       [] OTHER -> cond.field[2] \in DeclaredIn("row")

-----------------------------------------------------------------------------

\* The operand(s) a condition binds, as pairs <<suffix, value>>.
Operands(op, value) ==
  CASE op \in Emptiness -> <<>>
    [] op = "between" -> << <<"start", value[1]>>, <<"end", value[2]>> >>
    [] OTHER -> << <<"", value>> >>

Compares(op, v, value) ==
  CASE op = "=" -> v = value
    [] op = "!=" -> v # value
    [] op = "<" -> v < value
    [] op = "<=" -> v <= value
    [] op = ">" -> v > value
    [] op = ">=" -> v >= value
    [] op \in {"in"} \union Patterns -> v \in value
    [] op \in {"not in", "not_contains"} -> v \notin value
    [] op = "between" -> v >= value[1] /\ v <= value[2]

\* SQL's verdict on one comparison: with NULL only is_empty holds.
Verdict(op, v, value) ==
  CASE op = "is_empty" -> v = Null
    [] op = "is_not_empty" -> v # Null
    [] OTHER -> v # Null /\ Compares(op, v, value)

-----------------------------------------------------------------------------
\* The column of a field: an attribute is read in the column of its type.
ColumnOf(field, types) ==
  CASE field[1] = "attr" -> <<"attr", field[2], types[field[2]]>>
    [] field[1] \in {"customer", "subscription"} -> <<field[1], field[2], "">>
    [] OTHER -> <<"row", field[2], "">>

\* The joined tables a column needs.
JoinsOf(column) ==
  CASE column[1] = "attr" -> {"customer"}
    [] column[1] \in {"customer", "subscription"} -> {column[1]}
    [] column[2] \in DOMAIN Cube.dims -> Cube.dims[column[2]]
    [] OTHER -> {}

\* Names of parameters.  Conditions on attributes and joined columns name the
\* operator; a dimension of the cube does not (Cube.filter).
ParamOf(cond) ==
  IF cond.field[1] \in {"attr", "customer", "subscription"}
  THEN <<cond.field[1], cond.field[2], cond.op>>
  ELSE <<"", cond.field[2], "">>

Param(base) == [base |-> base, legs |-> <<>>, branch |-> ""]

\* _compile_condition
Leaf(cond, types) ==
  [kind |-> "simple", column |-> ColumnOf(cond.field, types), op |-> cond.op,
   value |-> cond.value, param |-> Param(ParamOf(cond))]

RECURSIVE Rename(_, _)
Rename(f, leg) ==
  IF f.kind = "simple" THEN [f EXCEPT !.param.legs = Append(@, leg)]
  ELSE [f EXCEPT !.children = [i \in DOMAIN @ |-> Rename(@[i], leg)]]

RECURSIVE ForBranch(_, _)
ForBranch(f, segment) ==
  IF f.kind = "simple" THEN [f EXCEPT !.param.branch = segment]
  ELSE [f EXCEPT !.children = [i \in DOMAIN @ |-> ForBranch(@[i], segment)]]

Conjoin(fs) == IF Len(fs) = 1 THEN fs[1] ELSE [kind |-> "and", children |-> fs]

\* Mutant of OrGroup: the legs keep their parameters' names.
OrGroupShared(legs) ==
  LET kept == SelectSeq(legs, LAMBDA leg : Len(leg) > 0)
  IN  << [kind |-> "or", children |-> [i \in DOMAIN kept |-> Conjoin(kept[i])]] >>

\* Cube.or_group: one leg per part, its parameters renamed.
OrGroup(legs) ==
  LET renamed == [i \in DOMAIN legs |-> [j \in DOMAIN legs[i] |-> Rename(legs[i][j], i)]]
      kept == SelectSeq(renamed, LAMBDA leg : Len(leg) > 0)
  IN  IF kept = <<>> THEN <<>>
      ELSE << [kind |-> "or", children |-> [i \in DOMAIN kept |-> Conjoin(kept[i])]] >>

\* _compile_group: the filters of a definition, which AND together.
RECURSIVE Filters(_, _)
Filters(node, types) ==
  IF node.kind = "condition" THEN << Leaf(node, types) >>
  ELSE LET parts == [i \in DOMAIN node.parts |-> Filters(node.parts[i], types)]
       IN  IF node.kind = "and" THEN FlattenSeq(parts) ELSE OrGroup(parts)

-----------------------------------------------------------------------------
\* Compare.to_fragment: each segment's filters under its own parameters.
Branches(compare, segments, types) ==
  [i \in DOMAIN compare |->
     LET fs == Filters(segments[compare[i]], types)
     IN  [segment |-> compare[i],
          filters |-> [j \in DOMAIN fs |-> ForBranch(fs[j], compare[i])]]]

\* build_spec_fragment on a metric's own conditions: the universe segment
\* restricts every row, each compare segment tags the rows it holds for.
Statement(own, universe, compare, segments, types) ==
  [filters |-> [i \in DOMAIN own |-> Leaf(own[i], types)] \o
                 (IF universe = NoSegment THEN <<>> ELSE Filters(segments[universe], types)),
   branches |-> Branches(compare, segments, types)]

RECURSIVE Leaves(_)
Leaves(f) == IF f.kind = "simple" THEN << f >>
             ELSE FlattenSeq([i \in DOMAIN f.children |-> Leaves(f.children[i])])

LeavesOf(fs) == FlattenSeq([i \in DOMAIN fs |-> Leaves(fs[i])])

AllLeaves(stmt) ==
  LeavesOf(stmt.filters) \o
    FlattenSeq([i \in DOMAIN stmt.branches |-> LeavesOf(stmt.branches[i].filters)])

\* The one dictionary of a statement: a name that is bound again takes the
\* later value.
Bindings(stmt) ==
  LET leaves == AllLeaves(stmt)
  IN  FlattenSeq([i \in DOMAIN leaves |->
        LET ops == Operands(leaves[i].op, leaves[i].value)
        IN  [j \in DOMAIN ops |->
               [name |-> <<leaves[i].param, ops[j][1]>>, value |-> ops[j][2]]]])

Bound(bindings, name) ==
  bindings[CHOOSE i \in DOMAIN bindings :
             /\ bindings[i].name = name
             /\ \A j \in DOMAIN bindings : bindings[j].name = name => j <= i].value

\* _filter_clause: the operand is whatever its parameter is bound to.
OperandOf(f, bindings) ==
  LET ops == Operands(f.op, f.value)
  IN  CASE Len(ops) = 0 -> Null
        [] Len(ops) = 1 -> Bound(bindings, <<f.param, "">>)
        [] OTHER -> << Bound(bindings, <<f.param, "start">>), Bound(bindings, <<f.param, "end">>) >>

RECURSIVE Clause(_, _, _)
Clause(f, cells, bindings) ==
  IF f.kind = "simple" THEN Verdict(f.op, cells[f.column], OperandOf(f, bindings))
  ELSE IF f.kind = "and"
       THEN \A i \in DOMAIN f.children : Clause(f.children[i], cells, bindings)
       ELSE \E i \in DOMAIN f.children : Clause(f.children[i], cells, bindings)

\* The customer table is joined when any condition of the statement needs it,
\* in a compare branch too; a row without a customer is then left out.
JoinsCustomer(stmt) ==
  \E i \in DOMAIN AllLeaves(stmt) : "customer" \in JoinsOf(AllLeaves(stmt)[i].column)

\* The rows of a statement, each with the compare segment it is tagged with.
Selected(stmt, cells, customerKnown) ==
  LET bindings == Bindings(stmt)
      Passes(r, fs) == \A i \in DOMAIN fs : Clause(fs[i], cells[r], bindings)
      rows == {r \in DOMAIN cells :
                 /\ JoinsCustomer(stmt) => customerKnown[r]
                 /\ Passes(r, stmt.filters)}
  IN  IF stmt.branches = <<>> THEN {<<NoSegment, r>> : r \in rows}
      ELSE UNION {{<<stmt.branches[b].segment, r>> :
                     r \in {x \in rows : Passes(x, stmt.branches[b].filters)}} :
                  b \in DOMAIN stmt.branches}

-----------------------------------------------------------------------------
\* What a definition says (docs/definitions.md): the truth of its tree.
RECURSIVE Holds(_, _, _)
Holds(node, types, cells) ==
  CASE node.kind = "condition" ->
         Verdict(node.op, cells[ColumnOf(node.field, types)], node.value)
    [] node.kind = "and" -> \A i \in DOMAIN node.parts : Holds(node.parts[i], types, cells)
    [] node.kind = "or" -> \E i \in DOMAIN node.parts : Holds(node.parts[i], types, cells)

RECURSIVE Conditions(_)
Conditions(node) ==
  IF node.kind = "condition" THEN << node >>
  ELSE FlattenSeq([i \in DOMAIN node.parts |-> Conditions(node.parts[i])])

\* Two conditions that would share a parameter.
Clash(a, b) ==
  /\ ParamOf(a) = ParamOf(b)
  /\ {Operands(a.op, a.value)[i][1] : i \in DOMAIN Operands(a.op, a.value)} \intersect
     {Operands(b.op, b.value)[i][1] : i \in DOMAIN Operands(b.op, b.value)} # {}

\* No two conditions that clash are joined by an "and".
RECURSIVE Unambiguous(_)
Unambiguous(node) ==
  \/ node.kind = "condition"
  \/ /\ \A i \in DOMAIN node.parts : Unambiguous(node.parts[i])
     /\ node.kind = "or" \/
        \A i, j \in DOMAIN node.parts : i < j =>
          LET left == Conditions(node.parts[i])
              right == Conditions(node.parts[j])
          IN  \A a \in DOMAIN left, b \in DOMAIN right : ~Clash(left[a], right[b])
=============================================================================
