---------------------------- MODULE TrialSegments ----------------------------
(***************************************************************************)
(* The trial funnel sliced by customer segments (TrialsMetric._funnel,     *)
(* segments/compiler.py): trial events fill metric_trial while connectors, *)
(* the API and imports fill the customers' attributes, and a report reads  *)
(* both through one compiled statement.                                    *)
(***************************************************************************)
EXTENDS TrialMetric, FiniteSets, Sequences, TLC

CONSTANTS
  Customers, CustomerOf, Keys, Types, Raws, InferType, Casts, MaxWrites, NoOp,
  Country, Tenure,      \* what else is known of a customer
  NumberOf,             \* the number a raw value spells
  Bodies,               \* the definitions the API is sent: name to tree
  FirstSegments,        \* the segments stored at first: id to name
  Edits,                \* bound: <<id, name>>, which segment is saved as what
  PeriodOf,             \* DATE_TRUNC: interval to time to period
  Queries,              \* reports asked for: [start, end, interval, universe, compare]
  NoSegment

VARIABLES
  definition, value, customer, open, writes, sent,
  segment               \* the segment table: id to the name of its definition

Attributes == INSTANCE AttributeIngest

\* TrialCube; a trial's source is always known.
TrialCube ==
  [joins |-> {"connector_source", "customer"},
   dims |-> [source_id |-> {}, source |-> {"connector_source"},
             customer_country |-> {"customer"}, tenure_months |-> {"customer"}],
   times |-> {"started_at", "converted_at", "expired_at"}]

Query == INSTANCE SegmentQuery WITH Cube <- TrialCube

attributeVars == <<definition, value, customer, open, writes, sent>>
segmentVars == <<row, audit, told, attributeVars, segment>>

Found(id) == segment[id] \in DOMAIN Bodies

Save(id, name) ==
  /\ Query!Parses(Bodies[name])
  /\ segment' = [segment EXCEPT ![id] = name]

\* POST /segments: a definition that does not parse is refused, one that no metric
\* understands is not.
CreateSegment(id, name) == segment[id] = NoRow /\ Save(id, name)

\* PUT /segments/{id}
UpdateSegment(id, name) == Found(id) /\ Save(id, name)

\* DELETE /segments/{id}; ids are never used again.
DeleteSegment(id) == Found(id) /\ segment' = [segment EXCEPT ![id] = Null]

SegmentInit == Init /\ Attributes!AttrInit /\ segment = FirstSegments

SegmentNext ==
  \/ Next /\ UNCHANGED <<attributeVars, segment>>
  \/ Attributes!AttrNext /\ UNCHANGED <<row, audit, told, segment>>
  \/ /\ \E edit \in Edits : \/ CreateSegment(edit[1], edit[2])
                            \/ UpdateSegment(edit[1], edit[2])
                            \/ DeleteSegment(edit[1])
     /\ UNCHANGED <<row, audit, told, attributeVars>>

SegmentSpec == SegmentInit /\ [][SegmentNext]_segmentVars

-----------------------------------------------------------------------------
\* get_attribute_types; the compiler takes an unknown key for a string.
AttributeTypes ==
  [k \in Keys |-> IF definition[k] = NoRow THEN "string" ELSE definition[k]]

Trials == {s \in Subs : row[s] # NoRow}

Known == [s \in Trials |-> CustomerOf[s] \in customer]

InColumn(val, type) == IF val = Null \/ type # "number" THEN val ELSE NumberOf[val]

\* What a statement may name: the attributes' columns, those of the customer
\* table and those of the trial's row.
Columns ==
  ({"attr"} \X Keys \X Types) \union
  {<<"customer", "country", "">>, <<"row", "customer_country", "">>,
   <<"row", "tenure_months", "">>, <<"row", "started_at", "">>}

\* A trial's row of the joined tables; attr is what stands in a customer's column
\* for a key and type of customer_attribute.
Cells(s, attr) ==
  LET c == CustomerOf[s]
  IN  [x \in Columns |->
         CASE x[1] = "attr" -> InColumn(attr[c, x[2], x[3]], x[3])
           [] x[2] \in {"country", "customer_country"} -> Country[c]
           [] x[2] = "tenure_months" -> Tenure[c]
           [] x[2] = "started_at" -> row[s].started]

Window(q) == << [kind |-> "condition", field |-> <<"row", "started_at">>,
                 op |-> "between", shape |-> "pair", value |-> <<q.start, q.end>>] >>

Tally(subs) ==
  LET converted == {s \in subs : row[s].converted # Null}
  IN  [started |-> Cardinality(subs), converted |-> Cardinality(converted),
       expired |-> Cardinality({s \in subs : row[s].expired # Null}),
       rate |-> IF subs = {} THEN Null ELSE <<Cardinality(converted), Cardinality(subs)>>]

Groups(q) == IF q.compare = <<>> THEN {NoSegment} ELSE {q.compare[i] : i \in DOMAIN q.compare}
TrialsOf(selected, g) == {x[2] : x \in {y \in selected : y[1] = g}}

\* _funnel: how many of the selected trials started, converted and expired, in
\* every segment that is compared.
Funnel(q, selected) == [g \in Groups(q) |-> Tally(TrialsOf(selected, g))]

\* _conversion_series: the same for every period in which one started.  Its rows
\* do not say which segment they are of.
Series(q, selected) ==
  LET PeriodOfTrial(s) == PeriodOf[q.interval][row[s].started]
  IN  [x \in {<<y[1], PeriodOfTrial(y[2])>> : y \in selected} |->
         Tally({s \in TrialsOf(selected, x[1]) : PeriodOfTrial(s) = x[2]})]

\* _conversion_rate, of the funnel.
ConversionRates(funnel) == [g \in DOMAIN funnel |-> funnel[g].rate]

TrialsQuery(type, q, selected) ==
  CASE type = "conversion_rate" -> ConversionRates(Funnel(q, selected))
    [] type = "series" -> Series(q, selected)
    [] type = "funnel" -> Funnel(q, selected)

\* What each endpoint answers; /metrics/trials is the rate.
TypeOfRoute ==
  [trials |-> "conversion_rate", trials_series |-> "series", trials_funnel |-> "funnel"]
Answers(q, selected) ==
  [route \in DOMAIN TypeOfRoute |-> TrialsQuery(TypeOfRoute[route], q, selected)]

Stored ==
  [c \in Customers, k \in Keys, type \in Types |-> Attributes!Read(c, k, type)]

\* _resolve_segments: the ids a report names become the definitions of the time.
Uses(q) == (Groups(q) \union {q.universe}) \ {NoSegment}
Segments == [id \in {x \in DOMAIN segment : Found(x)} |-> Bodies[segment[id]]]

Compiles(id) ==
  LET cs == Query!Conditions(Segments[id])
  IN  \A i \in DOMAIN cs :
        Query!Compilable(cs[i]) /\ Query!ColumnOf(cs[i].field, AttributeTypes) \in Columns

Refused(status) == [status |-> status]

\* query_metric: 404 for a segment that is not there, 500 for one that does not
\* compile or names a column that does not exist.
Report(q) ==
  CASE \E id \in Uses(q) : ~Found(id) -> Refused(404)
    [] \E id \in Uses(q) : Found(id) /\ ~Compiles(id) -> Refused(500)
    [] OTHER ->
       LET stmt == Query!Statement(Window(q), q.universe, q.compare, Segments, AttributeTypes)
           selected == Query!Selected(stmt, [s \in Trials |-> Cells(s, Stored)], Known)
       IN  [status |-> 200, body |-> Answers(q, selected)]

\* POST /segments/validate, for the metric trials.
Accepts(id) == Query!Validates(Segments[id], {k \in Keys : definition[k] # NoRow})

\* distinct_values, for the segment editor, and list_customer_rows: a row shows
\* whichever of its columns is filled.
DistinctValues(k) ==
  IF definition[k] = NoRow THEN {}
  ELSE {Attributes!Read(c, k, definition[k]) : c \in Customers} \ {Null}

ListCustomerRows(k) ==
  {<<c, value[c][k].val>> : c \in {x \in Customers : value[x][k] # NoRow}}

-----------------------------------------------------------------------------
\* The reference: what the definitions say of what was sent.
Sent ==
  [c \in Customers, k \in Keys, type \in Types |->
     IF sent[c][k] = Null THEN Null ELSE Attributes!Coerce(sent[c][k], type)]

Means(id, s) ==
  id = NoSegment \/
    Query!Holds(Segments[id], AttributeTypes, Cells(s, Sent))

InWindow(q, s) == q.start <= row[s].started /\ row[s].started <= q.end

Expected(q) ==
  [status |-> 200,
   body |-> Answers(q, {<<g, s>> \in Groups(q) \X Trials :
                          InWindow(q, s) /\ Means(q.universe, s) /\ Means(g, s)})]

\* The definitions a query uses, as the one conjunction each of them joins.
Whole(q) ==
  [kind |-> "and",
   parts |-> Window(q) \o (IF q.universe = NoSegment THEN <<>> ELSE << Segments[q.universe] >>)]

IsUnambiguous(q) ==
  /\ Query!Unambiguous(Whole(q))
  /\ \A g \in Groups(q) \ {NoSegment} : Query!Unambiguous(Segments[g])

\* A condition on an attribute compares values of the type it is defined with, and
\* one on a joined table names a column it has.
WellTyped(q) ==
  \A id \in Uses(q) :
    LET cs == Query!Conditions(Segments[id])
    IN  \A i \in DOMAIN cs :
          /\ cs[i].field[1] = "attr" => definition[cs[i].field[2]] = cs[i].type
          /\ cs[i].field[1] = "customer" => cs[i].field[2] = "country"

\* Every value that was sent looks like one of its key's type.
Plain == \A c \in Customers, k \in Keys :
           sent[c][k] # Null => InferType[sent[c][k]] = definition[k]

\* Whatever the order of the trials' events, of the attributes' writes and of the
\* edits of segments: a report whose definitions the linter accepts is answered,
\* and its funnel, rates and series count, in each compared segment, exactly the
\* trials of the window whose customers the definitions hold for, a customer in
\* two of them twice; the lists the segment editor shows hold what was sent.
\* (An ambiguous definition, a mistyped value or column, or a customer that is
\* not known yet is another matter.)
SegmentMeans ==
  Plain =>
    /\ \A q \in Queries :
         /\ \A id \in Uses(q) : Found(id) /\ Accepts(id)
         /\ IsUnambiguous(q) /\ WellTyped(q) /\ \A s \in Trials : Known[s]
         => Report(q) = Expected(q)
    /\ \A k \in Keys :
         /\ DistinctValues(k) = {sent[c][k] : c \in Customers} \ {Null}
         /\ ListCustomerRows(k) =
              {<<c, sent[c][k]>> : c \in {x \in Customers : sent[x][k] # Null}}
=============================================================================
