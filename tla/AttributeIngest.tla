--------------------------- MODULE AttributeIngest ---------------------------
(***************************************************************************)
(* Customer attributes (tidemill/attributes/ingest.py and routes.py): a    *)
(* registry that gives every key one type, and one row per customer and    *)
(* key with a column per type.  Two writers fill them: the state consumer  *)
(* (the metadata of a customer event) and the API or a CSV file.  Both     *)
(* choose the type from what they read before they write, and both run in  *)
(* transactions that do not wait for each other.                           *)
(***************************************************************************)
EXTENDS Integers

CONSTANTS
  Customers, Keys, Types,
  Raws,        \* values as they are sent
  InferType,   \* infer_type, of a raw value
  Casts,       \* raw value to the types _coerce_typed can bring it to
  MaxWrites,   \* bound: writes begun
  NoRow, NoOp, Null

VARIABLES
  definition,  \* attribute_definition: a key's type
  value,       \* customer_attribute: [col, val], the other columns are NULL
  customer,    \* the customers that have a row
  open,        \* what each writer has read and is about to write
  writes,      \* how many writes began
  sent         \* ghost: the last value stored for a customer and key

attrVars == <<definition, value, customer, open, writes, sent>>

Writers == {"metadata", "direct"} \X Customers

-----------------------------------------------------------------------------
\* _coerce_typed: NULL when the value does not fit.
Coerce(raw, type) == IF type \in Casts[raw] THEN raw ELSE Null

\* What a query reads in the column of the key's type.
Read(c, k, type) ==
  IF value[c][k] = NoRow \/ value[c][k].col # type THEN Null ELSE value[c][k].val

\* fan_out_customer_metadata knows the type of the keys the customer has a row
\* for, and infers it otherwise.
TypeOfMetadata(c, k, raw) ==
  IF value[c][k] # NoRow THEN definition[k] ELSE InferType[raw]

\* The API and the import look the key up in the registry first.
TypeOfDirect(k, raw) == IF definition[k] # NoRow THEN definition[k] ELSE InferType[raw]

Unchanged(c, k, raw) ==
  /\ value[c][k] # NoRow
  /\ Read(c, k, definition[k]) = Coerce(raw, definition[k])

-----------------------------------------------------------------------------
AttrInit ==
  /\ definition = [k \in Keys |-> NoRow]
  /\ value = [c \in Customers |-> [k \in Keys |-> NoRow]]
  /\ customer = {}
  /\ open = [w \in Writers |-> NoOp]
  /\ writes = 0
  /\ sent = [c \in Customers |-> [k \in Keys |-> Null]]

Begin(w, op) ==
  /\ open[w] = NoOp
  /\ writes < MaxWrites
  /\ open' = [open EXCEPT ![w] = op]
  /\ writes' = writes + 1
  /\ UNCHANGED <<definition, value, customer, sent>>

\* The reads of a customer event's metadata; a value that is stored already is
\* skipped.
BeginMetadata(c, k, raw) ==
  Begin(<<"metadata", c>>,
        [key |-> k, raw |-> raw, type |-> TypeOfMetadata(c, k, raw),
         skip |-> Unchanged(c, k, raw)])

\* The reads of POST /customers/{id}/attributes or of an imported row.
BeginDirect(c, k, raw) ==
  /\ c \in customer
  /\ Begin(<<"direct", c>>,
           [key |-> k, raw |-> raw, type |-> TypeOfDirect(k, raw), skip |-> FALSE])

\* The writes: the definition, which keeps its first type, and the row, whose
\* other columns are cleared.
Commit(w) ==
  LET op == open[w]
      c == w[2]
  IN  /\ op # NoOp
      /\ open' = [open EXCEPT ![w] = NoOp]
      /\ customer' = customer \union {c}
      /\ definition' = [definition EXCEPT ![op.key] = IF @ = NoRow THEN op.type ELSE @]
      /\ IF op.skip THEN UNCHANGED <<value, sent>>
         ELSE /\ value' = [value EXCEPT ![c][op.key] =
                             [col |-> op.type, val |-> Coerce(op.raw, op.type)]]
              /\ sent' = [sent EXCEPT ![c][op.key] = op.raw]
      /\ UNCHANGED writes

\* POST /attributes
CreateDefinition(k, type) ==
  /\ definition[k] = NoRow
  /\ definition' = [definition EXCEPT ![k] = type]
  /\ UNCHANGED <<value, customer, open, writes, sent>>

\* DELETE /customers/{id}/attributes/{key}
DeleteAttribute(c, k) ==
  /\ value[c][k] # NoRow
  /\ value' = [value EXCEPT ![c][k] = NoRow]
  /\ sent' = [sent EXCEPT ![c][k] = Null]
  /\ UNCHANGED <<definition, customer, open, writes>>

AttrNext ==
  \/ \E c \in Customers, k \in Keys, raw \in Raws :
       BeginMetadata(c, k, raw) \/ BeginDirect(c, k, raw)
  \/ \E w \in Writers : Commit(w)
  \/ \E k \in Keys, type \in Types : CreateDefinition(k, type)
  \/ \E c \in Customers, k \in Keys : DeleteAttribute(c, k)
=============================================================================
