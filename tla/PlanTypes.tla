------------------------------ MODULE PlanTypes ------------------------------
(***************************************************************************)
(* The types that validation infers (receipts-plan: types.rs, expr.rs and  *)
(* node_schema in plan.rs).  A schema is a sequence of fields [name, ty,   *)
(* nullable]; an expression is a record whose x says which one it is; a    *)
(* literal has a type, "Null" for the bare null, and a value.              *)
(***************************************************************************)
EXTENDS SortKeys

CONSTANTS
    Catalog,    \* Catalog[s]: the schema of snapshot s
    Exprs,      \* the expressions that plans are written with
    Depth,      \* Depth[e]: how deep e is nested
    MaxDepth    \* bound: how deep any is

ExprKinds ==
    {"column", "literal", "compare", "arith", "and", "or", "not", "is_null", "in",
     "date_trunc", "lat", "lon"}

\* The expressions that e is made of.
Inner(e) ==
    CASE e.x \in {"compare", "arith"} -> {e.a, e.b}
      [] e.x \in {"and", "or"} -> {e.args[i] : i \in DOMAIN e.args}
      [] e.x \in {"column", "literal"} -> {}
      [] OTHER -> {e.a}

IsList(s) == s \in Seq({s[k] : k \in DOMAIN s})

\* An expression is a tree, and its operators are ones that there are.
ASSUME ExprAssumption ==
    /\ MaxDepth \in Nat /\ Depth \in [Exprs -> 0 .. MaxDepth]
    /\ \A e \in Exprs :
          /\ e.x \in ExprKinds
          /\ \A a \in Inner(e) : a \in Exprs /\ Depth[a] < Depth[e]
          /\ e.x \in {"and", "or"} => e.args \in Seq(Exprs)
          /\ e.x = "in" => IsList(e.values)
          /\ e.x = "compare" => e.op \in {"eq", "ne", "lt", "le", "gt", "ge"}
          /\ e.x = "arith" => e.op \in {"add", "sub", "mul", "div"}
          /\ e.x = "date_trunc" => e.unit \in {"day", "week", "month", "year"}

Refused == [ok |-> FALSE]

FieldNames(schema) == {schema[i].name : i \in DOMAIN schema}

\* Schema::index_of, for a name the schema has.
IndexOf(schema, name) ==
    CHOOSE i \in DOMAIN schema :
        schema[i].name = name /\ \A j \in 1 .. i - 1 : schema[j].name # name

Field(schema, name) == schema[IndexOf(schema, name)]

IsNumeric(ty) == ty \in {"I64", "F64"}

Comparable(a, b) ==
    \/ IsNumeric(a) /\ IsNumeric(b)
    \/ a = b /\ a \in {"Timestamp", "DictUtf8", "Bool"}

\* arith_type; "None" where the operation is not defined.
ArithType(op, a, b) ==
    CASE IsNumeric(a) /\ IsNumeric(b) ->
            IF op # "div" /\ a = "I64" /\ b = "I64" THEN "I64" ELSE "F64"
      [] op = "sub" /\ a = "Timestamp" /\ b = "Timestamp" -> "I64"
      [] op \in {"add", "sub"} /\ a = "Timestamp" /\ b = "I64" -> "Timestamp"
      [] op = "add" /\ a = "I64" /\ b = "Timestamp" -> "Timestamp"
      [] OTHER -> "None"

ExprType(ty, nullable) == [ok |-> TRUE, ty |-> ty, nullable |-> nullable]

\* Mutant of ArithNullable: a result is missing only if an operand is.
ArithNullable_OfOperands(ta, tb, ty) == ta.nullable \/ tb.nullable

\* A decimal is never known to be present: it may overflow or divide by zero.
ArithNullable(ta, tb, ty) == ta.nullable \/ tb.nullable \/ ty = "F64"

\* typed and boolean: what an operand of type t must be.
Usable(t) == IF t.ok /\ t.ty # "None" THEN t ELSE Refused

UsableAs(t, ty) == IF Usable(t).ok /\ t.ty = ty THEN t ELSE Refused

\* The type of an expression, given the types of those it is made of.
TypeStep(e, schema, type) ==
    CASE e.x = "column" ->
            IF e.name \in FieldNames(schema)
            THEN ExprType(Field(schema, e.name).ty, Field(schema, e.name).nullable)
            ELSE Refused
      [] e.x = "literal" ->
            IF e.lit.ty = "Null" THEN ExprType("None", TRUE)
            ELSE IF e.lit.ty = "F64" /\ e.lit.v \notin Finite THEN Refused
            ELSE ExprType(e.lit.ty, FALSE)
      [] e.x = "compare" ->
            LET ta == Usable(type[e.a])
                tb == Usable(type[e.b])
            IN  IF ta.ok /\ tb.ok /\ Comparable(ta.ty, tb.ty)
                THEN ExprType("Bool", ta.nullable \/ tb.nullable)
                ELSE Refused
      [] e.x \in {"and", "or"} ->
            LET t == [i \in DOMAIN e.args |-> UsableAs(type[e.args[i]], "Bool")]
            IN  IF e.args # << >> /\ \A i \in DOMAIN t : t[i].ok
                THEN ExprType("Bool", \E i \in DOMAIN t : t[i].nullable)
                ELSE Refused
      [] e.x = "not" -> UsableAs(type[e.a], "Bool")
      [] e.x = "is_null" ->
            IF type[e.a].ok THEN ExprType("Bool", FALSE) ELSE Refused
      [] e.x = "in" ->
            LET t == Usable(type[e.a])
            IN  IF t.ok /\ e.values # << >>
                        /\ \A i \in DOMAIN e.values : Comparable(t.ty, e.values[i].ty)
                THEN ExprType("Bool", t.nullable)
                ELSE Refused
      [] e.x = "arith" ->
            LET ta == Usable(type[e.a])
                tb == Usable(type[e.b])
                ty == ArithType(e.op, ta.ty, tb.ty)
            IN  IF ta.ok /\ tb.ok /\ ty # "None"
                THEN ExprType(ty, ArithNullable(ta, tb, ty))
                ELSE Refused
      [] e.x = "date_trunc" -> UsableAs(type[e.a], "Timestamp")
      [] e.x \in {"lat", "lon"} ->
            LET t == UsableAs(type[e.a], "Geo")
            IN  IF t.ok THEN ExprType("F64", t.nullable) ELSE Refused

TypesIn(schema) ==
    LET type[e \in Exprs] == TypeStep(e, schema, type)
    IN  type

TypeOf(e, schema) == TypesIn(schema)[e]
Typed(e, schema) == Usable(TypeOf(e, schema))
TypedAs(e, schema, ty) == UsableAs(TypeOf(e, schema), ty)

----------------------------------------------------------------------------
(* The schema of each step.                                                *)

NoColumn == "no column"

\* AggFunc::output_type; input is "None" without a column.
OutputType(func, input) ==
    LET Of(types, ty) == IF input \in types THEN ty ELSE "None"
        all == {"I64", "F64", "Bool", "Timestamp", "DictUtf8", "Geo"}
    IN  CASE func = "count" -> Of({"None"}, "I64")
          [] func = "count_non_null" -> Of(all, "I64")
          [] func = "sum" -> Of({"I64", "F64"}, input)
          [] func \in {"mean", "median"} -> Of({"I64", "F64"}, "F64")
          [] func \in {"min", "max"} -> Of(all \ {"Geo"}, input)
          [] func = "percentile" -> Of({"I64", "F64", "Timestamp"}, input)

Unique(names) == \A i, j \in DOMAIN names : names[i] = names[j] => i = j

Known(names, schema) == \A i \in DOMAIN names : names[i] \in FieldNames(schema)

Picked(names, schema) == [i \in DOMAIN names |-> Field(schema, names[i])]

AggNames(op) == [i \in DOMAIN op.aggregates |-> op.aggregates[i].name]

AggType(agg, schema) ==
    OutputType(agg.func,
               IF agg.column = NoColumn THEN "None" ELSE Field(schema, agg.column).ty)

\* Every aggregate is usable: it has a name, a column that exists, and a type.
AggFits(agg, schema) ==
    /\ agg.name # ""
    /\ agg.func = "percentile" => agg.p \in 1 .. 99
    /\ agg.column = NoColumn \/ agg.column \in FieldNames(schema)
    /\ AggType(agg, schema) # "None"

AggField(agg, schema) ==
    [name |-> agg.name, ty |-> AggType(agg, schema),
     nullable |-> agg.func \notin {"count", "count_non_null"}]

Orderable(names, schema) ==
    Known(names, schema) /\ \A i \in DOMAIN names : Field(schema, names[i]).ty # "Geo"

SchemaIf(condition, schema) ==
    IF condition THEN [ok |-> TRUE, schema |-> schema] ELSE Refused

SortColumns(op) == [i \in DOMAIN op.keys |-> op.keys[i].column]

\* node_schema, given the schema of the step that is read.
NodeSchema(op, input) ==
    CASE op.op = "scan" ->
            IF op.snapshot \in DOMAIN Catalog
            THEN SchemaIf(Unique([i \in DOMAIN Catalog[op.snapshot] |->
                                     Catalog[op.snapshot][i].name]),
                          Catalog[op.snapshot])
            ELSE Refused
      [] op.op = "filter" -> SchemaIf(TypedAs(op.predicate, input, "Bool").ok, input)
      [] op.op = "map" ->
            LET t == Typed(op.expr, input)
            IN  IF op.name # "" /\ op.name \notin FieldNames(input) /\ t.ok
                THEN SchemaIf(TRUE, Append(input, [name |-> op.name, ty |-> t.ty,
                                                   nullable |-> t.nullable]))
                ELSE Refused
      [] op.op = "project" ->
            IF op.columns # << >> /\ Unique(op.columns) /\ Known(op.columns, input)
            THEN SchemaIf(TRUE, Picked(op.columns, input))
            ELSE Refused
      [] op.op = "aggregate" ->
            IF /\ op.aggregates # << >> \/ op.group_by # << >>
               /\ Unique(op.group_by \o AggNames(op))
               /\ Orderable(op.group_by, input)
               /\ \A i \in DOMAIN op.aggregates : AggFits(op.aggregates[i], input)
            THEN SchemaIf(TRUE, Picked(op.group_by, input)
                                \o [i \in DOMAIN op.aggregates |->
                                        AggField(op.aggregates[i], input)])
            ELSE Refused
      [] op.op = "sort" ->
            SchemaIf(op.keys # << >> /\ Orderable(SortColumns(op), input), input)
      [] op.op = "limit" -> SchemaIf(TRUE, input)
=============================================================================
