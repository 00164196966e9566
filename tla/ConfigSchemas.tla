---------------------------- MODULE ConfigSchemas ----------------------------
(***************************************************************************)
(* The config_schema of a package and the configs of instances: what       *)
(* ConfigSchema::fromJson insists on, the conditions a schema may state,   *)
(* and what validateConfigBundle says of a config and makes of it.         *)
(*                                                                         *)
(* A value is a record of its kind and what it is.  Halves says of a       *)
(* number, as it is written, how many halves it has; numbers beyond 64     *)
(* bits do not occur.  A condition is a JSON object again; one that is     *)
(* just true or false is the object with the one field "(bool)".  What a   *)
(* config preserves beside its four sections is handed on as it is and     *)
(* left out.                                                               *)
(***************************************************************************)
EXTENDS PackageSpecs

CONSTANTS Halves,       \* number -> twice its value
          Outside,      \* paths that leave the project
          Suffix(_)     \* of a path

Undefined == [kind |-> "undefined", is |-> ""]

Null == [kind |-> "null", is |-> ""]

BoolValue(flag) == [kind |-> "bool", is |-> flag]

EmptyObject == [kind |-> "object", is |-> "{}"]

IsInt64Value(v) == v.kind = "number" /\ Halves[v.is] % 2 = 0

KindOf ==
  [bool |-> "bool", double |-> "number", string |-> "text", path |-> "text",
   object |-> "object", array |-> "array"]

(* A value is of a type; of a type there is not, none is.                  *)
IsValueTypeCompatible(type, v) ==
  \/ type = "int" /\ IsInt64Value(v)
  \/ type \in DOMAIN KindOf /\ v.kind = KindOf[type]

JsonValuesEqual(v, w) == v.kind = w.kind /\ v.is = w.is

EnumContains(values, v) == \E i \in DOMAIN values : JsonValuesEqual(values[i], v)

IsPathConfined(path) == path \notin Outside \cup {Blank}

(***************************************************************************)
(* Conditions.  Every part of one is looked at, so that what is wrong with *)
(* one never depends on the parameters it is asked for.                    *)
(***************************************************************************)
Unsupported == [ok |-> FALSE, value |-> FALSE]

(* An operand: a literal, or the value of a parameter.                     *)
ExpressionValue(e, params) ==
  CASE DOMAIN e = {"literal"} -> [ok |-> TRUE, value |-> e.literal]
    [] DOMAIN e = {"param"} /\ e.param \notin {Blank, "5"} ->
         [ok |-> TRUE, value |-> Field(params, e.param, Undefined)]
    [] OTHER -> [ok |-> FALSE, value |-> Null]

LiteralBool(v) ==
  IF v.kind = "bool" THEN [ok |-> TRUE, value |-> v.is = "true"] ELSE Unsupported

Compare(e, params) ==
  LET left == ExpressionValue(e.left, params)
      right == ExpressionValue(e.right, params)
      equal == JsonValuesEqual(left.value, right.value)
  IN  [ok |-> left.ok /\ right.ok, value |-> IF e.op = "eq" THEN equal ELSE ~equal]

(* A mutant: what comes after the part that decides is not looked at.      *)
CombineShort(op, parts) ==
  [ok |-> \A i \in DOMAIN parts :
            parts[i].ok \/ \E j \in 1..(i - 1) : parts[j].ok /\ parts[j].value = (op = "or"),
   value |-> IF op = "and" THEN \A i \in DOMAIN parts : parts[i].value
             ELSE \E i \in DOMAIN parts : parts[i].value]

Combine(op, parts) ==
  [ok |-> \A i \in DOMAIN parts : parts[i].ok,
   value |-> IF op = "and" THEN \A i \in DOMAIN parts : parts[i].value
             ELSE \E i \in DOMAIN parts : parts[i].value]

(* The conditions a condition is made of.                                  *)
Operands(e) ==
  CASE Field(e, "op", Blank) \in {"and", "or"} /\ "args" \in DOMAIN e -> e.args
    [] Field(e, "op", Blank) = "not" /\ "arg" \in DOMAIN e -> <<e.arg>>
    [] OTHER -> <<>>

(* What a condition comes to, by what its operands come to.                *)
Evaluated(e, params, operands) ==
  LET op == Field(e, "op", Blank)
  IN  CASE DOMAIN e = {"(bool)"} -> [ok |-> TRUE, value |-> e["(bool)"] = "true"]
        [] DOMAIN e = {"literal"} -> LiteralBool(e.literal)
        [] op = "exists" /\ DOMAIN e = {"op", "param"} /\ e.param \notin {Blank, "5"} ->
             [ok |-> TRUE, value |-> e.param \in DOMAIN params]
        [] op \in {"eq", "ne"} /\ DOMAIN e = {"op", "left", "right"}
             /\ Odd \notin {e.left, e.right} -> Compare(e, params)
        [] op \in {"and", "or"} /\ DOMAIN e = {"op", "args"} /\ e.args \notin {<<>>, NoArray} ->
             Combine(op, operands)
        [] op = "not" /\ DOMAIN e = {"op", "arg"} ->
             [ok |-> operands[1].ok, value |-> ~operands[1].value]
        [] OTHER -> Unsupported

(* A bound: conditions are in one another four deep at most.               *)
FlatBool(e, params) ==
  Evaluated(e, params, [i \in DOMAIN Operands(e) |-> Unsupported])

NestedBool(e, params) ==
  Evaluated(e, params, [i \in DOMAIN Operands(e) |-> FlatBool(Operands(e)[i], params)])

TwiceNestedBool(e, params) ==
  Evaluated(e, params, [i \in DOMAIN Operands(e) |-> NestedBool(Operands(e)[i], params)])

ExpressionBool(e, params) ==
  Evaluated(e, params, [i \in DOMAIN Operands(e) |-> TwiceNestedBool(Operands(e)[i], params)])

(* A condition of a parameter; without one, the object is empty.           *)
ConditionOf(json, k) ==
  LET e == Field(json, k, NoFields)
  IN  IF DOMAIN e = {"(bool)"} THEN [literal |-> BoolValue(e["(bool)"])] ELSE e

Holds(e, params) == ExpressionBool(e, params).ok /\ ExpressionBool(e, params).value

(***************************************************************************)
(* Schemas.                                                                *)
(***************************************************************************)
ConfigSchemaType ==
  [Plain EXCEPT !.list = [parameters |-> "parameter", tables |-> "table",
                          documents |-> "document", files |-> "file"],
                !.block = {"metadata", "native"}, !.free = TRUE]

ParameterType ==
  [Plain EXCEPT !.text = {"id", "type", "required", "value_type"},
                !.must = {"id", "type"}, !.filled = {"id", "type"},
                !.checked = {"value_type"},
                !.enum = [required |-> Flags,
                          type |-> DOMAIN KindOf \cup {"int", "enum"}],
                !.free = TRUE]

TableType ==
  [Plain EXCEPT !.text = {"id", "allow_add_remove", "preserve_unknown_columns"},
                !.list = [columns |-> "column"], !.must = {"id"}, !.filled = {"id"},
                !.enum = [k \in {"allow_add_remove", "preserve_unknown_columns"} |-> Flags],
                !.free = TRUE]

ColumnType ==
  [Plain EXCEPT !.text = {"id", "type", "required"}, !.must = {"id", "type"},
                !.filled = {"id", "type"}, !.enum = [required |-> Flags], !.free = TRUE]

DocumentType ==
  [Plain EXCEPT !.text = {"id", "format", "output_path", "editable",
                          "preserve_unknown_fields"},
                !.must = {"id", "format"}, !.filled = {"id", "format"},
                !.checked = {"output_path"},
                !.enum = [editable |-> Flags, preserve_unknown_fields |-> Flags,
                          format |-> {"yaml", "json", "tcl", "xml", "ini", "text", "raw"}],
                !.free = TRUE]

FileType ==
  [Plain EXCEPT !.text = {"id", "kind", "required"}, !.must = {"id"}, !.filled = {"id"},
                !.checked = {"kind"}, !.enum = [required |-> Flags], !.free = TRUE]

ConfigTypes ==
  [t \in {"config schema", "parameter", "table", "column", "document", "file"} |->
     CASE t = "config schema" -> ConfigSchemaType
       [] t = "parameter" -> ParameterType
       [] t = "table" -> TableType
       [] t = "column" -> ColumnType
       [] t = "document" -> DocumentType
       [] t = "file" -> FileType]

Conditions == {"default_when", "visible_when", "enabled_when", "required_when"}

(* Each condition given can be evaluated, here for no parameters at all.   *)
ConditionsFit(p) ==
  \A k \in Conditions \cap DOMAIN p : p[k] # Odd /\ ExpressionBool(ConditionOf(p, k), NoFields).ok

EnumValueFits(valueType, v) ==
  IF valueType = "string" THEN v.kind = "text" ELSE IsInt64Value(v)

EnumFits(p) ==
  LET values == Field(p, "values", <<>>)
      valueType == Field(p, "value_type", Blank)
  IN  /\ values # NoArray
      /\ p.type = "enum" => /\ valueType \in {"string", "int64"}
                            /\ values # <<>>
                            /\ \A i \in DOMAIN values : EnumValueFits(valueType, values[i])

(* The three lists of a file's extensions, one after the other.            *)
AllowedExtensions(file) ==
  Field(file, "allowed_extensions", <<>>) \o Field(file, "allowed", <<>>)
    \o Field(file, "extensions", <<>>)

ExtensionsFit(file) ==
  \A i \in DOMAIN AllowedExtensions(file) :
    AllowedExtensions(file)[i] # NoArray[1] /\ AllowedExtensions(file)[i].kind = "text"

Entries(schema, section) == Field(schema, section, <<>>)

ConfigSections == DOMAIN ConfigSchemaType.list

SchemaReadable(schema) ==
  /\ Sound(ConfigTypes, "config schema", schema)
  /\ \A section \in ConfigSections : DistinctIds(Entries(schema, section))
  /\ \A p \in ToSet(Entries(schema, "parameters")) : ConditionsFit(p) /\ EnumFits(p)
  /\ \A file \in ToSet(Entries(schema, "files")) : ExtensionsFit(file)

(***************************************************************************)
(* Configs.  A section that is no object is read as an empty one.          *)
(***************************************************************************)
BundleOf(config) ==
  [section \in ConfigSections |->
     LET given == Field(config, section, NoFields) IN IF given = Odd THEN NoFields ELSE given]

ToJson(bundle) == [section \in {s \in DOMAIN bundle : bundle[s] # NoFields} |-> bundle[section]]

IsOn(json, k) == Field(json, k, "false") = "true"

Declared(schema, section) == IdsOf(Entries(schema, section))

ParameterRequired(p, params) ==
  \/ IsOn(p, "required")
  \/ ConditionOf(p, "required_when") # NoFields /\ Holds(ConditionOf(p, "required_when"), params)

InRange(p, v) ==
  LET range == Field(p, "range", NoFields)
      Given(k) == k \in DOMAIN range /\ range[k].kind = "number"
  IN  /\ Given("min") => Halves[v.is] >= Halves[range.min.is]
      /\ Given("max") => Halves[v.is] <= Halves[range.max.is]

ValueAccepted(p, v) ==
  IF p.type = "enum"
  THEN EnumValueFits(Field(p, "value_type", Blank), v) /\ EnumContains(Field(p, "values", <<>>), v)
  ELSE /\ IsValueTypeCompatible(p.type, v)
       /\ p.type = "path" => IsPathConfined(v.is)
       /\ p.type \in {"int", "double"} => InRange(p, v)

(* A condition that cannot be evaluated is an error of the config.         *)
ParameterFits(p, params) ==
  LET condition == ConditionOf(p, "required_when")
  IN  /\ condition # NoFields => ExpressionBool(condition, params).ok
      /\ IF p.id \in DOMAIN params THEN ValueAccepted(p, params[p.id])
         ELSE ~ParameterRequired(p, params)

(* A mutant: enums are checked and forgotten.                              *)
KeptParametersButEnums(schema, params) ==
  LET kept == {p \in ToSet(Entries(schema, "parameters")) :
                 p.type # "enum" /\ p.id \in DOMAIN params /\ ValueAccepted(p, params[p.id])}
  IN  [id \in {p.id : p \in kept} |-> params[id]]

KeptParameters(schema, params) ==
  LET kept == {p \in ToSet(Entries(schema, "parameters")) :
                 p.id \in DOMAIN params /\ ValueAccepted(p, params[p.id])}
  IN  [id \in {p.id : p \in kept} |-> params[id]]

(* Rows: columns that are declared, of their type, and the required ones;  *)
(* others as well if the table keeps them.                                 *)
ColumnsOf(table) == ToSet(Field(table, "columns", <<>>))

RowFits(table, row) ==
  /\ IsOn(table, "preserve_unknown_columns")
     \/ DOMAIN row \subseteq {c.id : c \in ColumnsOf(table)}
  /\ \A c \in ColumnsOf(table) :
       IF c.id \in DOMAIN row THEN IsValueTypeCompatible(c.type, row[c.id])
       ELSE ~IsOn(c, "required")

KeptRow(table, row) ==
  [k \in {c \in DOMAIN row : \/ IsOn(table, "preserve_unknown_columns")
                             \/ c \in {d.id : d \in ColumnsOf(table)}} |-> row[k]]

RowsOf(state) == Field(state, "rows", <<>>)

TableShaped(state) == state # Odd /\ RowsOf(state) # NoArray

TableFits(table, state) ==
  /\ TableShaped(state)
  /\ \A i \in DOMAIN RowsOf(state) : RowsOf(state)[i] # Odd /\ RowFits(table, RowsOf(state)[i])

(* The rows that are objects, in their order.                              *)
ObjectRows(rows) ==
  LET kept[n \in 0 .. Len(rows)] ==
        IF n = 0 THEN <<>>
        ELSE IF rows[n] = Odd THEN kept[n - 1] ELSE Append(kept[n - 1], rows[n])
  IN  kept[Len(rows)]

KeptTable(table, state) ==
  LET rows == ObjectRows(RowsOf(state))
  IN  [rows |-> [i \in DOMAIN rows |-> KeptRow(table, rows[i])]]

(* A document: its format, and its content if fields nobody knows are kept.*)
FormatOf(state) == LET f == Field(state, "format", Blank) IN IF f = "5" THEN Blank ELSE f

DocumentFits(document, state) ==
  state # Odd /\ FormatOf(state) \in {Blank, document.format}

KeptDocument(document, state) ==
  LET preserve == IsOn(document, "preserve_unknown_fields")
      format == IF FormatOf(state) = document.format THEN {"format"} ELSE {}
      content == IF "content" \in DOMAIN state /\ (preserve \/ state.content.kind = "object")
                 THEN {"content"} ELSE {}
  IN  [k \in format \cup content |->
         IF k = "content" /\ ~preserve THEN EmptyObject ELSE state[k]]

(* A file: where it is, inside the project and with an extension allowed.  *)
PathOf(state) == LET p == Field(state, "path", Blank) IN IF p = "5" THEN Blank ELSE p

PathAllowed(file, path) ==
  /\ IsPathConfined(path)
  /\ \/ AllowedExtensions(file) = <<>>
     \/ \E i \in DOMAIN AllowedExtensions(file) :
          Lowercase(AllowedExtensions(file)[i].is) = Lowercase(Suffix(path))

FileFits(file, state) ==
  /\ state # Odd
  /\ IF PathOf(state) = Blank THEN ~IsOn(file, "required") ELSE PathAllowed(file, PathOf(state))

FileKept(file, state) == state # Odd /\ PathOf(state) # Blank /\ PathAllowed(file, PathOf(state))

StateIn(bundle, section, id) == Field(bundle[section], id, NoFields)

(* Tables that are not declared are passed over; everything else that is   *)
(* not declared is an error.                                               *)
BundleValid(schema, bundle) ==
  LET In(section) == ToSet(Entries(schema, section))
      State(section, d) == StateIn(bundle, section, d.id)
  IN  /\ \A section \in ConfigSections \ {"tables"} :
           DOMAIN bundle[section] \subseteq Declared(schema, section)
      /\ \A p \in In("parameters") : ParameterFits(p, bundle.parameters)
      /\ \A t \in In("tables") : TableFits(t, State("tables", t))
      /\ \A d \in In("documents") : DocumentFits(d, State("documents", d))
      /\ \A f \in In("files") : FileFits(f, State("files", f))

(* What is kept of a config: whatever was found to be in order.            *)
Normalized(schema, bundle) ==
  LET Entry(section, id) == CHOOSE d \in ToSet(Entries(schema, section)) : d.id = id
      State(section, d) == StateIn(bundle, section, d.id)
      Kept(section, Test(_)) == {d.id : d \in {e \in ToSet(Entries(schema, section)) : Test(e)}}
      tables == Kept("tables", LAMBDA t : TableShaped(State("tables", t)))
      documents == Kept("documents", LAMBDA d : State("documents", d) # Odd)
      files == Kept("files", LAMBDA f : FileKept(f, State("files", f)))
  IN  [parameters |-> KeptParameters(schema, bundle.parameters),
       tables |-> [id \in tables |-> KeptTable(Entry("tables", id), StateIn(bundle, "tables", id))],
       documents |-> [id \in documents |->
                        KeptDocument(Entry("documents", id), StateIn(bundle, "documents", id))],
       files |-> [id \in files |-> [path |-> PathOf(StateIn(bundle, "files", id))]]]
=============================================================================
