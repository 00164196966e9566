----------------------------- MODULE JsonForms -----------------------------
(***************************************************************************)
(* What readers make of the JSON objects JsonRecords describes, and what   *)
(* writers make of what they read.                                         *)
(***************************************************************************)
EXTENDS JsonRecords

RECURSIVE Read(_, _, _), Write(_, _, _), Spoiled(_, _, _)

(* What a sound object is read as: every field of its type, one that is    *)
(* missing as an empty one, and a text that is none as a blank.            *)
Read(schema, type, json) ==
  LET s == schema[Variant(schema, type, json)]
      Given(k) == k \in DOMAIN json
      Missing(k) == IF k \in DOMAIN s.defaults THEN s.defaults[k] ELSE ""
  IN  IF s.whole \/ s.free THEN json
      ELSE [k \in FieldsOf(s) |->
              CASE k \in s.text  -> IF ~Given(k) THEN Missing(k)
                                    ELSE IF json[k] = "5" THEN "" ELSE json[k]
                [] k \in s.block -> IF Given(k) THEN json[k] ELSE "{}"
                [] k \in s.map   -> IF Given(k) THEN json[k] ELSE NoFields
                [] k \in DOMAIN s.list ->
                     IF Given(k) THEN [i \in DOMAIN json[k] |-> Read(schema, s.list[k], json[k][i])]
                     ELSE <<>>
                [] k \in DOMAIN s.part ->
                     Read(schema, s.part[k], IF Given(k) THEN json[k] ELSE NoFields)]

(* The object written for a record: what is empty is left out.             *)
Nonempty(s, value, k) ==
  CASE k \in s.text  -> value[k] # ""
    [] k \in s.block -> value[k] # "{}"
    [] k \in s.map   -> DOMAIN value[k] # {}
    [] k \in DOMAIN s.list -> value[k] # <<>>
    [] OTHER -> TRUE

Write(schema, type, value) ==
  LET s == schema[Variant(schema, type, value)]
  IN  IF s.whole \/ s.free THEN value
      ELSE [k \in {f \in FieldsOf(s) : f \in s.always \/ Nonempty(s, value, f)} |->
              IF k \in DOMAIN s.list
              THEN [i \in DOMAIN value[k] |-> Write(schema, s.list[k], value[k][i])]
              ELSE IF k \in DOMAIN s.part THEN Write(schema, s.part[k], value[k])
              ELSE value[k]]

(* The object with one field, of its own or of an object in it, missing,   *)
(* blank, of another type or unknown to the schema.                        *)
Spoiled(schema, type, json) ==
  LET s == schema[Variant(schema, type, json)]
      Put(k, v) == [json EXCEPT ![k] = v]
      Here(fields) == fields \cap DOMAIN json
  IN  {[f \in DOMAIN json \ {k} |-> json[f]] : k \in DOMAIN json}
      \cup {[f \in DOMAIN json \cup {"(unknown)"} |-> IF f \in DOMAIN json THEN json[f] ELSE "5"]}
      \cup {Put(k, v) : k \in Here(s.text), v \in {"", "5"}}
      \cup {Put(k, v) : k \in Here(s.block), v \in {"{}", "5"}}
      \cup {Put(k, v) : k \in Here(s.map \cup DOMAIN s.part), v \in {NoFields, Odd}}
      \cup {Put(k, v) : k \in Here(DOMAIN s.list), v \in {<<>>, NoArray, <<Odd>>}}
      \cup UNION {UNION {{Put(k, [json[k] EXCEPT ![i] = item]) :
                            item \in Spoiled(schema, s.list[k], json[k][i])} :
                    i \in DOMAIN json[k]} : k \in Here(DOMAIN s.list)}
      \cup UNION {{Put(k, item) : item \in Spoiled(schema, s.part[k], json[k])} :
                    k \in Here(DOMAIN s.part)}
=============================================================================
