---------------------------- MODULE JsonRecords ----------------------------
(***************************************************************************)
(* Records kept as JSON objects, described by a schema: what each field    *)
(* holds, what a reader insists on and what a writer leaves out.           *)
(*                                                                         *)
(* A JSON object is a function from the names of its fields.  What a field *)
(* holds is one of                                                         *)
(*   text   a string; "" stands for every blank one, "5" for what is none; *)
(*   block  an object nobody looks into: "{}", "{..}", or "5";             *)
(*   map    an object whose entries matter, or Odd;                        *)
(*   list   an array of objects, or NoArray;                               *)
(*   part   an object with a schema of its own, or Odd.                    *)
(*                                                                         *)
(* A type of a schema says for its fields which hold what, and which are   *)
(* must (the reader wants them there), filled (given, they are texts that  *)
(* are not blank), checked (given, they are texts), one of the texts of    *)
(* enum, pairs (lists of two or more) and always (written even when        *)
(* empty); defaults are read for texts that are missing.  An object of a   *)
(* whole type is checked and kept as it is, one of a free type may have    *)
(* other fields as well.  variants refines a type by the text of a field   *)
(* named schema.                                                           *)
(***************************************************************************)
EXTENDS Naturals, Sequences, SequencesExt

NoFields == [k \in {} |-> ""]

Odd == [k \in {"(odd)"} |-> "5"]

NoArray == << [k \in {"(no array)"} |-> "5"] >>

Plain ==
  [text |-> {}, block |-> {}, map |-> {}, list |-> NoFields, part |-> NoFields,
   must |-> {}, filled |-> {}, checked |-> {}, enum |-> NoFields, pairs |-> {},
   always |-> {}, defaults |-> NoFields,
   whole |-> FALSE, free |-> FALSE, variants |-> NoFields]

FieldsOf(s) == s.text \cup s.block \cup s.map \cup DOMAIN s.list \cup DOMAIN s.part

Variant(schema, type, json) ==
  LET refined == schema[type].variants
  IN  IF "schema" \in DOMAIN json /\ json.schema \in DOMAIN refined
      THEN refined[json.schema] ELSE type

(* An object with what it is by the schema and where it is.                *)
Part(path, type, json) == <<path, type, json>>
PartType(schema, part) == schema[Variant(schema, part[2], part[3])]
JsonOf(part) == part[3]

(* The fields the reader asks for are there, and none it does not know.    *)
KnownFields(s, json) ==
  /\ s.free \/ DOMAIN json \subseteq FieldsOf(s)
  /\ s.must \subseteq DOMAIN json

(* The objects that are fields of one, or entries of its lists; one with   *)
(* other fields than its type has is not looked into.                      *)
PartsOf(schema, part) ==
  LET s == PartType(schema, part)
      json == JsonOf(part)
      Given(fields) == fields \cap DOMAIN json
  IN  IF ~KnownFields(s, json) THEN {}
      ELSE (UNION {{Part(part[1] \o <<k, i>>, s.list[k], json[k][i]) : i \in DOMAIN json[k]} :
                     k \in Given(DOMAIN s.list)})
           \cup {Part(part[1] \o <<k, 0>>, s.part[k], json[k]) : k \in Given(DOMAIN s.part)}

(* The object itself and those in it.  A bound: the objects of a schema    *)
(* are in one another five deep at most.                                   *)
AllParts(schema, type, json) ==
  LET Inside(parts) == UNION {PartsOf(schema, p) : p \in parts}
      first == Inside({Part(<<>>, type, json)})
      second == Inside(first)
      third == Inside(second)
  IN  {Part(<<>>, type, json)} \cup first \cup second \cup third \cup Inside(third)

TextsFit(s, json) ==
  LET Given(fields) == fields \cap DOMAIN json
  IN  /\ \A k \in Given(s.filled) : json[k] \notin {"", "5"}
      /\ \A k \in Given(s.checked) : json[k] # "5"
      /\ \A k \in Given(DOMAIN s.enum) : json[k] \in s.enum[k]

(* What its fields hold is of the kind the reader wants.                   *)
Shaped(s, json) ==
  LET Given(fields) == fields \cap DOMAIN json
  IN  /\ \A k \in Given(s.block) : json[k] # "5"
      /\ \A k \in Given(s.map \cup DOMAIN s.part) : json[k] # Odd
      /\ \A k \in Given(s.pairs) : Len(json[k]) >= 2
      /\ \A k \in Given(DOMAIN s.list) :
           \A i \in DOMAIN json[k] : json[k][i] \notin {Odd, NoArray[1]}

(* The object, and each in it, passes the reader's checks of its shape.    *)
Sound(schema, type, json) ==
  \A part \in AllParts(schema, type, json) :
    LET s == PartType(schema, part)
    IN  KnownFields(s, JsonOf(part)) /\ TextsFit(s, JsonOf(part)) /\ Shaped(s, JsonOf(part))
=============================================================================
