---------------------------- MODULE ArgumentSchema ----------------------------
(***************************************************************************)
(* Validation of the arguments of an MCP call against the schema in the     *)
(* tool's registration (action/mcp_registry.py).  A JSON value is a record  *)
(* of its type and content: the fields of an object, the items of an array, *)
(* the value of anything else.  A schema is a record of the keywords that   *)
(* the validator knows; a keyword that is absent constrains nothing.        *)
(***************************************************************************)
EXTENDS Integers, Sequences

Json(type, content) == [type |-> type, content |-> content]

(* A schema without any keyword: the empty mapping. *)
AnySchema ==
  [types |-> {}, enum |-> <<>>, const |-> <<>>, required |-> {}, properties |-> <<>>,
   closed |-> FALSE, items |-> <<>>]

(* The keyword properties, as a function from names to schemas. *)
PropertySchema(schema, name) ==
  IF name \in DOMAIN schema.properties THEN schema.properties[name] ELSE AnySchema

(* _matches_schema_type: an integer is a number, a boolean is not.          *)
MatchesType(value, type) ==
  value.type = type \/ (type = "number" /\ value.type = "integer")

RECURSIVE ValueViolates(_, _)

(* _object_schema_violation *)
ObjectViolates(fields, schema) ==
  \/ ~(schema.required \subseteq DOMAIN fields)
  \/ schema.closed /\ ~(DOMAIN fields \subseteq DOMAIN schema.properties)
  \/ \E name \in DOMAIN fields :
       LET property == PropertySchema(schema, name)
       IN  property # AnySchema /\ ValueViolates(fields[name], property)

(* _value_schema_violation and _array_schema_violation.  enum holds the set *)
(* of allowed values, and const the only one, if the keyword is there.      *)
ValueViolates(value, schema) ==
  \/ schema.types # {} /\ \A type \in schema.types : ~MatchesType(value, type)
  \/ schema.enum # <<>> /\ value \notin schema.enum[1]
  \/ schema.const # <<>> /\ value # schema.const[1]
  \/ value.type = "object" /\ ObjectViolates(value.content, schema)
  \/ /\ value.type = "array"
     /\ schema.items # <<>>
     /\ \E i \in DOMAIN value.content : ValueViolates(value.content[i], schema.items[1])
=============================================================================
