------------------------------ MODULE ToolSchema ------------------------------
(***************************************************************************)
(* The subset of JSON Schema of internal/tool: which schemas a tool may be *)
(* registered with, and which inputs its handler is given.                 *)
(*                                                                         *)
(* A schema node has the seven keywords of schemaNode but the description; *)
(* "unknown" says that it has some other keyword (or is no schema at all). *)
(* A JSON value has a kind, and fields, elems or an atom according to it.  *)
(***************************************************************************)
EXTENDS Naturals, Sequences, SequencesExt

CONSTANT Depth  \* how deep encoding/json lets a document nest, 10000

(* type: "" when there is none; closed: additionalProperties is false;       *)
(* items: at most one schema; enum: the allowed values, none if empty.       *)
Node(type) ==
    [type |-> type, required |-> {}, props |-> <<>>, closed |-> FALSE,
     items |-> {}, enum |-> {}, unknown |-> FALSE]

Value(kind, fields, elems, atom) ==
    [kind |-> kind, fields |-> fields, elems |-> elems, atom |-> atom]

(* What an omitted or blank input stands for (normalizeInput). *)
Blank == Value("blank", <<>>, <<>>, "")
NoFields == Value("object", <<>>, <<>>, "")
Normalized(input) == IF input = Blank THEN NoFields ELSE input

-----------------------------------------------------------------------------
(* Walks through a schema, or a schema and a value.                          *)

Properties(s) == {s.props[name] : name \in DOMAIN s.props}

(* The parts of a value with the nodes that speak of them. *)
Fields(s, v) ==
    {<<s.props[name], v.fields[name]>> : name \in DOMAIN s.props \cap DOMAIN v.fields}
Elements(s, v) == s.items \X ToSet(v.elems)

(* Variant of Judged that looks at the properties that are required only. *)
JudgedRequired(s, v) ==
    {p \in Fields(s, v) : s.type = "object" /\ \E name \in s.required \cap DOMAIN s.props :
                                                p = <<s.props[name], v.fields[name]>>}
    \cup {p \in Elements(s, v) : s.type = "array"}

(* What validateValue goes on to: the properties count under "type":         *)
(* "object" only, the items under "type": "array".                           *)
Judged(s, v) ==
    {p \in Fields(s, v) : s.type = "object"} \cup {p \in Elements(s, v) : s.type = "array"}

(* Each walk with what it finds below x: a node, or a pair of node and value. *)
Below(walk, x) ==
    CASE walk = "properties" -> Properties(x)
      [] walk = "nodes" -> Properties(x) \cup x.items
      [] walk = "judged" -> Judged(x[1], x[2])
      [] walk = "parts" -> Fields(x[1], x[2]) \cup Elements(x[1], x[2])

(* What a walk from x finds n steps down, and at any depth. *)
Level(walk, x, n) ==
    LET level[k \in Nat] ==
          IF k = 0 THEN {x} ELSE UNION {Below(walk, y) : y \in level[k-1]}
    IN  level[n]

Walk(walk, x) == UNION {Level(walk, x, n) : n \in 0..Depth}

-----------------------------------------------------------------------------
(* unmarshalSchema: no keyword it does not know, in the node and in its      *)
(* properties.  It does not look into the items.                             *)
WellFormed(s) == \A node \in Walk("properties", s) : ~node.unknown

(* Definition.Validate; "complete": a good name, a description, a handler. *)
Valid(def) ==
    /\ def.complete
    /\ WellFormed(def.schema)
    /\ def.schema.type = "object"

(* A type that is not one of these matches no value. *)
KindsOf ==
    [object |-> {"object"}, array |-> {"array"}, string |-> {"string"},
     boolean |-> {"boolean"}, null |-> {"null"}, integer |-> {"integer"},
     number |-> {"integer", "fraction"}]

TypeMatches(type, v) ==
    \/ type \in {"", "any"}
    \/ type \in DOMAIN KindsOf /\ v.kind \in KindsOf[type]

FieldsFit(s, v) ==
    /\ s.required \subseteq DOMAIN v.fields
    /\ s.closed => DOMAIN v.fields \subseteq DOMAIN s.props

(* validateValue, at one node: the keywords for objects count under "type":  *)
(* "object" only.                                                            *)
Fits(s, v) ==
    /\ WellFormed(s)
    /\ TypeMatches(s.type, v)
    /\ s.enum # {} => v \in s.enum
    /\ s.type = "object" => FieldsFit(s, v)

Validates(s, v) == \A p \in Walk("judged", <<s, v>>) : Fits(p[1], p[2])

(* Registry.Invoke up to the handler. *)
Accepts(schema, input) == Validates(schema, Normalized(input))

-----------------------------------------------------------------------------
(* The reference: what the keywords say of a value, whatever "type" there is. *)

Satisfies(s, v) ==
    /\ TypeMatches(s.type, v)
    /\ s.enum = {} \/ v \in s.enum
    /\ v.kind = "object" => FieldsFit(s, v)

Conforms(s, v) == \A p \in Walk("parts", <<s, v>>) : Satisfies(p[1], p[2])

(* The schemas whose keywords for objects and arrays stand under that type,  *)
(* and those of them that have known keywords only.                          *)
Typed(s) ==
    \A node \in Walk("nodes", s) :
        /\ node.required # {} \/ DOMAIN node.props # {} \/ node.closed
              => node.type = "object"
        /\ node.items # {} => node.type = "array"

Plain(s) == Typed(s) /\ \A node \in Walk("nodes", s) : ~node.unknown
===============================================================================
