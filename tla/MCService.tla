------------------------------- MODULE MCService -------------------------------
(* Small instances of Service for TLC. *)
EXTENDS Service, TLC

CONSTANTS c1, c2, c3, c4, c5

MCTenantOf == [c \in Callers |-> IF c \in {c4, c5} THEN "free" ELSE "metered"]
MCQuota == [metered |-> [requests |-> 2, tokens |-> 3, cost |-> 0]]
MCAsks == {[tokens |-> 1, cost |-> 1], [tokens |-> 2, cost |-> 1]}

(* Inputs: blank, not an object, objects with no field, another one or field *)
(* f, which holds an atom, an array of at most one atom or an object.        *)
Atoms == {Value("string", <<>>, <<>>, "a"), Value("string", <<>>, <<>>, "b"),
          Value("integer", <<>>, <<>>, "1"), Value("fraction", <<>>, <<>>, "1.5"),
          Value("boolean", <<>>, <<>>, "true"), Value("null", <<>>, <<>>, "")}
Object(name, v) == Value("object", name :> v, <<>>, "")
Inner ==
    Atoms \cup {NoFields, Value("array", <<>>, <<>>, "")}
          \cup {Value("array", <<>>, <<v>>, "") : v \in Atoms}
          \cup {Object("f", v) : v \in Atoms}
MCInputs ==
    {Blank, NoFields} \cup {Object("f", v) : v \in Inner}
    \cup {Object("g", v) : v \in Atoms} \cup {Value("array", <<>>, <<>>, "")}

Types == {"", "any", "string", "integer", "number", "boolean", "null", "object",
          "array", "date"}
Leaf ==
    {Node(type) : type \in Types}
    \cup {[Node("string") EXCEPT !.enum = {Value("string", <<>>, <<>>, "a")}],
          [Node("string") EXCEPT !.unknown = TRUE]}
Child ==
    Leaf \cup {[Node("array") EXCEPT !.items = {s}] : s \in Leaf}
         \cup {[Node("") EXCEPT !.items = {s}] : s \in Leaf}
         \cup {[Node("object") EXCEPT !.props = ("f" :> s), !.required = {"f"}] : s \in Leaf}
         \cup {[Node("") EXCEPT !.props = ("f" :> s)] : s \in Leaf}
Root ==
    {[Node("object") EXCEPT !.props = ("f" :> s)] : s \in Child}
    \cup {[Node("object") EXCEPT !.props = ("f" :> s), !.required = {"f"}, !.closed = TRUE] :
              s \in Leaf}

Tool(name, schema) == [name |-> name, schema |-> schema, complete |-> TRUE]
Echo == Tool("echo", [Node("object") EXCEPT !.required = {"f"}])
EchoAny == Tool("echo", Node("object"))
Unusable == {[Echo EXCEPT !.name = "other", !.complete = FALSE],
             [Echo EXCEPT !.name = "other", !.schema.type = "string"]}

Base == [asking |-> {}, agents |-> {}, mayEnd |-> {}, sinks |-> <<>>, catalog |-> {}, inputs |-> {},
         rounds |-> 0, faults |-> 0, until |-> 0]

(* A minute and more, the callers of one tenant. *)
OverTime == [Base EXCEPT !.asking = {c1, c2, c3}, !.mayEnd = {c1}, !.until = 3]

(* Three callers, two slots, one sink. *)
Watched ==
    [Base EXCEPT !.asking = {c1, c4, c5}, !.agents = {c4, c5}, !.mayEnd = {c4},
                 !.sinks = <<"channel">>]

(* Two sinks, one of which may fail once. *)
TwoSinks ==
    {[Base EXCEPT !.asking = {c4, c5}, !.agents = {c4, c5}, !.mayEnd = {c4},
                  !.sinks = <<"remote", "channel">>, !.faults = 1],
     [Base EXCEPT !.asking = {c4}, !.agents = {c4}, !.mayEnd = {c4},
                  !.sinks = <<"channel", "remote">>, !.faults = 1]}

(* Tool calls, two tools of one name. *)
WithTools ==
    [Base EXCEPT !.asking = {c4}, !.agents = {c4}, !.sinks = <<"remote", "channel">>,
                 !.rounds = 1, !.faults = 1, !.catalog = {Echo, EchoAny} \cup Unusable,
                 !.inputs = {Blank, Object("f", NoFields)}]

(* Every schema and every input. *)
Schemas ==
    {[Base EXCEPT !.asking = {c4}, !.agents = {c4}, !.rounds = 1,
                  !.catalog = {Tool("echo", s)}, !.inputs = MCInputs] : s \in Root}

MCScenarios == {OverTime, Watched, WithTools} \cup TwoSinks \cup Schemas
===============================================================================
