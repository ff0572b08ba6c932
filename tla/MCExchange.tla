------------------------------- MODULE MCExchange ------------------------------
(***************************************************************************)
(* Bounded instance of Exchange.  Of each type there are the full value,   *)
(* with everything set, its skeleton, with the objects in it and nothing   *)
(* else, and the values that differ from the full one in one place.        *)
(***************************************************************************)
EXTENDS Exchange, Codec

RECURSIVE Full(_)
Full(type) ==
  CASE type.kind = "string" -> "text"
    [] type.kind = "enum" -> CHOOSE mode \in type.values : TRUE
    [] type.kind = "integer" -> 3
    [] type.kind = "boolean" -> TRUE
    [] type.kind = "raw" -> JArray(<<JNumber(1), JNull>>)
    [] type.kind = "array" -> <<Full(type.elem)>>
    [] type.kind = "map" -> "cpu" :> Full(type.elem)
    [] type.kind = "struct" ->
         [name \in DOMAIN type.fields |-> Full(type.fields[name])]

RECURSIVE Skeleton(_)
Skeleton(type) ==
  CASE type.kind = "struct" ->
         [name \in {n \in DOMAIN type.fields :
                      n \in type.required \/ type.fields[n].kind \in Objects}
            |-> Skeleton(type.fields[name])]
    [] type.kind \in {"map", "array"} -> <<>>
    [] OTHER -> Full(type)

MCSamples(type) == {Full(type), Skeleton(type)}

Without(v, name) == [n \in DOMAIN v \ {name} |-> v[n]]

RECURSIVE OneOff(_)
OneOff(type) ==
  CASE type.kind = "string" -> {""}
    [] type.kind = "enum" -> type.values \union {"Unheard"}
    [] type.kind = "integer" -> {0}
    [] type.kind = "boolean" -> {FALSE}
    [] type.kind = "raw" -> {JNull, JObject(<<>>)}
    [] type.kind = "array" ->
         {<<>>, <<Full(type.elem), Full(type.elem)>>} \union
         {<<Full(type.elem), v>> : v \in OneOff(type.elem)}
    [] type.kind = "map" ->
         {<<>>} \union
         {"cpu" :> Full(type.elem) @@ "gpu" :> v : v \in OneOff(type.elem)}
    [] type.kind = "struct" ->
         {Without(Full(type), name) : name \in DOMAIN type.fields \ type.required}
         \union
         UNION {{[Full(type) EXCEPT ![name] = v] : v \in OneOff(type.fields[name])} :
                  name \in DOMAIN type.fields}

RECURSIVE TypesIn(_)
TypesIn(type) == {type} \union UNION {TypesIn(part) : part \in PartTypes(type)}

MCTypes == UNION {TypesIn(Body[name]) : name \in DOMAIN Body}

RECURSIVE DepthOf(_)
DepthOf(type) == Max({0} \union {1 + DepthOf(part) : part \in PartTypes(type)})

MCDepth == [type \in MCTypes |-> DepthOf(type)]

ValuesOf == [type \in MCTypes |-> MCSamples(type) \union OneOff(type)]
MCValues(type) == ValuesOf[type]

-------------------------------------------------------------------------------
(* What is done or asked at every level of a body.                         *)

RECURSIVE ChangedSomewhere(_, _, _)
ChangedSomewhere(how, type, j) ==
  ChangedHere(how, type, j) \union
  UNION {{Put(j, i, new) :
            new \in ChangedSomewhere(how, ItemType(type, j, i), Item(j, i))} :
         i \in Items(type, j)}

RECURSIVE KnownModesOnly(_, _)
KnownModesOnly(type, v) ==
  /\ type.kind = "enum" => v \in type.values
  /\ \A x \in Parts(type, v) :
       Knows(type, x) => KnownModesOnly(Member(type, x), v[x])

-------------------------------------------------------------------------------
(* What C programs ask for.                                                *)

Pointers == [
  version |-> "v1", workgroup_name |-> "shared", workgroup_group |-> "science",
  workgroup_kind |-> "Workgroup", cpu_limit |-> "1", memory_limit |-> "2Gi",
  cpu_request |-> "2", memory_request |-> "1Gi"]

Configurations ==
  {[field \in given |-> Pointers[field]]
     @@ [deadline_seconds |-> deadline, maximum_retries |-> retries] :
     given \in SUBSET DOMAIN Pointers,
     deadline \in {-1, 0, 1}, retries \in {-1, 0, 1}}

\* Parameters with a name that comes twice, none, and a text that is no object.
Parameters == {
  JObject(<< <<"a", JNumber(1)>>, <<"b", JNull>>, <<"a", JString("x")>> >>),
  JObject(<<>>),
  JArray(<<>>)}

MCAsks ==
  {[parameters |-> JObject(<<>>), configuration |-> c] : c \in Configurations}
  \union
  {SetMembers([parameters |-> Opt(p # JNull, p),
               tag |-> Opt(tagged, "nightly"),
               parent |-> Opt(child, [algorithm_name |-> "algorithm",
                                      request_id |-> "id"])]) :
     p \in {JNull} \union Parameters, tagged \in BOOLEAN, child \in BOOLEAN}
===============================================================================
