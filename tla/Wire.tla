---------------------------------- MODULE Wire ---------------------------------
(***************************************************************************)
(* What the generated clients do with the types of module Schemas, at one  *)
(* level of a body: how a value is written when its parts are, how a       *)
(* document is read when the items in it are, and what Validate visits.    *)
(* The recursion from level to level is in module Codec.                   *)
(*                                                                         *)
(* A JSON value is a record whose field "json" tells its kind; an object   *)
(* is a sequence of members, for a name may come twice.  A Go struct or    *)
(* map is the function of what is set in it: an optional field that is     *)
(* not set, or an array that is nil, is not in its domain.  What is read   *)
(* is the set of the one value, empty for an error.                        *)
(***************************************************************************)
EXTENDS Schemas, Integers, Sequences, FiniteSets, FiniteSetsExt

CONSTANTS
  Order(_),           \* the elements of a finite set, in some order
  Encoded(_, _),      \* the document that a value of a type is encoded as
  Decoded(_, _)       \* what a document is decoded as, for a type

JNull == [json |-> "null"]
JString(s) == [json |-> "string", s |-> s]
JNumber(n) == [json |-> "number", n |-> n]
JBoolean(b) == [json |-> "boolean", b |-> b]
JArray(a) == [json |-> "array", a |-> a]
JObject(o) == [json |-> "object", o |-> o]

Objects == {"map", "struct"}
Kinds ==
  {"string", "enum", "integer", "boolean", "raw", "array"} \union Objects

\* Whether a part of that name (or at that index) is one of the type.
Knows(type, name) == type.kind = "struct" => name \in DOMAIN type.fields

Member(type, name) ==
  IF type.kind = "struct" THEN type.fields[name] ELSE type.elem

-------------------------------------------------------------------------------
(* Encoding.  The order of the members is of no importance to a decoder.   *)

\* Mutation: a set value that is zero is left out, as omitempty does.
PartsNonZero(type, v) ==
  IF type.kind \in Objects \union {"array"}
    THEN {x \in DOMAIN v : type.kind = "struct" =>
            (type.fields[x].kind = "integer" => v[x] # 0)}
    ELSE {}

\* The parts of a value that are written: all that are set.
Parts(type, v) ==
  IF type.kind \in Objects \union {"array"} THEN DOMAIN v ELSE {}

\* The document of v whose parts, in that order, are documents already.
Written(type, v, order, parts) ==
  CASE type.kind \in {"string", "enum"} -> JString(v)
    [] type.kind = "integer" -> JNumber(v)
    [] type.kind = "boolean" -> JBoolean(v)
    [] type.kind = "raw" -> v
    [] type.kind = "array" -> JArray(parts)
    [] type.kind \in Objects ->
         JObject([k \in DOMAIN order |-> <<order[k], parts[order[k]]>>])

-------------------------------------------------------------------------------
(* Decoding.                                                               *)

\* The places in a document that are read: a member the type does not know is
\* skipped.
Items(type, j) ==
  CASE type.kind = "array" /\ j.json = "array" -> DOMAIN j.a
    [] type.kind \in Objects /\ j.json = "object" ->
         {i \in DOMAIN j.o : Knows(type, j.o[i][1])}
    [] OTHER -> {}

Item(j, i) == IF j.json = "array" THEN j.a[i] ELSE j.o[i][2]

ItemType(type, j, i) ==
  IF j.json = "array" THEN type.elem ELSE Member(type, j.o[i][1])

\* Every value of a sequence, or an error if one of them is.
AllOf(results) ==
  IF \E i \in DOMAIN results : results[i] = {}
    THEN {}
    ELSE {[i \in DOMAIN results |-> CHOOSE v \in results[i] : TRUE]}

\* A map that is required.
Gathers(type, name) ==
  type.kind = "struct" /\ name \in type.required
    /\ Member(type, name).kind = "map"

\* Mutation: the first of several members counts.
FirstMember(type, name, given) == given[Min(DOMAIN given)]

\* Of the values given in several places for one name the last one counts, for
\* an optional field is reset before it is read, and a map has one value for a
\* key.  The one map that is required is not reset: it gathers the keys of all.
Kept(type, name, given) ==
  IF Gathers(type, name)
    THEN [key \in UNION {DOMAIN given[i] : i \in DOMAIN given} |->
            given[Max({i \in DOMAIN given : key \in DOMAIN given[i]})][key]]
    ELSE given[Max(DOMAIN given)]

\* Mutation: a member that cannot be read is passed over.
AssembleWhatFits(type, o, results) ==
  LET good == {i \in DOMAIN results : results[i] # {}}
  IN  {[name \in {o[i][1] : i \in good} |->
         LET i == CHOOSE k \in good : o[k][1] = name
         IN  CHOOSE v \in results[i] : TRUE]}

\* results[i] is what the member in place i is read as.
AssembleObject(type, o, results) ==
  LET names == {o[i][1] : i \in DOMAIN results}
      Given(name) == [i \in {k \in DOMAIN results : o[k][1] = name} |->
                        CHOOSE v \in results[i] : TRUE]
  IN  IF \/ \E i \in DOMAIN results : results[i] = {}
         \/ type.kind = "struct" /\ ~(type.required \subseteq names)
        THEN {}
        ELSE {[name \in names |-> Kept(type, name, Given(name))]}

\* What a document is read as, results[i] being what the item in place i is.
ReadFrom(type, j, results) ==
  CASE type.kind \in {"string", "enum"} ->
         IF j.json = "string" THEN {j.s} ELSE {}
    [] type.kind = "integer" -> IF j.json = "number" THEN {j.n} ELSE {}
    [] type.kind = "boolean" -> IF j.json = "boolean" THEN {j.b} ELSE {}
    [] type.kind = "raw" -> {j}
    [] type.kind = "array" ->
         IF j.json = "array" THEN AllOf(results) ELSE {}
    [] type.kind \in Objects ->
         IF j.json = "object" THEN AssembleObject(type, j.o, results) ELSE {}

-------------------------------------------------------------------------------
(* Validation: the Validate methods, which visit the fields that may hold  *)
(* an enumeration.                                                         *)

ValidIfSet(v, name, Valid(_)) == name \in DOMAIN v => Valid(v[name])

ValidMountPropagation(mode) == mode \in V1MountPropagationMode.values
ValidRecursiveReadOnly(mode) == mode \in V1RecursiveReadOnlyMode.values
ValidPayloadSerialization(mode) == mode \in V1PayloadSerializationMode.values

ValidVolumeMount(mount) ==
  /\ ValidIfSet(mount, "mountPropagation", ValidMountPropagation)
  /\ ValidIfSet(mount, "recursiveReadOnly", ValidRecursiveReadOnly)

ValidConfigurationFileMounts(mounts) ==
  \A key \in DOMAIN mounts : ValidVolumeMount(mounts[key])
ValidSecretFileMounts(mounts) ==
  \A key \in DOMAIN mounts : ValidVolumeMount(mounts[key])
ValidStorageMounts(mounts) ==
  \A key \in DOMAIN mounts : ValidVolumeMount(mounts[key])

\* Mutation: the mounts of secrets are not visited.
ValidRuntimeButSecrets(environment) ==
  /\ ValidIfSet(environment, "configurationFileMounts",
                ValidConfigurationFileMounts)
  /\ ValidIfSet(environment, "storageMounts", ValidStorageMounts)

ValidRuntimeEnvironment(environment) ==
  /\ ValidIfSet(environment, "configurationFileMounts",
                ValidConfigurationFileMounts)
  /\ ValidIfSet(environment, "secretFileMounts", ValidSecretFileMounts)
  /\ ValidIfSet(environment, "storageMounts", ValidStorageMounts)

ValidPayloadConfiguration(configuration) ==
  ValidIfSet(configuration, "payloadSerializationMode",
             ValidPayloadSerialization)

ValidSpec(spec) ==
  /\ ValidIfSet(spec, "payloadConfiguration", ValidPayloadConfiguration)
  /\ ValidIfSet(spec, "runtimeEnvironment", ValidRuntimeEnvironment)

ValidAlgorithmRequest(request) ==
  ValidIfSet(request, "customConfiguration", ValidSpec)

ValidCheckpointedRequest(request) ==
  /\ ValidIfSet(request, "applied_configuration", ValidSpec)
  /\ ValidIfSet(request, "configuration_overrides", ValidSpec)
===============================================================================
