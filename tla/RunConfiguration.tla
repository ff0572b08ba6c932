--------------------------- MODULE RunConfiguration ----------------------------
(***************************************************************************)
(* CreateRun of the C API: how what a C program asks for becomes the       *)
(* members of a request.  A C struct is the function of its pointers that  *)
(* are not NULL; its numbers are always there.  The arguments of a call    *)
(* are such a function too: "configuration", "parent", "tag", and          *)
(* "parameters", which are decoded in module Submission.                   *)
(***************************************************************************)
EXTENDS Integers, FiniteSets, Sequences

\* A member that is perhaps set, as the Opt types of the generated clients.
Opt(set, value) == [Set |-> set, Value |-> value]

Unset == [Set |-> FALSE]

\* What is set of a struct.
SetMembers(members) ==
  [name \in {n \in DOMAIN members : members[n].Set} |-> members[name].Value]

\* C.GoString of a pointer that may be NULL.
Text(c, field) == IF field \in DOMAIN c THEN c[field] ELSE ""

Limits == {"cpu_limit", "memory_limit"}
ResourceRequests == {"cpu_request", "memory_request"}

\* Exactly one of the two pointers is given.
Half(c, pair) == Cardinality(pair \intersect DOMAIN c) = 1

\* Mutation: the limits are copied and the copy not changed everywhere.
ResourcesCopied(c) == SetMembers([
  limits |-> Opt(Limits \subseteq DOMAIN c,
    [cpu |-> Text(c, "cpu_limit"), memory |-> Text(c, "memory_limit")]),
  requests |-> Opt(ResourceRequests \subseteq DOMAIN c,
    [cpu |-> Text(c, "cpu_limit"), memory |-> Text(c, "memory_request")])])

Resources(c) == SetMembers([
  limits |-> Opt(Limits \subseteq DOMAIN c,
    [cpu |-> Text(c, "cpu_limit"), memory |-> Text(c, "memory_limit")]),
  requests |-> Opt(ResourceRequests \subseteq DOMAIN c,
    [cpu |-> Text(c, "cpu_request"), memory |-> Text(c, "memory_request")])])

Workgroup(c) == [
  name |-> Text(c, "workgroup_name"),
  group |-> Text(c, "workgroup_group"),
  kind |-> Text(c, "workgroup_kind")]

\* No deadline is 0 or less; no number of retries is negative.
RuntimeEnvironment(c) == SetMembers([
  deadlineSeconds |-> Opt(c.deadline_seconds > 0, c.deadline_seconds),
  maximumRetries |-> Opt(c.maximum_retries >= 0, c.maximum_retries)])

Container(c) == SetMembers([
  versionTag |-> Opt("version" \in DOMAIN c, Text(c, "version"))])

\* There is a container even without a version; a name is what makes a
\* workgroup.
CustomSpec(c) == SetMembers([
  computeResources |-> Opt(DOMAIN Resources(c) # {}, Resources(c)),
  container |-> Opt(TRUE, Container(c)),
  runtimeEnvironment |-> Opt(c.deadline_seconds > 0 \/ c.maximum_retries >= 0,
                             RuntimeEnvironment(c)),
  workgroupRef |-> Opt("workgroup_name" \in DOMAIN c, Workgroup(c))])

ParentRequest(p) == [
  algorithmName |-> Text(p, "algorithm_name"),
  requestId |-> Text(p, "request_id")]

Halved(ask) ==
  "configuration" \in DOMAIN ask
    /\ (Half(ask.configuration, Limits)
        \/ Half(ask.configuration, ResourceRequests))

\* The request around the parameters, if nothing is halved.
Request(ask, parameters) == SetMembers([
  algorithmParameters |-> Opt(TRUE, parameters),
  customConfiguration |-> IF "configuration" \in DOMAIN ask
                            THEN Opt(TRUE, CustomSpec(ask.configuration))
                            ELSE Unset,
  parentRequest |-> IF "parent" \in DOMAIN ask
                      THEN Opt(TRUE, ParentRequest(ask.parent)) ELSE Unset,
  requestApiVersion |-> Opt(TRUE, "1.2"),
  tag |-> Opt("tag" \in DOMAIN ask, Text(ask, "tag"))])

-------------------------------------------------------------------------------
(* What a C program means, and where it is to be found.                    *)

Inside(values, name) ==
  {v[name] : v \in {w \in values : name \in DOMAIN w}}

\* What is to be found on a path of up to three names.
Found(v, path) ==
  LET one == Inside({v}, path[1])
      two == Inside(one, path[2])
  IN  CASE Len(path) = 1 -> one
        [] Len(path) = 2 -> two
        [] Len(path) = 3 -> Inside(two, path[3])

\* Where the configuration shows what a C program has asked for.
Place == [
  version |-> <<"container", "versionTag">>,
  workgroup_name |-> <<"workgroupRef", "name">>,
  workgroup_group |-> <<"workgroupRef", "group">>,
  workgroup_kind |-> <<"workgroupRef", "kind">>,
  cpu_limit |-> <<"computeResources", "limits", "cpu">>,
  memory_limit |-> <<"computeResources", "limits", "memory">>,
  cpu_request |-> <<"computeResources", "requests", "cpu">>,
  memory_request |-> <<"computeResources", "requests", "memory">>,
  deadline_seconds |-> <<"runtimeEnvironment", "deadlineSeconds">>,
  maximum_retries |-> <<"runtimeEnvironment", "maximumRetries">>]

\* A C struct CustomRunConfiguration: its numbers, and any of its pointers.
IsConfiguration(c) ==
  /\ {"deadline_seconds", "maximum_retries"} \subseteq DOMAIN c
  /\ DOMAIN c \subseteq DOMAIN Place
  /\ c.deadline_seconds \in Int
  /\ c.maximum_retries \in Int

\* A field of the configuration is meant if it is given; a deadline if it is
\* positive, a number of retries if it is not negative, and a group or a kind
\* only together with the name of a workgroup.
Meant(c, field) ==
  CASE field = "deadline_seconds" -> {n \in {c[field]} : n > 0}
    [] field = "maximum_retries" -> {n \in {c[field]} : n >= 0}
    [] field \in {"workgroup_group", "workgroup_kind"} ->
         IF "workgroup_name" \in DOMAIN c THEN {Text(c, field)} ELSE {}
    [] OTHER -> {c[x] : x \in {field} \intersect DOMAIN c}
===============================================================================
