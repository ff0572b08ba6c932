------------------------- MODULE RunConfiguration_proofs -----------------------
(***************************************************************************)
(* Proofs about RunConfiguration, for C structs with any pointers, texts   *)
(* and numbers.  A member of a struct is found exactly where it is set     *)
(* (SetMembersIs, Two, Three); a pair of resources that is not halved is   *)
(* given or not given (BothOrNone).                                        *)
(***************************************************************************)
EXTENDS RunConfiguration, FiniteSetTheorems, TLAPS

-------------------------------------------------------------------------------
(* The operators.                                                          *)

LEMMA SetMembersIs ==
  ASSUME NEW members, NEW n \in DOMAIN members
  PROVE  /\ n \in DOMAIN SetMembers(members) <=> members[n].Set
         /\ members[n].Set => SetMembers(members)[n] = members[n].Value
BY DEF SetMembers

\* What is to be found of a member.
At(v, name) == IF name \in DOMAIN v THEN {v[name]} ELSE {}

LEMMA InsideOne ==
  ASSUME NEW v, NEW name
  PROVE  Inside({v}, name) = At(v, name)
BY DEF Inside, At

LEMMA InsideNone ==
  ASSUME NEW name
  PROVE  Inside({}, name) = {}
BY DEF Inside

LEMMA One ==
  ASSUME NEW v, NEW a
  PROVE  Found(v, <<a>>) = At(v, a)
<1>1. Found(v, <<a>>) = Inside({v}, a)
  BY DEF Found
<1> QED
  BY <1>1, InsideOne

LEMMA Two ==
  ASSUME NEW v, NEW a, NEW b
  PROVE  Found(v, <<a, b>>) = IF a \in DOMAIN v THEN At(v[a], b) ELSE {}
<1>1. Found(v, <<a, b>>) = Inside(Inside({v}, a), b)
  BY DEF Found
<1> QED
  BY <1>1, InsideOne, InsideNone DEF At

LEMMA Three ==
  ASSUME NEW v, NEW a, NEW b, NEW d
  PROVE  Found(v, <<a, b, d>>) =
           IF a \in DOMAIN v /\ b \in DOMAIN v[a] THEN At(v[a][b], d) ELSE {}
<1>1. Found(v, <<a, b, d>>) = Inside(Inside(Inside({v}, a), b), d)
  BY DEF Found
<1> QED
  BY <1>1, InsideOne, InsideNone DEF At

\* Of two pointers that are not halved both are given or none.
LEMMA BothOrNone ==
  ASSUME NEW c, NEW x, NEW y, ~Half(c, {x, y})
  PROVE  {x, y} \subseteq DOMAIN c \/ (x \notin DOMAIN c /\ y \notin DOMAIN c)
<1>1. CASE x \in DOMAIN c /\ y \notin DOMAIN c
  <2>1. {x, y} \intersect DOMAIN c = {x}
    BY <1>1
  <2> QED
    BY <2>1, FS_Singleton DEF Half
<1>2. CASE y \in DOMAIN c /\ x \notin DOMAIN c
  <2>1. {x, y} \intersect DOMAIN c = {y}
    BY <1>2
  <2> QED
    BY <2>1, FS_Singleton DEF Half
<1> QED
  BY <1>1, <1>2

-------------------------------------------------------------------------------
(* The parts of a configuration.                                           *)

LEMMA SpecMembers ==
  ASSUME NEW c
  PROVE  LET spec == CustomSpec(c)
         IN  /\ DOMAIN spec \subseteq {"computeResources", "container",
                                       "runtimeEnvironment", "workgroupRef"}
             /\ "computeResources" \in DOMAIN spec
                  <=> DOMAIN Resources(c) # {}
             /\ "computeResources" \in DOMAIN spec =>
                  spec["computeResources"] = Resources(c)
             /\ "container" \in DOMAIN spec
             /\ spec["container"] = Container(c)
             /\ "runtimeEnvironment" \in DOMAIN spec
                  <=> c.deadline_seconds > 0 \/ c.maximum_retries >= 0
             /\ "runtimeEnvironment" \in DOMAIN spec =>
                  spec["runtimeEnvironment"] = RuntimeEnvironment(c)
             /\ "workgroupRef" \in DOMAIN spec
                  <=> "workgroup_name" \in DOMAIN c
             /\ "workgroupRef" \in DOMAIN spec =>
                  spec["workgroupRef"] = Workgroup(c)
BY DEF CustomSpec, SetMembers, Opt

LEMMA ResourcesMembers ==
  ASSUME NEW c
  PROVE  LET r == Resources(c)
         IN  /\ DOMAIN r \subseteq {"limits", "requests"}
             /\ "limits" \in DOMAIN r <=> Limits \subseteq DOMAIN c
             /\ "limits" \in DOMAIN r =>
                  r["limits"] = [cpu |-> c["cpu_limit"],
                                 memory |-> c["memory_limit"]]
             /\ "requests" \in DOMAIN r <=> ResourceRequests \subseteq DOMAIN c
             /\ "requests" \in DOMAIN r =>
                  r["requests"] = [cpu |-> c["cpu_request"],
                                   memory |-> c["memory_request"]]
BY DEF Resources, SetMembers, Opt, Text, Limits, ResourceRequests

LEMMA RuntimeMembers ==
  ASSUME NEW c
  PROVE  LET e == RuntimeEnvironment(c)
         IN  /\ DOMAIN e \subseteq {"deadlineSeconds", "maximumRetries"}
             /\ "deadlineSeconds" \in DOMAIN e <=> c.deadline_seconds > 0
             /\ "deadlineSeconds" \in DOMAIN e =>
                  e["deadlineSeconds"] = c.deadline_seconds
             /\ "maximumRetries" \in DOMAIN e <=> c.maximum_retries >= 0
             /\ "maximumRetries" \in DOMAIN e =>
                  e["maximumRetries"] = c.maximum_retries
BY DEF RuntimeEnvironment, SetMembers, Opt

LEMMA ContainerMembers ==
  ASSUME NEW c
  PROVE  LET v == Container(c)
         IN  /\ DOMAIN v \subseteq {"versionTag"}
             /\ "versionTag" \in DOMAIN v <=> "version" \in DOMAIN c
             /\ "versionTag" \in DOMAIN v => v["versionTag"] = c["version"]
BY DEF Container, SetMembers, Opt, Text
-------------------------------------------------------------------------------
(* The theorems.                                                           *)

\* Of a configuration that is not refused every field is sent that is meant,
\* in its place and with its value: none is lost or mixed up with another,
\* whatever else is given and whatever the texts and numbers are
\* (main.go:277-397).
THEOREM ConfigurationAsMeant ==
  ASSUME NEW c, IsConfiguration(c),
         ~Half(c, Limits), ~Half(c, ResourceRequests)
  PROVE  \A field \in DOMAIN Place :
           Found(CustomSpec(c), Place[field]) = Meant(c, field)
<1> DEFINE spec == CustomSpec(c)
           Sent(field) == Found(spec, Place[field]) = Meant(c, field)
<1>0. ASSUME NEW field \in {"version", "cpu_limit", "memory_limit",
                            "cpu_request", "memory_request"}
      PROVE  Meant(c, field) = At(c, field)
  BY DEF Meant, At
<1>1. Sent("version")
  <2>1. Found(spec, Place.version) = At(Container(c), "versionTag")
    BY Two, SpecMembers DEF Place
  <2> QED
    BY <2>1, ContainerMembers DEF At, Meant, Place
<1>2. /\ Sent("workgroup_name")
      /\ Sent("workgroup_group")
      /\ Sent("workgroup_kind")
  <2>1. ASSUME NEW name \in {"name", "group", "kind"}
        PROVE  Found(spec, <<"workgroupRef", name>>) =
                 IF "workgroup_name" \in DOMAIN c THEN {Workgroup(c)[name]}
                 ELSE {}
    <3>1. DOMAIN Workgroup(c) = {"name", "group", "kind"}
      BY DEF Workgroup
    <3>2. Found(spec, <<"workgroupRef", name>>) =
            IF "workgroupRef" \in DOMAIN spec
              THEN At(spec["workgroupRef"], name) ELSE {}
      BY Two
    <3>3. /\ "workgroupRef" \in DOMAIN spec <=> "workgroup_name" \in DOMAIN c
          /\ "workgroupRef" \in DOMAIN spec =>
               spec["workgroupRef"] = Workgroup(c)
      BY SpecMembers
    <3> HIDE DEF spec
    <3> QED
      BY <3>1, <3>2, <3>3 DEF At
  <2>2. /\ Workgroup(c).name = Text(c, "workgroup_name")
        /\ Workgroup(c).group = Text(c, "workgroup_group")
        /\ Workgroup(c).kind = Text(c, "workgroup_kind")
    BY DEF Workgroup
  <2> HIDE DEF spec
  <2> QED
    BY <2>1, <2>2 DEF Meant, Place, Text
<1>3. Sent("cpu_limit") /\ Sent("memory_limit")
  <2>1. ASSUME NEW name
        PROVE  Found(spec, <<"computeResources", "limits", name>>) =
                 IF Limits \subseteq DOMAIN c
                   THEN At([cpu |-> c["cpu_limit"],
                            memory |-> c["memory_limit"]], name)
                   ELSE {}
    <3>1. Found(spec, <<"computeResources", "limits", name>>) =
            IF /\ "computeResources" \in DOMAIN spec
               /\ "limits" \in DOMAIN spec["computeResources"]
              THEN At(spec["computeResources"]["limits"], name) ELSE {}
      BY Three
    <3>2. /\ "computeResources" \in DOMAIN spec <=> DOMAIN Resources(c) # {}
          /\ "computeResources" \in DOMAIN spec =>
               spec["computeResources"] = Resources(c)
      BY SpecMembers
    <3>3. /\ "limits" \in DOMAIN Resources(c) <=> Limits \subseteq DOMAIN c
          /\ "limits" \in DOMAIN Resources(c) =>
               Resources(c)["limits"] = [cpu |-> c["cpu_limit"],
                                         memory |-> c["memory_limit"]]
      BY ResourcesMembers
    <3> HIDE DEF spec
    <3> QED
      BY <3>1, <3>2, <3>3
  <2>2. Limits \subseteq DOMAIN c
          \/ ("cpu_limit" \notin DOMAIN c /\ "memory_limit" \notin DOMAIN c)
    BY BothOrNone DEF Limits
  <2>3. /\ Place["cpu_limit"] = <<"computeResources", "limits", "cpu">>
        /\ Place["memory_limit"] = <<"computeResources", "limits", "memory">>
    BY DEF Place
  <2>4. /\ Found(spec, Place["cpu_limit"]) =
             IF Limits \subseteq DOMAIN c THEN {c["cpu_limit"]} ELSE {}
        /\ Found(spec, Place["memory_limit"]) =
             IF Limits \subseteq DOMAIN c THEN {c["memory_limit"]} ELSE {}
    <3> HIDE DEF spec
    <3> QED
      BY <2>1, <2>3 DEF At
  <2> HIDE DEF spec
  <2> QED
    BY <1>0, <2>2, <2>3, <2>4 DEF At, Limits
<1>4. Sent("cpu_request") /\ Sent("memory_request")
  <2>1. ASSUME NEW name
        PROVE  Found(spec, <<"computeResources", "requests", name>>) =
                 IF ResourceRequests \subseteq DOMAIN c
                   THEN At([cpu |-> c["cpu_request"],
                            memory |-> c["memory_request"]], name)
                   ELSE {}
    <3>1. Found(spec, <<"computeResources", "requests", name>>) =
            IF /\ "computeResources" \in DOMAIN spec
               /\ "requests" \in DOMAIN spec["computeResources"]
              THEN At(spec["computeResources"]["requests"], name) ELSE {}
      BY Three
    <3>2. /\ "computeResources" \in DOMAIN spec <=> DOMAIN Resources(c) # {}
          /\ "computeResources" \in DOMAIN spec =>
               spec["computeResources"] = Resources(c)
      BY SpecMembers
    <3>3. /\ "requests" \in DOMAIN Resources(c) <=> ResourceRequests \subseteq DOMAIN c
          /\ "requests" \in DOMAIN Resources(c) =>
               Resources(c)["requests"] = [cpu |-> c["cpu_request"],
                                         memory |-> c["memory_request"]]
      BY ResourcesMembers
    <3> HIDE DEF spec
    <3> QED
      BY <3>1, <3>2, <3>3
  <2>2. ResourceRequests \subseteq DOMAIN c
          \/ ("cpu_request" \notin DOMAIN c
                /\ "memory_request" \notin DOMAIN c)
    BY BothOrNone DEF ResourceRequests
  <2>3. /\ Place["cpu_request"] = <<"computeResources", "requests", "cpu">>
        /\ Place["memory_request"] = <<"computeResources", "requests", "memory">>
    BY DEF Place
  <2>4. /\ Found(spec, Place["cpu_request"]) =
             IF ResourceRequests \subseteq DOMAIN c THEN {c["cpu_request"]} ELSE {}
        /\ Found(spec, Place["memory_request"]) =
             IF ResourceRequests \subseteq DOMAIN c THEN {c["memory_request"]} ELSE {}
    <3> HIDE DEF spec
    <3> QED
      BY <2>1, <2>3 DEF At
  <2> HIDE DEF spec
  <2> QED
    BY <1>0, <2>2, <2>3, <2>4 DEF At, ResourceRequests
<1>5. Sent("deadline_seconds") /\ Sent("maximum_retries")
  <2>1. ASSUME NEW name \in {"deadlineSeconds", "maximumRetries"}
        PROVE  Found(spec, <<"runtimeEnvironment", name>>)
                 = At(RuntimeEnvironment(c), name)
    <3>1. Found(spec, <<"runtimeEnvironment", name>>) =
            IF "runtimeEnvironment" \in DOMAIN spec
              THEN At(spec["runtimeEnvironment"], name) ELSE {}
      BY Two
    <3>2. /\ "runtimeEnvironment" \in DOMAIN spec
               <=> c.deadline_seconds > 0 \/ c.maximum_retries >= 0
          /\ "runtimeEnvironment" \in DOMAIN spec =>
               spec["runtimeEnvironment"] = RuntimeEnvironment(c)
      BY SpecMembers
    <3>3. name \in DOMAIN RuntimeEnvironment(c) =>
            c.deadline_seconds > 0 \/ c.maximum_retries >= 0
      BY RuntimeMembers
    <3> HIDE DEF spec
    <3> QED
      BY <3>1, <3>2, <3>3 DEF At
  <2>2. At(RuntimeEnvironment(c), "deadlineSeconds")
          = {n \in {c["deadline_seconds"]} : n > 0}
    BY RuntimeMembers DEF At
  <2>3. At(RuntimeEnvironment(c), "maximumRetries")
          = {n \in {c["maximum_retries"]} : n >= 0}
    BY RuntimeMembers DEF At
  <2> HIDE DEF spec
  <2> QED
    BY <2>1, <2>2, <2>3 DEF Meant, Place
<1>6. DOMAIN Place =
        {"version", "workgroup_name", "workgroup_group", "workgroup_kind",
         "cpu_limit", "memory_limit", "cpu_request", "memory_request",
         "deadline_seconds", "maximum_retries"}
  BY DEF Place
<1> HIDE DEF Sent
<1>7. \A field \in DOMAIN Place : Sent(field)
  BY <1>1, <1>2, <1>3, <1>4, <1>5, <1>6
<1> QED
  BY <1>7 DEF Sent

\* Nothing else is sent: every member of the configuration, at any depth, is in
\* the place of a field, and no part is sent that is empty, except for the
\* container, which is always sent (main.go:328-338, 379-397).
THEOREM NothingMadeUp ==
  ASSUME NEW c
  PROVE  LET spec == CustomSpec(c)
             Shown == {Place[field] : field \in DOMAIN Place}
         IN  \A part \in DOMAIN spec :
               /\ part # "container" => DOMAIN spec[part] # {}
               /\ \A name \in DOMAIN spec[part] :
                    IF part = "computeResources"
                      THEN /\ DOMAIN spec[part][name] # {}
                           /\ \A kind \in DOMAIN spec[part][name] :
                                <<part, name, kind>> \in Shown
                      ELSE <<part, name>> \in Shown
<1> DEFINE spec == CustomSpec(c)
           Shown == {Place[field] : field \in DOMAIN Place}
<1>1. /\ <<"container", "versionTag">> \in Shown
      /\ <<"workgroupRef", "name">> \in Shown
      /\ <<"workgroupRef", "group">> \in Shown
      /\ <<"workgroupRef", "kind">> \in Shown
      /\ <<"runtimeEnvironment", "deadlineSeconds">> \in Shown
      /\ <<"runtimeEnvironment", "maximumRetries">> \in Shown
  BY DEF Place
<1>2. /\ <<"computeResources", "limits", "cpu">> \in Shown
      /\ <<"computeResources", "limits", "memory">> \in Shown
      /\ <<"computeResources", "requests", "cpu">> \in Shown
      /\ <<"computeResources", "requests", "memory">> \in Shown
  BY DEF Place
<1>3. DOMAIN Workgroup(c) = {"name", "group", "kind"}
  BY DEF Workgroup
<1>4. /\ DOMAIN spec \subseteq {"computeResources", "container",
                                "runtimeEnvironment", "workgroupRef"}
      /\ "computeResources" \in DOMAIN spec =>
           /\ spec["computeResources"] = Resources(c)
           /\ DOMAIN Resources(c) # {}
      /\ spec["container"] = Container(c)
      /\ "runtimeEnvironment" \in DOMAIN spec =>
           /\ spec["runtimeEnvironment"] = RuntimeEnvironment(c)
           /\ DOMAIN RuntimeEnvironment(c) # {}
      /\ "workgroupRef" \in DOMAIN spec => spec["workgroupRef"] = Workgroup(c)
  BY SpecMembers, RuntimeMembers
<1>5. /\ DOMAIN Resources(c) \subseteq {"limits", "requests"}
      /\ \A name \in DOMAIN Resources(c) :
           DOMAIN Resources(c)[name] = {"cpu", "memory"}
  <2>1. /\ DOMAIN Resources(c) \subseteq {"limits", "requests"}
        /\ "limits" \in DOMAIN Resources(c) =>
             \E x, y : Resources(c)["limits"] = [cpu |-> x, memory |-> y]
        /\ "requests" \in DOMAIN Resources(c) =>
             \E x, y : Resources(c)["requests"] = [cpu |-> x, memory |-> y]
    <3> HIDE DEF spec, Shown
    <3> QED
      BY ResourcesMembers
  <2>2. \A x, y : DOMAIN [cpu |-> x, memory |-> y] = {"cpu", "memory"}
    OBVIOUS
  <2> QED
    BY <2>1, <2>2
<1>6. /\ DOMAIN RuntimeEnvironment(c)
           \subseteq {"deadlineSeconds", "maximumRetries"}
      /\ DOMAIN Container(c) \subseteq {"versionTag"}
  BY RuntimeMembers, ContainerMembers
<1> HIDE DEF spec, Shown
<1> SUFFICES ASSUME NEW part \in DOMAIN spec
             PROVE  /\ part # "container" => DOMAIN spec[part] # {}
                    /\ \A name \in DOMAIN spec[part] :
                         IF part = "computeResources"
                           THEN /\ DOMAIN spec[part][name] # {}
                                /\ \A kind \in DOMAIN spec[part][name] :
                                     <<part, name, kind>> \in Shown
                           ELSE <<part, name>> \in Shown
  BY DEF spec, Shown
<1>7. CASE part = "computeResources"
  BY <1>2, <1>4, <1>5, <1>7
<1>8. CASE part = "container"
  BY <1>1, <1>4, <1>6, <1>8
<1>9. CASE part = "runtimeEnvironment"
  BY <1>1, <1>4, <1>6, <1>9
<1>10. CASE part = "workgroupRef"
  BY <1>1, <1>3, <1>4, <1>10
<1> QED
  BY <1>4, <1>7, <1>8, <1>9, <1>10

\* The request has the configuration, the parent and the tag exactly if they
\* are given, and nothing else than they, the parameters and the version of
\* the API (main.go:267-275, 402-418).
THEOREM RequestAsAsked ==
  ASSUME NEW ask, NEW parameters
  PROVE  LET request == Request(ask, parameters)
         IN  /\ Found(request, <<"customConfiguration">>)
                  = {CustomSpec(c) : c \in Found(ask, <<"configuration">>)}
             /\ Found(request, <<"parentRequest">>)
                  = {ParentRequest(p) : p \in Found(ask, <<"parent">>)}
             /\ Found(request, <<"tag">>) = Found(ask, <<"tag">>)
             /\ Found(request, <<"algorithmParameters">>) = {parameters}
             /\ DOMAIN request \subseteq
                  {"algorithmParameters", "customConfiguration",
                   "parentRequest", "requestApiVersion", "tag"}
<1> DEFINE request == Request(ask, parameters)
<1>1. /\ DOMAIN request \subseteq
           {"algorithmParameters", "customConfiguration", "parentRequest",
            "requestApiVersion", "tag"}
      /\ "algorithmParameters" \in DOMAIN request
      /\ request["algorithmParameters"] = parameters
      /\ "customConfiguration" \in DOMAIN request
           <=> "configuration" \in DOMAIN ask
      /\ "customConfiguration" \in DOMAIN request =>
           request["customConfiguration"] = CustomSpec(ask.configuration)
      /\ "parentRequest" \in DOMAIN request <=> "parent" \in DOMAIN ask
      /\ "parentRequest" \in DOMAIN request =>
           request["parentRequest"] = ParentRequest(ask.parent)
      /\ "tag" \in DOMAIN request <=> "tag" \in DOMAIN ask
      /\ "tag" \in DOMAIN request => request["tag"] = ask["tag"]
  BY DEF Request, SetMembers, Opt, Unset, Text
<1> HIDE DEF request
<1>2. /\ Found(request, <<"customConfiguration">>)
           = {CustomSpec(c) : c \in Found(ask, <<"configuration">>)}
      /\ Found(request, <<"parentRequest">>)
           = {ParentRequest(p) : p \in Found(ask, <<"parent">>)}
  <2>1. /\ Found(request, <<"customConfiguration">>) =
             At(request, "customConfiguration")
        /\ Found(ask, <<"configuration">>) = At(ask, "configuration")
        /\ Found(request, <<"parentRequest">>) = At(request, "parentRequest")
        /\ Found(ask, <<"parent">>) = At(ask, "parent")
    BY One
  <2>2. At(request, "customConfiguration")
          = {CustomSpec(c) : c \in At(ask, "configuration")}
    BY <1>1 DEF At
  <2>3. At(request, "parentRequest")
          = {ParentRequest(p) : p \in At(ask, "parent")}
    BY <1>1 DEF At
  <2> QED
    BY <2>1, <2>2, <2>3
<1>3. /\ Found(request, <<"tag">>) = Found(ask, <<"tag">>)
      /\ Found(request, <<"algorithmParameters">>) = {parameters}
  BY <1>1, One DEF At
<1> QED
  BY <1>1, <1>2, <1>3 DEF request
===============================================================================
