-------------------------------- MODULE Exchange -------------------------------
(***************************************************************************)
(* One body on its way between the program and the services: a request     *)
(* that the C API builds (module Submission) or a value of one of the      *)
(* types that travel is validated, encoded, sent, changed by a service     *)
(* that is newer, older or wrong, and decoded.  The services are external: *)
(* a submitted request is what the scheduler answers as metadata later.    *)
(*                                                                         *)
(* What goes from level to level of a body is a constant here: the codec,  *)
(* where a service changes a document, and which modes are in a value.     *)
(* Modules Codec and MCExchange have the recursions.                       *)
(***************************************************************************)
EXTENDS Submission, SequencesExt

CONSTANTS
  Asks,               \* what C programs ask for
  Types,              \* the types of bodies and of all that is in them
  Depth,              \* how deep each of these types is
  Values(_),          \* the values that are sent, for each type
  Samples(_),         \* those of them that a service changes, or repeats
  Changed(_, _, _),   \* the documents that differ from one in one place
  KnownModes(_, _)    \* whether every enumeration in a value is known

RequestBodies == [
  CreateRun |-> ModelsAlgorithmRequest,
  CancelRun |-> ModelsCancellationRequest,
  UpdateRunTag |-> ModelsTagUpdateRequest,
  CompleteRequest |-> ModelsAlgorithmResult]

AnswerBodies == [
  GetMetadataOK |-> ModelsCheckpointedRequest,
  GetMetadataBadRequest |-> GetMetadataBadRequest,
  GetMetadataUnauthorized |-> GetMetadataUnauthorized,
  GetMetadataNotFound |-> GetMetadataNotFound,
  GetResultOK |-> ModelsRequestResult,
  GetResultBadRequest |-> GetResultBadRequest,
  GetResultUnauthorized |-> GetResultUnauthorized,
  GetResultNotFound |-> GetResultNotFound,
  GetResultsOK |-> GetResultsOK,
  GetResultsBadRequest |-> GetResultsBadRequest,
  GetResultsUnauthorized |-> GetResultsUnauthorized,
  GetBufferedRequestOK |-> GetBufferedRequestOK,
  GetBufferedRequestBadRequest |-> GetBufferedRequestBadRequest,
  GetBufferedRequestUnauthorized |-> GetBufferedRequestUnauthorized,
  GetBufferedRequestNotFound |-> GetBufferedRequestNotFound,
  CreateRunAccepted |-> CreateRunAccepted,
  CreateRunBadRequest |-> CreateRunBadRequest,
  CreateRunUnauthorized |-> CreateRunUnauthorized,
  CreateRunInternalServerError |-> CreateRunInternalServerError,
  PayloadOK |-> PayloadOK,
  PayloadBadRequest |-> PayloadBadRequest,
  PayloadUnauthorized |-> PayloadUnauthorized,
  PayloadForbidden |-> PayloadForbidden,
  PayloadNotFound |-> PayloadNotFound,
  CheckRequestOK |-> ModelsCheckRunResponse,
  CheckRequestBadRequest |-> CheckRequestBadRequest,
  CheckRequestUnauthorized |-> CheckRequestUnauthorized,
  CheckRequestNotFound |-> CheckRequestNotFound,
  CompleteRequestAccepted |-> CompleteRequestAccepted,
  CompleteRequestBadRequest |-> CompleteRequestBadRequest,
  CompleteRequestUnauthorized |-> CompleteRequestUnauthorized,
  CompleteRequestNotFound |-> CompleteRequestNotFound]

Answers == DOMAIN AnswerBodies

Body ==
  [name \in DOMAIN RequestBodies \union Answers |->
     IF name \in Answers THEN AnswerBodies[name] ELSE RequestBodies[name]]

PartTypes(type) ==
  CASE type.kind = "struct" -> {type.fields[name] : name \in DOMAIN type.fields}
    [] type.kind \in {"map", "array"} -> {type.elem}
    [] OTHER -> {}

\* A member that no type knows.
NewField == "newField"

ASSUME TypesAssumption ==
  /\ \A name \in DOMAIN Body : Body[name] \in Types
  /\ Depth \in [Types -> Nat]
  /\ \A type \in Types :
       /\ type.kind \in Kinds
       /\ \A part \in PartTypes(type) :
            part \in Types /\ Depth[part] < Depth[type]
       /\ type.kind = "struct" =>
            /\ type.required \subseteq DOMAIN type.fields
            /\ NewField \notin DOMAIN type.fields

\* The shape of the values of a type.
Fits(type, v) ==
  /\ type.kind = "struct" =>
       type.required \subseteq DOMAIN v /\ DOMAIN v \subseteq DOMAIN type.fields
  /\ type.kind \in Objects \union {"array"} =>
       IsFiniteSet(DOMAIN v) /\ v = [x \in DOMAIN v |-> v[x]]

ASSUME AsksAssumption ==
  \A a \in Asks :
    "configuration" \in DOMAIN a => IsConfiguration(a.configuration)

ASSUME ValuesAssumption ==
  \A type \in Types : \A v \in Values(type) :
    /\ Fits(type, v)
    /\ \A x \in Parts(type, v) : v[x] \in Values(Member(type, x))

\* The bodies that are validated: one before it is sent, one when it is read.
Valid(name, v) ==
  CASE name = "CreateRun" -> ValidAlgorithmRequest(v)
    [] name = "GetMetadataOK" -> ValidCheckpointedRequest(v)
    [] OTHER -> TRUE

\* A service that is right sends nothing the client refuses.
ASSUME SamplesAssumption ==
  /\ \A type \in Types : Samples(type) \subseteq Values(type)
  /\ \A name \in Answers : \A v \in Samples(Body[name]) : Valid(name, v)

VARIABLES
  body,               \* the body that travels
  ask,                \* what the C program asks for, as a set of at most one
  value,              \* what is sent, as a set of at most one
  doc,                \* the JSON on the wire
  change,             \* history: how a service has changed it
  got,                \* what is read, as a set of at most one
  pc

vars == <<body, ask, value, doc, change, got, pc>>

Init ==
  /\ \/ body = "CreateRun" /\ ask \in {{a} : a \in Asks} /\ value = {}
        /\ pc = "asked"
     \/ body \in DOMAIN Body /\ ask = {}
        /\ value \in {{v} : v \in Values(Body[body])} /\ pc = "made"
  /\ doc = JNull
  /\ change = "none"
  /\ got = {}

-------------------------------------------------------------------------------
(* The program.                                                            *)

Only(set) == CHOOSE x \in set : TRUE

CreateRun ==
  /\ pc = "asked"
  /\ value' = CreateRunRequest(Only(ask))
  /\ pc' = IF value' = {} THEN "refused" ELSE "made"
  /\ UNCHANGED <<body, ask, doc, change, got>>

Send ==
  /\ pc = "made"
  /\ IF body \notin Answers /\ ~Valid(body, Only(value))
       THEN pc' = "refused" /\ UNCHANGED doc
       ELSE pc' = "sent" /\ doc' = Encoded(Body[body], Only(value))
  /\ UNCHANGED <<body, ask, value, change, got>>

Read ==
  /\ pc = "sent"
  /\ got' = {v \in Decoded(Body[body], doc) : body \in Answers => Valid(body, v)}
  /\ pc' = "read"
  /\ UNCHANGED <<body, ask, value, doc, change>>

-------------------------------------------------------------------------------
(* The services.                                                           *)

Renamed == [
  customConfiguration |-> "configuration_overrides",
  parentRequest |-> "parent",
  requestApiVersion |-> "api_version",
  tag |-> "tag"]

\* What is kept of a request, and shown as metadata.
Stored(request) ==
  LET kept == Order({i \in DOMAIN request.o :
                       request.o[i][1] \in DOMAIN Renamed})
  IN  JObject([k \in DOMAIN kept |-> <<Renamed[request.o[kept[k]][1]],
                                      request.o[kept[k]][2]>>])

\* A submitted request is kept, and is asked for as metadata.
Store ==
  /\ pc = "sent"
  /\ body = "CreateRun"
  /\ ask # {}
  /\ doc' = Stored(doc)
  /\ body' = "GetMetadataOK"
  /\ UNCHANGED <<ask, value, change, got, pc>>

WrongKind(j) == IF j.json = "number" THEN JString("new") ELSE JNumber(7)

\* What may happen to a member of that type.
MemberChanges(how, type, j) ==
  CASE how = "null" /\ type.kind # "raw" -> {JNull}
    [] how = "other kind" /\ type.kind # "raw" -> {WrongKind(j)}
    [] OTHER -> {}

\* What may happen to the members of an object of that type.  A member that is
\* repeated comes first with a value that will not count; one that gathers
\* would count, but only requests have such a member.
ObjectChanges(how, type, o) ==
  CASE how = "unknown" /\ type.kind = "struct" ->
         {<< <<NewField, j>> >> \o o : j \in {JNull, JObject(<<>>)}}
    [] how = "repeated" ->
         UNION {{<< <<o[i][1], Encoded(Member(type, o[i][1]), v)>> >> \o o :
                   v \in Samples(Member(type, o[i][1]))} :
                i \in {k \in DOMAIN o : ~Gathers(type, o[k][1])}}
    [] how = "reordered" -> {Reverse(o)} \ {o}
    [] how = "left out" /\ type.kind = "struct" ->
         {RemoveAt(o, i) : i \in {k \in DOMAIN o : o[k][1] \in type.required}}
    [] OTHER -> {}

\* What may happen to a document itself,
ChangedHere(how, type, j) ==
  MemberChanges(how, type, j) \union
  IF type.kind \in Objects
    THEN {JObject(o) : o \in ObjectChanges(how, type, j.o)}
    ELSE {}

\* or to the item in place i of it.
Put(j, i, new) ==
  IF j.json = "array" THEN JArray([j.a EXCEPT ![i] = new])
                      ELSE JObject([j.o EXCEPT ![i] = <<j.o[i][1], new>>])

Harmless == {"unknown", "repeated", "reordered"}
Harmful == {"null", "other kind", "left out"}

Change(how) ==
  /\ pc = "sent"
  /\ body \in Answers
  /\ ask = {}
  /\ value \subseteq Samples(Body[body])
  /\ change = "none"
  /\ doc' \in Changed(how, Body[body], doc)
  /\ change' = how
  /\ UNCHANGED <<body, ask, value, got, pc>>

Terminated == pc \in {"refused", "read"} /\ UNCHANGED vars

Next ==
  \/ CreateRun
  \/ Send
  \/ Read
  \/ Store
  \/ \E how \in Harmless \union Harmful : Change(how)
  \/ Terminated

Spec == Init /\ [][Next]_vars

-------------------------------------------------------------------------------
(* Properties.                                                             *)

\* What is encoded is decoded again as it was, whatever of it is set, zero or
\* empty, in every type that travels: the Encode and Decode methods of
\* oas_json_gen.go agree.
RoundTrip ==
  pc = "read" /\ ask = {} /\ change = "none" =>
    got = {v \in value : body \in Answers => Valid(body, v)}

\* An answer means the same when a newer service adds members the client does
\* not know, orders the members as it likes, or gives a member twice and means
\* the last (the default and Reset of the Decode methods).
NewerServiceUnderstood ==
  pc = "read" /\ change \in Harmless => got = value

\* An answer with one known member that is null, of another kind or missing
\* though required is not read at all: nobody sees the half of it that could
\* be read (the returns of the Decode methods).
NothingHalfRead ==
  pc = "read" /\ change \in Harmful => got = {}

\* No request leaves, and no answer is accepted, that holds a value of an
\* enumeration the client does not know, however deep: the Validate methods
\* visit every place where one may be (oas_validators_gen.go).
OnlyKnownModes ==
  /\ body = "CreateRun" /\ pc = "sent" =>
       KnownModes(Body[body], Only(value))
  /\ body \in Answers => \A v \in got : KnownModes(Body[body], v)

\* What a C program asks for is what the metadata of its run shows later, field
\* by field and no more: nothing is lost, mixed up or made up between the
\* struct of CreateRun (main.go:235-434), the JSON of the request and the
\* decoded metadata; of half a pair of resources nothing is ever sent.
WhatIsAskedIsRecorded ==
  pc = "read" /\ body = "GetMetadataOK" =>
    \A a \in ask : \E metadata \in got :
      LET overrides == Found(metadata, <<"configuration_overrides">>)
      IN  /\ overrides # {} <=> "configuration" \in DOMAIN a
          /\ "configuration" \in DOMAIN a =>
               \A field \in DOMAIN Place :
                 Found(Only(overrides), Place[field])
                   = Meant(a.configuration, field)
          /\ Found(metadata, <<"tag">>) = Found(a, <<"tag">>)
          /\ Found(metadata, <<"parent">>)
               = {ParentRequest(p) : p \in Found(a, <<"parent">>)}
===============================================================================
