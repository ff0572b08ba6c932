------------------------------- MODULE Operations ------------------------------
(***************************************************************************)
(* The operations of the generated clients: the method and the path of     *)
(* each, by its parameters p.  A path is the sequence of its segments: a   *)
(* name is escaped and stays one segment whatever its characters are.  The *)
(* services are external; their templates are those of the description     *)
(* the clients are generated from.                                         *)
(***************************************************************************)
EXTENDS Sequences

Get(path) == [verb |-> "GET", path |-> path, dryRun |-> "unset"]
Post(path) == [Get(path) EXCEPT !.verb = "POST"]

\* Mutation: the two names are the wrong way round.
ToRunSwapped(p) == <<p.requestId, "requests", p.algorithmName>>

\* Where most requests go: to one run of an algorithm.
ToRun(p) == <<p.algorithmName, "requests", p.requestId>>

GetBufferedRequestCall(p) == Get(<<"algorithm", "v1", "buffer">> \o ToRun(p))
CancelRunCall(p) == Post(<<"algorithm", "v1", "cancel">> \o ToRun(p))
GetMetadataCall(p) == Get(<<"algorithm", "v1", "metadata">> \o ToRun(p))
UpdateRunTagCall(p) ==
  Post(<<"algorithm", "v1", "metadata", "tags">> \o ToRun(p))
GetResultCall(p) == Get(<<"algorithm", "v1", "results">> \o ToRun(p))
GetResultsCall(p) ==
  Get(<<"algorithm", "v1", "results", "tags", p.requestTag>>)
CreateRunCall(p) ==
  [Post(<<"algorithm", "v1", "run", p.algorithmName>>) EXCEPT !.dryRun = p.dryRun]
PayloadCall(p) == Get(<<"data", "v1", "payloads">> \o ToRun(p))
CheckRequestCall(p) == Get(<<"algorithm", "v1", "check">> \o ToRun(p))
CompleteRequestCall(p) == Post(<<"algorithm", "v1", "complete">> \o ToRun(p))

\* What a request looks like on the wire.
Sent(request, p) ==
  CASE request = "GetBufferedRequest" -> GetBufferedRequestCall(p)
    [] request = "CancelRun" -> CancelRunCall(p)
    [] request = "GetMetadata" -> GetMetadataCall(p)
    [] request = "UpdateRunTag" -> UpdateRunTagCall(p)
    [] request = "GetResult" -> GetResultCall(p)
    [] request = "GetResults" -> GetResultsCall(p)
    [] request = "CreateRun" -> CreateRunCall(p)
    [] request = "Payload" -> PayloadCall(p)
    [] request = "CheckRequest" -> CheckRequestCall(p)
    [] request = "CompleteRequest" -> CompleteRequestCall(p)

-------------------------------------------------------------------------------
(* The services.                                                           *)

ARun == <<"algorithmName", "requests", "requestId">>

Templates == [
  GetBufferedRequest |-> Get(<<"algorithm", "v1", "buffer">> \o ARun),
  CancelRun |-> Post(<<"algorithm", "v1", "cancel">> \o ARun),
  GetMetadata |-> Get(<<"algorithm", "v1", "metadata">> \o ARun),
  UpdateRunTag |-> Post(<<"algorithm", "v1", "metadata", "tags">> \o ARun),
  LegacyPayload |-> Get(<<"algorithm", "v1", "payload">> \o ARun),
  GetResult |-> Get(<<"algorithm", "v1", "results">> \o ARun),
  GetResults |-> Get(<<"algorithm", "v1", "results", "tags", "requestTag">>),
  CreateRun |-> Post(<<"algorithm", "v1", "run", "algorithmName">>),
  Payload |-> Get(<<"data", "v1", "payloads">> \o ARun),
  CheckRequest |-> Get(<<"algorithm", "v1", "check">> \o ARun),
  CompleteRequest |-> Post(<<"algorithm", "v1", "complete">> \o ARun)]

\* The segments of a template that stand for a parameter, by its name.
Placeholders == {"algorithmName", "requestId", "requestTag"}

\* A name that is empty is no segment.
Matches(sent, template) ==
  /\ sent.verb = template.verb
  /\ Len(sent.path) = Len(template.path)
  /\ \A i \in DOMAIN template.path :
       IF template.path[i] \in Placeholders
         THEN sent.path[i] # ""
         ELSE sent.path[i] = template.path[i]

\* What the service takes a request for; nothing if it has no such route.
Routed(sent) ==
  { [request |-> request,
     names |-> {<<Templates[request].path[i], sent.path[i]>> :
                  i \in {j \in DOMAIN sent.path :
                           Templates[request].path[j] \in Placeholders}},
     dryRun |-> sent.dryRun] :
    request \in {q \in DOMAIN Templates : Matches(sent, Templates[q])} }
===============================================================================
