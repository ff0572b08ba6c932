----------------------------- MODULE ForeignMemory -----------------------------
(***************************************************************************)
(* The memory that the C API (main.go) hands to its foreign caller.  A     *)
(* result is a C struct whose fields are pointers to strings of its own,   *)
(* or an array of such structs; the caller frees it with the Free function *)
(* of the struct, and an array when it has freed its elements.  A struct   *)
(* is the set of its fields that are not NULL.                             *)
(*                                                                         *)
(* The caller is external.  It frees what it was given, once, and reads an *)
(* array up to the first element without an algorithm, for the API gives   *)
(* no length.                                                              *)
(***************************************************************************)
EXTENDS Integers, FiniteSets

CONSTANTS
  Slots,              \* the results the caller holds at a time
  Listings,           \* how many results a listing may have
  View                \* the elements an array is written through: 10000

ASSUME ListingsAssumption == Listings \subseteq Nat
ASSUME ViewAssumption == View \in Nat

ClientError == {"client_error_type", "client_error_message"}

-------------------------------------------------------------------------------
(* What each function sets.                                                *)

Run == {"algorithm", "request_id", "result_uri", "run_error_message", "status"}

GetRunResult == [struct |-> "RunResult",
  ok |-> Run, error |-> ClientError, nothing |-> {}]

GetRun == [struct |-> "RunResult",
  ok |-> Run, error |-> {"algorithm", "request_id"} \union ClientError,
  nothing |-> {}]

AwaitRun == [struct |-> "RunResult",
  ok |-> Run, error |-> {"algorithm", "request_id"} \union ClientError,
  nothing |-> {"algorithm", "request_id", "client_error_message"}]

CreateRun == [struct |-> "AlgorithmRun",
  ok |-> {"request_id"}, error |-> {"request_id"} \union ClientError]

GetBufferedRun == [struct |-> "StringResult",
  ok |-> {"result"}, error |-> ClientError]

CancelRun == [struct |-> "StringResult", ok |-> {}, error |-> ClientError]

\* The parent is never reported.
GetRequestMetadata == [struct |-> "RequestMetadata",
  ok |-> {"algorithm", "id", "algorithm_failure_cause",
          "algorithm_failure_details", "api_version", "applied_configuration",
          "configuration_overrides", "content_hash", "job_uid",
          "last_modified", "lifecycle_stage", "payload_uri", "received_at",
          "received_by_host", "result_uri", "sent_at", "tag"},
  error |-> {"algorithm", "id"} \union ClientError]

CompleteRun == [struct |-> "ErrorResponse", ok |-> {}, error |-> ClientError]

CheckRun == [struct |-> "BoolResult", ok |-> {}, error |-> ClientError]

StructResults == {GetRunResult, GetRun, AwaitRun, CreateRun, GetBufferedRun,
                  CancelRun, GetRequestMetadata, CompleteRun, CheckRun}

\* Mutation: an element whose algorithm is not set has no string for it.
FillUnnamed(n) == [i \in 0 .. n |-> IF i + 1 < n THEN Run
                                    ELSE IF i + 1 = n THEN Run \ {"algorithm"}
                                    ELSE {}]

\* The elements of the array of GetRunResults and of AwaitRuns: one more than
\* there are results, all zero until they are filled.
Fill(n) == [i \in 0 .. n |-> IF i < n THEN Run ELSE {}]

\* An error is an array of one element.
FillError == [i \in {0} |-> ClientError]

-------------------------------------------------------------------------------
(* What the Free functions free.                                           *)

FreeRunResult == Run \union ClientError
FreeAlgorithmRun == {"request_id"} \union ClientError
FreeRequestMetadata ==
  {"algorithm", "id", "algorithm_failure_cause", "algorithm_failure_details",
   "api_version", "applied_configuration", "configuration_overrides",
   "content_hash", "job_uid", "last_modified", "lifecycle_stage", "parent_job",
   "payload_uri", "received_at", "received_by_host", "result_uri", "sent_at",
   "tag"} \union ClientError
FreeErrorResponse == ClientError
FreeStringResult == {"result"} \union ClientError

\* Mutation: the message of the error is forgotten.
FreeBoolType == {"client_error_type"}

FreeBoolResult == ClientError

Freed == [
  RunResult |-> FreeRunResult,
  AlgorithmRun |-> FreeAlgorithmRun,
  RequestMetadata |-> FreeRequestMetadata,
  ErrorResponse |-> FreeErrorResponse,
  StringResult |-> FreeStringResult,
  BoolResult |-> FreeBoolResult]

-------------------------------------------------------------------------------
VARIABLES
  heap,               \* the blocks that are allocated
  held,               \* the results the caller holds, by slot
  reading,            \* how far it has read the array in a slot
  panicked

vars == <<heap, held, reading, panicked>>

Nothing == [array |-> FALSE, struct |-> "none", cells |-> [i \in {} |-> {}]]

\* The blocks of the strings of an element, and the block of an array.
Strings(s, i, fields) == {<<s, i, field>> : field \in fields}
ArrayBlock(s) == <<s, 0, "array">>

\* The blocks a result points to.
AllStrings(s, result) ==
  UNION {Strings(s, i, result.cells[i]) : i \in DOMAIN result.cells}
Pointed(s, result) ==
  AllStrings(s, result) \union (IF result.array THEN {ArrayBlock(s)} ELSE {})

Init ==
  /\ heap = {}
  /\ held = [s \in Slots |-> Nothing]
  /\ reading = [s \in Slots |-> 0]
  /\ panicked = FALSE

GiveOut(s, result) ==
  /\ ~panicked
  /\ held[s] = Nothing
  /\ held' = [held EXCEPT ![s] = result]
  /\ heap' = heap \union Pointed(s, result)
  /\ reading' = [reading EXCEPT ![s] = 0]
  /\ UNCHANGED panicked

GiveStruct(s, f, outcome) ==
  /\ outcome \in DOMAIN f
  /\ GiveOut(s, [array |-> FALSE, struct |-> f.struct,
                 cells |-> [i \in {0} |-> f[outcome]]])

GiveArray(s, n) ==
  /\ n <= View
  /\ GiveOut(s, [array |-> TRUE, struct |-> "RunResult", cells |-> Fill(n)])

GiveErrorArray(s) ==
  GiveOut(s, [array |-> TRUE, struct |-> "RunResult", cells |-> FillError])

\* The element after the last one of the view: an index out of range.
TooManyResults(s, n) ==
  /\ ~panicked
  /\ held[s] = Nothing
  /\ n > View
  /\ panicked' = TRUE
  /\ UNCHANGED <<heap, held, reading>>

-------------------------------------------------------------------------------
(* The caller.                                                             *)

\* A result that is not an array is freed at once.
FreeStruct(s) ==
  /\ ~panicked
  /\ held[s] # Nothing
  /\ ~held[s].array
  /\ heap' = heap \ Strings(s, 0, Freed[held[s].struct])
  /\ held' = [held EXCEPT ![s] = Nothing]
  /\ UNCHANGED <<reading, panicked>>

Element(s) == held[s].cells[reading[s]]

Reading(s) == ~panicked /\ held[s].array /\ reading[s] \in DOMAIN held[s].cells

\* An element is read and freed.
FreeElement(s) ==
  /\ Reading(s)
  /\ "algorithm" \in Element(s)
  /\ heap' = heap \ Strings(s, reading[s], FreeRunResult)
  /\ held' = [held EXCEPT ![s].cells[reading[s]] = {}]
  /\ reading' = [reading EXCEPT ![s] = @ + 1]
  /\ UNCHANGED panicked

\* The element without an algorithm is the end, or an error; then the array
\* itself is freed (FreeRunResultsPointer).
FreeArray(s) ==
  /\ Reading(s)
  /\ "algorithm" \notin Element(s)
  /\ heap' = heap \ (Strings(s, reading[s], FreeRunResult)
                       \union {ArrayBlock(s)})
  /\ held' = [held EXCEPT ![s] = Nothing]
  /\ UNCHANGED <<reading, panicked>>

Panicked == panicked /\ UNCHANGED vars

Next ==
  \/ \E s \in Slots :
       \/ \E f \in StructResults : \E outcome \in {"ok", "error", "nothing"} :
            GiveStruct(s, f, outcome)
       \/ \E n \in Listings : GiveArray(s, n) \/ TooManyResults(s, n)
       \/ GiveErrorArray(s)
       \/ FreeStruct(s) \/ FreeElement(s) \/ FreeArray(s)
  \/ Panicked

Spec == Init /\ [][Next]_vars

-------------------------------------------------------------------------------
(* Properties.                                                             *)

\* No string leaks and none dangles: what is allocated is what the caller has
\* pointers to, with every combination of results, errors and missing runs.
\* Each Free function frees what the functions that return its struct have set
\* (main.go:804-868).
HeapIsHeld == heap = UNION {Pointed(s, held[s]) : s \in Slots}

\* Who reads an array up to the first element without an algorithm sees every
\* result and never leaves the array: on success an empty element ends it,
\* also when a result has no name, and an error is an end of its own
\* (main.go:158-192, 681-715).
ScanIsExact ==
  \A s \in Slots :
    held[s].array =>
      /\ reading[s] \in DOMAIN held[s].cells
      /\ "algorithm" \notin Element(s) =>
           \A i \in DOMAIN held[s].cells :
             i >= reading[s] => held[s].cells[i] \intersect Run = {}
===============================================================================
