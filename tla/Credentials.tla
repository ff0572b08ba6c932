------------------------------ MODULE Credentials ------------------------------
(***************************************************************************)
(* The credentials of a client (sdk/auth.go, RefreshAuth, AddAuthHeader,   *)
(* the request options): callers make requests while other threads of the  *)
(* foreign program refresh the token, with no lock between them.           *)
(*                                                                         *)
(* A client has its request options, one option with the token in it, and  *)
(* the scheduler client the token again as a string.  A plain request      *)
(* takes the credential of the options.  The payload request of            *)
(* GetRunPayload has an option of its own, which replaces the one of the   *)
(* client, and takes the string.  The receiver client has plain requests   *)
(* only.  A pointer is written at once; a string is two words, a pointer   *)
(* and a length, which are written, and read, in whichever order the       *)
(* compiler chose, and what was read is used later.                        *)
(***************************************************************************)
EXTENDS FiniteSets

CONSTANTS
  Refreshers,         \* the threads that call RefreshAuth
  Callers,            \* the threads that make requests
  Tokens,             \* a token for each refresh
  Created,            \* the token the client was created with
  None,               \* no options, no string, no header
  Torn                \* the pointer of one token with the length of another

ASSUME TokensAssumption == Created \notin Tokens /\ IsFiniteSet(Tokens)
ASSUME NoneAssumption == {None, Torn} \intersect (Tokens \union {Created}) = {}
ASSUME TornAssumption == None # Torn

VARIABLES
  options,            \* the token in the request options
  pointer, length,    \* the token string: whose characters, whose length
  refresh,            \* where each refresher is, and with which token
  call,               \* where each caller is
  kind,               \* the request it makes
  seen,               \* the words of the token string it has loaded
  header,             \* the credential that request has
  begun,              \* history: the tokens whose refresh has begun
  returned,           \* history: the tokens whose refresh has returned
  before,             \* history: those that had returned when one began
  floor,              \* history: those that had returned when a request began
  overlapped          \* history: whether two refreshes were ever under way

clientVars == <<options, pointer, length>>
callVars == <<call, kind, seen, header, floor>>
historyVars == <<begun, returned, before, overlapped>>
vars == <<clientVars, refresh, callVars, historyVars>>

NothingSeen == [pointer |-> None, length |-> None]

\* The C API creates a client with an option, if the token is empty too; who
\* uses the SDK may leave it out.
Init ==
  /\ options \in {Created, None}
  /\ pointer = None /\ length = None
  /\ refresh = [u \in Refreshers |-> [pc |-> "idle", token |-> None]]
  /\ call = [c \in Callers |-> "idle"]
  /\ kind = [c \in Callers |-> "plain"]
  /\ seen = [c \in Callers |-> NothingSeen]
  /\ header = [c \in Callers |-> None]
  /\ begun = {} /\ returned = {}
  /\ before = [t \in Tokens |-> {}]
  /\ floor = [c \in Callers |-> {}]
  /\ overlapped = FALSE

\* A caller has brought the process down.
Down == \E c \in Callers : call[c] = "crashed"

-------------------------------------------------------------------------------
(* RefreshAuth.                                                            *)

At(u, place) == ~Down /\ refresh[u].pc = place

Go(u, place) == refresh' = [refresh EXCEPT ![u].pc = place]

BeginRefresh(u, t) ==
  /\ At(u, "idle")
  /\ t \notin begun
  /\ refresh' = [refresh EXCEPT ![u] = [pc |-> "options", token |-> t]]
  /\ begun' = begun \union {t}
  /\ before' = [before EXCEPT ![t] = returned]
  /\ overlapped' = (overlapped \/ \E v \in Refreshers : refresh[v].pc # "idle")
  /\ UNCHANGED <<clientVars, callVars, returned>>

\* Mutation: options that are there are kept.
WriteOptionsOnce(u) ==
  /\ At(u, "options")
  /\ options' = IF options = None THEN refresh[u].token ELSE options
  /\ Go(u, "token")
  /\ UNCHANGED <<pointer, length, callVars, historyVars>>

WriteOptions(u) ==
  /\ At(u, "options")
  /\ options' = refresh[u].token
  /\ Go(u, "token")
  /\ UNCHANGED <<pointer, length, callVars, historyVars>>

\* Mutation: the call is back before the string is written whole.
ReturnEarly(u, last) ==
  returned' = returned \union {refresh[u].token}

\* The first word of the string, or the last.
Return(u, last) ==
  returned' = IF last THEN returned \union {refresh[u].token} ELSE returned

WritePointer(u) ==
  /\ At(u, "token") \/ At(u, "pointer")
  /\ pointer' = refresh[u].token
  /\ LET last == At(u, "pointer")
     IN  Return(u, last) /\ Go(u, IF last THEN "idle" ELSE "length")
  /\ UNCHANGED <<options, length, callVars, begun, before, overlapped>>

WriteLength(u) ==
  /\ At(u, "token") \/ At(u, "length")
  /\ length' = refresh[u].token
  /\ LET last == At(u, "length")
     IN  Return(u, last) /\ Go(u, IF last THEN "idle" ELSE "pointer")
  /\ UNCHANGED <<options, pointer, callVars, begun, before, overlapped>>

-------------------------------------------------------------------------------
(* The requests.                                                           *)

Ready(c, place) == ~Down /\ call[c] = place

Begin(c, k) ==
  /\ Ready(c, "idle")
  /\ kind' = [kind EXCEPT ![c] = k]
  /\ call' = [call EXCEPT ![c] = IF k = "payload" THEN "check" ELSE "options"]
  /\ floor' = [floor EXCEPT ![c] = returned]
  /\ UNCHANGED <<clientVars, refresh, seen, header, historyVars>>

SendWith(c, credential) ==
  /\ header' = [header EXCEPT ![c] = credential]
  /\ call' = [call EXCEPT ![c] = "sent"]
  /\ seen' = [seen EXCEPT ![c] = NothingSeen]
  /\ UNCHANGED <<clientVars, refresh, kind, floor, historyVars>>

\* Mutation: the options are read once and kept for the polls that follow.
ReadOptionsOnce(c) ==
  Ready(c, "options") /\ SendWith(c, IF header[c] = None THEN options ELSE header[c])

\* getRequestOptions, for every request anew.
ReadOptions(c) == Ready(c, "options") /\ SendWith(c, options)

\* AddAuthHeader.  Each word of the string is loaded by itself, in either
\* order; that there is a token is a question of its length only.
Load(c, words, place) ==
  /\ seen' = [seen EXCEPT ![c] = words]
  /\ call' = [call EXCEPT ![c] = place]
  /\ UNCHANGED <<clientVars, refresh, kind, header, floor, historyVars>>

LoadLength(c) ==
  /\ Ready(c, "check") \/ Ready(c, "length")
  /\ \/ length = None /\ SendWith(c, None)
     \/ /\ length # None
        /\ Load(c, [seen[c] EXCEPT !.length = length],
                IF call[c] = "check" THEN "pointer" ELSE "use")

LoadPointer(c) ==
  /\ Ready(c, "check") \/ Ready(c, "pointer")
  /\ Load(c, [seen[c] EXCEPT !.pointer = pointer],
          IF call[c] = "check" THEN "length" ELSE "use")

\* What is formatted may have the length that was checked or one loaded again.
LoadLengthAgain(c) ==
  /\ Ready(c, "pointer") \/ Ready(c, "use")
  /\ Load(c, [seen[c] EXCEPT !.length = length], call[c])

\* Two tokens may have the same length.
UseToken(c) ==
  /\ Ready(c, "use")
  /\ seen[c].pointer # None
  /\ \E credential \in {seen[c].pointer} \union
         (IF seen[c].pointer = seen[c].length THEN {} ELSE {Torn}) :
       SendWith(c, credential)

\* A length without characters.
UseNothing(c) ==
  /\ Ready(c, "use")
  /\ seen[c].pointer = None
  /\ call' = [call EXCEPT ![c] = "crashed"]
  /\ UNCHANGED <<clientVars, refresh, kind, seen, header, floor, historyVars>>

Answered(c) ==
  /\ Ready(c, "sent")
  /\ call' = [call EXCEPT ![c] = "idle"]
  /\ UNCHANGED <<clientVars, refresh, kind, seen, header, floor, historyVars>>

-------------------------------------------------------------------------------
Request(c) ==
  \/ ReadOptions(c)
  \/ LoadLength(c) \/ LoadPointer(c) \/ LoadLengthAgain(c)
  \/ UseToken(c) \/ UseNothing(c)

Crashed == Down /\ UNCHANGED vars

Next ==
  \/ \E u \in Refreshers :
       \/ \E t \in Tokens : BeginRefresh(u, t)
       \/ WriteOptions(u) \/ WritePointer(u) \/ WriteLength(u)
  \/ \E c \in Callers :
       \/ \E k \in {"plain", "payload"} : Begin(c, k)
       \/ Request(c) \/ Answered(c)
  \/ Crashed

Spec == Init /\ [][Next]_vars

\* A request that has begun is made, and answered or given up.
FairSpec == Spec /\ \A c \in Callers : WF_vars(Request(c) \/ Answered(c))

-------------------------------------------------------------------------------
(* Properties.                                                             *)

\* Whether a token has been replaced by one of the refreshes in done: by one
\* that began when its own refresh had returned.
Replaced(t, done) ==
  \/ t \in {Created, None} /\ done # {}
  \/ \E later \in done : t \in before[later]

Sent(c) == call[c] = "sent"

\* Every variable stays in its type; a refresh that is under way has begun and
\* has not returned.
TypeOK ==
  /\ options \in Tokens \union {Created, None}
  /\ pointer \in Tokens \union {None}
  /\ length \in Tokens \union {None}
  /\ refresh \in [Refreshers ->
       [pc : {"idle", "options", "token", "pointer", "length"},
        token : Tokens \union {None}]]
  /\ \A u \in Refreshers :
       refresh[u].pc # "idle" => refresh[u].token \in begun \ returned
  /\ call \in [Callers -> {"idle", "options", "check", "pointer", "length", "use",
                          "sent", "crashed"}]
  /\ kind \in [Callers -> {"plain", "payload"}]
  /\ seen \in [Callers -> [pointer : Tokens \union {None},
                          length : Tokens \union {None}]]
  /\ header \in [Callers -> Tokens \union {Created, None, Torn}]
  /\ begun \subseteq Tokens
  /\ returned \subseteq begun
  /\ before \in [Tokens -> SUBSET Tokens]
  /\ floor \in [Callers -> SUBSET returned]
  /\ overlapped \in BOOLEAN

\* After RefreshAuth has returned, no request, plain or for a payload, uses a
\* credential it has replaced, however many threads refresh and whoever was
\* first (scheduler.go:82-99): a waiter that polls for hours has the new token
\* from its next poll on, for the options are read for every request.
NoReplacedCredential ==
  \A c \in Callers : Sent(c) => ~Replaced(header[c], floor[c])

\* The unlocked string hurts nobody but the requests that began before it was
\* whole: a header is torn only in a payload request, and only if a refresh is
\* or was under way beside that request or beside another refresh; and the
\* request that ends the process is one for a payload that began before any
\* refresh had returned, though by then some may have (scheduler.go:82-99).
TornOnlyInARace ==
  \A c \in Callers :
    /\ Sent(c) /\ header[c] = Torn =>
         /\ kind[c] = "payload"
         /\ overlapped \/ begun \ floor[c] # {}
    /\ call[c] = "crashed" =>
         /\ kind[c] = "payload"
         /\ floor[c] = {} /\ begun # {}

\* In the end no request uses a token that has been replaced: a refresh reaches
\* every caller, also one that has been polling all along.
CallersCatchUp ==
  <>[](~Down => \A c \in Callers : Sent(c) => ~Replaced(header[c], returned))
===============================================================================
