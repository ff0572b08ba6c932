--------------------------- MODULE Credentials_proofs -------------------------
(***************************************************************************)
(* Proofs about Credentials, for any threads and any finite set of tokens. *)
(*                                                                         *)
(* A refresh that has written a variable can be written over only by one   *)
(* that has not returned, and such a one has been replaced by nobody: what *)
(* a written variable holds is no token that was there before (Fresh).     *)
(***************************************************************************)
EXTENDS Credentials, Integers, TLAPS

Busy(u) == refresh[u].pc # "idle"

\* The tokens whose refresh has written a variable: it has returned, or is at
\* one of these places.
Written(places) ==
  returned \union
    {refresh[u].token : u \in {v \in Refreshers : refresh[v].pc \in places}}

\* The variable holds a token that no refresh that wrote it has replaced.
Fresh(value, places) ==
  \A later \in Written(places) : value \in Tokens /\ value \notin before[later]

AfterOptions == {"token", "pointer", "length"}

AllFresh ==
  /\ Fresh(options, AfterOptions)
  /\ Fresh(pointer, {"length"})
  /\ Fresh(length, {"pointer"})

\* Two refreshes that are under way have two tokens, and what a refresh may
\* replace had returned when it began.
OneEach ==
  /\ \A u, v \in Refreshers :
       Busy(u) /\ Busy(v) /\ refresh[u].token = refresh[v].token => u = v
  /\ \A t \in Tokens : before[t] \subseteq returned

\* While no two refreshes have overlapped the string is torn only in the middle
\* of one.
Whole ==
  ~overlapped =>
    /\ \A u, v \in Refreshers : Busy(u) /\ Busy(v) => u = v
    /\ \A u \in Refreshers :
         /\ refresh[u].pc = "pointer" => length = refresh[u].token
         /\ refresh[u].pc = "length" => pointer = refresh[u].token
    /\ \/ pointer = length
       \/ \E u \in Refreshers : refresh[u].pc \in {"pointer", "length"}

\* Who looks at the string has a payload to ask for, and who is past the check
\* has seen a length.
Looking ==
  /\ \A c \in Callers :
       /\ call[c] \in {"check", "pointer", "length", "use", "crashed"} =>
            kind[c] = "payload"
       /\ call[c] \in {"pointer", "use"} => length # None
  /\ length # None => begun # {}

\* The characters a request has loaded are of no token that had been replaced
\* when it began; and unless a refresh is or was under way beside it, or beside
\* another refresh, the words it has loaded are those that are still there.
HasPointer(c) == call[c] \in {"length", "use"}
HasLength(c) == call[c] \in {"pointer", "use"}

Loaded ==
  \A c \in Callers :
    /\ HasPointer(c) => ~Replaced(seen[c].pointer, floor[c])
    /\ \/ overlapped \/ begun \ floor[c] # {}
       \/ /\ HasPointer(c) => seen[c].pointer = pointer
          /\ HasLength(c) => seen[c].length = length

IInv ==
  /\ TypeOK
  /\ AllFresh
  /\ OneEach
  /\ Whole
  /\ Looking
  /\ Loaded
  /\ NoReplacedCredential
  /\ TornOnlyInARace

-------------------------------------------------------------------------------
LEMMA InitIInv == Init => IInv
<1> SUFFICES ASSUME Init PROVE IInv
  OBVIOUS
<1>1. Written(AfterOptions) = {} /\ Written({"length"}) = {}
      /\ Written({"pointer"}) = {}
  BY DEF Init, Written, AfterOptions
<1>2. TypeOK
  BY DEF Init, NothingSeen, TypeOK
<1>3. AllFresh /\ OneEach /\ Whole /\ Looking /\ Loaded
  BY <1>1
  DEF Init, AllFresh, Fresh, OneEach, Whole, Looking, Loaded, HasPointer,
      HasLength, Busy
<1>4. NoReplacedCredential /\ TornOnlyInARace
  BY DEF Init, NoReplacedCredential, TornOnlyInARace, Sent
<1> QED
  BY <1>2, <1>3, <1>4 DEF IInv

\* A token that has been written but not returned replaces nothing yet.
LEMMA NewIsFresh ==
  ASSUME OneEach, TypeOK, NEW u \in Refreshers, Busy(u)
  PROVE  /\ refresh[u].token \in Tokens
         /\ \A t \in Tokens : refresh[u].token \notin before[t]
BY DEF OneEach, TypeOK, Busy

\* A value that is fresh for all that have returned is not replaced for who
\* began earlier.
LEMMA FreshIsNotReplaced ==
  ASSUME TypeOK, OneEach, NEW value, NEW places, Fresh(value, places),
         NEW c \in Callers
  PROVE  ~Replaced(value, floor[c])
BY NoneAssumption, TokensAssumption
DEF TypeOK, Fresh, Written, Replaced

-------------------------------------------------------------------------------
(* The refreshes.                                                          *)

\* A step of a refresh leaves the requests as they are: they are still right
\* when more tokens have begun, and what they have loaded may be written over,
\* for that refresh is under way beside them.
LEMMA RequestsKept ==
  ASSUME IInv, UNCHANGED callVars,
         begun \subseteq begun', overlapped => overlapped',
         NEW t \in begun' \ returned,
         \A s \in begun : before'[s] = before[s]
  PROVE  NoReplacedCredential' /\ TornOnlyInARace' /\ Loaded'
<1>1. \A c \in Callers : floor[c] \subseteq begun /\ floor[c] \subseteq returned
  BY DEF IInv, TypeOK
<1>2. \A c \in Callers : \A s : Replaced(s, floor[c])' => Replaced(s, floor[c])
  BY <1>1 DEF Replaced, callVars
<1>3. NoReplacedCredential'
  BY <1>2 DEF IInv, NoReplacedCredential, Replaced, Sent, callVars
<1>4. TornOnlyInARace'
  BY DEF IInv, TornOnlyInARace, Sent, callVars
<1>5. Loaded'
  <2> SUFFICES ASSUME NEW c \in Callers
               PROVE  /\ HasPointer(c)' => ~Replaced(seen[c].pointer, floor[c])'
                      /\ t \in begun' \ floor'[c]
    BY DEF Loaded
  <2>1. HasPointer(c)' => ~Replaced(seen[c].pointer, floor[c])'
    BY <1>1 DEF IInv, Loaded, HasPointer, Replaced, callVars
  <2>2. t \in begun' \ floor'[c]
    BY <1>1 DEF callVars
  <2> QED
    BY <2>1, <2>2
<1> QED
  BY <1>3, <1>4, <1>5

LEMMA BeginKeeps ==
  ASSUME IInv, NEW u \in Refreshers, NEW t \in Tokens, BeginRefresh(u, t)
  PROVE  IInv'
<1>1. /\ refresh[u].pc = "idle" /\ t \notin begun
      /\ refresh' = [refresh EXCEPT ![u] = [pc |-> "options", token |-> t]]
      /\ before' = [before EXCEPT ![t] = returned]
      /\ begun' = begun \union {t}
      /\ UNCHANGED <<clientVars, callVars, returned>>
      /\ overlapped' = (overlapped \/ \E v \in Refreshers : Busy(v))
  BY DEF BeginRefresh, At, Busy
<1>2. TypeOK'
  BY <1>1 DEF IInv, TypeOK, clientVars, callVars
<1>3. \A places : "idle" \notin places /\ "options" \notin places =>
                    Written(places)' = Written(places)
  BY <1>1 DEF IInv, TypeOK, Written
<1>4. \A places : "idle" \notin places => t \notin Written(places)
  BY <1>1 DEF IInv, TypeOK, Written
<1>5. \A value, places :
        "idle" \notin places /\ "options" \notin places /\ Fresh(value, places)
          => Fresh(value, places)'
  BY <1>1, <1>3, <1>4 DEF IInv, TypeOK, Fresh
<1>6. AllFresh'
  BY <1>1, <1>5 DEF IInv, AllFresh, AfterOptions, clientVars
<1>7. OneEach' /\ Whole' /\ Looking'
  <2>1. OneEach'
    BY <1>1 DEF IInv, TypeOK, OneEach, Busy
  <2>2. Whole'
    <3>1. /\ refresh'[u].pc = "options"
          /\ \A v \in Refreshers \ {u} : refresh'[v] = refresh[v]
      BY <1>1 DEF IInv, TypeOK
    <3>2. ~overlapped' => /\ ~overlapped /\ pointer = length
                          /\ \A v \in Refreshers : refresh[v].pc = "idle"
      BY <1>1 DEF IInv, Whole, Busy
    <3> QED
      BY <1>1, <3>1, <3>2 DEF Whole, Busy, clientVars
  <2>3. Looking'
    BY <1>1 DEF IInv, Looking, clientVars, callVars
  <2> QED
    BY <2>1, <2>2, <2>3
<1>8. NoReplacedCredential' /\ TornOnlyInARace' /\ Loaded'
  BY <1>1, RequestsKept DEF IInv, TypeOK
<1> QED
  BY <1>2, <1>6, <1>7, <1>8 DEF IInv

\* A value that was fresh stays so while no more refreshes count as writers of
\* its variable.
LEMMA FreshKept ==
  ASSUME NEW value, NEW places, Fresh(value, places), before' = before,
         Written(places)' \subseteq Written(places)
  PROVE  Fresh(value, places)'
BY DEF Fresh

LEMMA WriteOptionsKeeps ==
  ASSUME IInv, NEW u \in Refreshers, WriteOptions(u)
  PROVE  IInv'
<1> DEFINE t == refresh[u].token
<1>1. /\ refresh[u].pc = "options"
      /\ options' = t
      /\ refresh' = [refresh EXCEPT ![u].pc = "token"]
      /\ UNCHANGED <<pointer, length, callVars, historyVars>>
  BY DEF WriteOptions, At, Go
<1>2. t \in Tokens /\ \A s \in Tokens : t \notin before[s]
  BY <1>1, NewIsFresh DEF IInv, Busy
<1>3. TypeOK'
  BY <1>1, <1>2 DEF IInv, TypeOK, callVars, historyVars
<1>4. \A places : {"token", "options"} \intersect places = {} =>
                    Written(places)' \subseteq Written(places)
  BY <1>1 DEF IInv, TypeOK, Written, historyVars
<1>5. Fresh(pointer, {"length"})' /\ Fresh(length, {"pointer"})'
  BY <1>1, <1>4, FreshKept DEF IInv, AllFresh, historyVars
<1>6. Written(AfterOptions)' \subseteq Tokens
  BY <1>3 DEF TypeOK, Written, AfterOptions
<1>7. Fresh(options, AfterOptions)'
  BY <1>1, <1>2, <1>6 DEF Fresh, historyVars
<1>8. OneEach' /\ Whole' /\ Looking'
  <2>1. OneEach'
    BY <1>1 DEF IInv, TypeOK, OneEach, Busy, historyVars
  <2>2. Whole'
    BY <1>1 DEF IInv, TypeOK, Whole, Busy, historyVars
  <2>3. Looking'
    BY <1>1 DEF IInv, Looking, callVars, historyVars
  <2> QED
    BY <2>1, <2>2, <2>3
<1>9. NoReplacedCredential' /\ TornOnlyInARace' /\ Loaded'
  BY <1>1, RequestsKept DEF IInv, TypeOK, historyVars
<1> QED
  BY <1>3, <1>5, <1>7, <1>8, <1>9 DEF IInv, AllFresh

LEMMA WritePointerKeeps ==
  ASSUME IInv, NEW u \in Refreshers, WritePointer(u)
  PROVE  IInv'
<1> DEFINE t == refresh[u].token
<1>1. /\ pointer' = t
      /\ \/ /\ refresh[u].pc = "token"
            /\ refresh' = [refresh EXCEPT ![u].pc = "length"]
            /\ returned' = returned
         \/ /\ refresh[u].pc = "pointer"
            /\ refresh' = [refresh EXCEPT ![u].pc = "idle"]
            /\ returned' = returned \union {t}
      /\ UNCHANGED <<options, length, callVars, begun, before,
                     overlapped>>
  BY DEF WritePointer, At, Go, Return
<1>2. t \in Tokens /\ \A s \in Tokens : t \notin before[s]
  BY <1>1, NewIsFresh DEF IInv, Busy
<1>3. TypeOK'
  <2>1. refresh[u].pc # "idle" /\ t \in begun \ returned
    BY <1>1 DEF IInv, TypeOK
  <2>2. \A v \in Refreshers :
          refresh'[v].pc # "idle" => refresh'[v].token \in begun' \ returned'
    BY <1>1, <2>1 DEF IInv, TypeOK, OneEach, Busy
  <2>3. refresh' \in [Refreshers ->
          [pc : {"idle", "options", "token", "pointer", "length"},
           token : Tokens \union {None}]]
    BY <1>1 DEF IInv, TypeOK
  <2>4. returned \subseteq returned' /\ returned' \subseteq begun'
    BY <1>1, <2>1 DEF IInv, TypeOK
  <2> QED
    BY <1>1, <1>2, <2>2, <2>3, <2>4 DEF IInv, TypeOK, callVars
<1>4. \A places : ("token" \in places \/ "length" \notin places)
                    /\ "pointer" \in places /\ "idle" \notin places =>
                      Written(places)' \subseteq Written(places)
  BY <1>1 DEF IInv, TypeOK, Written
<1>5. Fresh(length, {"pointer"})' /\ Fresh(options, AfterOptions)'
  BY <1>1, <1>4, FreshKept DEF IInv, AllFresh, AfterOptions
<1>6. Written({"length"})' \subseteq Tokens
  BY <1>3 DEF TypeOK, Written
<1>7. Fresh(pointer, {"length"})'
  BY <1>1, <1>2, <1>6 DEF Fresh
<1>8. OneEach' /\ Whole' /\ Looking'
  <2>1. OneEach'
    <3>1. \A v \in Refreshers :
            refresh'[v].token = refresh[v].token /\ (Busy(v)' => Busy(v))
      BY <1>1 DEF IInv, TypeOK, Busy
    <3>2. returned \subseteq returned' /\ before' = before
      BY <1>1
    <3> QED
      BY <3>1, <3>2 DEF IInv, OneEach
  <2>2. Whole'
    <3>1. /\ \/ refresh'[u].pc = "length" /\ refresh'[u].token = t
             \/ refresh'[u].pc = "idle" /\ refresh[u].pc = "pointer"
          /\ \A v \in Refreshers \ {u} : refresh'[v] = refresh[v]
      BY <1>1 DEF IInv, TypeOK
    <3>2. ~overlapped =>
            /\ refresh[u].pc = "pointer" => length = t
            /\ \A v \in Refreshers \ {u} : refresh[v].pc = "idle"
      BY <1>1 DEF IInv, Whole, Busy
    <3> QED
      BY <1>1, <3>1, <3>2 DEF Whole, Busy
  <2>3. Looking'
    BY <1>1, NoneAssumption DEF IInv, TypeOK, Looking, callVars
  <2> QED
    BY <2>1, <2>2, <2>3
<1>9. NoReplacedCredential' /\ TornOnlyInARace' /\ Loaded'
  BY <1>1, RequestsKept DEF IInv, TypeOK
<1> QED
  BY <1>3, <1>5, <1>7, <1>8, <1>9 DEF IInv, AllFresh

LEMMA WriteLengthKeeps ==
  ASSUME IInv, NEW u \in Refreshers, WriteLength(u)
  PROVE  IInv'
<1> DEFINE t == refresh[u].token
<1>1. /\ length' = t
      /\ \/ /\ refresh[u].pc = "token"
            /\ refresh' = [refresh EXCEPT ![u].pc = "pointer"]
            /\ returned' = returned
         \/ /\ refresh[u].pc = "length"
            /\ refresh' = [refresh EXCEPT ![u].pc = "idle"]
            /\ returned' = returned \union {t}
      /\ UNCHANGED <<options, pointer, callVars, begun, before,
                     overlapped>>
  BY DEF WriteLength, At, Go, Return
<1>2. t \in Tokens /\ \A s \in Tokens : t \notin before[s]
  BY <1>1, NewIsFresh DEF IInv, Busy
<1>3. TypeOK'
  <2>1. refresh[u].pc # "idle" /\ t \in begun \ returned
    BY <1>1 DEF IInv, TypeOK
  <2>2. \A v \in Refreshers :
          refresh'[v].pc # "idle" => refresh'[v].token \in begun' \ returned'
    BY <1>1, <2>1 DEF IInv, TypeOK, OneEach, Busy
  <2>3. refresh' \in [Refreshers ->
          [pc : {"idle", "options", "token", "pointer", "length"},
           token : Tokens \union {None}]]
    BY <1>1 DEF IInv, TypeOK
  <2>4. returned \subseteq returned' /\ returned' \subseteq begun'
    BY <1>1, <2>1 DEF IInv, TypeOK
  <2> QED
    BY <1>1, <1>2, <2>2, <2>3, <2>4 DEF IInv, TypeOK, callVars
<1>4. \A places : ("token" \in places \/ "pointer" \notin places)
                    /\ "length" \in places /\ "idle" \notin places =>
                      Written(places)' \subseteq Written(places)
  BY <1>1 DEF IInv, TypeOK, Written
<1>5. Fresh(pointer, {"length"})' /\ Fresh(options, AfterOptions)'
  BY <1>1, <1>4, FreshKept DEF IInv, AllFresh, AfterOptions
<1>6. Written({"pointer"})' \subseteq Tokens
  BY <1>3 DEF TypeOK, Written
<1>7. Fresh(length, {"pointer"})'
  BY <1>1, <1>2, <1>6 DEF Fresh
<1>8. OneEach' /\ Whole' /\ Looking'
  <2>1. OneEach'
    <3>1. \A v \in Refreshers :
            refresh'[v].token = refresh[v].token /\ (Busy(v)' => Busy(v))
      BY <1>1 DEF IInv, TypeOK, Busy
    <3>2. returned \subseteq returned' /\ before' = before
      BY <1>1
    <3> QED
      BY <3>1, <3>2 DEF IInv, OneEach
  <2>2. Whole'
    <3>1. /\ \/ refresh'[u].pc = "pointer" /\ refresh'[u].token = t
             \/ refresh'[u].pc = "idle" /\ refresh[u].pc = "length"
          /\ \A v \in Refreshers \ {u} : refresh'[v] = refresh[v]
      BY <1>1 DEF IInv, TypeOK
    <3>2. ~overlapped =>
            /\ refresh[u].pc = "length" => pointer = t
            /\ \A v \in Refreshers \ {u} : refresh[v].pc = "idle"
      BY <1>1 DEF IInv, Whole, Busy
    <3> QED
      BY <1>1, <3>1, <3>2 DEF Whole, Busy
  <2>3. Looking'
    BY <1>1, NoneAssumption DEF IInv, TypeOK, Looking, callVars
  <2> QED
    BY <2>1, <2>2, <2>3
<1>9. NoReplacedCredential' /\ TornOnlyInARace' /\ Loaded'
  BY <1>1, RequestsKept DEF IInv, TypeOK
<1> QED
  BY <1>3, <1>5, <1>7, <1>8, <1>9 DEF IInv, AllFresh

-------------------------------------------------------------------------------
(* The requests.                                                           *)

\* A request changes nothing of the client or of the refreshes.
LEMMA ClientKept ==
  ASSUME IInv, UNCHANGED <<clientVars, refresh, historyVars>>
  PROVE  AllFresh' /\ OneEach' /\ Whole'
<1>1. \A places : Written(places)' = Written(places)
  BY DEF Written, historyVars
<1>2. AllFresh'
  BY <1>1 DEF IInv, AllFresh, Fresh, clientVars, historyVars
<1>3. OneEach' /\ Whole'
  BY DEF IInv, OneEach, Whole, Busy, clientVars, historyVars
<1> QED
  BY <1>2, <1>3

\* A step of one request leaves the others as they are.
LEMMA OthersKept ==
  ASSUME IInv, NEW c \in Callers,
         UNCHANGED <<clientVars, refresh, historyVars>>,
         \A d \in Callers \ {c} :
           /\ call'[d] = call[d] /\ kind'[d] = kind[d] /\ seen'[d] = seen[d]
           /\ header'[d] = header[d] /\ floor'[d] = floor[d],
         TypeOK',
         call'[c] \in {"check", "pointer", "length", "use", "crashed"} =>
           kind'[c] = "payload",
         call'[c] \in {"pointer", "use"} => length # None,
         HasPointer(c)' => ~Replaced(seen'[c].pointer, floor'[c]),
         \/ overlapped \/ begun \ floor'[c] # {}
         \/ /\ HasPointer(c)' => seen'[c].pointer = pointer
            /\ HasLength(c)' => seen'[c].length = length,
         call'[c] = "sent" =>
           /\ ~Replaced(header'[c], floor'[c])
           /\ header'[c] = Torn =>
                /\ kind'[c] = "payload"
                /\ overlapped \/ begun \ floor'[c] # {},
         call'[c] = "crashed" => floor'[c] = {} /\ begun # {}
  PROVE  IInv'
<1>1. AllFresh' /\ OneEach' /\ Whole'
  BY ClientKept
<1>2. Looking'
  BY DEF IInv, Looking, clientVars, historyVars
<1>3. Loaded'
  <2> SUFFICES ASSUME NEW d \in Callers
               PROVE  /\ HasPointer(d)' => ~Replaced(seen[d].pointer, floor[d])'
                      /\ \/ overlapped \/ begun \ floor'[d] # {}
                         \/ /\ HasPointer(d)' => seen'[d].pointer = pointer
                            /\ HasLength(d)' => seen'[d].length = length
    BY DEF Loaded, clientVars, historyVars
  <2> QED
    BY DEF IInv, Loaded, HasPointer, HasLength, Replaced, historyVars
<1>4. NoReplacedCredential'
  BY DEF IInv, NoReplacedCredential, Replaced, Sent, historyVars
<1>5. TornOnlyInARace'
  BY DEF IInv, TornOnlyInARace, Sent, historyVars
<1> QED
  BY <1>1, <1>2, <1>3, <1>4, <1>5 DEF IInv

LEMMA SendKeeps ==
  ASSUME IInv, NEW c \in Callers,
         NEW credential \in Tokens \union {Created, None, Torn},
         SendWith(c, credential),
         ~Replaced(credential, floor[c]),
         credential = Torn =>
           kind[c] = "payload" /\ (overlapped \/ begun \ floor[c] # {})
  PROVE  IInv'
<1>1. TypeOK'
  BY DEF SendWith, NothingSeen, IInv, TypeOK, clientVars, historyVars
<1>2. call'[c] = "sent" /\ header'[c] = credential
  BY DEF SendWith, IInv, TypeOK
<1>3. UNCHANGED <<clientVars, refresh, kind, floor, historyVars>>
  BY DEF SendWith
<1>4. \A d \in Callers \ {c} :
        call'[d] = call[d] /\ seen'[d] = seen[d] /\ header'[d] = header[d]
  BY DEF SendWith, IInv, TypeOK
<1> QED
  BY <1>1, <1>2, <1>3, <1>4, OthersKept DEF HasPointer, HasLength

\* A request that loads a word is on its way to use it.
LEMMA LoadKeeps ==
  ASSUME IInv, NEW c \in Callers,
         NEW words \in [pointer : Tokens \union {None},
                        length : Tokens \union {None}],
         NEW place \in {"pointer", "length", "use"}, Load(c, words, place),
         kind[c] = "payload",
         place \in {"pointer", "use"} => length # None,
         place \in {"length", "use"} =>
           \/ words.pointer = pointer
           \/ HasPointer(c) /\ words.pointer = seen[c].pointer,
         place \in {"pointer", "use"} =>
           \/ words.length = length
           \/ HasLength(c) /\ words.length = seen[c].length
  PROVE  IInv'
<1>1. /\ call'[c] = place /\ seen'[c] = words
      /\ \A d \in Callers \ {c} : call'[d] = call[d] /\ seen'[d] = seen[d]
      /\ UNCHANGED <<clientVars, refresh, kind, header, floor, historyVars>>
  BY DEF Load, IInv, TypeOK
<1>2. TypeOK'
  BY DEF Load, IInv, TypeOK, clientVars, historyVars
<1>3. HasPointer(c)' => ~Replaced(seen'[c].pointer, floor'[c])
  <2>1. ~Replaced(pointer, floor[c])
    BY FreshIsNotReplaced DEF IInv, AllFresh
  <2> QED
    BY <1>1, <2>1 DEF IInv, Loaded, HasPointer
<1>4. \/ overlapped \/ begun \ floor'[c] # {}
      \/ /\ HasPointer(c)' => seen'[c].pointer = pointer
         /\ HasLength(c)' => seen'[c].length = length
  BY <1>1 DEF IInv, Loaded, HasPointer, HasLength
<1> QED
  BY <1>1, <1>2, <1>3, <1>4, OthersKept

LEMMA NextIInv == IInv /\ [Next]_vars => IInv'
<1> SUFFICES ASSUME IInv, [Next]_vars PROVE IInv'
  OBVIOUS
<1>1. ASSUME NEW u \in Refreshers, NEW t \in Tokens, BeginRefresh(u, t)
      PROVE  IInv'
  BY <1>1, BeginKeeps
<1>2. ASSUME NEW u \in Refreshers,
             WriteOptions(u) \/ WritePointer(u) \/ WriteLength(u)
      PROVE  IInv'
  BY <1>2, WriteOptionsKeeps, WritePointerKeeps, WriteLengthKeeps
<1>3. ASSUME NEW c \in Callers, NEW k \in {"plain", "payload"}, Begin(c, k)
      PROVE  IInv'
  <2>1. TypeOK'
    BY <1>3 DEF Begin, Ready, IInv, TypeOK, clientVars, historyVars
  <2>2. /\ call'[c] = IF k = "payload" THEN "check" ELSE "options"
        /\ kind'[c] = k
        /\ \A d \in Callers \ {c} :
             call'[d] = call[d] /\ kind'[d] = kind[d] /\ floor'[d] = floor[d]
        /\ UNCHANGED <<clientVars, refresh, seen, header, historyVars>>
    BY <1>3 DEF Begin, IInv, TypeOK
  <2> QED
    BY <2>1, <2>2, OthersKept DEF HasPointer, HasLength
<1>4. ASSUME NEW c \in Callers, ReadOptions(c)
      PROVE  IInv'
  <2>1. options \in Tokens \union {Created, None} /\ options # Torn
    BY NoneAssumption, TornAssumption DEF IInv, TypeOK
  <2>2. ~Replaced(options, floor[c])
    BY FreshIsNotReplaced DEF IInv, AllFresh
  <2> QED
    BY <1>4, <2>1, <2>2, SendKeeps DEF ReadOptions
<1>5. ASSUME NEW c \in Callers, LoadLength(c)
      PROVE  IInv'
  <2>1. CASE length = None /\ SendWith(c, None)
    <3>1. ~Replaced(length, floor[c])
      BY FreshIsNotReplaced DEF IInv, AllFresh
    <3> QED
      BY <2>1, <3>1, SendKeeps, TornAssumption
  <2>2. CASE /\ length # None
             /\ Load(c, [seen[c] EXCEPT !.length = length],
                     IF call[c] = "check" THEN "pointer" ELSE "use")
    <3>1. call[c] \in {"check", "length"} /\ kind[c] = "payload"
      BY <1>5 DEF LoadLength, Ready, IInv, Looking
    <3>2. [seen[c] EXCEPT !.length = length]
            \in [pointer : Tokens \union {None}, length : Tokens \union {None}]
      BY DEF IInv, TypeOK
    <3>3. /\ [seen[c] EXCEPT !.length = length].length = length
          /\ [seen[c] EXCEPT !.length = length].pointer = seen[c].pointer
      BY DEF IInv, TypeOK
    <3>4. CASE call[c] = "check"
      <4>1. Load(c, [seen[c] EXCEPT !.length = length], "pointer")
        BY <2>2, <3>4
      <4> QED
        BY <2>2, <3>1, <3>2, <3>3, <4>1, LoadKeeps
    <3>5. CASE call[c] = "length"
      <4>1. Load(c, [seen[c] EXCEPT !.length = length], "use")
        BY <2>2, <3>5
      <4> QED
        BY <2>2, <3>1, <3>2, <3>3, <3>5, <4>1, LoadKeeps DEF HasPointer
    <3> QED
      BY <3>1, <3>4, <3>5
  <2> QED
    BY <1>5, <2>1, <2>2 DEF LoadLength
<1>6. ASSUME NEW c \in Callers, LoadPointer(c) \/ LoadLengthAgain(c)
      PROVE  IInv'
  <2> DEFINE other == [seen[c] EXCEPT !.pointer = pointer]
             again == [seen[c] EXCEPT !.length = length]
             Words == [pointer : Tokens \union {None}, length : Tokens \union {None}]
  <2>1. /\ other \in Words /\ again \in Words
        /\ other.pointer = pointer /\ other.length = seen[c].length
        /\ again.length = length /\ again.pointer = seen[c].pointer
    BY DEF IInv, TypeOK
  <2> HIDE DEF other, again
  <2>2. CASE LoadPointer(c)
    <3>1. /\ call[c] \in {"check", "pointer"} /\ kind[c] = "payload"
          /\ call[c] = "pointer" => length # None
          /\ Load(c, other, IF call[c] = "check" THEN "length" ELSE "use")
      BY <2>2 DEF LoadPointer, Ready, IInv, Looking, other
    <3>2. CASE call[c] = "check"
      <4>1. Load(c, other, "length")
        BY <3>1, <3>2
      <4> QED
        BY <2>1, <3>1, <4>1, LoadKeeps
    <3>3. CASE call[c] = "pointer"
      <4>1. Load(c, other, "use")
        BY <3>1, <3>3
      <4> QED
        BY <2>1, <3>1, <3>3, <4>1, LoadKeeps DEF HasLength
    <3> QED
      BY <3>1, <3>2, <3>3
  <2>3. CASE LoadLengthAgain(c)
    <3>1. /\ call[c] \in {"pointer", "use"} /\ kind[c] = "payload"
          /\ length # None
          /\ Load(c, again, call[c])
      BY <2>3 DEF LoadLengthAgain, Ready, IInv, Looking, again
    <3>2. CASE call[c] = "pointer"
      <4>1. Load(c, again, "pointer")
        BY <3>1, <3>2
      <4> QED
        BY <2>1, <3>1, <4>1, LoadKeeps
    <3>3. CASE call[c] = "use"
      <4>1. Load(c, again, "use")
        BY <3>1, <3>3
      <4> QED
        BY <2>1, <3>1, <3>3, <4>1, LoadKeeps DEF HasPointer
    <3> QED
      BY <3>1, <3>2, <3>3
  <2> QED
    BY <1>6, <2>2, <2>3
<1>7. ASSUME NEW c \in Callers, UseToken(c)
      PROVE  IInv'
  <2>1. call[c] = "use" /\ kind[c] = "payload"
    BY <1>7 DEF UseToken, Ready, IInv, Looking
  <2>2. PICK credential \in {seen[c].pointer} \union
               (IF seen[c].pointer = seen[c].length THEN {} ELSE {Torn}) :
          SendWith(c, credential)
    BY <1>7 DEF UseToken
  <2>3. CASE credential = seen[c].pointer
    <3>1. /\ seen[c].pointer \in Tokens \union {None}
          /\ seen[c].pointer # Torn
      BY NoneAssumption, TornAssumption DEF IInv, TypeOK
    <3>2. ~Replaced(seen[c].pointer, floor[c])
      BY <2>1 DEF IInv, Loaded, HasPointer
    <3> QED
      BY <2>2, <2>3, <3>1, <3>2, SendKeeps
  <2>4. CASE credential = Torn /\ seen[c].pointer # seen[c].length
    <3>1. ~Replaced(Torn, floor[c])
      BY NoneAssumption, TornAssumption DEF IInv, TypeOK, Replaced
    <3>2. overlapped \/ begun \ floor[c] # {}
      <4>1. overlapped \/ begun \ floor[c] # {} \/ pointer # length
        BY <2>1, <2>4 DEF IInv, Loaded, HasPointer, HasLength
      <4> QED
        BY <4>1 DEF IInv, TypeOK, Whole
    <3> QED
      BY <2>1, <2>2, <2>4, <3>1, <3>2, SendKeeps
  <2> QED
    BY <2>2, <2>3, <2>4
<1>8. ASSUME NEW c \in Callers, UseNothing(c)
      PROVE  IInv'
  <2>1. /\ call[c] = "use" /\ seen[c].pointer = None
        /\ call' = [call EXCEPT ![c] = "crashed"]
        /\ UNCHANGED <<clientVars, refresh, kind, seen, header, floor,
                       historyVars>>
    BY <1>8 DEF UseNothing, Ready
  <2>2. floor[c] = {} /\ begun # {} /\ kind[c] = "payload"
    BY <2>1 DEF IInv, Loaded, HasPointer, Replaced, Looking
  <2>3. TypeOK'
    BY <2>1 DEF IInv, TypeOK, clientVars, historyVars
  <2>4. /\ call'[c] = "crashed"
        /\ \A d \in Callers \ {c} : call'[d] = call[d]
    BY <2>1 DEF IInv, TypeOK
  <2> QED
    BY <2>1, <2>2, <2>3, <2>4, OthersKept DEF HasPointer, HasLength
<1>9. ASSUME NEW c \in Callers, Answered(c)
      PROVE  IInv'
  <2>1. TypeOK'
    BY <1>9 DEF Answered, Ready, IInv, TypeOK, clientVars, historyVars
  <2>2. /\ call'[c] = "idle"
        /\ \A d \in Callers \ {c} : call'[d] = call[d]
        /\ UNCHANGED <<clientVars, refresh, kind, seen, header, floor,
                       historyVars>>
    BY <1>9 DEF Answered, IInv, TypeOK
  <2> QED
    BY <2>1, <2>2, OthersKept DEF HasPointer, HasLength
<1>10. CASE UNCHANGED vars
  <2>1. TypeOK' /\ Looking' /\ NoReplacedCredential' /\ TornOnlyInARace'
    BY <1>10
    DEF vars, clientVars, callVars, historyVars, IInv, TypeOK, Looking,
        NoReplacedCredential, TornOnlyInARace, Replaced, Sent
  <2>2. Loaded'
    BY <1>10
    DEF vars, clientVars, callVars, historyVars, IInv, Loaded, HasPointer,
        HasLength, Replaced
  <2> QED
    BY <1>10, <2>1, <2>2, ClientKept DEF vars, IInv
<1> QED
  BY <1>1, <1>2, <1>3, <1>4, <1>5, <1>6, <1>7, <1>8, <1>9, <1>10
  DEF Next, Request, Crashed

LEMMA Invariance == Spec => []IInv
BY InitIInv, NextIInv, PTL DEF Spec

-------------------------------------------------------------------------------
(* How callers catch up.  A request is late if a refresh has returned      *)
(* since it began; LateLeft is the number of its steps that are left.      *)

RequestLeft(c) ==
  CASE call[c] \in {"idle", "crashed"} -> 0
    [] call[c] = "sent" -> 1
    [] call[c] \in {"options", "use"} -> 2
    [] call[c] \in {"pointer", "length"} -> 3
    [] call[c] = "check" -> 4

LateLeft(c) == IF floor[c] = returned THEN 0 ELSE RequestLeft(c)

\* Only a late request carries a token that has been replaced by now.
StaleIsLate ==
  \A c \in Callers :
    Sent(c) /\ Replaced(header[c], returned) => LateLeft(c) > 0

\* Unless another refresh returns nobody becomes late, and who is late comes
\* nearer to the end of that request with every step of its own that moves it on.
CatchesUp(c) ==
  IF call'[c] = call[c] \/ LateLeft(c) = 0
    THEN LateLeft(c)' = LateLeft(c)
    ELSE LateLeft(c)' < LateLeft(c)

CatchingUp ==
  [][returned' = returned => \A c \in Callers : CatchesUp(c)]_vars

\* A step of a request by which it comes nearer to its end.
LEMMA NearerToItsEnd ==
  ASSUME NEW c \in Callers, TypeOK, returned' = returned,
         floor' = floor, NEW place,
         call' = [call EXCEPT ![c] = place],
         \/ /\ call[c] \in {"options", "check", "length", "use"}
            /\ place = "sent"
         \/ call[c] = "check" /\ place \in {"pointer", "length"}
         \/ call[c] \in {"pointer", "length"} /\ place = "use"
         \/ call[c] = "use" /\ place = "crashed"
         \/ call[c] = "sent" /\ place = "idle"
  PROVE  \A d \in Callers : CatchesUp(d)
<1> SUFFICES ASSUME NEW d \in Callers PROVE CatchesUp(d)
  OBVIOUS
<1>1. CASE d = c
  <2>1. call'[c] = place
    BY DEF TypeOK
  <2>2. /\ RequestLeft(c) \in Nat /\ RequestLeft(c)' \in Nat
        /\ RequestLeft(c)' < RequestLeft(c)
    <3>1. CASE call[c] = "check"
      BY <2>1, <3>1 DEF RequestLeft
    <3>2. CASE call[c] \in {"pointer", "length"}
      BY <2>1, <3>2 DEF RequestLeft
    <3>3. CASE call[c] \in {"options", "use"}
      BY <2>1, <3>3 DEF RequestLeft
    <3>4. CASE call[c] = "sent"
      BY <2>1, <3>4 DEF RequestLeft
    <3> QED
      BY <3>1, <3>2, <3>3, <3>4
  <2>3. PICK k \in Nat, m \in Nat :
          RequestLeft(c) = k /\ RequestLeft(c)' = m /\ m < k
    BY <2>2
  <2>4. CASE floor[c] = returned
    <3>1. LateLeft(c) = 0 /\ LateLeft(c)' = 0
      BY <2>4 DEF LateLeft
    <3> QED
      BY <1>1, <3>1 DEF CatchesUp
  <2>5. CASE floor[c] # returned
    <3>1. LateLeft(c) = k /\ LateLeft(c)' = m
      BY <2>3, <2>5 DEF LateLeft
    <3>2. LateLeft(c)' < LateLeft(c)
      BY <2>3, <3>1
    <3>3. call'[c] # call[c] /\ LateLeft(c) # 0
      BY <2>1, <2>3, <3>1
    <3> QED
      BY <1>1, <3>2, <3>3 DEF CatchesUp
  <2> QED
    BY <2>4, <2>5
<1>2. CASE d # c
  <2>1. call'[d] = call[d]
    BY <1>2 DEF TypeOK
  <2>2. RequestLeft(d)' = RequestLeft(d)
    BY <2>1 DEF RequestLeft
  <2>3. LateLeft(d)' = LateLeft(d)
    BY <2>2 DEF LateLeft
  <2> QED
    BY <2>1, <2>3 DEF CatchesUp
<1> QED
  BY <1>1, <1>2

LEMMA StepCatchesUp ==
  ASSUME IInv, [Next]_vars, returned' = returned
  PROVE  \A c \in Callers : CatchesUp(c)
<1> USE DEF IInv
<1>1. CASE UNCHANGED callVars
  BY <1>1 DEF callVars, CatchesUp, LateLeft, RequestLeft
<1>2. ASSUME NEW c \in Callers, NEW k, Begin(c, k)
      PROVE  \A d \in Callers : CatchesUp(d)
  <2> SUFFICES ASSUME NEW d \in Callers PROVE CatchesUp(d)
    OBVIOUS
  <2>1. CASE d = c
    <3>1. LateLeft(c) = 0
      BY <1>2 DEF Begin, Ready, LateLeft, RequestLeft
    <3>2. floor'[c] = returned
      BY <1>2 DEF Begin, TypeOK
    <3> QED
      BY <2>1, <3>1, <3>2 DEF CatchesUp, LateLeft
  <2>2. CASE d # c
    <3>1. call'[d] = call[d] /\ floor'[d] = floor[d]
      BY <1>2, <2>2 DEF Begin, TypeOK
    <3> QED
      BY <3>1 DEF CatchesUp, LateLeft, RequestLeft
  <2> QED
    BY <2>1, <2>2
<1>3. ASSUME NEW c \in Callers, Request(c) \/ Answered(c), ~LoadLengthAgain(c)
      PROVE  \A d \in Callers : CatchesUp(d)
  <2>1. CASE ReadOptions(c) \/ UseToken(c) \/ UseNothing(c) \/ Answered(c)
    BY <2>1, NearerToItsEnd
    DEF ReadOptions, UseToken, UseNothing, Answered, SendWith, Ready
  <2>2. CASE LoadLength(c) \/ LoadPointer(c)
    BY <2>2, NearerToItsEnd DEF LoadLength, LoadPointer, Load, SendWith, Ready
  <2> QED
    BY <1>3, <2>1, <2>2 DEF Request
<1>4. ASSUME NEW c \in Callers, LoadLengthAgain(c)
      PROVE  \A d \in Callers : CatchesUp(d)
  <2>1. UNCHANGED <<call, floor, returned>>
    BY <1>4 DEF LoadLengthAgain, Load, TypeOK, historyVars
  <2> QED
    BY <2>1 DEF CatchesUp, LateLeft, RequestLeft
<1>5. ASSUME NEW u \in Refreshers,
             \/ \E t \in Tokens : BeginRefresh(u, t)
             \/ WriteOptions(u) \/ WritePointer(u) \/ WriteLength(u)
      PROVE  UNCHANGED callVars
  BY <1>5 DEF BeginRefresh, WriteOptions, WritePointer, WriteLength
<1>6. ASSUME Crashed \/ UNCHANGED vars PROVE UNCHANGED callVars
  BY <1>6 DEF Crashed, vars
<1> QED
  BY <1>1, <1>2, <1>3, <1>4, <1>5, <1>6 DEF Next

-------------------------------------------------------------------------------
(* The theorems.                                                           *)

\* Every variable of the client, the refreshes and the requests stays in its
\* type.
THEOREM TypeCorrect == Spec => []TypeOK
<1>1. IInv => TypeOK
  BY DEF IInv
<1> QED
  BY <1>1, Invariance, PTL

\* After RefreshAuth has returned no request, plain or for a payload, that
\* begins uses a credential it has replaced (scheduler.go:82-99).
THEOREM OldTokensEnd == Spec => []NoReplacedCredential
<1>1. IInv => NoReplacedCredential
  BY DEF IInv
<1> QED
  BY <1>1, Invariance, PTL

\* A torn token is sent only where requests and refreshes run side by side, and
\* the process ends only by a payload request that began before any refresh had
\* returned, whatever has returned by the time it uses what it has loaded.
THEOREM TornByRacesOnly == Spec => []TornOnlyInARace
<1>1. IInv => TornOnlyInARace
  BY DEF IInv
<1> QED
  BY <1>1, Invariance, PTL

\* A refresh reaches every caller after the request it is making, also one
\* that polls all along: only a request that began before the refresh returned
\* can carry what it replaced, such a request comes nearer to its end with every
\* step of its caller that is not a second load of the length, and no later one
\* is like it.
THEOREM AtMostOneLate == Spec => []StaleIsLate /\ CatchingUp
<1>1. IInv => StaleIsLate
  BY DEF IInv, NoReplacedCredential, StaleIsLate, LateLeft, RequestLeft, Sent
<1>2. IInv /\ [Next]_vars
        => [returned' = returned => \A c \in Callers : CatchesUp(c)]_vars
  BY StepCatchesUp
<1> QED
  BY <1>1, <1>2, Invariance, PTL DEF Spec, CatchingUp
===============================================================================
