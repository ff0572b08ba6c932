-------------------------- MODULE ForeignMemory_proofs ------------------------
(***************************************************************************)
(* Proofs about ForeignMemory, for any number of results and of slots.     *)
(*                                                                         *)
(* Each Free function frees all that the functions which return its struct *)
(* have set (FreesWhatIsSet), and an array that is being read has only     *)
(* freed elements behind the caller and full ones before it, but for the   *)
(* last one (IsListing).                                                   *)
(***************************************************************************)
EXTENDS ForeignMemory, TLAPS

IsStruct(r) ==
  /\ ~r.array
  /\ r.struct \in DOMAIN Freed
  /\ DOMAIN r.cells = {0}
  /\ r.cells[0] \subseteq Freed[r.struct]

\* The array of a listing that has been read up to the element k.
IsListing(r, k) ==
  /\ r.array
  /\ \E n \in Nat :
       /\ k \in 0 .. n
       /\ DOMAIN r.cells = 0 .. n
       /\ \A i \in 0 .. n : r.cells[i] = IF i < k \/ i = n THEN {} ELSE Run

IsError(r, k) ==
  /\ r.array
  /\ k = 0
  /\ DOMAIN r.cells = {0}
  /\ r.cells[0] = ClientError

Shaped(r, k) ==
  /\ DOMAIN r = {"array", "struct", "cells"}
  /\ r = Nothing \/ IsStruct(r) \/ IsListing(r, k) \/ IsError(r, k)

IInv ==
  /\ DOMAIN held = Slots
  /\ reading \in [Slots -> Nat]
  /\ \A s \in Slots : Shaped(held[s], reading[s])
  /\ HeapIsHeld

-------------------------------------------------------------------------------
(* The structs.                                                            *)

\* What a function sets, with a result, with an error and for a missing run,
\* the Free function of its struct frees.
LEMMA FreesWhatIsSet ==
  ASSUME NEW f \in StructResults,
         NEW outcome \in {"ok", "error", "nothing"}, outcome \in DOMAIN f
  PROVE  f.struct \in DOMAIN Freed /\ f[outcome] \subseteq Freed[f.struct]
<1> USE DEF Run, ClientError
<1>1. DOMAIN Freed = {"RunResult", "AlgorithmRun", "RequestMetadata",
                      "ErrorResponse", "StringResult", "BoolResult"}
  BY DEF Freed
<1>2. CASE f \in {GetRunResult, GetRun, AwaitRun}
  <2>1. f.struct = "RunResult" /\ f[outcome] \subseteq FreeRunResult
    BY <1>2 DEF GetRunResult, GetRun, AwaitRun, FreeRunResult
  <2> QED
    BY <1>1, <2>1 DEF Freed
<1>3. CASE f = CreateRun
  <2>1. f.struct = "AlgorithmRun" /\ f[outcome] \subseteq FreeAlgorithmRun
    BY <1>3 DEF CreateRun, FreeAlgorithmRun
  <2> QED
    BY <1>1, <2>1 DEF Freed
<1>4. CASE f \in {GetBufferedRun, CancelRun}
  <2>1. f.struct = "StringResult" /\ f[outcome] \subseteq FreeStringResult
    BY <1>4 DEF GetBufferedRun, CancelRun, FreeStringResult
  <2> QED
    BY <1>1, <2>1 DEF Freed
<1>5. CASE f = GetRequestMetadata
  <2>1. /\ f.struct = "RequestMetadata"
        /\ f[outcome] \subseteq FreeRequestMetadata
    BY <1>5 DEF GetRequestMetadata, FreeRequestMetadata
  <2> QED
    BY <1>1, <2>1 DEF Freed
<1>6. CASE f = CompleteRun
  <2>1. f.struct = "ErrorResponse" /\ f[outcome] \subseteq FreeErrorResponse
    BY <1>6 DEF CompleteRun, FreeErrorResponse
  <2> QED
    BY <1>1, <2>1 DEF Freed
<1>7. CASE f = CheckRun
  <2>1. f.struct = "BoolResult" /\ f[outcome] \subseteq FreeBoolResult
    BY <1>7 DEF CheckRun, FreeBoolResult
  <2> QED
    BY <1>1, <2>1 DEF Freed
<1> QED
  BY <1>2, <1>3, <1>4, <1>5, <1>6, <1>7 DEF StructResults

-------------------------------------------------------------------------------
(* The heap.                                                               *)

\* The blocks of a slot are those of its result.
LEMMA PointedBlocks ==
  ASSUME NEW s, NEW r, NEW b
  PROVE  b \in Pointed(s, r) <=>
           \/ \E i \in DOMAIN r.cells : \E field \in r.cells[i] :
                b = <<s, i, field>>
           \/ r.array /\ b = <<s, 0, "array">>
<1>1. b \in AllStrings(s, r) <=>
        \E i \in DOMAIN r.cells : \E field \in r.cells[i] : b = <<s, i, field>>
  BY DEF AllStrings, Strings
<1>2. b \in (IF r.array THEN {ArrayBlock(s)} ELSE {})
        <=> r.array /\ b = <<s, 0, "array">>
  BY DEF ArrayBlock
<1> QED
  BY <1>1, <1>2, Zenon DEF Pointed

\* The result in a slot gives way to another one and what is no longer pointed
\* to is freed, or what is new is allocated.
LEMMA HeapFollows ==
  ASSUME HeapIsHeld, NEW s \in Slots, NEW r, DOMAIN held = Slots,
         held' = [held EXCEPT ![s] = r],
         \A t \in Slots \ {s} : \A b \in Pointed(t, held[t]) :
           b \in heap => b \in heap',
         \A b \in heap' \ heap : b \in Pointed(s, r),
         Pointed(s, r) \subseteq heap',
         \A b \in heap' \intersect Pointed(s, held[s]) : b \in Pointed(s, r)
  PROVE  HeapIsHeld'
<1>1. held'[s] = r /\ \A t \in Slots \ {s} : held'[t] = held[t]
  OBVIOUS
<1>2. \A b : b \in heap <=> \E t \in Slots : b \in Pointed(t, held[t])
  BY DEF HeapIsHeld
<1>3. \A b : b \in heap' <=> \E t \in Slots : b \in Pointed(t, held'[t])
  BY <1>1, <1>2
<1>4. \A t : Pointed(t, held[t])' = Pointed(t, held'[t])
  BY DEF Pointed, AllStrings, Strings, ArrayBlock
<1> QED
  BY <1>3, <1>4 DEF HeapIsHeld

-------------------------------------------------------------------------------
(* The steps.                                                              *)

LEMMA InitIInv == Init => IInv
<1> SUFFICES ASSUME Init PROVE IInv
  OBVIOUS
<1>1. DOMAIN held = Slots /\ \A s \in Slots : held[s] = Nothing
  BY DEF Init
<1>2. \A s : Pointed(s, Nothing) = {}
  BY PointedBlocks DEF Nothing
<1>3. HeapIsHeld
  BY <1>1, <1>2 DEF Init, HeapIsHeld
<1>4. \A s \in Slots : Shaped(held[s], reading[s])
  BY <1>1 DEF Shaped, Nothing
<1> QED
  BY <1>1, <1>3, <1>4 DEF Init, IInv

LEMMA GiveOutKeeps ==
  ASSUME IInv, NEW s \in Slots, NEW result, GiveOut(s, result),
         Shaped(result, 0)
  PROVE  IInv'
<1>1. /\ held[s] = Nothing
      /\ held' = [held EXCEPT ![s] = result]
      /\ heap' = heap \union Pointed(s, result)
      /\ reading' = [reading EXCEPT ![s] = 0]
      /\ DOMAIN held = Slots
  BY DEF GiveOut, IInv
<1>2. Pointed(s, held[s]) = {}
  BY <1>1, PointedBlocks DEF Nothing
<1>3. HeapIsHeld'
  BY <1>1, <1>2, HeapFollows DEF IInv
<1>4. /\ held'[s] = result /\ reading'[s] = 0
      /\ \A t \in Slots \ {s} : held'[t] = held[t] /\ reading'[t] = reading[t]
      /\ DOMAIN held' = Slots /\ reading' \in [Slots -> Nat]
  BY <1>1 DEF IInv
<1>5. \A t \in Slots : Shaped(held'[t], reading'[t])
  BY <1>4 DEF IInv
<1> QED
  BY <1>3, <1>4, <1>5 DEF IInv

\* What is given out has its shape.
LEMMA GivenShapes ==
  /\ \A f \in StructResults : \A outcome \in {"ok", "error", "nothing"} :
       outcome \in DOMAIN f =>
         Shaped([array |-> FALSE, struct |-> f.struct,
                 cells |-> [i \in {0} |-> f[outcome]]], 0)
  /\ \A n \in Nat :
       Shaped([array |-> TRUE, struct |-> "RunResult", cells |-> Fill(n)], 0)
  /\ Shaped([array |-> TRUE, struct |-> "RunResult", cells |-> FillError], 0)
<1>1. ASSUME NEW f \in StructResults,
             NEW outcome \in {"ok", "error", "nothing"}, outcome \in DOMAIN f
      PROVE  Shaped([array |-> FALSE, struct |-> f.struct,
                     cells |-> [i \in {0} |-> f[outcome]]], 0)
  <2>1. f.struct \in DOMAIN Freed /\ f[outcome] \subseteq Freed[f.struct]
    BY <1>1, FreesWhatIsSet
  <2> QED
    BY <2>1 DEF Shaped, IsStruct
<1>2. ASSUME NEW n \in Nat
      PROVE  Shaped([array |-> TRUE, struct |-> "RunResult",
                     cells |-> Fill(n)], 0)
  <2>1. /\ DOMAIN Fill(n) = 0 .. n
        /\ \A i \in 0 .. n : Fill(n)[i] = IF i < 0 \/ i = n THEN {} ELSE Run
    BY DEF Fill
  <2> QED
    BY <2>1 DEF Shaped, IsListing
<1>3. Shaped([array |-> TRUE, struct |-> "RunResult", cells |-> FillError], 0)
  BY DEF Shaped, IsError, FillError
<1> QED
  BY <1>1, <1>2, <1>3

LEMMA NextIInv == IInv /\ [Next]_vars => IInv'
<1> SUFFICES ASSUME IInv, [Next]_vars PROVE IInv'
  OBVIOUS
<1>1. ASSUME NEW s \in Slots, NEW f \in StructResults,
             NEW outcome \in {"ok", "error", "nothing"},
             GiveStruct(s, f, outcome)
      PROVE  IInv'
  BY <1>1, GivenShapes, GiveOutKeeps DEF GiveStruct
<1>2. ASSUME NEW s \in Slots, NEW n \in Listings, GiveArray(s, n)
      PROVE  IInv'
  BY <1>2, GivenShapes, GiveOutKeeps, ListingsAssumption DEF GiveArray
<1>3. ASSUME NEW s \in Slots, GiveErrorArray(s)
      PROVE  IInv'
  BY <1>3, GivenShapes, GiveOutKeeps DEF GiveErrorArray
<1>4. CASE \E s \in Slots, n \in Listings : TooManyResults(s, n)
  <2>1. UNCHANGED <<heap, held, reading>>
    BY <1>4 DEF TooManyResults
  <2>2. HeapIsHeld'
    BY <2>1 DEF IInv, HeapIsHeld, Pointed, AllStrings, Strings, ArrayBlock
  <2> QED
    BY <2>1, <2>2 DEF IInv
<1>5. ASSUME NEW s \in Slots, FreeStruct(s)
      PROVE  IInv'
  <2> DEFINE freed == Strings(s, 0, Freed[held[s].struct])
  <2>1. /\ held[s] # Nothing /\ ~held[s].array
        /\ held' = [held EXCEPT ![s] = Nothing]
        /\ heap' = heap \ freed
        /\ reading' = reading /\ DOMAIN held = Slots
    BY <1>5 DEF FreeStruct, IInv
  <2>2. IsStruct(held[s])
    BY <2>1 DEF IInv, Shaped, IsListing, IsError
  <2>3. \A b : b \in freed <=>
          \E field \in Freed[held[s].struct] : b = <<s, 0, field>>
    BY DEF Strings
  <2>4. Pointed(s, Nothing) = {}
    BY PointedBlocks DEF Nothing
  <2>5. Pointed(s, held[s]) \subseteq freed
    BY <2>1, <2>2, <2>3, PointedBlocks DEF IsStruct
  <2> HIDE DEF freed
  <2>6. \A t \in Slots \ {s} : \A b \in Pointed(t, held[t]) : b \notin freed
    BY <2>3, PointedBlocks
  <2>7. HeapIsHeld'
    BY <2>1, <2>4, <2>5, <2>6, HeapFollows DEF IInv
  <2>8. Shaped(Nothing, reading[s])
    BY DEF Shaped, Nothing
  <2> QED
    BY <2>1, <2>7, <2>8 DEF IInv
<1>6. ASSUME NEW s \in Slots, FreeElement(s)
      PROVE  IInv'
  <2> DEFINE k == reading[s]
  <2> DEFINE freed == Strings(s, k, FreeRunResult)
  <2> DEFINE r == [held[s] EXCEPT !.cells[k] = {}]
  <2>1. /\ held[s].array /\ k \in DOMAIN held[s].cells
        /\ "algorithm" \in held[s].cells[k]
        /\ held' = [held EXCEPT ![s] = r]
        /\ heap' = heap \ freed
        /\ reading' = [reading EXCEPT ![s] = k + 1]
        /\ DOMAIN held = Slots /\ DOMAIN held[s] = {"array", "struct", "cells"}
        /\ k \in Nat
    BY <1>6 DEF FreeElement, Reading, Element, IInv, Shaped
  <2>2. IsListing(held[s], k)
    BY <2>1
    DEF IInv, Shaped, IsStruct, IsError, Nothing, ClientError
  <2>3. PICK n \in Nat :
          /\ k \in 0 .. n
          /\ DOMAIN held[s].cells = 0 .. n
          /\ \A i \in 0 .. n :
               held[s].cells[i] = IF i < k \/ i = n THEN {} ELSE Run
    BY <2>2 DEF IsListing
  <2>4. k < n /\ held[s].cells[k] = Run /\ Run \subseteq FreeRunResult
    BY <2>1, <2>3 DEF FreeRunResult
  <2>5. \A b : b \in freed <=> \E field \in FreeRunResult : b = <<s, k, field>>
    BY DEF Strings
  <2>6. /\ DOMAIN r = {"array", "struct", "cells"} /\ r.array
        /\ DOMAIN r.cells = 0 .. n
        /\ r.cells[k] = {}
        /\ \A i \in 0 .. n : i # k => r.cells[i] = held[s].cells[i]
    BY <2>1, <2>3
  <2> HIDE DEF freed, r
  <2>7. Shaped(r, k + 1)
    <3>1. k + 1 \in 0 .. n
      BY <2>1, <2>4
    <3>2. ASSUME NEW i \in 0 .. n
          PROVE  r.cells[i] = IF i < k + 1 \/ i = n THEN {} ELSE Run
      <4>1. CASE i = k
        <5>1. i < k + 1
          BY <2>1, <4>1
        <5> QED
          BY <2>6, <4>1, <5>1
      <4>2. CASE i # k
        <5>1. i < k + 1 <=> i < k
          BY <2>1, <4>2
        <5> QED
          BY <2>3, <2>6, <4>2, <5>1
      <4> QED
        BY <4>1, <4>2
    <3> QED
      BY <2>6, <3>1, <3>2 DEF Shaped, IsListing
  <2>8. "array" \notin FreeRunResult
    BY DEF FreeRunResult, Run, ClientError
  <2>9. /\ Pointed(s, r) \subseteq Pointed(s, held[s])
        /\ Pointed(s, r) \intersect freed = {}
        /\ Pointed(s, held[s]) \subseteq Pointed(s, r) \union freed
    <3>1. \A b : b \in Pointed(s, held[s]) <=>
            \/ \E i \in 0 .. n : \E field \in held[s].cells[i] :
                 b = <<s, i, field>>
            \/ b = <<s, 0, "array">>
      BY <2>1, <2>3, PointedBlocks
    <3>2. \A b : b \in Pointed(s, r) <=>
            \/ \E i \in 0 .. n : i # k /\ \E field \in held[s].cells[i] :
                 b = <<s, i, field>>
            \/ b = <<s, 0, "array">>
      BY <2>6, PointedBlocks
    <3>3. Pointed(s, r) \subseteq Pointed(s, held[s])
      BY <3>1, <3>2
    <3>4. ASSUME NEW b \in Pointed(s, r) PROVE b \notin freed
      <4>1. CASE b = <<s, 0, "array">>
        BY <2>5, <2>8, <4>1
      <4>2. CASE \E i \in 0 .. n :
                   i # k /\ \E field \in held[s].cells[i] : b = <<s, i, field>>
        BY <2>5, <4>2
      <4> QED
        BY <3>2, <4>1, <4>2
    <3>5. ASSUME NEW b \in Pointed(s, held[s]), b \notin Pointed(s, r)
          PROVE  b \in freed
      <4>1. \E field \in held[s].cells[k] : b = <<s, k, field>>
        BY <3>1, <3>2, <3>5
      <4> QED
        BY <2>4, <2>5, <4>1
    <3> QED
      BY <3>3, <3>4, <3>5
  <2>10. \A t \in Slots \ {s} : \A b \in Pointed(t, held[t]) : b \notin freed
    BY <2>5, PointedBlocks
  <2>11. Pointed(s, held[s]) \subseteq heap
    BY DEF IInv, HeapIsHeld
  <2>12. HeapIsHeld'
    BY <2>1, <2>9, <2>10, <2>11, HeapFollows DEF IInv
  <2> QED
    BY <2>1, <2>7, <2>12 DEF IInv
<1>7. ASSUME NEW s \in Slots, FreeArray(s)
      PROVE  IInv'
  <2> DEFINE k == reading[s]
  <2> DEFINE freed == Strings(s, k, FreeRunResult) \union {ArrayBlock(s)}
  <2>1. /\ held[s].array /\ k \in DOMAIN held[s].cells
        /\ "algorithm" \notin held[s].cells[k]
        /\ held' = [held EXCEPT ![s] = Nothing]
        /\ heap' = heap \ freed
        /\ reading' = reading /\ DOMAIN held = Slots
    BY <1>7 DEF FreeArray, Reading, Element, IInv
  <2>2. IsListing(held[s], k) \/ IsError(held[s], k)
    BY <2>1 DEF IInv, Shaped, IsStruct, Nothing
  <2>3. \A b : b \in freed <=>
          \/ \E field \in FreeRunResult : b = <<s, k, field>>
          \/ b = <<s, 0, "array">>
    BY DEF Strings, ArrayBlock
  <2>4. \A i \in DOMAIN held[s].cells :
          held[s].cells[i] # {} =>
            i = k /\ held[s].cells[i] \subseteq FreeRunResult
    BY <2>1, <2>2 DEF IsListing, IsError, Run, FreeRunResult
  <2>5. Pointed(s, Nothing) = {}
    BY PointedBlocks DEF Nothing
  <2> HIDE DEF freed
  <2>6. Pointed(s, held[s]) \subseteq freed
    BY <2>3, <2>4, PointedBlocks
  <2>7. \A t \in Slots \ {s} : \A b \in Pointed(t, held[t]) : b \notin freed
    BY <2>3, PointedBlocks
  <2>8. HeapIsHeld'
    BY <2>1, <2>5, <2>6, <2>7, HeapFollows DEF IInv
  <2>9. Shaped(Nothing, reading[s])
    BY DEF Shaped, Nothing
  <2> QED
    BY <2>1, <2>8, <2>9 DEF IInv
<1>8. CASE UNCHANGED vars
  <2>1. UNCHANGED <<heap, held, reading>>
    BY <1>8 DEF vars
  <2>2. HeapIsHeld'
    BY <2>1 DEF IInv, HeapIsHeld, Pointed, AllStrings, Strings, ArrayBlock
  <2> QED
    BY <2>1, <2>2 DEF IInv
<1> QED
  BY <1>1, <1>2, <1>3, <1>4, <1>5, <1>6, <1>7, <1>8 DEF Next, Panicked

LEMMA Invariance == Spec => []IInv
BY InitIInv, NextIInv, PTL DEF Spec

-------------------------------------------------------------------------------
(* The theorems.                                                           *)

\* No string leaks and none dangles, whatever the functions return and in
\* whatever order the results are freed (main.go:804-868).
THEOREM NothingLeaks == Spec => []HeapIsHeld
<1>1. IInv => HeapIsHeld
  BY DEF IInv
<1> QED
  BY <1>1, Invariance, PTL

\* Who reads an array up to the first element without an algorithm sees every
\* result and never leaves the array (main.go:158-192, 681-715).
THEOREM ScansAreExact == Spec => []ScanIsExact
<1>1. IInv => ScanIsExact
  <2> SUFFICES ASSUME IInv, NEW s \in Slots, held[s].array
               PROVE  /\ reading[s] \in DOMAIN held[s].cells
                      /\ "algorithm" \notin Element(s) =>
                           \A i \in DOMAIN held[s].cells :
                             i >= reading[s] =>
                               held[s].cells[i] \intersect Run = {}
    BY DEF ScanIsExact
  <2>1. IsListing(held[s], reading[s]) \/ IsError(held[s], reading[s])
    BY DEF IInv, Shaped, IsStruct, Nothing
  <2> QED
    BY <2>1 DEF IInv, IsListing, IsError, Element, Run, ClientError
<1> QED
  BY <1>1, Invariance, PTL
===============================================================================
