-------------------------- MODULE RunDiscovery_proofs --------------------------
(***************************************************************************)
(* Proofs about RunDiscovery, for any finite set of runs, any tags and any *)
(* number of them, and any times.                                          *)
(*                                                                         *)
(* A run that nobody has touched still has the tag it was listed under     *)
(* (ListedUnderTag), and when its tag has been listed the latest run of    *)
(* that tag is not older than it (Covered).  getRecentRuns yields nothing  *)
(* before it has read everything (RecentPhase).  getRuns has yielded a run *)
(* nobody has touched as often as its tag has been listed (Counted).       *)
(***************************************************************************)
EXTENDS RunDiscovery, SequenceTheorems, FiniteSetTheorems, TLAPS

\* Every entry is a run with a tag or an error with neither.
YieldedOK ==
  /\ yielded \in Seq([run : Runs \union {NoRun}, tag : TagNames \union {NoTag}])
  /\ \A i \in DOMAIN yielded :
       \/ yielded[i].run \in Runs /\ yielded[i].tag \in TagNames
       \/ yielded[i].run = NoRun /\ yielded[i].tag = NoTag

\* Where the iterator is in the sequence of the tags.
Position ==
  /\ pc \in {"entries", "metadata"} => pos <= Len(Tags)
  /\ pc \in {"listing", "yielding"} => listing = {}
  /\ pc \in {"metadata", "yielding"} => recent
  /\ pc = "yielding" => pos > Len(Tags)

IInv == TypeOK /\ YieldedOK /\ Position

-------------------------------------------------------------------------------
(* One more entry.                                                         *)

\* Yielding keeps the entries there are and adds one at the end.
LEMMA Yielded ==
  ASSUME YieldedOK,
         NEW e \in [run : Runs \union {NoRun}, tag : TagNames \union {NoTag}],
         \/ e.run \in Runs /\ e.tag \in TagNames
         \/ e.run = NoRun /\ e.tag = NoTag,
         yielded' = Append(yielded, e)
  PROVE  /\ YieldedOK'
         /\ Len(yielded) \in Nat
         /\ Len(yielded') = Len(yielded) + 1
         /\ DOMAIN yielded = 1 .. Len(yielded)
         /\ DOMAIN yielded' = 1 .. Len(yielded) + 1
         /\ \A i \in 1 .. Len(yielded) : yielded'[i] = yielded[i]
         /\ yielded'[Len(yielded) + 1] = e
         /\ Entries' = Entries \union {e}
         /\ \A f \in Entries' :
              \/ f.run \in Runs /\ f.tag \in TagNames
              \/ f.run = NoRun /\ f.tag = NoTag
<1> DEFINE E == [run : Runs \union {NoRun}, tag : TagNames \union {NoTag}]
<1>1. yielded \in Seq(E)
  BY DEF YieldedOK
<1>2. /\ yielded' \in Seq(E)
      /\ Len(yielded') = Len(yielded) + 1
      /\ \A i \in 1 .. Len(yielded) : yielded'[i] = yielded[i]
      /\ yielded'[Len(yielded) + 1] = e
  BY <1>1, AppendProperties
<1>3. /\ Len(yielded) \in Nat
      /\ DOMAIN yielded = 1 .. Len(yielded)
      /\ DOMAIN yielded' = 1 .. Len(yielded) + 1
  BY <1>1, <1>2, LenProperties
<1>4. \A i \in DOMAIN yielded' : i \in DOMAIN yielded \/ i = Len(yielded) + 1
  BY <1>3
<1>5. /\ Len(yielded) + 1 \in DOMAIN yielded'
      /\ DOMAIN yielded \subseteq DOMAIN yielded'
  BY <1>3
<1>6. Entries' = Entries \union {e}
  <2>1. \A i \in DOMAIN yielded' : yielded'[i] \in Entries \union {e}
    BY <1>2, <1>3, <1>4, Zenon DEF Entries
  <2>2. \A i \in DOMAIN yielded : yielded[i] \in Entries'
    BY <1>2, <1>3, <1>5, Zenon DEF Entries
  <2>3. e \in Entries'
    BY <1>2, <1>5, Zenon DEF Entries
  <2> QED
    BY <2>1, <2>2, <2>3 DEF Entries
<1>7. \A i \in DOMAIN yielded' :
        \/ yielded'[i].run \in Runs /\ yielded'[i].tag \in TagNames
        \/ yielded'[i].run = NoRun /\ yielded'[i].tag = NoTag
  BY <1>2, <1>3, <1>4, Zenon DEF YieldedOK
<1>8. YieldedOK'
  BY <1>2, <1>7 DEF YieldedOK
<1>9. \A f \in Entries' :
        \/ f.run \in Runs /\ f.tag \in TagNames
        \/ f.run = NoRun /\ f.tag = NoTag
  BY <1>7 DEF Entries
<1> QED
  BY <1>2, <1>3, <1>6, <1>8, <1>9

-------------------------------------------------------------------------------
(* Types and positions.                                                    *)

LEMMA InitIInv == Init => IInv
<1> SUFFICES ASSUME Init PROVE IInv
  OBVIOUS
<1> USE DEF Init
<1>1. TypeOK
  <2>1. Len(Tags) \in Nat /\ 1 \in 1 .. Len(Tags) + 1
    BY TagsAssumption
  <2>2. settled \subseteq Runs /\ Entries = {}
    BY DEF Entries
  <2> QED
    BY <2>1, <2>2 DEF TypeOK
<1>2. YieldedOK /\ Position
  BY DEF YieldedOK, Position
<1> QED
  BY <1>1, <1>2 DEF IInv

\* Every step keeps the variables in their types and the iterator in place.
LEMMA NextIInv == IInv /\ [Next]_vars => IInv'
<1> SUFFICES ASSUME IInv, [Next]_vars PROVE IInv'
  OBVIOUS
<1>a. Tags \in Seq(TagNames) /\ Len(Tags) \in Nat /\ NoTag \notin TagNames
      /\ NoRun \notin Runs
  BY TagsAssumption, RunsAssumption
<1>b. \A i \in 1 .. Len(Tags) : Tags[i] \in TagNames
  BY <1>a, ElementOfSeq
<1> USE <1>a, <1>b DEF IInv
<1>1. CASE \E r \in Runs, t \in TagNames : Submit(r, t) \/ UpdateTag(r, t)
  <2>1. TypeOK'
    BY <1>1
    DEF Submit, UpdateTag, GiveTag, TypeOK, Position, Entries, serverVars,
        iteratorVars
  <2>2. YieldedOK' /\ Position'
    BY <1>1
    DEF Submit, UpdateTag, GiveTag, TypeOK, YieldedOK, Position, serverVars,
        iteratorVars
  <2> QED
    BY <2>1, <2>2
<1>2. CASE \E r \in Runs : LoseMetadata(r)
  <2>1. TypeOK'
    BY <1>2
    DEF LoseMetadata, TypeOK, Position, Entries, serverVars, iteratorVars
  <2>2. YieldedOK' /\ Position'
    BY <1>2
    DEF LoseMetadata, TypeOK, YieldedOK, Position, serverVars, iteratorVars
  <2> QED
    BY <2>1, <2>2
<1>3. CASE ListTag
  <2>1. TypeOK'
    BY <1>3
    DEF ListTag, TypeOK, Position, Entries, serverVars, iteratorVars
  <2>2. YieldedOK' /\ Position'
    BY <1>3
    DEF ListTag, TypeOK, YieldedOK, Position, serverVars, iteratorVars
  <2> QED
    BY <2>1, <2>2
<1>4. CASE \E failure \in Failures : ListFailedRecent(failure)
  <2>1. TypeOK'
    BY <1>4
    DEF ListFailedRecent, TypeOK, Position, Entries, serverVars, iteratorVars
  <2>2. YieldedOK' /\ Position'
    BY <1>4
    DEF ListFailedRecent, TypeOK, YieldedOK, Position, serverVars, iteratorVars
  <2> QED
    BY <2>1, <2>2
<1>5. CASE NextTag
  <2>1. TypeOK'
    BY <1>5
    DEF NextTag, TypeOK, Position, Entries, serverVars, iteratorVars
  <2>2. YieldedOK' /\ Position'
    BY <1>5
    DEF NextTag, TypeOK, YieldedOK, Position, serverVars, iteratorVars
  <2> QED
    BY <2>1, <2>2
<1>6. CASE AllListed
  <2>1. TypeOK'
    BY <1>6
    DEF AllListed, TypeOK, Position, Entries, serverVars, iteratorVars
  <2>2. YieldedOK' /\ Position'
    BY <1>6
    DEF AllListed, TypeOK, YieldedOK, Position, serverVars, iteratorVars
  <2> QED
    BY <2>1, <2>2
<1>7. CASE ReadMetadata
  <2>1. TypeOK'
    BY <1>7
    DEF ReadMetadata, CountsFor, TypeOK, Position, Entries, serverVars,
        iteratorVars
  <2>2. YieldedOK' /\ Position'
    BY <1>7
    DEF ReadMetadata, CountsFor, TypeOK, YieldedOK, Position, serverVars,
        iteratorVars
  <2> QED
    BY <2>1, <2>2
<1>8. CASE MetadataMissing
  <2>1. TypeOK'
    BY <1>8
    DEF MetadataMissing, TypeOK, Position, Entries, serverVars, iteratorVars
  <2>2. YieldedOK' /\ Position'
    BY <1>8
    DEF MetadataMissing, TypeOK, YieldedOK, Position, serverVars, iteratorVars
  <2> QED
    BY <2>1, <2>2
<1>9. CASE AllYielded
  <2>1. TypeOK'
    BY <1>9
    DEF AllYielded, TypeOK, Position, Entries, serverVars, iteratorVars
  <2>2. YieldedOK' /\ Position'
    BY <1>9
    DEF AllYielded, TypeOK, YieldedOK, Position, serverVars, iteratorVars
  <2> QED
    BY <2>1, <2>2
<1>10. CASE UNCHANGED vars
  <2>1. TypeOK'
    BY <1>10
    DEF vars, TypeOK, Position, Entries, serverVars, iteratorVars
  <2>2. YieldedOK' /\ Position'
    BY <1>10
    DEF vars, TypeOK, YieldedOK, Position, serverVars, iteratorVars
  <2> QED
    BY <2>1, <2>2
<1>11. ASSUME NEW failure \in Failures, ListFailed(failure)
      PROVE  IInv'
  <2> DEFINE e == [run |-> NoRun, tag |-> NoTag]
  <2>1. yielded' = Append(yielded, e) /\ e.run \in Runs \union {NoRun}
    BY <1>11 DEF ListFailed, YieldError, TypeOK
  <2>2. /\ YieldedOK'
        /\ \A f \in Entries' :
             \/ f.run \in Runs /\ f.tag \in TagNames
             \/ f.run = NoRun /\ f.tag = NoTag
    BY <1>11, <2>1, Yielded DEF ListFailed, YieldError, TypeOK
  <2> HIDE DEF e
  <2>3. TypeOK'
    BY <1>11, <2>2 DEF ListFailed, TypeOK, serverVars
  <2>4. Position'
    BY <1>11 DEF ListFailed, TypeOK, Position
  <2> QED
    BY <2>2, <2>3, <2>4
<1>12. ASSUME NEW r \in Runs, Entry(r)
      PROVE  IInv'
  <2> DEFINE e == [run |-> r, tag |-> Tags[pos]]
  <2>1. CASE yielded' = yielded
    <3>1. TypeOK'
      BY <1>12, <2>1
      DEF Entry, Yield, TypeOK, Position, Entries, serverVars
    <3>2. YieldedOK' /\ Position'
      BY <1>12, <2>1
      DEF Entry, Yield, TypeOK, YieldedOK, Position, serverVars
    <3> QED
      BY <3>1, <3>2
  <2>2. CASE yielded' = Append(yielded, e)
    <3>1. pos \in 1 .. Len(Tags) /\ Tags[pos] \in TagNames
      BY <1>12 DEF Entry, TypeOK, Position
    <3>2. YieldedOK' /\ Entries' = Entries \union {e}
      BY <2>2, <3>1, Yielded
    <3>3. TypeOK' /\ Position'
      BY <1>12, <3>1, <3>2 DEF Entry, TypeOK, Position, serverVars
    <3> QED
      BY <3>2, <3>3
  <2> QED
    BY <1>12, <2>1, <2>2 DEF Entry, Yield
<1>13. CASE MetadataFailed
  <2> DEFINE e == [run |-> NoRun, tag |-> NoTag]
  <2>1. yielded' = Append(yielded, e) /\ e.run \in Runs \union {NoRun}
    BY <1>13 DEF MetadataFailed, YieldError, TypeOK
  <2>2. /\ YieldedOK'
        /\ \A f \in Entries' :
             \/ f.run \in Runs /\ f.tag \in TagNames
             \/ f.run = NoRun /\ f.tag = NoTag
    BY <1>13, <2>1, Yielded DEF MetadataFailed, YieldError, TypeOK
  <2> HIDE DEF e
  <2>3. TypeOK'
    BY <1>13, <2>2 DEF MetadataFailed, TypeOK, serverVars
  <2>4. Position'
    BY <1>13 DEF MetadataFailed, TypeOK, Position
  <2> QED
    BY <2>2, <2>3, <2>4
<1>14. ASSUME NEW t \in TagNames, YieldLatest(t)
      PROVE  IInv'
  <2> DEFINE e == [run |-> latestRunByTag[t], tag |-> t]
  <2>1. yielded' = Append(yielded, e) /\ e.run \in Runs \union {NoRun}
    BY <1>14 DEF YieldLatest, Yield, TypeOK
  <2>2. /\ YieldedOK'
        /\ \A f \in Entries' :
             \/ f.run \in Runs /\ f.tag \in TagNames
             \/ f.run = NoRun /\ f.tag = NoTag
    BY <1>14, <2>1, Yielded DEF YieldLatest, Yield, TypeOK
  <2> HIDE DEF e
  <2>3. TypeOK'
    BY <1>14, <2>2 DEF YieldLatest, TypeOK, serverVars
  <2>4. Position'
    BY <1>14 DEF YieldLatest, TypeOK, Position
  <2> QED
    BY <2>2, <2>3, <2>4
<1> QED
  BY <1>1, <1>2, <1>3, <1>4, <1>5, <1>6, <1>7, <1>8, <1>9, <1>10, <1>11,
     <1>12, <1>13, <1>14
  DEF Next, Scheduler, Iterator, Terminated

-------------------------------------------------------------------------------
(* The recent runs.                                                        *)

\* getRecentRuns yields nothing before it has read everything, and after an
\* error nothing more.
RecentPhase ==
  recent =>
    /\ pc \in {"listing", "entries", "metadata"} => yielded = <<>>
    /\ pc = "yielding" => ~Failed
    /\ pc # "stopped"
    /\ Failed => Len(yielded) = 1

\* A tag that has been yielded is not yielded again.
YieldedOnce ==
  recent =>
    /\ \A i, j \in DOMAIN yielded : yielded[i].tag = yielded[j].tag => i = j
    /\ \A i \in DOMAIN yielded :
         yielded[i].run \in Runs => latestRunByTag[yielded[i].tag] = NoRun

\* A run that nobody has touched has the tag it was listed under.
ListedUnderTag ==
  /\ \A r \in listing \intersect settled :
       pos <= Len(Tags) /\ tag[r] = Tags[pos]
  /\ pc = "metadata" /\ current \in settled => tag[current] = Tags[pos]
  /\ \A t \in TagNames :
       latestRunByTag[t] \in settled =>
         tag[latestRunByTag[t]] = t /\ t \in Range(Tags)
  /\ recent =>
       \A i \in DOMAIN yielded :
         yielded[i].run \in settled => yielded[i].tag \in Range(Tags)

RecentInv == RecentPhase /\ YieldedOnce /\ ListedUnderTag

\* Nothing has been yielded.
LEMMA NothingYielded ==
  yielded = <<>> => DOMAIN yielded = {} /\ Len(yielded) = 0 /\ ~Failed
BY DEF Failed, Entries

\* The tag at a position of Tags is one of the tags asked for.
LEMMA TagAsked ==
  ASSUME NEW k \in 1 .. Len(Tags)
  PROVE  Tags[k] \in Range(Tags) /\ Tags[k] \in TagNames
<1>1. Tags \in Seq(TagNames)
  BY TagsAssumption
<1>2. DOMAIN Tags = 1 .. Len(Tags) /\ Tags[k] \in TagNames
  BY <1>1, LenProperties, ElementOfSeq
<1> QED
  BY <1>2 DEF Range

LEMMA InitRecentInv == Init => RecentInv
BY NothingYielded, RunsAssumption
DEF Init, RecentInv, RecentPhase, YieldedOnce, ListedUnderTag

LEMMA NextRecentInv == IInv /\ IInv' /\ RecentInv /\ [Next]_vars => RecentInv'
<1> SUFFICES ASSUME IInv, IInv', RecentInv, [Next]_vars PROVE RecentInv'
  OBVIOUS
<1>a. NoRun \notin Runs /\ NoTag \notin TagNames
  BY RunsAssumption, TagsAssumption
<1> USE <1>a DEF IInv, RecentInv
<1>1. CASE \E r \in Runs, t \in TagNames : Submit(r, t) \/ UpdateTag(r, t)
  <2>1. RecentPhase' /\ YieldedOnce'
    BY <1>1, NothingYielded
    DEF Submit, UpdateTag, GiveTag, RecentPhase, YieldedOnce, TypeOK, Position,
        serverVars, iteratorVars, Failed, Entries
  <2>2. ListedUnderTag'
    BY <1>1, TagAsked
    DEF Submit, UpdateTag, GiveTag, ListedUnderTag, TypeOK, Position,
        serverVars, iteratorVars
  <2> QED
    BY <2>1, <2>2
<1>2. CASE \E r \in Runs : LoseMetadata(r)
  <2>1. RecentPhase' /\ YieldedOnce'
    BY <1>2, NothingYielded
    DEF LoseMetadata, RecentPhase, YieldedOnce, TypeOK, Position,
        serverVars, iteratorVars, Failed, Entries
  <2>2. ListedUnderTag'
    BY <1>2, TagAsked
    DEF LoseMetadata, ListedUnderTag, TypeOK, Position, serverVars,
        iteratorVars
  <2> QED
    BY <2>1, <2>2
<1>3. CASE ListTag
  <2>1. RecentPhase' /\ YieldedOnce'
    BY <1>3, NothingYielded
    DEF ListTag, RecentPhase, YieldedOnce, TypeOK, Position,
        serverVars, iteratorVars, Failed, Entries
  <2>2. ListedUnderTag'
    BY <1>3, TagAsked
    DEF ListTag, ListedUnderTag, TypeOK, Position, serverVars, iteratorVars
  <2> QED
    BY <2>1, <2>2
<1>4. CASE \E failure \in Failures : ListFailedRecent(failure)
  <2>1. RecentPhase' /\ YieldedOnce'
    BY <1>4, NothingYielded
    DEF ListFailedRecent, RecentPhase, YieldedOnce, TypeOK, Position,
        serverVars, iteratorVars, Failed, Entries
  <2>2. ListedUnderTag'
    BY <1>4, TagAsked
    DEF ListFailedRecent, ListedUnderTag, TypeOK, Position, serverVars,
        iteratorVars
  <2> QED
    BY <2>1, <2>2
<1>5. CASE NextTag
  <2>1. RecentPhase' /\ YieldedOnce'
    BY <1>5, NothingYielded
    DEF NextTag, RecentPhase, YieldedOnce, TypeOK, Position,
        serverVars, iteratorVars, Failed, Entries
  <2>2. ListedUnderTag'
    BY <1>5, TagAsked
    DEF NextTag, ListedUnderTag, TypeOK, Position, serverVars, iteratorVars
  <2> QED
    BY <2>1, <2>2
<1>6. CASE AllListed
  <2>1. RecentPhase' /\ YieldedOnce'
    BY <1>6, NothingYielded
    DEF AllListed, RecentPhase, YieldedOnce, TypeOK, Position,
        serverVars, iteratorVars, Failed, Entries
  <2>2. ListedUnderTag'
    BY <1>6, TagAsked
    DEF AllListed, ListedUnderTag, TypeOK, Position, serverVars, iteratorVars
  <2> QED
    BY <2>1, <2>2
<1>7. CASE ReadMetadata
  <2>1. RecentPhase' /\ YieldedOnce'
    BY <1>7, NothingYielded
    DEF ReadMetadata, CountsFor, RecentPhase, YieldedOnce, TypeOK, Position,
        serverVars, iteratorVars, Failed, Entries
  <2>2. ListedUnderTag'
    BY <1>7, TagAsked
    DEF ReadMetadata, CountsFor, ListedUnderTag, TypeOK, Position, serverVars,
        iteratorVars
  <2> QED
    BY <2>1, <2>2
<1>8. CASE MetadataMissing
  <2>1. RecentPhase' /\ YieldedOnce'
    BY <1>8, NothingYielded
    DEF MetadataMissing, RecentPhase, YieldedOnce, TypeOK, Position,
        serverVars, iteratorVars, Failed, Entries
  <2>2. ListedUnderTag'
    BY <1>8, TagAsked
    DEF MetadataMissing, ListedUnderTag, TypeOK, Position, serverVars,
        iteratorVars
  <2> QED
    BY <2>1, <2>2
<1>9. CASE AllYielded
  <2>1. RecentPhase' /\ YieldedOnce'
    BY <1>9, NothingYielded
    DEF AllYielded, RecentPhase, YieldedOnce, TypeOK, Position,
        serverVars, iteratorVars, Failed, Entries
  <2>2. ListedUnderTag'
    BY <1>9, TagAsked
    DEF AllYielded, ListedUnderTag, TypeOK, Position, serverVars, iteratorVars
  <2> QED
    BY <2>1, <2>2
<1>10. CASE UNCHANGED vars
  <2>1. RecentPhase' /\ YieldedOnce'
    BY <1>10, NothingYielded
    DEF vars, RecentPhase, YieldedOnce, TypeOK, Position,
        serverVars, iteratorVars, Failed, Entries
  <2>2. ListedUnderTag'
    BY <1>10, TagAsked
    DEF vars, ListedUnderTag, TypeOK, Position, serverVars, iteratorVars
  <2> QED
    BY <2>1, <2>2
<1>11. ASSUME NEW failure \in Failures, ListFailed(failure)
      PROVE  RecentInv'
  <2>1. ~recent /\ ~recent'
    BY <1>11 DEF ListFailed
  <2>2. ListedUnderTag'
    BY <1>11, <2>1 DEF ListFailed, ListedUnderTag, TypeOK, Position, serverVars
  <2> QED
    BY <2>1, <2>2 DEF RecentPhase, YieldedOnce
<1>12. ASSUME NEW r \in Runs, Entry(r)
      PROVE  RecentInv'
  <2>1. RecentPhase' /\ YieldedOnce'
    BY <1>12, NothingYielded
    DEF Entry, RecentPhase, YieldedOnce, Failed, Entries
  <2>2. ListedUnderTag'
    BY <1>12 DEF Entry, ListedUnderTag, TypeOK, Position, serverVars
  <2> QED
    BY <2>1, <2>2
<1>13. CASE MetadataFailed
  <2>1. /\ DOMAIN yielded' = 1 .. 1
        /\ Len(yielded') = 1
        /\ yielded'[1].run = NoRun
    <3> DEFINE e == [run |-> NoRun, tag |-> NoTag]
    <3>1. yielded' = Append(yielded, e) /\ yielded = <<>>
      BY <1>13 DEF MetadataFailed, YieldError, RecentPhase, Position
    <3>2. /\ Len(yielded') = Len(yielded) + 1
          /\ DOMAIN yielded' = 1 .. Len(yielded) + 1
          /\ yielded'[Len(yielded) + 1] = e
      BY <3>1, Yielded
    <3> QED
      BY <3>1, <3>2, NothingYielded
  <2>2. RecentPhase' /\ YieldedOnce'
    BY <1>13, <2>1 DEF MetadataFailed, RecentPhase, YieldedOnce
  <2>3. ListedUnderTag'
    BY <1>13, <2>1 DEF MetadataFailed, ListedUnderTag, TypeOK, serverVars
  <2> QED
    BY <2>2, <2>3
<1>14. ASSUME NEW t \in TagNames, YieldLatest(t)
      PROVE  RecentInv'
  <2> DEFINE e == [run |-> latestRunByTag[t], tag |-> t]
  <2>1. /\ yielded' = Append(yielded, e)
        /\ e.run \in Runs /\ e.tag = t
        /\ recent /\ ~Failed
    BY <1>14 DEF YieldLatest, Yield, TypeOK, Position, RecentPhase
  <2>2. /\ Len(yielded) \in Nat
        /\ DOMAIN yielded = 1 .. Len(yielded)
        /\ DOMAIN yielded' = 1 .. Len(yielded) + 1
        /\ \A i \in 1 .. Len(yielded) : yielded'[i] = yielded[i]
        /\ yielded'[Len(yielded) + 1] = e
        /\ Entries' = Entries \union {e}
    BY <2>1, Yielded
  <2>3. \A i \in DOMAIN yielded : yielded[i].run \in Runs
    BY <2>1 DEF Failed, Entries, YieldedOK
  <2>4. RecentPhase'
    BY <1>14, <2>1, <2>2 DEF YieldLatest, RecentPhase, Failed
  <2>5. \A i \in DOMAIN yielded :
          /\ yielded[i].tag \in TagNames
          /\ latestRunByTag[yielded[i].tag] = NoRun
          /\ yielded[i].tag # t
    BY <1>14, <2>1, <2>3 DEF YieldLatest, YieldedOnce, YieldedOK
  <2>6. latestRunByTag' = [latestRunByTag EXCEPT ![t] = NoRun]
        /\ latestRunByTag \in [TagNames -> Runs \union {NoRun}]
    BY <1>14 DEF YieldLatest, TypeOK
  <2>7. YieldedOnce'
    BY <2>1, <2>2, <2>3, <2>5, <2>6 DEF YieldedOnce
  <2>8. ListedUnderTag'
    BY <1>14, <2>1, <2>2, <2>6
    DEF YieldLatest, ListedUnderTag, TypeOK, Position, serverVars
  <2> QED
    BY <2>4, <2>7, <2>8
<1> QED
  BY <1>1, <1>2, <1>3, <1>4, <1>5, <1>6, <1>7, <1>8, <1>9, <1>10, <1>11,
     <1>12, <1>13, <1>14
  DEF Next, Scheduler, Iterator, Terminated

-------------------------------------------------------------------------------
(* The latest run of a tag.                                                *)

\* What there was to read of the tag of a run has been read.
Listed(r) ==
  \/ \E k \in 1 .. pos - 1 : Tags[k] = tag[r]
  \/ /\ pc \in {"entries", "metadata"}
     /\ Tags[pos] = tag[r]
     /\ r \notin listing
     /\ pc = "metadata" => current # r

NoOlder(q, r) == q \in Runs /\ receivedAt[q] >= receivedAt[r]

\* A run whose tag has been read is not newer than the run kept or yielded for
\* that tag.
Covered ==
  recent /\ ~Failed =>
    \A r \in Reliable :
      Listed(r) =>
        \/ NoOlder(latestRunByTag[tag[r]], r)
        \/ \E e \in Entries : e.tag = tag[r] /\ NoOlder(e.run, r)

\* The end is reached when every tag has been listed and every run yielded.
AllRead ==
  recent /\ ~Failed /\ pc = "ended" =>
    pos > Len(Tags) /\ \A t \in TagNames : latestRunByTag[t] = NoRun

LatestInv == Covered /\ AllRead

\* The runs a caller can rely on have one of the tags, and become fewer.
LEMMA ReliableRuns ==
  ASSUME TypeOK, NEW r \in Reliable
  PROVE  /\ r \in Runs /\ r \in settled /\ r \in matching
         /\ tag[r] \in TagNames
         /\ receivedAt[r] \in Int
<1>1. Tags \in Seq(TagNames)
  BY TagsAssumption
<1>2. \A k \in DOMAIN Tags : Tags[k] \in TagNames
  BY <1>1, LenProperties, ElementOfSeq
<1>3. tag[r] \in Range(Tags) /\ r \in settled /\ r \in matching /\ r \in Runs
  BY DEF Reliable, TypeOK
<1>4. \E k \in DOMAIN Tags : Tags[k] = tag[r]
  BY <1>3 DEF Range
<1> QED
  BY <1>2, <1>3, <1>4, TimeAssumption DEF TypeOK

LEMMA ReliableShrinks ==
  ASSUME TypeOK, [Next]_vars
  PROVE  /\ Reliable' \subseteq Reliable
         /\ \A r \in Reliable' : tag'[r] = tag[r]
         /\ receivedAt' = receivedAt /\ recent' = recent
<1>1. CASE \E r \in Runs, t \in TagNames : Submit(r, t) \/ UpdateTag(r, t)
  BY <1>1 DEF Submit, UpdateTag, GiveTag, Reliable, TypeOK, iteratorVars
<1>2. CASE \E r \in Runs : LoseMetadata(r)
  BY <1>2 DEF LoseMetadata, Reliable, iteratorVars
<1>3. CASE Iterator \/ Terminated \/ UNCHANGED vars
  <2>1. UNCHANGED serverVars /\ recent' = recent
    BY <1>3
    DEF Iterator, Terminated, vars, iteratorVars, ListTag, ListFailed,
        ListFailedRecent, Entry, NextTag, AllListed, ReadMetadata,
        MetadataMissing, MetadataFailed, YieldLatest, AllYielded
  <2> QED
    BY <2>1 DEF serverVars, Reliable
<1> QED
  BY <1>1, <1>2, <1>3 DEF Next, Scheduler

LEMMA InitLatestInv == Init => LatestInv
<1>1. ASSUME Init PROVE pos = 1 /\ pc = "listing"
  BY <1>1 DEF Init
<1>2. ASSUME Init PROVE \A r : ~Listed(r)
  BY <1>1, <1>2 DEF Listed
<1> QED
  BY <1>1, <1>2 DEF LatestInv, Covered, AllRead

LEMMA NextLatestInv ==
  IInv /\ IInv' /\ RecentInv /\ LatestInv /\ [Next]_vars => LatestInv'
<1> SUFFICES ASSUME IInv, IInv', RecentInv, LatestInv, [Next]_vars
             PROVE  LatestInv'
  OBVIOUS
<1>a. NoRun \notin Runs
  BY RunsAssumption
<1>b. /\ Reliable' \subseteq Reliable
      /\ \A r \in Reliable' : tag'[r] = tag[r]
      /\ receivedAt' = receivedAt /\ recent' = recent
  BY ReliableShrinks DEF IInv
<1>c. \A r \in Reliable : /\ r \in Runs /\ r \in settled /\ r \in matching
                          /\ tag[r] \in TagNames /\ receivedAt[r] \in Int
  BY ReliableRuns DEF IInv
<1>d. pos \in Nat /\ Len(Tags) \in Nat
  BY TagsAssumption DEF IInv, TypeOK
<1> USE <1>a, <1>b, <1>c, <1>d DEF IInv, LatestInv
<1>1. CASE \E r \in Runs, t \in TagNames : Submit(r, t) \/ UpdateTag(r, t)
  <2>1. \A r \in Reliable' : Listed(r)' => Listed(r)
    BY <1>1
    DEF Submit, UpdateTag, GiveTag, Listed, Position, Reliable, serverVars,
        iteratorVars
  <2>2. Covered'
    BY <1>1, <2>1
    DEF Submit, UpdateTag, GiveTag, Covered, NoOlder, Failed, Entries,
        serverVars, iteratorVars
  <2>3. AllRead'
    BY <1>1
    DEF Submit, UpdateTag, GiveTag, AllRead, Position, Failed, Entries,
        serverVars, iteratorVars
  <2> QED
    BY <2>2, <2>3
<1>2. CASE \E r \in Runs : LoseMetadata(r)
  <2>1. \A r \in Reliable' : Listed(r)' => Listed(r)
    BY <1>2
    DEF LoseMetadata, Listed, Position, Reliable, serverVars, iteratorVars
  <2>2. Covered'
    BY <1>2, <2>1
    DEF LoseMetadata, Covered, NoOlder, Failed, Entries, serverVars,
        iteratorVars
  <2>3. AllRead'
    BY <1>2
    DEF LoseMetadata, AllRead, Position, Failed, Entries, serverVars,
        iteratorVars
  <2> QED
    BY <2>2, <2>3
<1>3. CASE ListTag
  <2>1. \A r \in Reliable' : Listed(r)' => Listed(r)
    BY <1>3 DEF ListTag, Listed, Position, Reliable, serverVars, iteratorVars
  <2>2. Covered'
    BY <1>3, <2>1
    DEF ListTag, Covered, NoOlder, Failed, Entries, serverVars, iteratorVars
  <2>3. AllRead'
    BY <1>3
    DEF ListTag, AllRead, Position, Failed, Entries, serverVars, iteratorVars
  <2> QED
    BY <2>2, <2>3
<1>4. CASE \E failure \in Failures : ListFailedRecent(failure)
  <2>1. \A r \in Reliable' : Listed(r)' => Listed(r)
    BY <1>4
    DEF ListFailedRecent, Listed, Position, Reliable, serverVars, iteratorVars
  <2>2. Covered'
    BY <1>4, <2>1
    DEF ListFailedRecent, Covered, NoOlder, Failed, Entries, serverVars,
        iteratorVars
  <2>3. AllRead'
    BY <1>4
    DEF ListFailedRecent, AllRead, Position, Failed, Entries, serverVars,
        iteratorVars
  <2> QED
    BY <2>2, <2>3
<1>5. CASE NextTag
  <2>1. \A r \in Reliable' : Listed(r)' => Listed(r)
    BY <1>5 DEF NextTag, Listed, Position, Reliable, serverVars, iteratorVars
  <2>2. Covered'
    BY <1>5, <2>1
    DEF NextTag, Covered, NoOlder, Failed, Entries, serverVars, iteratorVars
  <2>3. AllRead'
    BY <1>5
    DEF NextTag, AllRead, Position, Failed, Entries, serverVars, iteratorVars
  <2> QED
    BY <2>2, <2>3
<1>6. CASE AllListed
  <2>1. \A r \in Reliable' : Listed(r)' => Listed(r)
    BY <1>6 DEF AllListed, Listed, Position, Reliable, serverVars, iteratorVars
  <2>2. Covered'
    BY <1>6, <2>1
    DEF AllListed, Covered, NoOlder, Failed, Entries, serverVars, iteratorVars
  <2>3. AllRead'
    BY <1>6
    DEF AllListed, AllRead, Position, Failed, Entries, serverVars, iteratorVars
  <2> QED
    BY <2>2, <2>3
<1>7. CASE MetadataMissing
  <2>1. \A r \in Reliable' : Listed(r)' => Listed(r)
    BY <1>7
    DEF MetadataMissing, Listed, Position, Reliable, serverVars, iteratorVars
  <2>2. Covered'
    BY <1>7, <2>1
    DEF MetadataMissing, Covered, NoOlder, Failed, Entries, serverVars,
        iteratorVars
  <2>3. AllRead'
    BY <1>7
    DEF MetadataMissing, AllRead, Position, Failed, Entries, serverVars,
        iteratorVars
  <2> QED
    BY <2>2, <2>3
<1>8. CASE AllYielded
  <2>1. \A r \in Reliable' : Listed(r)' => Listed(r)
    BY <1>8
    DEF AllYielded, Listed, Position, Reliable, serverVars, iteratorVars
  <2>2. Covered'
    BY <1>8, <2>1
    DEF AllYielded, Covered, NoOlder, Failed, Entries, serverVars, iteratorVars
  <2>3. AllRead'
    BY <1>8
    DEF AllYielded, AllRead, Position, Failed, Entries, serverVars,
        iteratorVars
  <2> QED
    BY <2>2, <2>3
<1>9. CASE UNCHANGED vars
  <2>1. \A r \in Reliable' : Listed(r)' => Listed(r)
    BY <1>9 DEF vars, Listed, Position, Reliable, serverVars, iteratorVars
  <2>2. Covered'
    BY <1>9, <2>1
    DEF vars, Covered, NoOlder, Failed, Entries, serverVars, iteratorVars
  <2>3. AllRead'
    BY <1>9
    DEF vars, AllRead, Position, Failed, Entries, serverVars, iteratorVars
  <2> QED
    BY <2>2, <2>3
<1>11. ASSUME NEW failure \in Failures, ListFailed(failure)
      PROVE  LatestInv'
  BY <1>11 DEF ListFailed, Covered, AllRead
<1>12. ASSUME NEW q \in Runs, Entry(q)
      PROVE  LatestInv'
  <2>1. CASE recent
    <3>1. \A r \in Reliable' : Listed(r)' => Listed(r)
      BY <1>12, <2>1 DEF Entry, Listed, Position
    <3>2. yielded' = yielded /\ latestRunByTag' = latestRunByTag
          /\ pc' # "ended"
      BY <1>12, <2>1 DEF Entry
    <3> QED
      BY <3>1, <3>2 DEF Covered, AllRead, NoOlder, Failed, Entries
  <2>2. CASE ~recent
    BY <2>2 DEF Covered, AllRead
  <2> QED
    BY <2>1, <2>2
<1>13. CASE ReadMetadata
  <2>1. /\ current \in Runs
        /\ \A r \in Runs : receivedAt[r] \in Int
        /\ latestRunByTag \in [TagNames -> Runs \union {NoRun}]
        /\ recent /\ yielded' = yielded /\ pc' = "entries"
    BY <1>13, TimeAssumption DEF ReadMetadata, TypeOK, Position
  <2>2. \A u \in TagNames :
          latestRunByTag'[u] =
            IF u = tag[current] /\ Supersedes(current, latestRunByTag[u])
            THEN current ELSE latestRunByTag[u]
    BY <1>13, <2>1 DEF ReadMetadata, CountsFor
  <2>3. \A r \in Reliable' :
          NoOlder(latestRunByTag[tag[r]], r) => NoOlder(latestRunByTag'[tag[r]], r)
    BY <2>1, <2>2 DEF NoOlder, Supersedes
  <2>4. current \in Reliable' => NoOlder(latestRunByTag'[tag[current]], current)
    BY <2>1, <2>2 DEF NoOlder, Supersedes
  <2>5. \A r \in Reliable' : Listed(r)' => Listed(r) \/ r = current
    BY <1>13 DEF ReadMetadata, Listed, Position
  <2>6. Failed' = Failed /\ Entries' = Entries
    BY <2>1 DEF Failed, Entries
  <2>7. Covered'
    BY <2>1, <2>3, <2>4, <2>5, <2>6 DEF Covered, NoOlder
  <2> QED
    BY <2>1, <2>7 DEF AllRead
<1>14. CASE MetadataFailed
  <2> DEFINE e == [run |-> NoRun, tag |-> NoTag]
  <2>1. yielded' = Append(yielded, e)
    BY <1>14 DEF MetadataFailed, YieldError
  <2>2. Entries' = Entries \union {e}
    BY <2>1, Yielded
  <2>3. e \in Entries' /\ e.run = NoRun
    BY <2>2
  <2> HIDE DEF e
  <2>4. Failed'
    BY <2>3 DEF Failed
  <2> QED
    BY <2>4 DEF Covered, AllRead
<1>15. ASSUME NEW t \in TagNames, YieldLatest(t)
      PROVE  LatestInv'
  <2> DEFINE e == [run |-> latestRunByTag[t], tag |-> t]
  <2>1. /\ yielded' = Append(yielded, e)
        /\ e.run \in Runs /\ e.tag = t
        /\ latestRunByTag \in [TagNames -> Runs \union {NoRun}]
        /\ latestRunByTag' = [latestRunByTag EXCEPT ![t] = NoRun]
        /\ pc = "yielding" /\ pc' = pc /\ recent /\ pos' = pos
    BY <1>15 DEF YieldLatest, Yield, TypeOK, Position
  <2>2. Entries' = Entries \union {e}
    BY <2>1, Yielded
  <2>3. ~Failed
    BY <2>1 DEF RecentInv, RecentPhase
  <2>4. \A r \in Reliable' : Listed(r)' => Listed(r)
    BY <2>1 DEF Listed
  <2> HIDE DEF e
  <2>5. ASSUME NEW r \in Reliable', Listed(r)'
        PROVE  \/ NoOlder(latestRunByTag'[tag[r]], r)
               \/ \E f \in Entries' : f.tag = tag[r] /\ NoOlder(f.run, r)
    <3>1. CASE \E f \in Entries : f.tag = tag[r] /\ NoOlder(f.run, r)
      BY <3>1, <2>2
    <3>2. CASE NoOlder(latestRunByTag[tag[r]], r) /\ tag[r] = t
      BY <3>2, <2>1, <2>2 DEF e
    <3>3. CASE NoOlder(latestRunByTag[tag[r]], r) /\ tag[r] # t
      BY <3>3, <2>1
    <3> QED
      BY <2>1, <2>3, <2>4, <2>5, <3>1, <3>2, <3>3 DEF Covered
  <2>6. Covered'
    BY <2>5 DEF Covered, NoOlder
  <2> QED
    BY <2>1, <2>6 DEF AllRead
<1> QED
  BY <1>1, <1>2, <1>3, <1>4, <1>5, <1>6, <1>7, <1>8, <1>9, <1>11, <1>12,
     <1>13, <1>14, <1>15
  DEF Next, Scheduler, Iterator, Terminated

-------------------------------------------------------------------------------
(* How often a run is yielded.                                             *)

\* The tags that have been read for a run, and the entries it has.
Done(r) ==
  {k \in 1 .. Len(Tags) :
     /\ Tags[k] = tag[r]
     /\ k < pos \/ (k = pos /\ pc = "entries" /\ r \notin listing)}
Yields(r) == {i \in DOMAIN yielded : yielded[i].run = r}

\* A run has been yielded once for each time its tag has been listed.
Counted ==
  ~recent /\ ~Failed /\ pc # "stopped" =>
    \A r \in Reliable : Cardinality(Yields(r)) = Cardinality(Done(r))

\* Without an error the end is reached when every tag has been listed.
AllTagsListed == ~recent /\ ~Failed /\ pc = "ended" => pos > Len(Tags)

PlainInv == Counted /\ AllTagsListed

LEMMA InitPlainInv == Init => PlainInv
<1> SUFFICES ASSUME Init PROVE PlainInv
  OBVIOUS
<1>1. pc = "listing" /\ pos = 1 /\ yielded = <<>>
  BY DEF Init
<1>2. Len(Tags) \in Nat
  BY TagsAssumption
<1>3. \A r : Done(r) = {} /\ Yields(r) = {}
  BY <1>1, <1>2 DEF Done, Yields
<1> QED
  BY <1>1, <1>3 DEF PlainInv, Counted, AllTagsListed

LEMMA NextPlainInv ==
  IInv /\ RecentInv /\ PlainInv /\ [Next]_vars => PlainInv'
<1> SUFFICES ASSUME IInv, RecentInv, PlainInv, [Next]_vars
             PROVE  PlainInv'
  OBVIOUS
<1>a. /\ Reliable' \subseteq Reliable
      /\ \A r \in Reliable' : tag'[r] = tag[r]
      /\ recent' = recent
  BY ReliableShrinks DEF IInv
<1>b. \A r \in Reliable : /\ r \in Runs /\ r \in settled /\ r \in matching
  BY ReliableRuns DEF IInv
<1>c. pos \in Nat /\ Len(Tags) \in Nat
  BY TagsAssumption DEF IInv, TypeOK
<1> USE <1>a, <1>b, <1>c DEF IInv, PlainInv
<1>1. CASE \/ \E r \in Runs, t \in TagNames : Submit(r, t) \/ UpdateTag(r, t)
           \/ \E r \in Runs : LoseMetadata(r)
           \/ UNCHANGED vars
  <2>1. UNCHANGED <<pc, pos, listing, yielded>>
    BY <1>1
    DEF Submit, UpdateTag, GiveTag, LoseMetadata, vars, iteratorVars
  <2>2. \A r \in Reliable' : Done(r)' = Done(r) /\ Yields(r)' = Yields(r)
    BY <2>1 DEF Done, Yields
  <2> QED
    BY <2>1, <2>2 DEF Counted, AllTagsListed, Failed, Entries
<1>2. CASE ListTag
  <2>1. \A r \in Reliable' : Done(r)' = Done(r) /\ Yields(r)' = Yields(r)
    BY <1>2 DEF ListTag, Done, Yields, serverVars
  <2> QED
    BY <1>2, <2>1 DEF ListTag, Counted, AllTagsListed, Failed, Entries
<1>3. CASE NextTag
  <2>1. \A r \in Reliable' : Done(r)' = Done(r) /\ Yields(r)' = Yields(r)
    BY <1>3 DEF NextTag, Done, Yields, serverVars
  <2> QED
    BY <1>3, <2>1 DEF NextTag, Counted, AllTagsListed, Failed, Entries
<1>4. CASE AllListed
  <2>1. \A r \in Reliable' : Done(r)' = Done(r) /\ Yields(r)' = Yields(r)
    BY <1>4 DEF AllListed, Done, Yields, serverVars
  <2> QED
    BY <1>4, <2>1 DEF AllListed, Counted, AllTagsListed, Failed, Entries
<1>5. ASSUME NEW failure \in Failures, ListFailed(failure)
      PROVE  PlainInv'
  <2> DEFINE e == [run |-> NoRun, tag |-> NoTag]
  <2>1. yielded' = Append(yielded, e)
    BY <1>5 DEF ListFailed, YieldError
  <2>2. Entries' = Entries \union {e}
    BY <2>1, Yielded
  <2>3. e \in Entries' /\ e.run = NoRun
    BY <2>2
  <2> HIDE DEF e
  <2> QED
    BY <2>3 DEF Counted, AllTagsListed, Failed
<1>6. ASSUME NEW q \in Runs, Entry(q), ~recent
      PROVE  PlainInv'
  <2>1. /\ pc = "entries" /\ pc' \in {"entries", "stopped"}
        /\ q \in listing /\ listing' = listing \ {q}
        /\ pos' = pos /\ tag' = tag
        /\ pos \in 1 .. Len(Tags)
    BY <1>6 DEF Entry, Position, TypeOK, serverVars
  <2>2. \A r \in Reliable' : r # q /\ pc' = pc => Done(r)' = Done(r)
    BY <2>1 DEF Done
  <2>3. CASE q \notin matching
    <3>1. yielded' = yielded /\ q \notin Reliable
      BY <1>6, <2>3 DEF Entry
    <3>2. \A r \in Reliable' : Yields(r)' = Yields(r)
      BY <3>1 DEF Yields
    <3> QED
      BY <2>1, <2>2, <3>1, <3>2 DEF Counted, AllTagsListed, Failed, Entries
  <2>4. CASE q \in matching
    <3> DEFINE e == [run |-> q, tag |-> Tags[pos]]
    <3>1. yielded' = Append(yielded, e) /\ Tags[pos] \in TagNames
      BY <1>6, <2>1, <2>4, TagAsked DEF Entry, Yield
    <3>2. /\ Len(yielded) \in Nat
          /\ DOMAIN yielded = 1 .. Len(yielded)
          /\ DOMAIN yielded' = 1 .. Len(yielded) + 1
          /\ \A i \in 1 .. Len(yielded) : yielded'[i] = yielded[i]
          /\ yielded'[Len(yielded) + 1] = e
          /\ Entries' = Entries \union {e}
      BY <3>1, Yielded
    <3>3. Failed => Failed'
      BY <3>2 DEF Failed
    <3>4. \A r \in Reliable' : r # q => Yields(r)' = Yields(r)
      BY <3>2 DEF Yields
    <3>5. Yields(q)' = Yields(q) \union {Len(yielded) + 1}
      BY <3>2 DEF Yields
    <3>6. q \in Reliable' /\ pc' = pc => Done(q)' = Done(q) \union {pos}
      <4>1. q \in Reliable' => tag[q] = Tags[pos]
        BY <2>1 DEF RecentInv, ListedUnderTag
      <4> QED
        BY <2>1, <4>1 DEF Done
    <3>7. Len(yielded) + 1 \notin Yields(q) /\ pos \notin Done(q)
      BY <2>1, <3>2 DEF Yields, Done
    <3>8. IsFiniteSet(Yields(q)) /\ IsFiniteSet(Done(q))
      <4>1. IsFiniteSet(1 .. Len(yielded)) /\ IsFiniteSet(1 .. Len(Tags))
        BY <3>2, FS_Interval
      <4>2. /\ Yields(q) \subseteq 1 .. Len(yielded)
            /\ Done(q) \subseteq 1 .. Len(Tags)
        BY <3>2 DEF Yields, Done
      <4> QED
        BY <4>1, <4>2, FS_Subset
    <3>9. /\ Cardinality(Yields(q) \union {Len(yielded) + 1})
               = Cardinality(Yields(q)) + 1
          /\ Cardinality(Done(q) \union {pos}) = Cardinality(Done(q)) + 1
      BY <3>7, <3>8, FS_AddElement
    <3> HIDE DEF e
    <3> QED
      BY <1>6, <2>1, <2>2, <3>3, <3>4, <3>5, <3>6, <3>9
      DEF Counted, AllTagsListed
  <2> QED
    BY <2>3, <2>4
<1>7. CASE recent
  BY <1>7 DEF Counted, AllTagsListed
<1>8. CASE ReadMetadata \/ MetadataMissing \/ MetadataFailed
  BY <1>7, <1>8 DEF ReadMetadata, MetadataMissing, MetadataFailed, Position
<1>9. CASE AllYielded \/ \E t \in TagNames : YieldLatest(t)
  BY <1>7, <1>9 DEF AllYielded, YieldLatest, Position
<1>10. CASE \E failure \in Failures : ListFailedRecent(failure)
  BY <1>7, <1>10 DEF ListFailedRecent
<1> QED
  BY <1>1, <1>2, <1>3, <1>4, <1>5, <1>6, <1>7, <1>8, <1>9, <1>10
  DEF Next, Scheduler, Iterator, Terminated

-------------------------------------------------------------------------------
(* The theorems.                                                           *)

Invariant == IInv /\ RecentInv /\ LatestInv /\ PlainInv

LEMMA Invariance == Spec => []Invariant
<1>1. Init => Invariant
  BY InitIInv, InitRecentInv, InitLatestInv, InitPlainInv DEF Invariant
<1>2. Invariant /\ [Next]_vars => Invariant'
  BY NextIInv, NextRecentInv, NextLatestInv, NextPlainInv DEF Invariant
<1> QED
  BY <1>1, <1>2, PTL DEF Spec

\* Every variable of the iterators stays in its type (getRuns, getRecentRuns).
THEOREM TypeCorrect == Spec => []TypeOK
<1>1. Invariant => TypeOK
  BY DEF Invariant, IInv
<1> QED
  BY <1>1, Invariance, PTL

\* An error in the middle of the metadata is the only entry of getRecentRuns
\* (scheduler.go:315-319).
THEOREM ErrorIsOnlyEntry == Spec => []AllOrNothing
<1>1. Invariant => AllOrNothing
  BY DEF Invariant, RecentInv, RecentPhase, AllOrNothing
<1> QED
  BY <1>1, Invariance, PTL

\* getRecentRuns yields at most one run for a tag, and a run nobody touches
\* only for a tag that was asked for (scheduler.go:304-337).
THEOREM OneEntryPerTag == Spec => []OnePerTag
<1>1. Invariant => OnePerTag
  BY DEF Invariant, RecentInv, YieldedOnce, ListedUnderTag, OnePerTag
<1> QED
  BY <1>1, Invariance, PTL

\* getRecentRuns passes over no run that kept its tag for an older one,
\* whatever is submitted and retagged meanwhile (scheduler.go:304-337).
THEOREM LatestIsCovered == Spec => []LatestCovered
<1>1. Invariant => LatestCovered
  <2> SUFFICES ASSUME Invariant, recent, pc = "ended", ~Failed,
                      NEW r \in Reliable
               PROVE  \E e \in Entries : /\ e.tag = tag[r]
                                         /\ receivedAt[e.run] >= receivedAt[r]
    BY DEF LatestCovered
  <2>1. tag[r] \in TagNames /\ tag[r] \in Range(Tags)
    BY ReliableRuns DEF Invariant, IInv, Reliable
  <2>2. DOMAIN Tags = 1 .. Len(Tags) /\ Len(Tags) \in Nat /\ pos \in Nat
    BY TagsAssumption, LenProperties DEF Invariant, IInv, TypeOK
  <2>3. pos > Len(Tags) /\ latestRunByTag[tag[r]] = NoRun
    BY <2>1 DEF Invariant, LatestInv, AllRead
  <2>4. Listed(r)
    BY <2>1, <2>2, <2>3 DEF Listed, Range
  <2>5. ~NoOlder(latestRunByTag[tag[r]], r)
    BY <2>3, RunsAssumption DEF NoOlder
  <2> QED
    BY <2>4, <2>5 DEF Invariant, LatestInv, Covered, NoOlder
<1> QED
  BY <1>1, Invariance, PTL

\* getRuns leaves out no run that kept one of the tags and yields it once for
\* each time the tag was asked for (scheduler.go:267-302).
THEOREM NoRunLeftOut == Spec => []PlainComplete
<1>1. Invariant => PlainComplete
  <2> SUFFICES ASSUME Invariant, ~recent, pc = "ended", ~Failed,
                      NEW r \in Reliable
               PROVE  Cardinality({i \in DOMAIN yielded : yielded[i].run = r})
                      = Cardinality({k \in DOMAIN Tags : Tags[k] = tag[r]})
    BY DEF PlainComplete
  <2>1. DOMAIN Tags = 1 .. Len(Tags) /\ Len(Tags) \in Nat /\ pos \in Nat
    BY TagsAssumption, LenProperties DEF Invariant, IInv, TypeOK
  <2>2. pos > Len(Tags)
    BY DEF Invariant, PlainInv, AllTagsListed
  <2>3. Done(r) = {k \in DOMAIN Tags : Tags[k] = tag[r]}
    BY <2>1, <2>2 DEF Done
  <2>4. Cardinality(Yields(r)) = Cardinality(Done(r))
    BY DEF Invariant, PlainInv, Counted
  <2> QED
    BY <2>3, <2>4 DEF Yields
<1> QED
  BY <1>1, Invariance, PTL

-------------------------------------------------------------------------------
(* The iteration comes to an end.                                          *)
(*                                                                         *)
(* That it does is a property of fair behaviours and stays with the runs.  *)
(* What it rests on is proved here: each step of the iterator is one tag   *)
(* further, or one step nearer to the end of the tag it is at.             *)

\* The tags getRecentRuns has seen a run for and has not yielded.
Kept == {t \in TagNames : latestRunByTag[t] # NoRun}

\* What is left to do at the tag the iterator is at: an entry and its metadata
\* are three steps, and a tag more may be kept for it.
TagLeft ==
  IF pc = "listing" THEN 3 * Cardinality(Runs) + 2
  ELSE IF pc = "entries" THEN 3 * Cardinality(listing) + 1
  ELSE IF pc = "metadata" THEN 3 * Cardinality(listing) + 3
  ELSE IF pc = "yielding" THEN 1
  ELSE 0

RoundLeft == TagLeft + Cardinality(Kept)

\* Whatever is submitted, retagged or lost meanwhile, the iterator goes to the
\* next of the tags (scheduler.go:271) or has less to do at this one
\* (scheduler.go:292-299, :313-336): it never lists a tag again, and the runs
\* that are submitted while it reads do not hold it up.
Dwindles ==
  [][\/ UNCHANGED iteratorVars
     \/ pos' = pos + 1
     \/ pos' = pos /\ RoundLeft' < RoundLeft]_vars

\* The runs of a listing are finite in number, and no more than there are.
LEMMA ListingFinite ==
  ASSUME NEW L, L \subseteq Runs
  PROVE  /\ IsFiniteSet(L)
         /\ Cardinality(L) \in Nat
         /\ Cardinality(Runs) \in Nat
         /\ Cardinality(L) <= Cardinality(Runs)
<1>1. IsFiniteSet(Runs) /\ L \in SUBSET Runs
  BY RunsAssumption
<1> QED
  BY <1>1, FS_Subset, FS_CardinalityType

\* Only what has been read is kept, so that is finite too.
KeptFinite == IsFiniteSet(Kept)

LEMMA KeptStep == IInv /\ KeptFinite /\ [Next]_vars => KeptFinite'
<1> SUFFICES ASSUME IInv, KeptFinite, [Next]_vars PROVE IsFiniteSet(Kept')
  BY DEF KeptFinite
<1>1. CASE ReadMetadata
  <2>1. Kept' \in SUBSET (Kept \union {CountsFor(current)})
    BY <1>1 DEF ReadMetadata, Kept, IInv, TypeOK
  <2>2. IsFiniteSet(Kept \union {CountsFor(current)})
    BY FS_AddElement DEF KeptFinite
  <2> QED
    BY <2>1, <2>2, FS_Subset
<1>2. ASSUME NEW t \in TagNames, YieldLatest(t) PROVE IsFiniteSet(Kept')
  <2>1. Kept' \in SUBSET Kept
    BY <1>2 DEF YieldLatest, Kept, IInv, TypeOK
  <2> QED
    BY <2>1, FS_Subset DEF KeptFinite
<1>3. CASE UNCHANGED latestRunByTag
  BY <1>3 DEF Kept, KeptFinite
<1> QED
  BY <1>1, <1>2, <1>3
  DEF Next, Scheduler, Iterator, Terminated, Submit, UpdateTag, GiveTag,
      LoseMetadata, ListTag, ListFailed, ListFailedRecent, Entry, NextTag,
      AllListed, MetadataMissing, MetadataFailed, AllYielded, iteratorVars, vars

LEMMA KeptIsFinite == Spec => [](IInv /\ KeptFinite)
<1>1. Init => KeptFinite
  <2> SUFFICES ASSUME Init PROVE IsFiniteSet(Kept)
    BY DEF KeptFinite
  <2>1. Kept = {}
    BY DEF Init, Kept
  <2> QED
    BY <2>1, FS_EmptySet
<1> QED
  BY <1>1, InitIInv, NextIInv, KeptStep, PTL DEF Spec

\* The numbers of the measure.
LEMMA LeftNumbers ==
  ASSUME IInv, KeptFinite
  PROVE  /\ Cardinality(listing) \in Nat
         /\ Cardinality(Kept) \in Nat
         /\ TagLeft \in Nat
         /\ RoundLeft \in Nat
<1>1. Cardinality(listing) \in Nat /\ Cardinality(Runs) \in Nat
  BY ListingFinite DEF IInv, TypeOK
<1>2. Cardinality(Kept) \in Nat
  BY FS_CardinalityType DEF KeptFinite
<1>3. TagLeft \in Nat
  BY <1>1 DEF TagLeft
<1> QED
  BY <1>1, <1>2, <1>3 DEF RoundLeft

\* A step that keeps no further tag and leaves less to do at this one.
LEMMA LessAtTag ==
  ASSUME IInv, KeptFinite, latestRunByTag' = latestRunByTag,
         NEW k \in Nat, TagLeft' = k, k < TagLeft
  PROVE  RoundLeft' < RoundLeft
<1>1. Kept' = Kept
  BY DEF Kept
<1>2. PICK c \in Nat, l \in Nat : Cardinality(Kept) = c /\ TagLeft = l
  BY LeftNumbers
<1>3. RoundLeft = l + c /\ RoundLeft' = k + c
  BY <1>1, <1>2 DEF RoundLeft
<1> QED
  BY <1>2, <1>3

\* Every step of the iterator is one tag further or has less to do.
LEMMA StepLess ==
  ASSUME IInv, KeptFinite, Next
  PROVE  \/ UNCHANGED iteratorVars
         \/ pos' = pos + 1
         \/ pos' = pos /\ RoundLeft' < RoundLeft
<1> USE DEF IInv
<1>a. /\ Cardinality(Runs) \in Nat /\ Cardinality(listing) \in Nat
      /\ listing \subseteq Runs /\ IsFiniteSet(listing)
  BY ListingFinite DEF TypeOK
<1>1. CASE Scheduler \/ Terminated
  BY <1>1
  DEF Scheduler, Submit, UpdateTag, GiveTag, LoseMetadata, Terminated, vars
<1>2. CASE ListTag
  <2>1. listing' \subseteq Runs
    BY <1>2 DEF ListTag
  <2>2. PICK n \in Nat : Cardinality(listing') = n /\ n <= Cardinality(Runs)
    BY <2>1, ListingFinite
  <2>3. pc = "listing" /\ pc' = "entries"
    BY <1>2 DEF ListTag
  <2>4. TagLeft = 3 * Cardinality(Runs) + 2 /\ TagLeft' = 3 * n + 1
    BY <2>2, <2>3 DEF TagLeft
  <2>5. 3 * n + 1 \in Nat /\ 3 * n + 1 < TagLeft
    BY <1>a, <2>2, <2>4
  <2>6. RoundLeft' < RoundLeft
    BY <1>2, <2>4, <2>5, LessAtTag DEF ListTag
  <2> QED
    BY <1>2, <2>6 DEF ListTag
<1>3. ASSUME NEW failure \in Failures, ListFailed(failure)
      PROVE  pos' = pos + 1 \/ (pos' = pos /\ RoundLeft' < RoundLeft)
  <2>1. CASE failure = "transport"
    <3>1. pc = "listing" /\ pc' = "ended" /\ pos' = pos
      BY <1>3, <2>1 DEF ListFailed
    <3>2. TagLeft = 3 * Cardinality(Runs) + 2 /\ TagLeft' = 0
      BY <3>1 DEF TagLeft
    <3>3. RoundLeft' < RoundLeft
      BY <1>3, <1>a, <3>2, LessAtTag DEF ListFailed
    <3> QED
      BY <3>1, <3>3
  <2>2. CASE failure # "transport"
    BY <1>3, <2>2 DEF ListFailed
  <2> QED
    BY <2>1, <2>2
<1>4. ASSUME NEW failure \in Failures, ListFailedRecent(failure)
      PROVE  pos' = pos /\ RoundLeft' < RoundLeft
  <2>1. pc = "listing" /\ pc' = "panicked" /\ pos' = pos
    BY <1>4 DEF ListFailedRecent
  <2>2. TagLeft = 3 * Cardinality(Runs) + 2 /\ TagLeft' = 0
    BY <2>1 DEF TagLeft
  <2>3. RoundLeft' < RoundLeft
    BY <1>4, <1>a, <2>2, LessAtTag DEF ListFailedRecent
  <2> QED
    BY <2>1, <2>3
<1>5. ASSUME NEW r \in Runs, Entry(r)
      PROVE  pos' = pos /\ RoundLeft' < RoundLeft
  <2>1. PICK n \in Nat : Cardinality(listing) = n
    BY <1>a
  <2>2. n > 0 /\ Cardinality(listing') = n - 1
    <3>1. r \in listing /\ listing' = listing \ {r}
      BY <1>5 DEF Entry
    <3>2. n # 0
      BY <1>a, <2>1, <3>1, FS_EmptySet
    <3>3. Cardinality(listing \ {r}) = Cardinality(listing) - 1
      BY <1>a, <3>1, FS_RemoveElement
    <3> QED
      BY <2>1, <3>1, <3>2, <3>3
  <2>3. pc = "entries" /\ pc' \in {"entries", "metadata", "stopped"}
    BY <1>5 DEF Entry
  <2>4. TagLeft = 3 * n + 1
    BY <2>1, <2>3 DEF TagLeft
  <2>5. PICK k \in {3 * (n - 1) + 1, 3 * (n - 1) + 3, 0} : TagLeft' = k
    BY <2>2, <2>3 DEF TagLeft
  <2>6. k \in Nat /\ k < TagLeft
    BY <2>2, <2>4, <2>5
  <2>7. RoundLeft' < RoundLeft
    BY <1>5, <2>5, <2>6, LessAtTag DEF Entry
  <2> QED
    BY <1>5, <2>7 DEF Entry
<1>6. CASE NextTag
  BY <1>6 DEF NextTag
<1>7. CASE AllListed
  <2>1. pc = "listing" /\ pc' \in {"yielding", "ended"}
    BY <1>7 DEF AllListed
  <2>2. PICK k \in {0, 1} : TagLeft' = k
    BY <2>1 DEF TagLeft
  <2>3. TagLeft = 3 * Cardinality(Runs) + 2
    BY <2>1 DEF TagLeft
  <2>4. k \in Nat /\ k < TagLeft
    BY <1>a, <2>3
  <2>5. RoundLeft' < RoundLeft
    BY <1>7, <2>2, <2>4, LessAtTag DEF AllListed
  <2> QED
    BY <1>7, <2>5 DEF AllListed
<1>8. CASE ReadMetadata
  <2> DEFINE K == Kept \union {CountsFor(current)}
  <2>1. Kept' \in SUBSET K
    BY <1>8 DEF ReadMetadata, Kept, TypeOK
  <2>2. PICK c \in Nat : Cardinality(Kept) = c
    BY LeftNumbers
  <2>3. IsFiniteSet(K) /\ (Cardinality(K) = c \/ Cardinality(K) = c + 1)
    BY <2>2, FS_AddElement DEF KeptFinite
  <2> HIDE DEF K
  <2>4. PICK d \in Nat : Cardinality(Kept') = d /\ d <= c + 1
    BY <2>1, <2>2, <2>3, FS_Subset, FS_CardinalityType
  <2>5. PICK n \in Nat : Cardinality(listing) = n
    BY <1>a
  <2>6. TagLeft = 3 * n + 3 /\ TagLeft' = 3 * n + 1
    BY <1>8, <2>5 DEF ReadMetadata, TagLeft
  <2>7. RoundLeft = 3 * n + 3 + c /\ RoundLeft' = 3 * n + 1 + d
    BY <2>2, <2>4, <2>6 DEF RoundLeft
  <2>8. RoundLeft' < RoundLeft
    BY <2>4, <2>7
  <2> QED
    BY <1>8, <2>8 DEF ReadMetadata
<1>9. CASE MetadataMissing \/ MetadataFailed
  <2>1. pc = "metadata" /\ pc' \in {"panicked", "ended"}
    BY <1>9 DEF MetadataMissing, MetadataFailed
  <2>2. TagLeft = 3 * Cardinality(listing) + 3 /\ TagLeft' = 0
    BY <2>1 DEF TagLeft
  <2>3. latestRunByTag' = latestRunByTag /\ pos' = pos
    BY <1>9 DEF MetadataMissing, MetadataFailed
  <2>4. RoundLeft' < RoundLeft
    BY <1>a, <2>2, <2>3, LessAtTag
  <2> QED
    BY <2>3, <2>4
<1>10. ASSUME NEW t \in TagNames, YieldLatest(t)
       PROVE  pos' = pos /\ RoundLeft' < RoundLeft
  <2>1. t \in Kept /\ Kept' = Kept \ {t}
    BY <1>10 DEF YieldLatest, Kept, TypeOK
  <2>2. PICK c \in Nat : Cardinality(Kept) = c
    BY LeftNumbers
  <2>3. Cardinality(Kept') = c - 1
    BY <2>1, <2>2, FS_RemoveElement DEF KeptFinite
  <2>4. TagLeft = 1 /\ TagLeft' = 1
    BY <1>10 DEF YieldLatest, TagLeft
  <2>5. RoundLeft = 1 + c /\ RoundLeft' = 1 + (c - 1)
    BY <2>2, <2>3, <2>4 DEF RoundLeft
  <2> QED
    BY <1>10, <2>5 DEF YieldLatest
<1>11. CASE AllYielded
  <2>1. TagLeft = 1 /\ TagLeft' = 0
    BY <1>11 DEF AllYielded, TagLeft
  <2>2. RoundLeft' < RoundLeft
    BY <1>11, <2>1, LessAtTag DEF AllYielded
  <2> QED
    BY <1>11, <2>2 DEF AllYielded
<1> QED
  BY <1>1, <1>2, <1>3, <1>4, <1>5, <1>6, <1>7, <1>8, <1>9, <1>10, <1>11
  DEF Next, Iterator

\* The iteration runs out of work: there are finitely many tags, and at each
\* of them a natural number goes down with every step.
THEOREM IterationRunsOut ==
  Spec => [](pos \in 1 .. Len(Tags) + 1 /\ RoundLeft \in Nat) /\ Dwindles
<1>1. IInv /\ KeptFinite => pos \in 1 .. Len(Tags) + 1 /\ RoundLeft \in Nat
  BY LeftNumbers DEF IInv, TypeOK
<1>2. IInv /\ KeptFinite /\ [Next]_vars
        => [\/ UNCHANGED iteratorVars
            \/ pos' = pos + 1
            \/ pos' = pos /\ RoundLeft' < RoundLeft]_vars
  BY StepLess
<1> QED
  BY <1>1, <1>2, KeptIsFinite, PTL DEF Spec, Dwindles
===============================================================================
