----------------------------- MODULE RunDiscovery -----------------------------
(***************************************************************************)
(* getRuns and getRecentRuns of sdk/scheduler.go: the iterators that list  *)
(* the runs behind a sequence of tags, one request for each tag, and, for  *)
(* the recent runs, one metadata request for each run that was listed.     *)
(* The scheduler is external and does not stand still between the          *)
(* requests: runs are submitted, they are given another tag (UpdateRunTag, *)
(* by any client), and their metadata may be missing.                      *)
(*                                                                         *)
(* awaitRuns (module AwaitRuns) consumes either iterator to its end;       *)
(* GetRunResults hands getRuns to a caller that may stop at any entry, as  *)
(* main.go does at the first error.                                        *)
(***************************************************************************)
EXTENDS Integers, Sequences, FiniteSets, Functions

CONSTANTS
  Runs,               \* the runs there may be
  TagNames,           \* the tags a run may have
  Tags,               \* the tags asked for, a sequence
  LastTime,           \* receivedAt is in 0 .. LastTime
  OnlyRecentRuns,     \* FALSE for getRuns, TRUE for getRecentRuns, or both
  Failures,           \* how a request may fail
  NoTag,              \* the tag of a run that has not been submitted
  NoRun               \* no run

ASSUME TagsAssumption == Tags \in Seq(TagNames) /\ NoTag \notin TagNames
ASSUME RunsAssumption == IsFiniteSet(Runs) /\ NoRun \notin Runs
ASSUME TimeAssumption == LastTime \in Nat
ASSUME ChoiceAssumption ==
  /\ OnlyRecentRuns \subseteq BOOLEAN
  /\ Failures \subseteq {"transport", "badRequest", "unauthorized", "unhandled"}

VARIABLES
  recent,             \* whether it is getRecentRuns that iterates
  tag,                \* the tag of each run at the scheduler
  receivedAt,         \* when each run was received
  matching,           \* the runs of the algorithm asked for
  described,          \* the runs whose metadata can be read
  pc,                 \* where the iterator is
  pos,                \* the tag that is being listed
  listing,            \* what is left of the listing of that tag
  current,            \* the run whose metadata is to be read
  latestRunByTag,     \* the latest run seen for each tag
  yielded,            \* the entries yielded, a run with the tag it counts for
  panic,              \* the nil pointer that has been used
  settled             \* history: the runs nobody has touched since the call

serverVars == <<tag, receivedAt, matching, described, settled>>
iteratorVars == <<recent, pc, pos, listing, current, latestRunByTag, yielded,
                  panic>>
vars == <<serverVars, iteratorVars>>

Init ==
  /\ tag \in [Runs -> TagNames \union {NoTag}]
  /\ receivedAt \in [Runs -> 0 .. LastTime]
  /\ matching \in SUBSET Runs
  /\ described = Runs
  /\ recent \in OnlyRecentRuns
  /\ pc = "listing"
  /\ pos = 1
  /\ listing = {}
  /\ current = NoRun
  /\ latestRunByTag = [t \in TagNames |-> NoRun]
  /\ yielded = <<>>
  /\ panic = "none"
  /\ settled = {r \in Runs : tag[r] # NoTag}

-------------------------------------------------------------------------------
(* The scheduler.                                                          *)

GiveTag(r, t) ==
  /\ tag' = [tag EXCEPT ![r] = t]
  /\ settled' = settled \ {r}
  /\ UNCHANGED <<receivedAt, matching, described, iteratorVars>>

Submit(r, t) == tag[r] = NoTag /\ GiveTag(r, t)

UpdateTag(r, t) ==
  /\ tag[r] \notin {NoTag, t}
  /\ GiveTag(r, t)

\* The metadata request for this run is answered with 404 from now on.
LoseMetadata(r) ==
  /\ r \in described
  /\ described' = described \ {r}
  /\ settled' = settled \ {r}
  /\ UNCHANGED <<tag, receivedAt, matching, iteratorVars>>

-------------------------------------------------------------------------------
(* getRuns.                                                                *)

Yield(r, t) == yielded' = Append(yielded, [run |-> r, tag |-> t])
YieldError == yielded' = Append(yielded, [run |-> NoRun, tag |-> NoTag])

ListTag ==
  /\ pc = "listing"
  /\ pos <= Len(Tags)
  /\ listing' = {r \in Runs : tag[r] = Tags[pos]}
  /\ pc' = "entries"
  /\ UNCHANGED <<serverVars, recent, pos, current, latestRunByTag, yielded,
                 panic>>

\* Mutation: a request that fails ends the iteration without an entry.
ListFailedSilently(failure) ==
  /\ pc = "listing"
  /\ pos <= Len(Tags)
  /\ pc' = "ended"
  /\ UNCHANGED <<serverVars, recent, pos, listing, current, latestRunByTag,
                 yielded, panic>>

\* An answer that is an error stands for its tag; a request that fails ends
\* the iteration.  The consumer may stop at the error.
ListFailed(failure) ==
  /\ ~recent
  /\ pc = "listing"
  /\ pos <= Len(Tags)
  /\ YieldError
  /\ \/ failure = "transport" /\ pc' = "ended" /\ pos' = pos
     \/ /\ failure # "transport"
        /\ pc' \in {"listing", "stopped"}
        /\ pos' = pos + 1
  /\ UNCHANGED <<serverVars, recent, listing, current, latestRunByTag, panic>>

\* getRecentRuns logs the name of the run that comes with the error: there is
\* none with any error of getRuns.
ListFailedRecent(failure) ==
  /\ recent
  /\ pc = "listing"
  /\ pos <= Len(Tags)
  /\ pc' = "panicked"
  /\ panic' = "listing"
  /\ UNCHANGED <<serverVars, recent, pos, listing, current, latestRunByTag,
                 yielded>>

\* An entry of the listing, in whatever order the scheduler lists them.
Entry(r) ==
  /\ pc = "entries"
  /\ r \in listing
  /\ listing' = listing \ {r}
  /\ \/ /\ r \notin matching
        /\ UNCHANGED <<pc, current, yielded>>
     \/ /\ r \in matching
        /\ recent
        /\ current' = r
        /\ pc' = "metadata"
        /\ UNCHANGED yielded
     \/ /\ r \in matching
        /\ ~recent
        /\ Yield(r, Tags[pos])
        /\ pc' \in {"entries", "stopped"}
        /\ UNCHANGED current
  /\ UNCHANGED <<serverVars, recent, pos, latestRunByTag, panic>>

\* Mutation: the same tag is listed again.
NextTagSame ==
  /\ pc = "entries"
  /\ listing = {}
  /\ pc' = "listing"
  /\ UNCHANGED <<serverVars, recent, pos, listing, current, latestRunByTag,
                 yielded, panic>>

NextTag ==
  /\ pc = "entries"
  /\ listing = {}
  /\ pos' = pos + 1
  /\ pc' = "listing"
  /\ UNCHANGED <<serverVars, recent, listing, current, latestRunByTag,
                 yielded, panic>>

AllListed ==
  /\ pc = "listing"
  /\ pos > Len(Tags)
  /\ pc' = IF recent THEN "yielding" ELSE "ended"
  /\ UNCHANGED <<serverVars, recent, pos, listing, current, latestRunByTag,
                 yielded, panic>>

-------------------------------------------------------------------------------
(* getRecentRuns.                                                          *)

\* Mutation: the comparison is the wrong way round.
SupersedesOlder(r, q) == q = NoRun \/ receivedAt[r] < receivedAt[q]

Supersedes(r, q) == q = NoRun \/ receivedAt[r] > receivedAt[q]

\* The metadata has the tag the run has now, not the one it was listed under.
CountsFor(r) == tag[r]

\* Mutation: a run is yielded as soon as its metadata is there.
ReadMetadataStreaming ==
  /\ pc = "metadata"
  /\ current \in described
  /\ Yield(current, CountsFor(current))
  /\ pc' = "entries"
  /\ current' = NoRun
  /\ UNCHANGED <<serverVars, recent, pos, listing, latestRunByTag, panic>>

ReadMetadata ==
  /\ pc = "metadata"
  /\ current \in described
  /\ latestRunByTag' = [latestRunByTag EXCEPT ![CountsFor(current)] =
                          IF Supersedes(current, @) THEN current ELSE @]
  /\ pc' = "entries"
  /\ current' = NoRun
  /\ UNCHANGED <<serverVars, recent, pos, listing, yielded, panic>>

\* GetMetadata answers a 404 with no error and no metadata, and the tag of the
\* metadata is read all the same.
MetadataMissing ==
  /\ pc = "metadata"
  /\ current \notin described
  /\ pc' = "panicked"
  /\ panic' = "metadata"
  /\ UNCHANGED <<serverVars, recent, pos, listing, current, latestRunByTag,
                 yielded>>

\* Mutation: the iteration goes on after the error.
MetadataFailedSkipped ==
  /\ pc = "metadata"
  /\ Failures # {}
  /\ YieldError
  /\ pc' = "entries"
  /\ current' = NoRun
  /\ UNCHANGED <<serverVars, recent, pos, listing, latestRunByTag, panic>>

MetadataFailed ==
  /\ pc = "metadata"
  /\ Failures # {}
  /\ YieldError
  /\ pc' = "ended"
  /\ current' = NoRun
  /\ UNCHANGED <<serverVars, recent, pos, listing, latestRunByTag, panic>>

\* Mutation: every tag is looked up, whether a run has been seen for it or not.
YieldLatestAny(t) ==
  /\ pc = "yielding"
  /\ Len(yielded) < Cardinality(TagNames)
  /\ Yield(latestRunByTag[t], t)
  /\ latestRunByTag' = [latestRunByTag EXCEPT ![t] = NoRun]
  /\ UNCHANGED <<serverVars, recent, pc, pos, listing, current, panic>>

\* A map is ranged over in any order.
YieldLatest(t) ==
  /\ pc = "yielding"
  /\ latestRunByTag[t] # NoRun
  /\ Yield(latestRunByTag[t], t)
  /\ latestRunByTag' = [latestRunByTag EXCEPT ![t] = NoRun]
  /\ UNCHANGED <<serverVars, recent, pc, pos, listing, current, panic>>

AllYielded ==
  /\ pc = "yielding"
  /\ \A t \in TagNames : latestRunByTag[t] = NoRun
  /\ pc' = "ended"
  /\ UNCHANGED <<serverVars, recent, pos, listing, current, latestRunByTag,
                 yielded, panic>>

-------------------------------------------------------------------------------
Over == pc \in {"ended", "stopped", "panicked"}

Terminated == Over /\ UNCHANGED vars

Iterator ==
  \/ ListTag
  \/ \E failure \in Failures : ListFailed(failure) \/ ListFailedRecent(failure)
  \/ \E r \in Runs : Entry(r)
  \/ NextTag
  \/ AllListed
  \/ ReadMetadata
  \/ MetadataMissing
  \/ MetadataFailed
  \/ \E t \in TagNames : YieldLatest(t)
  \/ AllYielded

Scheduler ==
  /\ ~Over
  /\ \/ \E r \in Runs, t \in TagNames : Submit(r, t) \/ UpdateTag(r, t)
     \/ \E r \in Runs : LoseMetadata(r)

Next == Scheduler \/ Iterator \/ Terminated

Spec == Init /\ [][Next]_vars

\* Every request is answered or fails, and the consumer asks for the next
\* entry or stops.
FairSpec == Spec /\ WF_vars(Iterator)

-------------------------------------------------------------------------------
(* Properties.                                                             *)

Entries == {yielded[i] : i \in DOMAIN yielded}
Failed == \E e \in Entries : e.run = NoRun

\* The runs a caller could rely on: they had one of the tags when the call was
\* made and nobody has touched them since.
Reliable == {r \in settled \intersect matching : tag[r] \in Range(Tags)}

\* Every variable stays in its type; the metadata of a run is read only while
\* there is one, and an entry without a run is an error.
TypeOK ==
  /\ tag \in [Runs -> TagNames \union {NoTag}]
  /\ receivedAt \in [Runs -> 0 .. LastTime]
  /\ matching \subseteq Runs
  /\ described \subseteq Runs
  /\ settled \subseteq Runs
  /\ recent \in OnlyRecentRuns
  /\ pc \in {"listing", "entries", "metadata", "yielding", "ended", "stopped",
             "panicked"}
  /\ pos \in 1 .. Len(Tags) + 1
  /\ listing \subseteq Runs
  /\ current \in Runs \union {NoRun}
  /\ pc = "metadata" => current # NoRun
  /\ latestRunByTag \in [TagNames -> Runs \union {NoRun}]
  /\ \A e \in Entries :
       \/ e.run \in Runs /\ e.tag \in TagNames
       \/ e.run = NoRun /\ e.tag = NoTag
  /\ panic \in {"none", "listing", "metadata"}
  /\ panic # "none" <=> pc = "panicked"

\* getRuns leaves out no run it should have yielded (scheduler.go:267-302): if
\* it comes to its end without yielding an error, every run that kept one of
\* the tags has been yielded, once for each time its tag was asked for,
\* whatever was submitted or retagged meanwhile.
PlainComplete ==
  ~recent /\ pc = "ended" /\ ~Failed =>
    \A r \in Reliable :
      Cardinality({i \in DOMAIN yielded : yielded[i].run = r})
        = Cardinality({k \in DOMAIN Tags : Tags[k] = tag[r]})

\* "reads runs matching provided tags, but only returns latest ones"
\* (scheduler.go:304): a run that kept its tag is not passed over for an
\* older one, though the runs are read one by one while others are submitted
\* and retagged.
LatestCovered ==
  recent /\ pc = "ended" /\ ~Failed =>
    \A r \in Reliable :
      \E e \in Entries :
        /\ e.tag = tag[r]
        /\ receivedAt[e.run] >= receivedAt[r]

\* An error in the middle of the metadata ends getRecentRuns with that error
\* as its only entry (scheduler.go:315-319), so that awaitRuns does not start
\* to await some of the runs: the runs are yielded after all has been read.
AllOrNothing == recent /\ Failed => Len(yielded) = 1

\* getRecentRuns yields at most one run for a tag (main.go:671, "Python API can
\* only retrieve recent runs for each tag"), and none for a tag nobody asked
\* for, but that the run may have been given after it was listed: the
\* metadata is read later and has the later tag.
OnePerTag ==
  recent =>
    \A i, j \in DOMAIN yielded :
      /\ yielded[i].tag = yielded[j].tag => i = j
      /\ yielded[i].run \in settled => yielded[i].tag \in Range(Tags)

\* The iteration comes to an end, so that awaitRuns gets to collect results,
\* though runs may be submitted all the time.
IterationEnds == <>Over

\* An error of the listing reaches the consumer: awaitRuns has a branch for an
\* error without a run, "Unable to initialize await loop for the provided run
\* metadata" (scheduler.go:204).
ListingErrorSurvives == panic # "listing"
===============================================================================
