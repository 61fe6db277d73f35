--------------------------- MODULE CatalogUpdateProofs ---------------------------
(***************************************************************************)
(* Theorems about CatalogUpdate, for every set of sources, repositories    *)
(* and policies. The strengthening of TypeOK is RecordsConsistent, what an *)
(* inventory record says of its package, and RequiredPresent.              *)
(***************************************************************************)
EXTENDS CatalogUpdate, FiniteSetTheorems, WellFoundedInduction, TLAPS

(* The version of an entry is the one in its package; a revised package is  *)
(* its origin rewritten to that version (publication.validate_record), at   *)
(* least the minimum of the policy.                                         *)
Consistent(e) ==
  /\ e.bytes.version = e.version
  /\ e.revised => e.bytes = [build |-> e.origin.build, version |-> e.version, repacked |-> TRUE]
  /\ e.revised => e.version >= MinimumPublished

RecordsConsistent == \A e \in Listed : Consistent(e)

(* Required sources are in the maintained catalog, and the history of a     *)
(* listed source is its entry.                                              *)
RequiredPresent ==
  /\ Required \subseteq Ids(maintained)
  /\ \A e \in last, f \in Listed : e.id = f.id => e = f

(* An index holds a source once, and each catalog keeps to the policy.      *)
OneOffer == \A o, p \in upstream : o.repo = p.repo /\ o.id = p.id => o = p

PolicyKept ==
  /\ \A e \in maintained : (e.repo = Active \/ e.id \in Promoted) /\ e.id \notin ManualMaintained
  /\ \A e \in legacy : e.id \notin ManualLegacy

IInv ==
  /\ TypeOK /\ RecordsConsistent /\ RequiredPresent /\ QuarantineWithdrawn
  /\ OneOffer /\ PolicyKept

(* An entry whose version may still be out of range.                        *)
Draft == [id : Source, repo : Repository, version : Nat \ {0}, bytes : Bytes,
          origin : Bytes, revised : BOOLEAN]

-----------------------------------------------------------------------------
LEMMA EntryIsDraft == Entry \subseteq Draft
BY CatalogAssumption DEF Entry, Draft

(* What Fresh makes of an upstream offer.                                   *)
LEMMA FreshDraft ==
  ASSUME NEW o \in Offer
  PROVE  Fresh(o) \in Draft /\ Consistent(Fresh(o)) /\ ~Fresh(o).revised
BY CatalogAssumption DEF Offer, Fresh, Raw, Draft, Bytes, Consistent

(* What the cache makes of a published entry.                               *)
AsCandidate(e) == [e EXCEPT !.origin = e.bytes, !.revised = FALSE]

LEMMA CachedDraft ==
  ASSUME NEW e \in Draft, e.bytes.version = e.version
  PROVE  /\ AsCandidate(e) \in Draft /\ Consistent(AsCandidate(e)) /\ ~AsCandidate(e).revised
         /\ AsCandidate(e).id = e.id /\ AsCandidate(e).repo = e.repo
         /\ AsCandidate(e).version = e.version /\ AsCandidate(e).bytes = e.bytes
BY DEF AsCandidate, Draft, Consistent

(* A downloaded candidate is fresh -- then no entry of that version is      *)
(* cached, or the source is checked live -- or the copy of a published one. *)
LEMMA DownloadedShape ==
  ASSUME NEW down, NEW fetched, NEW c \in Downloaded(down, fetched)
  PROVE  \/ \E o \in upstream : c = Fresh(o) /\ (SameVersion(o) = {} \/ CheckedLive(o))
         \/ \E e \in Listed : c = AsCandidate(e)
<1>1. CASE \E o \in Read(down) : c \in Candidate(o, fetched)
  <2>1. PICK o \in Read(down) : c \in Candidate(o, fetched)
    BY <1>1
  <2>2. o \in upstream
    BY DEF Read
  <2>3. CASE c \in FromCache(SameVersion(o)) \/ c \in FromCache(Cache(o.repo, o.id))
    BY <2>3 DEF FromCache, SameVersion, Cache, AsCandidate
  <2>4. CASE c = Fresh(o) /\ (SameVersion(o) = {} \/ CheckedLive(o))
    BY <2>2, <2>4
  <2> QED
    BY <2>1, <2>3, <2>4 DEF Candidate
<1>2. CASE \E r \in down : c \in Recovered(r)
  BY <1>2 DEF Recovered, FromCache, AsCandidate
<1> QED
  BY <1>1, <1>2 DEF Downloaded

LEMMA DownloadedDraft ==
  ASSUME TypeOK, RecordsConsistent, NEW down, NEW fetched, NEW c \in Downloaded(down, fetched)
  PROVE  c \in Draft /\ Consistent(c) /\ ~c.revised
<1>1. CASE \E o \in upstream : c = Fresh(o)
  BY <1>1, FreshDraft DEF TypeOK
<1>2. CASE \E e \in Listed : c = AsCandidate(e)
  <2>1. PICK e \in Listed : c = AsCandidate(e)
    BY <1>2
  <2>2. e \in Draft /\ e.bytes.version = e.version
    BY EntryIsDraft DEF TypeOK, Listed, RecordsConsistent, Consistent
  <2> QED
    BY <2>1, <2>2, CachedDraft
<1> QED
  BY <1>1, <1>2, DownloadedShape

(* Revise rewrites the version of a candidate and remembers its bytes.      *)
LEMMA ReviseShape ==
  ASSUME NEW c \in Draft, NEW v \in Nat \ {0}, v >= MinimumPublished
  PROVE  /\ Revise(c, v) \in Draft /\ Consistent(Revise(c, v))
         /\ Revise(c, v).id = c.id /\ Revise(c, v).repo = c.repo
         /\ Revise(c, v).version = v /\ Revise(c, v).revised
         /\ Revise(c, v).origin = c.bytes
         /\ Revise(c, v).bytes = [build |-> c.bytes.build, version |-> v, repacked |-> TRUE]
BY DEF Revise, Draft, Bytes, Consistent

(* The three outcomes of publication.apply for an opted-in candidate: the   *)
(* published package itself, the same revision, or a greater one.           *)
LEMMA RepublishShape ==
  ASSUME TypeOK, RecordsConsistent, NEW c \in Draft, Consistent(c), NEW f \in Republish(c)
  PROVE  /\ f \in Draft /\ Consistent(f) /\ f.id = c.id /\ f.repo = c.repo /\ f.revised
         /\ \/ \E e \in Previous(c) :
                 /\ e.revised /\ f.bytes = e.bytes /\ f.version = e.version
                 /\ f.origin = e.origin
            \/ \E e \in Previous(c) :
                 /\ e.revised /\ f.version = e.version /\ f.origin = e.origin
            \/ /\ f.origin = c.bytes
               /\ \A e \in Previous(c) :
                    /\ f.version > e.version
                    /\ e.revised => c.bytes # e.bytes /\ c.bytes # e.origin
<1> DEFINE known == {e \in Previous(c) : e.revised}
           cached == {e \in known : e.bytes = c.bytes}
           same == {e \in known : e.origin = c.bytes}
<1>0. \A e \in Previous(c) : e \in Draft /\ e \in Listed /\ Consistent(e)
  BY EntryIsDraft DEF Previous, TypeOK, RecordsConsistent, Listed
<1>1. CASE cached # {}
  <2>1. PICK e \in cached : f = [c EXCEPT !.origin = e.origin, !.revised = TRUE]
    BY <1>1 DEF Republish
  <2>2. e \in Draft /\ Consistent(e) /\ e.revised /\ e.bytes = c.bytes
    BY <1>0
  <2>3. /\ f.id = c.id /\ f.repo = c.repo /\ f.revised = TRUE /\ f.origin = e.origin
        /\ f.bytes = e.bytes /\ f.version = c.version /\ f \in Draft
    BY <2>1, <2>2 DEF Draft
  <2>4. f.version = e.version
    BY <2>2, <2>3 DEF Consistent
  <2>5. Consistent(f)
    BY <2>2, <2>3, <2>4 DEF Consistent
  <2> QED
    BY <2>1, <2>2, <2>3, <2>4, <2>5
<1>2. CASE cached = {} /\ same # {}
  <2>1. PICK e \in same : f = Revise(c, Larger(MinimumPublished, e.version))
    BY <1>2 DEF Republish
  <2>2. e \in Draft /\ e.revised /\ e.origin = c.bytes /\ e.version >= MinimumPublished
    BY <1>0 DEF Consistent
  <2> DEFINE v == Larger(MinimumPublished, e.version)
  <2>3. v \in Nat \ {0} /\ v = e.version /\ v >= MinimumPublished
    BY <2>2, CatalogAssumption DEF Larger, Draft
  <2>4. f = Revise(c, v)
    BY <2>1
  <2> HIDE DEF v
  <2>5. /\ f \in Draft /\ Consistent(f) /\ f.id = c.id /\ f.repo = c.repo /\ f.revised
        /\ f.version = v /\ f.origin = c.bytes
    BY <2>3, <2>4, ReviseShape
  <2> QED
    BY <2>1, <2>2, <2>3, <2>5
<1>3. CASE cached = {} /\ same = {}
  <2>1. f = Revise(c, NewRevision(c))
    BY <1>3 DEF Republish
  <2>2. OldVersion(c) \in Nat
    BY <1>0 DEF OldVersion, Draft
  <2>3. \A e \in Previous(c) : e.version <= OldVersion(c)
    <3>1. \A e, g \in Previous(c) : e = g
      BY DEF Previous, TypeOK, AtMostOneEach, Listed
    <3> QED
      BY <1>0, <3>1 DEF OldVersion, Draft
  <2> DEFINE v == NewRevision(c)
  <2>4. v \in Nat \ {0} /\ v > OldVersion(c) /\ v >= MinimumPublished
    BY <2>2, CatalogAssumption DEF NewRevision, Larger, Draft
  <2>5. f = Revise(c, v)
    BY <2>1
  <2> HIDE DEF v
  <2>6. /\ f \in Draft /\ Consistent(f) /\ f.id = c.id /\ f.repo = c.repo /\ f.revised
        /\ f.version = v /\ f.origin = c.bytes
    BY <2>4, <2>5, ReviseShape
  <2>7. \A e \in Previous(c) : f.version > e.version
    BY <1>0, <2>2, <2>3, <2>4, <2>6 DEF Draft
  <2>8. \A e \in Previous(c) : e.revised => c.bytes # e.bytes /\ c.bytes # e.origin
    BY <1>3
  <2> QED
    BY <2>6, <2>7, <2>8
<1> QED
  BY <1>1, <1>2, <1>3

LEMMA PublishedDraft ==
  ASSUME TypeOK, RecordsConsistent, NEW down, NEW fetched,
         NEW f \in Published(Downloaded(down, fetched))
  PROVE  f \in Draft /\ Consistent(f)
BY DownloadedDraft, RepublishShape DEF Published

-----------------------------------------------------------------------------
(* Selection returns candidates, at most one for an identifier.             *)
LEMMA SelectShape ==
  ASSUME NEW C, C \subseteq Draft
  PROVE  Select(C) \subseteq C /\ AtMostOneEach(Select(C))
<1>1. Select(C) \subseteq C
  BY DEF Select, BestById
<1>2. ASSUME NEW c \in Select(C), NEW d \in Select(C), c.id = d.id, c # d
      PROVE  FALSE
  <2>1. c \in C /\ d \in C /\ Above(c, d) /\ Above(d, c)
    BY <1>2 DEF Select, BestById
  <2>2. c \in Draft /\ d \in Draft
    BY <2>1
  <2>3. /\ Priority[c.repo] \in Nat /\ Priority[d.repo] \in Nat
        /\ c.version \in Nat /\ d.version \in Nat
    BY <2>2, CatalogAssumption DEF Draft
  <2> QED
    BY <2>1, <2>3 DEF Above
<1> QED
  BY <1>1, <1>2 DEF AtMostOneEach

(* What a run publishes: candidates of the run that are in range and not    *)
(* quarantined, at most one for an identifier, all required ones among the  *)
(* maintained.                                                              *)
LEMMA RunShape ==
  ASSUME IInv, NEW down, NEW fetched, NEW sick \in SUBSET Source, Run(down, fetched, sick)
  PROVE  /\ Listed' \subseteq Published(Downloaded(down, fetched))
         /\ \A f \in Listed' : f.version < VersionLimit
         /\ AtMostOneEach(Listed')
         /\ Ids(Listed') \cap sick = {}
         /\ Required \subseteq Ids(maintained')
         /\ PolicyKept'
<1> DEFINE candidates == Published(Downloaded(down, fetched))
           main == Select(ForMaintained(candidates, sick))
           all == Select(Installable(candidates, sick))
<1>1. candidates \subseteq Draft
  BY PublishedDraft DEF IInv
<1>2. maintained' = main /\ legacy' = {c \in all : c.id \notin Ids(main)}
  BY DEF Run, Publish
<1>3. \A c \in candidates : c.version < VersionLimit
  BY DEF Run, InRange
<1>4. Required \subseteq Ids(maintained')
  BY <1>2 DEF Run, GatePasses
<1> HIDE DEF candidates
<1>5. main \subseteq ForMaintained(candidates, sick) /\ AtMostOneEach(main)
  BY <1>1, SelectShape DEF ForMaintained, HealthCandidates
<1>6. all \subseteq Installable(candidates, sick) /\ AtMostOneEach(all)
  BY <1>1, SelectShape DEF Installable
<1> HIDE DEF main, all
<1>7. main \subseteq candidates /\ all \subseteq candidates
  BY <1>5, <1>6 DEF ForMaintained, HealthCandidates, Installable
<1>8. \A f \in Listed' : f \in candidates /\ f.id \notin sick
  BY <1>2, <1>5, <1>6, <1>7 DEF Listed, ForMaintained, Installable
<1>9. AtMostOneEach(Listed')
  BY <1>2, <1>5, <1>6 DEF Listed, AtMostOneEach, Ids
<1>10. PolicyKept'
  BY <1>2, <1>5, <1>6 DEF PolicyKept, ForMaintained, HealthCandidates, Installable
<1>11. Ids(Listed') \cap sick = {}
  BY <1>8 DEF Ids
<1>12. Listed' \subseteq candidates /\ \A f \in Listed' : f.version < VersionLimit
  BY <1>3, <1>8
<1> QED
  BY <1>4, <1>9, <1>10, <1>11, <1>12 DEF candidates

-----------------------------------------------------------------------------
LEMMA InitInv == Init => IInv
<1> SUFFICES ASSUME Init
             PROVE  IInv
  OBVIOUS
<1> DEFINE candidates == {Fresh(o) : o \in Read({})}
           main == Select(ForMaintained(candidates, {}))
           all == Select(Installable(candidates, {}))
<1>1. candidates \subseteq Draft /\ \A c \in candidates : Consistent(c)
  BY FreshDraft DEF Init, Read
<1>2. \A c \in candidates : c.version < VersionLimit
  <2>1. \A o \in Read({}) : o \in Offer
    BY DEF Init, Read
  <2>2. \A o \in Offer : Fresh(o).version = o.version /\ o.version \in 1..MaxVersion
    BY DEF Offer, Fresh
  <2> QED
    BY <2>1, <2>2, CatalogAssumption
<1>3. maintained = main /\ legacy = {c \in all : c.id \notin Ids(main)} /\ Required \subseteq Ids(main)
  BY DEF Init
<1> HIDE DEF candidates
<1>3a. main \subseteq ForMaintained(candidates, {}) /\ AtMostOneEach(main)
  BY <1>1, SelectShape DEF ForMaintained, HealthCandidates
<1>3b. all \subseteq Installable(candidates, {}) /\ AtMostOneEach(all)
  BY <1>1, SelectShape DEF Installable
<1> HIDE DEF main, all
<1>4. main \subseteq candidates /\ AtMostOneEach(main)
  BY <1>3a DEF ForMaintained, HealthCandidates
<1>5. all \subseteq candidates /\ AtMostOneEach(all)
  BY <1>3b DEF Installable
<1>6. AtMostOneEach(Listed)
  BY <1>3, <1>4, <1>5 DEF Listed, AtMostOneEach, Ids
<1>7. Listed \subseteq candidates
  BY <1>3, <1>4, <1>5 DEF Listed
<1>8. Listed \subseteq Entry
  BY <1>1, <1>2, <1>7, CatalogAssumption DEF Entry, Draft
<1>9. TypeOK
  BY <1>6, <1>8 DEF TypeOK, Init, Listed
<1>10. RecordsConsistent
  BY <1>1, <1>7 DEF RecordsConsistent
<1>11. RequiredPresent
  BY <1>3, <1>6 DEF RequiredPresent, Init, AtMostOneEach
<1>12. QuarantineWithdrawn
  BY DEF QuarantineWithdrawn, Init
<1>13. OneOffer
  BY DEF Init, OneOffer
<1>14. PolicyKept
  BY <1>3, <1>3a, <1>3b DEF PolicyKept, ForMaintained, HealthCandidates, Installable
<1> QED
  BY <1>9, <1>10, <1>11, <1>12, <1>13, <1>14 DEF IInv

LEMMA RunInv ==
  ASSUME IInv, NEW down, NEW fetched, NEW sick \in SUBSET Source, Run(down, fetched, sick)
  PROVE  IInv'
<1>1. /\ Listed' \subseteq Published(Downloaded(down, fetched))
      /\ \A f \in Listed' : f.version < VersionLimit
      /\ AtMostOneEach(Listed')
      /\ Ids(Listed') \cap sick = {}
      /\ Required \subseteq Ids(maintained')
      /\ PolicyKept'
  BY RunShape
<1>2. \A f \in Listed' : f \in Draft /\ Consistent(f)
  BY <1>1, PublishedDraft DEF IInv
<1>3. Listed' \subseteq Entry
  BY <1>1, <1>2, CatalogAssumption DEF Entry, Draft
<1>4. /\ upstream' = upstream /\ quarantined' = sick /\ sampled' = TRUE
      /\ last' = {e \in last : e.id \notin Ids(Listed')} \cup Listed'
  BY DEF Run, Publish, Listed
<1>5. TypeOK'
  BY <1>1, <1>3, <1>4 DEF TypeOK, IInv, Listed
<1>6. RecordsConsistent'
  BY <1>2 DEF RecordsConsistent, Consistent
<1>7. RequiredPresent'
  BY <1>1, <1>4 DEF RequiredPresent, AtMostOneEach, Ids
<1>8. QuarantineWithdrawn'
  BY <1>1, <1>4 DEF QuarantineWithdrawn
<1>9. OneOffer'
  BY <1>4 DEF IInv, OneOffer
<1> QED
  BY <1>1, <1>5, <1>6, <1>7, <1>8, <1>9 DEF IInv

LEMMA NextInv == IInv /\ [Next]_vars => IInv'
<1> SUFFICES ASSUME IInv, [Next]_vars
             PROVE  IInv'
  OBVIOUS
<1>1. CASE UpdateRun
  BY <1>1, RunInv DEF UpdateRun
<1>2. ASSUME UNCHANGED <<maintained, legacy, quarantined, last>>, upstream' \subseteq Offer,
             OneOffer', sampled' \in BOOLEAN
      PROVE  IInv'
  BY <1>2 DEF IInv, TypeOK, RecordsConsistent, RequiredPresent, QuarantineWithdrawn, Listed, Ids,
              AtMostOneEach, Consistent, PolicyKept
<1>3. CASE NewDay
  BY <1>2, <1>3 DEF NewDay, IInv, TypeOK, OneOffer
<1>4. CASE Release
  <2>1. upstream' \subseteq Offer /\ OneOffer'
    BY <1>4 DEF Release, IInv, TypeOK, OneOffer
  <2> QED
    BY <1>2, <1>4, <2>1 DEF Release, IInv, TypeOK
<1>5. CASE UNCHANGED vars
  BY <1>2, <1>5 DEF vars, IInv, TypeOK, OneOffer
<1> QED
  BY <1>1, <1>3, <1>4, <1>5 DEF Next

(* Types, consistent records, required sources present: in every state.     *)
THEOREM CatalogInvariant == Spec => []IInv
<1> QED
  BY InitInv, NextInv, PTL DEF Spec

(* The catalogs keep their types, with at most one entry for a source.     *)
THEOREM TypeCorrect == Spec => []TypeOK
<1>1. IInv => TypeOK
  BY DEF IInv
<1> QED
  BY <1>1, CatalogInvariant, PTL

(* A quarantined source is in neither catalog.                              *)
THEOREM QuarantinedNotListed == Spec => []QuarantineWithdrawn
<1>1. IInv => QuarantineWithdrawn
  BY DEF IInv
<1> QED
  BY <1>1, CatalogInvariant, PTL

-----------------------------------------------------------------------------
(* Steps that are not a run leave the catalogs alone.                       *)
LEMMA OtherSteps ==
  ASSUME [Next]_vars, ~UpdateRun
  PROVE  UNCHANGED <<maintained, legacy, last>>
BY DEF Next, NewDay, Release, vars

LEMMA StepImmutable ==
  ASSUME IInv, [Next]_vars, NEW e \in Listed, NEW f \in Listed',
         e.id = f.id, e.repo = f.repo, e.version = f.version, ~OptedIn(e)
  PROVE  e.bytes = f.bytes
<1>1. CASE UpdateRun
  <2>1. PICK down \in SUBSET Mirror, fetched \in SUBSET Offers, sick \in SUBSET Source :
          Run(down, fetched, sick)
    BY <1>1 DEF UpdateRun
  <2> DEFINE D == Downloaded(down, fetched)
  <2>2. f \in Published(D)
    BY <2>1, RunShape
  <2>3. \A c \in D : c \in Draft /\ Consistent(c)
    BY DownloadedDraft DEF IInv
  <2>4. f \in D
    BY <2>2, <2>3, RepublishShape DEF Published, OptedIn, IInv
  <2>5. CASE \E o \in upstream : f = Fresh(o) /\ (SameVersion(o) = {} \/ CheckedLive(o))
    <3>1. PICK o \in upstream : f = Fresh(o) /\ (SameVersion(o) = {} \/ CheckedLive(o))
      BY <2>5
    <3>2. f.id = o.id /\ f.repo = o.repo /\ f.version = o.version
      BY <3>1 DEF Fresh
    <3>3. e \in SameVersion(o)
      BY <3>2 DEF SameVersion, Cache
    <3>4. ~CheckedLive(o)
      BY <3>2 DEF CheckedLive, OptedIn
    <3> QED
      BY <3>1, <3>3, <3>4
  <2>6. CASE \E g \in Listed : f = AsCandidate(g)
    <3>1. PICK g \in Listed : f = AsCandidate(g)
      BY <2>6
    <3>2. g \in Draft /\ g.bytes.version = g.version
      BY EntryIsDraft DEF IInv, TypeOK, Listed, RecordsConsistent, Consistent
    <3>3. f.id = g.id /\ f.bytes = g.bytes
      BY <3>1, <3>2, CachedDraft
    <3>4. g = e
      BY <3>3 DEF IInv, TypeOK, AtMostOneEach
    <3> QED
      BY <3>3, <3>4
  <2> QED
    BY <2>4, <2>5, <2>6, DownloadedShape
<1>2. CASE ~UpdateRun
  <2>1. f \in Listed
    BY <1>2, OtherSteps DEF Listed
  <2> QED
    BY <2>1 DEF IInv, TypeOK, AtMostOneEach
<1> QED
  BY <1>1, <1>2

(* A version names its bytes for as long as the source stays listed.        *)
THEOREM ListedPackagesImmutable == Spec => ImmutableWhileListed
<1>1. IInv /\ [Next]_vars =>
        [ \A e \in Listed, f \in Listed' :
            (e.id = f.id /\ e.repo = f.repo /\ e.version = f.version /\ ~OptedIn(e))
              => e.bytes = f.bytes ]_vars
  BY StepImmutable
<1> QED
  BY <1>1, CatalogInvariant, PTL DEF Spec, ImmutableWhileListed

-----------------------------------------------------------------------------
(* The entry of a required, republished source comes from publication.apply *)
(* and is compared with its entry before.                                   *)
LEMMA RevisionOfPrevious ==
  ASSUME IInv, NEW down, NEW fetched, NEW sick \in SUBSET Source, Run(down, fetched, sick),
         NEW e \in last, NEW f \in Listed', e.id = f.id,
         e.id \in (Republished \cap Required) \ Promoted
  PROVE  /\ e \in maintained
         /\ \E c \in Downloaded(down, fetched) :
              /\ c \in Draft /\ Consistent(c) /\ c.id = e.id
              /\ f \in Republish(c) /\ Previous(c) = {e}
<1>1. e \in maintained
  BY DEF IInv, RequiredPresent, Ids, Listed
<1>2. f \in maintained'
  <2>1. PICK g \in maintained' : g.id = f.id
    BY RunShape DEF Ids
  <2> QED
    BY <2>1, RunShape DEF AtMostOneEach, Listed
<1>3. f.repo = Active
  BY <1>2, RunShape DEF PolicyKept
<1>4. f \in Published(Downloaded(down, fetched)) /\ OptedIn(f)
  BY <1>3, RunShape DEF OptedIn
<1>5. PICK c \in Downloaded(down, fetched) : f \in Republish(c)
  BY <1>4 DEF Published
<1>6. c \in Draft /\ Consistent(c)
  BY DownloadedDraft DEF IInv
<1>7. c.id = e.id
  BY <1>5, <1>6, RepublishShape DEF IInv
<1>8. Previous(c) = {e}
  BY <1>1, <1>7 DEF Previous, IInv, TypeOK, AtMostOneEach, Listed
<1> QED
  BY <1>1, <1>5, <1>6, <1>7, <1>8

LEMMA StepDetectable ==
  ASSUME IInv, [Next]_vars, NEW e \in last, NEW f \in Listed', e.id = f.id,
         e.id \in (Republished \cap Required) \ Promoted
  PROVE  f.version >= e.version /\ (f.bytes # e.bytes => f.version > e.version)
<1>0. e \in Draft
  BY EntryIsDraft DEF IInv, TypeOK
<1>1. CASE UpdateRun
  <2>1. PICK down \in SUBSET Mirror, fetched \in SUBSET Offers, sick \in SUBSET Source :
          Run(down, fetched, sick)
    BY <1>1 DEF UpdateRun
  <2>2. PICK c \in Downloaded(down, fetched) :
          /\ e \in maintained
          /\ c \in Draft /\ Consistent(c) /\ c.id = e.id
          /\ f \in Republish(c) /\ Previous(c) = {e}
    BY <2>1, RevisionOfPrevious
  <2>3. Consistent(e)
    BY <2>2 DEF IInv, RecordsConsistent, Listed
  <2>4. /\ f \in Draft /\ Consistent(f) /\ f.revised
        /\ \/ e.revised /\ f.bytes = e.bytes /\ f.version = e.version
           \/ e.revised /\ f.version = e.version /\ f.origin = e.origin
           \/ f.version > e.version
    BY <2>2, RepublishShape DEF IInv
  <2>5. f.version \in Nat /\ e.version \in Nat
    BY <1>0, <2>4 DEF Draft
  <2>6. e.revised /\ f.origin = e.origin /\ f.version = e.version => f.bytes = e.bytes
    BY <2>3, <2>4 DEF Consistent
  <2> QED
    BY <2>4, <2>5, <2>6
<1>2. CASE ~UpdateRun
  <2>1. f \in Listed
    BY <1>2, OtherSteps DEF Listed
  <2>2. e = f
    BY <2>1 DEF IInv, RequiredPresent
  <2> QED
    BY <1>0, <2>2 DEF Draft
<1> QED
  BY <1>1, <1>2

(* Clients can detect every change of a republished source.                 *)
THEOREM RevisionsAreDetectable == Spec => RevisionsDetectable
<1>1. IInv /\ [Next]_vars =>
        [ \A e \in last, f \in Listed' :
            (e.id = f.id /\ e.id \in (Republished \cap Required) \ Promoted)
              => /\ f.version >= e.version
                 /\ f.bytes # e.bytes => f.version > e.version ]_vars
  BY StepDetectable
<1> QED
  BY <1>1, CatalogInvariant, PTL DEF Spec, RevisionsDetectable

LEMMA StepEarned ==
  ASSUME IInv, [Next]_vars, NEW e \in last, NEW f \in Listed', e.id = f.id, e.revised,
         f.version # e.version, e.id \in (Republished \cap Required) \ Promoted
  PROVE  f.origin # e.origin /\ \E o \in upstream : Raw(o) = f.origin
<1>1. CASE UpdateRun
  <2>1. PICK down \in SUBSET Mirror, fetched \in SUBSET Offers, sick \in SUBSET Source :
          Run(down, fetched, sick)
    BY <1>1 DEF UpdateRun
  <2>2. PICK c \in Downloaded(down, fetched) :
          /\ e \in maintained
          /\ c \in Draft /\ Consistent(c) /\ c.id = e.id
          /\ f \in Republish(c) /\ Previous(c) = {e}
    BY <2>1, RevisionOfPrevious
  <2>3. f.origin = c.bytes /\ c.bytes # e.bytes /\ c.bytes # e.origin
    BY <2>2, RepublishShape DEF IInv
  <2>4. CASE \E o \in upstream : c = Fresh(o)
    BY <2>3, <2>4 DEF Fresh
  <2>5. CASE \E g \in Listed : c = AsCandidate(g)
    <3>1. PICK g \in Listed : c = AsCandidate(g)
      BY <2>5
    <3>2. g \in Draft /\ g.bytes.version = g.version
      BY EntryIsDraft DEF IInv, TypeOK, Listed, RecordsConsistent, Consistent
    <3>3. c.id = g.id /\ c.bytes = g.bytes
      BY <3>1, <3>2, CachedDraft
    <3>4. g = e
      BY <2>2, <3>3 DEF IInv, TypeOK, AtMostOneEach, Listed
    <3> QED
      BY <2>3, <3>3, <3>4
  <2> QED
    BY <2>3, <2>4, <2>5, DownloadedShape
<1>2. CASE ~UpdateRun
  <2>1. f \in Listed
    BY <1>2, OtherSteps DEF Listed
  <2> QED
    BY <2>1 DEF IInv, RequiredPresent
<1> QED
  BY <1>1, <1>2

(* An outage never gives a revised source a new version.                    *)
THEOREM RevisionsAreEarned == Spec => RevisionsEarned
<1>1. IInv /\ [Next]_vars =>
        [ \A e \in last, f \in Listed' :
            (e.id = f.id /\ e.revised /\ f.version # e.version
               /\ e.id \in (Republished \cap Required) \ Promoted)
              => f.origin # e.origin /\ \E o \in upstream : Raw(o) = f.origin ]_vars
  BY StepEarned
<1> QED
  BY <1>1, CatalogInvariant, PTL DEF Spec, RevisionsEarned

-----------------------------------------------------------------------------
(* An outage keeps the websites. Among candidates of one website there is a *)
(* best one: repositories are finitely many, versions are bounded.          *)

LEMMA LeastNatural ==
  ASSUME NEW N \in SUBSET Nat, N # {}
  PROVE  \E n \in N : \A m \in N : n <= m
<1>1. PICK n \in N : \A m \in N : ~(<<m, n>> \in OpToRel(<, Nat))
  BY NatLessThanWellFounded, WFMin
<1>2. ASSUME NEW m \in N
      PROVE  n <= m
  <2>1. m \in Nat /\ n \in Nat /\ ~(m < n)
    BY <1>1 DEF OpToRel
  <2> QED
    BY <2>1
<1> QED
  BY <1>2

LEMMA BestRepository ==
  ASSUME NEW R \in SUBSET Repository, R # {}
  PROVE  \E r \in R : \A q \in R : Priority[q] <= Priority[r]
<1> DEFINE Better(r) == {q \in Repository : Priority[q] > Priority[r]}
           ranks == {Cardinality(Better(r)) : r \in R}
<1>1. IsFiniteSet(Repository)
  BY CatalogAssumption, FS_AddElement DEF Repository
<1>2. \A r \in R : IsFiniteSet(Better(r)) /\ Cardinality(Better(r)) \in Nat
  BY <1>1, FS_Subset, FS_CardinalityType
<1>3. PICK r \in R : \A q \in R : Cardinality(Better(r)) <= Cardinality(Better(q))
  <2>1. ranks \in SUBSET Nat /\ ranks # {}
    BY <1>2
  <2>2. PICK n \in ranks : \A m \in ranks : n <= m
    BY <2>1, LeastNatural
  <2> QED
    BY <2>2
<1>4. ASSUME NEW q \in R, Priority[q] > Priority[r]
      PROVE  FALSE
  <2>1. \A t \in Repository : Priority[t] \in Nat
    BY CatalogAssumption
  <2>2. Better(q) \in SUBSET Better(r) /\ q \in Better(r) /\ q \notin Better(q)
    BY <1>4, <2>1
  <2>3. Cardinality(Better(q)) <= Cardinality(Better(r)) /\ Cardinality(Better(q)) # Cardinality(Better(r))
    BY <1>2, <2>2, FS_Subset
  <2> HIDE DEF Better
  <2> QED
    BY <1>2, <1>3, <2>3
<1> QED
  BY <1>4, CatalogAssumption

(* Candidates of a run: one for a source of a repository, in range.         *)
OneCandidate(C) == \A c, d \in C : c.id = d.id /\ c.repo = d.repo => c = d

LEMMA SelectCovers ==
  ASSUME NEW C, C \subseteq Draft, OneCandidate(C), InRange(C), NEW c \in C
  PROVE  \E d \in Select(C) : SiteOf[d.id] = SiteOf[c.id]
<1> DEFINE site == {d \in C : SiteOf[d.id] = SiteOf[c.id]}
           repos == {d.repo : d \in site}
<1>0. \A d \in C : /\ d.version \in Nat /\ d.version < VersionLimit
                   /\ d.repo \in Repository /\ Priority[d.repo] \in Nat
                   /\ IdOrder[d.id] \in Nat /\ d.id \in Source
  BY CatalogAssumption DEF Draft, InRange
<1>1. PICK r \in repos : \A q \in repos : Priority[q] <= Priority[r]
  <2>1. repos \in SUBSET Repository /\ repos # {}
    BY <1>0
  <2> QED
    BY <2>1, BestRepository
<1> DEFINE gaps == {VersionLimit - d.version : d \in {b \in site : b.repo = r}}
<1>2. PICK g \in gaps : \A h \in gaps : g <= h
  <2>1. gaps \in SUBSET Nat /\ gaps # {}
    BY <1>0, <1>1, CatalogAssumption
  <2> QED
    BY <2>1, LeastNatural
<1> DEFINE top == {d \in site : d.repo = r /\ VersionLimit - d.version = g}
           orders == {IdOrder[d.id] : d \in top}
<1>3. PICK k \in orders : \A l \in orders : k <= l
  <2>1. orders \in SUBSET Nat /\ orders # {}
    BY <1>0, <1>2
  <2> QED
    BY <2>1, LeastNatural
<1>4. PICK b \in top : IdOrder[b.id] = k
  BY <1>3
<1>5. b \in C /\ SiteOf[b.id] = SiteOf[c.id] /\ b.repo = r
  BY <1>4
<1>6. ASSUME NEW d \in site
      PROVE  /\ ~Above(d, b)
             /\ d.repo # r => Above(b, d)
             /\ d.repo = r /\ d.version # b.version => Above(b, d)
             /\ d.repo = r /\ d.version = b.version => IdOrder[b.id] <= IdOrder[d.id]
  <2>1. d.repo \in repos /\ Priority[d.repo] <= Priority[r]
    BY <1>1
  <2>2. d.repo # r => Priority[d.repo] < Priority[r]
    BY <1>0, <1>5, <2>1, CatalogAssumption
  <2>3. d.repo = r => d.version <= b.version
    <3>1. d.repo = r => g <= VersionLimit - d.version
      BY <1>2
    <3> QED
      BY <1>0, <1>4, <1>5, <3>1, CatalogAssumption
  <2>4. d.repo = r /\ d.version = b.version => IdOrder[b.id] <= IdOrder[d.id]
    BY <1>3, <1>4
  <2> QED
    BY <1>0, <1>5, <2>2, <2>3, <2>4 DEF Above
<1>7. b \in BestById(C)
  BY <1>5, <1>6 DEF BestById, OneCandidate
<1>8. ASSUME NEW d \in BestById(C), SiteOf[d.id] = SiteOf[b.id], d # b
      PROVE  KeptOver(b, d)
  <2>1. d \in site
    BY <1>5, <1>8 DEF BestById
  <2>2. CASE d.repo = r /\ d.version = b.version
    <3>1. IdOrder[b.id] <= IdOrder[d.id] /\ d.id # b.id
      BY <1>5, <1>6, <1>8, <2>1, <2>2 DEF OneCandidate
    <3>2. IdOrder[b.id] # IdOrder[d.id]
      BY <1>0, <1>5, <2>1, <3>1, CatalogAssumption
    <3> QED
      BY <1>0, <1>5, <1>6, <2>1, <3>1, <3>2 DEF KeptOver
  <2> QED
    BY <1>6, <2>1, <2>2 DEF KeptOver
<1> QED
  BY <1>5, <1>7, <1>8 DEF Select

LEMMA OneDownloaded ==
  ASSUME TypeOK, RecordsConsistent, OneOffer, NEW down, NEW fetched
  PROVE  OneCandidate(Downloaded(down, fetched))
<1> DEFINE D == Downloaded(down, fetched)
<1>1. \A e \in Listed : AsCandidate(e).id = e.id /\ AsCandidate(e).repo = e.repo
  BY DEF AsCandidate, TypeOK, Listed, Entry
<1>2. ASSUME NEW o \in Read(down), NEW c \in Candidate(o, fetched)
      PROVE  /\ c.id = o.id /\ c.repo = o.repo /\ o \in upstream /\ c.repo \notin down
             /\ \A d \in Candidate(o, fetched) : c = d
  <2>1. \A d \in FromCache(Cache(o.repo, o.id)) :
          d.id = o.id /\ d.repo = o.repo /\ \E e \in Listed : e.id = o.id /\ d = AsCandidate(e)
    BY <1>1 DEF FromCache, Cache, AsCandidate
  <2>2. FromCache(SameVersion(o)) \subseteq FromCache(Cache(o.repo, o.id))
    BY DEF FromCache, SameVersion
  <2>3. \A d, e \in FromCache(Cache(o.repo, o.id)) : d = e
    BY <2>1 DEF TypeOK, AtMostOneEach
  <2>4. Fresh(o).id = o.id /\ Fresh(o).repo = o.repo
    BY DEF Fresh
  <2> QED
    BY <2>1, <2>2, <2>3, <2>4 DEF Candidate, Read
<1>3. ASSUME NEW r \in down, NEW c \in Recovered(r)
      PROVE  c.repo \in down /\ \E e \in Listed : c.id = e.id /\ c = AsCandidate(e)
  BY <1>1 DEF Recovered, FromCache, AsCandidate
<1>4. ASSUME NEW c \in D, NEW d \in D, c.id = d.id, c.repo = d.repo
      PROVE  c = d
  <2>1. CASE c.repo \in down
    <3>1. \E e \in Listed : c.id = e.id /\ c = AsCandidate(e)
      BY <1>2, <1>3, <2>1 DEF Downloaded
    <3>2. \E e \in Listed : d.id = e.id /\ d = AsCandidate(e)
      BY <1>2, <1>3, <1>4, <2>1 DEF Downloaded
    <3> QED
      BY <1>4, <3>1, <3>2 DEF TypeOK, AtMostOneEach
  <2>2. CASE c.repo \notin down
    <3>1. PICK o \in Read(down) : c \in Candidate(o, fetched)
      BY <1>3, <2>2 DEF Downloaded
    <3>2. PICK p \in Read(down) : d \in Candidate(p, fetched)
      BY <1>3, <1>4, <2>2 DEF Downloaded
    <3>3. o = p
      BY <1>2, <1>4, <3>1, <3>2 DEF OneOffer
    <3> QED
      BY <1>2, <3>1, <3>2, <3>3
  <2> QED
    BY <2>1, <2>2
<1> QED
  BY <1>4 DEF OneCandidate

LEMMA OnePublished ==
  ASSUME TypeOK, RecordsConsistent, OneOffer, NEW down, NEW fetched
  PROVE  OneCandidate(Published(Downloaded(down, fetched)))
<1> DEFINE D == Downloaded(down, fetched)
<1>1. OneCandidate(D) /\ \A c \in D : c \in Draft /\ Consistent(c)
  BY OneDownloaded, DownloadedDraft
<1>2. ASSUME NEW c \in D, NEW f \in Republish(c), NEW g \in Republish(c)
      PROVE  f = g
  <2>1. \A e, h \in Previous(c) : e = h
    BY DEF Previous, TypeOK, AtMostOneEach, Listed
  <2> QED
    BY <2>1 DEF Republish
<1>3. \A c \in D : \A f \in Republish(c) : f.id = c.id /\ f.repo = c.repo
  BY <1>1, RepublishShape
<1>4. ASSUME NEW f \in Published(D)
      PROVE  \E c \in D : /\ f.id = c.id /\ f.repo = c.repo
                          /\ IF OptedIn(c) THEN f \in Republish(c) ELSE f = c
  BY <1>3 DEF Published
<1> HIDE DEF D
<1>5. ASSUME NEW f \in Published(D), NEW g \in Published(D), f.id = g.id, f.repo = g.repo
      PROVE  f = g
  BY <1>1, <1>2, <1>4, <1>5 DEF OneCandidate
<1> QED
  BY <1>5 DEF OneCandidate, D

(* A listed source that upstream still offers is a candidate of every run.  *)
LEMMA ListedIsCandidate ==
  ASSUME IInv, NEW down, NEW fetched, NEW e \in Listed,
         \E o \in upstream : o.repo = e.repo /\ o.id = e.id
  PROVE  \E f \in Published(Downloaded(down, fetched)) : f.id = e.id /\ f.repo = e.repo
<1> DEFINE D == Downloaded(down, fetched)
<1>1. PICK o \in upstream : o.repo = e.repo /\ o.id = e.id
  OBVIOUS
<1>2. e \in Draft /\ e.bytes.version = e.version
  BY EntryIsDraft DEF IInv, TypeOK, Listed, RecordsConsistent, Consistent
<1>3. AsCandidate(e).id = e.id /\ AsCandidate(e).repo = e.repo
  BY <1>2, CachedDraft
<1>4. e.id \notin ManualMaintained \cap ManualLegacy
  BY DEF IInv, PolicyKept, Listed
<1>5. \E c \in D : c.id = e.id /\ c.repo = e.repo
  <2>1. CASE e.repo \in down
    <3>1. AsCandidate(e) \in Recovered(e.repo)
      BY DEF Recovered, FromCache, AsCandidate
    <3> QED
      BY <1>3, <2>1, <3>1 DEF Downloaded
  <2>2. CASE e.repo \notin down
    <3>1. o \in Read(down)
      BY <1>1, <1>4, <2>2 DEF Read
    <3>2. AsCandidate(e) \in FromCache(Cache(o.repo, o.id))
      BY <1>1 DEF FromCache, Cache, AsCandidate
    <3>3. \A c \in FromCache(SameVersion(o)) : c.id = e.id /\ c.repo = e.repo
      BY <1>1, EntryIsDraft DEF FromCache, SameVersion, Cache, IInv, TypeOK, Listed, Draft
    <3>4. SameVersion(o) # {} => FromCache(SameVersion(o)) # {}
      BY DEF FromCache
    <3>5. Fresh(o).id = e.id /\ Fresh(o).repo = e.repo
      BY <1>1 DEF Fresh
    <3>6. \E c \in Candidate(o, fetched) : c.id = e.id /\ c.repo = e.repo
      BY <1>3, <3>2, <3>3, <3>4, <3>5 DEF Candidate
    <3> QED
      BY <3>1, <3>6 DEF Downloaded
  <2> QED
    BY <2>1, <2>2
<1>6. PICK c \in D : c.id = e.id /\ c.repo = e.repo
  BY <1>5
<1>7. CASE OptedIn(c)
  <2>1. c \in Draft /\ Consistent(c)
    BY DownloadedDraft DEF IInv
  <2>2. Republish(c) # {}
    BY DEF Republish
  <2>3. PICK f \in Republish(c) : TRUE
    BY <2>2
  <2>4. f.id = c.id /\ f.repo = c.repo
    BY <2>1, RepublishShape DEF IInv
  <2> QED
    BY <1>6, <1>7, <2>3, <2>4 DEF Published
<1>8. CASE ~OptedIn(c)
  BY <1>6, <1>8 DEF Published
<1> QED
  BY <1>7, <1>8

LEMMA RunKeepsSites ==
  ASSUME IInv, NEW down, NEW fetched, NEW sick \in SUBSET Source, Run(down, fetched, sick),
         NEW e \in Listed, e.id \notin sick,
         \E o \in upstream : o.repo = e.repo /\ o.id = e.id
  PROVE  \E f \in Listed' : SiteOf[f.id] = SiteOf[e.id]
<1> DEFINE candidates == Published(Downloaded(down, fetched))
           main == Select(ForMaintained(candidates, sick))
           all == Select(Installable(candidates, sick))
<1>1. maintained' = main /\ legacy' = {c \in all : c.id \notin Ids(main)} /\ InRange(candidates)
  BY DEF Run, Publish
<1>2. candidates \subseteq Draft /\ OneCandidate(candidates)
  BY PublishedDraft, OnePublished DEF IInv
<1>3. PICK c \in candidates : c.id = e.id /\ c.repo = e.repo
  BY ListedIsCandidate
<1> HIDE DEF candidates
<1>4. CASE e \in maintained
  <2>1. c \in ForMaintained(candidates, sick)
    BY <1>3, <1>4 DEF ForMaintained, HealthCandidates, IInv, PolicyKept
  <2>2. /\ ForMaintained(candidates, sick) \subseteq candidates
        /\ InRange(ForMaintained(candidates, sick)) /\ OneCandidate(ForMaintained(candidates, sick))
    BY <1>1, <1>2 DEF ForMaintained, HealthCandidates, InRange, OneCandidate
  <2>3. \E d \in main : SiteOf[d.id] = SiteOf[c.id]
    BY <1>2, <2>1, <2>2, SelectCovers
  <2> QED
    BY <1>1, <1>3, <2>3 DEF Listed
<1>5. CASE e \in legacy
  <2>1. c \in Installable(candidates, sick)
    BY <1>3, <1>5 DEF Installable, IInv, PolicyKept
  <2>2. /\ Installable(candidates, sick) \subseteq candidates
        /\ InRange(Installable(candidates, sick)) /\ OneCandidate(Installable(candidates, sick))
    BY <1>1, <1>2 DEF Installable, InRange, OneCandidate
  <2>3. PICK d \in all : SiteOf[d.id] = SiteOf[c.id]
    BY <1>2, <2>1, <2>2, SelectCovers
  <2>4. \E f \in Listed' : f.id = d.id
    BY <1>1, <2>3 DEF Listed, Ids
  <2> QED
    BY <1>3, <2>3, <2>4
<1> QED
  BY <1>4, <1>5 DEF Listed

LEMMA StepKeepsSites ==
  ASSUME IInv, [Next]_vars, NEW e \in Listed, e.id \notin quarantined',
         \E o \in upstream : o.repo = e.repo /\ o.id = e.id
  PROVE  \E f \in Listed' : SiteOf[f.id] = SiteOf[e.id]
<1>1. CASE UpdateRun
  <2>1. PICK down \in SUBSET Mirror, fetched \in SUBSET Offers, sick \in SUBSET Source :
          Run(down, fetched, sick)
    BY <1>1 DEF UpdateRun
  <2>2. quarantined' = sick
    BY <2>1 DEF Run
  <2> QED
    BY <2>1, <2>2, RunKeepsSites
<1>2. CASE ~UpdateRun
  BY <1>2, OtherSteps DEF Listed
<1> QED
  BY <1>1, <1>2

(* Whichever downloads and indexes fail, a website that is still offered    *)
(* stays listed.                                                            *)
THEOREM OutagesKeepSites == Spec => OutageKeepsSites
<1>1. IInv /\ [Next]_vars =>
        [ \A e \in Listed :
            (e.id \notin quarantined' /\ \E o \in upstream : o.repo = e.repo /\ o.id = e.id)
              => \E f \in Listed' : SiteOf[f.id] = SiteOf[e.id] ]_vars
  BY StepKeepsSites
<1> QED
  BY <1>1, CatalogInvariant, PTL DEF Spec, OutageKeepsSites

=============================================================================
