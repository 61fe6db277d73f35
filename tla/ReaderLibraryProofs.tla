------------------------- MODULE ReaderLibraryProofs -------------------------
(***************************************************************************)
(* Theorems about ReaderLibrary, for any set of tabs, any finite set of    *)
(* titles, any limit and any imported files.                               *)
(***************************************************************************)
EXTENDS ReaderLibrary, FiniteSetTheorems, TLAPS

Request == [tab: Tab, kind: {"get", "put"}, library: Bounded]

-----------------------------------------------------------------------------
(* Libraries.                                                              *)

LEMMA EmptyShelf == Empty \in Shelf /\ Titles(Empty) = {}
BY DEF Empty, Shelf, Book, NoBook, Titles

LEMMA MergeShelf ==
  ASSUME NEW a \in Shelf, NEW b \in Shelf
  PROVE  Merge(a, b) \in Shelf
<1> SUFFICES ASSUME NEW i \in Title PROVE Merge(a, b)[i] \in Book
  BY DEF Merge, Shelf
<1>1. a[i] \in Book /\ b[i] \in Book
  BY DEF Shelf
<1>2. CASE b[i].at > a[i].at
  <2>1. b[i] \in [at: Nat \ {0}, place: Place \cup {0}, linked: BOOLEAN]
    BY <1>1, <1>2 DEF Book, NoBook
  <2>2. Merge(a, b)[i] = [b[i] EXCEPT !.linked = @ \/ a[i].linked]
    BY <1>2 DEF Merge
  <2> QED BY <2>1, <2>2 DEF Book
<1>3. CASE ~(b[i].at > a[i].at)
  BY <1>1, <1>3 DEF Merge
<1> QED BY <1>2, <1>3

(* A library merged into an empty one is that library.                     *)
LEMMA MergeEmpty ==
  ASSUME NEW lib \in Shelf
  PROVE  Merge(Empty, lib) = lib
<1>1. ASSUME NEW i \in Title PROVE Merge(Empty, lib)[i] = lib[i]
  <2>1. Empty[i] = NoBook
    BY DEF Empty
  <2>2. CASE lib[i] = NoBook
    BY <2>1, <2>2 DEF Merge, NoBook
  <2>3. CASE lib[i] # NoBook
    <3>1. lib[i] \in [at: Nat \ {0}, place: Place \cup {0}, linked: BOOLEAN]
      BY <2>3 DEF Shelf, Book
    <3>2. Merge(Empty, lib)[i] = [lib[i] EXCEPT !.linked = @ \/ FALSE]
      BY <2>1, <3>1 DEF Merge, NoBook
    <3> QED BY <3>1, <3>2
  <2> QED BY <2>2, <2>3
<1>2. DOMAIN lib = Title /\ Merge(Empty, lib) = [i \in Title |-> Merge(Empty, lib)[i]]
  BY DEF Shelf, Merge
<1> QED BY <1>1, <1>2 DEF Shelf

LEMMA FitsBounded ==
  ASSUME NEW lib \in Shelf, Fits(lib)
  PROVE  lib \in Bounded
BY DEF Fits, Bounded

LEMMA EmptyBounded == Empty \in Bounded
BY EmptyShelf, FS_EmptySet, LimitAssumption DEF Bounded

LEMMA WithoutBounded ==
  ASSUME NEW lib \in Bounded, NEW i \in Title
  PROVE  Without(lib, i) \in Bounded
<1>1. Without(lib, i) \in Shelf
  BY DEF Without, Bounded, Shelf, Book
<1>2. Titles(Without(lib, i)) \subseteq Titles(lib)
  BY DEF Without, Titles, Bounded, Shelf, NoBook
<1>3. IsFiniteSet(Titles(lib))
  BY LibraryAssumption, FS_Subset DEF Titles
<1>4. Cardinality(Titles(Without(lib, i))) <= Cardinality(Titles(lib))
  BY <1>2, <1>3, FS_Subset
<1>5. /\ Cardinality(Titles(lib)) \in Nat /\ Cardinality(Titles(lib)) <= MaxEntries
      /\ Cardinality(Titles(Without(lib, i))) \in Nat
  BY <1>2, <1>3, FS_Subset, FS_CardinalityType DEF Bounded
<1> QED BY <1>1, <1>4, <1>5, LimitAssumption DEF Bounded

LEMMA OnlyShelf ==
  ASSUME NEW i \in Title, NEW book \in Book
  PROVE  Only(i, book) \in Shelf
BY EmptyShelf DEF Only, Shelf

LEMMA AidokuShelf ==
  ASSUME NEW b \in AidokuBackups
  PROVE  FromAidoku(b) \in Shelf
<1> SUFFICES ASSUME NEW i \in Title PROVE FromAidoku(b)[i] \in Book
  BY DEF FromAidoku, Shelf
<1>1. CASE i \notin DOMAIN b.library
  BY <1>1 DEF FromAidoku, Book
<1>2. CASE i \in DOMAIN b.library
  <2> DEFINE r == b.library[i]
             at == IF r.read > 0 THEN r.read ELSE IF r.opened > 0 THEN r.opened ELSE b.date
             place == IF r.read > 0 THEN r.place ELSE 0
  <2>1. r \in AidokuBook /\ b.date \in Nat \ {0}
    BY <1>2, LibraryAssumption
  <2>2. at \in Nat \ {0} /\ place \in Place \cup {0} /\ r.linked \in BOOLEAN
    BY <2>1 DEF AidokuBook
  <2>3. FromAidoku(b)[i] = [at |-> at, place |-> place, linked |-> r.linked]
    BY <1>2 DEF FromAidoku
  <2> QED BY <2>2, <2>3 DEF Book
<1> QED BY <1>1, <1>2

-----------------------------------------------------------------------------
(* The queue.                                                              *)

(* The tab the store should agree with has loaded the library.             *)
MirrorReady == mirror # "none" => phase[mirror] = "ready"

(* A tab reads the library once.                                           *)
OneRead == \A k, l \in Waiting("get") : requests[k].tab = requests[l].tab => k = l

Inv == TypeOK /\ OneRead /\ MirrorReady /\ MirrorAgrees

LEMMA QueueTail ==
  ASSUME requests \in Seq(Request), requests # <<>>, requests' = Tail(requests)
  PROVE  /\ requests' \in Seq(Request)
         /\ Head(requests) = requests[1] /\ requests[1] \in Request
         /\ 1 \in DOMAIN requests
         /\ \A k \in DOMAIN requests' : k + 1 \in DOMAIN requests /\ requests'[k] = requests[k + 1]
         /\ \A k \in DOMAIN requests : k # 1 => k - 1 \in DOMAIN requests'
OBVIOUS

LEMMA QueueAppend ==
  ASSUME requests \in Seq(Request), NEW r \in Request, requests' = Append(requests, r)
  PROVE  /\ requests' \in Seq(Request)
         /\ Len(requests) \in Nat
         /\ DOMAIN requests = 1..Len(requests)
         /\ DOMAIN requests' = 1..(Len(requests) + 1)
         /\ requests'[Len(requests) + 1] = r
         /\ \A k \in DOMAIN requests : requests'[k] = requests[k]
OBVIOUS

(* What a user's change does to the queue and to its mirror.               *)
LEMMA PersistStep ==
  ASSUME Inv, NEW t \in Tab, NEW lib \in Bounded,
         entries' = [entries EXCEPT ![t] = lib],
         Persist(t), phase' = phase, database' = database
  PROVE  /\ entries' \in [Tab -> Bounded]
         /\ requests' \in Seq(Request)
         /\ \A k \in Waiting("get")' : phase'[requests'[k].tab] \in {"loading", "closed"}
         /\ OneRead'
         /\ mirror' \in Tab \cup {"none"} /\ alone' \in BOOLEAN
         /\ MirrorReady'
         /\ MirrorAgrees'
<1>0. /\ entries \in [Tab -> Bounded] /\ requests \in Seq(Request)
      /\ mirror \in Tab \cup {"none"} /\ alone \in BOOLEAN
  BY DEF Inv, TypeOK, Request
<1>1. entries' \in [Tab -> Bounded] /\ entries'[t] = lib
      /\ \A u \in Tab : u # t => entries'[u] = entries[u]
  BY <1>0
<1>2. CASE ~HasDatabase(t)
  <2>1. requests' = requests /\ mirror' = mirror /\ alone' \in BOOLEAN
    BY <1>0, <1>2 DEF Persist
  <2>2. mirror # "none" => mirror # t
    BY <1>2 DEF Inv, MirrorReady, HasDatabase
  <2>3. MirrorAgrees'
    BY <1>0, <1>1, <2>1, <2>2 DEF Inv, MirrorAgrees, Waiting
  <2> QED BY <1>0, <1>1, <2>1, <2>3 DEF Inv, TypeOK, OneRead, MirrorReady, Waiting, Request
<1>3. CASE HasDatabase(t)
  <2> DEFINE r == [tab |-> t, kind |-> "put", library |-> lib]
             n == Len(requests) + 1
  <2>1. requests' = Append(requests, r) /\ r \in Request
    BY <1>1, <1>3 DEF Persist, Request
  <2>2. mirror' = IF mirror = t THEN t ELSE "none"
    BY <1>3 DEF Persist
  <2> HIDE DEF r
  <2>3. /\ requests' \in Seq(Request)
        /\ Len(requests) \in Nat
        /\ DOMAIN requests = 1..Len(requests)
        /\ DOMAIN requests' = 1..n
        /\ requests'[n] = r
        /\ \A k \in DOMAIN requests : requests'[k] = requests[k]
    BY <1>0, <2>1, QueueAppend
  <2>4. r.kind = "put" /\ r.library = lib
    BY DEF r
  <2>5. \A k \in Waiting("get")' : k \in Waiting("get") /\ requests'[k] = requests[k]
    BY <2>3, <2>4 DEF Waiting
  <2>6. /\ \A k \in Waiting("get")' : phase'[requests'[k].tab] \in {"loading", "closed"}
        /\ OneRead'
    BY <2>5 DEF Inv, TypeOK, OneRead
  <2>7. MirrorAgrees'
    <3> SUFFICES ASSUME mirror' # "none" PROVE MirrorAgrees'
      BY DEF MirrorAgrees
    <3>1. entries'[mirror'] = lib
      BY <1>1, <2>2
    <3>2. n \in Waiting("put")' /\ requests'[n].library = lib
      BY <2>3, <2>4 DEF Waiting
    <3>3. \A l \in Waiting("put")' : l <= n
      BY <2>3 DEF Waiting
    <3> QED BY <3>1, <3>2, <3>3 DEF MirrorAgrees
  <2>8. MirrorReady' /\ mirror' \in Tab \cup {"none"}
    BY <1>0, <2>2 DEF Inv, MirrorReady
  <2>9. alone' \in BOOLEAN
    BY <1>3 DEF Persist
  <2> QED BY <1>1, <2>3, <2>6, <2>7, <2>8, <2>9
<1> QED BY <1>2, <1>3

(* The same for a change made by apply.                                    *)
LEMMA ApplyStep ==
  ASSUME Inv, NEW t \in Tab, NEW incoming \in Shelf, Apply(t, incoming),
         UNCHANGED <<phase, database, backup, shelved>>, clock' \in Nat
  PROVE  Inv'
<1>1. entries \in [Tab -> Bounded] /\ entries[t] \in Shelf
  BY DEF Inv, TypeOK, Bounded
<1>2. Merge(entries[t], incoming) \in Bounded
  BY <1>1, MergeShelf, FitsBounded DEF Apply
<1>3. entries' = [entries EXCEPT ![t] = Merge(entries[t], incoming)] /\ Persist(t)
  BY <1>1 DEF Apply
<1> DEFINE lib == Merge(entries[t], incoming)
<1> HIDE DEF lib
<1>4. /\ entries' \in [Tab -> Bounded]
      /\ requests' \in Seq(Request)
      /\ \A k \in Waiting("get")' : phase'[requests'[k].tab] \in {"loading", "closed"}
      /\ OneRead'
      /\ mirror' \in Tab \cup {"none"} /\ alone' \in BOOLEAN
      /\ MirrorReady'
      /\ MirrorAgrees'
  <2>1. lib \in Bounded /\ entries' = [entries EXCEPT ![t] = lib]
    BY <1>2, <1>3 DEF lib
  <2> QED BY <1>3, <2>1, PersistStep
<1> QED BY <1>4 DEF Inv, TypeOK, Request

-----------------------------------------------------------------------------
(* The inductive invariant.                                                *)

LEMMA InitInv == Init => Inv
<1> SUFFICES ASSUME Init PROVE Inv
  OBVIOUS
<1>1. database \in Bounded /\ shelved \subseteq Title
  BY LibraryAssumption DEF Init, Titles
<1>2. requests \in Seq(Request) /\ Waiting("get") = {}
  BY DEF Init, Waiting
<1>3. TypeOK
  BY <1>1, <1>2, EmptyBounded DEF Init, TypeOK, Request
<1> QED BY <1>2, <1>3 DEF Inv, Init, OneRead, MirrorReady, MirrorAgrees

LEMMA PageInv ==
  ASSUME Inv, NEW t \in Tab, PageStep(t)
  PROVE  Inv'
<1>0. TypeOK /\ requests \in Seq(Request) /\ phase \in [Tab -> {"closed", "opening", "loading", "ready", "detached"}]
  BY DEF Inv, TypeOK, Request
<1>1. CASE OpenTab(t) \/ DatabaseUnavailable(t)
  <2>1. /\ \E p \in {"opening", "detached"} : phase' = [phase EXCEPT ![t] = p]
        /\ \A k \in Waiting("get") : requests[k].tab # t
        /\ mirror # t \/ mirror = "none"
        /\ UNCHANGED <<entries, database, requests, clock, backup, mirror, shelved>>
        /\ alone' \in BOOLEAN
    BY <1>0, <1>1 DEF OpenTab, DatabaseUnavailable, Inv, TypeOK, MirrorReady, Waiting
  <2>2. Waiting("get")' = Waiting("get") /\ Waiting("put")' = Waiting("put")
    BY <2>1 DEF Waiting
  <2>3. /\ \A k \in Waiting("get") : requests[k] \in Request
        /\ \A k \in Waiting("get") : phase[requests[k].tab] \in {"loading", "closed"}
    BY <1>0 DEF Waiting, TypeOK
  <2>4. \A k \in Waiting("get") : phase'[requests[k].tab] \in {"loading", "closed"}
    BY <1>0, <2>1, <2>3 DEF Request
  <2>5. TypeOK'
    BY <1>0, <2>1, <2>2, <2>4 DEF TypeOK
  <2>6. OneRead' /\ MirrorReady' /\ MirrorAgrees'
    BY <1>0, <2>1, <2>2 DEF Inv, TypeOK, OneRead, MirrorReady, MirrorAgrees
  <2> QED BY <2>5, <2>6 DEF Inv
<1>2. CASE DatabaseOpened(t)
  <2> DEFINE r == [tab |-> t, kind |-> "get", library |-> Empty]
  <2>1. r \in Request /\ r.kind = "get" /\ r.tab = t
    BY EmptyBounded DEF Request
  <2>2. /\ requests' = Append(requests, r)
        /\ phase[t] = "opening" /\ phase' = [phase EXCEPT ![t] = "loading"]
        /\ UNCHANGED <<entries, database, clock, backup, mirror, shelved, alone>>
    BY <1>2 DEF DatabaseOpened
  <2> HIDE DEF r
  <2>3. /\ requests' \in Seq(Request)
        /\ Len(requests) \in Nat
        /\ DOMAIN requests = 1..Len(requests)
        /\ DOMAIN requests' = 1..(Len(requests) + 1)
        /\ requests'[Len(requests) + 1] = r
        /\ \A k \in DOMAIN requests : requests'[k] = requests[k]
    BY <1>0, <2>1, <2>2, QueueAppend
  <2>4. Waiting("put")' = Waiting("put")
    BY <2>1, <2>3 DEF Waiting
  <2>5. ASSUME NEW k \in Waiting("get")'
        PROVE  phase'[requests'[k].tab] \in {"loading", "closed"}
    <3>1. CASE k \in DOMAIN requests
      <4>1. phase[requests[k].tab] \in {"loading", "closed"} /\ requests'[k] = requests[k]
        BY <2>3, <2>5, <3>1 DEF Inv, TypeOK, Waiting
      <4>2. requests[k] \in Request
        BY <1>0, <3>1
      <4> QED BY <1>0, <2>2, <4>1, <4>2 DEF Request
    <3>2. CASE k \notin DOMAIN requests
      <4>1. requests'[k] = r
        BY <2>3, <2>5, <3>2 DEF Waiting
      <4> QED BY <1>0, <2>1, <2>2, <4>1
    <3> QED BY <3>1, <3>2
  <2>6. TypeOK'
    BY <1>0, <2>2, <2>3, <2>5 DEF TypeOK, Request
  <2>7. \A k \in Waiting("put") : requests'[k] = requests[k]
    BY <2>3 DEF Waiting
  <2>8. \A k \in Waiting("get") : requests[k].tab # t
    BY <1>0, <2>2 DEF Inv, TypeOK
  <2>9. \A k \in Waiting("get")' :
          \/ k = Len(requests) + 1
          \/ k \in Waiting("get") /\ requests'[k] = requests[k]
    BY <2>3 DEF Waiting
  <2>10. OneRead'
    BY <2>1, <2>3, <2>8, <2>9 DEF Inv, OneRead
  <2>11. MirrorReady' /\ MirrorAgrees'
    BY <1>0, <2>2, <2>4, <2>7 DEF Inv, TypeOK, MirrorReady, MirrorAgrees
  <2> QED BY <2>6, <2>10, <2>11 DEF Inv
<1>3. CASE CloseTab(t)
  <2>1. /\ phase' = [phase EXCEPT ![t] = "closed"]
        /\ entries' = [entries EXCEPT ![t] = Empty]
        /\ mirror' = IF mirror = t THEN "none" ELSE mirror
        /\ UNCHANGED <<database, requests, clock, backup, shelved, alone>>
    BY <1>3 DEF CloseTab
  <2>2. Waiting("get")' = Waiting("get") /\ Waiting("put")' = Waiting("put")
    BY <2>1 DEF Waiting
  <2>3. \A k \in Waiting("get") :
          requests[k] \in Request /\ phase[requests[k].tab] \in {"loading", "closed"}
    BY <1>0 DEF Waiting, TypeOK
  <2>4. \A k \in Waiting("get") : phase'[requests[k].tab] \in {"loading", "closed"}
    BY <1>0, <2>1, <2>3 DEF Request
  <2>5. TypeOK'
    BY <1>0, <2>1, <2>2, <2>4, EmptyBounded DEF TypeOK
  <2>6. OneRead' /\ MirrorReady' /\ MirrorAgrees'
    BY <1>0, <2>1, <2>2 DEF Inv, TypeOK, OneRead, MirrorReady, MirrorAgrees
  <2> QED BY <2>5, <2>6 DEF Inv
<1> QED BY <1>1, <1>2, <1>3 DEF PageStep

LEMMA UserInv ==
  ASSUME Inv, NEW t \in Tab, UserStep(t)
  PROVE  Inv'
<1>0. /\ TypeOK /\ clock \in Nat /\ entries \in [Tab -> Bounded]
      /\ entries[t] \in Bounded /\ entries[t] \in Shelf
  BY DEF Inv, TypeOK, Bounded
<1>1. ASSUME NEW i \in Title, AddTitle(t, i) PROVE Inv'
  <2>1. [at |-> clock', place |-> 0, linked |-> TRUE] \in Book /\ clock' \in Nat
    BY <1>0, <1>1 DEF AddTitle, Book
  <2> QED BY <1>1, <2>1, OnlyShelf, ApplyStep DEF AddTitle
<1>2. ASSUME NEW i \in Title, NEW p \in Place, UpdateProgress(t, i, p) PROVE Inv'
  <2>1. entries[t][i] \in [at: Nat \ {0}, place: Place \cup {0}, linked: BOOLEAN]
    BY <1>0, <1>2 DEF UpdateProgress, Shelf, Book, NoBook
  <2>2. clock' \in Nat \ {0}
    BY <1>0, <1>2 DEF UpdateProgress
  <2>3. [entries[t][i] EXCEPT !.place = p, !.at = clock'] \in Book
    BY <2>1, <2>2 DEF Book
  <2> QED BY <1>2, <2>2, <2>3, OnlyShelf, ApplyStep DEF UpdateProgress
<1>3. ASSUME NEW i \in Title, RemoveTitle(t, i) PROVE Inv'
  <2> DEFINE lib == Without(entries[t], i)
  <2>1. lib \in Bounded
    BY <1>0, WithoutBounded
  <2>2. entries' = [entries EXCEPT ![t] = lib] /\ Persist(t)
    BY <1>0, <1>3 DEF RemoveTitle
  <2>3. UNCHANGED <<phase, database, clock, backup>> /\ shelved' = shelved \ {i}
    BY <1>3 DEF RemoveTitle
  <2> HIDE DEF lib
  <2>4. /\ entries' \in [Tab -> Bounded]
        /\ requests' \in Seq(Request)
        /\ \A k \in Waiting("get")' : phase'[requests'[k].tab] \in {"loading", "closed"}
        /\ OneRead'
        /\ mirror' \in Tab \cup {"none"} /\ alone' \in BOOLEAN
        /\ MirrorReady'
        /\ MirrorAgrees'
    BY <2>1, <2>2, <2>3, PersistStep
  <2> QED BY <1>0, <2>3, <2>4 DEF Inv, TypeOK, Request
<1>4. ASSUME NEW file \in Snapshots \cup {backup}, ImportSnapshot(t, file) PROVE Inv'
  <2>1. file \in Shelf
    BY <1>0, LibraryAssumption DEF TypeOK, Bounded
  <2> QED BY <1>0, <1>4, <2>1, EmptyShelf, MergeShelf, ApplyStep DEF ImportSnapshot
<1>5. ASSUME NEW b \in AidokuBackups, ImportAidoku(t, b) PROVE Inv'
  BY <1>0, <1>5, AidokuShelf, ApplyStep DEF ImportAidoku
<1>6. CASE Export(t)
  <2>1. backup' \in Bounded
    BY <1>0, <1>6, MergeEmpty DEF Export
  <2>2. UNCHANGED <<phase, entries, database, requests, clock, mirror, shelved, alone>>
    BY <1>6 DEF Export
  <2> QED BY <2>1, <2>2 DEF Inv, TypeOK, OneRead, MirrorReady, MirrorAgrees, Waiting
<1> QED BY <1>1, <1>2, <1>3, <1>4, <1>5, <1>6 DEF UserStep

(* What is known when the first request leaves the queue.                  *)
LEMMA QueuePop ==
  ASSUME Inv, requests # <<>>, requests' = Tail(requests)
  PROVE  /\ requests' \in Seq(Request)
         /\ Head(requests) = requests[1] /\ requests[1] \in Request /\ 1 \in DOMAIN requests
         /\ \A k \in Waiting("get")' :
              k \in Nat \ {0} /\ k + 1 \in Waiting("get") /\ requests'[k] = requests[k + 1]
         /\ \A k \in Waiting("put")' :
              k \in Nat \ {0} /\ k + 1 \in Waiting("put") /\ requests'[k] = requests[k + 1]
         /\ \A k \in Waiting("put") :
              k \in Nat \ {0} /\ (k # 1 => k - 1 \in Waiting("put")' /\ requests'[k - 1] = requests[k])
<1>1. requests \in Seq(Request)
  BY DEF Inv, TypeOK, Request
<1>2. /\ requests' \in Seq(Request)
      /\ Head(requests) = requests[1] /\ requests[1] \in Request
      /\ 1 \in DOMAIN requests
      /\ \A k \in DOMAIN requests' : k + 1 \in DOMAIN requests /\ requests'[k] = requests[k + 1]
      /\ \A k \in DOMAIN requests : k # 1 => k - 1 \in DOMAIN requests'
  BY <1>1, QueueTail
<1>3. DOMAIN requests \subseteq Nat \ {0} /\ DOMAIN requests' \subseteq Nat \ {0}
  BY <1>1, <1>2
<1> QED BY <1>2, <1>3 DEF Waiting

(* A read that leaves the queue does not disturb the mirror.               *)
LEMMA ReadLeaves ==
  ASSUME Inv, requests # <<>>, requests' = Tail(requests), Head(requests).kind = "get",
         mirror' = mirror, database' = database,
         mirror # "none" => entries'[mirror] = entries[mirror]
  PROVE  MirrorAgrees'
<1> SUFFICES ASSUME mirror # "none" PROVE MirrorAgrees'
  BY DEF MirrorAgrees
<1>1. 1 \notin Waiting("put")
  BY QueuePop DEF Waiting
<1>2. CASE Waiting("put") = {} /\ database = entries[mirror]
  <2>1. Waiting("put")' = {}
    BY <1>2, QueuePop
  <2> QED BY <1>2, <2>1 DEF MirrorAgrees
<1>3. CASE \E k \in Waiting("put") : /\ requests[k].library = entries[mirror]
                                     /\ \A l \in Waiting("put") : l <= k
  <2>1. PICK k \in Waiting("put") : /\ requests[k].library = entries[mirror]
                                    /\ \A l \in Waiting("put") : l <= k
    BY <1>3
  <2>2. k \in Nat /\ k - 1 \in Waiting("put")' /\ requests'[k - 1] = requests[k]
    BY <1>1, <2>1, QueuePop
  <2>3. \A l \in Waiting("put")' : l <= k - 1
    BY <2>1, <2>2, QueuePop
  <2> QED BY <2>1, <2>2, <2>3 DEF MirrorAgrees
<1> QED BY <1>2, <1>3 DEF Inv, MirrorAgrees

(* The queue and the phases stay well-formed when a request leaves.        *)
LEMMA ReleasedType ==
  ASSUME Inv, requests # <<>>, requests' = Tail(requests),
         phase' = phase \/ (Head(requests).kind = "get" /\ phase' = Released(Head(requests).tab))
  PROVE  /\ phase' \in [Tab -> {"closed", "opening", "loading", "ready", "detached"}]
         /\ \A t \in Tab : phase[t] # "loading" => phase'[t] = phase[t]
         /\ \A k \in Waiting("get")' : phase'[requests'[k].tab] \in {"loading", "closed"}
         /\ OneRead'
<1> DEFINE t == requests[1].tab
<1>1. /\ phase \in [Tab -> {"closed", "opening", "loading", "ready", "detached"}]
      /\ \A k \in Waiting("get") : phase[requests[k].tab] \in {"loading", "closed"}
      /\ OneRead
  BY DEF Inv, TypeOK
<1>2. t \in Tab /\ Head(requests) = requests[1] /\ 1 \in DOMAIN requests
  BY QueuePop DEF Request
<1>3. /\ phase' \in [Tab -> {"closed", "opening", "loading", "ready", "detached"}]
      /\ \A u \in Tab : phase[u] # "loading" => phase'[u] = phase[u]
  BY <1>1, <1>2 DEF Released
<1>4. \A k \in Waiting("get")' :
        /\ k \in DOMAIN requests' /\ requests'[k] \in Request
        /\ k \in Nat \ {0} /\ k + 1 \in Waiting("get") /\ requests'[k] = requests[k + 1]
  <2>1. requests' \in Seq(Request)
    BY QueuePop
  <2>2. \A k \in DOMAIN requests' : k \in Nat \ {0} /\ requests'[k] \in Request
    BY <2>1
  <2> QED BY <2>2, QueuePop DEF Waiting
<1>5. OneRead'
  BY <1>1, <1>4 DEF OneRead
<1>6. ASSUME NEW k \in Waiting("get")'
      PROVE  phase'[requests'[k].tab] \in {"loading", "closed"}
  <2>1. phase[requests'[k].tab] \in {"loading", "closed"} /\ requests'[k].tab \in Tab
    BY <1>1, <1>4, <1>6 DEF Request
  <2>2. CASE phase' = phase
    BY <2>1, <2>2
  <2>3. CASE Head(requests).kind = "get" /\ phase' = Released(t)
    <3>1. 1 \in Waiting("get")
      BY <1>2, <2>3 DEF Waiting
    <3>2. requests'[k].tab # t
      BY <1>1, <1>4, <1>6, <3>1 DEF OneRead
    <3> QED BY <1>1, <2>1, <2>3, <3>2 DEF Released
  <2> QED BY <1>2, <2>2, <2>3
<1> QED BY <1>3, <1>5, <1>6

LEMMA ServeGetInv ==
  ASSUME Inv, ServeGet
  PROVE  Inv'
<1> DEFINE t == Head(requests).tab
<1>1. /\ requests # <<>> /\ requests' = Tail(requests) /\ Head(requests).kind = "get"
      /\ UNCHANGED <<database, clock, backup, shelved, alone>>
      /\ phase[t] = "loading" =>
           /\ entries' = [entries EXCEPT ![t] = Merge(Empty, database)]
           /\ mirror' = IF Waiting("put") = {} THEN t ELSE mirror
           /\ phase' = Released(t)
      /\ phase[t] # "loading" => UNCHANGED <<entries, mirror, phase>>
  BY DEF ServeGet
<1>2. t \in Tab
  BY <1>1, QueuePop DEF Request
<1>3. /\ entries \in [Tab -> Bounded] /\ database \in Bounded /\ database \in Shelf
      /\ phase \in [Tab -> {"closed", "opening", "loading", "ready", "detached"}]
      /\ mirror \in Tab \cup {"none"}
  BY DEF Inv, TypeOK, Bounded
<1>4. /\ phase' \in [Tab -> {"closed", "opening", "loading", "ready", "detached"}]
      /\ \A u \in Tab : phase[u] # "loading" => phase'[u] = phase[u]
      /\ \A k \in Waiting("get")' : phase'[requests'[k].tab] \in {"loading", "closed"}
      /\ OneRead'
  BY <1>1, ReleasedType
<1>5. requests' \in Seq(Request)
  BY <1>1, QueuePop
<1> HIDE DEF t
<1>6. CASE phase[t] # "loading"
  <2>1. MirrorAgrees'
    BY <1>1, <1>6, ReadLeaves
  <2>2. TypeOK'
    BY <1>1, <1>4, <1>5, <1>6 DEF Inv, TypeOK, Request
  <2> QED BY <1>1, <1>4, <1>6, <2>1, <2>2 DEF Inv, MirrorReady
<1>7. CASE phase[t] = "loading"
  <2>1. entries' = [entries EXCEPT ![t] = database] /\ phase'[t] = "ready"
    BY <1>1, <1>2, <1>3, <1>7, MergeEmpty DEF Released
  <2>2. CASE Waiting("put") = {}
    <3>1. Waiting("put")' = {}
      BY <1>1, <2>2, QueuePop
    <3>2. mirror' = t /\ entries'[mirror'] = database'
      <4>1. mirror' = t /\ database' = database
        BY <1>1, <1>7, <2>2
      <4> QED BY <1>2, <1>3, <2>1, <4>1
    <3>3. MirrorAgrees' /\ MirrorReady' /\ mirror' \in Tab
      BY <1>2, <2>1, <3>1, <3>2 DEF MirrorAgrees, MirrorReady
    <3>4. TypeOK'
      BY <1>1, <1>3, <1>4, <1>5, <2>1, <3>3 DEF Inv, TypeOK, Request
    <3> QED BY <1>4, <3>3, <3>4 DEF Inv
  <2>3. CASE Waiting("put") # {}
    <3>1. mirror' = mirror
      BY <1>1, <1>7, <2>3
    <3>2. mirror # "none" => mirror # t /\ phase'[mirror] = "ready" /\ mirror \in Tab
      BY <1>3, <1>4, <1>7 DEF Inv, MirrorReady
    <3>3. mirror # "none" => entries'[mirror] = entries[mirror]
      BY <1>3, <2>1, <3>2
    <3>4. MirrorAgrees'
      BY <1>1, <3>1, <3>3, ReadLeaves
    <3>5. TypeOK'
      BY <1>1, <1>3, <1>4, <1>5, <2>1, <3>1 DEF Inv, TypeOK, Request
    <3> QED BY <1>4, <3>1, <3>2, <3>4, <3>5 DEF Inv, MirrorReady
  <2> QED BY <2>2, <2>3
<1> QED BY <1>6, <1>7

LEMMA ServePutInv ==
  ASSUME Inv, ServePut
  PROVE  Inv'
<1>1. /\ requests # <<>> /\ requests' = Tail(requests) /\ Head(requests).kind = "put"
      /\ database' = Head(requests).library
      /\ shelved' = shelved \cup Kept(Head(requests).library)
      /\ UNCHANGED <<phase, entries, clock, backup, mirror, alone>>
  BY DEF ServePut
<1>2. /\ requests' \in Seq(Request) /\ Head(requests) = requests[1]
      /\ requests[1] \in Request /\ 1 \in DOMAIN requests
  BY <1>1, QueuePop
<1>3. database' \in Bounded /\ shelved' \subseteq Title
  BY <1>1, <1>2 DEF Request, Kept, Titles, Inv, TypeOK
<1>4. /\ \A k \in Waiting("get")' : phase'[requests'[k].tab] \in {"loading", "closed"}
      /\ OneRead'
  BY <1>1, ReleasedType
<1>5. TypeOK'
  BY <1>1, <1>2, <1>3, <1>4 DEF Inv, TypeOK, Request
<1>6. MirrorAgrees'
  <2> SUFFICES ASSUME mirror # "none" PROVE MirrorAgrees'
    BY <1>1 DEF MirrorAgrees
  <2>1. 1 \in Waiting("put")
    BY <1>1, <1>2 DEF Waiting
  <2>2. PICK k \in Waiting("put") : /\ requests[k].library = entries[mirror]
                                    /\ \A l \in Waiting("put") : l <= k
    BY <2>1 DEF Inv, MirrorAgrees
  <2>3. CASE k = 1
    <3>1. Waiting("put")' = {}
      BY <1>1, <2>2, <2>3, QueuePop
    <3> QED BY <1>1, <1>2, <2>2, <2>3, <3>1 DEF MirrorAgrees
  <2>4. CASE k # 1
    <3>1. k \in Nat /\ k - 1 \in Waiting("put")' /\ requests'[k - 1] = requests[k]
      BY <1>1, <2>2, <2>4, QueuePop
    <3>2. \A l \in Waiting("put")' : l <= k - 1
      BY <1>1, <2>2, <3>1, QueuePop
    <3> QED BY <1>1, <2>2, <3>1, <3>2 DEF MirrorAgrees
  <2> QED BY <2>3, <2>4
<1>7. MirrorReady'
  BY <1>1 DEF Inv, MirrorReady
<1> QED BY <1>4, <1>5, <1>6, <1>7 DEF Inv

LEMMA RequestFailsInv ==
  ASSUME Inv, RequestFails
  PROVE  Inv'
<1>1. /\ requests # <<>> /\ requests' = Tail(requests)
      /\ UNCHANGED <<entries, database, clock, backup, shelved>> /\ alone' = FALSE
      /\ Head(requests).kind = "get" => phase' = Released(Head(requests).tab) /\ mirror' = mirror
      /\ Head(requests).kind # "get" => phase' = phase /\ mirror' = "none"
  BY DEF RequestFails
<1>2. phase' = phase \/ (Head(requests).kind = "get" /\ phase' = Released(Head(requests).tab))
  BY <1>1
<1>3. /\ phase' \in [Tab -> {"closed", "opening", "loading", "ready", "detached"}]
      /\ \A t \in Tab : phase[t] # "loading" => phase'[t] = phase[t]
      /\ \A k \in Waiting("get")' : phase'[requests'[k].tab] \in {"loading", "closed"}
      /\ OneRead'
  BY <1>1, <1>2, ReleasedType
<1>4. requests' \in Seq(Request) /\ mirror' \in Tab \cup {"none"}
  BY <1>1, QueuePop DEF Inv, TypeOK
<1>5. TypeOK'
  BY <1>1, <1>3, <1>4 DEF Inv, TypeOK, Request
<1>6. MirrorReady'
  BY <1>1, <1>3 DEF Inv, TypeOK, MirrorReady
<1>7. MirrorAgrees'
  <2>1. CASE Head(requests).kind = "get"
    BY <1>1, <2>1, ReadLeaves
  <2>2. CASE Head(requests).kind # "get"
    BY <1>1, <2>2 DEF MirrorAgrees
  <2> QED BY <2>1, <2>2
<1> QED BY <1>3, <1>5, <1>6, <1>7 DEF Inv

LEMMA StepInv == Inv /\ [Next]_vars => Inv'
<1> SUFFICES ASSUME Inv, [Next]_vars PROVE Inv'
  OBVIOUS
<1>1. CASE Next
  BY <1>1, PageInv, UserInv, ServeGetInv, ServePutInv, RequestFailsInv DEF Next
<1>2. CASE UNCHANGED vars
  BY <1>2 DEF vars, Inv, TypeOK, OneRead, MirrorReady, MirrorAgrees, Waiting
<1> QED BY <1>1, <1>2

-----------------------------------------------------------------------------
(* Theorems.                                                               *)

(* The inductive invariant: types, one read per tab, a mirror that loaded, *)
(* and a store that agrees with it.                                        *)
THEOREM ReaderInvariant == Spec => []Inv
BY InitInv, StepInv, PTL DEF Spec

(* Libraries, the queue and the store keep their types, and no library     *)
(* exceeds the limit of titles, whatever is imported (mergeEntries).       *)
THEOREM TypeCorrect == Spec => []TypeOK
<1>1. Inv => TypeOK
  BY DEF Inv
<1> QED BY <1>1, ReaderInvariant, PTL

(* A tab that loaded in peace and writes alone is what a reload will show: *)
(* the order of its writes and of their completions loses none (persist).  *)
THEOREM StoreMirrorsTab == Spec => []MirrorAgrees
<1>1. Inv => MirrorAgrees
  BY DEF Inv
<1> QED BY <1>1, ReaderInvariant, PTL

(* Merging by hand between two devices ends with the same stamps and       *)
(* places whichever imports first (mergeEntries), unless stamps tie.       *)
THEOREM MergesAgree == Spec => []MergeOrderFree
<1>1. ASSUME NEW a \in Shelf, NEW b \in Shelf, ~Tied(a, b)
      PROVE  SamePlaces(Merge(a, b), Merge(b, a))
  <2> SUFFICES ASSUME NEW i \in Title
               PROVE  /\ Merge(a, b)[i].at = Merge(b, a)[i].at
                      /\ Merge(a, b)[i].place = Merge(b, a)[i].place
    BY DEF SamePlaces
  <2>1. /\ a[i] \in Book /\ b[i] \in Book
        /\ a[i].at \in Nat /\ b[i].at \in Nat
    BY DEF Shelf, Book, NoBook
  <2>2. a[i].at = b[i].at => a[i].place = b[i].place
    BY <1>1 DEF Tied
  <2>3. CASE a[i].at = b[i].at
    BY <2>1, <2>2, <2>3 DEF Merge
  <2>4. CASE b[i].at > a[i].at
    <3>1. ~(a[i].at > b[i].at) /\ b[i] # NoBook
      BY <2>1, <2>4 DEF NoBook
    <3>2. b[i] \in [at: Nat \ {0}, place: Place \cup {0}, linked: BOOLEAN]
      BY <2>1, <3>1 DEF Book
    <3> QED BY <2>4, <3>1, <3>2 DEF Merge
  <2>5. CASE a[i].at > b[i].at
    <3>1. ~(b[i].at > a[i].at) /\ a[i] # NoBook
      BY <2>1, <2>5 DEF NoBook
    <3>2. a[i] \in [at: Nat \ {0}, place: Place \cup {0}, linked: BOOLEAN]
      BY <2>1, <3>1 DEF Book
    <3> QED BY <2>5, <3>1, <3>2 DEF Merge
  <2> QED BY <2>1, <2>3, <2>4, <2>5
<1>2. Inv => MergeOrderFree
  <2> SUFFICES ASSUME Inv, NEW t \in Tab, NEW file \in Snapshots \cup {backup, database}
               PROVE  Tied(entries[t], file)
                        \/ SamePlaces(Merge(entries[t], file), Merge(file, entries[t]))
    BY DEF MergeOrderFree
  <2>1. entries[t] \in Shelf /\ file \in Shelf
    BY LibraryAssumption DEF Inv, TypeOK, Bounded
  <2> QED BY <1>1, <2>1
<1> QED BY <1>2, ReaderInvariant, PTL

-----------------------------------------------------------------------------
(* Tabs that are alone.                                                     *)

(* The later library has every title of the earlier one that is still a     *)
(* title, at the same or a later stamp.                                     *)
Advances(old, new) == \A i \in Titles(new) : new[i].at >= old[i].at

(* Tabs take turns: one is open; what waits is writes of earlier tabs, then *)
(* their reads, then the one of the tab that is loading; and a tab in use   *)
(* mirrors the store.                                                       *)
InTurn ==
  /\ \A t, u \in Tab : phase[t] # "closed" /\ phase[u] # "closed" => t = u
  /\ \A k \in Waiting("put"), l \in Waiting("get") : k < l
  /\ \A k \in Waiting("get") :
       phase[requests[k].tab] = "loading" => \A l \in Waiting("get") : l <= k
  /\ \A t \in Tab : phase[t] = "ready" => Waiting("get") = {} /\ mirror = t

(* Each waiting write advances what it replaces.                            *)
WritesAdvance ==
  /\ 1 \in Waiting("put") => Advances(database, requests[1].library)
  /\ \A k \in Waiting("put") :
       k + 1 \in Waiting("put") => Advances(requests[k].library, requests[k + 1].library)

(* The last write, or the store when none waits, has every saved title.     *)
LastHasShelved ==
  /\ Waiting("put") = {} => shelved \subseteq Titles(database)
  /\ \A k \in Waiting("put") :
       (\A l \in Waiting("put") : l <= k) => shelved \subseteq Titles(requests[k].library)

AloneInv == InTurn /\ WritesAdvance /\ LastHasShelved

LEMMA MergeAdvances ==
  ASSUME NEW lib \in Shelf, NEW incoming \in Shelf
  PROVE  Advances(lib, Merge(lib, incoming)) /\ Titles(lib) \subseteq Titles(Merge(lib, incoming))
<1>1. \A i \in Title : lib[i].at \in Nat /\ incoming[i].at \in Nat
  BY DEF Shelf, Book, NoBook
<1>2. ASSUME NEW i \in Title PROVE Merge(lib, incoming)[i].at >= lib[i].at
  <2>1. CASE incoming[i].at > lib[i].at
    <3>1. incoming[i] \in [at: Nat \ {0}, place: Place \cup {0}, linked: BOOLEAN]
      BY <1>1, <2>1 DEF Shelf, Book, NoBook
    <3> QED BY <1>1, <2>1, <3>1 DEF Merge
  <2>2. CASE ~(incoming[i].at > lib[i].at)
    BY <1>1, <2>2 DEF Merge
  <2> QED BY <2>1, <2>2
<1>3. Merge(lib, incoming) \in Shelf
  BY MergeShelf
<1>4. \A i \in Title : Merge(lib, incoming)[i].at \in Nat
  BY <1>3 DEF Shelf, Book, NoBook
<1> QED BY <1>1, <1>2, <1>4 DEF Advances, Titles

LEMMA WithoutAdvances ==
  ASSUME NEW lib \in Shelf, NEW i \in Title
  PROVE  Advances(lib, Without(lib, i)) /\ Titles(lib) \ {i} \subseteq Titles(Without(lib, i))
<1>1. \A j \in Title : lib[j].at \in Nat /\ Without(lib, i)[j] = IF j = i THEN NoBook ELSE lib[j]
  BY DEF Without, Shelf, Book, NoBook
<1> QED BY <1>1 DEF Advances, Titles, NoBook

(* A user's change of the library is one write more, which advances the     *)
(* last one and has every title that is still saved.                        *)
LEMMA ChangeAlone ==
  ASSUME Inv, AloneInv, alone', NEW t \in Tab, HasDatabase(t), NEW lib \in Bounded,
         entries' = [entries EXCEPT ![t] = lib], Persist(t),
         phase' = phase, database' = database,
         Advances(entries[t], lib),
         shelved \subseteq Titles(entries[t]) => shelved' \subseteq Titles(lib)
  PROVE  AloneInv'
<1> DEFINE n == Len(requests) + 1
           r == [tab |-> t, kind |-> "put", library |-> lib]
<1>1. /\ phase[t] = "ready" /\ mirror = t /\ Waiting("get") = {}
      /\ entries \in [Tab -> Bounded] /\ requests \in Seq(Request)
      /\ MirrorAgrees
  <2>1. phase[t] = "ready"
    BY DEF Persist
  <2> QED BY <2>1 DEF AloneInv, InTurn, Inv, TypeOK, Request
<1>2. /\ requests' = Append(requests, r) /\ r \in Request
      /\ mirror' = t /\ entries'[t] = lib
  BY <1>1 DEF Persist, HasDatabase, Request
<1>3. r.kind = "put" /\ r.library = lib
  OBVIOUS
<1> HIDE DEF r
<1>4. /\ requests' \in Seq(Request)
      /\ Len(requests) \in Nat
      /\ DOMAIN requests = 1..Len(requests)
      /\ DOMAIN requests' = 1..n
      /\ requests'[n] = r
      /\ \A k \in DOMAIN requests : requests'[k] = requests[k]
  BY <1>1, <1>2, QueueAppend
<1> HIDE DEF n
<1>5. n \in Nat \ {0} /\ Len(requests) = n - 1
  BY <1>4 DEF n
<1>6. \A k \in DOMAIN requests : requests[k].kind = "put"
  <2>1. \A k \in DOMAIN requests : requests[k] \in Request
    BY <1>1
  <2>2. \A k \in DOMAIN requests : requests[k].kind \in {"get", "put"}
    BY <2>1 DEF Request
  <2> QED BY <1>1, <2>2 DEF Waiting
<1>7. /\ Waiting("put") = 1..(n - 1) /\ Waiting("put")' = 1..n
      /\ Waiting("get")' = {}
  <2>1. \A k \in 1..n : requests'[k].kind = "put"
    BY <1>3, <1>4, <1>5, <1>6
  <2> QED BY <1>4, <1>5, <1>6, <2>1 DEF Waiting
<1>8. InTurn'
  <2>1. \A u \in Tab : phase[u] # "closed" => u = t
    BY <1>1 DEF AloneInv, InTurn
  <2> QED BY <1>2, <1>7, <2>1 DEF InTurn
<1>9. /\ n = 1 => database = entries[t]
      /\ n # 1 => requests[n - 1].library = entries[t]
  <2>1. CASE Waiting("put") = {} /\ database = entries[t]
    <3>1. 1 \notin 1..(n - 1)
      BY <1>7, <2>1
    <3>2. n = 1
      BY <1>5, <3>1
    <3> QED BY <2>1, <3>2
  <2>2. CASE \E k \in Waiting("put") : /\ requests[k].library = entries[t]
                                       /\ \A l \in Waiting("put") : l <= k
    <3>1. PICK k \in Waiting("put") : /\ requests[k].library = entries[t]
                                     /\ \A l \in Waiting("put") : l <= k
      BY <2>2
    <3>2. k \in 1..(n - 1) /\ n - 1 \in 1..(n - 1)
      BY <1>5, <1>7, <3>1
    <3>3. n - 1 <= k
      BY <1>7, <3>1, <3>2
    <3>4. k = n - 1 /\ n # 1
      BY <1>5, <3>2, <3>3
    <3> QED BY <3>1, <3>4
  <2> QED BY <1>1, <2>1, <2>2, TabAssumption DEF MirrorAgrees
<1>10. WritesAdvance'
  <2>1. 1 \in Waiting("put")' => Advances(database, requests'[1].library)
    <3>1. CASE n = 1
      BY <1>3, <1>4, <1>9, <3>1
    <3>2. CASE n # 1
      BY <1>4, <1>5, <1>7, <3>2 DEF AloneInv, WritesAdvance
    <3> QED BY <3>1, <3>2
  <2>2. ASSUME NEW k \in Waiting("put")', k + 1 \in Waiting("put")'
        PROVE  Advances(requests'[k].library, requests'[k + 1].library)
    <3>1. CASE k + 1 = n
      BY <1>3, <1>4, <1>5, <1>7, <1>9, <2>2, <3>1
    <3>2. CASE k + 1 # n
      <4>1. k \in Waiting("put") /\ k + 1 \in Waiting("put")
        BY <1>5, <1>7, <2>2, <3>2
      <4>2. requests'[k] = requests[k] /\ requests'[k + 1] = requests[k + 1]
        BY <1>4, <1>5, <1>7, <4>1
      <4> QED BY <4>1, <4>2 DEF AloneInv, WritesAdvance
    <3> QED BY <3>1, <3>2
  <2>3. database' = database
    OBVIOUS
  <2> QED BY <2>1, <2>2, <2>3 DEF WritesAdvance
<1>11. shelved \subseteq Titles(entries[t])
  <2>1. CASE n = 1
    BY <1>5, <1>7, <1>9, <2>1 DEF AloneInv, LastHasShelved
  <2>2. CASE n # 1
    <3>1. n - 1 \in Waiting("put") /\ \A l \in Waiting("put") : l <= n - 1
      BY <1>5, <1>7, <2>2
    <3> QED BY <1>9, <2>2, <3>1 DEF AloneInv, LastHasShelved
  <2> QED BY <2>1, <2>2
<1>12. LastHasShelved'
  <2>1. n \in 1..n /\ Waiting("put")' # {}
    BY <1>5, <1>7
  <2>2. ASSUME NEW k \in Waiting("put")', \A l \in Waiting("put")' : l <= k
        PROVE  shelved' \subseteq Titles(requests'[k].library)
    <3>1. k = n
      <4>1. n <= k /\ k \in 1..n
        BY <1>7, <2>1, <2>2
      <4> QED BY <1>5, <4>1
    <3> QED BY <1>3, <1>4, <1>11, <3>1
  <2> QED BY <2>1, <2>2 DEF LastHasShelved, Titles
<1> QED BY <1>8, <1>10, <1>12 DEF AloneInv

(* Without the database a change stays in the tab.                          *)
LEMMA DetachedAlone ==
  ASSUME Inv, AloneInv, NEW t \in Tab, ~HasDatabase(t), Persist(t),
         phase' = phase, database' = database, shelved' \subseteq shelved
  PROVE  AloneInv'
<1>1. requests' = requests /\ mirror' = mirror
  BY DEF Persist
<1>2. Waiting("get")' = Waiting("get") /\ Waiting("put")' = Waiting("put")
  BY <1>1 DEF Waiting
<1>3. InTurn'
  BY <1>1, <1>2 DEF AloneInv, InTurn
<1>4. WritesAdvance'
  BY <1>1, <1>2 DEF AloneInv, WritesAdvance
<1>5. LastHasShelved'
  <2>1. Titles(database)' = Titles(database)
    BY DEF Titles
  <2>2. \A k \in Waiting("put") : Titles(requests[k].library)' = Titles(requests[k].library)
    BY <1>1 DEF Titles
  <2> QED BY <1>2, <2>1, <2>2 DEF AloneInv, LastHasShelved
<1> QED BY <1>3, <1>4, <1>5 DEF AloneInv

LEMMA InitAlone == Init => (alone => AloneInv)
<1> SUFFICES ASSUME Init PROVE AloneInv
  OBVIOUS
<1>1. Waiting("get") = {} /\ Waiting("put") = {}
  BY DEF Init, Waiting
<1> QED BY <1>1 DEF Init, AloneInv, InTurn, WritesAdvance, LastHasShelved

LEMMA UserAlone ==
  ASSUME Inv, AloneInv, alone', NEW t \in Tab, UserStep(t)
  PROVE  AloneInv'
<1>0. /\ clock \in Nat /\ entries \in [Tab -> Bounded] /\ backup \in Shelf
      /\ entries[t] \in Bounded /\ entries[t] \in Shelf
  BY DEF Inv, TypeOK, Bounded
<1>1. ASSUME NEW incoming \in Shelf, Apply(t, incoming),
             UNCHANGED <<phase, database, backup, shelved>>
      PROVE  AloneInv'
  <2> DEFINE lib == Merge(entries[t], incoming)
  <2>1. lib \in Bounded
    BY <1>0, <1>1, MergeShelf, FitsBounded DEF Apply
  <2>2. Advances(entries[t], lib) /\ Titles(entries[t]) \subseteq Titles(lib)
    BY <1>0, <1>1, MergeAdvances
  <2>3. entries' = [entries EXCEPT ![t] = lib] /\ Persist(t)
    BY <1>0, <1>1 DEF Apply
  <2> HIDE DEF lib
  <2>4. shelved \subseteq Titles(entries[t]) => shelved' \subseteq Titles(lib)
    BY <1>1, <2>2
  <2>5. phase' = phase /\ database' = database /\ shelved' \subseteq shelved
    BY <1>1
  <2> QED BY <2>1, <2>2, <2>3, <2>4, <2>5, ChangeAlone, DetachedAlone
<1>2. ASSUME NEW i \in Title, AddTitle(t, i) PROVE AloneInv'
  <2>1. [at |-> clock', place |-> 0, linked |-> TRUE] \in Book
    BY <1>0, <1>2 DEF AddTitle, Book
  <2> QED BY <1>1, <1>2, <2>1, OnlyShelf DEF AddTitle
<1>3. ASSUME NEW i \in Title, NEW p \in Place, UpdateProgress(t, i, p) PROVE AloneInv'
  <2>1. entries[t][i] \in [at: Nat \ {0}, place: Place \cup {0}, linked: BOOLEAN]
    BY <1>0, <1>3 DEF UpdateProgress, Shelf, Book, NoBook
  <2>2. clock' \in Nat \ {0}
    BY <1>0, <1>3 DEF UpdateProgress
  <2>3. [entries[t][i] EXCEPT !.place = p, !.at = clock'] \in Book
    BY <2>1, <2>2 DEF Book
  <2> QED BY <1>1, <1>3, <2>3, OnlyShelf DEF UpdateProgress
<1>4. ASSUME NEW i \in Title, RemoveTitle(t, i) PROVE AloneInv'
  <2> DEFINE lib == Without(entries[t], i)
  <2>1. lib \in Bounded
    BY <1>0, WithoutBounded
  <2>2. Advances(entries[t], lib) /\ Titles(entries[t]) \ {i} \subseteq Titles(lib)
    BY <1>0, WithoutAdvances
  <2>3. entries' = [entries EXCEPT ![t] = lib] /\ Persist(t)
    BY <1>0, <1>4 DEF RemoveTitle
  <2>4. phase' = phase /\ database' = database /\ shelved' = shelved \ {i}
    BY <1>4 DEF RemoveTitle
  <2> HIDE DEF lib
  <2>5. shelved \subseteq Titles(entries[t]) => shelved' \subseteq Titles(lib)
    BY <2>2, <2>4
  <2> QED BY <2>1, <2>2, <2>3, <2>4, <2>5, ChangeAlone, DetachedAlone
<1>5. ASSUME NEW file \in Snapshots \cup {backup}, ImportSnapshot(t, file) PROVE AloneInv'
  <2>1. Merge(Empty, file) \in Shelf
    BY <1>0, EmptyShelf, MergeShelf, LibraryAssumption
  <2> QED BY <1>1, <1>5, <2>1 DEF ImportSnapshot
<1>6. ASSUME NEW b \in AidokuBackups, ImportAidoku(t, b) PROVE AloneInv'
  BY <1>1, <1>6, AidokuShelf DEF ImportAidoku
<1>7. CASE Export(t)
  BY <1>7 DEF Export, AloneInv, InTurn, WritesAdvance, LastHasShelved, Waiting
<1> QED BY <1>2, <1>3, <1>4, <1>5, <1>6, <1>7 DEF UserStep

LEMMA PageAlone ==
  ASSUME Inv, AloneInv, alone', NEW t \in Tab, PageStep(t)
  PROVE  AloneInv'
<1>0. /\ phase \in [Tab -> {"closed", "opening", "loading", "ready", "detached"}]
      /\ requests \in Seq(Request)
  BY DEF Inv, TypeOK, Request
<1>1. \A k \in DOMAIN requests : requests[k] \in Request
  BY <1>0
<1>2. CASE OpenTab(t)
  <2>1. /\ \A u \in Tab : phase[u] = "closed"
        /\ phase' = [phase EXCEPT ![t] = "opening"]
        /\ UNCHANGED <<requests, database, shelved>>
    BY <1>2 DEF OpenTab
  <2>2. Waiting("get")' = Waiting("get") /\ Waiting("put")' = Waiting("put")
    BY <2>1 DEF Waiting
  <2>3. \A u \in Tab : phase'[u] = IF u = t THEN "opening" ELSE "closed"
    BY <1>0, <2>1
  <2>4. \A k \in Waiting("get") : requests[k].tab \in Tab
    BY <1>1 DEF Waiting, Request
  <2>5. InTurn'
    BY <2>1, <2>2, <2>3, <2>4 DEF AloneInv, InTurn
  <2> QED BY <2>1, <2>2, <2>5 DEF AloneInv, WritesAdvance, LastHasShelved
<1>3. CASE DatabaseOpened(t)
  <2> DEFINE r == [tab |-> t, kind |-> "get", library |-> Empty]
             n == Len(requests) + 1
  <2>1. r \in Request /\ r.kind = "get" /\ r.tab = t
    BY EmptyBounded DEF Request
  <2>2. /\ requests' = Append(requests, r)
        /\ phase[t] = "opening" /\ phase' = [phase EXCEPT ![t] = "loading"]
        /\ UNCHANGED <<database, shelved>>
    BY <1>3 DEF DatabaseOpened
  <2> HIDE DEF r
  <2>3. /\ Len(requests) \in Nat
        /\ DOMAIN requests = 1..Len(requests)
        /\ DOMAIN requests' = 1..n
        /\ requests'[n] = r
        /\ \A k \in DOMAIN requests : requests'[k] = requests[k]
    BY <1>0, <2>1, <2>2, QueueAppend
  <2> HIDE DEF n
  <2>4. n \in Nat /\ n = Len(requests) + 1
    BY <2>3 DEF n
  <2>5. /\ Waiting("put")' = Waiting("put")
        /\ \A k \in Waiting("put") : k \in 1..Len(requests) /\ requests'[k] = requests[k]
        /\ \A l \in Waiting("get")' :
             /\ l \in 1..n
             /\ l = n \/ (l \in Waiting("get") /\ requests'[l] = requests[l])
    BY <2>1, <2>3, <2>4 DEF Waiting
  <2>6. \A u \in Tab : phase'[u] = IF u = t THEN "loading" ELSE "closed"
    BY <1>0, <2>2 DEF AloneInv, InTurn
  <2>7. ASSUME NEW l \in Waiting("get"), phase'[requests[l].tab] = "loading" PROVE FALSE
    <3>1. requests[l].tab = t
      BY <1>1, <2>6, <2>7 DEF Waiting, Request
    <3> QED BY <2>2, <3>1 DEF Inv, TypeOK
  <2>8. InTurn'
    <3>1. \A k \in Waiting("put")', l \in Waiting("get")' : k < l
      BY <2>4, <2>5 DEF AloneInv, InTurn
    <3>2. \A k \in Waiting("get")' :
            phase'[requests'[k].tab] = "loading" => \A l \in Waiting("get")' : l <= k
      BY <2>4, <2>5, <2>7
    <3> QED BY <2>6, <3>1, <3>2 DEF InTurn
  <2>9. WritesAdvance'
    BY <2>2, <2>5 DEF AloneInv, WritesAdvance
  <2>10. LastHasShelved'
    <3>1. Titles(database)' = Titles(database)
      BY <2>2 DEF Titles
    <3>2. \A k \in Waiting("put") : Titles(requests[k].library)' = Titles(requests[k].library)
      BY <2>5 DEF Titles
    <3> QED BY <2>2, <2>5, <3>1, <3>2 DEF AloneInv, LastHasShelved
  <2> QED BY <2>8, <2>9, <2>10 DEF AloneInv
<1>4. CASE DatabaseUnavailable(t)
  <2>1. /\ phase[t] = "opening" /\ phase' = [phase EXCEPT ![t] = "detached"]
        /\ UNCHANGED <<requests, database, mirror, shelved>>
    BY <1>4 DEF DatabaseUnavailable
  <2>2. Waiting("get")' = Waiting("get") /\ Waiting("put")' = Waiting("put")
    BY <2>1 DEF Waiting
  <2>3. \A u \in Tab : phase'[u] = IF u = t THEN "detached" ELSE phase[u]
    BY <1>0, <2>1
  <2>4. \A k \in Waiting("get") : requests[k].tab \in Tab
    BY <1>1 DEF Waiting, Request
  <2>5. InTurn'
    BY <2>1, <2>2, <2>3, <2>4 DEF AloneInv, InTurn
  <2> QED BY <2>1, <2>2, <2>5 DEF AloneInv, WritesAdvance, LastHasShelved
<1>5. CASE CloseTab(t)
  <2>1. /\ phase[t] # "closed" /\ phase' = [phase EXCEPT ![t] = "closed"]
        /\ UNCHANGED <<requests, database, shelved>>
    BY <1>5 DEF CloseTab
  <2>2. Waiting("get")' = Waiting("get") /\ Waiting("put")' = Waiting("put")
    BY <2>1 DEF Waiting
  <2>3. \A u \in Tab : phase'[u] = "closed"
    BY <1>0, <2>1 DEF AloneInv, InTurn
  <2>4. \A k \in Waiting("get") : requests[k].tab \in Tab
    BY <1>1 DEF Waiting, Request
  <2>5. InTurn'
    BY <2>1, <2>2, <2>3, <2>4 DEF AloneInv, InTurn
  <2> QED BY <2>1, <2>2, <2>5 DEF AloneInv, WritesAdvance, LastHasShelved
<1> QED BY <1>2, <1>3, <1>4, <1>5 DEF PageStep

(* The reads and writes that are left keep their turns.                     *)
LEMMA PopKeepsTurns ==
  ASSUME Inv, AloneInv, requests # <<>>, requests' = Tail(requests)
  PROVE  /\ \A k \in Waiting("put")', l \in Waiting("get")' : k < l
         /\ \A k \in Waiting("get")' : phase[requests'[k].tab] = "loading"
              => \A l \in Waiting("get")' : l <= k
<1>1. ASSUME NEW k \in Waiting("put")', NEW l \in Waiting("get")'
      PROVE  k < l
  <2>1. k \in Nat /\ l \in Nat /\ k + 1 \in Waiting("put") /\ l + 1 \in Waiting("get")
    BY QueuePop
  <2>2. k + 1 < l + 1
    BY <2>1 DEF AloneInv, InTurn
  <2> QED BY <2>1, <2>2
<1>2. ASSUME NEW k \in Waiting("get")', phase[requests'[k].tab] = "loading",
             NEW l \in Waiting("get")'
      PROVE  l <= k
  <2>1. /\ k \in Nat /\ l \in Nat /\ k + 1 \in Waiting("get") /\ l + 1 \in Waiting("get")
        /\ requests'[k] = requests[k + 1]
    BY QueuePop
  <2>2. l + 1 <= k + 1
    BY <1>2, <2>1 DEF AloneInv, InTurn
  <2> QED BY <2>1, <2>2
<1> QED BY <1>1, <1>2

LEMMA ServeGetAlone ==
  ASSUME Inv, AloneInv, ServeGet
  PROVE  AloneInv'
<1> DEFINE t == Head(requests).tab
<1>1. /\ requests # <<>> /\ requests' = Tail(requests) /\ Head(requests).kind = "get"
      /\ UNCHANGED <<database, shelved>>
      /\ phase[t] = "loading" =>
           mirror' = (IF Waiting("put") = {} THEN t ELSE mirror) /\ phase' = Released(t)
      /\ phase[t] # "loading" => UNCHANGED <<mirror, phase>>
  BY DEF ServeGet
<1>2. Head(requests) = requests[1] /\ 1 \in Waiting("get") /\ t \in Tab
  BY <1>1, QueuePop DEF Waiting, Request
<1>3. Waiting("put") = {} /\ Waiting("put")' = {}
  <2>1. ASSUME NEW k \in Waiting("put") PROVE FALSE
    <3>1. k \in Nat \ {0}
      BY <1>1, <2>1, QueuePop
    <3>2. k < 1
      BY <1>2, <2>1 DEF AloneInv, InTurn
    <3> QED BY <3>1, <3>2
  <2> QED BY <1>1, <2>1, QueuePop
<1>4. phase \in [Tab -> {"closed", "opening", "loading", "ready", "detached"}]
  BY DEF Inv, TypeOK
<1>5. \A u \in Tab : phase[u] # "ready"
  BY <1>2 DEF AloneInv, InTurn
<1>6. WritesAdvance' /\ LastHasShelved'
  BY <1>1, <1>3 DEF AloneInv, WritesAdvance, LastHasShelved, Titles
<1>7. InTurn'
  <2>1. CASE phase[t] = "loading"
    <3>1. Waiting("get")' = {}
      <4> SUFFICES ASSUME NEW k \in Waiting("get")' PROVE FALSE
        OBVIOUS
      <4>1. k \in Nat \ {0} /\ k + 1 \in Waiting("get")
        BY <1>1, QueuePop
      <4>2. k + 1 <= 1
        BY <1>2, <2>1, <4>1 DEF AloneInv, InTurn
      <4> QED BY <4>1, <4>2
    <3>2. mirror' = t /\ phase' = [phase EXCEPT ![t] = "ready"]
      BY <1>1, <1>3, <2>1 DEF Released
    <3>3. \A u \in Tab : phase'[u] = IF u = t THEN "ready" ELSE phase[u]
      BY <1>2, <1>4, <3>2
    <3> HIDE DEF t
    <3> QED BY <1>2, <1>3, <1>5, <2>1, <3>1, <3>2, <3>3 DEF AloneInv, InTurn
  <2>2. CASE phase[t] # "loading"
    <3>1. phase' = phase
      BY <1>1, <2>2
    <3>2. /\ \A k \in Waiting("put")', l \in Waiting("get")' : k < l
          /\ \A k \in Waiting("get")' : phase[requests'[k].tab] = "loading"
               => \A l \in Waiting("get")' : l <= k
      BY <1>1, PopKeepsTurns
    <3> QED BY <1>5, <3>1, <3>2 DEF AloneInv, InTurn
  <2> QED BY <2>1, <2>2
<1> QED BY <1>6, <1>7 DEF AloneInv

LEMMA ServePutAlone ==
  ASSUME Inv, AloneInv, ServePut
  PROVE  AloneInv' /\ Advances(database, database')
<1>1. /\ requests # <<>> /\ requests' = Tail(requests) /\ Head(requests).kind = "put"
      /\ database' = Head(requests).library
      /\ shelved' = shelved \cup Kept(Head(requests).library)
      /\ UNCHANGED <<phase, mirror>>
  BY DEF ServePut
<1>2. Head(requests) = requests[1] /\ 1 \in Waiting("put")
  BY <1>1, QueuePop DEF Waiting
<1>3. Waiting("get") = {} => Waiting("get")' = {}
  BY <1>1, QueuePop
<1>4. /\ \A k \in Waiting("put")' :
            k \in Nat \ {0} /\ k + 1 \in Waiting("put") /\ requests'[k] = requests[k + 1]
      /\ \A k \in Waiting("put") :
            k \in Nat \ {0} /\ (k # 1 => k - 1 \in Waiting("put")' /\ requests'[k - 1] = requests[k])
  BY <1>1, QueuePop
<1>5. Advances(database, database') /\ database' = requests[1].library
  BY <1>1, <1>2 DEF AloneInv, WritesAdvance
<1>6. WritesAdvance'
  <2>1. ASSUME 1 \in Waiting("put")' PROVE Advances(database', requests'[1].library)
    <3>1. 1 + 1 \in Waiting("put") /\ requests'[1] = requests[1 + 1]
      BY <1>4, <2>1
    <3>2. Advances(requests[1].library, requests[1 + 1].library)
      BY <1>2, <3>1 DEF AloneInv, WritesAdvance
    <3> QED BY <1>5, <3>1, <3>2
  <2>2. ASSUME NEW k \in Waiting("put")', k + 1 \in Waiting("put")'
        PROVE  Advances(requests'[k].library, requests'[k + 1].library)
    <3>1. /\ k + 1 \in Waiting("put") /\ requests'[k] = requests[k + 1]
          /\ (k + 1) + 1 \in Waiting("put") /\ requests'[k + 1] = requests[(k + 1) + 1]
      BY <1>4, <2>2
    <3> QED BY <3>1 DEF AloneInv, WritesAdvance
  <2> QED BY <2>1, <2>2 DEF WritesAdvance
<1>7. InTurn'
  <2>1. /\ \A k \in Waiting("put")', l \in Waiting("get")' : k < l
        /\ \A k \in Waiting("get")' : phase[requests'[k].tab] = "loading"
             => \A l \in Waiting("get")' : l <= k
    BY <1>1, PopKeepsTurns
  <2> QED BY <1>1, <1>3, <2>1 DEF AloneInv, InTurn
<1>8. ASSUME NEW k \in Waiting("put"), \A l \in Waiting("put") : l <= k
      PROVE  shelved' \subseteq Titles(requests[k].library)
  <2>1. shelved \subseteq Titles(requests[k].library)
    BY <1>8 DEF AloneInv, LastHasShelved
  <2>2. Kept(requests[1].library) \subseteq Titles(requests[k].library)
    BY <1>8 DEF Kept, Titles
  <2> QED BY <1>1, <1>2, <2>1, <2>2
<1>9. LastHasShelved'
  <2>1. ASSUME Waiting("put")' = {} PROVE shelved' \subseteq Titles(database')
    <3>1. \A l \in Waiting("put") : l <= 1
      BY <1>4, <2>1
    <3> QED BY <1>2, <1>5, <1>8, <3>1
  <2>2. ASSUME NEW k \in Waiting("put")', \A l \in Waiting("put")' : l <= k
        PROVE  shelved' \subseteq Titles(requests'[k].library)
    <3>1. k \in Nat \ {0} /\ k + 1 \in Waiting("put") /\ requests'[k] = requests[k + 1]
      BY <1>4
    <3>2. ASSUME NEW l \in Waiting("put") PROVE l <= k + 1
      <4>1. CASE l = 1
        BY <3>1, <4>1
      <4>2. CASE l # 1
        <5>1. l - 1 \in Waiting("put")' /\ l \in Nat
          BY <1>4, <4>2
        <5>2. l - 1 <= k
          BY <2>2, <5>1
        <5> QED BY <3>1, <5>1, <5>2
      <4> QED BY <4>1, <4>2
    <3> QED BY <1>8, <3>1, <3>2
  <2>3. Waiting("put")' = {} => shelved' \subseteq Titles(database)'
    BY <2>1 DEF Titles
  <2>4. \A k \in Waiting("put")' : (\A l \in Waiting("put")' : l <= k) =>
          shelved' \subseteq Titles(requests[k].library)'
    BY <2>2 DEF Titles
  <2> QED BY <2>3, <2>4 DEF LastHasShelved
<1> QED BY <1>5, <1>6, <1>7, <1>9 DEF AloneInv

(* A device that is alone was alone before.                                 *)
LEMMA WasAlone ==
  ASSUME Inv, [Next]_vars, alone'
  PROVE  alone
<1>1. ASSUME NEW t \in Tab, Persist(t) PROVE alone
  BY <1>1 DEF Persist
<1>2. ASSUME NEW t \in Tab, PageStep(t) PROVE alone
  BY <1>2 DEF PageStep, OpenTab, DatabaseOpened, DatabaseUnavailable, CloseTab
<1>3. ASSUME NEW t \in Tab, UserStep(t) PROVE alone
  <2>1. Persist(t) \/ Export(t)
    BY <1>3 DEF UserStep, AddTitle, UpdateProgress, RemoveTitle, ImportSnapshot, ImportAidoku, Apply
  <2> QED BY <1>1, <2>1 DEF Export
<1>4. CASE ServeGet \/ ServePut \/ RequestFails \/ UNCHANGED vars
  BY <1>4 DEF ServeGet, ServePut, RequestFails, vars
<1> QED BY <1>2, <1>3, <1>4 DEF Next

LEMMA StepAlone ==
  ASSUME Inv, AloneInv, alone', [Next]_vars
  PROVE  AloneInv' /\ (database' = database \/ Advances(database, database'))
<1>1. ASSUME NEW t \in Tab, PageStep(t) \/ UserStep(t)
      PROVE  AloneInv' /\ database' = database
  <2>1. AloneInv'
    BY <1>1, PageAlone, UserAlone
  <2>2. database' = database
    BY <1>1 DEF PageStep, OpenTab, DatabaseOpened, DatabaseUnavailable, CloseTab,
                UserStep, AddTitle, UpdateProgress, RemoveTitle, ImportSnapshot, ImportAidoku, Export
  <2> QED BY <2>1, <2>2
<1>2. CASE ServeGet
  BY <1>2, ServeGetAlone DEF ServeGet
<1>3. CASE ServePut
  BY <1>3, ServePutAlone
<1>4. CASE RequestFails
  BY <1>4 DEF RequestFails
<1>5. CASE UNCHANGED vars
  BY <1>5 DEF vars, AloneInv, InTurn, WritesAdvance, LastHasShelved, Waiting, Titles
<1> QED BY <1>1, <1>2, <1>3, <1>4, <1>5 DEF Next

LEMMA AloneInvariant == Spec => [](Inv /\ (alone => AloneInv))
<1>1. Init => Inv /\ (alone => AloneInv)
  BY InitInv, InitAlone
<1>2. Inv /\ (alone => AloneInv) /\ [Next]_vars => (Inv /\ (alone => AloneInv))'
  BY StepInv, StepAlone, WasAlone
<1> QED BY <1>1, <1>2, PTL DEF Spec

(* A device whose tabs were alone so far never loses a saved title,         *)
(* whatever it imports and however its tabs are closed and opened again     *)
(* (app.mjs: persist).                                                      *)
THEOREM AloneSaves == Spec => []AloneSurvives
<1>1. (alone => AloneInv) => AloneSurvives
  BY DEF AloneInv, LastHasShelved, AloneSurvives, SavedSurvives, Waiting
<1> QED BY <1>1, AloneInvariant, PTL

(* Its writes leave the queue in the order of its changes, so the store     *)
(* never goes back to an older record of a title.                           *)
THEOREM AloneAdvances == Spec => StoreAdvances
<1> DEFINE Forward == alone' => \A i \in Titles(database') : database'[i].at >= database[i].at
<1>1. Inv /\ (alone => AloneInv) /\ [Next]_vars => Forward
  <2> SUFFICES ASSUME Inv, alone => AloneInv, [Next]_vars, alone'
               PROVE  \A i \in Titles(database') : database'[i].at >= database[i].at
    OBVIOUS
  <2>1. database' = database \/ Advances(database, database')
    BY StepAlone, WasAlone
  <2>2. \A i \in Title : database[i].at \in Nat
    BY DEF Inv, TypeOK, Bounded, Shelf, Book, NoBook
  <2> QED BY <2>1, <2>2 DEF Advances, Titles
<1> QED BY <1>1, AloneInvariant, PTL DEF Spec, StoreAdvances

=============================================================================
