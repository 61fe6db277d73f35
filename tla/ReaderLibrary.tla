---------------------------- MODULE ReaderLibrary ----------------------------
(***************************************************************************)
(* The bookshelf of Sanctum Reader (reader/app.mjs, reader/core.mjs): a    *)
(* library in the memory of every open tab and one record of it in         *)
(* IndexedDB that the tabs read once and overwrite as a whole.             *)
(*                                                                         *)
(* Abstractions.                                                           *)
(*  - A library is a function on titles. A book keeps its stamp            *)
(*    (updatedAt), its place (chapter, page and completed together) and    *)
(*    whether it has its link (url); the other fields travel with the      *)
(*    place. A title that is not in the library has the stamp 0, which     *)
(*    timestamp() gives no book.                                           *)
(*  - The browser runs the transactions of one object store in the order   *)
(*    in which they were created: `requests` is that queue. A request and  *)
(*    its callback are one step. A page opened again is another tab; the   *)
(*    model uses a name again once its requests are gone.                  *)
(*  - `clock` is the device's clock. Two user actions on a title are at    *)
(*    least a millisecond apart, so each advances it. Stamps ahead of it   *)
(*    come from other devices.                                             *)
(***************************************************************************)
EXTENDS Integers, Sequences, FiniteSets

CONSTANTS
  Title,         \* ids of books
  Place,         \* what "Update progress" can record; 0 is no place
  Tab,           \* open pages of the reader on one device
  MaxEntries,    \* MAX_ENTRIES
  Initial,       \* libraries an earlier session may have stored
  Snapshots,     \* libraries exported on other devices
  AidokuBackups, \* Aidoku backups
  Patient,       \* TRUE: nobody touches a tab before its library is shown
  StorageFails,  \* TRUE: opening, reading and writing may fail
  MaxTime,       \* bound of the model: the clock stops
  MaxRequests    \* bound of the model: transactions waiting at once

ASSUME TimeAssumption == MaxTime \in Nat
ASSUME TabAssumption == "none" \notin Tab
ASSUME LimitAssumption == MaxEntries \in Nat
ASSUME PlaceAssumption == Place \subseteq Nat \ {0}

NoBook == [at |-> 0, place |-> 0, linked |-> FALSE]
Book == [at: Nat \ {0}, place: Place \cup {0}, linked: BOOLEAN] \cup {NoBook}
Shelf == [Title -> Book]

(* The titles of a library.                                                *)
Titles(lib) == {i \in Title : lib[i].at > 0}
Empty == [i \in Title |-> NoBook]
Bounded == {lib \in Shelf : Cardinality(Titles(lib)) <= MaxEntries}

(* One record of an Aidoku backup: when the title was last read (0 if its  *)
(* history is not in the backup), where, and when it was last opened (0 if *)
(* unknown).                                                               *)
AidokuBook == [read: Nat, place: Place \cup {0}, opened: Nat, linked: BOOLEAN]

ASSUME LibraryAssumption ==
  /\ IsFiniteSet(Title)
  /\ Initial \subseteq Bounded
  /\ Snapshots \subseteq Shelf
  /\ Patient \in BOOLEAN /\ StorageFails \in BOOLEAN
  /\ \A b \in AidokuBackups :
       /\ b.date \in Nat \ {0}
       /\ \A i \in DOMAIN b.library : b.library[i] \in AidokuBook

VARIABLES
  phase,     \* "closed", "opening" (openDB), "loading" (the first read),
             \* "ready", or "detached" (no database) of every tab
  entries,   \* entries of every tab
  database,  \* the stored library
  requests,  \* transactions that have not run: [tab, kind, library]
  clock,
  backup,    \* the library exported last on this device
  mirror,    \* history: the tab the store should agree with, or "none"
  shelved,   \* history: titles whose saving succeeded and nobody removed
  alone      \* history: so far no two tabs were open at once, none wrote
             \* before its library was shown, and no request failed

vars == <<phase, entries, database, requests, clock, backup, mirror, shelved, alone>>

Waiting(kind) == {k \in DOMAIN requests : requests[k].kind = kind}

TypeOK ==
  /\ phase \in [Tab -> {"closed", "opening", "loading", "ready", "detached"}]
  /\ entries \in [Tab -> Bounded]
  /\ database \in Bounded
  /\ requests \in Seq([tab: Tab, kind: {"get", "put"}, library: Bounded])
  /\ \A k \in Waiting("get") : phase[requests[k].tab] \in {"loading", "closed"}
  /\ clock \in Nat
  /\ backup \in Bounded
  /\ mirror \in Tab \cup {"none"}
  /\ shelved \subseteq Title
  /\ alone \in BOOLEAN

-----------------------------------------------------------------------------
(* Mutant: the book of the library always wins.                            *)
Merge_KeepsOld(lib, incoming) ==
  [i \in Title |-> IF lib[i].at > 0 THEN lib[i] ELSE incoming[i]]

(* Mutant: the incoming library replaces the other one.                    *)
Merge_Replaces(lib, incoming) == incoming

(* Mutant: the incoming book always wins.                                  *)
Merge_TakesNew(lib, incoming) ==
  [i \in Title |-> IF incoming[i].at > 0 THEN incoming[i] ELSE lib[i]]

(* mergeEntries: the later stamp wins; a book without a link keeps the one *)
(* the library has.                                                        *)
Merge(lib, incoming) ==
  [i \in Title |->
     IF incoming[i].at > lib[i].at
     THEN [incoming[i] EXCEPT !.linked = @ \/ lib[i].linked]
     ELSE lib[i]]

(* Mutant: one title too many.                                             *)
Fits_OffByOne(lib) == Cardinality(Titles(lib)) <= MaxEntries + 1

(* The library exceeds MAX_ENTRIES titles: mergeEntries throws.            *)
Fits(lib) == Cardinality(Titles(lib)) <= MaxEntries

(* fromAidoku: the stamp falls back from the history to the last opening   *)
(* to the date of the backup; the place comes from the history alone.      *)
FromAidoku(b) ==
  [i \in Title |->
     IF i \notin DOMAIN b.library THEN NoBook
     ELSE LET r == b.library[i] IN
       [at |-> IF r.read > 0 THEN r.read ELSE IF r.opened > 0 THEN r.opened ELSE b.date,
        place |-> IF r.read > 0 THEN r.place ELSE 0,
        linked |-> r.linked]]

Only(i, book) == [Empty EXCEPT ![i] = book]

-----------------------------------------------------------------------------
HasDatabase(t) == phase[t] \in {"loading", "ready"}

InUse(t) == IF Patient THEN phase[t] \in {"ready", "detached"} ELSE phase[t] # "closed"

(* Mutant: what is stored is the library before the change.                *)
Persist_Before(t) ==
  IF HasDatabase(t)
  THEN /\ Len(requests) < MaxRequests
       /\ requests' = Append(requests, [tab |-> t, kind |-> "put", library |-> entries[t]])
       /\ mirror' = IF mirror = t THEN t ELSE "none"
       /\ alone' = (alone /\ phase[t] = "ready")
  ELSE UNCHANGED <<requests, mirror, alone>>

(* persist: without a database only a message; else one put of the whole   *)
(* library.                                                                *)
Persist(t) ==
  IF HasDatabase(t)
  THEN /\ Len(requests) < MaxRequests
       /\ requests' = Append(requests, [tab |-> t, kind |-> "put", library |-> entries'[t]])
       /\ mirror' = IF mirror = t THEN t ELSE "none"
       /\ alone' = (alone /\ phase[t] = "ready")
  ELSE UNCHANGED <<requests, mirror, alone>>

(* apply: merge, persist, render. A library that grows too large is an     *)
(* error and nothing changes.                                              *)
Apply(t, incoming) ==
  /\ Fits(Merge(entries[t], incoming))
  /\ entries' = [entries EXCEPT ![t] = Merge(@, incoming)]
  /\ Persist(t)

-----------------------------------------------------------------------------
(* The page starts: openDB is called.                                      *)
OpenTab(t) ==
  /\ phase[t] = "closed"
  /\ \A k \in DOMAIN requests : requests[k].tab # t
  /\ phase' = [phase EXCEPT ![t] = "opening"]
  /\ alone' = (alone /\ \A u \in Tab : phase[u] = "closed")
  /\ UNCHANGED <<entries, database, requests, clock, backup, mirror, shelved>>

(* openDB resolves; the library is asked for.                              *)
DatabaseOpened(t) ==
  /\ phase[t] = "opening"
  /\ Len(requests) < MaxRequests
  /\ phase' = [phase EXCEPT ![t] = "loading"]
  /\ requests' = Append(requests, [tab |-> t, kind |-> "get", library |-> Empty])
  /\ UNCHANGED <<entries, database, clock, backup, mirror, shelved, alone>>

(* openDB rejects: blocked, unavailable.                                   *)
DatabaseUnavailable(t) ==
  /\ StorageFails
  /\ phase[t] = "opening"
  /\ phase' = [phase EXCEPT ![t] = "detached"]
  /\ UNCHANGED <<entries, database, requests, clock, backup, mirror, shelved, alone>>

(* The first read is over: a tab that still waits for it goes on.          *)
Released(t) == IF phase[t] = "loading" THEN [phase EXCEPT ![t] = "ready"] ELSE phase

(* The stored library arrives and replaces the entries of the tab.         *)
ServeGet ==
  /\ requests # <<>> /\ Head(requests).kind = "get"
  /\ LET t == Head(requests).tab IN
       IF phase[t] = "loading"
       THEN /\ entries' = [entries EXCEPT ![t] = Merge(Empty, database)]
            /\ mirror' = IF Waiting("put") = {} THEN t ELSE mirror
            /\ phase' = Released(t)
       ELSE UNCHANGED <<entries, mirror, phase>>
  /\ requests' = Tail(requests)
  /\ UNCHANGED <<database, clock, backup, shelved, alone>>

(* The titles of a saved library that no waiting write drops again.        *)
Kept(lib) ==
  {i \in Titles(lib) : \A k \in Waiting("put") : requests[k].library[i].at > 0}

ServePut ==
  /\ requests # <<>> /\ Head(requests).kind = "put"
  /\ database' = Head(requests).library
  /\ shelved' = shelved \cup Kept(Head(requests).library)
  /\ requests' = Tail(requests)
  /\ UNCHANGED <<phase, entries, clock, backup, mirror, alone>>

(* A read fails: the tab goes on with the entries it has, and with the     *)
(* database. A write fails: only a message, or none if the transaction     *)
(* aborts after its request succeeded.                                     *)
RequestFails ==
  /\ StorageFails
  /\ requests # <<>>
  /\ requests' = Tail(requests)
  /\ IF Head(requests).kind = "get"
     THEN /\ phase' = Released(Head(requests).tab)
          /\ UNCHANGED mirror
     ELSE /\ mirror' = "none"
          /\ UNCHANGED phase
  /\ alone' = FALSE
  /\ UNCHANGED <<entries, database, clock, backup, shelved>>

(* The page goes away; the browser still runs or aborts what it asked for. *)
CloseTab(t) ==
  /\ phase[t] # "closed"
  /\ phase' = [phase EXCEPT ![t] = "closed"]
  /\ entries' = [entries EXCEPT ![t] = Empty]
  /\ mirror' = IF mirror = t THEN "none" ELSE mirror
  /\ UNCHANGED <<database, requests, clock, backup, shelved, alone>>

-----------------------------------------------------------------------------
(* "Add title": makeManual has no place yet and the present stamp. The id  *)
(* is made of the link, so adding a title again finds its book.            *)
AddTitle(t, i) ==
  /\ InUse(t) /\ clock < MaxTime
  /\ clock' = clock + 1
  /\ Apply(t, Only(i, [at |-> clock', place |-> 0, linked |-> TRUE]))
  /\ UNCHANGED <<phase, database, backup, shelved>>

(* "Update progress" and a page shown by the viewer: markRead.             *)
UpdateProgress(t, i, p) ==
  /\ InUse(t) /\ clock < MaxTime
  /\ entries[t][i].at > 0
  /\ clock' = clock + 1
  /\ Apply(t, Only(i, [entries[t][i] EXCEPT !.place = p, !.at = clock']))
  /\ UNCHANGED <<phase, database, backup, shelved>>

(* "Remove": filter, persist, render.                                      *)
Without(lib, i) == [lib EXCEPT ![i] = NoBook]

RemoveTitle(t, i) ==
  /\ InUse(t)
  /\ entries[t][i].at > 0
  /\ entries' = [entries EXCEPT ![t] = Without(@, i)]
  /\ Persist(t)
  /\ shelved' = shelved \ {i}
  /\ UNCHANGED <<phase, database, clock, backup>>

(* "Import backup": a snapshot of another device or of this one.           *)
ImportSnapshot(t, file) ==
  /\ InUse(t)
  /\ Apply(t, Merge(Empty, file))
  /\ UNCHANGED <<phase, database, clock, backup, shelved>>

(* "Import Aidoku backup".                                                 *)
ImportAidoku(t, b) ==
  /\ InUse(t)
  /\ Titles(FromAidoku(b)) # {}
  /\ Apply(t, FromAidoku(b))
  /\ UNCHANGED <<phase, database, clock, backup, shelved>>

(* "Export backup": the sanitized entries of the tab.                      *)
Export(t) ==
  /\ InUse(t)
  /\ backup' = Merge(Empty, entries[t])
  /\ UNCHANGED <<phase, entries, database, requests, clock, mirror, shelved, alone>>

-----------------------------------------------------------------------------
Init ==
  /\ phase = [t \in Tab |-> "closed"]
  /\ entries = [t \in Tab |-> Empty]
  /\ database \in Initial
  /\ requests = <<>>
  /\ clock = 0
  /\ backup = Empty
  /\ mirror = "none"
  /\ shelved = Titles(database)
  /\ alone = TRUE

UserStep(t) ==
  \/ \E i \in Title : \/ AddTitle(t, i)
                      \/ \E p \in Place : UpdateProgress(t, i, p)
                      \/ RemoveTitle(t, i)
  \/ \E file \in Snapshots \cup {backup} : ImportSnapshot(t, file)
  \/ \E b \in AidokuBackups : ImportAidoku(t, b)
  \/ Export(t)

PageStep(t) == OpenTab(t) \/ DatabaseOpened(t) \/ DatabaseUnavailable(t) \/ CloseTab(t)

Next ==
  \/ \E t \in Tab : PageStep(t) \/ UserStep(t)
  \/ ServeGet \/ ServePut \/ RequestFails

Spec == Init /\ [][Next]_vars
-----------------------------------------------------------------------------
(* Properties.                                                             *)

(* The titles on the shelf of this device survive a reload: once the store *)
(* is idle it holds every title that was saved and not removed.            *)
SavedSurvives == requests = <<>> => shelved \subseteq Titles(database)

(* They do on a device whose tabs were alone so far, whatever it imported   *)
(* and however tabs were closed in the middle of their writes and opened    *)
(* again: what loses titles is a second tab, a change made before the       *)
(* library is shown, or a request that fails.                               *)
AloneSurvives == alone => SavedSurvives

(* Nor does the store of such a device go back to an older record of a      *)
(* title; only a removal drops one.                                         *)
StoreAdvances ==
  [][ alone' => \A i \in Titles(database') : database'[i].at >= database[i].at ]_vars

(* What a reload would show is what the tab shows: after a tab loaded the  *)
(* library in peace, and as long as no other tab writes and no write       *)
(* fails, the last write that waits, or else the store, is its library,    *)
(* whatever it added, updated, imported and removed.                       *)
MirrorAgrees ==
  mirror # "none" =>
    \/ Waiting("put") = {} /\ database = entries[mirror]
    \/ \E k \in Waiting("put") :
         /\ requests[k].library = entries[mirror]
         /\ \A l \in Waiting("put") : l <= k

(* Two libraries know different things under one stamp.                    *)
Tied(a, b) == \E i \in Title : a[i].at = b[i].at /\ a[i].place # b[i].place

SamePlaces(a, b) == \A i \in Title : a[i].at = b[i].at /\ a[i].place = b[i].place

(* A merge of two devices by hand gives the same stamps and places on both *)
(* of them, whichever imports first, unless their stamps are tied.         *)
MergeOrderFree ==
  \A t \in Tab : \A file \in Snapshots \cup {backup, database} :
    Tied(entries[t], file)
      \/ SamePlaces(Merge(entries[t], file), Merge(file, entries[t]))
=============================================================================
