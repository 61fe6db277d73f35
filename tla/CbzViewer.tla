------------------------------ MODULE CbzViewer ------------------------------
(***************************************************************************)
(* The viewer of local comic files in Sanctum Reader (reader/app.mjs):     *)
(* files are scanned and pages decoded asynchronously, the answers come in *)
(* any order, and meanwhile the reader turns pages, closes the viewer or   *)
(* opens another file.                                                     *)
(*                                                                         *)
(* A file stands for the id made of its name and size. How the library     *)
(* merges and stores a page is the business of ReaderLibrary; here a saved *)
(* page is taken. showModal on a dialog that is already modal does         *)
(* nothing, as the HTML standard has it.                                   *)
(***************************************************************************)
EXTENDS Integers, FiniteSets

CONSTANTS
  File,      \* local comic files
  Pages,     \* Pages[f]: images in f
  MaxPlace,  \* bound of the model: the largest page the reader types in
  MaxLoads   \* bound of the model: page loads and closings of one session

NoFile == "none"
NoImage == [file |-> NoFile, page |-> 0]

ASSUME FileAssumption == NoFile \notin File /\ Pages \in [File -> Nat \ {0}]
ASSUME BoundAssumption == MaxPlace \in Nat /\ MaxLoads \in Nat

VARIABLES
  opening,  \* files being opened: [file, stage]
  cbzFile,
  cbzIndex,
  cbzEntryId,
  cbzLoadId,
  loads,    \* pages being decoded: [id, file, page]
  shown,    \* the image on the screen: [file, page] or NoImage
  dialog,   \* is the viewer open?
  listed,   \* files with a book in the library
  place,    \* the page of each book, counted from 1; 0 is none
  known,    \* history: pages that were shown, or typed in by the reader
  wanted    \* history: the page asked for last, or NoImage if it failed

vars == <<opening, cbzFile, cbzIndex, cbzEntryId, cbzLoadId, loads, shown, dialog,
          listed, place, known, wanted>>
viewer == <<cbzFile, cbzIndex, cbzEntryId, cbzLoadId, loads, shown, dialog, wanted>>
library == <<listed, place, known>>

Opening == [file: File, stage: {"scanning", "adding"}]
Load == [id: Nat, file: File, page: Nat]

TypeOK ==
  /\ opening \subseteq Opening
  /\ cbzFile \in File \cup {NoFile} /\ cbzEntryId \in File \cup {NoFile}
  /\ cbzIndex \in Nat
  /\ cbzFile # NoFile => cbzIndex < Pages[cbzFile]
  /\ cbzLoadId \in Nat
  /\ loads \subseteq Load /\ \A l \in loads : l.page < Pages[l.file]
  /\ shown \in [file: File, page: Nat] \cup {NoImage}
  /\ dialog \in BOOLEAN
  /\ listed \subseteq File
  /\ place \in [File -> Nat]
  /\ known \subseteq File \X Nat
  /\ wanted \in [file: File, page: Nat] \cup {NoImage}

-----------------------------------------------------------------------------
(* The reader chooses a file; scanCbz starts.                              *)
Choose(f) ==
  /\ Cardinality(opening) < 2
  /\ opening' = opening \cup {[file |-> f, stage |-> "scanning"]}
  /\ UNCHANGED <<viewer, library>>

(* scanCbz, or adding the book, fails: only a message.                     *)
OpenFails(o) ==
  /\ opening' = opening \ {o}
  /\ UNCHANGED <<viewer, library>>

(* A file without a book gets one, and the rest waits for it to be saved.  *)
AddBook(o) ==
  /\ o.stage = "scanning" /\ o.file \notin listed
  /\ opening' = (opening \ {o}) \cup {[o EXCEPT !.stage = "adding"]}
  /\ listed' = listed \cup {o.file}
  /\ place' = [place EXCEPT ![o.file] = 0]
  /\ UNCHANGED <<viewer, known>>

(* Mutant: the saved page is trusted.                                      *)
StartIndex_Unclamped(f) == IF f \in listed /\ place[f] > 0 THEN place[f] - 1 ELSE 0

(* Where a file opens: at the page of its book, if the file has that page. *)
StartIndex(f) ==
  LET saved == IF f \in listed /\ place[f] > 0 THEN place[f] - 1 ELSE 0
  IN IF saved < Pages[f] THEN saved ELSE Pages[f] - 1

(* showCbzPage, up to the decoding of the page; a page that the file does  *)
(* not have is ignored.                                                    *)
ShowCbzPage(f, p) ==
  IF p \in 0..(Pages[f] - 1)
  THEN /\ cbzLoadId < MaxLoads
       /\ cbzLoadId' = cbzLoadId + 1
       /\ loads' = loads \cup {[id |-> cbzLoadId', file |-> f, page |-> p]}
       /\ wanted' = [file |-> f, page |-> p]
  ELSE UNCHANGED <<cbzLoadId, loads, wanted>>

OpenViewer(o) ==
  /\ o.stage = "adding" \/ o.file \in listed
  /\ opening' = opening \ {o}
  /\ cbzFile' = o.file
  /\ cbzEntryId' = o.file
  /\ cbzIndex' = StartIndex(o.file)
  /\ dialog' = TRUE
  /\ ShowCbzPage(o.file, cbzIndex')
  /\ UNCHANGED <<shown, library>>

(* Previous, Next and the arrow keys.                                      *)
Turn(step) ==
  /\ dialog /\ cbzFile # NoFile
  /\ ShowCbzPage(cbzFile, cbzIndex + step)
  /\ UNCHANGED <<opening, cbzFile, cbzIndex, cbzEntryId, shown, dialog, library>>

(* Mutant: cbzLoadId is not compared.                                      *)
Superseded_Never(l) == FALSE

(* A later request, or closing the viewer, supersedes a load.              *)
Superseded(l) == l.id # cbzLoadId

PageDecoded(l) ==
  /\ loads' = loads \ {l}
  /\ IF Superseded(l)
     THEN UNCHANGED <<shown, cbzIndex, library>>
     ELSE /\ shown' = [file |-> l.file, page |-> l.page]
          /\ cbzIndex' = l.page
          /\ known' = known \cup {<<l.file, l.page + 1>>}
          /\ place' = IF cbzEntryId \in listed
                      THEN [place EXCEPT ![cbzEntryId] = l.page + 1] ELSE place
          /\ UNCHANGED listed
  /\ UNCHANGED <<opening, cbzFile, cbzEntryId, cbzLoadId, dialog, wanted>>

PageFails(l) ==
  /\ loads' = loads \ {l}
  /\ wanted' = IF Superseded(l) THEN wanted ELSE NoImage
  /\ UNCHANGED <<opening, cbzFile, cbzIndex, cbzEntryId, cbzLoadId, shown, dialog, library>>

(* Mutant: closing leaves the load that runs in charge.                    *)
Close_KeepsLoad ==
  /\ dialog /\ cbzLoadId < MaxLoads
  /\ dialog' = FALSE
  /\ shown' = NoImage
  /\ cbzFile' = NoFile
  /\ wanted' = NoImage
  /\ UNCHANGED <<opening, cbzLoadId, cbzIndex, cbzEntryId, loads, library>>

Close ==
  /\ dialog /\ cbzLoadId < MaxLoads
  /\ dialog' = FALSE
  /\ cbzLoadId' = cbzLoadId + 1
  /\ shown' = NoImage
  /\ cbzFile' = NoFile
  /\ wanted' = NoImage
  /\ UNCHANGED <<opening, cbzIndex, cbzEntryId, loads, library>>

(* "Update progress" and "Remove" on the card of a file; the viewer is     *)
(* modal.                                                                  *)
TypePlace(f, p) ==
  /\ ~dialog /\ f \in listed
  /\ place' = [place EXCEPT ![f] = p]
  /\ known' = known \cup {<<f, p>>}
  /\ UNCHANGED <<opening, viewer, listed>>

RemoveBook(f) ==
  /\ ~dialog /\ f \in listed
  /\ listed' = listed \ {f}
  /\ place' = [place EXCEPT ![f] = 0]
  /\ UNCHANGED <<opening, viewer, known>>

-----------------------------------------------------------------------------
Init ==
  /\ opening = {} /\ loads = {}
  /\ cbzFile = NoFile /\ cbzEntryId = NoFile
  /\ cbzIndex = 0 /\ cbzLoadId = 0
  /\ shown = NoImage
  /\ dialog = FALSE
  /\ wanted = NoImage
  /\ listed = {}
  /\ place = [f \in File |-> 0]
  /\ known = {}

Next ==
  \/ \E f \in File : Choose(f) \/ RemoveBook(f) \/ \E p \in 0..MaxPlace : TypePlace(f, p)
  \/ \E o \in opening : OpenFails(o) \/ AddBook(o) \/ OpenViewer(o)
  \/ \E step \in {-1, 1} : Turn(step)
  \/ \E l \in loads : PageDecoded(l) \/ PageFails(l)
  \/ Close

Spec == Init /\ [][Next]_vars

-----------------------------------------------------------------------------
(* Properties.                                                             *)

(* The place a book resumes at is a page of that very file which was on    *)
(* the screen, or which the reader typed in: never a page of another file, *)
(* and never one whose decoding was overtaken or failed.                   *)
PlaceWasKnown == \A f \in File : place[f] > 0 => <<f, place[f]>> \in known

(* An image is on the screen only while the viewer is open.                *)
NothingBehindTheShelf == shown # NoImage => dialog

(* Whatever order the answers come in, the page asked for last is the one  *)
(* that stays on the screen, and the one Previous and Next count from,     *)
(* unless it could not be decoded.                                         *)
LastRequestWins ==
  wanted # NoImage /\ (\A l \in loads : Superseded(l)) =>
    shown = wanted /\ cbzFile = wanted.file /\ cbzIndex = wanted.page
=============================================================================
