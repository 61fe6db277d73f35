--------------------------- MODULE CbzViewerProofs ---------------------------
(***************************************************************************)
(* Theorems about CbzViewer, for any files of any length and any bounds.   *)
(***************************************************************************)
EXTENDS CbzViewer, TLAPS

(* The load that is not superseded, if any, is the page asked for last, of *)
(* the file that is open and whose book takes the page.                    *)
LiveLoad ==
  \A l \in loads :
    /\ l.id <= cbzLoadId
    /\ l.id = cbzLoadId => /\ dialog
                           /\ cbzFile = l.file /\ cbzEntryId = l.file
                           /\ wanted = [file |-> l.file, page |-> l.page]

(* The open file is the one whose book takes the pages.                    *)
OpenFile == cbzFile # NoFile => dialog /\ cbzEntryId = cbzFile

Inv == TypeOK /\ OpenFile /\ LiveLoad /\ PlaceWasKnown /\ NothingBehindTheShelf /\ LastRequestWins

-----------------------------------------------------------------------------
(* A page just loaded has nothing open.                                    *)
LEMMA InitInv == Init => Inv
<1>1. Init => TypeOK
  <2> SUFFICES ASSUME Init PROVE TypeOK
    OBVIOUS
  <2>1. dialog \in BOOLEAN
    BY DEF Init
  <2>2. place \in [File -> Nat]
    BY DEF Init
  <2> QED BY <2>1, <2>2 DEF Init, TypeOK
<1>2. Init => OpenFile /\ LiveLoad /\ PlaceWasKnown /\ NothingBehindTheShelf /\ LastRequestWins
  BY DEF Init, OpenFile, LiveLoad, PlaceWasKnown, NothingBehindTheShelf, LastRequestWins
<1> QED BY <1>1, <1>2 DEF Inv

(* Steps that leave the viewer alone.                                      *)
LEMMA ShelfInv ==
  ASSUME Inv, UNCHANGED viewer, opening' \subseteq Opening, listed' \subseteq File,
         place' \in [File -> Nat], known' \subseteq File \X Nat, PlaceWasKnown'
  PROVE  Inv'
BY DEF Inv, TypeOK, OpenFile, LiveLoad, NothingBehindTheShelf, LastRequestWins, Superseded, viewer

LEMMA OpeningInv ==
  ASSUME Inv, NEW f \in File,
         \/ Choose(f) \/ RemoveBook(f)
         \/ \E p \in 0..MaxPlace : TypePlace(f, p)
         \/ \E o \in opening : OpenFails(o) \/ AddBook(o)
  PROVE  Inv'
<1>0. /\ opening \subseteq Opening /\ listed \subseteq File
      /\ place \in [File -> Nat] /\ known \subseteq File \X Nat /\ PlaceWasKnown
  BY DEF Inv, TypeOK
<1>1. CASE Choose(f)
  <2>1. opening' \subseteq Opening /\ UNCHANGED <<viewer, library>>
    BY <1>0, <1>1 DEF Choose, Opening
  <2> QED BY <1>0, <2>1, ShelfInv DEF library, PlaceWasKnown
<1>2. CASE RemoveBook(f)
  <2>1. /\ UNCHANGED <<opening, viewer, known>>
        /\ listed' \subseteq File /\ place' \in [File -> Nat]
        /\ \A g \in File : place'[g] = place[g] \/ place'[g] = 0
    BY <1>0, <1>2 DEF RemoveBook
  <2> QED BY <1>0, <2>1, ShelfInv DEF PlaceWasKnown
<1>3. ASSUME NEW p \in 0..MaxPlace, TypePlace(f, p) PROVE Inv'
  <2>1. p \in Nat
    BY BoundAssumption
  <2>2. /\ UNCHANGED <<opening, viewer, listed>>
        /\ place' \in [File -> Nat] /\ known' = known \cup {<<f, p>>}
        /\ \A g \in File : place'[g] = IF g = f THEN p ELSE place[g]
    BY <1>0, <1>3, <2>1 DEF TypePlace
  <2>3. PlaceWasKnown' /\ known' \subseteq File \X Nat
    BY <1>0, <2>1, <2>2 DEF PlaceWasKnown
  <2> QED BY <1>0, <2>2, <2>3, ShelfInv
<1>4. ASSUME NEW o \in opening, OpenFails(o) PROVE Inv'
  <2>1. opening' \subseteq Opening /\ UNCHANGED <<viewer, library>>
    BY <1>0, <1>4 DEF OpenFails
  <2> QED BY <1>0, <2>1, ShelfInv DEF library, PlaceWasKnown
<1>5. ASSUME NEW o \in opening, AddBook(o) PROVE Inv'
  <2>1. o \in Opening
    BY <1>0
  <2>2. opening' \subseteq Opening
    BY <1>0, <1>5, <2>1 DEF AddBook, Opening
  <2>3. /\ UNCHANGED <<viewer, known>>
        /\ listed' \subseteq File /\ place' \in [File -> Nat]
        /\ \A g \in File : place'[g] = place[g] \/ place'[g] = 0
    BY <1>0, <1>5, <2>1 DEF AddBook, Opening
  <2> QED BY <1>0, <2>2, <2>3, ShelfInv DEF PlaceWasKnown
<1> QED BY <1>1, <1>2, <1>3, <1>4, <1>5

(* A page is asked for.                                                    *)
LEMMA ShowInv ==
  ASSUME Inv, NEW f \in File, NEW p \in 0..(Pages[f] - 1), ShowCbzPage(f, p),
         dialog' = TRUE, cbzFile' = f, cbzEntryId' = f,
         cbzIndex' \in 0..(Pages[f] - 1),
         opening' \subseteq Opening, UNCHANGED <<shown, library>>
  PROVE  Inv'
<1>1. /\ Pages[f] \in Nat \ {0} /\ p \in Nat /\ p < Pages[f]
      /\ cbzIndex' \in Nat /\ cbzIndex' < Pages[f]
  BY FileAssumption DEF ShowCbzPage
<1>2. /\ cbzLoadId \in Nat /\ cbzLoadId' = cbzLoadId + 1
      /\ loads' = loads \cup {[id |-> cbzLoadId + 1, file |-> f, page |-> p]}
      /\ wanted' = [file |-> f, page |-> p]
  BY DEF Inv, TypeOK, ShowCbzPage
<1>3. \A l \in loads : l \in Load /\ l.page < Pages[l.file] /\ l.id <= cbzLoadId
  BY DEF Inv, TypeOK, LiveLoad
<1>4. loads' \subseteq Load /\ \A l \in loads' : l.page < Pages[l.file]
  BY <1>1, <1>2, <1>3 DEF Load
<1>5. wanted' \in [file: File, page: Nat]
  BY <1>1, <1>2
<1>6. TypeOK'
  BY <1>1, <1>2, <1>4, <1>5 DEF Inv, TypeOK, library
<1>7. LiveLoad'
  BY <1>2, <1>3 DEF LiveLoad, Load
<1>8. LastRequestWins'
  <2>1. \E l \in loads' : l.id = cbzLoadId'
    <3> DEFINE l == [id |-> cbzLoadId + 1, file |-> f, page |-> p]
    <3>1. l \in loads' /\ l.id = cbzLoadId'
      BY <1>2
    <3> QED BY <3>1
  <2> QED BY <2>1 DEF LastRequestWins, Superseded
<1>9. PlaceWasKnown' /\ NothingBehindTheShelf' /\ OpenFile'
  BY DEF Inv, OpenFile, PlaceWasKnown, NothingBehindTheShelf, library
<1> QED BY <1>6, <1>7, <1>8, <1>9 DEF Inv

(* A file opens within its pages.                                          *)
LEMMA OpenViewerInv ==
  ASSUME Inv, NEW o \in opening, OpenViewer(o)
  PROVE  Inv'
<1>1. o.file \in File /\ opening' \subseteq Opening
  BY DEF Inv, TypeOK, OpenViewer, Opening
<1>2. StartIndex(o.file) \in 0..(Pages[o.file] - 1)
  BY <1>1, FileAssumption DEF Inv, TypeOK, StartIndex
<1> QED BY <1>1, <1>2, ShowInv DEF OpenViewer

(* Also a turn past either end of the file.                                *)
LEMMA StutterInv ==
  ASSUME Inv, UNCHANGED vars
  PROVE  Inv'
BY DEF vars, Inv, TypeOK, OpenFile, LiveLoad, PlaceWasKnown, NothingBehindTheShelf,
       LastRequestWins, Superseded

(* Turning leaves the file; an end of it is ignored.                       *)
LEMMA TurnInv ==
  ASSUME Inv, NEW step \in {-1, 1}, Turn(step)
  PROVE  Inv'
<1>1. /\ dialog = TRUE /\ cbzFile \in File /\ cbzEntryId = cbzFile
      /\ ShowCbzPage(cbzFile, cbzIndex + step)
      /\ UNCHANGED <<opening, cbzFile, cbzIndex, cbzEntryId, shown, dialog, library>>
  BY DEF Turn, Inv, TypeOK, OpenFile
<1>2. cbzIndex \in 0..(Pages[cbzFile] - 1) /\ opening \subseteq Opening
  BY <1>1, FileAssumption DEF Inv, TypeOK
<1>3. /\ dialog' = TRUE /\ cbzFile' = cbzFile /\ cbzEntryId' = cbzFile
      /\ cbzIndex' = cbzIndex /\ opening' = opening /\ UNCHANGED <<shown, library>>
  BY <1>1
<1>4. CASE cbzIndex + step \in 0..(Pages[cbzFile] - 1)
  BY <1>1, <1>2, <1>3, <1>4, ShowInv
<1>5. CASE cbzIndex + step \notin 0..(Pages[cbzFile] - 1)
  <2>1. UNCHANGED vars
    BY <1>1, <1>5 DEF ShowCbzPage, vars, library
  <2> QED BY <2>1, StutterInv
<1> QED BY <1>4, <1>5

(* An answer comes, or none will.                                          *)
LEMMA AnswerInv ==
  ASSUME Inv, NEW l \in loads, PageDecoded(l) \/ PageFails(l)
  PROVE  Inv'
<1>0. /\ l \in Load /\ l.page < Pages[l.file]
      /\ loads' = loads \ {l}
      /\ UNCHANGED <<opening, cbzFile, cbzEntryId, cbzLoadId, dialog>>
  BY DEF Inv, TypeOK, PageDecoded, PageFails
<1>1. CASE Superseded(l) \/ PageFails(l)
  <2>1. /\ UNCHANGED <<shown, cbzIndex, library>>
        /\ wanted' = wanted \/ (~Superseded(l) /\ wanted' = NoImage)
        /\ Superseded(l) => wanted' = wanted
    BY <1>1 DEF PageDecoded, PageFails, library
  <2>2. TypeOK' /\ OpenFile'
    BY <1>0, <2>1 DEF Inv, TypeOK, OpenFile, library
  <2>3. CASE Superseded(l)
    BY <1>0, <2>1, <2>2, <2>3
    DEF Inv, TypeOK, LiveLoad, PlaceWasKnown, NothingBehindTheShelf, LastRequestWins, Superseded, library
  <2>4. CASE ~Superseded(l)
    <3>1. \A k \in loads : k.id = cbzLoadId => k = l
      <4> SUFFICES ASSUME NEW k \in loads, k.id = cbzLoadId PROVE k = l
        OBVIOUS
      <4>1. k.file = l.file /\ k.page = l.page /\ k.id = l.id
        BY <2>4 DEF Inv, LiveLoad, Superseded
      <4>2. k \in Load
        BY DEF Inv, TypeOK
      <4> QED BY <1>0, <4>1, <4>2 DEF Load
    <3>2. wanted' = NoImage
      BY <1>1, <2>4 DEF PageFails
    <3> QED BY <1>0, <2>1, <2>2, <3>1, <3>2
        DEF Inv, LiveLoad, PlaceWasKnown, NothingBehindTheShelf, LastRequestWins, library
  <2> QED BY <2>3, <2>4
<1>2. CASE ~Superseded(l) /\ PageDecoded(l)
  <2>1. /\ dialog /\ cbzFile = l.file /\ cbzEntryId = l.file
        /\ wanted = [file |-> l.file, page |-> l.page]
    BY <1>2 DEF Inv, LiveLoad, Superseded
  <2>2. /\ shown' = [file |-> l.file, page |-> l.page]
        /\ cbzIndex' = l.page
        /\ known' = known \cup {<<l.file, l.page + 1>>}
        /\ place' = IF cbzEntryId \in listed
                    THEN [place EXCEPT ![cbzEntryId] = l.page + 1] ELSE place
        /\ UNCHANGED <<listed, wanted>>
    BY <1>2 DEF PageDecoded
  <2>3. l.file \in File /\ l.page \in Nat /\ l.page + 1 \in Nat
    BY <1>0 DEF Load
  <2>4. TypeOK' /\ OpenFile'
    BY <1>0, <2>1, <2>2, <2>3 DEF Inv, TypeOK, OpenFile
  <2>5. PlaceWasKnown'
    BY <2>1, <2>2, <2>3 DEF Inv, TypeOK, PlaceWasKnown
  <2>6. LiveLoad' /\ NothingBehindTheShelf' /\ LastRequestWins'
    BY <1>0, <2>1, <2>2 DEF Inv, LiveLoad, NothingBehindTheShelf, LastRequestWins
  <2> QED BY <2>4, <2>5, <2>6 DEF Inv
<1> QED BY <1>1, <1>2

(* Closing supersedes every load.                                          *)
LEMMA CloseInv ==
  ASSUME Inv, Close
  PROVE  Inv'
<1>1. /\ dialog' = FALSE /\ shown' = NoImage /\ cbzFile' = NoFile /\ wanted' = NoImage
      /\ cbzLoadId \in Nat /\ cbzLoadId' = cbzLoadId + 1
      /\ UNCHANGED <<opening, cbzIndex, cbzEntryId, loads, library>>
  BY DEF Close, Inv, TypeOK
<1>2. TypeOK'
  <2>1. dialog' \in BOOLEAN
    BY <1>1
  <2> QED BY <1>1, <2>1 DEF Inv, TypeOK, library
<1>3. LiveLoad'
  <2>1. \A l \in loads : l.id \in Nat /\ l.id <= cbzLoadId
    BY DEF Inv, TypeOK, LiveLoad, Load
  <2> QED BY <1>1, <2>1 DEF LiveLoad
<1> QED BY <1>1, <1>2, <1>3
    DEF Inv, OpenFile, PlaceWasKnown, NothingBehindTheShelf, LastRequestWins, library

(* Every step.                                                             *)
LEMMA StepInv == Inv /\ [Next]_vars => Inv'
<1> SUFFICES ASSUME Inv, [Next]_vars PROVE Inv'
  OBVIOUS
<1>1. CASE Next
  <2>1. ASSUME NEW f \in File, Choose(f) \/ RemoveBook(f) \/ \E p \in 0..MaxPlace : TypePlace(f, p)
        PROVE  Inv'
    BY <2>1, OpeningInv
  <2>2. ASSUME NEW o \in opening, OpenFails(o) \/ AddBook(o) PROVE Inv'
    <3>1. o.file \in File
      BY DEF Inv, TypeOK, Opening
    <3> QED BY <2>2, <3>1, OpeningInv
  <2> QED BY <1>1, <2>1, <2>2, OpenViewerInv, TurnInv, AnswerInv, CloseInv DEF Next
<1>2. CASE UNCHANGED vars
  BY <1>2, StutterInv
<1> QED BY <1>1, <1>2

-----------------------------------------------------------------------------
(* Theorems.                                                               *)

(* The inductive invariant: at most one load counts, it belongs to the     *)
(* open file, and that file's book takes its page.                         *)
THEOREM ViewerInvariant == Spec => []Inv
BY InitInv, StepInv, PTL DEF Spec

(* The viewer's variables keep their types, and its index stays within the *)
(* open file, whatever page its book says (cbzFile's change handler).      *)
THEOREM TypeCorrect == Spec => []TypeOK
<1>1. Inv => TypeOK
  BY DEF Inv
<1> QED BY <1>1, ViewerInvariant, PTL

(* No file's book ever gets a page that was not on the screen for it, or   *)
(* typed in (showCbzPage).                                                 *)
THEOREM PlacesAreKnown == Spec => []PlaceWasKnown
<1>1. Inv => PlaceWasKnown
  BY DEF Inv
<1> QED BY <1>1, ViewerInvariant, PTL

(* A closed viewer shows nothing, however late a page comes (the close     *)
(* handler of cbzDialog).                                                  *)
THEOREM ClosedShowsNothing == Spec => []NothingBehindTheShelf
<1>1. Inv => NothingBehindTheShelf
  BY DEF Inv
<1> QED BY <1>1, ViewerInvariant, PTL

(* The page asked for last is the one that stays (cbzLoadId).              *)
THEOREM LastRequestStays == Spec => []LastRequestWins
<1>1. Inv => LastRequestWins
  BY DEF Inv
<1> QED BY <1>1, ViewerInvariant, PTL
=============================================================================
