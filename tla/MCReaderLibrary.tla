---------------------------- MODULE MCReaderLibrary ----------------------------
(***************************************************************************)
(* Instances of ReaderLibrary. The file of another device has a book       *)
(* without its link, stamped later than this device's clock allows. The    *)
(* Aidoku backup has a second title, which may not fit beside the first.   *)
(***************************************************************************)
EXTENDS ReaderLibrary

Shelved(at, place, linked) == [at |-> at, place |-> place, linked |-> linked]

OneStored == {[Empty EXCEPT !["a"] = Shelved(1, 1, TRUE)]}

OtherDevice == {[Empty EXCEPT !["a"] = Shelved(2, 2, FALSE)]}
NoSnapshots == {}

SecondTitle ==
  {[date |-> 2,
    library |-> [i \in {"b"} |-> [read |-> 1, place |-> 1, opened |-> 2, linked |-> TRUE]]]}
NoBackups == {}
=============================================================================
