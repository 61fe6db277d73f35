--------------------------- MODULE ChapterResumeProofs ---------------------------
(***************************************************************************)
(* Proofs about ChapterResume: for every set of manga, every set of lists  *)
(* the website may serve (of any length), all limits and any movement of   *)
(* the clock.                                                              *)
(***************************************************************************)
EXTENDS ChapterResume, TLAPS

(* A checkpoint holds its first "completed" pages, and, while the website's *)
(* list is still the one it was started from, exactly that prefix of it.    *)
Sound(cp) ==
  /\ cp \in Checkpoint
  /\ Len(cp.pages) = cp.completed
  /\ cp.completed \in 1..cp.total
  /\ IdsOf[cp.pages[1]] = cp.firstIds
  /\ cp.clean =>
       /\ Len(server[cp.manga]) = cp.total
       /\ \A i \in 1..cp.completed : cp.pages[i] = server[cp.manga][i]

SlotSound == \A cp \in slot : Sound(cp)

(* The local checkpoint belongs to the running refresh and agrees with what *)
(* the website answered in it.                                              *)
CheckpointSound ==
  busy => \A cp \in checkpoint :
    /\ Sound(cp)
    /\ cp.manga = target
    /\ \E seen \in announced : seen.head = cp.firstIds /\ seen.total = cp.total

IInv ==
  /\ TypeOK
  /\ SlotSound
  /\ CheckpointSound
  /\ ExactWhenStable
  /\ HeadIsCurrent
  /\ WholeListOnly

-----------------------------------------------------------------------------
(* The page an accepted response carries.                                   *)
LEMMA ResponseType ==
  ASSUME TypeOK, GoodResponse
  PROVE  /\ server[target] \in Seq(Block)
         /\ Total \in Nat
         /\ page \in 1..Total
         /\ server[target][page] \in Block
         /\ server[target][1] \in Block
         /\ 1 <= Total
  BY DEF TypeOK, GoodResponse, Total

(* A checkpoint made from page 1 is sound.                                  *)
LEMMA NewCheckpointSound ==
  ASSUME TypeOK, page = 1, GoodResponse
  PROVE  LET block == server[target][1]
             cp == NewCheckpoint(target, IdsOf[block], Total, block)
         IN  Sound(cp) /\ cp.manga = target /\ cp.firstIds = IdsOf[block] /\ cp.total = Total
<1> DEFINE block == server[target][1]
           cp == NewCheckpoint(target, IdsOf[block], Total, block)
<1>1. /\ block \in Block /\ Total \in Nat /\ 1 <= Total
      /\ target \in Manga /\ now \in Nat
  BY ResponseType DEF TypeOK
<1>2. /\ <<block>> \in Seq(Block) /\ Len(<<block>>) = 1 /\ <<block>>[1] = block
      /\ <<now>> \in Seq(Nat)
  BY <1>1
<1>3. cp \in Checkpoint
  BY <1>1, <1>2 DEF Checkpoint, NewCheckpoint
<1>4. QED
  BY <1>1, <1>2, <1>3 DEF Sound, NewCheckpoint, Total

(* Extending a sound checkpoint by the page the website serves next keeps   *)
(* it sound.                                                                *)
LEMMA AdvanceSound ==
  ASSUME TypeOK, GoodResponse, NEW old, Sound(old), old.manga = target,
         CanAdvance(old, page, Total)
  PROVE  LET cp == Advance(old, page, server[target][page])
         IN  /\ Sound(cp)
             /\ cp.manga = target
             /\ cp.firstIds = old.firstIds
             /\ cp.total = old.total
             /\ cp.total = Total
<1> DEFINE block == server[target][page]
           cp == Advance(old, page, block)
<1>1. /\ block \in Block /\ Total \in Nat /\ page \in 1..Total
      /\ now \in Nat
  BY ResponseType DEF TypeOK
<1>2. /\ old \in Checkpoint
      /\ old.pages \in Seq(Block) /\ Len(old.pages) = old.completed
      /\ old.times \in Seq(Nat)
      /\ old.completed \in Nat /\ old.completed >= 1
      /\ page = old.completed + 1 /\ old.total = Total
      /\ IdsOf[old.pages[1]] = old.firstIds
  BY <1>1 DEF Sound, Checkpoint, CanAdvance
<1>3. /\ cp.pages = Append(old.pages, block) /\ cp.times = Append(old.times, now)
      /\ cp.completed = page /\ cp.updated = now
      /\ cp.manga = old.manga /\ cp.firstIds = old.firstIds
      /\ cp.total = old.total /\ cp.clean = old.clean
  BY <1>2 DEF Advance, Checkpoint
<1>4. /\ Append(old.pages, block) \in Seq(Block) /\ Append(old.times, now) \in Seq(Nat)
      /\ Len(Append(old.pages, block)) = page
      /\ Append(old.pages, block)[page] = block
      /\ \A i \in 1..old.completed : Append(old.pages, block)[i] = old.pages[i]
  BY <1>1, <1>2
<1>5. cp \in Checkpoint
  <2>1. ASSUME NEW ps \in Seq(Block), NEW ts \in Seq(Nat), NEW p \in Nat
        PROVE  [old EXCEPT !.pages = ps, !.times = ts, !.completed = p, !.updated = now]
                 \in Checkpoint
    BY <1>1, <1>2 DEF Checkpoint
  <2>2. page \in Nat
    BY <1>1
  <2>3. QED
    BY <1>4, <2>1, <2>2 DEF Advance
<1> HIDE DEF cp
<1>6. cp.clean => \A i \in 1..cp.completed : cp.pages[i] = server[cp.manga][i]
  <2> SUFFICES ASSUME cp.clean, NEW i \in 1..page
               PROVE  cp.pages[i] = server[target][i]
    BY <1>3
  <2>1. CASE i = page
    BY <2>1, <1>3, <1>4
  <2>2. CASE i # page
    <3>1. i \in 1..old.completed
      BY <2>2, <1>1, <1>2
    <3>2. old.pages[i] = server[target][i]
      BY <3>1, <1>3 DEF Sound
    <3>3. QED
      BY <3>1, <3>2, <1>3, <1>4
  <2>3. QED
    BY <2>1, <2>2
<1>7. IdsOf[cp.pages[1]] = cp.firstIds
  BY <1>2, <1>3, <1>4
<1>8. cp.clean => Len(server[cp.manga]) = cp.total
  BY <1>2, <1>3 DEF Total, Sound
<1>9. Len(cp.pages) = cp.completed /\ cp.completed \in 1..cp.total
  BY <1>1, <1>2, <1>3, <1>4
<1>10. Sound(cp)
  BY <1>5, <1>6, <1>7, <1>8, <1>9 DEF Sound
<1>11. QED
  BY <1>2, <1>3, <1>10 DEF cp

(* A complete sound checkpoint makes a sound result.                        *)
LEMMA ReturnSound ==
  ASSUME TypeOK, NEW cp, Sound(cp), IsComplete(cp), NEW seen \in Seen,
         seen.head = cp.firstIds, seen.total = cp.total
  PROVE  LET r == [manga |-> cp.manga, pages |-> cp.pages, clean |-> cp.clean,
                   head |-> seen.head, total |-> seen.total]
         IN  /\ r \in Result
             /\ r.clean => r.pages = server[r.manga]
             /\ IdsOf[r.pages[1]] = r.head
             /\ Len(r.pages) = r.total
<1>1. /\ cp \in Checkpoint
      /\ cp.pages \in Seq(Block) /\ Len(cp.pages) = cp.total
      /\ server[cp.manga] \in Seq(Block)
      /\ cp.manga \in Manga /\ cp.clean \in BOOLEAN
      /\ seen.head \in {IdsOf[b] : b \in Block} /\ seen.total \in Nat
  BY DEF Sound, Checkpoint, IsComplete, TypeOK, Seen
<1>2. ASSUME cp.clean PROVE cp.pages = server[cp.manga]
  <2>1. Len(server[cp.manga]) = Len(cp.pages)
    BY <1>1, <1>2 DEF Sound
  <2>2. \A i \in 1..Len(cp.pages) : cp.pages[i] = server[cp.manga][i]
    BY <1>1, <1>2 DEF Sound
  <2>3. QED
    BY <1>1, <2>1, <2>2
<1>3. QED
  BY <1>1, <1>2 DEF Result, Sound, Checkpoint

-----------------------------------------------------------------------------
LEMMA InitEstablishesIInv == Init => IInv
<1> SUFFICES ASSUME Init PROVE IInv
  OBVIOUS
<1>1. \A m \in Manga : server[m] \in Seq(Block) \ {<< >>}
  BY ChapterAssumption DEF Init
<1>2. server \in [Manga -> Seq(Block) \ {<< >>}]
  BY <1>1 DEF Init
<1>3. TypeOK
  <2>1. /\ now = 0 /\ page = 1 /\ busy = FALSE /\ target \in Manga
        /\ slot = {} /\ checkpoint = {} /\ announced = {} /\ result = {}
    BY DEF Init
  <2>2. ASSUME NEW option, option = {}
        PROVE  AtMostOne(option) /\ \A S : option \subseteq S
    BY <2>2 DEF AtMostOne
  <2>3. now \in Nat /\ page \in Nat \ {0}
    BY <2>1
  <2>4. busy \in BOOLEAN
    BY <2>1, Zenon
  <2>5. QED
    BY ONLY <1>2, <2>1, <2>2, <2>3, <2>4 DEF TypeOK
<1>4. QED
  BY <1>3 DEF Init, IInv, SlotSound, CheckpointSound, ExactWhenStable, HeadIsCurrent,
              WholeListOnly

(* What the outcome of a page must satisfy for the next state to be sound:  *)
(* shared by ResumeSaved, FetchFirst and FetchNext.                         *)
LEMMA OutcomePreservesIInv ==
  ASSUME IInv, NEW cp, Sound(cp), cp.manga = target,
         NEW seen \in Seen, seen.head = cp.firstIds, seen.total = cp.total,
         announced' = {seen},
         slot' \subseteq slot \cup {cp}, AtMostOne(slot'),
         UNCHANGED <<server, now>>,
         \/ IsComplete(cp) /\ Return(cp, seen)
         \/ /\ page' \in Nat \ {0}
            /\ checkpoint' = {cp}
            /\ UNCHANGED <<busy, target, result>>
  PROVE  IInv'
<1>1. cp \in Checkpoint
  BY DEF Sound
<1>2. \A c : Sound(c) => Sound(c)'
  BY DEF Sound
<1>3. SlotSound'
  BY <1>2 DEF IInv, SlotSound
<1>4. CASE IsComplete(cp) /\ Return(cp, seen)
  <2> DEFINE r == [manga |-> cp.manga, pages |-> cp.pages, clean |-> cp.clean,
                   head |-> seen.head, total |-> seen.total]
  <2>1. /\ result' = {r} /\ busy' = FALSE
        /\ UNCHANGED <<target, page, checkpoint>>
    BY <1>4 DEF Return
  <2>2. /\ r \in Result
        /\ r.clean => r.pages = server[r.manga]
        /\ IdsOf[r.pages[1]] = r.head
        /\ Len(r.pages) = r.total
    BY <1>4, ReturnSound DEF IInv
  <2> HIDE DEF r
  <2>5. CheckpointSound'
    BY <2>1 DEF CheckpointSound
  <2>3. TypeOK'
    BY <2>1, <2>2, <1>1 DEF IInv, TypeOK, AtMostOne
  <2>4. ExactWhenStable' /\ HeadIsCurrent' /\ WholeListOnly'
    BY <2>1, <2>2 DEF ExactWhenStable, HeadIsCurrent, WholeListOnly
  <2>6. QED
    BY <1>3, <2>3, <2>4, <2>5 DEF IInv
<1>5. CASE /\ page' \in Nat \ {0}
           /\ checkpoint' = {cp}
           /\ UNCHANGED <<busy, target, result>>
  <2>1. TypeOK'
    BY <1>1, <1>5 DEF IInv, TypeOK, AtMostOne
  <2>2. CheckpointSound'
    BY <1>2, <1>5 DEF CheckpointSound
  <2>3. ExactWhenStable' /\ HeadIsCurrent' /\ WholeListOnly'
    BY <1>5 DEF IInv, ExactWhenStable, HeadIsCurrent, WholeListOnly
  <2>4. QED
    BY <1>3, <2>1, <2>2, <2>3 DEF IInv
<1>6. QED
  BY <1>4, <1>5

LEMMA ResumeSavedPreservesIInv == IInv /\ ResumeSaved => IInv'
<1> SUFFICES ASSUME IInv, ResumeSaved PROVE IInv'
  OBVIOUS
<1> DEFINE ids == IdsOf[server[target][1]]
           seen == [head |-> ids, total |-> Total]
<1>1. PICK cp \in slot :
        /\ Resumable(cp, target, ids, Total)
        /\ announced' = {seen}
        /\ \/ IsComplete(cp) /\ Return(cp, seen)
           \/ /\ ~IsComplete(cp)
              /\ page' = cp.completed + 1
              /\ checkpoint' = {cp}
              /\ UNCHANGED <<busy, target, result>>
  BY DEF ResumeSaved
<1>2. /\ GoodResponse /\ TypeOK
      /\ UNCHANGED <<server, now, slot>>
  BY DEF ResumeSaved, IInv
<1>3. seen \in Seen /\ seen.head = ids /\ seen.total = Total
  BY <1>2, ResponseType DEF Seen
<1>4. /\ Sound(cp) /\ cp.manga = target
      /\ cp.firstIds = ids /\ cp.total = Total
      /\ cp.completed + 1 \in Nat \ {0}
  <2>1. Sound(cp)
    BY DEF IInv, SlotSound
  <2>2. cp.manga = target /\ cp.firstIds = ids /\ cp.total = Total
    BY <1>1 DEF Resumable
  <2>3. cp.completed \in Nat
    BY <2>1 DEF Sound, Checkpoint
  <2>4. QED
    BY <2>1, <2>2, <2>3
<1>5. slot' \subseteq slot \cup {cp} /\ AtMostOne(slot')
  BY <1>2 DEF TypeOK
<1> HIDE DEF seen, ids
<1>6. QED
  BY <1>1, <1>2, <1>3, <1>4, <1>5, OutcomePreservesIInv

LEMMA SaveIsSingle ==
  ASSUME NEW cp, Save(cp)
  PROVE  slot' \subseteq {cp} /\ AtMostOne(slot')
  BY DEF Save, AtMostOne

LEMMA FetchFirstPreservesIInv == IInv /\ FetchFirst => IInv'
<1> SUFFICES ASSUME IInv, FetchFirst PROVE IInv'
  OBVIOUS
<1> DEFINE block == server[target][1]
           ids == IdsOf[block]
           seen == [head |-> ids, total |-> Total]
           cp == NewCheckpoint(target, ids, Total, block)
<1>1. /\ page = 1 /\ GoodResponse /\ TypeOK
      /\ announced' = {seen}
      /\ Save(cp)
      /\ Continue(cp, seen)
      /\ UNCHANGED <<server, now>>
  BY DEF FetchFirst, IInv
<1>2. seen \in Seen /\ seen.head = ids /\ seen.total = Total
  BY <1>1, ResponseType DEF Seen
<1>3. Sound(cp) /\ cp.manga = target /\ cp.firstIds = ids /\ cp.total = Total
  BY <1>1, NewCheckpointSound
<1>4. page + 1 \in Nat \ {0}
  BY <1>1
<1> HIDE DEF seen, cp, ids
<1>5. slot' \subseteq slot \cup {cp} /\ AtMostOne(slot')
  BY <1>1, SaveIsSingle
<1>6. QED
  BY <1>1, <1>2, <1>3, <1>4, <1>5, OutcomePreservesIInv DEF Continue

LEMMA FetchNextPreservesIInv == IInv /\ FetchNext => IInv'
<1> SUFFICES ASSUME IInv, FetchNext PROVE IInv'
  OBVIOUS
<1> DEFINE block == server[target][page]
<1>1. PICK old \in checkpoint, before \in announced :
        /\ CanAdvance(old, page, Total)
        /\ announced' = {[before EXCEPT !.total = Total]}
        /\ Save(Advance(old, page, block))
        /\ Continue(Advance(old, page, block), [before EXCEPT !.total = Total])
  BY DEF FetchNext
<1> DEFINE cp == Advance(old, page, block)
           seen == [before EXCEPT !.total = Total]
<1>2. /\ busy /\ page > 1 /\ GoodResponse /\ TypeOK
      /\ UNCHANGED <<server, now>>
  BY DEF FetchNext, IInv
<1>3. /\ Sound(old) /\ old.manga = target
      /\ before \in Seen /\ before.head = old.firstIds
  BY <1>2 DEF IInv, CheckpointSound, TypeOK, AtMostOne
<1>4. /\ Sound(cp) /\ cp.manga = target /\ cp.firstIds = old.firstIds
      /\ cp.total = old.total /\ cp.total = Total
  BY <1>1, <1>2, <1>3, AdvanceSound
<1>5. seen \in Seen /\ seen.head = before.head /\ seen.total = Total
  BY <1>2, <1>3, ResponseType DEF Seen
<1>6. page + 1 \in Nat \ {0}
  BY <1>2 DEF TypeOK
<1>7. Save(cp) /\ Continue(cp, seen) /\ announced' = {seen}
  BY <1>1
<1> HIDE DEF seen, cp
<1>8. slot' \subseteq slot \cup {cp} /\ AtMostOne(slot')
  BY <1>7, SaveIsSingle
<1>9. QED
  BY <1>2, <1>3, <1>4, <1>5, <1>6, <1>7, <1>8, OutcomePreservesIInv DEF Continue

(* Soundness of checkpoints and results only reads the website's list.      *)
LEMMA FramePreservesSoundness ==
  ASSUME IInv, server' = server
  PROVE  /\ \A cp : Sound(cp) => Sound(cp)'
         /\ slot' \subseteq slot => SlotSound'
         /\ result' \subseteq result => ExactWhenStable' /\ HeadIsCurrent' /\ WholeListOnly'
<1>1. \A cp : Sound(cp) => Sound(cp)'
  BY DEF Sound
<1>2. QED
  BY <1>1 DEF IInv, SlotSound, ExactWhenStable, HeadIsCurrent, WholeListOnly

LEMMA StartRefreshPreservesIInv ==
  ASSUME IInv, NEW m \in Manga, StartRefresh(m)
  PROVE  IInv'
<1>1. TypeOK'
  BY DEF IInv, TypeOK, StartRefresh, AtMostOne
<1>2. CheckpointSound'
  BY DEF StartRefresh, CheckpointSound
<1>3. QED
  BY <1>1, <1>2, FramePreservesSoundness DEF IInv, StartRefresh

LEMMA GivingUpPreservesIInv ==
  ASSUME IInv, Bail \/ Interrupt
  PROVE  IInv'
<1>1. /\ busy' = FALSE
      /\ UNCHANGED <<server, now, slot, target, page, checkpoint, announced, result>>
  BY DEF Bail, Interrupt
<1>2. TypeOK'
  BY <1>1 DEF IInv, TypeOK, AtMostOne
<1>3. CheckpointSound'
  BY <1>1 DEF CheckpointSound
<1>4. QED
  BY <1>1, <1>2, <1>3, FramePreservesSoundness DEF IInv

LEMMA ResetPreservesIInv == IInv /\ ResetChapterCache => IInv'
<1> SUFFICES ASSUME IInv, ResetChapterCache PROVE IInv'
  OBVIOUS
<1>1. /\ ~busy /\ slot' = {}
      /\ UNCHANGED <<server, now, result, busy, target, page, checkpoint, announced>>
  BY DEF ResetChapterCache, refreshVars
<1>2. TypeOK'
  BY <1>1 DEF IInv, TypeOK, AtMostOne
<1>3. CheckpointSound'
  BY <1>1 DEF CheckpointSound
<1>4. QED
  BY <1>1, <1>2, <1>3, FramePreservesSoundness DEF IInv

LEMMA TickPreservesIInv == IInv /\ Tick => IInv'
<1> SUFFICES ASSUME IInv, Tick PROVE IInv'
  OBVIOUS
<1>1. UNCHANGED <<server, slot, result, busy, target, page, checkpoint, announced>>
  BY DEF Tick, refreshVars
<1>2. now' \in Nat
  BY DEF Tick, IInv, TypeOK
<1>3. TypeOK'
  BY <1>1, <1>2 DEF IInv, TypeOK, AtMostOne
<1>4. CheckpointSound'
  BY <1>1, FramePreservesSoundness DEF IInv, CheckpointSound
<1>5. QED
  BY <1>1, <1>3, <1>4, FramePreservesSoundness DEF IInv

(* An edit marks what was read from the old list, so nothing sound becomes  *)
(* unsound.                                                                 *)
LEMMA EditPreservesIInv ==
  ASSUME IInv, NEW m \in Manga, Edit(m)
  PROVE  IInv'
<1>1. PICK list \in Lists[m] : server' = [server EXCEPT ![m] = list]
  BY DEF Edit
<1>2. /\ slot' = Edited(slot, m) /\ checkpoint' = Edited(checkpoint, m)
      /\ result' = Edited(result, m)
      /\ UNCHANGED <<now, busy, target, page, announced>>
  BY DEF Edit
<1>3. list \in Seq(Block) \ {<< >>}
  BY ChapterAssumption
<1>4. /\ server' \in [Manga -> Seq(Block) \ {<< >>}]
      /\ \A n \in Manga : n # m => server'[n] = server[n]
  BY <1>1, <1>3 DEF IInv, TypeOK
<1> DEFINE mark(o) == [o EXCEPT !.clean = o.clean /\ o.manga # m]
<1>5. ASSUME NEW cp \in Checkpoint
      PROVE  /\ mark(cp) \in Checkpoint
             /\ mark(cp).manga = cp.manga /\ mark(cp).firstIds = cp.firstIds
             /\ mark(cp).total = cp.total /\ mark(cp).completed = cp.completed
             /\ mark(cp).pages = cp.pages
             /\ mark(cp).clean => cp.clean /\ cp.manga # m
  BY DEF Checkpoint
<1>6. ASSUME NEW r \in Result
      PROVE  /\ mark(r) \in Result
             /\ mark(r).manga = r.manga /\ mark(r).pages = r.pages
             /\ mark(r).head = r.head /\ mark(r).total = r.total
             /\ mark(r).clean => r.clean /\ r.manga # m
  BY DEF Result
<1>7. /\ slot' = {mark(o) : o \in slot} /\ checkpoint' = {mark(o) : o \in checkpoint}
      /\ result' = {mark(o) : o \in result}
  BY <1>2 DEF Edited
<1>8. /\ slot \subseteq Checkpoint /\ checkpoint \subseteq Checkpoint /\ result \subseteq Result
      /\ AtMostOne(slot) /\ AtMostOne(checkpoint) /\ AtMostOne(result)
  BY DEF IInv, TypeOK
<1> HIDE DEF mark
<1>9. ASSUME NEW cp, Sound(cp)
      PROVE  Sound(mark(cp))'
  <2>1. cp \in Checkpoint /\ cp.manga \in Manga
    BY <1>9 DEF Sound, Checkpoint
  <2>2. QED
    BY <1>4, <1>5, <1>9, <2>1 DEF Sound
<1>10. TypeOK'
  BY <1>2, <1>4, <1>5, <1>6, <1>7, <1>8 DEF IInv, TypeOK, AtMostOne
<1>11. SlotSound'
  BY <1>7, <1>9 DEF IInv, SlotSound
<1>12. CheckpointSound'
  BY <1>2, <1>5, <1>7, <1>8, <1>9 DEF IInv, CheckpointSound
<1>13. ExactWhenStable' /\ HeadIsCurrent' /\ WholeListOnly'
  <2>1. \A r \in result : r.manga \in Manga
    BY <1>8 DEF Result
  <2>2. QED
    BY <1>4, <1>6, <1>7, <1>8, <2>1
       DEF IInv, ExactWhenStable, HeadIsCurrent, WholeListOnly
<1>14. QED
  BY <1>10, <1>11, <1>12, <1>13 DEF IInv

-----------------------------------------------------------------------------
(* The strengthened invariant of the chapter refresh is inductive.          *)
THEOREM ChapterInvariant == Spec => []IInv
<1>1. Init => IInv
  BY InitEstablishesIInv
<1>2. IInv /\ [Next]_vars => IInv'
  <2> SUFFICES ASSUME IInv, [Next]_vars PROVE IInv'
    OBVIOUS
  <2>1. CASE \E m \in Manga : StartRefresh(m)
    BY <2>1, StartRefreshPreservesIInv
  <2>2. CASE ResumeSaved
    BY <2>2, ResumeSavedPreservesIInv
  <2>3. CASE FetchFirst
    BY <2>3, FetchFirstPreservesIInv
  <2>4. CASE FetchNext
    BY <2>4, FetchNextPreservesIInv
  <2>5. CASE Bail \/ Interrupt
    BY <2>5, GivingUpPreservesIInv
  <2>6. CASE ResetChapterCache
    BY <2>6, ResetPreservesIInv
  <2>7. CASE \E m \in Manga : Edit(m)
    BY <2>7, EditPreservesIInv
  <2>8. CASE Tick
    BY <2>8, TickPreservesIInv
  <2>9. CASE UNCHANGED vars
    <3>1. UNCHANGED <<server, now, slot, busy, target, page, checkpoint, announced, result>>
      BY <2>9 DEF vars
    <3>2. TypeOK' /\ CheckpointSound'
      BY <3>1, FramePreservesSoundness DEF IInv, TypeOK, AtMostOne, CheckpointSound
    <3>3. QED
      BY <3>1, <3>2, FramePreservesSoundness DEF IInv
  <2>10. QED
    BY <2>1, <2>2, <2>3, <2>4, <2>5, <2>6, <2>7, <2>8, <2>9 DEF Next, Refresh
<1>3. QED
  BY <1>1, <1>2, PTL DEF Spec

(* Checkpoints and refreshes keep their types.                             *)
THEOREM TypeCorrect == Spec => []TypeOK
<1>1. IInv => TypeOK
  BY DEF IInv
<1> QED
  BY <1>1, ChapterInvariant, PTL

(* While the website's list of a manga does not change, whatever refreshes  *)
(* and interruptions assembled the list handed over, it is the website's.   *)
THEOREM ListsAreExact == Spec => []ExactWhenStable
<1>1. IInv => ExactWhenStable
  BY DEF IInv
<1>2. QED
  BY <1>1, ChapterInvariant, PTL

(* The first page handed over has the ids answered in this very refresh.    *)
THEOREM HeadsAreCurrent == Spec => []HeadIsCurrent
<1>1. IInv => HeadIsCurrent
  BY DEF IInv
<1>2. QED
  BY <1>1, ChapterInvariant, PTL

(* A list is handed over with as many pages as its last response announced. *)
THEOREM ListsAreWhole == Spec => []WholeListOnly
<1>1. IInv => WholeListOnly
  BY DEF IInv
<1>2. QED
  BY <1>1, ChapterInvariant, PTL

-----------------------------------------------------------------------------
(* No saved page is lost while it may be resumed.                           *)

(* A running refresh requests the page after its checkpoint, and what is    *)
(* saved is that checkpoint: only a refresh writes the one slot, and one    *)
(* refresh runs at a time.                                                  *)
SavedIsCurrent ==
  busy => /\ checkpoint = {} => page = 1
          /\ \A cp \in checkpoint :
               /\ page = cp.completed + 1
               /\ slot = IF Len(cp.pages) <= StoredPages THEN {cp} ELSE {}

(* What is saved fits in the setting.                                       *)
SavedFits == \A cp \in slot : Len(cp.pages) <= StoredPages

(* Once a page was fetched and added: shared by FetchFirst and FetchNext.   *)
LEMMA SavingKeepsCurrent ==
  ASSUME NEW cp, NEW seen, Save(cp), Continue(cp, seen), page + 1 = cp.completed + 1
  PROVE  SavedIsCurrent' /\ SavedFits'
<1>1. CASE IsComplete(cp) /\ Return(cp, seen)
  BY <1>1 DEF Return, Save, SavedIsCurrent, SavedFits
<1>2. CASE page' = page + 1 /\ checkpoint' = {cp}
  BY <1>2 DEF Save, SavedIsCurrent, SavedFits
<1>3. QED
  BY <1>1, <1>2 DEF Continue

LEMMA SavedStaysCurrent ==
  ASSUME IInv, SavedIsCurrent, SavedFits, [Next]_vars
  PROVE  SavedIsCurrent' /\ SavedFits'
<1> USE DEF IInv
<1>1. CASE \E m \in Manga : StartRefresh(m)
  BY <1>1 DEF StartRefresh, SavedIsCurrent, SavedFits
<1>2. CASE ResumeSaved
  <2>1. PICK cp \in slot :
          \/ busy' = FALSE
          \/ page' = cp.completed + 1 /\ checkpoint' = {cp}
    BY <1>2 DEF ResumeSaved, Return
  <2>2. slot = {cp} /\ slot' = slot
    BY <1>2 DEF ResumeSaved, TypeOK, AtMostOne
  <2>3. QED
    BY <2>1, <2>2 DEF SavedIsCurrent, SavedFits
<1>3. CASE FetchFirst
  <2> DEFINE cp == NewCheckpoint(target, IdsOf[server[target][1]], Total, server[target][1])
             seen == [head |-> IdsOf[server[target][1]], total |-> Total]
  <2>1. Save(cp) /\ Continue(cp, seen) /\ page = 1
    BY <1>3 DEF FetchFirst
  <2>2. cp.completed = 1
    BY DEF NewCheckpoint
  <2> HIDE DEF cp, seen
  <2>3. QED
    BY <2>1, <2>2, SavingKeepsCurrent
<1>4. CASE FetchNext
  <2>1. PICK old \in checkpoint, before \in announced :
          /\ CanAdvance(old, page, Total)
          /\ Save(Advance(old, page, server[target][page]))
          /\ Continue(Advance(old, page, server[target][page]), [before EXCEPT !.total = Total])
    BY <1>4 DEF FetchNext
  <2> DEFINE cp == Advance(old, page, server[target][page])
             seen == [before EXCEPT !.total = Total]
  <2>2. cp.completed = page
    BY DEF Advance, TypeOK, Checkpoint
  <2>3. Save(cp) /\ Continue(cp, seen)
    BY <2>1
  <2> HIDE DEF cp, seen
  <2>4. QED
    BY <2>2, <2>3, SavingKeepsCurrent
<1>5. CASE Bail \/ Interrupt
  BY <1>5 DEF Bail, Interrupt, SavedIsCurrent, SavedFits
<1>6. CASE ResetChapterCache
  BY <1>6 DEF ResetChapterCache, refreshVars, SavedIsCurrent, SavedFits
<1>7. ASSUME NEW m \in Manga, Edit(m)
      PROVE  SavedIsCurrent' /\ SavedFits'
  <2> DEFINE mark(o) == [o EXCEPT !.clean = o.clean /\ o.manga # m]
  <2>1. /\ slot' = {mark(o) : o \in slot} /\ checkpoint' = {mark(o) : o \in checkpoint}
        /\ UNCHANGED <<busy, page>>
    BY <1>7 DEF Edit, Edited
  <2>2. ASSUME NEW cp \in Checkpoint
        PROVE  mark(cp).pages = cp.pages /\ mark(cp).completed = cp.completed
    BY DEF Checkpoint
  <2>3. slot \subseteq Checkpoint /\ checkpoint \subseteq Checkpoint
    BY DEF TypeOK
  <2> HIDE DEF mark
  <2>4. SavedFits'
    BY <2>1, <2>2, <2>3 DEF SavedFits
  <2>5. ASSUME busy, NEW cp \in checkpoint
        PROVE  /\ page = mark(cp).completed + 1
               /\ slot' = IF Len(mark(cp).pages) <= StoredPages THEN {mark(cp)} ELSE {}
    <3>1. /\ page = cp.completed + 1
          /\ slot = IF Len(cp.pages) <= StoredPages THEN {cp} ELSE {}
      BY <2>5 DEF SavedIsCurrent
    <3>2. mark(cp).pages = cp.pages /\ mark(cp).completed = cp.completed
      BY <2>2, <2>3, <2>5
    <3>3. QED
      BY <2>1, <3>1, <3>2
  <2>6. QED
    BY <2>1, <2>4, <2>5 DEF SavedIsCurrent
<1>8. CASE Tick \/ UNCHANGED vars
  BY <1>8 DEF Tick, refreshVars, vars, SavedIsCurrent, SavedFits
<1>9. QED
  BY <1>1, <1>2, <1>3, <1>4, <1>5, <1>6, <1>7, <1>8 DEF Next, Refresh

(* A sound checkpoint that is still clean and recent is one the refresh of  *)
(* its manga resumes.                                                       *)
LEMMA CleanIsResumable ==
  ASSUME TypeOK, NEW cp, Sound(cp), cp.clean, cp.manga = target, Recent(cp)
  PROVE  Resumable(cp, target, IdsOf[server[target][1]], Total)
<1>1. cp.completed \in Nat /\ cp.total \in Nat /\ 1 \in 1..cp.completed
  BY DEF Sound, Checkpoint
<1>2. cp.pages[1] = server[target][1] /\ Total = cp.total
  BY <1>1 DEF Sound, Total
<1>3. QED
  BY <1>2 DEF Sound, Resumable

(* What a step leaves of the saved pages.                                   *)
LEMMA StepKeepsPages ==
  ASSUME IInv, SavedIsCurrent, [Next]_vars,
         NEW cp \in slot, busy, cp.manga = target, cp.clean, cp.total <= StoredPages, Recent(cp)
  PROVE  /\ \E saved \in slot' :
              /\ saved.manga = cp.manga /\ Len(saved.pages) >= Len(cp.pages)
              /\ \A i \in 1..Len(cp.pages) : saved.pages[i] = cp.pages[i]
         /\ busy' /\ page' # page => page' > Len(cp.pages)
<1> USE DEF IInv
<1>1. /\ Sound(cp) /\ cp \in Checkpoint /\ Len(cp.pages) = cp.completed
      /\ cp.completed \in Nat /\ cp.total \in Nat /\ cp.completed <= cp.total
      /\ cp.pages \in Seq(Block)
  BY DEF SlotSound, Sound, Checkpoint
<1>2. ASSUME slot' = slot, busy' /\ page' # page => page' > Len(cp.pages)
      PROVE  /\ \E saved \in slot' :
                  /\ saved.manga = cp.manga /\ Len(saved.pages) >= Len(cp.pages)
                  /\ \A i \in 1..Len(cp.pages) : saved.pages[i] = cp.pages[i]
             /\ busy' /\ page' # page => page' > Len(cp.pages)
  BY <1>1, <1>2
<1>3. ~ \E m \in Manga : StartRefresh(m)
  BY DEF StartRefresh
<1>4. CASE ResumeSaved
  <2>1. slot' = slot /\ \E c \in slot : busy' = FALSE \/ page' = c.completed + 1
    BY <1>4 DEF ResumeSaved, Return
  <2>2. \A c \in slot : c = cp
    BY DEF TypeOK, AtMostOne
  <2>3. QED
    BY <1>1, <1>2, <2>1, <2>2
<1>5. ~FetchFirst
  BY <1>1, CleanIsResumable DEF FetchFirst
<1>6. CASE FetchNext
  <2>1. PICK old \in checkpoint, before \in announced :
          /\ CanAdvance(old, page, Total)
          /\ Save(Advance(old, page, server[target][page]))
          /\ Continue(Advance(old, page, server[target][page]), [before EXCEPT !.total = Total])
    BY <1>6 DEF FetchNext
  <2>2. old = cp
    BY DEF SavedIsCurrent
  <2> DEFINE block == server[target][page]
             new == Advance(cp, page, block)
  <2>3. block \in Block /\ page = cp.completed + 1 /\ page \in Nat
    BY <1>6, <2>1, <2>2, ResponseType DEF FetchNext, CanAdvance, TypeOK
  <2>4. new.manga = cp.manga /\ new.pages = Append(cp.pages, block)
    BY <1>1 DEF Advance, Checkpoint
  <2> HIDE DEF block
  <2>5. /\ Len(Append(cp.pages, block)) = Len(cp.pages) + 1
        /\ \A i \in 1..Len(cp.pages) : Append(cp.pages, block)[i] = cp.pages[i]
    BY <1>1, <2>3
  <2>6. page <= cp.total
    BY <2>1, <2>2 DEF CanAdvance
  <2>7. slot' = IF Len(new.pages) <= StoredPages THEN {new} ELSE {}
    BY <2>1, <2>2 DEF Save, block
  <2> HIDE DEF new
  <2>8. Len(new.pages) = cp.completed + 1
    BY <1>1, <2>4, <2>5
  <2>9. new \in slot'
    BY <1>1, <2>3, <2>6, <2>7, <2>8, ChapterAssumption
  <2>10. busy' /\ page' # page => page' = page + 1
    BY <2>1 DEF Continue, Return
  <2>11. Len(new.pages) >= Len(cp.pages) /\ \A i \in 1..Len(cp.pages) : new.pages[i] = cp.pages[i]
    BY <1>1, <2>4, <2>5
  <2>12. busy' /\ page' # page => page' > Len(cp.pages)
    BY <1>1, <2>3, <2>10
  <2>13. QED
    BY <2>4, <2>9, <2>11, <2>12
<1>7. CASE Bail \/ Interrupt
  BY <1>2, <1>7 DEF Bail, Interrupt
<1>8. ~ResetChapterCache
  BY DEF ResetChapterCache
<1>9. ASSUME NEW m \in Manga, Edit(m)
      PROVE  /\ \E saved \in slot' :
                  /\ saved.manga = cp.manga /\ Len(saved.pages) >= Len(cp.pages)
                  /\ \A i \in 1..Len(cp.pages) : saved.pages[i] = cp.pages[i]
             /\ busy' /\ page' # page => page' > Len(cp.pages)
  <2> DEFINE new == [cp EXCEPT !.clean = cp.clean /\ cp.manga # m]
  <2>1. new \in slot' /\ page' = page
    BY <1>9 DEF Edit, Edited
  <2>2. new.manga = cp.manga /\ new.pages = cp.pages
    BY <1>1 DEF Checkpoint
  <2> HIDE DEF new
  <2>3. QED
    BY <1>1, <2>1, <2>2
<1>10. CASE Tick \/ UNCHANGED vars
  BY <1>2, <1>10 DEF Tick, refreshVars, vars
<1>11. QED
  BY <1>3, <1>4, <1>5, <1>6, <1>7, <1>8, <1>9, <1>10 DEF Next, Refresh

(* Over any number of interruptions, a refresh of a list that stays what it *)
(* was loses no page that was saved, and requests none again but the first, *)
(* as long as the checkpoint is recent.                                     *)
THEOREM PagesAreKept == Spec => SavedPagesKept
<1>1. Init => SavedIsCurrent /\ SavedFits
  BY DEF Init, SavedIsCurrent, SavedFits
<1>2. IInv /\ SavedIsCurrent /\ SavedFits /\ [Next]_vars => (SavedIsCurrent /\ SavedFits)'
  BY SavedStaysCurrent
<1> DEFINE Kept ==
      \A cp \in slot :
        busy /\ cp.manga = target /\ cp.clean /\ cp.total <= StoredPages /\ Recent(cp)
          => /\ \E saved \in slot' :
                  /\ saved.manga = cp.manga /\ Len(saved.pages) >= Len(cp.pages)
                  /\ \A i \in 1..Len(cp.pages) : saved.pages[i] = cp.pages[i]
             /\ busy' /\ page' # page => page' > Len(cp.pages)
<1>3. IInv /\ SavedIsCurrent /\ [Next]_vars => [Kept]_vars
  BY StepKeepsPages
<1> HIDE DEF Kept
<1>4. Spec => [][Kept]_vars
  BY <1>1, <1>2, <1>3, ChapterInvariant, PTL DEF Spec
<1>5. QED
  BY <1>4 DEF SavedPagesKept, Kept

=============================================================================
