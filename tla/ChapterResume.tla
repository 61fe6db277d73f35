------------------------------ MODULE ChapterResume ------------------------------
(***************************************************************************)
(* The paginated chapter refresh of the en.comix source and the single     *)
(* checkpoint it saves after every page, so that an interrupted refresh    *)
(* resumes: get_manga_update in source-fixes/en.comix/src/lib.rs with      *)
(* chapter_checkpoint.rs and settings.rs.                                  *)
(*                                                                         *)
(* Abstractions.                                                           *)
(*   - A page of up to 100 chapters is a block, an opaque value; IdsOf     *)
(*     gives the chapter ids in it, so two blocks may agree on the ids and *)
(*     differ in the rest (a chapter was retitled).                        *)
(*   - The bounds of an encoded checkpoint (8000 items, 1 MiB) are one     *)
(*     bound on its number of pages, StoredPages.                          *)
(*   - Requests and calls of the source are sequential: the source holds   *)
(*     its web view (a RefCell) for the whole refresh. The server's list   *)
(*     and the clock may change between any two requests.                  *)
(* An Option is a set of at most one element.                              *)
(***************************************************************************)
EXTENDS Integers, Sequences

CONSTANTS
  Manga,            \* manga keys
  Block,            \* possible contents of a page
  NoItems,          \* the empty page
  IdsOf,            \* the chapter ids of a block
  Lists,            \* Lists[m]: the lists of pages the server may have for m
  MaxPages,         \* MAX_CHAPTER_PAGES
  StoredPages,      \* pages that fit in an encoded checkpoint
  ResumeSeconds,    \* RESUME_SECONDS
  CompleteSeconds,  \* COMPLETE_SECONDS
  MaxTime,          \* bound of the clock
  ClockGoesBack     \* may the device's clock be set back?

ASSUME ChapterAssumption ==
  /\ NoItems \in Block
  /\ DOMAIN IdsOf = Block
  /\ Lists \in [Manga -> SUBSET (Seq(Block) \ {<< >>})]
  /\ \A m \in Manga : Lists[m] # {}
  /\ MaxPages \in Nat \ {0}
  /\ StoredPages \in Nat \ {0}
  /\ ResumeSeconds \in Nat
  /\ CompleteSeconds \in Nat
  /\ MaxTime \in Nat
  /\ ClockGoesBack \in BOOLEAN

VARIABLES
  server,      \* server[m]: the pages the website would serve now
  now,         \* current_date()
  slot,        \* the saved checkpoint, in the source's settings
  busy,        \* a refresh is running
  target,      \* the manga it refreshes
  page,        \* the page it requests next
  checkpoint,  \* its local checkpoint
  announced,   \* history: what this refresh's responses said: ids of page 1, last_page
  result       \* the list the current or latest refresh handed to the application

vars == <<server, now, slot, busy, target, page, checkpoint, announced, result>>
refreshVars == <<busy, target, page, checkpoint, announced>>

-----------------------------------------------------------------------------
(* Checkpoints. "times" and "clean" are history: when each page was         *)
(* fetched, and whether the server's list is still the one page 1 was taken *)
(* from.                                                                    *)

NewCheckpoint(m, ids, total, block) ==
  [manga |-> m, firstIds |-> ids, total |-> total, completed |-> 1, updated |-> now,
   pages |-> <<block>>, times |-> <<now>>, clean |-> TRUE]

Checkpoint ==
  [manga : Manga, firstIds : {IdsOf[b] : b \in Block}, total : Nat, completed : Nat,
   updated : Nat, pages : Seq(Block), times : Seq(Nat), clean : BOOLEAN]

(* Mutant: the last page is not waited for.                                 *)
IsComplete_OffByOne(cp) == cp.completed + 1 >= cp.total

IsComplete(cp) == cp.completed = cp.total

(* Mutant: only a response past the announced end is refused.               *)
CanAdvance_AnyTotal(cp, p, total) ==
  /\ p = cp.completed + 1
  /\ p <= cp.total

CanAdvance(cp, p, total) ==
  /\ p = cp.completed + 1
  /\ total = cp.total
  /\ p <= cp.total

Advance(cp, p, block) ==
  [cp EXCEPT !.pages = Append(@, block), !.times = Append(@, now),
             !.completed = p, !.updated = now]

(* A checkpoint of the future is no more recent than an old one.            *)
Recent(cp) ==
  now - cp.updated \in 0..(IF IsComplete(cp) THEN CompleteSeconds ELSE ResumeSeconds)

(* Mutants: the head of the list is not compared; an unfinished checkpoint  *)
(* is not resumed.                                                          *)
Resumable_AnyHead(cp, m, ids, total) ==
  Recent(cp) /\ cp.manga = m /\ cp.total = total

Resumable_CompleteOnly(cp, m, ids, total) ==
  Recent(cp) /\ IsComplete(cp) /\ cp.manga = m /\ cp.firstIds = ids /\ cp.total = total

(* ChapterCheckpoint::resume. Its checks against a corrupt or foreign value *)
(* of the setting are left out: the only writer is Save.                    *)
Resumable(cp, m, ids, total) ==
  Recent(cp) /\ cp.manga = m /\ cp.firstIds = ids /\ cp.total = total

(* encode, then save_chapter_checkpoint: a checkpoint that does not fit     *)
(* clears the setting.                                                      *)
Save(cp) == slot' = IF Len(cp.pages) <= StoredPages THEN {cp} ELSE {}

-----------------------------------------------------------------------------
Init ==
  /\ server \in [Manga -> UNION {Lists[m] : m \in Manga}]
  /\ \A m \in Manga : server[m] \in Lists[m]
  /\ now = 0
  /\ slot = {}
  /\ busy = FALSE
  /\ target \in Manga
  /\ page = 1
  /\ checkpoint = {}
  /\ announced = {}
  /\ result = {}

(* The application asks for the chapters of m.                              *)
StartRefresh(m) ==
  /\ ~busy
  /\ busy' = TRUE
  /\ target' = m
  /\ page' = 1
  /\ checkpoint' = {}
  /\ announced' = {}
  /\ result' = {}
  /\ UNCHANGED <<server, now, slot>>

(* The checks every response passes before it is used.                      *)
Total == Len(server[target])

GoodResponse ==
  /\ page <= Total
  /\ Total <= MaxPages
  /\ server[target][page] = NoItems => page = Total

Return(cp, seen) ==
  /\ result' = {[manga |-> cp.manga, pages |-> cp.pages, clean |-> cp.clean,
                 head |-> seen.head, total |-> seen.total]}
  /\ busy' = FALSE
  /\ UNCHANGED <<target, page, checkpoint>>

(* After Save: return the finished list, or go on to the next page.         *)
Continue(cp, seen) ==
  \/ IsComplete(cp) /\ Return(cp, seen)
  \/ /\ ~IsComplete(cp)
     /\ page' = page + 1
     /\ checkpoint' = {cp}
     /\ UNCHANGED <<busy, target, result>>

(* Page 1 matches the saved checkpoint, which is complete or goes on.       *)
ResumeSaved ==
  /\ busy /\ page = 1 /\ GoodResponse
  /\ \E cp \in slot :
       LET ids == IdsOf[server[target][1]]
           seen == [head |-> ids, total |-> Total]
       IN  /\ Resumable(cp, target, ids, Total)
           /\ announced' = {seen}
           /\ \/ IsComplete(cp) /\ Return(cp, seen)
              \/ /\ ~IsComplete(cp)
                 /\ page' = cp.completed + 1
                 /\ checkpoint' = {cp}
                 /\ UNCHANGED <<busy, target, result>>
  /\ UNCHANGED <<server, now, slot>>

(* Page 1 starts a new checkpoint.                                          *)
FetchFirst ==
  LET block == server[target][1]
      ids == IdsOf[block]
      seen == [head |-> ids, total |-> Total]
      cp == NewCheckpoint(target, ids, Total, block)
  IN  /\ busy /\ page = 1 /\ GoodResponse
      /\ \A saved \in slot : ~Resumable(saved, target, ids, Total)
      /\ announced' = {seen}
      /\ Save(cp)
      /\ Continue(cp, seen)
      /\ UNCHANGED <<server, now>>

(* A later page extends the checkpoint.                                     *)
FetchNext ==
  /\ busy /\ page > 1 /\ GoodResponse
  /\ \E old \in checkpoint, before \in announced :
       LET cp == Advance(old, page, server[target][page])
           seen == [before EXCEPT !.total = Total]
       IN  /\ CanAdvance(old, page, Total)
           /\ announced' = {seen}
           /\ Save(cp)
           /\ Continue(cp, seen)
  /\ UNCHANGED <<server, now>>

(* The refresh gives up: a response fails the checks (bail), ...            *)
Bail ==
  /\ busy
  /\ ~GoodResponse \/ (page > 1 /\ \E cp \in checkpoint : ~CanAdvance(cp, page, Total))
  /\ busy' = FALSE
  /\ UNCHANGED <<server, now, slot, target, page, checkpoint, announced, result>>

(* ... or a request fails, verification is needed, or the app is closed.    *)
Interrupt ==
  /\ busy
  /\ busy' = FALSE
  /\ UNCHANGED <<server, now, slot, target, page, checkpoint, announced, result>>

(* The "resetChapterCache" notification.                                    *)
ResetChapterCache ==
  /\ ~busy
  /\ slot' = {}
  /\ UNCHANGED <<server, now, result>>
  /\ UNCHANGED refreshVars

(* The website's list of m changes: uploads, deletions, edits.              *)
Edited(option, m) ==
  {[o EXCEPT !.clean = o.clean /\ o.manga # m] : o \in option}

Edit(m) ==
  /\ \E list \in Lists[m] :
       /\ list # server[m]
       /\ server' = [server EXCEPT ![m] = list]
  /\ slot' = Edited(slot, m)
  /\ checkpoint' = Edited(checkpoint, m)
  /\ result' = Edited(result, m)
  /\ UNCHANGED <<now, busy, target, page, announced>>

Tick ==
  /\ \/ now < MaxTime /\ now' = now + 1
     \/ ClockGoesBack /\ now > 0 /\ now' = now - 1
  /\ UNCHANGED <<server, slot, result>>
  /\ UNCHANGED refreshVars

Refresh == ResumeSaved \/ FetchFirst \/ FetchNext \/ Bail

Next ==
  \/ \E m \in Manga : StartRefresh(m)
  \/ Refresh
  \/ Interrupt
  \/ ResetChapterCache
  \/ \E m \in Manga : Edit(m)
  \/ Tick

(* The reader keeps asking for the chapters; a running refresh moves on;    *)
(* and although any refresh may be interrupted, not every one is before its *)
(* first new page.                                                          *)
Fairness ==
  /\ \A m \in Manga : WF_vars(StartRefresh(m))
  /\ SF_vars(ResumeSaved)
  /\ SF_vars(FetchFirst)
  /\ SF_vars(FetchNext)
  /\ WF_vars(Bail)

Spec == Init /\ [][Next]_vars
FairSpec == Spec /\ Fairness

-----------------------------------------------------------------------------
Seen == [head : {IdsOf[b] : b \in Block}, total : Nat]

Result ==
  [manga : Manga, pages : Seq(Block), clean : BOOLEAN, head : {IdsOf[b] : b \in Block},
   total : Nat]

AtMostOne(option) == \A x, y \in option : x = y

TypeOK ==
  /\ server \in [Manga -> Seq(Block) \ {<< >>}]
  /\ now \in Nat
  /\ slot \subseteq Checkpoint /\ AtMostOne(slot)
  /\ busy \in BOOLEAN
  /\ target \in Manga
  /\ page \in Nat \ {0}
  /\ checkpoint \subseteq Checkpoint /\ AtMostOne(checkpoint)
  /\ announced \subseteq Seen /\ AtMostOne(announced)
  /\ result \subseteq Result /\ AtMostOne(result)

(* If the website's list did not change from the first page fetched to now, *)
(* the list handed over is the website's list, page for page: no chapter    *)
(* lost, repeated or out of order, over however many interrupted refreshes  *)
(* of any manga it was assembled.                                           *)
ExactWhenStable ==
  \A r \in result : r.clean => r.pages = server[r.manga]

(* The newest chapters are never stale: the first page handed over has the  *)
(* ids the website gave in this very refresh, also when it comes from a     *)
(* checkpoint.                                                              *)
HeadIsCurrent ==
  \A r \in result : IdsOf[r.pages[1]] = r.head

(* A list that grew or shrank while it was read is not handed over: it has  *)
(* as many pages as the last response of the refresh announced.             *)
WholeListOnly ==
  \A r \in result : Len(r.pages) = r.total

(* chapter_checkpoint.rs, first line: "Only validated, recent metadata is   *)
(* reused." Every page after the first (which is requested again) that a    *)
(* refresh takes over was fetched within ResumeSeconds.                     *)
OnlyRecentPagesReused ==
  [][ \A cp \in checkpoint' :
        checkpoint = {} /\ cp \in slot
          => \A i \in 2..Len(cp.times) : now - cp.times[i] <= ResumeSeconds ]_vars

(* As long as the website's list stays what it was and a checkpoint of it   *)
(* that fits is recent, no refresh of it loses a page that was saved, or    *)
(* requests one again but the first.                                        *)
SavedPagesKept ==
  [][ \A cp \in slot :
        busy /\ cp.manga = target /\ cp.clean /\ cp.total <= StoredPages /\ Recent(cp)
          => /\ \E saved \in slot' :
                  /\ saved.manga = cp.manga /\ Len(saved.pages) >= Len(cp.pages)
                  /\ \A i \in 1..Len(cp.pages) : saved.pages[i] = cp.pages[i]
             /\ busy' /\ page' # page => page' > Len(cp.pages) ]_vars

(* However often it is interrupted, refreshing a list that no longer        *)
(* changes and fits in the checkpoint keeps coming to an end, as long as    *)
(* the clock does not run past the resume window and, from some time on,    *)
(* only that list is refreshed: all manga share the one slot, which the     *)
(* refresh of another would take over.                                      *)
Servable(m) ==
  /\ Len(server[m]) <= MaxPages
  /\ Len(server[m]) <= StoredPages
  /\ \A i \in 1..Len(server[m]) : server[m][i] = NoItems => i = Len(server[m])

EventuallyListed ==
  \A m \in Manga :
    (/\ <>[][UNCHANGED <<server, now>> /\ ~ResetChapterCache]_vars
     /\ <>[]Servable(m)
     /\ <>[](busy => target = m))
      => []<>(\E r \in result : r.manga = m)

=============================================================================
