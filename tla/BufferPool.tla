----------------------------- MODULE BufferPool -----------------------------
(***************************************************************************)
(* The buffer pool of src/buffer/pool.rs, on top of the page file.         *)
(*                                                                         *)
(* Every method takes &mut self, so a call is one step.  fetch_page_mut    *)
(* hands out a &mut Page; the borrow ends before the next call, so what    *)
(* the caller writes through it belongs to the same step.                  *)
(*                                                                         *)
(* Disk reads and writes may fail at any time: each `?' of the code has an *)
(* action that takes it, with the state the code leaves behind.            *)
(***************************************************************************)
EXTENDS DiskManager, Sequences

CONSTANTS Capacity,   \* number of frames
          MaxPages,   \* bound: allocations considered
          MaxPins     \* bound: simultaneous pins of a frame considered

ASSUME CapacityAssumption == Capacity \in Nat \ {0}
ASSUME BoundsAssumption == MaxPages \in Nat /\ MaxPins \in Nat

VARIABLES frames,      \* frame index -> Empty or a BufferFrame
          page_table,  \* page id -> index of the frame that caches it
          free_list,   \* frames never used so far, in order
          clock_hand   \* where the next search for a victim starts

poolVars == <<num_pages, file, durable, frames, page_table, free_list, clock_hand>>

FrameIdx == 0 .. Capacity - 1

\* The page ids callers ask for; MaxPages itself is never allocated.
PageIds == 0 .. MaxPages

\* A frame that is None in the code.
Empty == [page |-> 0, data |-> Zero, pin_count |-> 0, dirty |-> FALSE, ref_bit |-> FALSE,
          some |-> FALSE]

Frame(p, v, pins, d) ==
  [page |-> p, data |-> v, pin_count |-> pins, dirty |-> d, ref_bit |-> TRUE, some |-> TRUE]

PoolInit ==
  /\ DiskInit
  /\ frames = [i \in FrameIdx |-> Empty]
  /\ page_table = [p \in {} |-> 0]
  /\ free_list = [i \in 1 .. Capacity |-> i - 1]
  /\ clock_hand = 0

-----------------------------------------------------------------------------
(* get_free_frame                                                          *)

Unpinned(i) == frames[i].some /\ frames[i].pin_count = 0

\* How many steps the clock hand takes from where it is to frame i.
Dist(i) == IF i >= clock_hand THEN i - clock_hand ELSE i + Capacity - clock_hand

\* Variant of IsVictim: pins are not looked at.
IsVictimIgnoringPins(i) ==
  frames[i].some /\ \A j \in FrameIdx : frames[j].some => Dist(i) <= Dist(j)

\* The frame the CLOCK algorithm evicts.  In the first turn it is the first
\* unpinned frame whose ref_bit is off.  If there is none, every ref_bit it saw
\* is off after that turn, and the second turn takes the first unpinned frame.
IsVictim(i) ==
  LET Cold(j) == Unpinned(j) /\ ~frames[j].ref_bit
      FirstOf(j, Is(_)) == Is(j) /\ \A k \in FrameIdx : Is(k) => Dist(j) <= Dist(k)
  IN IF \E j \in FrameIdx : Cold(j) THEN FirstOf(i, Cold) ELSE FirstOf(i, Unpinned)

\* The hand turned off the ref_bit of frame j on its way to victim i.  A victim
\* whose own ref_bit is still on is one of the second turn.
PassedBy(j, i) == frames[i].ref_bit \/ Dist(j) < Dist(i)

Swept(i) ==
  [j \in FrameIdx |-> IF Unpinned(j) /\ PassedBy(j, i)
                      THEN [frames[j] EXCEPT !.ref_bit = FALSE] ELSE frames[j]]

\* get_free_frame returns Ok(i), leaving the state the five operators below give.
ReturnsFrame(i) ==
  IF free_list # << >> THEN i = Head(free_list) ELSE IsVictim(i)

FreeListAfter == IF free_list # << >> THEN Tail(free_list) ELSE free_list

FramesAfter(i) ==
  IF free_list # << >> THEN frames ELSE [Swept(i) EXCEPT ![i] = Empty]

\* Variant of TableAfter: the entry of the evicted page is not removed.
TableAfterKeepsEntry(i) == page_table

TableAfter(i) ==
  IF free_list # << >> THEN page_table
  ELSE [p \in DOMAIN page_table \ {frames[i].page} |-> page_table[p]]

\* Variant of FileAfter: a dirty victim is dropped without being written.
FileAfterLosingWrites(i, f) == f

\* An evicted page that is dirty is written to the file f first.
FileAfter(i, f) ==
  IF free_list = << >> /\ frames[i].dirty
  THEN WritePage(f, frames[i].page, frames[i].data) ELSE f

\* Variant of HandAfter: the hand does not wrap around.
HandAfterNoWrap(i) == IF free_list # << >> THEN clock_hand ELSE i + 1

HandAfter(i) ==
  IF free_list # << >> THEN clock_hand
  ELSE IF i + 1 = Capacity THEN 0 ELSE i + 1

\* get_free_frame returns Err(BufferPoolFull): no ref_bit is changed, and the
\* hand is back where it started.
PoolFull == free_list = << >> /\ \A i \in FrameIdx : ~Unpinned(i)

\* get_free_frame returns the error of the write of its dirty victim i: the
\* hand stays on i, whose page remains in the pool.
EvictionFails ==
  \E i \in FrameIdx :
     /\ free_list = << >> /\ IsVictim(i) /\ frames[i].dirty
     /\ frames' = Swept(i)
     /\ clock_hand' = i
     /\ UNCHANGED <<page_table, free_list>>

-----------------------------------------------------------------------------
(* fetch_page, fetch_page_mut, unpin_page, new_page                        *)

\* Page p is put in frame i as fr.
Install(p, i, fr) ==
  /\ frames' = [FramesAfter(i) EXCEPT ![i] = fr]
  /\ page_table' = [q \in DOMAIN TableAfter(i) \cup {p} |->
                      IF q = p THEN i ELSE TableAfter(i)[q]]
  /\ free_list' = FreeListAfter
  /\ clock_hand' = HandAfter(i)

Touch(p, fr) ==
  /\ frames' = [frames EXCEPT ![page_table[p]] = fr]
  /\ UNCHANGED <<num_pages, file, durable, page_table, free_list, clock_hand>>

Cached(p) == p \in DOMAIN page_table
FrameOf(p) == frames[page_table[p]]

\* Both fetches on a cached page: pin it; through the mutable one, image v is
\* written and the frame is dirty.
FetchHit(p) ==
  /\ Cached(p) /\ FrameOf(p).pin_count < MaxPins
  /\ Touch(p, [FrameOf(p) EXCEPT !.pin_count = @ + 1, !.ref_bit = TRUE])

\* Variant of FetchMutHit: the frame is not marked dirty.
FetchMutHitClean(p, v) ==
  /\ Cached(p) /\ FrameOf(p).pin_count < MaxPins
  /\ Touch(p, [FrameOf(p) EXCEPT !.pin_count = @ + 1, !.ref_bit = TRUE, !.data = v])

FetchMutHit(p, v) ==
  /\ Cached(p) /\ FrameOf(p).pin_count < MaxPins
  /\ Touch(p, [FrameOf(p) EXCEPT !.pin_count = @ + 1, !.ref_bit = TRUE,
                                 !.dirty = TRUE, !.data = v])

\* On a page that is not cached, they read it into a free frame.
FetchMiss(p) ==
  /\ ~Cached(p) /\ CanRead(p)
  /\ \E i \in FrameIdx :
        /\ ReturnsFrame(i)
        /\ file' = FileAfter(i, file)
        /\ Install(p, i, Frame(p, file'[p], 1, FALSE))
  /\ UNCHANGED <<num_pages, durable>>

FetchMutMiss(p, v) ==
  /\ ~Cached(p) /\ CanRead(p)
  /\ \E i \in FrameIdx :
        /\ ReturnsFrame(i)
        /\ file' = FileAfter(i, file)
        /\ Install(p, i, Frame(p, v, 1, TRUE))
  /\ UNCHANGED <<num_pages, durable>>

\* read_page fails, at once when p is beyond the end of the file.  The frame that
\* was freed for p is neither filled nor put back on the free list.
FetchReadFails(p) ==
  /\ ~Cached(p)
  /\ \E i \in FrameIdx :
        /\ ReturnsFrame(i)
        /\ file' = FileAfter(i, file)
        /\ frames' = FramesAfter(i)
        /\ page_table' = TableAfter(i)
        /\ free_list' = FreeListAfter
        /\ clock_hand' = HandAfter(i)
  /\ UNCHANGED <<num_pages, durable>>

FetchEvictionFails(p) ==
  /\ ~Cached(p) /\ EvictionFails
  /\ UNCHANGED diskVars

UnpinPage(p, d) ==
  /\ Cached(p)
  /\ Touch(p, [FrameOf(p) EXCEPT !.pin_count = IF @ > 0 THEN @ - 1 ELSE @,
                                 !.dirty = @ \/ d])

\* new_page allocates first and looks for a frame afterwards.
NewPage ==
  /\ num_pages < MaxPages
  /\ \E i \in FrameIdx :
        /\ ReturnsFrame(i)
        /\ num_pages' = num_pages + 1
        /\ file' = FileAfter(i, Extended(file, num_pages))
        /\ Install(num_pages, i, Frame(num_pages, Blank, 1, TRUE))
  /\ UNCHANGED durable

NewPageAllocationFails ==
  /\ num_pages < MaxPages
  /\ AllocatePageFails
  /\ UNCHANGED <<durable, frames, page_table, free_list, clock_hand>>

NewPagePoolFull ==
  /\ num_pages < MaxPages
  /\ PoolFull
  /\ AllocatePage
  /\ UNCHANGED <<durable, frames, page_table, free_list, clock_hand>>

NewPageEvictionFails ==
  /\ num_pages < MaxPages
  /\ EvictionFails
  /\ AllocatePage
  /\ UNCHANGED durable

-----------------------------------------------------------------------------
(* flush_page, flush_all                                                   *)

FlushPage(p) ==
  /\ Cached(p) /\ FrameOf(p).dirty
  /\ file' = WritePage(file, p, FrameOf(p).data)
  /\ frames' = [frames EXCEPT ![page_table[p]].dirty = FALSE]
  /\ UNCHANGED <<num_pages, durable, page_table, free_list, clock_hand>>

\* flush_all has written and marked clean the dirty frames below n.
FlushedBelow(n) ==
  /\ frames' = [i \in FrameIdx |-> IF frames[i].some /\ i < n
                                   THEN [frames[i] EXCEPT !.dirty = FALSE] ELSE frames[i]]
  /\ file' = [p \in DOMAIN file |->
                IF Cached(p) /\ page_table[p] < n /\ FrameOf(p).dirty
                THEN FrameOf(p).data ELSE file[p]]
  /\ UNCHANGED <<num_pages, page_table, free_list, clock_hand>>

FlushAll ==
  FlushedBelow(Capacity) /\ Sync

\* The write of dirty frame n fails, or with n = Capacity the final sync does:
\* the frames before n are marked clean although nothing has been synced.
FlushAllFails(n) ==
  /\ n = Capacity \/ (n < Capacity /\ frames[n].dirty)
  /\ FlushedBelow(n)
  /\ UNCHANGED durable

-----------------------------------------------------------------------------

PoolNext ==
  \/ \E p \in PageIds :
        \/ FetchHit(p) \/ FetchMiss(p) \/ FetchReadFails(p) \/ FetchEvictionFails(p)
        \/ \E v \in Images : FetchMutHit(p, v) \/ FetchMutMiss(p, v)
        \/ \E d \in BOOLEAN : UnpinPage(p, d)
        \/ FlushPage(p)
  \/ NewPage \/ NewPageAllocationFails \/ NewPagePoolFull \/ NewPageEvictionFails
  \/ FlushAll
  \/ \E n \in 0 .. Capacity : FlushAllFails(n)

PoolSpec == PoolInit /\ [][PoolNext]_poolVars

-----------------------------------------------------------------------------
\* Type invariant.  An Empty frame is clean and unpinned, the clock hand is a
\* frame, and every page of the file has been counted by allocate_page.
PoolTypeOK ==
  /\ num_pages \in Nat
  /\ \E n \in 0 .. num_pages : file \in [0 .. n - 1 -> Image]
  /\ DOMAIN durable \subseteq DOMAIN file
  /\ durable \in [DOMAIN durable -> Image]
  /\ frames \in [FrameIdx -> [page : Nat, data : Image, pin_count : Nat, dirty : BOOLEAN,
                              ref_bit : BOOLEAN, some : BOOLEAN]]
  /\ \A i \in FrameIdx : ~frames[i].some => frames[i] = Empty
  /\ DOMAIN page_table \subseteq DOMAIN file
  /\ page_table \in [DOMAIN page_table -> FrameIdx]
  /\ free_list \in Seq(FrameIdx)
  /\ clock_hand \in FrameIdx

\* page_table and frames describe the same cache: a page is never in two frames,
\* no frame is forgotten while it holds a page, and no entry outlives an eviction.
\* Frames on the free list hold nothing and are listed once.
TableMatchesFrames ==
  /\ \A p \in DOMAIN page_table : FrameOf(p).some /\ FrameOf(p).page = p
  /\ \A i \in FrameIdx : frames[i].some =>
        Cached(frames[i].page) /\ page_table[frames[i].page] = i
  /\ \A a, b \in 1 .. Len(free_list) :
        /\ ~frames[free_list[a]].some
        /\ free_list[a] = free_list[b] => a = b

\* A frame that is not marked dirty holds what the file holds, so evicting it
\* without a write loses nothing -- also after fetches, evictions and flushes
\* that failed half way.
CleanMatchesFile ==
  \A i \in FrameIdx : frames[i].some /\ ~frames[i].dirty => frames[i].data = file[frames[i].page]

\* A pinned page stays in its frame, and no step takes more than one pin off it:
\* eviction, which turns the clock over pinned frames, never disturbs a caller.
PinnedStays ==
  [][\A i \in FrameIdx : frames[i].pin_count > 0 =>
        /\ frames'[i].some /\ frames'[i].page = frames[i].page
        /\ frames'[i].pin_count + 1 >= frames[i].pin_count]_poolVars

\* Callers cannot tell the pool from a plain array of pages: a fetch returns what
\* was last written wherever evictions and flushes have put it, and what survives
\* a crash changes only when flush_all has made everything durable.
AsStore == INSTANCE PageStore
  WITH store <- [p \in DOMAIN file |-> IF Cached(p) THEN FrameOf(p).data ELSE file[p]],
       stable <- durable

ImplementsPageStore == AsStore!Spec

=============================================================================
