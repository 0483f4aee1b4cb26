-------------------------- MODULE BufferPoolProofs --------------------------
(***************************************************************************)
(* Proofs about BufferPool, for any number of frames, pages and pins and   *)
(* any page images.  The inductive invariant is the conjunction of the     *)
(* three invariants TLC checks.  The heart is get_free_frame: the frame it *)
(* returns holds nothing any more, no other frame has changed but for its  *)
(* ref_bit, and the page that was there is in the file (FreeFrame,         *)
(* EvictedFile).  What each method then does to the frame is short.        *)
(***************************************************************************)
EXTENDS BufferPool, TLAPS

FrameType == [page : Nat, data : Image, pin_count : Nat, dirty : BOOLEAN,
              ref_bit : BOOLEAN, some : BOOLEAN]

\* The inductive invariant of the pool.
PoolInv == PoolTypeOK /\ TableMatchesFrames /\ CleanMatchesFile

\* Two frames that differ at most in their ref_bit.
Alike(f, g) ==
  /\ f.page = g.page /\ f.data = g.data /\ f.pin_count = g.pin_count
  /\ f.dirty = g.dirty /\ f.some = g.some

-----------------------------------------------------------------------------
(* get_free_frame                                                          *)

\* An empty frame is a frame.
LEMMA EmptyType == Empty \in FrameType
BY DEF Empty, FrameType, Image

\* The victim of CLOCK holds a page that nobody has pinned.
LEMMA VictimIsUnpinned ==
  ASSUME NEW i \in FrameIdx, IsVictim(i)
  PROVE  Unpinned(i)
BY DEF IsVictim, Unpinned

\* The frame that get_free_frame returns is unpinned.  Afterwards it is empty, the
\* others are as before but for ref bits, the page table has lost the entry that led
\* to it, and it is on no free list.
LEMMA FreeFrame ==
  ASSUME PoolInv, NEW i \in FrameIdx, ReturnsFrame(i)
  PROVE  /\ frames[i].pin_count = 0
         /\ FramesAfter(i) \in [FrameIdx -> FrameType]
         /\ FramesAfter(i)[i] = Empty
         /\ \A j \in FrameIdx \ {i} :
               /\ Alike(FramesAfter(i)[j], frames[j])
               /\ ~frames[j].some => FramesAfter(i)[j] = Empty
         /\ TableAfter(i) = [p \in {q \in DOMAIN page_table : page_table[q] # i} |->
                               page_table[p]]
         /\ FreeListAfter \in Seq(FrameIdx)
         /\ \A a, b \in 1 .. Len(FreeListAfter) :
               /\ FreeListAfter[a] # i /\ ~frames[FreeListAfter[a]].some
               /\ FreeListAfter[a] = FreeListAfter[b] => a = b
         /\ HandAfter(i) \in FrameIdx
<1> USE CapacityAssumption
<1>1. frames \in [FrameIdx -> FrameType]
  BY DEF PoolInv, PoolTypeOK, FrameType
<1>2. CASE free_list # << >>
  <2>1. i = Head(free_list) /\ i = free_list[1] /\ Len(free_list) > 0
        /\ Len(free_list) \in Nat
    BY <1>2 DEF ReturnsFrame, PoolInv, PoolTypeOK
  <2>2. ~frames[i].some
    <3>1. 1 \in 1 .. Len(free_list)
      BY <2>1
    <3> QED BY <2>1, <3>1 DEF PoolInv, TableMatchesFrames
  <2>3. frames[i] = Empty
    BY <2>2 DEF PoolInv, PoolTypeOK
  <2>4. FramesAfter(i) = frames /\ TableAfter(i) = page_table
        /\ FreeListAfter = Tail(free_list) /\ HandAfter(i) = clock_hand
    BY <1>2 DEF FramesAfter, TableAfter, FreeListAfter, HandAfter
  <2>5. \A p \in DOMAIN page_table : page_table[p] # i
    BY <2>2 DEF PoolInv, TableMatchesFrames, FrameOf
  <2>6. page_table = [p \in {q \in DOMAIN page_table : page_table[q] # i} |-> page_table[p]]
    <3>1. {q \in DOMAIN page_table : page_table[q] # i} = DOMAIN page_table
      BY <2>5
    <3>2. page_table = [p \in DOMAIN page_table |-> page_table[p]]
      BY DEF PoolInv, PoolTypeOK
    <3> QED BY <3>1, <3>2
  <2>7. Tail(free_list) \in Seq(FrameIdx) /\ Len(Tail(free_list)) = Len(free_list) - 1
        /\ \A a \in 1 .. Len(free_list) - 1 : Tail(free_list)[a] = free_list[a + 1]
    BY <1>2, <2>1 DEF PoolInv, PoolTypeOK
  <2>8. \A a, b \in 1 .. Len(free_list) - 1 :
           /\ free_list[a + 1] # i /\ ~frames[free_list[a + 1]].some
           /\ free_list[a + 1] = free_list[b + 1] => a = b
    <3>1. \A a \in 1 .. Len(free_list) - 1 : a + 1 \in 1 .. Len(free_list) /\ a + 1 # 1
      BY <2>1
    <3>2. 1 \in 1 .. Len(free_list)
      BY <2>1
    <3> QED BY <2>1, <3>1, <3>2 DEF PoolInv, TableMatchesFrames
  <2>9. clock_hand \in FrameIdx
    BY DEF PoolInv, PoolTypeOK
  <2>10. frames[i].pin_count = 0
    BY <2>3 DEF Empty
  <2>11. \A j \in FrameIdx : ~frames[j].some => frames[j] = Empty
    BY DEF PoolInv, PoolTypeOK
  <2>12. \A j \in FrameIdx : Alike(frames[j], frames[j])
    BY DEF Alike
  <2> QED BY <1>1, <2>3, <2>4, <2>6, <2>7, <2>8, <2>9, <2>10, <2>11, <2>12
<1>3. CASE free_list = << >>
  <2>1. Unpinned(i)
    BY <1>3, VictimIsUnpinned DEF ReturnsFrame
  <2>2. FramesAfter(i) = [Swept(i) EXCEPT ![i] = Empty] /\ FreeListAfter = << >>
        /\ HandAfter(i) = (IF i + 1 = Capacity THEN 0 ELSE i + 1)
        /\ TableAfter(i) = [p \in DOMAIN page_table \ {frames[i].page} |-> page_table[p]]
    BY <1>3 DEF FramesAfter, TableAfter, FreeListAfter, HandAfter
  <2>3. Swept(i) \in [FrameIdx -> FrameType]
    BY <1>1, Zenon DEF Swept, FrameType
  <2>4. \A j \in FrameIdx : Alike(Swept(i)[j], frames[j])
    BY <1>1 DEF Swept, Alike, FrameType
  <2>5. \A j \in FrameIdx : ~frames[j].some => Swept(i)[j] = Empty
    BY DEF Swept, Unpinned, PoolInv, PoolTypeOK
  <2>6. DOMAIN page_table \ {frames[i].page} = {q \in DOMAIN page_table : page_table[q] # i}
    BY <2>1 DEF PoolInv, TableMatchesFrames, FrameOf, Cached, Unpinned
  <2>7. (IF i + 1 = Capacity THEN 0 ELSE i + 1) \in FrameIdx
    BY DEF FrameIdx
  <2>8. frames[i].pin_count = 0
    BY <2>1 DEF Unpinned
  <2>9. [Swept(i) EXCEPT ![i] = Empty] \in [FrameIdx -> FrameType]
        /\ [Swept(i) EXCEPT ![i] = Empty][i] = Empty
        /\ \A j \in FrameIdx \ {i} : [Swept(i) EXCEPT ![i] = Empty][j] = Swept(i)[j]
    BY <2>3, EmptyType
  <2>10. << >> \in Seq(FrameIdx) /\ 1 .. Len(<< >>) = {}
    OBVIOUS
  <2> QED BY <2>2, <2>4, <2>5, <2>6, <2>7, <2>8, <2>9, <2>10
<1> QED BY <1>2, <1>3

\* What the file f, as long as the pool's file or longer, holds after the eviction: the
\* page that was in the frame, whether it had to be written or not, and no other change.
LEMMA EvictedFile ==
  ASSUME PoolInv, NEW i \in FrameIdx, ReturnsFrame(i),
         NEW n \in Nat, NEW f \in [0 .. n - 1 -> Image],
         DOMAIN file \subseteq 0 .. n - 1, \A p \in DOMAIN file : f[p] = file[p]
  PROVE  /\ FileAfter(i, f) \in [0 .. n - 1 -> Image]
         /\ \A p \in DOMAIN page_table :
               page_table[p] = i => FileAfter(i, f)[p] = frames[i].data
         /\ \A p \in 0 .. n - 1 :
               p \notin DOMAIN page_table \/ page_table[p] # i => FileAfter(i, f)[p] = f[p]
<1>1. frames[i] \in FrameType
  BY DEF PoolInv, PoolTypeOK, FrameType
<1>2. DOMAIN page_table \subseteq DOMAIN file
  BY DEF PoolInv, PoolTypeOK
<1>3. CASE free_list = << >> /\ frames[i].dirty
  <2>1. frames[i].some
    BY <1>3, VictimIsUnpinned DEF ReturnsFrame, Unpinned
  <2>2. frames[i].page \in DOMAIN page_table /\ page_table[frames[i].page] = i
    BY <2>1 DEF PoolInv, TableMatchesFrames, Cached
  <2>3. \A p \in DOMAIN page_table : page_table[p] = i => p = frames[i].page
    BY DEF PoolInv, TableMatchesFrames, FrameOf
  <2>4. FileAfter(i, f) = [f EXCEPT ![frames[i].page] = frames[i].data]
    BY <1>3 DEF FileAfter, WritePage
  <2>5. frames[i].data \in Image
    BY <1>1 DEF FrameType
  <2> QED BY <1>2, <2>2, <2>3, <2>4, <2>5
<1>4. CASE ~(free_list = << >> /\ frames[i].dirty)
  <2>1. FileAfter(i, f) = f
    BY <1>4 DEF FileAfter
  <2>2. ASSUME NEW p \in DOMAIN page_table, page_table[p] = i
        PROVE  f[p] = frames[i].data
    <3>1. frames[i].some /\ frames[i].page = p
      BY <2>2 DEF PoolInv, TableMatchesFrames, FrameOf
    <3>2. free_list = << >>
      <4>1. SUFFICES ASSUME free_list # << >> PROVE FALSE
        OBVIOUS
      <4>2. i = free_list[1] /\ 1 \in 1 .. Len(free_list)
        BY <4>1 DEF ReturnsFrame, PoolInv, PoolTypeOK
      <4> QED BY <3>1, <4>2 DEF PoolInv, TableMatchesFrames
    <3>3. frames[i].data = file[p]
      BY <1>4, <3>1, <3>2 DEF PoolInv, CleanMatchesFile
    <3> QED BY <1>2, <3>3
  <2> QED BY <2>1, <2>2
<1> QED BY <1>3, <1>4

-----------------------------------------------------------------------------
(* The methods                                                             *)

\* What callers read: AsStore maps the pool to it.
Store == [p \in DOMAIN file |-> IF Cached(p) THEN FrameOf(p).data ELSE file[p]]

\* A frame is filled with page p, in a file that may have grown to n pages: the
\* invariant is kept, and callers see p as it is in the frame, the other pages as
\* before and new pages as they are in the file.
LEMMA Installed ==
  ASSUME PoolInv, NEW i \in FrameIdx, ReturnsFrame(i),
         NEW n \in Nat, NEW f \in [0 .. n - 1 -> Image],
         DOMAIN file \subseteq 0 .. n - 1, \A p \in DOMAIN file : f[p] = file[p],
         file' = FileAfter(i, f), durable' = durable, num_pages' \in Nat, n <= num_pages',
         NEW p \in 0 .. n - 1, ~Cached(p),
         NEW fr \in FrameType, fr.some, fr.page = p, fr.dirty \/ fr.data = file'[p],
         Install(p, i, fr)
  PROVE  /\ PoolInv'
         /\ Store' = [q \in 0 .. n - 1 |->
                        IF q = p THEN fr.data ELSE IF q \in DOMAIN file THEN Store[q] ELSE f[q]]
         /\ \A j \in FrameIdx : frames[j].pin_count > 0 => Alike(frames'[j], frames[j])
<1> DEFINE kept == {q \in DOMAIN page_table : page_table[q] # i}
<1>1. /\ file' \in [0 .. n - 1 -> Image]
      /\ \A q \in DOMAIN page_table : page_table[q] = i => file'[q] = frames[i].data
      /\ \A q \in 0 .. n - 1 : q \notin DOMAIN page_table \/ page_table[q] # i => file'[q] = f[q]
  BY EvictedFile
<1>2. /\ frames[i].pin_count = 0
      /\ FramesAfter(i) \in [FrameIdx -> FrameType]
      /\ \A j \in FrameIdx \ {i} :
            /\ Alike(FramesAfter(i)[j], frames[j])
            /\ ~frames[j].some => FramesAfter(i)[j] = Empty
      /\ TableAfter(i) = [q \in kept |-> page_table[q]]
      /\ FreeListAfter \in Seq(FrameIdx)
      /\ \A a, b \in 1 .. Len(FreeListAfter) :
            /\ FreeListAfter[a] # i /\ ~frames[FreeListAfter[a]].some
            /\ FreeListAfter[a] = FreeListAfter[b] => a = b
      /\ HandAfter(i) \in FrameIdx
  BY FreeFrame, Zenon
<1>3. /\ frames' \in [FrameIdx -> FrameType]
      /\ frames'[i] = fr
      /\ \A j \in FrameIdx \ {i} :
            /\ Alike(frames'[j], frames[j])
            /\ ~frames[j].some => frames'[j] = Empty
  BY <1>2 DEF Install
<1>4. /\ DOMAIN page_table' = kept \cup {p}
      /\ page_table'[p] = i
      /\ \A q \in kept : q # p /\ page_table'[q] = page_table[q]
  BY <1>2 DEF Install, Cached
<1>5. /\ page_table \in [DOMAIN page_table -> FrameIdx] /\ DOMAIN page_table \subseteq DOMAIN file
      /\ \A j \in FrameIdx : frames[j] \in FrameType
  BY DEF PoolInv, PoolTypeOK, FrameType
<1>6. PoolTypeOK'
  <2>1. \E m \in 0 .. num_pages' : file' \in [0 .. m - 1 -> Image]
    <3>1. n \in 0 .. num_pages'
      OBVIOUS
    <3> QED BY <1>1, <3>1, Zenon
  <2>2. DOMAIN durable' \subseteq DOMAIN file' /\ durable' \in [DOMAIN durable' -> Image]
    BY <1>1 DEF PoolInv, PoolTypeOK
  <2>3. \A j \in FrameIdx : ~frames'[j].some => frames'[j] = Empty
    BY <1>3 DEF Alike
  <2>4. DOMAIN page_table' \subseteq DOMAIN file'
    BY <1>1, <1>4, <1>5
  <2>5. page_table' \in [DOMAIN page_table' -> FrameIdx]
    BY <1>2, <1>4, <1>5 DEF Install
  <2>6. free_list' \in Seq(FrameIdx) /\ clock_hand' \in FrameIdx
    BY <1>2 DEF Install
  <2>7. Empty' = Empty /\ FrameIdx' = FrameIdx /\ Image' = Image
    BY DEF Empty, FrameIdx, Image
  <2> QED BY <1>3, <2>1, <2>2, <2>3, <2>4, <2>5, <2>6, <2>7 DEF PoolTypeOK, FrameType
<1>7. TableMatchesFrames'
  <2>1. \A q \in DOMAIN page_table' : frames'[page_table'[q]].some /\ frames'[page_table'[q]].page = q
    <3>1. \A q \in kept : page_table[q] \in FrameIdx \ {i}
                          /\ frames[page_table[q]].some /\ frames[page_table[q]].page = q
      BY <1>5 DEF PoolInv, TableMatchesFrames, FrameOf
    <3> QED BY <1>3, <1>4, <3>1 DEF Alike
  <2>2. \A j \in FrameIdx : frames'[j].some =>
           frames'[j].page \in DOMAIN page_table' /\ page_table'[frames'[j].page] = j
    <3>1. \A j \in FrameIdx \ {i} : frames[j].some =>
             frames[j].page \in kept /\ page_table[frames[j].page] = j
      BY DEF PoolInv, TableMatchesFrames, Cached
    <3> QED BY <1>3, <1>4, <3>1 DEF Alike
  <2>3. \A a, b \in 1 .. Len(free_list') :
           ~frames'[free_list'[a]].some /\ (free_list'[a] = free_list'[b] => a = b)
    <3>1. free_list' = FreeListAfter
      BY DEF Install
    <3>2. \A a \in 1 .. Len(FreeListAfter) : FreeListAfter[a] \in FrameIdx \ {i}
      BY <1>2
    <3> QED BY <1>2, <1>3, <3>1, <3>2 DEF Alike
  <2> QED BY <2>1, <2>2, <2>3 DEF TableMatchesFrames, FrameOf, Cached, FrameIdx
<1>8. CleanMatchesFile'
  <2>1. ASSUME NEW j \in FrameIdx, frames'[j].some, ~frames'[j].dirty
        PROVE  frames'[j].data = file'[frames'[j].page]
    <3>1. CASE j = i
      BY <1>3, <2>1, <3>1
    <3>2. CASE j # i
      <4>1. frames[j].some /\ ~frames[j].dirty /\ Alike(frames'[j], frames[j])
        BY <1>3, <2>1, <3>2, Zenon DEF Alike
      <4>2. frames[j].page \in DOMAIN page_table /\ page_table[frames[j].page] = j
            /\ frames[j].data = file[frames[j].page]
        BY <4>1 DEF PoolInv, TableMatchesFrames, CleanMatchesFile, Cached
      <4> QED BY <1>1, <1>5, <3>2, <4>1, <4>2 DEF Alike
    <3> QED BY <3>1, <3>2
  <2> QED BY <2>1 DEF CleanMatchesFile, FrameIdx
<1>9. Store' = [q \in 0 .. n - 1 |->
                  IF q = p THEN fr.data ELSE IF q \in DOMAIN file THEN Store[q] ELSE f[q]]
  <2>1. Store' = [q \in 0 .. n - 1 |->
                    IF q \in DOMAIN page_table' THEN frames'[page_table'[q]].data ELSE file'[q]]
    BY <1>1 DEF Store, Cached, FrameOf
  <2>2. ASSUME NEW q \in 0 .. n - 1
        PROVE  (IF q \in DOMAIN page_table' THEN frames'[page_table'[q]].data ELSE file'[q])
               = (IF q = p THEN fr.data ELSE IF q \in DOMAIN file THEN Store[q] ELSE f[q])
    <3>1. CASE q = p
      BY <1>3, <1>4, <3>1
    <3>2. CASE q # p /\ q \in kept
      <4>1. page_table[q] \in FrameIdx \ {i} /\ Store[q] = frames[page_table[q]].data
        BY <1>5, <3>2 DEF Store, Cached, FrameOf
      <4> QED BY <1>3, <1>4, <1>5, <3>2, <4>1 DEF Alike
    <3>3. CASE q # p /\ q \in DOMAIN page_table /\ q \notin kept
      BY <1>1, <1>4, <1>5, <3>3 DEF Store, Cached, FrameOf
    <3>4. CASE q # p /\ q \notin DOMAIN page_table
      BY <1>1, <1>4, <3>4 DEF Store, Cached
    <3> QED BY <3>1, <3>2, <3>3, <3>4
  <2> QED BY <2>1, <2>2
<1>10. \A j \in FrameIdx : frames[j].pin_count > 0 => Alike(frames'[j], frames[j])
  BY <1>2, <1>3
<1> QED BY <1>6, <1>7, <1>8, <1>9, <1>10 DEF PoolInv

\* What PinnedStays says of one step.
PinStep ==
  \A i \in FrameIdx : frames[i].pin_count > 0 =>
     /\ frames'[i].some /\ frames'[i].page = frames[i].page
     /\ frames'[i].pin_count + 1 >= frames[i].pin_count

\* A pinned frame is not Empty; frames that are alike have the same page and pins.
LEMMA AlikePinned ==
  ASSUME PoolInv, frames' \in [FrameIdx -> FrameType],
         \A i \in FrameIdx : frames[i].pin_count > 0 => Alike(frames'[i], frames[i])
  PROVE  PinStep
<1>1. \A i \in FrameIdx : frames[i].pin_count > 0 => frames[i].some
  BY DEF PoolInv, PoolTypeOK, Empty
<1>2. \A i \in FrameIdx : frames[i].pin_count \in Nat
  BY DEF PoolInv, PoolTypeOK
<1> QED BY <1>1, <1>2 DEF PinStep, Alike

\* A frame was freed for a page whose read then failed: the evicted page is now read
\* from the file, and callers see no difference.
LEMMA Freed ==
  ASSUME PoolInv, NEW p, FetchReadFails(p)
  PROVE  PoolInv' /\ PinStep /\ Store' = Store
<1>1. PICK i \in FrameIdx :
         /\ ReturnsFrame(i)
         /\ file' = FileAfter(i, file)
         /\ frames' = FramesAfter(i)
         /\ page_table' = TableAfter(i)
         /\ free_list' = FreeListAfter
         /\ clock_hand' = HandAfter(i)
  BY DEF FetchReadFails
<1> DEFINE kept == {q \in DOMAIN page_table : page_table[q] # i}
<1>2. /\ num_pages' = num_pages /\ durable' = durable
  BY DEF FetchReadFails
<1>3. PICK n \in 0 .. num_pages : file \in [0 .. n - 1 -> Image]
  BY DEF PoolInv, PoolTypeOK
<1>4. n \in Nat /\ DOMAIN file = 0 .. n - 1
  BY <1>3 DEF PoolInv, PoolTypeOK
<1>5. /\ file' \in [0 .. n - 1 -> Image]
      /\ \A q \in DOMAIN page_table : page_table[q] = i => file'[q] = frames[i].data
      /\ \A q \in 0 .. n - 1 : q \notin DOMAIN page_table \/ page_table[q] # i => file'[q] = file[q]
  BY <1>1, <1>3, <1>4, EvictedFile
<1>6. /\ frames[i].pin_count = 0
      /\ frames' \in [FrameIdx -> FrameType]
      /\ frames'[i] = Empty
      /\ \A j \in FrameIdx \ {i} :
            /\ Alike(frames'[j], frames[j])
            /\ ~frames[j].some => frames'[j] = Empty
      /\ page_table' = [q \in kept |-> page_table[q]]
      /\ free_list' \in Seq(FrameIdx)
      /\ \A a, b \in 1 .. Len(free_list') :
            /\ free_list'[a] # i /\ ~frames[free_list'[a]].some
            /\ free_list'[a] = free_list'[b] => a = b
      /\ clock_hand' \in FrameIdx
  BY <1>1, FreeFrame, ZenonT(40)
<1>7. /\ page_table \in [DOMAIN page_table -> FrameIdx] /\ DOMAIN page_table \subseteq DOMAIN file
      /\ \A j \in FrameIdx : frames[j] \in FrameType
  BY DEF PoolInv, PoolTypeOK, FrameType
<1>8. ~Empty.some
  BY DEF Empty
<1>9. PoolTypeOK'
  <2>1. \E m \in 0 .. num_pages' : file' \in [0 .. m - 1 -> Image]
    BY <1>2, <1>3, <1>5, Zenon
  <2>2. DOMAIN durable' \subseteq DOMAIN file' /\ durable' \in [DOMAIN durable' -> Image]
    BY <1>2, <1>4, <1>5 DEF PoolInv, PoolTypeOK
  <2>3. \A j \in FrameIdx : ~frames'[j].some => frames'[j] = Empty
    BY <1>6 DEF Alike
  <2>4. DOMAIN page_table' \subseteq DOMAIN file' /\ page_table' \in [DOMAIN page_table' -> FrameIdx]
    BY <1>4, <1>5, <1>6, <1>7
  <2>5. num_pages' \in Nat
    BY <1>2 DEF PoolInv, PoolTypeOK
  <2>6. Empty' = Empty /\ FrameIdx' = FrameIdx /\ Image' = Image
    BY DEF Empty, FrameIdx, Image
  <2> QED BY <1>6, <2>1, <2>2, <2>3, <2>4, <2>5, <2>6 DEF PoolTypeOK, FrameType
<1>10. TableMatchesFrames'
  <2>1. \A q \in DOMAIN page_table' : frames'[page_table'[q]].some /\ frames'[page_table'[q]].page = q
    <3>1. \A q \in kept : page_table[q] \in FrameIdx \ {i}
                          /\ frames[page_table[q]].some /\ frames[page_table[q]].page = q
      BY <1>7 DEF PoolInv, TableMatchesFrames, FrameOf
    <3>2. DOMAIN page_table' = kept /\ \A q \in kept : page_table'[q] = page_table[q]
      BY <1>6
    <3>3. \A j \in FrameIdx \ {i} : frames[j].some =>
             frames'[j].some /\ frames'[j].page = frames[j].page
      BY <1>6 DEF Alike
    <3> HIDE DEF kept
    <3> QED BY <3>1, <3>2, <3>3
  <2>2. \A j \in FrameIdx : frames'[j].some =>
           frames'[j].page \in DOMAIN page_table' /\ page_table'[frames'[j].page] = j
    <3>1. \A j \in FrameIdx \ {i} : frames[j].some =>
             frames[j].page \in kept /\ page_table[frames[j].page] = j
      BY DEF PoolInv, TableMatchesFrames, Cached
    <3> QED BY <1>6, <1>8, <3>1 DEF Alike
  <2>3. \A a, b \in 1 .. Len(free_list') :
           ~frames'[free_list'[a]].some /\ (free_list'[a] = free_list'[b] => a = b)
    <3>1. \A a \in 1 .. Len(free_list') : free_list'[a] \in FrameIdx \ {i}
      BY <1>6
    <3> QED BY <1>6, <3>1 DEF Alike
  <2> QED BY <2>1, <2>2, <2>3 DEF TableMatchesFrames, FrameOf, Cached, FrameIdx
<1>11. CleanMatchesFile'
  <2>1. ASSUME NEW j \in FrameIdx, frames'[j].some, ~frames'[j].dirty
        PROVE  frames'[j].data = file'[frames'[j].page]
    <3>1. j # i
      BY <1>6, <1>8, <2>1
    <3>2. frames[j].some /\ ~frames[j].dirty /\ Alike(frames'[j], frames[j])
      BY <1>6, <2>1, <3>1, Zenon DEF Alike
    <3>3. frames[j].page \in DOMAIN page_table /\ page_table[frames[j].page] = j
          /\ frames[j].data = file[frames[j].page]
      BY <3>2 DEF PoolInv, TableMatchesFrames, CleanMatchesFile, Cached
    <3> QED BY <1>4, <1>5, <1>7, <3>1, <3>2, <3>3 DEF Alike
  <2> QED BY <2>1 DEF CleanMatchesFile, FrameIdx
<1>12. Store' = Store
  <2>1. Store' = [q \in 0 .. n - 1 |->
                    IF q \in DOMAIN page_table' THEN frames'[page_table'[q]].data ELSE file'[q]]
    BY <1>5 DEF Store, Cached, FrameOf
  <2>2. Store = [q \in 0 .. n - 1 |->
                    IF q \in DOMAIN page_table THEN frames[page_table[q]].data ELSE file[q]]
    BY <1>4 DEF Store, Cached, FrameOf
  <2>3. ASSUME NEW q \in 0 .. n - 1
        PROVE  (IF q \in DOMAIN page_table' THEN frames'[page_table'[q]].data ELSE file'[q])
               = (IF q \in DOMAIN page_table THEN frames[page_table[q]].data ELSE file[q])
    <3>1. CASE q \in kept
      <4>1. page_table[q] \in FrameIdx \ {i}
        BY <1>7, <3>1
      <4> QED BY <1>6, <3>1, <4>1 DEF Alike
    <3>2. CASE q \in DOMAIN page_table /\ q \notin kept
      BY <1>5, <1>6, <3>2
    <3>3. CASE q \notin DOMAIN page_table
      BY <1>5, <1>6, <3>3
    <3> QED BY <3>1, <3>2, <3>3
  <2> QED BY <2>1, <2>2, <2>3
<1>13. PinStep
  BY <1>6, AlikePinned
<1> QED BY <1>9, <1>10, <1>11, <1>12, <1>13 DEF PoolInv

\* What the fetches and unpin_page make of a frame is a frame.
LEMMA FrameUpdated ==
  ASSUME NEW g \in FrameType, NEW n \in Nat, NEW b \in BOOLEAN, NEW d \in BOOLEAN, NEW v \in Image
  PROVE  /\ [g EXCEPT !.pin_count = n, !.ref_bit = b] \in FrameType
         /\ [g EXCEPT !.pin_count = n, !.ref_bit = b, !.dirty = d, !.data = v] \in FrameType
         /\ [g EXCEPT !.pin_count = n, !.dirty = d] \in FrameType
<1>1. [g EXCEPT !.pin_count = n, !.ref_bit = b] \in FrameType
  BY Zenon DEF FrameType
<1>2. [g EXCEPT !.pin_count = n, !.ref_bit = b, !.dirty = d, !.data = v] \in FrameType
  BY Zenon DEF FrameType
<1>3. [g EXCEPT !.pin_count = n, !.dirty = d] \in FrameType
  BY Zenon DEF FrameType
<1> QED BY <1>1, <1>2, <1>3

\* The frame of a cached page p becomes fr, which is dirty unless it holds the same clean
\* image as before: callers see the image of fr in p.
LEMMA Touched ==
  ASSUME PoolInv, NEW p, Cached(p), NEW fr \in FrameType, fr.some, fr.page = p,
         ~fr.dirty => ~FrameOf(p).dirty /\ fr.data = FrameOf(p).data,
         fr.pin_count + 1 >= FrameOf(p).pin_count, Touch(p, fr)
  PROVE  PoolInv' /\ PinStep /\ Store' = [Store EXCEPT ![p] = fr.data]
<1> DEFINE i == page_table[p]
<1>1. /\ i \in FrameIdx /\ p \in DOMAIN file
      /\ frames[i].some /\ frames[i].page = p
      /\ frames \in [FrameIdx -> FrameType]
  BY DEF PoolInv, PoolTypeOK, TableMatchesFrames, FrameType, Cached, FrameOf
<1>2. /\ frames' = [frames EXCEPT ![i] = fr]
      /\ UNCHANGED <<num_pages, file, durable, page_table, free_list, clock_hand>>
  BY DEF Touch
<1>3. /\ frames' \in [FrameIdx -> FrameType]
      /\ frames'[i] = fr
      /\ \A j \in FrameIdx \ {i} : frames'[j] = frames[j]
  BY <1>1, <1>2
<1> HIDE DEF i
<1>4. PoolTypeOK'
  <2>1. \A j \in FrameIdx : ~frames'[j].some => frames'[j] = Empty
    BY <1>3, Zenon DEF PoolInv, PoolTypeOK
  <2>2. frames' \in [FrameIdx -> [page : Nat, data : Image, pin_count : Nat, dirty : BOOLEAN,
                                  ref_bit : BOOLEAN, some : BOOLEAN]]
    BY <1>3 DEF FrameType
  <2> QED BY <1>2, <2>1, <2>2, Zenon DEF PoolInv, PoolTypeOK, Empty, FrameIdx, Image
<1>5. TableMatchesFrames'
  <2>1. \A j \in FrameIdx : (frames'[j].some <=> frames[j].some) /\ frames'[j].page = frames[j].page
    BY <1>1, <1>3
  <2>2. /\ \A q \in DOMAIN page_table : page_table[q] \in FrameIdx
        /\ \A a \in 1 .. Len(free_list) : free_list[a] \in FrameIdx
    BY DEF PoolInv, PoolTypeOK
  <2> QED BY <1>2, <2>1, <2>2 DEF PoolInv, TableMatchesFrames, FrameOf, Cached, FrameIdx
<1>6. CleanMatchesFile'
  BY <1>1, <1>2, <1>3 DEF PoolInv, CleanMatchesFile, FrameIdx, FrameOf, i
<1>7. Store' = [Store EXCEPT ![p] = fr.data]
  <2>1. \A q \in DOMAIN page_table : q # p => page_table[q] \in FrameIdx \ {i}
    BY <1>1 DEF PoolInv, PoolTypeOK, TableMatchesFrames, FrameOf
  <2>2. \A q \in DOMAIN file :
           (IF q \in DOMAIN page_table THEN frames'[page_table[q]].data ELSE file[q])
           = [Store EXCEPT ![p] = fr.data][q]
    BY <1>1, <1>3, <2>1 DEF Store, Cached, FrameOf, i
  <2>3. Store' = [q \in DOMAIN file |->
                    IF q \in DOMAIN page_table THEN frames'[page_table[q]].data ELSE file[q]]
    BY <1>2 DEF Store, Cached, FrameOf
  <2>4. DOMAIN Store = DOMAIN file
    BY DEF Store
  <2>5. [Store EXCEPT ![p] = fr.data]
        = [q \in DOMAIN file |-> [Store EXCEPT ![p] = fr.data][q]]
    BY <2>4, Zenon DEF Store
  <2> QED BY <2>2, <2>3, <2>5
<1>8. PinStep
  <2>1. \A j \in FrameIdx : frames[j].pin_count \in Nat /\ (frames[j].pin_count > 0 => frames[j].some)
    BY DEF PoolInv, PoolTypeOK, Empty
  <2>2. fr.pin_count + 1 >= frames[i].pin_count
    BY DEF FrameOf, i
  <2> QED BY <1>1, <1>3, <2>1, <2>2 DEF PinStep
<1> QED BY <1>4, <1>5, <1>6, <1>7, <1>8 DEF PoolInv

\* No page enters, leaves or changes in the pool, and the file may have grown: callers
\* see the old pages as before and the new ones as they are in the file.
LEMMA Undisturbed ==
  ASSUME PoolInv, NEW n \in Nat, file' \in [0 .. n - 1 -> Image],
         num_pages' \in Nat, n <= num_pages',
         DOMAIN file \subseteq 0 .. n - 1, \A p \in DOMAIN file : file'[p] = file[p],
         frames' \in [FrameIdx -> FrameType],
         \A j \in FrameIdx : /\ Alike(frames'[j], frames[j])
                             /\ ~frames[j].some => frames'[j] = Empty,
         clock_hand' \in FrameIdx, UNCHANGED <<durable, page_table, free_list>>
  PROVE  /\ PoolInv' /\ PinStep
         /\ Store' = [q \in 0 .. n - 1 |-> IF q \in DOMAIN file THEN Store[q] ELSE file'[q]]
<1>1. /\ \A q \in DOMAIN page_table : page_table[q] \in FrameIdx
      /\ \A a \in 1 .. Len(free_list) : free_list[a] \in FrameIdx
      /\ DOMAIN page_table \subseteq DOMAIN file
  BY DEF PoolInv, PoolTypeOK
<1>2. PoolTypeOK'
  <2>1. \E m \in 0 .. num_pages' : file' \in [0 .. m - 1 -> Image]
    <3>1. n \in 0 .. num_pages'
      OBVIOUS
    <3> QED BY <3>1, Zenon
  <2>2. \A j \in FrameIdx : ~frames'[j].some => frames'[j] = Empty
    BY DEF Alike
  <2>3. DOMAIN durable' \subseteq DOMAIN file' /\ durable' \in [DOMAIN durable' -> Image]
    BY DEF PoolInv, PoolTypeOK
  <2>4. DOMAIN page_table' \subseteq DOMAIN file'
        /\ page_table' \in [DOMAIN page_table' -> FrameIdx] /\ free_list' \in Seq(FrameIdx)
    BY <1>1 DEF PoolInv, PoolTypeOK
  <2>5. Empty' = Empty /\ FrameIdx' = FrameIdx /\ Image' = Image
    BY DEF Empty, FrameIdx, Image
  <2> QED BY <2>1, <2>2, <2>3, <2>4, <2>5 DEF PoolTypeOK, FrameType
<1>3. TableMatchesFrames'
  <2>1. \A j \in FrameIdx : (frames'[j].some <=> frames[j].some) /\ frames'[j].page = frames[j].page
    BY DEF Alike
  <2>2. page_table' = page_table /\ free_list' = free_list
    OBVIOUS
  <2>3. TableMatchesFrames
    BY DEF PoolInv
  <2>4. /\ \A q \in DOMAIN page_table : frames'[page_table[q]].some /\ frames'[page_table[q]].page = q
        /\ \A j \in FrameIdx : frames'[j].some =>
              frames'[j].page \in DOMAIN page_table /\ page_table[frames'[j].page] = j
    BY <1>1, <2>1, <2>3 DEF TableMatchesFrames, FrameOf, Cached
  <2>5. \A a, b \in 1 .. Len(free_list) :
           ~frames'[free_list[a]].some /\ (free_list[a] = free_list[b] => a = b)
    BY <1>1, <2>1, <2>3 DEF TableMatchesFrames
  <2> QED BY <2>2, <2>4, <2>5 DEF TableMatchesFrames, FrameOf, Cached, FrameIdx
<1>4. CleanMatchesFile'
  <2>1. \A j \in FrameIdx : frames[j].some => frames[j].page \in DOMAIN file
    BY <1>1 DEF PoolInv, TableMatchesFrames, Cached
  <2> QED BY <2>1 DEF PoolInv, CleanMatchesFile, FrameIdx, Alike
<1>5. Store' = [q \in 0 .. n - 1 |-> IF q \in DOMAIN file THEN Store[q] ELSE file'[q]]
  <2>1. Store' = [q \in 0 .. n - 1 |->
                    IF q \in DOMAIN page_table THEN frames'[page_table[q]].data ELSE file'[q]]
    BY DEF Store, Cached, FrameOf
  <2>2. \A q \in 0 .. n - 1 :
           (IF q \in DOMAIN page_table THEN frames'[page_table[q]].data ELSE file'[q])
           = (IF q \in DOMAIN file THEN Store[q] ELSE file'[q])
    BY <1>1 DEF Store, Cached, FrameOf, Alike
  <2> QED BY <2>1, <2>2
<1>6. PinStep
  BY AlikePinned
<1> QED BY <1>2, <1>3, <1>4, <1>5, <1>6 DEF PoolInv

\* The write of a dirty victim failed: only ref bits have changed, and the hand.
LEMMA SweptOnly ==
  ASSUME PoolInv, EvictionFails
  PROVE  /\ frames' \in [FrameIdx -> FrameType]
         /\ \A j \in FrameIdx : /\ Alike(frames'[j], frames[j])
                                /\ ~frames[j].some => frames'[j] = Empty
         /\ clock_hand' \in FrameIdx
         /\ UNCHANGED <<page_table, free_list>>
<1>1. PICK i \in FrameIdx : frames' = Swept(i) /\ clock_hand' = i
                            /\ UNCHANGED <<page_table, free_list>>
  BY DEF EvictionFails
<1>2. \A j \in FrameIdx : frames[j] \in FrameType /\ (~frames[j].some => frames[j] = Empty)
  BY DEF PoolInv, PoolTypeOK, FrameType
<1>3. \A j \in FrameIdx : frames'[j] = IF Unpinned(j) /\ PassedBy(j, i)
                                       THEN [frames[j] EXCEPT !.ref_bit = FALSE] ELSE frames[j]
  BY <1>1 DEF Swept
<1>4. \A j \in FrameIdx : /\ frames'[j] \in FrameType
                          /\ Alike(frames'[j], frames[j])
                          /\ ~frames[j].some => frames'[j] = Empty
  BY <1>2, <1>3, Zenon DEF FrameType, Alike, Unpinned
<1>5. frames' = [j \in FrameIdx |-> frames'[j]]
  BY <1>1 DEF Swept
<1> QED BY <1>1, <1>4, <1>5

\* The dirty pages in the frames of S have been written and marked clean: callers see no
\* difference, and once all frames are in S the file is what callers see.
LEMMA Cleaned ==
  ASSUME PoolInv, NEW S,
         frames' = [i \in FrameIdx |-> IF frames[i].some /\ i \in S
                                       THEN [frames[i] EXCEPT !.dirty = FALSE] ELSE frames[i]],
         file' = [q \in DOMAIN file |->
                    IF Cached(q) /\ page_table[q] \in S /\ FrameOf(q).dirty
                    THEN FrameOf(q).data ELSE file[q]],
         durable' = durable \/ durable' = file',
         UNCHANGED <<num_pages, page_table, free_list, clock_hand>>
  PROVE  PoolInv' /\ PinStep /\ Store' = Store /\ (FrameIdx \subseteq S => file' = Store)
<1>1. /\ page_table \in [DOMAIN page_table -> FrameIdx]
      /\ \A a \in 1 .. Len(free_list) : free_list[a] \in FrameIdx
      /\ DOMAIN page_table \subseteq DOMAIN file
      /\ \A j \in FrameIdx : frames[j] \in FrameType /\ (~frames[j].some => frames[j] = Empty)
  BY DEF PoolInv, PoolTypeOK, FrameType
<1>2. /\ \A q \in DOMAIN page_table : frames[page_table[q]].some /\ frames[page_table[q]].page = q
      /\ \A j \in FrameIdx : frames[j].some =>
            frames[j].page \in DOMAIN page_table /\ page_table[frames[j].page] = j
      /\ \A a, b \in 1 .. Len(free_list) :
            ~frames[free_list[a]].some /\ (free_list[a] = free_list[b] => a = b)
  BY DEF PoolInv, TableMatchesFrames, FrameOf, Cached
<1>3. \A j \in FrameIdx :
         /\ frames'[j] \in FrameType
         /\ (frames'[j].some <=> frames[j].some) /\ frames'[j].page = frames[j].page
         /\ frames'[j].data = frames[j].data /\ frames'[j].pin_count = frames[j].pin_count
         /\ frames'[j].dirty <=> frames[j].dirty /\ ~(frames[j].some /\ j \in S)
         /\ ~frames[j].some => frames'[j] = Empty
  BY <1>1, Zenon DEF FrameType
<1>4. \A q \in DOMAIN file :
         file'[q] = IF q \in DOMAIN page_table /\ page_table[q] \in S /\ frames[page_table[q]].dirty
                    THEN frames[page_table[q]].data ELSE file[q]
  BY DEF Cached, FrameOf
<1>5. PICK n \in 0 .. num_pages : file \in [0 .. n - 1 -> Image]
  BY DEF PoolInv, PoolTypeOK
<1>6. file' \in [0 .. n - 1 -> Image]
  <2>1. \A q \in DOMAIN file : file'[q] \in Image
    BY <1>1, <1>4, <1>5 DEF FrameType
  <2>2. DOMAIN file = 0 .. n - 1
    BY <1>5
  <2>3. file' = [q \in DOMAIN file |-> file'[q]]
    OBVIOUS
  <2> QED BY <2>1, <2>2, <2>3
<1>7. PoolTypeOK'
  <2>1. \E m \in 0 .. num_pages' : file' \in [0 .. m - 1 -> Image]
    BY <1>5, <1>6, Zenon
  <2>2. DOMAIN durable' \subseteq DOMAIN file' /\ durable' \in [DOMAIN durable' -> Image]
    <3>1. CASE durable' = durable
      BY <3>1 DEF PoolInv, PoolTypeOK
    <3>2. CASE durable' = file'
      BY <1>6, <3>2
    <3> QED BY <3>1, <3>2
  <2>3. frames' \in [FrameIdx -> FrameType]
    <3>1. frames' = [j \in FrameIdx |-> frames'[j]]
      OBVIOUS
    <3> QED BY <1>3, <3>1
  <2>4. \A j \in FrameIdx : ~frames'[j].some => frames'[j] = Empty
    BY <1>3, Zenon
  <2>5. /\ num_pages' \in Nat /\ clock_hand' \in FrameIdx /\ free_list' \in Seq(FrameIdx)
        /\ DOMAIN page_table' \subseteq DOMAIN file'
        /\ page_table' \in [DOMAIN page_table' -> FrameIdx]
    BY <1>1 DEF PoolInv, PoolTypeOK
  <2>6. Empty' = Empty /\ FrameIdx' = FrameIdx /\ Image' = Image
    BY DEF Empty, FrameIdx, Image
  <2> QED BY <2>1, <2>2, <2>3, <2>4, <2>5, <2>6 DEF PoolTypeOK, FrameType
<1>8. TableMatchesFrames'
  <2>1. /\ \A q \in DOMAIN page_table : frames'[page_table[q]].some /\ frames'[page_table[q]].page = q
        /\ \A j \in FrameIdx : frames'[j].some =>
              frames'[j].page \in DOMAIN page_table /\ page_table[frames'[j].page] = j
    BY <1>1, <1>2, <1>3
  <2>2. \A a, b \in 1 .. Len(free_list) :
           ~frames'[free_list[a]].some /\ (free_list[a] = free_list[b] => a = b)
    BY <1>1, <1>2, <1>3
  <2>3. page_table' = page_table /\ free_list' = free_list /\ FrameIdx' = FrameIdx
    BY DEF FrameIdx
  <2>4. \A q \in DOMAIN page_table' : FrameOf(q)'.some /\ FrameOf(q)'.page = q
    BY <2>1, <2>3, Zenon DEF FrameOf
  <2>5. \A j \in FrameIdx' : frames'[j].some =>
           Cached(frames[j].page)' /\ page_table'[frames'[j].page] = j
    BY <2>1, <2>3, Zenon DEF Cached
  <2>6. \A a, b \in 1 .. Len(free_list') :
           /\ ~frames'[free_list'[a]].some
           /\ free_list'[a] = free_list'[b] => a = b
    BY <2>2, <2>3
  <2> QED BY <2>4, <2>5, <2>6, Zenon DEF TableMatchesFrames
<1>9. CleanMatchesFile'
  <2>1. ASSUME NEW j \in FrameIdx, frames'[j].some, ~frames'[j].dirty
        PROVE  frames'[j].data = file'[frames'[j].page]
    <3>1. /\ frames[j].some /\ frames[j].page \in DOMAIN page_table
          /\ page_table[frames[j].page] = j /\ frames[j].page \in DOMAIN file
      BY <1>1, <1>2, <1>3, <2>1
    <3>2. CASE frames[j].dirty
      BY <1>3, <1>4, <2>1, <3>1, <3>2
    <3>3. CASE ~frames[j].dirty
      <4>1. frames[j].data = file[frames[j].page]
        BY <3>1, <3>3 DEF PoolInv, CleanMatchesFile
      <4> QED BY <1>3, <1>4, <3>1, <3>3, <4>1
    <3> QED BY <3>2, <3>3
  <2> QED BY <2>1 DEF CleanMatchesFile, FrameIdx
<1>10. Store' = Store
  <2>1. Store' = [q \in DOMAIN file |->
                    IF q \in DOMAIN page_table THEN frames'[page_table[q]].data ELSE file'[q]]
    BY DEF Store, Cached, FrameOf
  <2>2. \A q \in DOMAIN file :
           (IF q \in DOMAIN page_table THEN frames'[page_table[q]].data ELSE file'[q])
           = (IF q \in DOMAIN page_table THEN frames[page_table[q]].data ELSE file[q])
    BY <1>1, <1>3, <1>4
  <2> QED BY <2>1, <2>2 DEF Store, Cached, FrameOf
<1>11. ASSUME FrameIdx \subseteq S
       PROVE  file' = Store
  <2>1. ASSUME NEW q \in DOMAIN page_table, ~frames[page_table[q]].dirty
        PROVE  file[q] = frames[page_table[q]].data
    BY <1>1, <1>2, <2>1 DEF PoolInv, CleanMatchesFile
  <2>2. \A q \in DOMAIN file :
           file'[q] = IF q \in DOMAIN page_table THEN frames[page_table[q]].data ELSE file[q]
    BY <1>1, <1>4, <1>11, <2>1
  <2>3. file' = [q \in DOMAIN file |-> file'[q]]
    OBVIOUS
  <2> QED BY <2>2, <2>3 DEF Store, Cached, FrameOf
<1>12. PinStep
  <2>1. \A j \in FrameIdx : frames[j].pin_count \in Nat /\ (frames[j].pin_count > 0 => frames[j].some)
    BY DEF PoolInv, PoolTypeOK, Empty
  <2> QED BY <1>3, <2>1 DEF PinStep
<1> QED BY <1>7, <1>8, <1>9, <1>10, <1>11, <1>12 DEF PoolInv

-----------------------------------------------------------------------------
(* The steps of PageStore that the methods are                             *)

StoreStep == AsStore!Next \/ UNCHANGED <<Store, durable>>

\* Writing one page is a Write of PageStore.
LEMMA IsWrite ==
  ASSUME NEW p \in DOMAIN file, NEW v \in Images,
         Store' = [Store EXCEPT ![p] = v], durable' = durable
  PROVE  StoreStep
<1>1. AsStore!Write(p, v)
  BY DEF AsStore!Write, Store
<1>2. p \in DOMAIN Store
  BY DEF Store
<1> QED BY <1>1, <1>2 DEF StoreStep, AsStore!Next, Store

\* Growing the file to page num_pages is an Allocate of PageStore.
LEMMA IsAllocate ==
  ASSUME PoolInv, num_pages < MaxPages, NEW v \in {Zero, Blank}, durable' = durable,
         Store' = [q \in 0 .. num_pages |-> IF q \in DOMAIN file THEN Store[q]
                                            ELSE IF q = num_pages THEN v ELSE Zero]
  PROVE  StoreStep
<1>1. DOMAIN Store = DOMAIN file
  BY DEF Store
<1>2. num_pages \in PageIds /\ num_pages \notin DOMAIN Store
  <2>1. PICK n \in 0 .. num_pages : file \in [0 .. n - 1 -> Image]
    BY DEF PoolInv, PoolTypeOK
  <2>2. num_pages \in Nat
    BY DEF PoolInv, PoolTypeOK
  <2> QED BY <1>1, <2>1, <2>2, BoundsAssumption DEF PageIds
<1>3. Store' = [q \in 0 .. num_pages |-> IF q \in DOMAIN Store THEN Store[q]
                                         ELSE IF q = num_pages THEN v ELSE Zero]
  BY <1>1
<1>4. AsStore!Allocate(num_pages, v)
  BY <1>2, <1>3 DEF AsStore!Allocate, Store
<1> QED BY <1>2, <1>4 DEF StoreStep, AsStore!Next

\* Making everything durable is the MakeStable of PageStore.
LEMMA IsMakeStable ==
  ASSUME Store' = Store, durable' = Store
  PROVE  StoreStep
<1>1. AsStore!MakeStable
  BY DEF AsStore!MakeStable, Store
<1> QED BY <1>1 DEF StoreStep, AsStore!Next

-----------------------------------------------------------------------------
(* One step per action                                                     *)

\* An uncached page of the file is installed: callers see it as it is in the frame.
LEMMA Missed ==
  ASSUME PoolInv, NEW p, ~Cached(p), CanRead(p), NEW i \in FrameIdx, ReturnsFrame(i),
         file' = FileAfter(i, file), NEW v, NEW d \in BOOLEAN,
         (d /\ v \in Image) \/ v = file'[p],
         Install(p, i, Frame(p, v, 1, d)), UNCHANGED <<num_pages, durable>>
  PROVE  /\ PoolInv' /\ PinStep
         /\ Store' = [Store EXCEPT ![p] = v]
         /\ file'[p] = Store[p]
<1>1. PICK n \in 0 .. num_pages : file \in [0 .. n - 1 -> Image]
  BY DEF PoolInv, PoolTypeOK
<1>2. n \in Nat /\ DOMAIN file = 0 .. n - 1 /\ num_pages' \in Nat /\ n <= num_pages'
  BY <1>1 DEF PoolInv, PoolTypeOK
<1>3. file' \in [0 .. n - 1 -> Image] /\ file'[p] = file[p] /\ p \in 0 .. n - 1
  <2>1. /\ FileAfter(i, file) \in [0 .. n - 1 -> Image]
        /\ \A q \in 0 .. n - 1 : q \notin DOMAIN page_table \/ page_table[q] # i
                                 => FileAfter(i, file)[q] = file[q]
    BY <1>1, <1>2, EvictedFile
  <2>2. p \in 0 .. n - 1 /\ p \notin DOMAIN page_table
    BY <1>2 DEF Cached, CanRead
  <2> QED BY <2>1, <2>2
<1>4. Store[p] = file[p] /\ DOMAIN Store = DOMAIN file
  BY <1>2, <1>3 DEF Store
<1> DEFINE fr == Frame(p, v, 1, d)
<1>5. /\ fr \in FrameType /\ fr.some /\ fr.page = p /\ fr.data = v
      /\ fr.dirty \/ fr.data = file'[p]
  <2>1. v \in Image /\ p \in Nat
    BY <1>2, <1>3
  <2> QED BY <2>1 DEF Frame, FrameType
<1> HIDE DEF fr
<1>6. Install(p, i, fr)
  BY DEF fr
<1>7. /\ PoolInv'
      /\ Store' = [q \in 0 .. n - 1 |->
                     IF q = p THEN fr.data ELSE IF q \in DOMAIN file THEN Store[q] ELSE file[q]]
      /\ \A j \in FrameIdx : frames[j].pin_count > 0 => Alike(frames'[j], frames[j])
  BY <1>1, <1>2, <1>3, <1>5, <1>6, Installed
<1>8. Store' = [Store EXCEPT ![p] = v]
  BY <1>2, <1>4, <1>5, <1>7 DEF Store
<1>9. PinStep
  <2>1. frames' \in [FrameIdx -> FrameType]
    BY <1>7 DEF PoolInv, PoolTypeOK, FrameType, FrameIdx, Image
  <2> QED BY <1>7, <2>1, AlikePinned
<1> QED BY <1>3, <1>4, <1>7, <1>8, <1>9, Zenon

\* The file has grown by page num_pages while no page entered or left the pool.
LEMMA Grown ==
  ASSUME PoolInv, num_pages < MaxPages, AllocatePage, durable' = durable,
         frames' \in [FrameIdx -> FrameType],
         \A j \in FrameIdx : /\ Alike(frames'[j], frames[j])
                             /\ ~frames[j].some => frames'[j] = Empty,
         clock_hand' \in FrameIdx, UNCHANGED <<page_table, free_list>>
  PROVE  PoolInv' /\ PinStep /\ StoreStep
<1>1. PICK m \in 0 .. num_pages : file \in [0 .. m - 1 -> Image]
  BY DEF PoolInv, PoolTypeOK
<1> DEFINE n == num_pages + 1
<1>2. /\ n \in Nat /\ num_pages' = n /\ n <= num_pages' /\ 0 .. n - 1 = 0 .. num_pages
      /\ DOMAIN file \subseteq 0 .. n - 1 /\ num_pages \notin DOMAIN file
      /\ \A q \in DOMAIN file : file[q] \in Image
  BY <1>1 DEF PoolInv, PoolTypeOK, AllocatePage
<1>3. /\ file' \in [0 .. n - 1 -> Image]
      /\ \A q \in 0 .. num_pages : file'[q] = IF q \in DOMAIN file THEN file[q] ELSE Zero
  BY <1>2 DEF AllocatePage, Extended, Image
<1> HIDE DEF n
<1>4. /\ PoolInv' /\ PinStep
      /\ Store' = [q \in 0 .. n - 1 |-> IF q \in DOMAIN file THEN Store[q] ELSE file'[q]]
  <2>1. \A q \in DOMAIN file : file'[q] = file[q]
    BY <1>2, <1>3, Zenon
  <2> QED BY <1>2, <1>3, <2>1, Undisturbed
<1>5. Store' = [q \in 0 .. num_pages |-> IF q \in DOMAIN file THEN Store[q]
                                         ELSE IF q = num_pages THEN Zero ELSE Zero]
  BY <1>2, <1>3, <1>4, Zenon
<1>6. StoreStep
  BY <1>5, IsAllocate
<1> QED BY <1>4, <1>6

\* Nothing but ref bits, the hand and the page counter has changed.
LEMMA Unseen ==
  ASSUME PoolInv, num_pages' \in Nat, num_pages <= num_pages',
         frames' \in [FrameIdx -> FrameType],
         \A j \in FrameIdx : /\ Alike(frames'[j], frames[j])
                             /\ ~frames[j].some => frames'[j] = Empty,
         clock_hand' \in FrameIdx, UNCHANGED <<file, durable, page_table, free_list>>
  PROVE  PoolInv' /\ PinStep /\ StoreStep
<1>1. PICK n \in 0 .. num_pages : file \in [0 .. n - 1 -> Image]
  BY DEF PoolInv, PoolTypeOK
<1>2. n \in Nat /\ n <= num_pages' /\ DOMAIN file = 0 .. n - 1 /\ file' \in [0 .. n - 1 -> Image]
  BY <1>1 DEF PoolInv, PoolTypeOK
<1>3. /\ PoolInv' /\ PinStep
      /\ Store' = [q \in 0 .. n - 1 |-> IF q \in DOMAIN file THEN Store[q] ELSE file'[q]]
  BY <1>2, Undisturbed
<1>4. Store' = Store
  BY <1>2, <1>3 DEF Store
<1> QED BY <1>3, <1>4 DEF StoreStep

\* NewPage puts the page it has just allocated in a frame, dirty and Blank.
LEMMA Created ==
  ASSUME PoolInv, NewPage
  PROVE  PoolInv' /\ PinStep /\ StoreStep
<1>1. PICK i \in FrameIdx :
         /\ ReturnsFrame(i)
         /\ num_pages' = num_pages + 1
         /\ file' = FileAfter(i, Extended(file, num_pages))
         /\ Install(num_pages, i, Frame(num_pages, Blank, 1, TRUE))
  BY Zenon DEF NewPage
<1>2. num_pages < MaxPages /\ durable' = durable
  BY DEF NewPage
<1>3. PICK m \in 0 .. num_pages : file \in [0 .. m - 1 -> Image]
  BY DEF PoolInv, PoolTypeOK
<1> DEFINE n == num_pages + 1
           f == Extended(file, num_pages)
           fr == Frame(num_pages, Blank, 1, TRUE)
<1>4. /\ n \in Nat /\ num_pages' = n /\ n <= num_pages' /\ 0 .. n - 1 = 0 .. num_pages
      /\ num_pages \in Nat /\ num_pages \in 0 .. n - 1
      /\ DOMAIN file \subseteq 0 .. n - 1 /\ num_pages \notin DOMAIN file
      /\ \A q \in DOMAIN file : file[q] \in Image
  BY <1>1, <1>3 DEF PoolInv, PoolTypeOK
<1>5. /\ f \in [0 .. n - 1 -> Image]
      /\ \A q \in 0 .. num_pages : f[q] = IF q \in DOMAIN file THEN file[q] ELSE Zero
      /\ \A q \in DOMAIN file : f[q] = file[q]
  BY <1>4 DEF Extended, Image
<1>6. ~Cached(num_pages)
  BY <1>4 DEF PoolInv, PoolTypeOK, Cached
<1>7. fr \in FrameType /\ fr.some /\ fr.page = num_pages /\ fr.dirty /\ fr.data = Blank
  BY <1>4 DEF Frame, FrameType, Image
<1>8. file' = FileAfter(i, f) /\ Install(num_pages, i, fr)
  BY <1>1, Zenon
<1> HIDE DEF n, f, fr
<1>9. /\ PoolInv'
      /\ Store' = [q \in 0 .. n - 1 |->
                     IF q = num_pages THEN fr.data ELSE IF q \in DOMAIN file THEN Store[q] ELSE f[q]]
      /\ \A j \in FrameIdx : frames[j].pin_count > 0 => Alike(frames'[j], frames[j])
  <2>1. /\ ReturnsFrame(i) /\ durable' = durable
        /\ n \in Nat /\ num_pages' \in Nat /\ n <= num_pages' /\ num_pages \in 0 .. n - 1
        /\ DOMAIN file \subseteq 0 .. n - 1
    BY <1>1, <1>2, <1>4
  <2>2. f \in [0 .. n - 1 -> Image] /\ \A q \in DOMAIN file : f[q] = file[q]
    BY <1>5
  <2>3. fr \in FrameType /\ fr.some /\ fr.page = num_pages /\ (fr.dirty \/ fr.data = file'[num_pages])
    BY <1>7
  <2> QED BY <1>6, <1>8, <2>1, <2>2, <2>3, Installed, SMTT(30)
<1>10. Store' = [q \in 0 .. num_pages |-> IF q \in DOMAIN file THEN Store[q]
                                          ELSE IF q = num_pages THEN Blank ELSE Zero]
  BY <1>4, <1>5, <1>7, <1>9
<1>11. StoreStep
  BY <1>2, <1>10, IsAllocate
<1>12. PinStep
  <2>1. frames' \in [FrameIdx -> FrameType]
    BY <1>9 DEF PoolInv, PoolTypeOK, FrameType, FrameIdx, Image
  <2> QED BY <1>9, <2>1, AlikePinned
<1> QED BY <1>9, <1>11, <1>12

\* Every method keeps the invariant and the pinned pages, and is a step of PageStore or
\* none that callers can see.
LEMMA Steps ==
  ASSUME PoolInv, PoolNext
  PROVE  PoolInv' /\ PinStep /\ StoreStep
<1> DEFINE Good == PoolInv' /\ PinStep /\ StoreStep
<1>0. /\ frames \in [FrameIdx -> FrameType] /\ clock_hand \in FrameIdx /\ num_pages \in Nat
      /\ \A j \in FrameIdx : Alike(frames[j], frames[j]) /\ (~frames[j].some => frames[j] = Empty)
      /\ DOMAIN page_table \subseteq DOMAIN file
  BY DEF PoolInv, PoolTypeOK, FrameType, Alike
<1>a. ASSUME NEW p, Cached(p)
      PROVE  /\ p \in DOMAIN file /\ page_table[p] \in FrameIdx
             /\ FrameOf(p) \in FrameType /\ FrameOf(p).some /\ FrameOf(p).page = p
             /\ Store[p] = FrameOf(p).data /\ Store = [Store EXCEPT ![p] = Store[p]]
  <2>1. p \in DOMAIN page_table /\ page_table[p] \in FrameIdx /\ p \in DOMAIN file
    BY <1>0, <1>a DEF PoolInv, PoolTypeOK, Cached
  <2>2. FrameOf(p) \in FrameType /\ FrameOf(p).some /\ FrameOf(p).page = p
    BY <1>0, <2>1 DEF PoolInv, TableMatchesFrames, FrameOf
  <2>3. Store[p] = FrameOf(p).data /\ Store = [q \in DOMAIN file |-> Store[q]]
    BY <1>a, <2>1 DEF Store
  <2>4. Store = [Store EXCEPT ![p] = Store[p]]
    BY <2>3
  <2> QED BY <2>1, <2>2, <2>3, <2>4
<1>1. ASSUME NEW p \in PageIds, FetchHit(p) PROVE Good
  <2> DEFINE fr == [FrameOf(p) EXCEPT !.pin_count = @ + 1, !.ref_bit = TRUE]
  <2>1. Cached(p) /\ Touch(p, fr)
    BY <1>1 DEF FetchHit
  <2>2. /\ fr \in FrameType /\ fr.some /\ fr.page = p /\ fr.data = FrameOf(p).data
        /\ ~fr.dirty => ~FrameOf(p).dirty
        /\ fr.pin_count + 1 >= FrameOf(p).pin_count
    <3>1. FrameOf(p) \in FrameType /\ FrameOf(p).some /\ FrameOf(p).page = p
      BY <1>a, <2>1
    <3>2. FrameOf(p).pin_count \in Nat /\ FrameOf(p).dirty \in BOOLEAN /\ FrameOf(p).data \in Image
      BY <3>1 DEF FrameType
    <3>3. fr \in FrameType
      <4>1. FrameOf(p).pin_count + 1 \in Nat /\ TRUE \in BOOLEAN
        BY <3>2
      <4> QED BY <3>1, <3>2, <4>1, FrameUpdated, Zenon
    <3> QED BY <3>1, <3>2, <3>3 DEF FrameType
  <2> HIDE DEF fr
  <2>3. PoolInv' /\ PinStep /\ Store' = [Store EXCEPT ![p] = fr.data]
    BY <2>1, <2>2, Touched
  <2>4. Store' = Store /\ durable' = durable
    BY <1>a, <2>1, <2>2, <2>3 DEF Touch
  <2> QED BY <2>3, <2>4 DEF StoreStep
<1>2. ASSUME NEW p \in PageIds, FetchMiss(p) PROVE Good
  <2>1. PICK i \in FrameIdx : /\ ReturnsFrame(i)
                              /\ file' = FileAfter(i, file)
                              /\ Install(p, i, Frame(p, file'[p], 1, FALSE))
    BY <1>2, Zenon DEF FetchMiss
  <2>2. ~Cached(p) /\ CanRead(p) /\ UNCHANGED <<num_pages, durable>>
    BY <1>2 DEF FetchMiss
  <2>3. /\ PoolInv' /\ PinStep
        /\ Store' = [Store EXCEPT ![p] = file'[p]]
        /\ file'[p] = Store[p]
    BY <2>1, <2>2, Missed, Zenon
  <2>4. Store' = Store
    BY <2>3 DEF Store
  <2> QED BY <2>2, <2>3, <2>4 DEF StoreStep
<1>3. ASSUME NEW p \in PageIds, FetchReadFails(p) PROVE Good
  <2>1. durable' = durable
    BY <1>3 DEF FetchReadFails
  <2> QED BY <1>3, <2>1, Freed DEF StoreStep
<1>4. ASSUME NEW p \in PageIds, FetchEvictionFails(p) PROVE Good
  <2>1. EvictionFails /\ UNCHANGED diskVars
    BY <1>4 DEF FetchEvictionFails
  <2>2. num_pages' \in Nat /\ num_pages <= num_pages' /\ UNCHANGED <<file, durable>>
    BY <1>0, <2>1 DEF diskVars
  <2> QED BY <2>1, <2>2, SweptOnly, Unseen
<1>5. ASSUME NEW p \in PageIds, NEW v \in Images, FetchMutHit(p, v) PROVE Good
  <2> DEFINE fr == [FrameOf(p) EXCEPT !.pin_count = @ + 1, !.ref_bit = TRUE,
                                      !.dirty = TRUE, !.data = v]
  <2>1. Cached(p) /\ Touch(p, fr)
    BY <1>5 DEF FetchMutHit
  <2>2. /\ fr \in FrameType /\ fr.some /\ fr.page = p /\ fr.data = v /\ fr.dirty
        /\ fr.pin_count + 1 >= FrameOf(p).pin_count
    <3>1. FrameOf(p) \in FrameType /\ FrameOf(p).some /\ FrameOf(p).page = p
      BY <1>a, <2>1
    <3>2. FrameOf(p).pin_count \in Nat /\ FrameOf(p).dirty \in BOOLEAN /\ FrameOf(p).data \in Image
      BY <3>1 DEF FrameType
    <3>3. fr \in FrameType
      <4>1. FrameOf(p).pin_count + 1 \in Nat /\ TRUE \in BOOLEAN /\ v \in Image
        BY <3>2 DEF Image
      <4> QED BY <3>1, <4>1, FrameUpdated, Zenon
    <3> QED BY <3>1, <3>2, <3>3 DEF FrameType
  <2> HIDE DEF fr
  <2>3. PoolInv' /\ PinStep /\ Store' = [Store EXCEPT ![p] = fr.data]
    BY <2>1, <2>2, Touched
  <2>4. durable' = durable
    BY <2>1 DEF Touch
  <2> QED BY <1>a, <2>1, <2>2, <2>3, <2>4, IsWrite, Zenon
<1>6. ASSUME NEW p \in PageIds, NEW v \in Images, FetchMutMiss(p, v) PROVE Good
  <2>1. PICK i \in FrameIdx : /\ ReturnsFrame(i)
                              /\ file' = FileAfter(i, file)
                              /\ Install(p, i, Frame(p, v, 1, TRUE))
    BY <1>6, Zenon DEF FetchMutMiss
  <2>2. ~Cached(p) /\ CanRead(p) /\ UNCHANGED <<num_pages, durable>> /\ v \in Image
    BY <1>6 DEF FetchMutMiss, Image
  <2>3. PoolInv' /\ PinStep /\ Store' = [Store EXCEPT ![p] = v]
    BY <2>1, <2>2, Missed, Zenon
  <2> QED BY <2>2, <2>3, IsWrite, Zenon DEF CanRead
<1>7. ASSUME NEW p \in PageIds, NEW d \in BOOLEAN, UnpinPage(p, d) PROVE Good
  <2> DEFINE fr == [FrameOf(p) EXCEPT !.pin_count = IF @ > 0 THEN @ - 1 ELSE @,
                                      !.dirty = @ \/ d]
  <2>1. Cached(p) /\ Touch(p, fr)
    BY <1>7 DEF UnpinPage
  <2>2. /\ fr \in FrameType /\ fr.some /\ fr.page = p /\ fr.data = FrameOf(p).data
        /\ ~fr.dirty => ~FrameOf(p).dirty
        /\ fr.pin_count + 1 >= FrameOf(p).pin_count
    <3>1. FrameOf(p) \in FrameType /\ FrameOf(p).some /\ FrameOf(p).page = p
      BY <1>a, <2>1
    <3>2. FrameOf(p).pin_count \in Nat /\ FrameOf(p).dirty \in BOOLEAN /\ FrameOf(p).data \in Image
      BY <3>1 DEF FrameType
    <3>3. fr \in FrameType
      <4>1. /\ (IF FrameOf(p).pin_count > 0 THEN FrameOf(p).pin_count - 1 ELSE FrameOf(p).pin_count) \in Nat
            /\ (FrameOf(p).dirty \/ d) \in BOOLEAN
        BY <3>2
      <4> QED BY <3>1, <3>2, <4>1, FrameUpdated, Zenon
    <3> QED BY <3>1, <3>2, <3>3 DEF FrameType
  <2> HIDE DEF fr
  <2>3. PoolInv' /\ PinStep /\ Store' = [Store EXCEPT ![p] = fr.data]
    BY <2>1, <2>2, Touched
  <2>4. Store' = Store /\ durable' = durable
    BY <1>a, <2>1, <2>2, <2>3 DEF Touch
  <2> QED BY <2>3, <2>4 DEF StoreStep
<1>8. ASSUME NEW p \in PageIds, FlushPage(p) PROVE Good
  <2> DEFINE S == {page_table[p]}
  <2>1. /\ Cached(p) /\ FrameOf(p).dirty
        /\ file' = [file EXCEPT ![p] = FrameOf(p).data]
        /\ frames' = [frames EXCEPT ![page_table[p]].dirty = FALSE]
        /\ UNCHANGED <<num_pages, durable, page_table, free_list, clock_hand>>
    BY <1>8 DEF FlushPage, WritePage
  <2>2. \A q \in DOMAIN page_table : page_table[q] \in S => q = p
    BY <1>a, <2>1 DEF PoolInv, TableMatchesFrames, FrameOf
  <2>3. file' = [q \in DOMAIN file |->
                   IF Cached(q) /\ page_table[q] \in S /\ FrameOf(q).dirty
                   THEN FrameOf(q).data ELSE file[q]]
    <3>1. \E n \in 0 .. num_pages : file \in [0 .. n - 1 -> Image]
      BY DEF PoolInv, PoolTypeOK
    <3>2. file = [q \in DOMAIN file |-> file[q]]
      BY <3>1
    <3> QED BY <2>1, <2>2, <3>2, Zenon DEF Cached
  <2>4. frames' = [i \in FrameIdx |-> IF frames[i].some /\ i \in S
                                      THEN [frames[i] EXCEPT !.dirty = FALSE] ELSE frames[i]]
    BY <1>0, <1>a, <2>1, Zenon DEF FrameOf
  <2> HIDE DEF S
  <2>5. PoolInv' /\ PinStep /\ Store' = Store
    BY <2>1, <2>3, <2>4, Cleaned, Zenon
  <2> QED BY <2>1, <2>5 DEF StoreStep
<1>9. CASE NewPage
  BY <1>9, Created
<1>10. CASE NewPageAllocationFails
  <2>1. /\ num_pages' = num_pages + 1
        /\ UNCHANGED <<file, durable, frames, page_table, free_list, clock_hand>>
    BY <1>10 DEF NewPageAllocationFails, AllocatePageFails
  <2>2. num_pages' \in Nat /\ num_pages <= num_pages'
    BY <1>0, <2>1
  <2> QED BY <1>0, <2>1, <2>2, Unseen
<1>11. CASE NewPagePoolFull
  <2>1. /\ num_pages < MaxPages /\ AllocatePage
        /\ UNCHANGED <<durable, frames, page_table, free_list, clock_hand>>
    BY <1>11 DEF NewPagePoolFull
  <2> QED BY <1>0, <2>1, Grown
<1>12. CASE NewPageEvictionFails
  <2>1. num_pages < MaxPages /\ EvictionFails /\ AllocatePage /\ durable' = durable
    BY <1>12 DEF NewPageEvictionFails
  <2> QED BY <2>1, SweptOnly, Grown
<1>13. ASSUME NEW n \in Nat, FlushedBelow(n), durable' = durable \/ durable' = file'
       PROVE  /\ PoolInv' /\ PinStep /\ Store' = Store
              /\ n = Capacity => file' = Store
  <2> DEFINE S == {j \in Nat : j < n}
  <2>1. \A j \in FrameIdx : j \in S <=> j < n
    BY DEF FrameIdx
  <2>2. frames' = [i \in FrameIdx |-> IF frames[i].some /\ i \in S
                                      THEN [frames[i] EXCEPT !.dirty = FALSE] ELSE frames[i]]
    BY <1>13, <2>1 DEF FlushedBelow
  <2>3. \A q \in DOMAIN file : Cached(q) => page_table[q] \in FrameIdx
    BY <1>a
  <2>4. file' = [q \in DOMAIN file |->
                   IF Cached(q) /\ page_table[q] \in S /\ FrameOf(q).dirty
                   THEN FrameOf(q).data ELSE file[q]]
    BY <1>13, <2>1, <2>3 DEF FlushedBelow
  <2>5. UNCHANGED <<num_pages, page_table, free_list, clock_hand>>
    BY <1>13 DEF FlushedBelow
  <2>6. n = Capacity => FrameIdx \subseteq S
    BY CapacityAssumption DEF FrameIdx
  <2> HIDE DEF S
  <2> QED BY <1>13, <2>2, <2>4, <2>5, <2>6, Cleaned
<1>14. CASE FlushAll
  <2>1. FlushedBelow(Capacity) /\ durable' = file'
    BY <1>14 DEF FlushAll, Sync
  <2>2. PoolInv' /\ PinStep /\ Store' = Store /\ file' = Store
    BY <1>13, <2>1, CapacityAssumption
  <2> QED BY <2>1, <2>2, IsMakeStable
<1>15. ASSUME NEW n \in 0 .. Capacity, FlushAllFails(n) PROVE Good
  <2>1. FlushedBelow(n) /\ durable' = durable /\ n \in Nat
    BY <1>15 DEF FlushAllFails
  <2> QED BY <1>13, <2>1 DEF StoreStep
<1> QED
  BY <1>1, <1>2, <1>3, <1>4, <1>5, <1>6, <1>7, <1>8, <1>9, <1>10, <1>11, <1>12, <1>14, <1>15
  DEF PoolNext

-----------------------------------------------------------------------------
(* The theorems                                                            *)

\* A new pool satisfies the invariant and is an empty PageStore.
LEMMA Start ==
  ASSUME PoolInit
  PROVE  PoolInv /\ AsStore!Init
<1>1. /\ num_pages = 0 /\ DOMAIN file = {} /\ DOMAIN durable = {} /\ DOMAIN page_table = {}
      /\ frames = [i \in FrameIdx |-> Empty]
      /\ free_list = [i \in 1 .. Capacity |-> i - 1] /\ clock_hand = 0
  BY DEF PoolInit, DiskInit
<1>2. /\ file \in [0 .. 0 - 1 -> Image] /\ durable \in [DOMAIN durable -> Image]
      /\ page_table \in [DOMAIN page_table -> FrameIdx]
  BY DEF PoolInit, DiskInit
<1>3. free_list \in Seq(FrameIdx) /\ Len(free_list) = Capacity /\ clock_hand \in FrameIdx
  BY <1>1, CapacityAssumption DEF FrameIdx
<1>4. PoolTypeOK
  <2>1. \E n \in 0 .. num_pages : file \in [0 .. n - 1 -> Image]
    BY <1>1, <1>2
  <2>2. frames \in [FrameIdx -> FrameType] /\ \A i \in FrameIdx : frames[i] = Empty
    BY <1>1, EmptyType
  <2> QED BY <1>1, <1>2, <1>3, <2>1, <2>2 DEF PoolTypeOK, FrameType
<1>5. TableMatchesFrames
  <2>1. \A i \in FrameIdx : ~frames[i].some
    BY <1>1 DEF Empty
  <2>2. \A a \in 1 .. Len(free_list) : free_list[a] \in FrameIdx /\ free_list[a] = a - 1
    BY <1>1, <1>3, CapacityAssumption DEF FrameIdx
  <2>3. \A a, b \in 1 .. Len(free_list) :
           /\ ~frames[free_list[a]].some
           /\ free_list[a] = free_list[b] => a = b
    <3>1. \A a, b \in 1 .. Len(free_list) : a - 1 = b - 1 => a = b
      BY <1>3, CapacityAssumption
    <3> QED BY <2>1, <2>2, <3>1
  <2>4. \A p \in DOMAIN page_table : FALSE
    BY <1>1
  <2> QED BY <2>1, <2>3, <2>4 DEF TableMatchesFrames
<1>6. CleanMatchesFile
  BY <1>1 DEF CleanMatchesFile, Empty
<1>7. AsStore!Init
  BY DEF AsStore!Init, PoolInit, DiskInit
<1> QED BY <1>4, <1>5, <1>6, <1>7 DEF PoolInv

\* A step that changes nothing keeps the invariant.
LEMMA Idle ==
  ASSUME PoolInv, UNCHANGED poolVars
  PROVE  PoolInv'
BY DEF PoolInv, PoolTypeOK, TableMatchesFrames, CleanMatchesFile, poolVars,
       Cached, FrameOf, FrameIdx, Image, Empty

\* The invariant of the pool holds throughout.
THEOREM PoolInvariant == PoolSpec => []PoolInv
<1>1. PoolInit => PoolInv
  BY Start
<1>2. PoolInv /\ [PoolNext]_poolVars => PoolInv'
  BY Steps, Idle
<1> QED BY <1>1, <1>2, PTL DEF PoolSpec

\* The types of BufferPool and its file: no page of the file is uncounted by
\* allocate_page, and the clock hand stays in the pool.
THEOREM PoolTypes == PoolSpec => []PoolTypeOK
<1>1. PoolInv => PoolTypeOK
  BY DEF PoolInv
<1> QED BY <1>1, PoolInvariant, PTL

\* page_table and frames describe the same cache, whatever failed before.
THEOREM PoolTable == PoolSpec => []TableMatchesFrames
<1>1. PoolInv => TableMatchesFrames
  BY DEF PoolInv
<1> QED BY <1>1, PoolInvariant, PTL

\* A frame that is not dirty holds what the file holds, so get_free_frame loses no write.
THEOREM PoolClean == PoolSpec => []CleanMatchesFile
<1>1. PoolInv => CleanMatchesFile
  BY DEF PoolInv
<1> QED BY <1>1, PoolInvariant, PTL

\* No method evicts a pinned page or takes more than one pin off it.
THEOREM PoolPins == PoolSpec => PinnedStays
<1>1. PoolInv /\ [PoolNext]_poolVars =>
        [\A i \in FrameIdx : frames[i].pin_count > 0 =>
            /\ frames'[i].some /\ frames'[i].page = frames[i].page
            /\ frames'[i].pin_count + 1 >= frames[i].pin_count]_poolVars
  BY Steps DEF PinStep
<1> QED BY <1>1, PoolInvariant, PTL DEF PoolSpec, PinnedStays

\* The pool implements PageStore: through evictions, flushes and failed calls, a fetch
\* returns what was last written, and only a completed flush_all changes what is durable.
THEOREM PoolRefinement == PoolSpec => ImplementsPageStore
<1>1. PoolInit => AsStore!Init
  BY Start
<1>2. PoolInv /\ [PoolNext]_poolVars => [AsStore!Next]_(AsStore!storeVars)
  <2>1. SUFFICES ASSUME PoolInv, [PoolNext]_poolVars
                 PROVE  AsStore!Next \/ UNCHANGED AsStore!storeVars
    OBVIOUS
  <2>2. CASE PoolNext
    BY <2>1, <2>2, Steps DEF StoreStep, Store, AsStore!storeVars
  <2>3. CASE UNCHANGED poolVars
    BY <2>3 DEF poolVars, AsStore!storeVars, Cached, FrameOf
  <2> QED BY <2>1, <2>2, <2>3
<1> QED BY <1>1, <1>2, PoolInvariant, PTL DEF PoolSpec, ImplementsPageStore, AsStore!Spec

=============================================================================
