----------------------------- MODULE NodeLayout -----------------------------
(***************************************************************************)
(* The slotted pages of src/btree/node.rs: a directory of slots that grows *)
(* forward from the node header, and keys and values that grow backward    *)
(* from the end of the page.  A slot is the key it leads to, the offset    *)
(* and the length of its data: key and value in a leaf, the key alone in   *)
(* an internal node.  Offsets are integers, so that data that does not fit *)
(* shows as a region outside the page, where the code panics.              *)
(*                                                                         *)
(* The module follows one node: a leaf or an internal node is made, filled *)
(* and, when an entry does not fit, split, and one of the halves goes on.  *)
(* The callers are those of src/btree/tree.rs.                             *)
(***************************************************************************)
EXTENDS Integers, Sequences

CONSTANTS Keys,
          Lengths,      \* lengths of an entry's data
          PAGE_SIZE,
          LongerValues  \* workload: may a put make the value of a key longer?

ASSUME LayoutAssumption ==
  /\ Keys \subseteq Nat /\ Lengths \subseteq Nat /\ PAGE_SIZE \in Nat
  /\ LongerValues \in BOOLEAN

VARIABLES node,
          expected   \* history: key -> length, what the calls should have left

layoutVars == <<node, expected>>

HEADER_SIZE == 16
BTREE_HEADER_SIZE == 10
LEAF_SLOT_SIZE == 6
INTERNAL_SLOT_SIZE == 8

\* The leftmost child lies before the slots of an internal node.
SlotsStart(n) == HEADER_SIZE + BTREE_HEADER_SIZE + IF n.leaf THEN 0 ELSE 4
SlotSize(n) == IF n.leaf THEN LEAF_SLOT_SIZE ELSE INTERNAL_SLOT_SIZE

EmptyNode(leaf) == [leaf |-> leaf, slots |-> << >>]

-----------------------------------------------------------------------------
(* Searching: slots count from 0, as in the code                           *)

KeyAt(n, i) == n.slots[i + 1].key

\* Variant of LeafFindSlot: the lower half is cut one slot too short.
LeafFindSlotShort(n, k) ==
  LET N == Len(n.slots)
      search[lo \in 0 .. N, hi \in 0 .. N] ==
        IF lo >= hi THEN <<lo, FALSE>>
        ELSE LET mid == (lo + hi) \div 2
             IN IF KeyAt(n, mid) < k THEN search[mid + 1, hi]
                ELSE IF KeyAt(n, mid) > k THEN search[lo, IF mid = 0 THEN 0 ELSE mid - 1]
                ELSE <<mid, TRUE>>
  IN search[0, N]

\* The slot of key k, or the one it would have, and whether it is there.
LeafFindSlot(n, k) ==
  LET N == Len(n.slots)
      search[lo \in 0 .. N, hi \in 0 .. N] ==
        IF lo >= hi THEN <<lo, FALSE>>
        ELSE LET mid == (lo + hi) \div 2
             IN IF KeyAt(n, mid) < k THEN search[mid + 1, hi]
                ELSE IF KeyAt(n, mid) > k THEN search[lo, mid]
                ELSE <<mid, TRUE>>
  IN search[0, N]

\* The child to follow, and the place of a new key among the slots.
InternalFindChild(n, k) ==
  LET N == Len(n.slots)
      search[lo \in 0 .. N, hi \in 0 .. N] ==
        IF lo >= hi THEN lo
        ELSE LET mid == (lo + hi) \div 2
             IN IF k < KeyAt(n, mid) THEN search[lo, mid] ELSE search[mid + 1, hi]
  IN search[0, N]

-----------------------------------------------------------------------------
(* Space                                                                   *)

Offsets(n) == {n.slots[i].off : i \in DOMAIN n.slots}

\* Variant of DataFrontier: the slots between the first and the last are skipped.
DataFrontierOfEnds(n) ==
  IF n.slots = << >> THEN PAGE_SIZE
  ELSE LET first == n.slots[1].off last == n.slots[Len(n.slots)].off
       IN IF first < last THEN first ELSE last

\* The lowest offset of any data.
DataFrontier(n) ==
  IF n.slots = << >> THEN PAGE_SIZE
  ELSE CHOOSE o \in Offsets(n) : \A p \in Offsets(n) : o <= p

AvailableSpace(n) ==
  LET slotsEnd == SlotsStart(n) + (Len(n.slots) + 1) * SlotSize(n)
  IN IF DataFrontier(n) > slotsEnd THEN DataFrontier(n) - slotsEnd ELSE 0

\* Variant of CanFit: the slot of the new entry is not counted.
CanFitData(n, len) == DataFrontier(n) - SlotsStart(n) - Len(n.slots) * SlotSize(n) >= len

CanFit(n, len) == AvailableSpace(n) >= SlotSize(n) + len

-----------------------------------------------------------------------------
(* Changing a node                                                         *)

\* The data goes below the frontier, and the slots from place i on move up by one.
PutSlot(n, i, k, len) ==
  LET new == [key |-> k, off |-> DataFrontier(n) - len, len |-> len]
      Slot(j) == IF j <= i THEN n.slots[j] ELSE IF j = i + 1 THEN new ELSE n.slots[j - 1]
  IN [n EXCEPT !.slots = [j \in 1 .. Len(n.slots) + 1 |-> Slot(j)]]

LeafInsert(n, k, len) == PutSlot(n, LeafFindSlot(n, k)[1], k, len)

InternalInsert(n, k, len) == PutSlot(n, InternalFindChild(n, k), k, len)

\* An empty page of that kind, filled with the entries es one after the other.
Rebuilt(leaf, es) ==
  LET after[i \in 0 .. Len(es)] ==
        IF i = 0 THEN EmptyNode(leaf)
        ELSE IF leaf THEN LeafInsert(after[i - 1], es[i].key, es[i].len)
        ELSE InternalInsert(after[i - 1], es[i].key, es[i].len)
  IN after[Len(es)]

\* leaf_update of the slot at place i.
LeafUpdate(n, i, len) == Rebuilt(TRUE, [n.slots EXCEPT ![i + 1].len = len])

LeafDelete(n, i) ==
  Rebuilt(TRUE, SubSeq(n.slots, 1, i) \o SubSeq(n.slots, i + 2, Len(n.slots)))

\* The entries of a node that is split, with the new one among them.
Entries(n, k, len) ==
  LET i == LeafFindSlot(n, k)[1]
  IN SubSeq(n.slots, 1, i) \o <<[key |-> k, off |-> 0, len |-> len]>>
     \o SubSeq(n.slots, i + 1, Len(n.slots))

LeftHalf(n, es) == Rebuilt(n.leaf, SubSeq(es, 1, Len(es) \div 2))

\* Variant of RightHalf: a leaf, too, gives away its middle entry.
RightHalfWithoutMiddle(n, es) ==
  Rebuilt(n.leaf, SubSeq(es, Len(es) \div 2 + 2, Len(es)))

\* The middle key of an internal node moves up to its parent.
RightHalf(n, es) ==
  Rebuilt(n.leaf, SubSeq(es, Len(es) \div 2 + (IF n.leaf THEN 1 ELSE 2), Len(es)))

-----------------------------------------------------------------------------
(* The calls of insert, delete, insert_into_parent and the two splits      *)

LayoutInit ==
  /\ node \in {EmptyNode(TRUE), EmptyNode(FALSE)}
  /\ expected = [k \in {} |-> 0]

Expect(f) == expected' = f

With(k, len) == [j \in DOMAIN expected \cup {k} |-> IF j = k THEN len ELSE expected[j]]

\* A new key that fits.
InsertFits(k, len) ==
  /\ k \notin DOMAIN expected /\ CanFit(node, len)
  /\ node' = IF node.leaf THEN LeafInsert(node, k, len) ELSE InternalInsert(node, k, len)
  /\ Expect(With(k, len))

\* insert of a key that is there does not ask whether the new value fits.
Update(k, len) ==
  /\ node.leaf /\ LeafFindSlot(node, k)[2]
  /\ LongerValues \/ len <= expected[k]
  /\ node' = LeafUpdate(node, LeafFindSlot(node, k)[1], len)
  /\ Expect(With(k, len))

Delete(k) ==
  /\ node.leaf /\ LeafFindSlot(node, k)[2]
  /\ node' = LeafDelete(node, LeafFindSlot(node, k)[1])
  /\ Expect([j \in DOMAIN expected \ {k} |-> expected[j]])

\* A new key that does not fit: the entries are divided by their number.
Split(k, len) ==
  LET es == Entries(node, k, len)
      middle == es[Len(es) \div 2 + 1].key
      all == With(k, len)
      Part(S) == [j \in DOMAIN all \cap S |-> all[j]]
  IN /\ k \notin DOMAIN expected /\ ~CanFit(node, len)
     /\ \/ node' = LeftHalf(node, es) /\ Expect(Part({j \in Keys : j < middle}))
        \/ node' = RightHalf(node, es)
           /\ Expect(Part({j \in Keys : j > middle \/ (node.leaf /\ j = middle)}))

LayoutNext ==
  \E k \in Keys :
     \/ Delete(k)
     \/ \E len \in Lengths : InsertFits(k, len) \/ Update(k, len) \/ Split(k, len)

LayoutSpec == LayoutInit /\ [][LayoutNext]_layoutVars

-----------------------------------------------------------------------------
\* "Slots grow forward, data grows backward. They must not overlap."
MustNotOverlap ==
  SlotsStart(node) + Len(node.slots) * SlotSize(node) <= DataFrontier(node)

\* The data of two slots never share a byte, and lies in the page: no insert, in
\* whatever order the keys come, writes over another entry.
DataApart ==
  \A i \in DOMAIN node.slots :
     LET s == node.slots[i] IN
       /\ s.off + s.len <= PAGE_SIZE
       /\ \A j \in DOMAIN node.slots \ {i} :
             LET t == node.slots[j] IN s.off + s.len <= t.off \/ t.off + t.len <= s.off

\* The two binary searches give what a scan over all slots gives, for every key.
SearchIsRight ==
  \A k \in Keys :
     LET Below(B(_)) == {i \in DOMAIN node.slots : B(node.slots[i].key)}
         less == Below(LAMBDA j : j < k)
         upTo == Below(LAMBDA j : j <= k)
         IsSize(S, n) == S = 1 .. n
     IN /\ IsSize(less, LeafFindSlot(node, k)[1])
        /\ LeafFindSlot(node, k)[2] = (k \in DOMAIN expected)
        /\ IsSize(upTo, InternalFindChild(node, k))

\* The slots hold the entries that were put and not deleted, each once and in order;
\* a split leaves each entry in one half, but for the key that moves up.
KeepsEntries ==
  /\ {<<node.slots[i].key, node.slots[i].len>> : i \in DOMAIN node.slots}
       = {<<k, expected[k]>> : k \in DOMAIN expected}
  /\ \A i, j \in DOMAIN node.slots : i < j => node.slots[i].key < node.slots[j].key

=============================================================================
