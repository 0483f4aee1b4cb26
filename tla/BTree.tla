------------------------------- MODULE BTree -------------------------------
(***************************************************************************)
(* The B+ tree of src/btree: nodes in pages, with parent and sibling       *)
(* pointers.  An insert that splits a leaf climbs towards the root, one    *)
(* level of insert_into_parent and split_internal per step.                *)
(*                                                                         *)
(* Keys and values all have one size, so that the byte counts of           *)
(* leaf_can_fit and internal_can_fit become numbers of entries.  A leaf's  *)
(* slot directory, which is kept sorted, is a sequence of <<key, value>>;  *)
(* that of an internal node a sequence of <<key, right child>>.            *)
(* The pages are written and read through the buffer pool without errors.  *)
(***************************************************************************)
EXTENDS Naturals, FiniteSets, SequencesExt

CONSTANTS Keys, Values,
          LeafCap,        \* entries that fit in a leaf
          InternalCap,    \* keys that fit in an internal node
          LeftSplits,     \* workload: may an internal node get a new child left of
                          \*   the middle while it splits?
          Rewritten,      \* bound: the keys that callers give more than one value
          MaxPages,       \* bound: pages of the file
          MaxHeight       \* bound: levels of the tree

ASSUME BTreeAssumption ==
  /\ Keys \subseteq Nat /\ Rewritten \subseteq Keys /\ LeftSplits \in BOOLEAN
  /\ MaxPages \in Nat /\ MaxHeight \in Nat \ {0}
  /\ LeafCap \in Nat \ {0} /\ InternalCap \in Nat \ {0, 1}

VARIABLES nodes,   \* page id -> node, for the pages allocated so far
          root,    \* root_page_id
          climb    \* the arguments of insert_into_parent, while an insert climbs

treeVars == <<nodes, root, climb>>

INVALID_PAGE_ID == MaxPages

Idle == [left |-> INVALID_PAGE_ID, key |-> 0, right |-> INVALID_PAGE_ID,
         parent |-> INVALID_PAGE_ID]

Leaf(entries, parent, sibling) ==
  [leaf |-> TRUE, entries |-> entries, leftmost |-> INVALID_PAGE_ID,
   parent |-> parent, sibling |-> sibling]

Internal(leftmost, entries, parent) ==
  [leaf |-> FALSE, entries |-> entries, leftmost |-> leftmost,
   parent |-> parent, sibling |-> INVALID_PAGE_ID]

\* BPlusTree::create: an empty leaf in page 0 is the root.
Init ==
  /\ nodes = [p \in {0} |-> Leaf(<< >>, INVALID_PAGE_ID, INVALID_PAGE_ID)]
  /\ root = 0
  /\ climb = Idle

-----------------------------------------------------------------------------
(* Searching a node and walking the tree                                   *)

\* leaf_find_slot, and the binary searches of the two splits.
Slot(entries, k) == Cardinality({i \in DOMAIN entries : entries[i][1] < k}) + 1
Found(entries, k) == \E i \in DOMAIN entries : entries[i][1] = k

\* leaf_insert of a new key, leaf_update and leaf_delete.
InsertEntry(entries, k, x) == InsertAt(entries, Slot(entries, k), <<k, x>>)
ReplaceEntry(entries, k, v) == ReplaceAt(entries, Slot(entries, k), <<k, v>>)
RemoveEntry(entries, k) == RemoveAt(entries, Slot(entries, k))

\* internal_insert: the new key goes behind all keys up to it.
InsertChild(entries, k, c) ==
  InsertAt(entries, Cardinality({i \in DOMAIN entries : entries[i][1] <= k}) + 1, <<k, c>>)

LeafCanFit(n) == Len(n.entries) < LeafCap
InternalCanFit(n) == Len(n.entries) < InternalCap

\* Variant of Child: a key equal to a separator is looked for on its left.
ChildLeftOfEqual(n, k) ==
  LET i == Cardinality({j \in DOMAIN n.entries : n.entries[j][1] < k})
  IN IF i = 0 THEN n.leftmost ELSE n.entries[i][2]

\* internal_find_child and internal_child.
Child(n, k) ==
  LET i == Cardinality({j \in DOMAIN n.entries : n.entries[j][1] <= k})
  IN IF i = 0 THEN n.leftmost ELSE n.entries[i][2]

\* The page that the loop of find_leaf has reached at level d, from the root at
\* level 1; it stays at a leaf.
Descent(k) ==
  LET at[d \in 1 .. MaxHeight] ==
        IF d = 1 THEN root
        ELSE LET p == at[d - 1] IN IF nodes[p].leaf THEN p ELSE Child(nodes[p], k)
  IN at

FindLeaf(k) == Descent(k)[MaxHeight]

\* The descent of scan_all.
LeftmostLeaf ==
  LET at[d \in 1 .. MaxHeight] ==
        IF d = 1 THEN root
        ELSE LET p == at[d - 1] IN IF nodes[p].leaf THEN p ELSE nodes[p].leftmost
  IN at[MaxHeight]

\* The leaves from page p on, following the sibling pointers.
ChainFrom(p) ==
  LET at[d \in 0 .. MaxPages] ==
        IF d = 0 THEN p
        ELSE LET q == at[d - 1] IN IF q = INVALID_PAGE_ID THEN q ELSE nodes[q].sibling
      all == [i \in 1 .. MaxPages |-> at[i - 1]]
      IsPage(q) == q # INVALID_PAGE_ID
  IN SelectSeq(all, IsPage)

EntriesFrom(p) ==
  LET chain == ChainFrom(p) IN FlattenSeq([i \in DOMAIN chain |-> nodes[chain[i]].entries])

\* search: the entries with key k in its leaf.
Search(k) ==
  LET entries == nodes[FindLeaf(k)].entries
  IN {entries[i] : i \in {j \in DOMAIN entries : entries[j][1] = k}}

ScanAll == EntriesFrom(LeftmostLeaf)

\* Variant of RangeScan: the upper bound is taken as exclusive.
RangeScanExclusive(lo, hi) ==
  LET es == EntriesFrom(FindLeaf(lo))
      InRange(i) == es[i][1] >= lo /\ \A j \in 1 .. i : es[j][1] < hi
  IN {es[i] : i \in {j \in DOMAIN es : InRange(j)}}

\* range_scan: from the leaf of lo on, until the first key beyond hi.
RangeScan(lo, hi) ==
  LET es == EntriesFrom(FindLeaf(lo))
      InRange(i) == es[i][1] >= lo /\ \A j \in 1 .. i : es[j][1] <= hi
  IN {es[i] : i \in {j \in DOMAIN es : InRange(j)}}

-----------------------------------------------------------------------------
(* insert                                                                  *)

NewPage == Cardinality(DOMAIN nodes)

\* The pages of the map w are written, in the file or at its end.
WriteNodes(w) ==
  nodes' = [p \in DOMAIN nodes \cup DOMAIN w |-> IF p \in DOMAIN w THEN w[p] ELSE nodes[p]]

\* Bound: an insert climbs at most two levels of internal nodes and makes a root.
RoomToSplit == NewPage + 4 <= MaxPages

\* The number of entries of node p up to its child c: where a sibling of c goes.
PlaceOf(p, c) ==
  IF nodes[p].leftmost = c THEN 0
  ELSE CHOOSE i \in DOMAIN nodes[p].entries : nodes[p].entries[i][2] = c

\* The keys callers insert where a leaf splits.  Unless LeftSplits, each internal
\* node that splits with it gets its new child at or behind its middle.
Allowed(k) ==
  LET path == Descent(k)
      height == CHOOSE d \in 1 .. MaxHeight :
                  nodes[path[d]].leaf /\ \A c \in 1 .. d - 1 : ~nodes[path[c]].leaf
      Splits(d) == \A c \in d .. height - 1 : ~InternalCanFit(nodes[path[c]])
  IN LeftSplits \/ \A d \in 1 .. height - 1 :
       Splits(d) => PlaceOf(path[d], path[d + 1]) >= (InternalCap + 1) \div 2

\* The values callers store under key k.
ValuesFor(k) == IF k \in Rewritten THEN Values ELSE {CHOOSE v \in Values : TRUE}

\* Variant of InsertInLeaf: one entry too many is let in.
InsertInLeafOverfull(k, v) ==
  LET p == FindLeaf(k)
      es == nodes[p].entries
  IN /\ climb = Idle
     /\ ~Found(es, k) /\ Len(es) <= LeafCap
     /\ WriteNodes([q \in {p} |-> [nodes[p] EXCEPT !.entries = InsertEntry(es, k, v)]])
     /\ UNCHANGED <<root, climb>>

\* The key is there and its value is replaced, or it is new and the leaf has room.
InsertInLeaf(k, v) ==
  LET p == FindLeaf(k)
      es == nodes[p].entries
  IN /\ climb = Idle
     /\ Found(es, k) \/ LeafCanFit(nodes[p])
     /\ WriteNodes([q \in {p} |->
          [nodes[p] EXCEPT !.entries =
             IF Found(es, k) THEN ReplaceEntry(es, k, v) ELSE InsertEntry(es, k, v)]])
     /\ UNCHANGED <<root, climb>>

\* Variant of SplitLeaf: rebuilding the old leaf loses its new sibling.
SplitLeafUnlinked(k, v) ==
  LET p == FindLeaf(k)
      right == NewPage
      es == InsertEntry(nodes[p].entries, k, v)
      half == Len(es) \div 2
  IN /\ climb = Idle /\ RoomToSplit /\ Allowed(k)
     /\ ~Found(nodes[p].entries, k) /\ ~LeafCanFit(nodes[p])
     /\ WriteNodes([q \in {p, right} |->
          IF q = p THEN Leaf(SubSeq(es, 1, half), nodes[p].parent, INVALID_PAGE_ID)
          ELSE Leaf(SubSeq(es, half + 1, Len(es)), INVALID_PAGE_ID, nodes[p].sibling)])
     /\ climb' = [left |-> p, key |-> es[half + 1][1], right |-> right,
                  parent |-> nodes[p].parent]
     /\ UNCHANGED root

\* Variant of SplitLeaf: the split key moves up and is not kept in the right leaf.
SplitLeafPushesUp(k, v) ==
  LET p == FindLeaf(k)
      right == NewPage
      es == InsertEntry(nodes[p].entries, k, v)
      half == Len(es) \div 2
  IN /\ climb = Idle /\ RoomToSplit /\ Allowed(k)
     /\ ~Found(nodes[p].entries, k) /\ ~LeafCanFit(nodes[p])
     /\ WriteNodes([q \in {p, right} |->
          IF q = p THEN Leaf(SubSeq(es, 1, half), nodes[p].parent, right)
          ELSE Leaf(SubSeq(es, half + 2, Len(es)), INVALID_PAGE_ID, nodes[p].sibling)])
     /\ climb' = [left |-> p, key |-> es[half + 1][1], right |-> right,
                  parent |-> nodes[p].parent]
     /\ UNCHANGED root


\* split_and_insert_leaf: the left half stays, the right half goes to a new leaf.
SplitLeaf(k, v) ==
  LET p == FindLeaf(k)
      right == NewPage
      es == InsertEntry(nodes[p].entries, k, v)
      half == Len(es) \div 2
  IN /\ climb = Idle /\ RoomToSplit /\ Allowed(k)
     /\ ~Found(nodes[p].entries, k) /\ ~LeafCanFit(nodes[p])
     /\ WriteNodes([q \in {p, right} |->
          IF q = p THEN Leaf(SubSeq(es, 1, half), nodes[p].parent, right)
          ELSE Leaf(SubSeq(es, half + 1, Len(es)), INVALID_PAGE_ID, nodes[p].sibling)])
     /\ climb' = [left |-> p, key |-> es[half + 1][1], right |-> right,
                  parent |-> nodes[p].parent]
     /\ UNCHANGED root

\* insert_into_parent, when the left node has no parent: make a new root.
NewRoot ==
  /\ climb # Idle /\ climb.parent = INVALID_PAGE_ID
  /\ WriteNodes([q \in {NewPage, climb.left, climb.right} |->
       IF q = NewPage THEN Internal(climb.left, <<<<climb.key, climb.right>>>>, INVALID_PAGE_ID)
       ELSE [nodes[q] EXCEPT !.parent = NewPage]])
  /\ root' = NewPage
  /\ climb' = Idle

\* Variant of InsertInParent: the right child is not told its parent.
InsertInParentOnly ==
  LET p == climb.parent
  IN /\ climb # Idle /\ p # INVALID_PAGE_ID
     /\ InternalCanFit(nodes[p])
     /\ WriteNodes([q \in {p} |->
          [nodes[p] EXCEPT !.entries = InsertChild(@, climb.key, climb.right)]])
     /\ climb' = Idle
     /\ UNCHANGED root

\* Variant of InsertInParent: the last free slot is not used, nor is the node split.
InsertInParentStuck ==
  LET p == climb.parent
  IN /\ climb # Idle /\ p # INVALID_PAGE_ID
     /\ Len(nodes[p].entries) < InternalCap - 1
     /\ WriteNodes([q \in {p, climb.right} |->
          IF q = p THEN [nodes[p] EXCEPT !.entries = InsertChild(@, climb.key, climb.right)]
          ELSE [nodes[q] EXCEPT !.parent = p]])
     /\ climb' = Idle
     /\ UNCHANGED root

\* insert_into_parent, when the parent has room.
InsertInParent ==
  LET p == climb.parent
  IN /\ climb # Idle /\ p # INVALID_PAGE_ID
     /\ InternalCanFit(nodes[p])
     /\ WriteNodes([q \in {p, climb.right} |->
          IF q = p THEN [nodes[p] EXCEPT !.entries = InsertChild(@, climb.key, climb.right)]
          ELSE [nodes[q] EXCEPT !.parent = p]])
     /\ climb' = Idle
     /\ UNCHANGED root

\* Variant of SplitInternal: the children that moved keep their old parent.
SplitInternalKeepParents ==
  LET p == climb.parent
      right == NewPage
      es == InsertEntry(nodes[p].entries, climb.key, climb.right)
      mid == Len(es) \div 2 + 1
  IN /\ climb # Idle /\ p # INVALID_PAGE_ID
     /\ ~InternalCanFit(nodes[p])
     /\ WriteNodes([q \in {p, right} |->
          IF q = p THEN Internal(nodes[p].leftmost, SubSeq(es, 1, mid - 1), nodes[p].parent)
          ELSE Internal(es[mid][2], SubSeq(es, mid + 1, Len(es)), INVALID_PAGE_ID)])
     /\ climb' = [left |-> p, key |-> es[mid][1], right |-> right, parent |-> nodes[p].parent]
     /\ UNCHANGED root

\* split_internal, when the parent is full: its middle key moves up, the entries
\* behind it go to a new node, and the children of that new node get it as parent.
SplitInternal ==
  LET p == climb.parent
      right == NewPage
      es == InsertEntry(nodes[p].entries, climb.key, climb.right)
      mid == Len(es) \div 2 + 1
      moved == {es[i][2] : i \in mid .. Len(es)}
  IN /\ climb # Idle /\ p # INVALID_PAGE_ID
     /\ ~InternalCanFit(nodes[p])
     /\ WriteNodes([q \in {p, right} \cup moved |->
          IF q = p THEN Internal(nodes[p].leftmost, SubSeq(es, 1, mid - 1), nodes[p].parent)
          ELSE IF q = right
          THEN Internal(es[mid][2], SubSeq(es, mid + 1, Len(es)), INVALID_PAGE_ID)
          ELSE [nodes[q] EXCEPT !.parent = right]])
     /\ climb' = [left |-> p, key |-> es[mid][1], right |-> right, parent |-> nodes[p].parent]
     /\ UNCHANGED root

\* delete: the entry is removed from its leaf; nodes are never merged.
Delete(k) ==
  LET p == FindLeaf(k)
      es == nodes[p].entries
  IN /\ climb = Idle /\ Found(es, k)
     /\ WriteNodes([q \in {p} |-> [nodes[p] EXCEPT !.entries = RemoveEntry(es, k)]])
     /\ UNCHANGED <<root, climb>>

Next ==
  \/ \E k \in Keys : \E v \in ValuesFor(k) : InsertInLeaf(k, v) \/ SplitLeaf(k, v)
  \/ NewRoot \/ InsertInParent \/ SplitInternal
  \/ \E k \in Keys : Delete(k)

\* An insert runs to its end before the next call; callers need not make one.
Spec == Init /\ [][Next]_treeVars /\ WF_treeVars(NewRoot \/ InsertInParent \/ SplitInternal)

-----------------------------------------------------------------------------
Leaves == {p \in DOMAIN nodes : nodes[p].leaf}
Internals == DOMAIN nodes \ Leaves

ChildrenOf(p) ==
  {nodes[p].leftmost} \cup {nodes[p].entries[i][2] : i \in DOMAIN nodes[p].entries}

\* Type invariant, with the capacities: no node ever holds more than fits.
BTreeTypeOK ==
  /\ DOMAIN nodes = 0 .. NewPage - 1 /\ root \in DOMAIN nodes
  /\ \A p \in Leaves :
        /\ Len(nodes[p].entries) <= LeafCap
        /\ \A i \in DOMAIN nodes[p].entries : nodes[p].entries[i] \in Keys \X Values
  /\ \A p \in Internals :
        /\ Len(nodes[p].entries) \in 1 .. InternalCap
        /\ ChildrenOf(p) \subseteq DOMAIN nodes
  /\ climb = Idle \/ {climb.left, climb.right} \subseteq DOMAIN nodes

\* Between calls, every child names the node it hangs from as its parent, and the
\* root names none: insert_into_parent trusts these pointers for the way up.
ParentsAgree ==
  climb = Idle =>
    /\ nodes[root].parent = INVALID_PAGE_ID
    /\ \A p \in Internals : \A c \in ChildrenOf(p) : nodes[c].parent = p

\* Between calls, search finds every entry of every leaf page, with its value,
\* and nothing else: splits and deletes leave no key where it is not looked for.
SearchFindsAll ==
  climb = Idle =>
    \A k \in Keys :
       Search(k) = {e \in UNION {ToSet(nodes[p].entries) : p \in Leaves} : e[1] = k}

\* scan_all walks over every leaf once, and its keys ascend -- also in the middle
\* of an insert, when a new leaf has a sibling but no parent yet.
ScanIsComplete ==
  /\ ToSet(ChainFrom(LeftmostLeaf)) = Leaves
  /\ LET es == ScanAll IN \A i, j \in DOMAIN es : i < j => es[i][1] < es[j][1]


\* Between calls, range_scan returns what scan_all has in the range.
RangeMatchesScan ==
  climb = Idle =>
    LET all == ToSet(ScanAll) IN
    \A lo, hi \in Keys : RangeScan(lo, hi) = {e \in all : e[1] >= lo /\ e[1] <= hi}

\* The map that is stored in the leaves; by ScanIsComplete, what scan_all shows.
Contents ==
  LET all == UNION {ToSet(nodes[p].entries) : p \in Leaves}
  IN [k \in {e[1] : e \in all} |-> (CHOOSE e \in all : e[1] = k)[2]]

\* The contents of the leaves behave as a map on which every put and delete takes
\* effect at once: a climb moves nothing in it.
AsMap == INSTANCE KVMap WITH kv <- Contents

ImplementsKVMap == AsMap!Spec

\* An insert that has begun to climb ends.
InsertEnds == climb # Idle ~> climb = Idle

=============================================================================
