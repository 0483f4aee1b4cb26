------------------------------- MODULE Engine -------------------------------
(***************************************************************************)
(* StorageEngine: the B+ tree, the buffer pool, the log and the            *)
(* transaction manager put together, over several runs of the program.     *)
(*                                                                         *)
(* nodes is what the pool shows of each page; PageStore says that it is    *)
(* what was last written there, and the pool run checks it.  disk is what  *)
(* is found when the program stops: for each page, some version written    *)
(* back since the last sync, or the one synced.  A page that was evicted   *)
(* and not synced is there after the process ends, and is or is not there  *)
(* after a crash; WriteBack is the step that decides.  The pool evicts     *)
(* whichever page it likes, so any capacity is covered, and a flush_all    *)
(* that a crash or an error interrupts is a number of evictions.  Calls    *)
(* that fail are left to BufferPool and Transactions.                      *)
(***************************************************************************)
EXTENDS TransactionManager, FiniteSets

CONSTANTS Keys, Values, Rewritten, LeafCap, InternalCap, LeftSplits, MaxPages, MaxHeight,
          ImageLens,    \* lengths in bytes of the keys and values of transactions
          MaxSessions   \* bound: openings of the database

ASSUME EngineAssumption ==
  /\ ImageLens \subseteq 0 .. 5 /\ MaxSessions \in Nat
  /\ Keys \subseteq Nat \ {0} /\ LeafCap \in 1 .. 2

VARIABLES nodes, root, climb,   \* the tree
          disk,      \* page id -> node, as found when the program stops at this moment
          recent,    \* history: key -> the values it has had since the last sync, as
                     \*   sets: {} when it was absent
          layout,    \* history: the pages on disk form a tree ("synced"), do not until
                     \*   the next sync ("split"), or were opened like that or written
                     \*   through a page that is not the root ("torn")
          overlaid   \* history: a recovery has overwritten the type of page 0

Tree == INSTANCE BTree

treeVars == <<nodes, root, climb>>
logVars == <<lockVars, walVars, txnVars>>
checkVars == <<recent, layout, overlaid>>
engineVars == <<logVars, treeVars, disk, checkVars>>

\* What a page that was allocated and never written reads as: no leaf, no keys, and
\* zeros for page ids.
ZeroNode == [leaf |-> FALSE, entries |-> << >>, leftmost |-> 0, parent |-> 0, sibling |-> 0]

\* The file f once its pages below n exist.
Extended(f, n) ==
  [p \in DOMAIN f \cup 0 .. n - 1 |-> IF p \in DOMAIN f THEN f[p] ELSE ZeroNode]

\* open on an empty directory: the tree is created and nothing is flushed.
EngineInit ==
  /\ LockInit /\ WalInit /\ TxnInit /\ Tree!Init
  /\ disk = [p \in {} |-> ZeroNode]
  /\ recent = [k \in Keys |-> {{}}] /\ layout = "split" /\ overlaid = FALSE

-----------------------------------------------------------------------------
(* Calls on keys                                                           *)

\* Bound: no calls are considered once nothing is claimed of the database.
Claimed == layout # "torn"

\* find_leaf ends: page 0 may be its own child.
Reaches(k) == nodes[Tree!FindLeaf(k)].leaf

\* After a root split page 0 has a parent, and is still taken for the root when the
\* database is opened again.  Nothing in the code keeps callers from writing then.
AtRoot == nodes[root].parent = Tree!INVALID_PAGE_ID

\* BPlusTree::insert, up to the climb.
Insert(k, v) ==
  /\ Claimed /\ Reaches(k)
  /\ \/ Tree!InsertInLeaf(k, v) /\ layout' = IF AtRoot THEN layout ELSE "torn"
     \/ Tree!SplitLeaf(k, v) /\ layout' = IF AtRoot THEN "split" ELSE "torn"
  /\ recent' = [recent EXCEPT ![k] = @ \cup {{v}}]
  /\ UNCHANGED <<disk, overlaid>>

DeleteEntry(k) ==
  /\ Claimed /\ Reaches(k)
  /\ Tree!Delete(k)
  /\ layout' = IF AtRoot THEN layout ELSE "torn"
  /\ recent' = [recent EXCEPT ![k] = @ \cup {{}}]
  /\ UNCHANGED <<disk, overlaid>>

Put(k, v) == Insert(k, v) /\ UNCHANGED logVars

DeleteKey(k) == DeleteEntry(k) /\ UNCHANGED logVars

\* log_page_write with page id 0, the key for before-image and a value for
\* after-image.  Neither a transaction under way nor a lock is asked for.
LogKey(t) ==
  /\ AppendRecord("PageWrite", t, 0)
  /\ UNCHANGED <<lockVars, txnVars>>

TxnPut(t, k, v) == Insert(k, v) /\ LogKey(t)

TxnDelete(t, k) == DeleteEntry(k) /\ LogKey(t)

\* The rest of an insert that has split a leaf.
Climb ==
  /\ Tree!NewRoot \/ Tree!InsertInParent
  /\ UNCHANGED <<logVars, disk, checkVars>>

-----------------------------------------------------------------------------
(* Transactions and sync                                                   *)

\* abort_transaction drops the write set: what the transaction put stays there.
TxnCall ==
  /\ climb = Tree!Idle /\ Claimed
  /\ Begin \/ \E t \in Txns : Commit(t) \/ Abort(t)
  /\ UNCHANGED <<treeVars, disk, checkVars>>

\* For each key, the values that scan_all returns with it.
Scanned ==
  LET es == Tree!ScanAll
  IN [k \in Keys |-> {es[i][2] : i \in {j \in DOMAIN es : es[j][1] = k}}]

\* Variant of Sync: the log is flushed and the pages are not.
SyncLogOnly ==
  /\ climb = Tree!Idle
  /\ Flush /\ UNCHANGED <<lockVars, txnVars>>
  /\ IF layout = "torn" \/ overlaid THEN UNCHANGED checkVars
     ELSE /\ LET s == Scanned IN recent' = [k \in Keys |-> {s[k]}]
          /\ layout' = "synced" /\ UNCHANGED overlaid
  /\ UNCHANGED <<treeVars, disk>>

Sync ==
  /\ climb = Tree!Idle
  /\ Flush /\ UNCHANGED <<lockVars, txnVars>>
  /\ disk' = nodes
  /\ IF layout = "torn" \/ overlaid THEN UNCHANGED checkVars
     ELSE /\ LET s == Scanned IN recent' = [k \in Keys |-> {s[k]}]
          /\ layout' = "synced" /\ UNCHANGED overlaid
  /\ UNCHANGED treeVars

\* The pool evicts page p, and it will be found as it is now.
WriteBack(p) ==
  /\ p \in DOMAIN disk => disk[p] # nodes[p]
  /\ disk' = [Extended(disk, p + 1) EXCEPT ![p] = nodes[p]]
  /\ UNCHANGED <<logVars, treeVars, checkVars>>

-----------------------------------------------------------------------------
(* open and recover                                                        *)

\* Node n once an image of len bytes has been copied over the start of its page.  The
\* page id there is not read again.  The fifth byte is the page type, and no letter or
\* digit is the code of a leaf: the slots are then read as those of an internal node.
\* With one or two entries the last of these has an empty key, below all others, and
\* child 0, and the leftmost child lies beyond the end of the file; with none the page
\* has zeros for children.  (The sixth byte would change the number of slots.)
Overlaid(n, len) ==
  IF len <= 4 THEN n
  ELSE [n EXCEPT !.leaf = FALSE,
                 !.entries = [i \in DOMAIN @ |-> <<0, 0>>],
                 !.leftmost = IF n.entries = << >> THEN 0 ELSE Tree!INVALID_PAGE_ID]

\* The database is opened on data file f and log file g, of which d is durable.  All
\* images of the log go to page 0, the longest of len bytes, and flush_all follows them.
OpenOn(f, g, d) ==
  LET existing == DOMAIN f # {}
      pages == IF existing THEN f
               ELSE [p \in {0} |-> Tree!Leaf(<< >>, Tree!INVALID_PAGE_ID, Tree!INVALID_PAGE_ID)]
  IN /\ session < MaxSessions
     /\ OpenManager(g, d)
     /\ root' = 0 /\ climb' = Tree!Idle
     /\ IF NeedsRecovery(Readable(g))
        THEN \E len \in ImageLens :
               /\ nodes' = [pages EXCEPT ![0] = Overlaid(@, len)]
               /\ disk' = nodes'
               /\ overlaid' = (overlaid \/ len > 4)
        ELSE nodes' = pages /\ disk' = f /\ UNCHANGED overlaid
     /\ layout' = IF layout = "synced" THEN "synced" ELSE "torn"
     /\ UNCHANGED recent

\* The program stops, between two calls or in the middle of one, and is started
\* again.  A page that was allocated and never written back is all zeros.  When only
\* the process ended, the file holds every page that was allocated, and the log what
\* was written to it; when the machine crashed, the file may be shorter, and the log
\* is one of the crash images.
Restart ==
  LET written == Cardinality(DOMAIN disk)
      allocated == Cardinality(DOMAIN nodes) IN
  \/ OpenOn(Extended(disk, allocated), log_file, log_durable)
  \/ \E n \in written .. allocated, g \in CrashImages : OpenOn(Extended(disk, n), g, g)

EngineNext ==
  \/ \E k \in Keys : DeleteKey(k) \/ \E v \in Tree!ValuesFor(k) : Put(k, v)
  \/ \E t \in Txns, k \in Keys : TxnDelete(t, k) \/ \E v \in Tree!ValuesFor(k) : TxnPut(t, k, v)
  \/ Climb \/ TxnCall \/ Sync
  \/ \E p \in DOMAIN nodes : WriteBack(p)
  \/ Restart

EngineSpec == EngineInit /\ [][EngineNext]_engineVars

-----------------------------------------------------------------------------
\* What sync() made durable stays readable.  Whatever pages are evicted afterwards
\* and wherever the program or the machine stops, scan_all on the database opened
\* again shows each key as it was at the last sync or as a later call left it --
\* unless a leaf has split since that sync, a write went through page 0 when it was no
\* longer the root, or recovery has copied an image of five bytes or more over page 0
\* (which SyncedIsFound is about).  Recovery with shorter images loses nothing.
SyncedSurvives ==
  layout # "torn" /\ ~overlaid => LET s == Scanned IN \A k \in Keys : s[k] \in recent[k]

\* "Reopen and verify": get() on a database whose pages were all synced when they
\* last split finds each key as it was at the last sync or as a later call left it.
\* (Where find_leaf does not end, get finds nothing.)
SyncedIsFound ==
  layout = "synced" => \A k \in Keys : {e[2] : e \in Tree!Search(k)} \in recent[k]

=============================================================================
