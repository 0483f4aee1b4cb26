# A TLA+ verification of storagedb

storagedb is an embedded key-value store in Rust: a B+ tree over a buffer pool
over a page file, with a write-ahead log, transactions and page locks. This
directory models it in TLA+, checks the models with TLC on small instances, and
proves the properties of the lock manager and of the buffer pool, and one of the
transactions on top, with TLAPS for all instances. All definitions are
translated from the code; `PROJECT.json` gives the lines.

## The system: an inventory

| Part (source) | State | Operations that change it | Used by |
|---|---|---|---|
| page file (`disk/disk_manager.rs`) | page counter, file | open, write_page, allocate_page, sync | buffer pool |
| page, CRC-32 (`disk/page.rs`) | a 4 KB image | header setters, update_checksum | all page code |
| buffer pool (`buffer/pool.rs`) | frames, page table, free list, clock hand | fetch_page, fetch_page_mut, unpin_page, new_page, flush_page, flush_all | tree, engine |
| node layout (`btree/node.rs`) | slots and data of a page | leaf_insert, leaf_update, leaf_delete, internal_insert, internal_rebuild | tree |
| B+ tree (`btree/tree.rs`) | root id, nodes in pages | create, insert with splits, delete | engine |
| log (`wal/*.rs`) | buffer, file, offset, LSNs, last LSN per transaction | append, log_*, flush, open, truncate | transactions, engine |
| lock manager (`txn/lock_manager.rs`) | lock table, locks per transaction | acquire, release_all | transaction manager |
| transaction manager (`txn/txn_manager.rs`) | next id, active transactions | begin, acquire_*_lock, log_write, commit, abort | engine |
| engine (`engine.rs`) | the parts above | open, recover, put, delete, txn_*, checkpoint, sync | CLI |

Every method takes `&mut self` and the crate starts no thread, so one call never
overlaps another. What is hard is elsewhere: interleaved *transactions*, every
`?` that leaves an operation half done, crashes between any two steps, several
runs of the program over one log, and long sequences of splits. `PROJECT.json`
lists these hazards at the line where each one bites.

## Modules

| Module | Models |
|---|---|
| `LockManager` | acquire and release_all, with the hand-over to waiters |
| `StrictLocks` | what it promises: locks that are granted one by one and given up all at once |
| `LockManagerProofs` | the theorems about `LockManager` |
| `DiskManager` | the page file and what of it is durable |
| `BufferPool` | the pool on top of it, one action per method and outcome |
| `BufferPoolProofs` | the theorems about `BufferPool` |
| `PageStore` | what the pool promises: an array of pages, part of it stable |
| `Wal` | the log: append, flush, reading, recovery analysis, what a crash leaves |
| `TransactionManager` | transactions over `LockManager` and `Wal` |
| `Transactions` | several runs of the program over one log, with crashes and recovery |
| `TransactionsProofs` | the theorem about `Transactions` |
| `LogRecord` | the bytes of the log: serialize, deserialize, and reading a damaged file |
| `Crc32` | the checksum with its tables, and the bit-by-bit definition |
| `NodeLayout` | one slotted page: searches, free space, insert, update, delete, split |
| `MCParts` | `LockManager`, `NodeLayout` and `LogRecord` side by side, for TLC |
| `BTree` | the tree: search, scans, delete, and insert as a climb of one level per step |
| `KVMap` | what the tree promises: a map |
| `Engine` | tree, log and transactions put together: keys, evictions, sync, restarts |

How they are composed: `TransactionManager` extends `LockManager` and `Wal`;
`Transactions` and `Engine` extend it, and `Engine` takes the actions of `BTree`
by `INSTANCE`. `Engine` uses the pool through what `PageStore` promises of it, so
`nodes` is the store and `disk` what is found when the program stops.

How state and actions correspond to the code:

- A `HashMap` is a function whose domain is the set of its keys. Only `txn_locks`
  is total: no entry in the code is the empty set here.
- A call that returns `Err` without changing anything is not a step. A call that
  returns `Err` after it changed something is an action of its own
  (`CommitFails`, `FetchReadFails`, `EvictionFails`, `NewPagePoolFull`, ...).
- `get_free_frame` is described by its result: which frame CLOCK returns
  (`IsVictim`) and what its one or two turns leave in ref bits, table, file and
  hand (`Swept`, `TableAfter`, `FileAfter`, `HandAfter`).
- `fetch_page_mut` lends out a `&mut Page` whose borrow ends before the next call,
  so what the caller writes is part of the same step.
- `Wal` counts records instead of bytes. A record cut short is `Torn`, on which
  deserialize returns `Err`; `LogRecord` shows that it does (`ReadsWholeRecords`),
  unless the crash left zeros where a length was. The field `session` of a record
  is history: it is not in the file, and no action reads it.
- In `LogRecord` the length and the checksum have their four bytes and the other
  fields one, in the order of the code. A word is the set of its 1 bits, so that exclusive or and shifts are
  set operations. A slice out of bounds is the outcome "panic".
- In `BTree` all entries have one size, so that the byte checks of leaf_can_fit
  and internal_can_fit become numbers of entries. The `level` of a node, which no
  code path depends on, is left out. Entries of different sizes are the subject of
  `NodeLayout`: a slot is a key, an offset and a length, and both kinds of node
  share the definitions that the code has twice (`DataFrontier`, `CanFit`, ...).
- In `Engine`, `WriteBack` is an eviction, `Sync` is StorageEngine::sync, and
  `Restart` is the end of the process or a crash, at any moment, followed by open
  and recover. Recovery copies images over page 0, where txn_put logs them
  (`Overlaid`): up to four bytes hit the page id, which is never read back. The
  fifth byte is the page type; a leaf whose type is lost is read as an internal node
  with the same bytes for slots. With at most two entries, as in `Engine`, every
  search then goes from page 0 to page 0 for ever, and scan_all asks for a page beyond
  the end of the file. Fuller leaves end in the same, in a slice out of bounds or in an
  error, and the sixth byte, the number of slots, in a slice out of bounds.
- A page write happens as a whole or not at all. Torn *pages* are not modelled.

`pending`, `acked`, `dropped` and `faults` in `Transactions`, `recent`, `layout` and
`overlaid` in `Engine`, `expected` in `NodeLayout`, `written` and `original` in
`LogRecord` are history variables for the properties and bounds; only bounds read
them (`Claimed` in `Engine`: no calls are considered once nothing is claimed).
Definitions called "Variant of ..." are wrong versions of the definition that
follows them. Each property is known to reject at least one; no specification uses
them.

## Runs

| Run | Instance | States | Result |
|---|---|---|---|
| `pool` | 2 frames, 3 pages, 2 pins, every I/O may fail | 292,758 | holds |
| `transactions` | 2 transactions and 6 records per log, 2 runs, 1 failed flush, 1 page | 691,024 | holds |
| `torn_tail` | the same with torn records | | CommitIsDurable violated |
| `id_reuse` | as `transactions` | | NoPhantomRedo violated |
| `btree` | 7 keys, 2 of them rewritten, 2 entries per node, 3 levels | 16,952 | holds |
| `btree_parents` | 8 keys in any order, 2 entries per node | | SearchFindsAll violated |
| `engine` | 3 keys, 2 entries per node, 1 transaction, 3 records with images of 4 or 5 bytes, 2 runs | 411,234 | holds |
| `engine_reopen` | the same, no transactions | | SyncedIsFound violated |
| `engine_redo` | 1 key, images of 5 bytes | | SyncedIsFound violated |
| `parts` | 3 transactions and 3 pages to lock; 6 keys of 3 sizes in a page of 90 bytes; 2 records in the log | 77,106 | holds |
| `zero_length` | 2 records in the log | | StopsAtDamage violated |
| `node_overlap` | the same page, values may become longer | | MustNotOverlap violated |

What the runs show:

- `parts`, locks: the two lock tables agree, exclusive locks have one holder, a
  transaction keeps all its locks or drops all, and this implements `StrictLocks`.
  No request is ever queued: the hand-over to waiters is dead code.
- `pool`: page table and frames describe the same cache, a clean frame equals the
  file, pinned pages stay put, and callers cannot tell the pool from `PageStore`,
  with all failures of reads, writes, allocations and syncs.
- `transactions`: an acknowledged commit survives every crash; flushed records are
  durable, also after failed and repeated flushes; undo chains are right; no lock
  outlives its transaction. An aborted transaction is not redone (`AbortedStaysOut`),
  unless its commit had failed before. These are statements about the methods of the
  transaction manager and the log; the engine's txn_put and txn_delete write to the log
  past the manager, with any id, so that an id that was never begun, or that has ended,
  gets records too. `FlushedIsDurable` is about the records of this run: open also
  counts as flushed what an earlier run had written and not synced.
- `btree`: search, scan_all and range_scan agree and the leaves implement a map.
  Scans are complete even in the middle of a climb. Every insert ends. Page 0 stays
  the first leaf through all splits.
- `engine`: what sync made durable is still shown by scan_all after any evictions,
  any stop and recovery, with three exceptions. A leaf has split since that sync: pages
  are not logged, and a split that is written back in part cannot be repaired. A put or
  a delete went through page 0 after it had ceased to be the root: it changes a leaf
  that may not be the one of its key. Recovery has copied an image of five bytes or more
  over page 0 (`engine_redo`); images of four bytes do no harm, and the run has both. It
  holds also after root splits, where get fails (`engine_reopen`), because page 0, from
  which the reopened database starts, is the first leaf.
- `parts`, pages: with values that do not grow, slots and data stay apart, no entry
  is written over, both binary searches agree with a scan of the slots, and splits
  keep every entry. The order in which keys come makes the lowest offset appear
  anywhere in the directory, which is why the frontier has to look at all slots.
- `parts`, log: whatever prefix of the file is left and whatever range of it is
  zeros, exactly the records before the damage are read, all fields and both images
  intact, unless deserialize panics (`zero_length`). It never does on a file that is
  only cut short. The reader's loop always moves forward. The sliced CRC equals the bitwise
  one at every length.

### Where the code falls short

- `torn_tail`: `recover` returns early when there is nothing to redo or undo
  (`engine.rs:96`) and leaves a torn record in the log. New records go behind it,
  where reading never gets, so the next recovery misses commits that returned Ok.
- `id_reuse`: ids restart at 1 with each run (`txn_manager.rs:63`), the log may
  not have been truncated, and `recover` knows transactions by id alone. A COMMIT
  of an earlier run makes it redo writes of a transaction that never committed.
- `btree_parents`: `split_internal` sets parent pointers only for the children of
  the new right node (`tree.rs:291`). A new child that lands in the left half has
  none. When it splits in turn it is taken for the root, and the rest of the tree
  is lost to search. The run `btree` leaves out just the inserts that split an
  internal node with the new child on the left (`Allowed`), and passes.
- `engine_reopen`: open takes page 0 for the root (`engine.rs:73`); after the first
  root split it is the first leaf, and get misses the keys of all others. The
  repository's reopening test stores two keys and never splits.
- `engine_redo`: txn_put logs key and value as images of page 0 (`engine.rs:177`).
  Recovery copies them over that page, and from five bytes on they replace the page
  type: get on a synced key does not return. This also happens to transactions that
  committed and were synced. What recovery does not do is redo the put: a key that was
  committed and not synced is lost with its page.
- `node_overlap`: insert of a key that is there does not ask leaf_can_fit
  (`tree.rs:114`). A longer value in a full leaf grows into the slots, or beyond the
  page, where the code panics. Splitting by number of entries (`tree.rs:149`) does the
  same when sizes differ much: with `Lengths = {4, 32}` and `PAGE_SIZE = 100`,
  `MustNotOverlap` fails without any update.
- `zero_length`: a record length below 8 makes opening the database panic
  (`log_record.rs:206`), where the comment at `wal_manager.rs:181` promises to stop. A
  tail of zeros has such a length. In records longer than the 255 bytes of the model,
  zeros from the second byte of the length on have the same effect on lengths from 257
  to 263, and turn 264 into 8, the length of an empty body, whose checksum is 0.
- The engine takes no locks: txn_put and txn_delete call the log and the tree directly
  (`engine.rs:177`, `engine.rs:191`). Transactions see each other's writes, and recover
  may undo a write that is older than one it redoes on the same page, since all undo
  actions follow all redo actions (`engine.rs:121`). The second has no effect of its own,
  because every image goes to the first bytes of page 0 (see `engine_redo`).
- abort_transaction does not roll back: it drops the write set (`engine.rs:203`, and the
  comment on line 204 says so). What the transaction put or deleted stays in the tree.
- A database that is opened, never synced and opened again may hang: create allocates
  page 0, which makes the file one page of zeros, and leaves the leaf itself in the pool.
  If the program stops before that page is written back, the next open takes the zeros
  for the root (`engine.rs:70`), an internal node that is its own leftmost child, on
  which find_leaf (`tree.rs:77`) does not end. In `Engine` this is a `Restart` with
  `ZeroNode` at page 0; no property claims anything of a database before its first sync.
- Page checksums are computed with every write and never verified on reading.

### Bounds, and why they are enough

- `pool`: two frames and three pages are the least that make evictions compete,
  with one frame pinned and one to turn over. `MaxPins = 2` lets a page be pinned
  twice. One image besides the zero and the blank one tells written from unwritten.
- `transactions`: six records hold two interleaved transactions, each with a
  BEGIN, a write and an end. Two runs are the least in which one log is written
  twice; one failed flush is followed by a repeated one.
- `btree`: with two entries per node, seven keys split leaves, internal nodes and
  the root twice. Two keys, one on each side, get two values.
- `engine`: three keys split the root, the only split that changes where a reopened
  database starts. Three records are a BEGIN, a write and a COMMIT or ABORT. Two runs
  are one restart in every state of the first, and everything that follows.
- `parts`: three transactions let two share a page while a third is refused, and three
  pages let each hold a different set. Slotted pages hold two to five entries, so that splits, rebuilds and inserts at
  both ends and in the middle occur in both kinds of node. Lengths differ by a factor
  of three and a half; much larger factors overflow at splits (see above). Two records
  are the least that have a boundary, and the lengths of their bodies cover all
  remainders by four. The parts share nothing, so each moves only while the others are
  in their initial states.
- Deadlock is checked in every run but `parts`, where a log that has been read is
  at its end.

Fairness is assumed only for the steps of a climb (`BTree!Spec`): they are the
rest of one call, which the code runs to its end. No caller is assumed to call.

## Proofs

`LockManagerProofs` proves, for any sets of transactions and resources and with
no assumption on them:

- `LockTypes`, `LockTablesAgree`, `LockExclusion`: `LockTypeOK`, `TablesAgree` and
  `ExclusiveIsAlone` are invariants;
- `LockTwoPhase`: every step satisfies `KeepsOrDropsAll`;
- `LockRefinement`: `LockSpec` implements `StrictLocks`.

The inductive invariant `LockInv` is the conjunction of the three invariants; no
further strengthening is needed, and on small instances TLC finds each of the three
preserved on its own. The conjunction is what makes release_all simple
(`ReleaseEffect`): the queues are empty, so nobody is handed a lock, and the tables
agree, so walking `txn_locks` reaches every entry that has t as a holder; the call
takes t out of every entry and does nothing else. `AcquireEffect` and `ReleaseHolds`
say the same in terms of who holds what in which mode. `LockTwoPhase` and
`LockRefinement` rest on them and do depend on `TablesAgree`: without it release_all
would leave a transaction some of its locks.

`BufferPoolProofs` proves, for any positive number of frames (`CapacityAssumption`),
any bounds on pages and pins that are naturals (`BoundsAssumption`) and any images:

- `PoolTypes`, `PoolTable`, `PoolClean`: `PoolTypeOK`, `TableMatchesFrames` and
  `CleanMatchesFile` are invariants;
- `PoolPins`: every step satisfies `PinnedStays`;
- `PoolRefinement`: `PoolSpec` implements `PageStore`.

The inductive invariant `PoolInv` is again the conjunction of the three invariants.
They need each other: an eviction removes the right entry of the table because the
table matches the frames, and may skip the write of a clean frame because that frame
matches the file. The argument has three layers. `FreeFrame` and `EvictedFile` say
what get_free_frame does, whichever frame CLOCK chooses: the frame is unpinned and
comes back empty, the others change at most in their ref_bit, and the evicted page is
in the file. `Installed`, `Freed`, `Touched`, `Undisturbed` and `Cleaned` say what
the five kinds of change to the pool do to the invariant and to what callers see
(`Store`). `Steps` goes through the fourteen actions. From the choice of CLOCK only
`VictimIsUnpinned` is used, so the theorems hold for any other choice among unpinned
frames too; that CLOCK finds a frame whenever one is unpinned is not proved.

`TransactionsProofs` proves `TxnLocks`: `NoLockOutlivesTxn` is an invariant of
`Transactions`, for any numbers of transactions, records, runs and failed flushes. The
inductive invariant adds `LockInv`, which is thereby shown to hold inside the composed
system too; it is what makes release_all empty the set of the transaction that ends and
no other. The log plays no part, which is why crashes and failed commits are short
cases.

Only model-checked: the other properties of transactions and the log, the tree and the
formats. What recovery reads is the longest readable prefix of a log, and the next LSN
is one more than the largest in it; that these exist for every log is an induction over
its length, which is out of the prover's reach.
Liveness (`InsertEnds`) is out of the prover's reach and stays with TLC.

## Not modelled

- The error type, the CLI and demo, benchmarks and tests have no state of their own
  or only call the API.
- I/O errors in the middle of a tree operation or of recovery. The code propagates
  them and leaves the pages as they are; a split interrupted by one has lost entries
  at once, and no promise of the tree survives. The pool and the log have their error
  paths modelled, the tree has crashes instead (`Engine`).
- Torn pages: a page is written as a whole or not at all. Nothing in the code deals
  with torn pages, and the page checksum that could show one is not verified.
- The rule that a log record is flushed before its page is written (`pool.rs:19`).
  The code does not enforce it, and nothing depends on it: the log has no images of
  the pages that a put changes.
- The width of integers: page ids, LSNs and transaction ids are counters that stay
  far below 2^32 and 2^64, and offsets in a page fit in 16 bits.
- In `engine`, calls that fail and checkpoints, which the pool and transaction runs
  have, and what follows a write through page 0 once it is no longer the root, or the
  opening of a database torn in a split (`Claimed`): nothing is claimed from there on.

## Plan

1. Proofs about `NodeLayout` (`DataApart`).
2. `Engine` with failing calls, once state spaces allow it.
