---------------------------- MODULE DiskManager ----------------------------
(***************************************************************************)
(* The page file of src/disk/disk_manager.rs.  The file is a function from *)
(* page ids 0, 1, ... to page images.  durable is the part of it that is   *)
(* known to survive a crash: what the file held at the last sync().        *)
(*                                                                         *)
(* An operation that returns Err is an operator of its own, because        *)
(* allocate_page has already counted the page when its write fails.        *)
(***************************************************************************)
EXTENDS Naturals

CONSTANTS Images,   \* what callers store in a page
          Zero,     \* the zero-filled image of a page that was never written
          Blank     \* the image Page::new builds: a header and no data

VARIABLES num_pages,   \* the AtomicU32 of the code
          file,        \* page id -> image, as read_page sees it
          durable      \* page id -> image, as of the last sync

diskVars == <<num_pages, file, durable>>

Image == Images \cup {Zero, Blank}

\* An empty database file, just opened.
DiskInit ==
  /\ num_pages = 0
  /\ file = [p \in {} |-> Zero]
  /\ durable = [p \in {} |-> Zero]

\* read_page succeeds on the pages that lie in the file.  The checksum in the
\* page header is not looked at.
CanRead(p) == p \in DOMAIN file

\* The file f once image v has been written to page p.
WritePage(f, p, v) == [f EXCEPT ![p] = v]

\* The file f once page p = num_pages has been allocated: one byte is written at
\* the end of the page, and the file system fills whatever lies before with zeros.
Extended(f, p) == [q \in 0 .. p |-> IF q \in DOMAIN f THEN f[q] ELSE Zero]

\* allocate_page: the page is counted, and then the file is extended ...
AllocatePage ==
  /\ num_pages' = num_pages + 1
  /\ file' = Extended(file, num_pages)

\* ... or the write fails and the counter stays one ahead.
AllocatePageFails ==
  /\ num_pages' = num_pages + 1
  /\ file' = file

\* sync: what has been written is durable from now on.
Sync == durable' = file'

=============================================================================
