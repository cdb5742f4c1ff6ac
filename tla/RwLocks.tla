------------------------------ MODULE RwLocks ------------------------------
(***************************************************************************)
(* parking_lot's reader-writer locks as the axis engine uses them.  A      *)
(* writer first excludes every newcomer and then waits for the readers     *)
(* that are inside, so a waiting writer also turns away new readers, one   *)
(* of its own readers included.                                            *)
(***************************************************************************)
CONSTANT Free   \* no writer

Unlocked == [writer |-> Free, readers |-> {}]

\* read() goes through and try_read() succeeds.
CanRead(l) == l.writer = Free

\* try_write() succeeds.
CanWrite(l) == l.writer = Free /\ l.readers = {}

ReadLock(l, t) == [l EXCEPT !.readers = @ \cup {t}]

ReadUnlock(l, t) == [l EXCEPT !.readers = @ \ {t}]

\* The first half of write(), possible when no other writer is in.
AnnounceWrite(l, t) == [l EXCEPT !.writer = t]

\* The second half: the writer has the lock to itself.
Exclusive(l, t) == l.writer = t /\ l.readers = {}

WriteUnlock(l) == [l EXCEPT !.writer = Free]
=============================================================================
