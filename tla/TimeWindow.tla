----------------------------- MODULE TimeWindow -----------------------------
(***************************************************************************)
(* class TimeWindow (ring.hpp): a sliding window of fixed capacity over    *)
(* timestamped items.  A window is a record of the class's members; the    *)
(* operations are operators from a window to a window or to a value.       *)
(* Positions count from 0, oldest first; slots the window has left keep    *)
(* what was last stored in them, as in the code.                           *)
(***************************************************************************)
EXTENDS Naturals, Integers, FiniteSetsExt

NoEntry == [ts |-> 0, item |-> "none"]

EmptyWindow(capacity, window_ns) ==
  LET slots == IF capacity = 0 THEN 1 ELSE capacity IN
  [buf        |-> [i \in 0 .. slots - 1 |-> NoEntry],
   capacity   |-> slots,
   window_ns  |-> window_ns,
   head       |-> 0,
   size       |-> 0,
   overflowed |-> 0]

\* The slot of the item at position i.
Slot(w, i) == (w.head + i) % w.capacity

Positions(w) == 0 .. w.size - 1

ItemAt(w, i) == w.buf[Slot(w, i)].item
TsAt(w, i) == w.buf[Slot(w, i)].ts

FrontTs(w) == TsAt(w, 0)
BackTs(w) == TsAt(w, w.size - 1)

\* Leaves the n oldest items behind.
Advance(w, n) == [w EXCEPT !.head = (w.head + n) % w.capacity, !.size = w.size - n]

\* expire: drops the run of items at the front that are older than the window.
Expire(w, now) ==
  Advance(w, Min({i \in 0 .. w.size :
                    i < w.size => TsAt(w, i) >= now - w.window_ns}))

\* Mutant of Stored: a full window overwrites its newest item.
StoredOverNewest(w, now, item) ==
  LET room == IF w.size = w.capacity
                THEN [w EXCEPT !.size = @ - 1, !.overflowed = @ + 1]
                ELSE w
  IN  [room EXCEPT !.buf[Slot(room, room.size)] = [ts |-> now, item |-> item],
                   !.size = @ + 1]

\* push before it expires: a full window gives up its oldest item, and counts it.
Stored(w, now, item) ==
  LET room == IF w.size = w.capacity
                THEN [Advance(w, 1) EXCEPT !.overflowed = @ + 1]
                ELSE w
  IN  [room EXCEPT !.buf[Slot(room, room.size)] = [ts |-> now, item |-> item],
                   !.size = @ + 1]

Push(w, now, item) == Expire(Stored(w, now, item), now)

\* lower_bound_ts: a binary search for the first position at or after t.
LowerBound(w, t) ==
  LET Stretch == (0 .. w.size) \X (0 .. w.size)
      search[s \in Stretch] ==
        LET lo  == s[1]
            hi  == s[2]
            mid == lo + (hi - lo) \div 2
        IN  IF lo >= hi THEN lo
            ELSE IF TsAt(w, mid) < t THEN search[<<mid + 1, hi>>] ELSE search[<<lo, mid>>]
  IN  search[<<0, w.size>>]

\* The positions every consumer walks: from the first item at or after lo up
\* to the last before the first one after hi.
Slice(w, lo, hi) ==
  {i \in LowerBound(w, lo) .. w.size - 1 :
     \A j \in LowerBound(w, lo) .. i : TsAt(w, j) <= hi}
=============================================================================
