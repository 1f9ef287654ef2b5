---------------------------- MODULE RecentPackets ----------------------------
(***************************************************************************)
(* The duplicate filter of a bridge session: struct RecentPackets of       *)
(* src/src/bridge.rs.  It remembers the last Capacity distinct packets,    *)
(* each known by its (from, id) pair, in a queue `order` (the VecDeque)    *)
(* and a set `set` (the HashSet).  A packet already remembered is refused  *)
(* and is not moved to the back: the filter forgets by age of insertion.   *)
(***************************************************************************)
EXTENDS Naturals, Sequences

CONSTANTS
    Key,        \* the (from, id) pairs
    Capacity    \* RECENT_PACKETS_CAPACITY, 1024 in the program

ASSUME CapacityAssumption == Capacity \in Nat \ {0}

VARIABLES
    order,      \* self.order
    set         \* self.set

recentVars == <<order, set>>

\* RecentPackets::new: what a new session starts from.
Empty == order = <<>> /\ set = {}

\* The same constructor, run again when the next session builds its Bridge.
Forget == order' = <<>> /\ set' = {}

\* The answer insert gives for key k.
Accepts(k) == k \notin set

-----------------------------------------------------------------------------
\* Variants of Insert that a slip in the code would give.
InsertKeepsEvicted(k) ==
    IF Accepts(k)
    THEN /\ order' = Append(IF Len(order) >= Capacity THEN Tail(order) ELSE order, k)
         /\ set' = set \cup {k}
    ELSE UNCHANGED recentVars

InsertOffByOne(k) ==
    IF Accepts(k)
    THEN LET full == Len(order) > Capacity IN
         /\ order' = Append(IF full THEN Tail(order) ELSE order, k)
         /\ set' = (set \cup {k}) \ (IF full THEN {Head(order)} ELSE {})
    ELSE UNCHANGED recentVars

InsertEvictsEarly(k) ==
    IF Accepts(k)
    THEN LET full == Len(order) + 1 >= Capacity /\ order # <<>> IN
         /\ order' = Append(IF full THEN Tail(order) ELSE order, k)
         /\ set' = (set \cup {k}) \ (IF full THEN {Head(order)} ELSE {})
    ELSE UNCHANGED recentVars

\* insert: the key enters the set first; a full queue then gives up its
\* oldest key, which leaves the set too.
Insert(k) ==
    IF Accepts(k)
    THEN LET full == Len(order) >= Capacity IN
         /\ order' = Append(IF full THEN Tail(order) ELSE order, k)
         /\ set' = (set \cup {k}) \ (IF full THEN {Head(order)} ELSE {})
    ELSE UNCHANGED recentVars

-----------------------------------------------------------------------------
\* The queue and the set hold the same keys, each once in the queue, and
\* never more than Capacity (bridge.rs:72-83: set.insert, pop_front,
\* set.remove and push_back keep the two structures in step).
InStep ==
    /\ set = {order[i] : i \in 1..Len(order)}
    /\ \A i, j \in 1..Len(order) : order[i] = order[j] => i = j
    /\ Len(order) <= Capacity
=============================================================================
