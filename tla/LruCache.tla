------------------------------- MODULE LruCache -------------------------------
(***************************************************************************)
(* The size bounded, mutex protected LRU cache of util/cache.hpp, template *)
(* Cache<key, value>, as its two users instantiate it:                     *)
(*                                                                         *)
(*   - MapFileReader::g_tile_index_ (io/mapsforge_map_reader.cpp), the     *)
(*     decoded base tiles of all open map files, shared by the worker      *)
(*     threads that read tiles;                                            *)
(*   - MapWidget::overlay_cache_ (viewer/map_widget.cpp), the overlays     *)
(*     loaded from the overlay database, invalidated with remove() when an *)
(*     overlay is edited and with clear() when many change.                *)
(*                                                                         *)
(* Names follow the class: key_tracker_ is the usage list (least recently  *)
(* used first), key_to_value_ the map, size_ the running total of costs.   *)
(* A cached value is the version of the backing object it was loaded from. *)
(***************************************************************************)
EXTENDS Naturals, Sequences, SequencesExt, FiniteSetsExt

CONSTANTS
    Threads,      \* threads that call the cache
    Keys,         \* keys they ask for
    Costs,        \* what a loader may report as the size of a value
    capacity_,    \* "Maximum bytes to retain"
    Asserts,      \* TRUE: built without NDEBUG, a failing assert() aborts
    MaxVersion,   \* bound: how often a backing object may change
    MaxSize,      \* bound: clear() is not called once size_ exceeds it
    Free,         \* mutex_ is not held
    NoEntry       \* key_to_value_ has no record of a key

ASSUME KeysAssumption == NoEntry \notin [version : Nat, cost : Nat]
ASSUME ThreadsAssumption == Free \notin Threads
ASSUME CostsAssumption == Costs \subseteq Nat
ASSUME CapacityAssumption == capacity_ \in Nat \ {0}
ASSUME AssertsAssumption == Asserts \in BOOLEAN
ASSUME MaxVersionAssumption == MaxVersion \in Nat
ASSUME MaxSizeAssumption == MaxSize \in Nat

VARIABLES
    key_tracker_,   \* usage history, most recent at the back
    key_to_value_,  \* Keys -> record of the value and its cost, or NoEntry
    size_,          \* what the cache believes it retains
    mutex_,         \* the thread that holds the mutex, or Free
    pending,        \* thread -> the fetch whose loader it is running
    process,        \* "running", or how the process ended
    source,         \* version of each backing object (map tile, overlay row)
    cleared,        \* history: clear() has been called
    floor,          \* history: version of the object at its last invalidation
    usedAfter       \* history: <<a, b>> when b was used after a's last use

cache == <<key_tracker_, key_to_value_, size_>>
history == <<cleared, floor, usedAfter>>
vars == <<key_tracker_, key_to_value_, size_, mutex_, pending, process, source,
          cleared, floor, usedAfter>>

Versions == 0..MaxVersion
Entry == [version : Versions, cost : Costs]
NoFetch == [active |-> FALSE]
Fetch == [active : {TRUE}, key : Keys, version : Versions]

-----------------------------------------------------------------------------
Cached == {k \in Keys : key_to_value_[k] # NoEntry}

\* bool contains(k)
contains(k) == key_to_value_[k] # NoEntry

\* The list iterator the map keeps with a key: the key's place in the tracker.
Iterator(k) == CHOOSE i \in DOMAIN key_tracker_ : key_tracker_[i] = k

\* k is used now: everything else was last used before it.
Use(k) == usedAfter' = {p \in usedAfter : p[1] # k} \cup {<<a, k>> : a \in Keys \ {k}}

Init ==
    /\ key_tracker_ = <<>>
    /\ key_to_value_ = [k \in Keys |-> NoEntry]
    /\ size_ = 0
    /\ mutex_ = Free
    /\ pending = [t \in Threads |-> NoFetch]
    /\ process = "running"
    /\ source = [k \in Keys |-> 0]
    /\ cleared = FALSE
    /\ floor = [k \in Keys |-> 0]
    /\ usedAfter = {}

\* A thread may enter a public operation.
CanLock(t) == process = "running" /\ mutex_ = Free /\ ~pending[t].active

-----------------------------------------------------------------------------
\* Mutant of FetchHit: the list node is not moved.
BugNoSplice(t, k) ==
    /\ CanLock(t)
    /\ contains(k)
    /\ Use(k)
    /\ UNCHANGED <<cache, mutex_, pending, process, source, cleared, floor>>

\* fetch() of a key that is present: splice its list node to the back.
FetchHit(t, k) ==
    /\ CanLock(t)
    /\ contains(k)
    /\ key_tracker_' = Append(RemoveAt(key_tracker_, Iterator(k)), k)
    /\ Use(k)
    /\ UNCHANGED <<key_to_value_, size_, mutex_, pending, process, source, cleared, floor>>

\* Mutant of FetchMiss: the loader runs with the mutex released.
BugLoadUnlocked(t, k) ==
    /\ CanLock(t)
    /\ ~contains(k)
    /\ pending' = [pending EXCEPT ![t] = [active |-> TRUE, key |-> k, version |-> source[k]]]
    /\ UNCHANGED <<cache, mutex_, process, source, history>>

\* fetch() of a key that is absent: the loader runs with the mutex held, and
\* reads the backing object.
FetchMiss(t, k) ==
    /\ CanLock(t)
    /\ ~contains(k)
    /\ mutex_' = t
    /\ pending' = [pending EXCEPT ![t] = [active |-> TRUE, key |-> k, version |-> source[k]]]
    /\ UNCHANGED <<cache, process, source, history>>

\* The loader throws: the scoped lock is released, nothing is recorded.
LoaderThrows(t) ==
    /\ process = "running" /\ pending[t].active
    /\ mutex_' = Free
    /\ pending' = [pending EXCEPT ![t] = NoFetch]
    /\ UNCHANGED <<cache, process, source, history>>

\* insert(k, v, c) up to the point where the record is linked: what evict()
\* leaves when the value does not fit. evict() drops one record, the least
\* recently used one.
\* (BugSubtractsNewCost: a mutant of the accounting.)
NeedsRoom(c) == size_ + c > capacity_
Victims(c) == IF NeedsRoom(c) /\ key_tracker_ # <<>> THEN {Head(key_tracker_)} ELSE {}
TrackerAfterEvict(c) ==
    IF NeedsRoom(c) /\ key_tracker_ # <<>> THEN Tail(key_tracker_) ELSE key_tracker_
BugSubtractsNewCost(c) == IF NeedsRoom(c) /\ key_tracker_ # <<>> THEN size_ - c ELSE size_
SizeAfterEvict(c) ==
    IF NeedsRoom(c) /\ key_tracker_ # <<>>
    THEN size_ - key_to_value_[Head(key_tracker_)].cost ELSE size_

\* evict() asserts that the tracker is not empty.
EvictAsserts(c) == Asserts /\ NeedsRoom(c) /\ key_tracker_ = <<>>

\* The loader returned a value of cost c: insert it and release the mutex.
FetchInsert(t, c) ==
    /\ process = "running" /\ pending[t].active
    /\ ~EvictAsserts(c)
    /\ LET k == pending[t].key
           e == [version |-> pending[t].version, cost |-> c]
       IN  /\ key_tracker_' = Append(TrackerAfterEvict(c), k)
           /\ key_to_value_' = [x \in Keys |-> IF x = k THEN e
                                               ELSE IF x \in Victims(c) THEN NoEntry
                                               ELSE key_to_value_[x]]
           /\ size_' = SizeAfterEvict(c) + c
           /\ Use(k)
    /\ mutex_' = Free
    /\ pending' = [pending EXCEPT ![t] = NoFetch]
    /\ UNCHANGED <<process, source, cleared, floor>>

\* ... and the assertion of evict() fails.
FetchInsertAborts(t, c) ==
    /\ process = "running" /\ pending[t].active
    /\ EvictAsserts(c)
    /\ process' = "assertion failed"
    /\ UNCHANGED <<cache, mutex_, pending, source, history>>

\* remove(k). The code erases the map node and then reads the iterator out of
\* the erased node; an allocator that leaves freed memory readable gives the
\* outcome below, any other one the next action.
RemoveKey(t, k) ==
    /\ CanLock(t)
    /\ floor' = [floor EXCEPT ![k] = source[k]]
    /\ IF contains(k)
       THEN /\ size_' = size_ - key_to_value_[k].cost
            /\ key_to_value_' = [key_to_value_ EXCEPT ![k] = NoEntry]
            /\ key_tracker_' = RemoveAt(key_tracker_, Iterator(k))
       ELSE UNCHANGED cache
    /\ UNCHANGED <<mutex_, pending, process, source, cleared, usedAfter>>

\* (unless the key is absent: nothing is read then).
RemoveFaults(t, k) ==
    /\ CanLock(t)
    /\ contains(k)
    /\ process' = "memory fault"
    /\ UNCHANGED <<cache, mutex_, pending, source, history>>

\* Mutant of Clear: only the map is emptied.
BugClearOnlyMap(t) ==
    /\ CanLock(t)
    /\ key_to_value_' = [k \in Keys |-> NoEntry]
    /\ cleared' = TRUE
    /\ floor' = source
    /\ UNCHANGED <<key_tracker_, size_, mutex_, pending, process, source, usedAfter>>

\* clear(): both containers are emptied, size_ keeps its value (which would
\* otherwise grow without bound: MaxSize).
Clear(t) ==
    /\ CanLock(t)
    /\ size_ <= MaxSize
    /\ key_tracker_' = <<>>
    /\ key_to_value_' = [k \in Keys |-> NoEntry]
    /\ cleared' = TRUE
    /\ floor' = source
    /\ UNCHANGED <<size_, mutex_, pending, process, source, usedAfter>>

\* The backing object changes (an overlay is edited); not under this mutex.
Edit(k) ==
    /\ process = "running"
    /\ source[k] < MaxVersion
    /\ source' = [source EXCEPT ![k] = @ + 1]
    /\ UNCHANGED <<cache, mutex_, pending, process, history>>

\* A process that has ended does nothing more.
Ended == process # "running" /\ UNCHANGED vars

Next ==
    \/ \E t \in Threads, k \in Keys :
          FetchHit(t, k) \/ FetchMiss(t, k) \/ RemoveKey(t, k) \/ RemoveFaults(t, k)
    \/ \E t \in Threads, c \in Costs : FetchInsert(t, c) \/ FetchInsertAborts(t, c)
    \/ \E t \in Threads : LoaderThrows(t) \/ Clear(t)
    \/ \E k \in Keys : Edit(k)
    \/ Ended

Spec == Init /\ [][Next]_vars

-----------------------------------------------------------------------------
(* Properties. *)

\* The bytes that are really retained.
Retained == MapThenSumSet(LAMBDA k : key_to_value_[k].cost, Cached)

\* Between operations the usage list and the map describe the same records:
\* every recorded key is in the list, once, and nothing else is. evict() and
\* splice() dereference without checking on the strength of this.
TrackerMatchesMap ==
    /\ \A i, j \in DOMAIN key_tracker_ : key_tracker_[i] = key_tracker_[j] => i = j
    /\ ToSet(key_tracker_) = Cached

\* size_ never falls below what is retained (so its unsigned arithmetic never
\* wraps), and is exact as long as clear() was not called: clear() forgets to
\* reset it, and the lost bytes are never given back.
SizeAccounting ==
    /\ Retained <= size_
    /\ ~cleared => size_ = Retained

\* The usage list is in order of last use, least recent first.
RecencyOrder ==
    \A i, j \in DOMAIN key_tracker_ :
        i < j => <<key_tracker_[i], key_tracker_[j]>> \in usedAfter

\* Only one thread at a time is between the lookup and the insertion of a
\* fetch, and it holds the mutex: no key is ever loaded or inserted twice.
LoaderHoldsMutex == \A t \in Threads : pending[t].active => mutex_ = t

\* A version served from the cache, or about to enter it, is no older than
\* the object was when the key was last invalidated: an overlay edited and
\* then removed from the cache is never drawn in its old form, whatever fetch
\* was under way. (It may be older than the object is now.)
FreshSinceInvalidation ==
    /\ \A k \in Cached : key_to_value_[k].version \in floor[k]..source[k]
    /\ \A t \in Threads : pending[t].active =>
          pending[t].version \in floor[pending[t].key]..source[pending[t].key]

\* A record dropped to make room is the least recently used one, and the
\* record just fetched is never the one dropped.
EvictsLeastRecentlyUsed ==
    [][\A t \in Threads : (pending[t].active /\ ~pending'[t].active) =>
          \A k \in Cached : key_to_value_'[k] = NoEntry =>
              \A other \in Cached \ {k} : <<k, other>> \in usedAfter]_vars

\* What a client of the cache sees: a table that may lose entries at any time.
Table == [k \in Keys |-> IF contains(k) THEN key_to_value_[k].version ELSE NoEntry]
Memo == INSTANCE MemoTable WITH Absent <- NoEntry, table <- Table
ImplementsMemoTable == Memo!Spec

=============================================================================
