------------------------------ MODULE MemoTable ------------------------------
(***************************************************************************)
(* What a cache promises its clients, without any replacement policy: a    *)
(* table from keys to versions of their backing objects that may forget    *)
(* anything at any time, and that never remembers a version older than the *)
(* object had when its key was last invalidated.  LruCache implements it.  *)
(***************************************************************************)
EXTENDS Naturals

CONSTANTS Keys, MaxVersion, Absent

VARIABLES table, source, floor

vars == <<table, source, floor>>

Versions == 0..MaxVersion

Init ==
    /\ table = [k \in Keys |-> Absent]
    /\ source = [k \in Keys |-> 0]
    /\ floor = [k \in Keys |-> 0]

\* The value of k becomes known; other keys may be forgotten to make room.
Fill(k, lost) ==
    /\ \E v \in floor[k]..source[k] :
          table' = [x \in Keys |-> IF x = k THEN v
                                   ELSE IF x \in lost THEN Absent ELSE table[x]]
    /\ UNCHANGED <<source, floor>>

\* The client declares what it knows about the keys of K to be out of date.
Invalidate(K) ==
    /\ table' = [x \in Keys |-> IF x \in K THEN Absent ELSE table[x]]
    /\ floor' = [x \in Keys |-> IF x \in K THEN source[x] ELSE floor[x]]
    /\ UNCHANGED source

\* A backing object changes.
Edit(k) ==
    /\ source[k] < MaxVersion
    /\ source' = [source EXCEPT ![k] = @ + 1]
    /\ UNCHANGED <<table, floor>>

Next ==
    \/ \E k \in Keys, lost \in SUBSET Keys : Fill(k, lost)
    \/ \E K \in SUBSET Keys : Invalidate(K)
    \/ \E k \in Keys : Edit(k)

Spec == Init /\ [][Next]_vars

=============================================================================
