------------------------------ MODULE Delivery ------------------------------
(***************************************************************************)
(* What Pipeline.Process promises its storages, without goroutines or      *)
(* channels: payloads are numbered in the order in which the source takes  *)
(* them from the consumer's stream, and each storage is handed the         *)
(* payloads that no stage discarded, in that order, without a gap and      *)
(* without a repetition.  A storage may stop short at any time (an error,  *)
(* a cancelled context), so nothing is promised about how far it gets.     *)
(***************************************************************************)
EXTENDS Naturals

CONSTANT Storages       \* the storage providers of one pipeline

VARIABLES taken,        \* how many payloads the source has taken
          discarded,    \* the payloads that were dropped on the way
          stored        \* for each storage, the payloads it was handed

vars == <<taken, discarded, stored>>

Init == /\ taken = 0
        /\ discarded = {}
        /\ stored = [s \in Storages |-> {}]

\* The source takes the next payload from the stream.
Take == /\ taken' = taken + 1
        /\ UNCHANGED <<discarded, stored>>

\* The source takes a record it cannot turn into a payload.
TakeAndDiscard == /\ taken' = taken + 1
                  /\ discarded' = discarded \cup {taken + 1}
                  /\ UNCHANGED stored

\* A stage discards a payload that no storage has seen.
Discard(m) == /\ m \in 1 .. taken
              /\ \A s \in Storages : \A k \in stored[s] : k < m
              /\ discarded' = discarded \cup {m}
              /\ UNCHANGED <<taken, stored>>

\* Storage s is handed the next payload that was not discarded.
Store(s, m) == /\ m \in (1 .. taken) \ (stored[s] \cup discarded)
               /\ \A k \in 1 .. (m - 1) : k \in stored[s] \cup discarded
               /\ stored' = [stored EXCEPT ![s] = @ \cup {m}]
               /\ UNCHANGED <<taken, discarded>>

Next == \/ Take
        \/ TakeAndDiscard
        \/ \E m \in 1 .. taken : Discard(m)
        \/ \E s \in Storages : \E m \in 1 .. taken : Store(s, m)

Spec == Init /\ [][Next]_vars
=============================================================================
