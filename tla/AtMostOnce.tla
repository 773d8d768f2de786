----------------------------- MODULE AtMostOnce -----------------------------
(***************************************************************************)
(* What the program promises of the messages of a queue that acknowledges  *)
(* on delivery, over any number of processes: they leave the queue in the  *)
(* order in which they were published, none comes back, each is stored at  *)
(* most once, and what is stored stays.  Those that have left the queue    *)
(* may be lost, any number at once.                                        *)
(***************************************************************************)
EXTENDS Naturals

CONSTANT Messages       \* a set of numbers: the order of publication

VARIABLE where          \* where each message is

Places == {"unsent", "queued", "taken", "stored", "gone"}

Init == where = [m \in Messages |-> "unsent"]

Move(M, from, to) ==
  /\ \A m \in M : where[m] = from
  /\ where' = [m \in Messages |-> IF m \in M THEN to ELSE where[m]]

Publish(m) == Move({m}, "unsent", "queued")

\* A message that never reaches the queue.
Drop(m) == Move({m}, "unsent", "gone")

\* The first of the queue is taken.
Take(m) == /\ \A n \in Messages : n < m => where[n] # "queued"
           /\ Move({m}, "queued", "taken")

Store(m) == Move({m}, "taken", "stored")

Lose(M) == Move(M, "taken", "gone")

Next ==
  \/ \E m \in Messages : Publish(m) \/ Drop(m) \/ Take(m) \/ Store(m)
  \/ \E M \in SUBSET Messages : Lose(M)

Spec == Init /\ [][Next]_where
=============================================================================
