----------------------------- MODULE Admission -----------------------------
(***************************************************************************)
(* What the connection scheduler promises, without its threads, queues and *)
(* sockets: a worker is given connections up to its capacity and gives     *)
(* back only what it was given.                                            *)
(***************************************************************************)
EXTENDS Integers

CONSTANTS NWorkers, Capacity

VARIABLE admitted   \* connections each worker is answerable for

Init == admitted = [w \in 0 .. NWorkers - 1 |-> 0]

(* mk_sched_add_client() chose worker w.                                   *)
Admit(w) ==
  /\ admitted[w] < Capacity
  /\ admitted' = [admitted EXCEPT ![w] = @ + 1]

(* mk_sched_remove_client() found the connection in w's busy_queue.        *)
Release(w) ==
  /\ admitted[w] > 0
  /\ admitted' = [admitted EXCEPT ![w] = @ - 1]

Next == \E w \in 0 .. NWorkers - 1 : Admit(w) \/ Release(w)

Spec == Init /\ [][Next]_admitted
=============================================================================
