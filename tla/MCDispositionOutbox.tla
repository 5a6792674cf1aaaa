------------------------ MODULE MCDispositionOutbox ------------------------
(* Small instances of DispositionOutbox. *)
EXTENDS OutboxDelivery, TLC

CONSTANTS w1, w2, idA, idB

\* Every process constructed with its own worker_id
DistinctIds == (w1 :> idA) @@ (w2 :> idB)

\* Every process constructed with the default worker_id
SharedIds == (w1 :> idA) @@ (w2 :> idA)

\* One process
SingleId == (w1 :> idA)

\* Processes with one shared worker_id, and the terminal rows, are interchangeable.
HeadSymmetry == Permutations(Workers) \cup Permutations(Terminal)
=============================================================================
