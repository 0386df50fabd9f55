----------------------------- MODULE MCFieldSync -----------------------------
(* One browser with two overlapping syncs, two submissions, and batches of *)
(* one or two, so that the queue can be longer than a batch.               *)
EXTENDS FieldSync, TLC

Symmetry == Permutations(Items) \cup Permutations(Devices)
            \cup Permutations(Syncs) \cup Permutations(Tenants)
=============================================================================
