----------------------------- MODULE MCProducer -----------------------------
(* Small instances of Producer for TLC: two callers, a few sequence and    *)
(* request ids.                                                            *)
EXTENDS Producer, TLC

\* Callers are interchangeable: the model never compares two of them.
CallerSymmetry == Permutations(Callers)
=============================================================================
