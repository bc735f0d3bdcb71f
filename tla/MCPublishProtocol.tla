-------------------------- MODULE MCPublishProtocol --------------------------
(* Instances of PublishProtocol for TLC: the processes are model values.     *)
EXTENDS PublishProtocol, TLC

\* Processes of one kind are interchangeable: sound for the safety runs.
Symmetry == Permutations(Sessions) \cup Permutations(Watchers) \cup Permutations(Setters)
=============================================================================
