-------------------------------- MODULE MCSQS --------------------------------
(* SQS with interchangeable bodies and clients: neither the specification nor
   its safety properties tell them apart.                                    *)

EXTENDS SQS, TLC

Symmetry == Permutations(Bodies) \cup Permutations(Clients)

-----------------------------------------------------------------------------
(* Bound: under a policy that allows several receives, where histories are
   longer, no step follows the one that takes the last id.                   *)

FewIds == maxReceive > 1 => used < MaxId

=============================================================================
