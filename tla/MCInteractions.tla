--------------------------- MODULE MCInteractions ---------------------------
(***************************************************************************)
(* Instances of Interactions for TLC.                                      *)
(***************************************************************************)
EXTENDS Interactions, TLC

CONSTANTS s1
MCSpaceOf == [c \in Channels |-> s1]
MCSymmetry == Permutations(Interactions) \cup Permutations(Messages)
                \cup Permutations(Requests)
=============================================================================
