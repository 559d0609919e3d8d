-------------------------- MODULE MCParallelNetwork --------------------------
(***************************************************************************)
(* ParallelNetwork on small instances: up to three clients, of which the   *)
(* first may ask for two executables.                                      *)
(***************************************************************************)
EXTENDS ParallelNetwork

CONSTANTS c1, c2, c3

TwoAndOne == c1 :> 2 @@ c2 :> 1

One == [c \in ClientProcs |-> 1]

Two == [c \in ClientProcs |-> 2]

\* Other programs leave three ports for process servers and the sockets of the
\* manager.
AllButThree == 9004..9997

\* Clients that ask for as much, and process servers, are interchangeable.
Symmetry == Permutations(ClientProcs) \cup Permutations(ServerProcs)
==============================================================================
