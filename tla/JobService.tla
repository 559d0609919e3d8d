------------------------------ MODULE JobService ------------------------------
(***************************************************************************)
(* What the three programs promise together, told by what their users see: *)
(* the executables that are asked for, what each process server prints     *)
(* that it runs, and what each client prints.  Every executable a client   *)
(* asks for is run once, by one process server, and its output is printed  *)
(* once, by that client, after which the client ends.                      *)
(*                                                                         *)
(* The promise ends when the load manager does.                            *)
(***************************************************************************)
EXTENDS Naturals, Sequences

CONSTANTS ClientProcs,    \* the clients
          ServerProcs,    \* the process servers
          CommandsOf(_),  \* the executables a client asks for
          Output(_)       \* what running an executable returns

VARIABLES asked,    \* the clients that have been started
          ran,      \* ran[s]: what process server s has run, in order
          printed,  \* printed[c]: the outputs client c has printed, in order
          done,     \* the clients that have ended
          down      \* whether the load manager is gone

vars == <<asked, ran, printed, done, down>>

Elements(s) == {s[i] : i \in 1..Len(s)}

Init == /\ asked = {}
        /\ ran = [s \in ServerProcs |-> << >>]
        /\ printed = [c \in ClientProcs |-> << >>]
        /\ done = {}
        /\ down = FALSE

Ask(c) == /\ c \notin asked
          /\ asked' = asked \cup {c}
          /\ UNCHANGED <<ran, printed, done, down>>

Run(c, e) ==
  /\ c \in asked
  /\ \A s \in ServerProcs : e \notin Elements(ran[s])
  /\ \E s \in ServerProcs : ran' = [ran EXCEPT ![s] = Append(@, e)]
  /\ UNCHANGED <<asked, printed, done, down>>

PrintOutput(c, e) ==
  /\ \E s \in ServerProcs : e \in Elements(ran[s])
  /\ Output(e) \notin Elements(printed[c])
  /\ printed' = [printed EXCEPT ![c] = Append(@, Output(e))]
  /\ UNCHANGED <<asked, ran, done, down>>

Finish(c) == /\ c \in asked \ done
             /\ \A e \in CommandsOf(c) : Output(e) \in Elements(printed[c])
             /\ done' = done \cup {c}
             /\ UNCHANGED <<asked, ran, printed, down>>

GoDown == /\ down' = TRUE
          /\ UNCHANGED <<asked, ran, printed, done>>

Next == \/ \E c \in ClientProcs :
             \/ Ask(c)
             \/ Finish(c)
             \/ \E e \in CommandsOf(c) : Run(c, e) \/ PrintOutput(c, e)
        \/ GoDown

SafetySpec == Init /\ [][Next]_vars

\* While the manager is up, what was asked for is run, printed and finished.
Spec == /\ SafetySpec
        /\ \A c \in ClientProcs :
             /\ WF_vars(Finish(c) /\ ~down)
             /\ \A e \in CommandsOf(c) :
                  WF_vars(Run(c, e) /\ ~down) /\ WF_vars(PrintOutput(c, e) /\ ~down)
==============================================================================
