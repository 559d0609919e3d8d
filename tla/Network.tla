------------------------------- MODULE Network -------------------------------
(***************************************************************************)
(* The UDP sockets through which the three programs talk.  Every address   *)
(* is a port of one host (the programs are documented to run on            *)
(* 127.0.0.1); a bound socket has an inbox of the datagrams that have      *)
(* arrived and were not yet received.                                      *)
(*                                                                         *)
(* With Faults = {} the network is the loopback interface: a datagram      *)
(* sent to a bound port arrives, once and in order, and one sent to any    *)
(* other port is dropped, without an error for the sender.  The members of *)
(* Faults add what UDP between hosts may do, and what may happen to the    *)
(* processes.                                                              *)
(***************************************************************************)
EXTENDS Naturals, Sequences, SequencesExt

CONSTANTS
  ClientProcs,    \* the client processes that are ever started
  NumCommands,    \* NumCommands[c]: executables on the command line of c
  Faults,         \* what can go wrong
  MaxDuplicates,  \* bound: datagrams that are delivered twice
  FirstPort,      \* the lowest port the system lets a user's program bind
  OccupiedPorts   \* ports held by programs that are not modelled

FaultKinds == {"loss", "duplication", "reordering", "timeout",
               "clientCrash", "serverCrash"}

ASSUME NetworkAssumption ==
  /\ NumCommands \in [ClientProcs -> Nat \ {0}]
  /\ Faults \subseteq FaultKinds
  /\ MaxDuplicates \in Nat
  /\ FirstPort \in 1..9000
  /\ OccupiedPorts \subseteq Nat

VARIABLES
  net,        \* net[p]: the inbox of the socket bound to p, oldest first
  duplicates  \* datagrams delivered twice so far

netVars == <<net, duplicates>>

-----------------------------------------------------------------------------
(* What the datagrams say.                                                 *)

ClientReceivePort  == 9000
WaitPort           == 9001
InitializationPort == 9999

Ports == 0..65535

Command(c, n) == [type |-> "command", client |-> c, n |-> n]
Output(body)  == [type |-> "output", of |-> body]
Request(c)    == [type |-> "request", client |-> c]

InitMessage                  == [type |-> "init"]
ClientInitialized        == [type |-> "Client Initialized"]
ProcessServerInitialized == [type |-> "Process Server Initialized"]
NextResult               == [type |-> "NEXT RESULT"]

CommandsOf(c) == {Command(c, n) : n \in 1..NumCommands[c]}
Commands      == UNION {CommandsOf(c) : c \in ClientProcs}

\* What a process server can be asked to run.
Runnable == Commands \cup {ProcessServerInitialized}
Outputs  == {Output(b) : b \in Runnable}

-----------------------------------------------------------------------------
(* Sockets.                                                                *)

Bound == DOMAIN net

Free(p) == p \notin Bound /\ p \notin OccupiedPorts

NoneFree(ps) == ~\E p \in ps : Free(p)

\* The network n once a socket is bound to p, or those at ps are closed.
Bind(n, p)    == [q \in DOMAIN n \cup {p} |-> IF q = p THEN << >> ELSE n[q]]
Unbind(n, ps) == [q \in DOMAIN n \ ps |-> n[q]]

\* send_to: the network n once src has sent body to dst.
Sent(n, src, dst, body) ==
  [q \in DOMAIN n |-> IF q = dst
                        THEN Append(n[q], [src |-> src, body |-> body])
                        ELSE n[q]]

\* The positions in the inbox of p at which receive_from may find its datagram.
Arrivals(p) ==
  {i \in 1..Len(net[p]) : i = 1 \/ "reordering" \in Faults}

\* The network once receive_from has taken datagram i from the inbox of p.
Taken(p, i) == [net EXCEPT ![p] = RemoveAt(@, i)]

-----------------------------------------------------------------------------
(* What the network does of its own accord.                                *)

NetworkInit == /\ net = [p \in {ClientReceivePort, WaitPort, InitializationPort}
                           |-> << >>]
               /\ duplicates = 0

Lose == /\ "loss" \in Faults
        /\ \E p \in Bound : \E i \in 1..Len(net[p]) : net' = Taken(p, i)
        /\ UNCHANGED duplicates

Duplicate ==
  /\ "duplication" \in Faults
  /\ duplicates < MaxDuplicates
  /\ \E p \in Bound : \E i \in 1..Len(net[p]) :
       net' = [net EXCEPT ![p] = Append(@, @[i])]
  /\ duplicates' = duplicates + 1

NetworkNext == Lose \/ Duplicate
==============================================================================
