-------------------------------- MODULE Wire --------------------------------
(***************************************************************************)
(* The TCP connections between the clients and the server.  Each client    *)
(* process has one connection and one stream in each direction: reliable   *)
(* and in order, and as late as the network likes.  A name is not a        *)
(* process: somebody who closes the client and comes back is a new process *)
(* that gives the same name.                                               *)
(***************************************************************************)
EXTENDS Integers, Sequences

CONSTANT Proc          \* client processes, each started at most once

VARIABLES up,          \* up[p]: sent by p, not yet read by the server
          down         \* down[p]: sent to p, not yet read by p
wires == <<up, down>>

(* The end of a stream whose sender is gone: orderly, or by a reset.       *)
FIN == [type |-> "FIN"]
RST == [type |-> "RST"]

Gone(p)  == up[p] # <<>> /\ up[p][Len(up[p])] \in {FIN, RST}
Reset(p) == up[p] # <<>> /\ up[p][Len(up[p])] = RST

(* The process of p ends.  What it has not read makes the connection be    *)
(* reset instead of closed.                                                *)
HangUp(p) ==
  /\ up' = [up EXCEPT ![p] = Append(@, IF down[p] = <<>> THEN FIN ELSE RST)]
  /\ down' = [down EXCEPT ![p] = <<>>]

(* A reset reaches the server before it has read all that p sent: the rest *)
(* is discarded.                                                           *)
ResetArrives(p) ==
  /\ Reset(p) /\ Len(up[p]) > 1
  /\ up' = [up EXCEPT ![p] = <<RST>>]
  /\ UNCHANGED down

(* The server writes msgs on the connection of p.  Writing to a process    *)
(* that is gone provokes a reset.                                          *)
Written(down_p, p, msgs) == IF Gone(p) THEN down_p ELSE down_p \o msgs
Provoked(up_p, msgs) ==
  IF msgs # <<>> /\ up_p # <<>> /\ up_p[Len(up_p)] = FIN
  THEN [up_p EXCEPT ![Len(up_p)] = RST] ELSE up_p
=============================================================================
