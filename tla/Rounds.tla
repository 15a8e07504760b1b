------------------------------- MODULE Rounds -------------------------------
(***************************************************************************)
(* What the endless loop promises, whatever its calls answer and however   *)
(* often its process dies: the rounds are one after the other, each puts   *)
(* groups of services on nodes as module Placement says, and a pod that    *)
(* waits may be bound to the node its service was put on in the round that *)
(* goes on.  Nothing that runs is moved.                                   *)
(***************************************************************************)
EXTENDS Placement

CONSTANTS Unbound, \* a pod that waits for a node
          Gone     \* a pod that does not exist

VARIABLES pod,    \* service -> its pod, in this round
          name,   \* node -> its name, in this round
          podNode \* pod -> the name of its node, Unbound or Gone

roundsVars == <<vars, pod, name, podNode>>

NoRound ==
  /\ demand = <<>> /\ room = <<>> /\ open = {} /\ host = <<>>
  /\ pod = <<>> /\ name = <<>>

RoundsInit == NoRound /\ \A p \in DOMAIN podNode : podNode[p] \in {Unbound, Gone}

Begin ==
  /\ NoRound
  /\ Init'
  /\ \A s, t \in DOMAIN pod' : pod'[s] = pod'[t] => s = t
  /\ UNCHANGED podNode

Assign == Next /\ UNCHANGED <<pod, name, podNode>>

Bind(s) ==
  /\ podNode[pod[s]] = Unbound
  /\ \E n \in host[s] : podNode' = [podNode EXCEPT ![pod[s]] = name[n]]
  /\ UNCHANGED <<vars, pod, name>>

(* The round is over, or its process dies.                                 *)
End == NoRound' /\ UNCHANGED podNode

(* Kubernetes on its own.                                                  *)
Come(p) ==
  /\ podNode[p] = Gone
  /\ podNode' = [podNode EXCEPT ![p] = Unbound]
  /\ UNCHANGED <<vars, pod, name>>

Leave(p) ==
  /\ podNode[p] # Gone
  /\ podNode' = [podNode EXCEPT ![p] = Gone]
  /\ UNCHANGED <<vars, pod, name>>

RoundsNext ==
  \/ Begin \/ Assign \/ End
  \/ \E s \in DOMAIN pod : Bind(s)
  \/ \E p \in DOMAIN podNode : Come(p) \/ Leave(p)

RoundsSpec == RoundsInit /\ [][RoundsNext]_roundsVars
=============================================================================
