------------------------------- MODULE Spool -------------------------------
(***************************************************************************)
(* What the ingest path promises an agent, with no gateway in it: an agent *)
(* keeps its copy of a batch until every record of it is on the topic, a   *)
(* record on the topic stays there, and it is stamped with the agent it    *)
(* came from and the estate the registry placed that agent in.             *)
(***************************************************************************)
EXTENDS Naturals, Sequences

CONSTANTS
  Batches,
  AgentOf,    \* the agent whose certificate a batch arrives under
  RecordsOf,  \* what a batch carries, in order
  Estate      \* the tenant the registry placed each agent in

VARIABLES
  topic,      \* the records the backbone owns
  spool       \* the batches whose agent still keeps a copy

Stamped(b, i, tenant) ==
  [record |-> RecordsOf[b][i], agent |-> AgentOf[b], tenant |-> tenant]

\* Everything b carries is on the topic.
Durable(b) ==
  \A i \in 1 .. Len(RecordsOf[b]) : Stamped(b, i, Estate[AgentOf[b]]) \in topic

Init ==
  /\ topic = {}
  /\ spool = Batches

Write ==
  \E b \in Batches : \E i \in 1 .. Len(RecordsOf[b]) :
    /\ topic' = topic \cup {Stamped(b, i, Estate[AgentOf[b]])}
    /\ UNCHANGED spool

Forget(b) ==
  /\ Durable(b)
  /\ spool' = spool \ {b}
  /\ UNCHANGED topic

Next == Write \/ \E b \in Batches : Forget(b)

Spec == Init /\ [][Next]_<<topic, spool>>
=============================================================================
