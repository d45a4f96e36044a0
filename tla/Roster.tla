------------------------------- MODULE Roster ------------------------------
(***************************************************************************)
(* What a gateway holds about one agent, and what one record of the agent  *)
(* log does to it (internal/agent/roster.go).  A gateway's roster is a     *)
(* function from agents to these.                                          *)
(***************************************************************************)
EXTENDS Agent

\* A tenant nobody decided: what a conflict leaves, and what a record that
\* places its agent nowhere names.
NoTenant == "no tenant"

\* An agent the registry never named: the map has no entry for it.
Unknown == [seen |-> FALSE, admits |-> FALSE, tenant |-> NoTenant, revision |-> 0]

\* Two records of one revision that cannot both be what was decided.
Conflicts(held, record) ==
  /\ held.seen
  /\ record.revision = held.revision
  /\ \/ held.admits # Admits(record.state)
     \/ held.tenant # record.tenant

SteppedOver(held, record) == held.seen /\ record.revision < held.revision

(***************************************************************************)
(* What a record whose reading failed leaves of its agent's entry: the     *)
(* agent is no longer admitted, and the revision is kept so that a later   *)
(* record replaces it.  An agent without an entry gets one at revision 0.  *)
(* The gateway calls it for a record it cannot read (AgentAdmission,       *)
(* Handed) and for one that conflicts.                                     *)
(***************************************************************************)
Refuse(held) == [held EXCEPT !.seen = TRUE, !.admits = FALSE]

\* Regression: the record that came last wins.
ApplyAsItCame(held, record) ==
  [seen |-> TRUE, admits |-> Admits(record.state),
   tenant |-> record.tenant, revision |-> record.revision]

\* Regression: a record of the revision already held is read again.
ApplyAgain(held, record) ==
  IF SteppedOver(held, record) THEN held
  ELSE [seen |-> TRUE, admits |-> Admits(record.state),
        tenant |-> record.tenant, revision |-> record.revision]

(***************************************************************************)
(* The conflicting branch stores {revision} and returns an error, for      *)
(* which the reader then calls Refuse: the tenant is gone as well.  A      *)
(* readable record of the revision an agent was refused at gets here, so   *)
(* only a later revision lifts a refusal.                                  *)
(***************************************************************************)
Apply(held, record) ==
  IF SteppedOver(held, record) THEN held
  ELSE IF Conflicts(held, record)
       THEN Refuse([held EXCEPT !.tenant = NoTenant])
  ELSE [seen |-> TRUE, admits |-> Admits(record.state),
        tenant |-> record.tenant, revision |-> record.revision]
=============================================================================
