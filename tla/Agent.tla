------------------------------- MODULE Agent -------------------------------
(***************************************************************************)
(* What an agent is in the registry: the states it may be in, the moves    *)
(* between them, and what one act on it (a Move) does.  Pure, like the     *)
(* package it models: the store reads a row, applies a move and writes     *)
(* what comes back, and the modules that hold rows do the same with        *)
(* Accepted and Moved.                                                     *)
(*                                                                         *)
(* A certificate is its fingerprint.  The actor, the note's wording and    *)
(* length, and the bytes an identity is refused for (agent.Bindable) are   *)
(* left out: a move refused for one of them changes nothing.               *)
(***************************************************************************)
EXTENDS Naturals

\* The registry's states, internal/agent/state.go.
States == {"pending", "active", "disabled", "revoked", "decommissioned"}

\* No identity is bound, no state is asked for, no request is named.
None == "none"

Final(s) == s \in {"revoked", "decommissioned"}

\* Whether the gateway still takes what an agent in this state sends.
Admits(s) == s \in {"pending", "active"}

\* Where an agent may go from where it is.
Legal(from, to) ==
  \/ /\ from \in {"pending", "active"}
     /\ to \in {"disabled", "revoked", "decommissioned"}
  \/ /\ from = "disabled"
     /\ to \in {"active", "revoked", "decommissioned"}

\* What a renewal asked with: the certificate presented, and its request.
NotAsked == [presented |-> None, request |-> None]

Binding(move) == move.identity # None

Changing(row, move) == move.to # None /\ move.to # row.state

(***************************************************************************)
(* The same renewal asked again: the request that the bound certificate    *)
(* answered, presented with the certificate that request replaced.         *)
(***************************************************************************)
AsksAgain(move, bound) ==
  /\ move.request # None
  /\ move.request = bound.request
  /\ move.presented = bound.presented

\* Every early return of agent.Apply, as the condition for passing it.
Accepted(row, move, bound) ==
  /\ move.expected # 0 => move.expected = row.revision
  /\ Changing(row, move) \/ Binding(move)
  /\ Binding(move) => ~Final(row.state)
  /\ Binding(move) /\ move.renewal =>
       /\ Admits(row.state)
       /\ move.presented = row.identity \/ AsksAgain(move, bound)
  /\ Changing(row, move) => Legal(row.state, move.to) /\ move.reason

\* The state a move leaves: what was asked for wins over what binding implies.
StateAfter(row, move) ==
  IF Changing(row, move) THEN move.to
  ELSE IF Binding(move) /\ row.state = "pending" THEN "active"
  ELSE row.state

\* Regression: binding a certificate is not a new revision.
MovedInPlace(row, move) ==
  [row EXCEPT !.revision = IF Changing(row, move) THEN @ + 1 ELSE @,
              !.identity = IF Binding(move) THEN move.identity ELSE @,
              !.state    = StateAfter(row, move)]

Moved(row, move) ==
  [row EXCEPT !.revision = @ + 1,
              !.identity = IF Binding(move) THEN move.identity ELSE @,
              !.state    = StateAfter(row, move)]

(***************************************************************************)
(* The moves the control plane's handlers ask for.  An expected revision   *)
(* of 0 acts on whatever the agent is.                                     *)
(***************************************************************************)
Transition(to, reason, expected) ==
  [to |-> to, identity |-> None, reason |-> reason, expected |-> expected,
   renewal |-> FALSE, presented |-> None, request |-> None]

BindIdentity(fingerprint, expected) ==
  [to |-> None, identity |-> fingerprint, reason |-> FALSE, expected |-> expected,
   renewal |-> FALSE, presented |-> None, request |-> None]

Renewal(fingerprint, presented, request) ==
  [to |-> None, identity |-> fingerprint, reason |-> FALSE, expected |-> 0,
   renewal |-> TRUE, presented |-> presented, request |-> request]
=============================================================================
