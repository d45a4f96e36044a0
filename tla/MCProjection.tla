---------------------------- MODULE MCProjection ----------------------------
(***************************************************************************)
(* Projection for TLC.  Columns hold the instants 2 .. 9, two to a         *)
(* millisecond of the store.                                               *)
(***************************************************************************)
EXTENDS Projection, TLC

CONSTANTS m1, m2, p1, p2, x, y, z

Scan(at, items) == [at |-> at, items |-> items, full |-> TRUE, valid |-> TRUE, wild |-> {}]
Delta(at, items) == [Scan(at, items) EXCEPT !.full = FALSE]
Invalid(at, items) == [Delta(at, items) EXCEPT !.valid = FALSE]
Wild(at, items, wild) == [Scan(at, items) EXCEPT !.wild = wild]

(***************************************************************************)
(* One asset: a scan, an older delta that arrives late, a newer scan one   *)
(* of whose items the store cannot hold, a delta, and a scan of the same   *)
(* millisecond that names another item.  The other: a delta of an asset    *)
(* never scanned, and an empty scan of an instant the store cannot hold.   *)
(***************************************************************************)
Mixed ==
  (p1 :> <<Scan(4, {x, y}), Delta(2, {y}), Wild(8, {x, y}, {y}), Delta(6, {y}), Scan(7, {x})>>) @@
  (p2 :> <<Delta(2, {z}), Scan(12, {})>>)

(***************************************************************************)
(* Records the checks of classify are made for: items out of range, a scan *)
(* whose own instant is, and a record that breaks the contract.            *)
(***************************************************************************)
Checked ==
  (p1 :> <<Wild(6, {x, y}, {y}), Invalid(6, {}), Scan(8, {x})>>) @@
  (p2 :> <<Scan(12, {z})>>)

\* An asset that says it has nothing left, at an instant the store cannot hold.
Unstorable == (p1 :> <<Scan(4, {x}), Scan(12, {}), Delta(6, {y})>>)

\* The processes of a group are alike (used where no liveness is checked).
AlikeMembers == Permutations({m1, m2})

\* An asset that was never enumerated in full.
DeltasOnly == (p1 :> <<Delta(4, {x}), Delta(6, {y})>>)
=============================================================================
