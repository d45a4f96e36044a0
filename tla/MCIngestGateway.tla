-------------------------- MODULE MCIngestGateway --------------------------
(***************************************************************************)
(* IngestGateway for TLC.  The bodies of b1 and b2 fit the capacity        *)
(* together and the decoded batches do not.  b2 declares no length and     *)
(* Admit refuses it; b3's body is larger than the ceiling.                 *)
(***************************************************************************)
EXTENDS IngestGateway, TLC

CONSTANTS h1, h2, h3, b1, b2, b3, a1, t1

MCAgentOf == [b \in Batches |-> a1]
MCRecordsOf == (b1 :> <<1, 2>>) @@ (b2 :> <<3>>) @@ (b3 :> <<4>>)
MCEstate == (a1 :> t1)
MCBody == (b1 :> 1) @@ (b2 :> 1) @@ (b3 :> 3)
MCWeight == (b1 :> 2) @@ (b2 :> 2) @@ (b3 :> 0)
=============================================================================
