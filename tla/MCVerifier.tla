----------------------------- MODULE MCVerifier -----------------------------
(***************************************************************************)
(* Values for the constants of Verifier.                                   *)
(***************************************************************************)
EXTENDS Verifier, TLC

CONSTANTS p1, p2, h1, h2, key, auth, other, s1, s2, t1, t2

MCKeys == <<key>>
MCArtifact1 == s1 :> h1
MCArtifact == s1 :> h1 @@ s2 :> h2

Open(h, w) == [loader |-> "upgradeable", open |-> TRUE, hash |-> h,
               authority |-> w, newest |-> None]
Legacy(h) == [loader |-> "legacy", open |-> TRUE, hash |-> h,
              authority |-> None, newest |-> None]
NoProgram(h) == [loader |-> "none", open |-> FALSE, hash |-> h,
                 authority |-> None, newest |-> None]

\* One upgradeable program.
MCOpen == {[p \in Programs |-> Open(h1, auth)]}
\* It, or an address where it is still to be deployed.
MCOpenOrNone == MCOpen \cup {[p \in Programs |-> NoProgram(h1)]}
\* It, or one of a legacy loader.
MCOpenOrLegacy == MCOpen \cup {[p \in Programs |-> Legacy(h1)]}
\* Its authority's PDA asks for the source that is deployed.
MCPda1 == [p \in Programs |-> [w \in Signers |-> IF w = auth THEN s1 ELSE None]]
\* The authority's PDA asks for what is deployed, one of a key that nobody
\* trusts for the other source.
MCPdaOther == [p \in Programs |->
    [w \in Signers |-> IF w = auth THEN s1 ELSE IF w = other THEN s2 ELSE None]]
=============================================================================
