--------------------------- MODULE BuildLifecycle ---------------------------
(***************************************************************************)
(* What the table `builds` promises its readers, with no word about how:   *)
(* a row appears with its parameters and is in progress; it ends once, as  *)
(* completed with a hash or as failed; and nothing of it changes after     *)
(* that.  A restart may end many rows at once.  GET /job/{id} and the      *)
(* dedupe query rely on it.                                                *)
(***************************************************************************)
EXTENDS Naturals

CONSTANTS BuildIds,  \* ids
          Params,    \* what identifies a build
          Results    \* hashes a completed build may have

VARIABLES params,    \* params[b], a value outside Params before the insert
          status,    \* status[b]
          result     \* result[b], a value outside Results until completed

lifecycle_vars == <<params, status, result>>

Init ==
    /\ \A b \in BuildIds : status[b] = "absent"
    /\ \A b \in BuildIds : result[b] \notin Results

Start(b) ==
    /\ status[b] = "absent"
    /\ \E new \in Params : params' = [params EXCEPT ![b] = new]
    /\ status' = [status EXCEPT ![b] = "in_progress"]
    /\ UNCHANGED result

Complete(b) ==
    /\ status[b] = "in_progress"
    /\ status' = [status EXCEPT ![b] = "completed"]
    /\ \E r \in Results : result' = [result EXCEPT ![b] = r]
    /\ UNCHANGED params

Fail(b) ==
    /\ status[b] = "in_progress"
    /\ status' = [status EXCEPT ![b] = "failed"]
    /\ UNCHANGED <<params, result>>

Restart ==
    /\ status' = [b \in BuildIds |-> IF status[b] = "in_progress" THEN "failed"
                                     ELSE status[b]]
    /\ UNCHANGED <<params, result>>

Next ==
    \/ \E b \in BuildIds : Start(b) \/ Complete(b) \/ Fail(b)
    \/ Restart

Spec == Init /\ [][Next]_lifecycle_vars

\* Every build ends.
Ends == \A b \in BuildIds : status[b] = "in_progress" ~> status[b] # "in_progress"

FairSpec == Spec /\ Ends
=============================================================================
