------------------------------- MODULE MCCutover -------------------------------
(***************************************************************************)
(* Databases of version 1: an empty one (a fresh installation); two builds *)
(* of program 1, as different as they can be; three programs with a build  *)
(* each, on two pages.                                                     *)
(***************************************************************************)
EXTENDS Cutover, TLC

CONSTANTS h1, h2, key, auth, other, system

MCKeys == <<key>>
MCArtifact == [s \in Sources |-> h1]

Verified(chain, hash, time) ==
    [on_chain_hash |-> chain, executable_hash |-> hash, verified_at |-> time]
Build(p, w, status, v) ==
    [program |-> p, signer |-> w, status |-> status, verified |-> v]
Authority(w, closed) ==
    [authority_id |-> w, is_frozen |-> FALSE, is_closed |-> closed]

\* A completed build of program 1 has the hash h1, and is of the first or the
\* last time; the program had either hash then.
Completes(w, time) ==
    {Build(1, w, "completed", Verified(chain, h1, time)) : chain \in {h1, h2}}
Ended(w, status) == Build(1, w, status, None)

Pairs == {[builds |-> 1 :> b1 @@ 2 :> b2 @@ 3 :> None,
           authority |-> 1 :> a @@ 2 :> None @@ 3 :> None] :
              b1 \in Completes(None, 2) \cup Completes(other, 0) \cup Completes(auth, 2)
                     \cup Completes(key, 0)
                     \cup {Ended(None, "completed"), Ended(None, "in_progress")},
              b2 \in Completes(system, 1)
                     \cup {Ended(other, "completed"), Ended(other, "un-used"),
                           Build(1, auth, "completed", Verified(h2, h2, 1))},
              a \in {None, Authority(auth, FALSE), Authority(None, TRUE)}}

Lists == {[builds |-> [b \in 1..3 |-> Build(b, None, "completed", Verified(chain[b], h1, b - 1))],
           authority |-> [p \in 1..3 |-> None]] : chain \in [1..3 -> {h1, h2}]}

MCFresh == {[builds |-> [b \in BuildIds |-> None],
             authority |-> [p \in Programs |-> None]]}

MCSnapshots ==
    {[executable_hash |-> h, authority |-> w, is_frozen |-> FALSE, is_closed |-> FALSE] :
        h \in {h1, h2}, w \in {auth}}
    \cup {[executable_hash |-> None, authority |-> None, is_frozen |-> FALSE,
           is_closed |-> closed] : closed \in BOOLEAN}

MCV1 == Pairs \cup Lists \cup MCFresh
=============================================================================
