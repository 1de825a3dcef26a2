------------------------------ MODULE Webhooks ------------------------------
(***************************************************************************)
(* The two Helius webhooks: /unverify (unverify.rs), told of program       *)
(* upgrades, and /pda (pda_worker.rs), told of PDA updates.  Both answer   *)
(* at once and process each instruction in a background task.  Delivery is *)
(* Helius's: an event may come late, twice, out of order or never, so any  *)
(* event may arrive at any time.                                           *)
(***************************************************************************)
EXTENDS Server

\* has_completed_build and cached_on_chain_hash.  Read as one: a completed
\* build stays completed, so the first read still holds at the second.  An
\* upgrade of a program never verified is skipped.
UnverifyArrives(t, p) ==
    /\ Receive(t, "unverify")
    /\ has_completed_build(builds, p)
    /\ Becomes(t, [IdleTask EXCEPT !.kind = "unverify", !.pc = "fetch",
                                   !.program = p,
                                   !.hash = program_state[p].on_chain_hash])
    /\ UNCHANGED <<chain_vars, program_state, builds, job, sweep, crashes>>

\* The PDA of signer w for p changed.  An error of the read counts as no
\* cached hash.
PdaArrives(t, p, w) ==
    /\ Receive(t, "pda")
    /\ \E cached \in {program_state[p].on_chain_hash}
                     \cup (IF DbFails THEN {None} ELSE {}) :
          Becomes(t, [IdleTask EXCEPT !.kind = "pda", !.pc = "fetch",
                                      !.program = p, !.signer = w,
                                      !.hash = cached])
    /\ UNCHANGED <<chain_vars, program_state, builds, job, sweep, crashes>>

\* get_on_chain_hash against the cached hash read before it.
FetchHash(t) ==
    /\ task[t].pc = "fetch"
    /\ \/ \E snap \in get_program_state(task[t].program) :
            \/ /\ snap.is_closed
               /\ Goto(t, "mark_closed")
            \/ /\ ~snap.is_closed
               /\ snap.executable_hash \notin {None, task[t].hash}
               /\ Becomes(t, [task[t] EXCEPT !.pc = "unverify",
                                             !.hash = snap.executable_hash])
            \/ /\ ~snap.is_closed
               /\ snap.executable_hash \in {None, task[t].hash}
               /\ Finish(t)
       \/ RpcFails /\ Finish(t)
    /\ UNCHANGED <<chain_vars, program_state, builds, job, sweep, calls, crashes>>

\* Mutant: a PDA's event ends like an upgrade's.
unverify_ends(t) ==
    /\ task[t].pc = "unverify"
    /\ WriteState(task[t].program,
                  unverify_program(program_state[task[t].program], task[t].hash))
    /\ Finish(t)
    /\ UNCHANGED <<chain_vars, builds, job, sweep, calls, crashes>>

\* A failed statement ends the task, whether it was executed or not.
Unverify(t) ==
    /\ task[t].pc = "unverify"
    /\ \/ /\ WriteState(task[t].program,
                        unverify_program(program_state[task[t].program],
                                         task[t].hash))
          /\ \/ /\ task[t].kind = "pda"
                /\ Becomes(t, [task[t] EXCEPT !.pc = "read_pda", !.hash = None])
             \/ /\ DbFails \/ task[t].kind = "unverify"
                /\ Finish(t)
       \/ DbFails /\ UNCHANGED program_state /\ Finish(t)
    /\ UNCHANGED <<chain_vars, builds, job, sweep, calls, crashes>>

\* The event's own PDA, whoever signed it; then process_verification.
ReadPda(t) ==
    /\ task[t].pc = "read_pda"
    /\ \/ /\ pda[task[t].program][task[t].signer] # None
          /\ Becomes(t, [task[t] EXCEPT
                           !.pc = "dedupe",
                           !.source = pda[task[t].program][task[t].signer]])
       \/ /\ RpcFails \/ pda[task[t].program][task[t].signer] = None
          /\ Finish(t)
    /\ UNCHANGED <<chain_vars, program_state, builds, job, sweep, calls, crashes>>

WebhookStep(t) == FetchHash(t) \/ Unverify(t) \/ ReadPda(t)
=============================================================================
