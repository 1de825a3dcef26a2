---------------------------- MODULE VerifyRequest ----------------------------
(***************************************************************************)
(* POST /verify, /verify-with-signer and /verify_sync: setup_verification  *)
(* (verify_helpers.rs), process_verification (async_verify.rs) and         *)
(* process_verification_sync (sync_verify.rs) up to the start of the       *)
(* build.  The webhook /pda enters process_verification too, so the steps  *)
(* from "dedupe" on serve the tasks of kind "pda" as well.                 *)
(***************************************************************************)
EXTENDS Server

\* A request for p, with a signer or without (None): get_program_state, whose
\* error is replaced by a guess.
VerifyArrives(t, kind, p, w) ==
    /\ kind \in {"verify", "verify_sync"}
    /\ Receive(t, kind)
    /\ kind = "verify_sync" => w = None
    /\ \E snap \in get_program_state(p)
                   \cup (IF RpcFails THEN {EmptySnapshot} ELSE {}) :
          Becomes(t, [IdleTask EXCEPT !.kind = kind, !.pc = "lookup",
                                      !.program = p, !.signer = w,
                                      !.snap = snap])
    /\ UNCHANGED <<chain_vars, program_state, builds, job, sweep, crashes>>

\* Mutant: the build is stored with the signer of the request.
lookup_keeps_signer(t) ==
    /\ task[t].pc = "lookup"
    /\ \/ \E w \in Signers :
            /\ FindsPda(task[t].program, task[t].signer,
                        task[t].snap.authority, w)
            /\ Becomes(t, [task[t] EXCEPT
                             !.pc = "upsert",
                             !.source = pda[task[t].program][w]])
       \/ /\ FindsNoPda(task[t].program, task[t].signer, task[t].snap.authority)
          /\ Finish(t)
    /\ UNCHANGED <<chain_vars, program_state, builds, job, sweep, calls, crashes>>

VerifyLookup(t) ==
    /\ task[t].pc = "lookup"
    /\ \/ \E w \in Signers :
            /\ FindsPda(task[t].program, task[t].signer,
                        task[t].snap.authority, w)
            /\ Becomes(t, [task[t] EXCEPT
                             !.pc = "upsert", !.signer = w,
                             !.source = pda[task[t].program][w]])
       \/ /\ FindsNoPda(task[t].program, task[t].signer, task[t].snap.authority)
          /\ Finish(t)
    /\ UNCHANGED <<chain_vars, program_state, builds, job, sweep, calls, crashes>>

\* An error of the upsert is logged and the request goes on.
VerifyUpsert(t) ==
    /\ task[t].pc = "upsert"
    /\ \/ WriteState(task[t].program,
                     upsert_program_state(program_state[task[t].program],
                                          task[t].snap))
       \/ DbFails /\ UNCHANGED program_state
    /\ Becomes(t, [task[t] EXCEPT !.pc = "dedupe", !.snap = EmptySnapshot])
    /\ UNCHANGED <<chain_vars, builds, job, sweep, calls, crashes>>

\* A duplicate is answered from its row, after a look for a closed program in
\* the async handler.  An error of the query counts as no duplicate.
Dedupe(t) ==
    /\ task[t].pc = "dedupe"
    /\ \/ /\ find_duplicate(builds, TaskNew(t))
          /\ IF task[t].kind = "verify_sync" THEN Finish(t)
             ELSE Goto(t, "check_closed")
       \/ /\ DbFails \/ ~find_duplicate(builds, TaskNew(t))
          /\ Goto(t, "insert")
    /\ UNCHANGED <<chain_vars, program_state, builds, job, sweep, calls, crashes>>

\* check_program_closed.
CheckClosed(t) ==
    /\ task[t].pc = "check_closed"
    /\ \/ /\ TRUE \in is_program_data_missing(task[t].program)
          /\ Goto(t, "mark_closed")
       \/ /\ FALSE \in is_program_data_missing(task[t].program)
          /\ Finish(t)
    /\ UNCHANGED <<chain_vars, program_state, builds, job, sweep, calls, crashes>>

\* Also the closed branch of the two webhooks.
MarkClosed(t) ==
    /\ task[t].pc = "mark_closed"
    /\ \/ WriteState(task[t].program,
                     mark_closed(program_state[task[t].program]))
       \/ DbFails /\ UNCHANGED program_state
    /\ Finish(t)
    /\ UNCHANGED <<chain_vars, builds, job, sweep, calls, crashes>>

\* create_and_insert_build, then the build starts: in a task of its own, or
\* in the handler of a sync request.
InsertBuild(t) ==
    /\ task[t].pc = "insert"
    /\ \/ InsertAndStart(TaskNew(t),
                         IF task[t].kind = "verify_sync" THEN "sync" ELSE "async")
       \/ /\ DbFails \/ ("cancel" \in Faults /\ task[t].kind # "pda")
          /\ InsertUnacknowledged(TaskNew(t))
       \/ InsertRefused
    /\ Finish(t)
    /\ UNCHANGED <<chain_vars, program_state, sweep, calls, crashes>>

VerifyStep(t) ==
    \/ VerifyLookup(t) \/ VerifyUpsert(t) \/ Dedupe(t)
    \/ CheckClosed(t) \/ MarkClosed(t) \/ InsertBuild(t)
=============================================================================
