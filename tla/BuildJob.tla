------------------------------ MODULE BuildJob ------------------------------
(***************************************************************************)
(* The process of one build (build/mod.rs): run_build, then                *)
(* finalize_completed or mark_build_failed.  build::execute, the async     *)
(* path, also looks whether a program whose build failed is closed; the    *)
(* sync handler does not.  The log files and the requester's webhook are   *)
(* not here: nothing read back by the service depends on them.             *)
(***************************************************************************)
EXTENDS Server

\* solana-verify ends: with the artifact's hash, with an output that lacks
\* the hash line (""), or with an error.  It has no timeout.
RunBuild(b) ==
    /\ job[b].pc = "run"
    /\ \/ \E hash \in {Artifact[builds[b].source], Empty} :
            JobBecomes(b, [job[b] EXCEPT !.pc = "complete", !.hash = hash])
       \/ JobGoto(b, "fail")
    /\ UNCHANGED <<chain_vars, program_state, builds, task, sweep, calls, crashes>>

\* mark_build_completed; an error is logged and the rest goes on.
CompleteBuild(b) ==
    /\ job[b].pc = "complete"
    /\ \/ WriteBuild(b, mark_build_completed(builds[b], job[b].hash))
       \/ DbFails /\ UNCHANGED builds
    /\ JobBecomes(b, [job[b] EXCEPT !.pc = "snapshot", !.hash = None])
    /\ UNCHANGED <<chain_vars, program_state, task, sweep, calls, crashes>>

\* snapshot_programs of the one program; no answer ends the job.
SnapshotProgram(b) ==
    /\ job[b].pc = "snapshot"
    /\ \/ JobBecomes(b, [job[b] EXCEPT !.pc = "upsert",
                                       !.snap = Snapshot(builds[b].program)])
       \/ (RpcFails \/ MaySkip(builds[b].program)) /\ EndJob(b)
    /\ UNCHANGED <<chain_vars, program_state, builds, task, sweep, calls, crashes>>

UpsertAfterBuild(b) ==
    /\ job[b].pc = "upsert"
    /\ \/ WriteState(builds[b].program,
                     upsert_program_state(program_state[builds[b].program],
                                          job[b].snap))
       \/ DbFails /\ UNCHANGED program_state
    /\ EndJob(b)
    /\ UNCHANGED <<chain_vars, builds, task, sweep, calls, crashes>>

\* Mutant: the failed sync build is not recorded.
fail_async_only(b) ==
    /\ job[b].pc = "fail"
    /\ \/ /\ job[b].kind = "async"
          /\ WriteBuild(b, mark_build_failed(builds[b]))
       \/ job[b].kind = "sync" /\ UNCHANGED builds
    /\ IF job[b].kind = "async" THEN JobGoto(b, "check_closed") ELSE EndJob(b)
    /\ UNCHANGED <<chain_vars, program_state, task, sweep, calls, crashes>>

FailBuild(b) ==
    /\ job[b].pc = "fail"
    /\ \/ WriteBuild(b, mark_build_failed(builds[b]))
       \/ DbFails /\ UNCHANGED builds
    /\ IF job[b].kind = "async" THEN JobGoto(b, "check_closed") ELSE EndJob(b)
    /\ UNCHANGED <<chain_vars, program_state, task, sweep, calls, crashes>>

\* is_program_data_missing after a failed build.
CheckClosedAfterFailure(b) ==
    /\ job[b].pc = "check_closed"
    /\ \/ /\ TRUE \in is_program_data_missing(builds[b].program)
          /\ JobGoto(b, "mark_closed")
       \/ /\ FALSE \in is_program_data_missing(builds[b].program)
          /\ EndJob(b)
    /\ UNCHANGED <<chain_vars, program_state, builds, task, sweep, calls, crashes>>

MarkClosedAfterFailure(b) ==
    /\ job[b].pc = "mark_closed"
    /\ \/ WriteState(builds[b].program,
                     mark_closed(program_state[builds[b].program]))
       \/ DbFails /\ UNCHANGED program_state
    /\ EndJob(b)
    /\ UNCHANGED <<chain_vars, builds, task, sweep, calls, crashes>>

JobStep(b) ==
    \/ RunBuild(b) \/ CompleteBuild(b) \/ SnapshotProgram(b)
    \/ UpsertAfterBuild(b) \/ FailBuild(b)
    \/ CheckClosedAfterFailure(b) \/ MarkClosedAfterFailure(b)
=============================================================================
