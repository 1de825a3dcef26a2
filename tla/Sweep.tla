-------------------------------- MODULE Sweep --------------------------------
(***************************************************************************)
(* The sweep task (sweep.rs): every interval run_once takes a snapshot of  *)
(* every tracked program, writes them all, then examines up to             *)
(* MaxReverifies of the programs flagged as drifted.  The order of the     *)
(* writes is that of a HashMap, so nothing is assumed about it, nor about  *)
(* the last_checked order it induces among the candidates.  The stamp of   *)
(* a completed cycle, which only /health reads, is not kept.               *)
(***************************************************************************)
EXTENDS Server, FiniteSets

\* sweep_program_ids.
sweep_program_ids ==
    {p \in Programs : program_state[p].present \/ has_completed_build(builds, p)}

\* pending_reverify_candidates, without its limit.
Candidates == {p \in Programs : IsReverifyCandidate(program_state[p])}

\* The subsets a LIMIT (or a chunk) of n may take from s.
Limited(s, n) ==
    {q \in SUBSET s : Cardinality(q) = (IF Cardinality(s) < n
                                        THEN Cardinality(s) ELSE n)}

SweepFrame == UNCHANGED <<chain_vars, task, calls, crashes>>

BeginCycle ==
    /\ sweep.pc = "idle"
    /\ sweep_program_ids # {}
    /\ sweep' = [sweep EXCEPT !.pc = "fetch", !.todo = sweep_program_ids]
    /\ UNCHANGED <<program_state, builds, job>>
    /\ SweepFrame

\* One chunk of snapshot_programs is answered.
ChunkAnswered(chunk, skipped) ==
    LET got == sweep.got \cup (chunk \ skipped)
        rest == sweep.todo \ chunk
    IN  sweep' = [sweep EXCEPT
            !.pc = IF rest # {} THEN "fetch"
                   ELSE IF got # {} THEN "apply" ELSE "drain",
            !.todo = rest,
            !.got = got,
            !.snaps = [p \in Programs |-> IF p \in chunk \ skipped
                                          THEN Snapshot(p) ELSE @[p]]]

FetchChunk ==
    /\ sweep.pc = "fetch"
    /\ \E chunk \in Limited(sweep.todo, ChunkSize) :
         \E skipped \in SUBSET {p \in chunk : MaySkip(p)} :
            ChunkAnswered(chunk, skipped)
    /\ UNCHANGED <<program_state, builds, job>>
    /\ SweepFrame

\* One failed call ends the cycle, and what other chunks answered is dropped.
FetchFails ==
    /\ sweep.pc = "fetch"
    /\ RpcFails
    /\ sweep' = IdleSweep
    /\ UNCHANGED <<program_state, builds, job>>
    /\ SweepFrame

ApplySnapshot(p) ==
    /\ sweep.pc = "apply"
    /\ p \in sweep.got
    /\ \/ WriteState(p, upsert_program_state(program_state[p], sweep.snaps[p]))
       \/ DbFails /\ UNCHANGED program_state
    /\ sweep' = [sweep EXCEPT !.pc = IF sweep.got = {p} THEN "drain" ELSE @,
                              !.got = @ \ {p},
                              !.snaps[p] = EmptySnapshot]
    /\ UNCHANGED <<builds, job>>
    /\ SweepFrame

\* The query gives program ids and authorities; an error ends the cycle.
LoadCandidates ==
    /\ sweep.pc = "drain"
    /\ \/ \E queue \in Limited(Candidates, MaxReverifies) :
            sweep' = IF queue = {} THEN IdleSweep
                     ELSE [IdleSweep EXCEPT
                             !.pc = "next", !.queue = queue,
                             !.authority = [p \in Programs |->
                                IF p \in queue THEN program_state[p].authority
                                ELSE None]]
       \/ DbFails /\ sweep' = IdleSweep
    /\ UNCHANGED <<program_state, builds, job>>
    /\ SweepFrame

\* reverify_one takes the next candidate and looks for its PDA, with the
\* authority of the query and no signer.
LookupCandidate(p) ==
    /\ sweep.pc = "next"
    /\ p \in sweep.queue
    /\ \/ \E w \in Signers :
            /\ FindsPda(p, None, sweep.authority[p], w)
            /\ sweep' = [sweep EXCEPT
                  !.pc = "has_build", !.program = p, !.signer = w,
                  !.source = pda[p][w],
                  !.examined = program_state[p].on_chain_hash]
       \/ /\ FindsNoPda(p, None, sweep.authority[p])
          /\ sweep' = [sweep EXCEPT !.pc = "clear", !.program = p,
                          !.examined = program_state[p].on_chain_hash]
    /\ UNCHANGED <<program_state, builds, job>>
    /\ SweepFrame

SweepNew == [program |-> sweep.program, signer |-> sweep.signer,
             source |-> sweep.source]

\* Mutant: any completed build of the program counts.
check_program_only ==
    /\ sweep.pc = "has_build"
    /\ \/ /\ DbFails \/ has_completed_build(builds, sweep.program)
          /\ sweep' = [sweep EXCEPT !.pc = "clear"]
       \/ /\ ~has_completed_build(builds, sweep.program)
          /\ sweep' = [sweep EXCEPT !.pc = "insert"]
    /\ UNCHANGED <<program_state, builds, job>>
    /\ SweepFrame

\* Mutant: with a build there already the cycle ends, the flag as it was.
check_returns_early ==
    /\ sweep.pc = "has_build"
    /\ sweep' = IF has_build_for_params(builds, SweepNew) THEN IdleSweep
                ELSE [sweep EXCEPT !.pc = "insert"]
    /\ UNCHANGED <<program_state, builds, job>>
    /\ SweepFrame

CheckBuilds ==
    /\ sweep.pc = "has_build"
    /\ \/ /\ DbFails \/ has_build_for_params(builds, SweepNew)
          /\ sweep' = [sweep EXCEPT !.pc = "clear"]
       \/ /\ ~has_build_for_params(builds, SweepNew)
          /\ sweep' = [sweep EXCEPT !.pc = "insert"]
    /\ UNCHANGED <<program_state, builds, job>>
    /\ SweepFrame

InsertReverify ==
    /\ sweep.pc = "insert"
    /\ \/ InsertAndStart(SweepNew, "async")
       \/ DbFails /\ InsertUnacknowledged(SweepNew)
       \/ InsertRefused
    /\ sweep' = [sweep EXCEPT !.pc = "clear"]
    /\ UNCHANGED program_state
    /\ SweepFrame

\* clear_pending_reverify, whatever reverify_one did.
ClearFlag ==
    /\ sweep.pc = "clear"
    /\ \/ WriteState(sweep.program,
                     clear_pending_reverify(program_state[sweep.program]))
       \/ DbFails /\ UNCHANGED program_state
    /\ sweep' = IF sweep.queue = {sweep.program} THEN IdleSweep
                ELSE [sweep EXCEPT !.pc = "next",
                                   !.queue = @ \ {sweep.program},
                                   !.program = None, !.signer = None,
                                   !.source = None, !.examined = None]
    /\ UNCHANGED <<builds, job>>
    /\ SweepFrame

SweepStep ==
    \/ BeginCycle \/ FetchChunk \/ FetchFails
    \/ \E p \in Programs : ApplySnapshot(p)
    \/ LoadCandidates
    \/ \E p \in Programs : LookupCandidate(p)
    \/ CheckBuilds \/ InsertReverify \/ ClearFlag
=============================================================================
