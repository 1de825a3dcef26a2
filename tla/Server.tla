------------------------------- MODULE Server -------------------------------
(***************************************************************************)
(* The state of the running service and the steps its parts share.         *)
(*                                                                         *)
(* program_state, builds   the tables; they survive a crash                *)
(* task[t]    what one of the request slots is doing: the handler of a     *)
(*            /verify or /verify_sync request, or the background task of   *)
(*            one webhook instruction                                      *)
(* job[b]     the process that runs build b, from the insert of its row    *)
(*            to the end of build::execute (or of the sync handler)        *)
(* sweep      the sweep task: its place in run_once and its locals         *)
(* calls, crashes   bounds: requests and events received, restarts         *)
(*                                                                         *)
(* A step is what happens up to the next answer of the database or of the  *)
(* RPC node: between two of them a handler touches only its own locals,    *)
(* and anybody else may run.  "db" in Faults: any statement may fail, with *)
(* or without having been executed.                                        *)
(***************************************************************************)
EXTENDS Onchain

CONSTANTS
    Tasks,         \* request slots: how many handlers run at once
    MaxCalls,      \* bound on the requests and events received
    CallKinds,     \* which of them arrive
    MaxCrashes,    \* bound on crashes
    MaxReverifies, \* config.rs: max_reverifies_per_sweep
    ChunkSize      \* GMA_CHUNK: programs per getMultipleAccounts call

ASSUME ServerAssumption ==
    /\ MaxCalls \in Nat /\ MaxCrashes \in Nat /\ MaxReverifies \in Nat
    /\ ChunkSize \in Nat \ {0}

VARIABLES program_state, builds, task, job, sweep, calls, crashes

server_vars == <<program_state, builds, task, job, sweep, calls, crashes>>
vars == <<chain_vars, server_vars>>

TaskRows == [kind: {"none", "verify", "verify_sync", "unverify", "pda"},
             pc: {"idle", "lookup", "upsert", "dedupe", "insert",
                  "check_closed", "mark_closed",
                  "fetch", "unverify", "read_pda"},
             program: Programs \cup {None},
             signer: Signers \cup {None},
             source: Sources \cup {None},
             snap: Snapshots,
             hash: Hashes \cup {None}]

IdleTask == [kind |-> "none", pc |-> "idle", program |-> None, signer |-> None,
             source |-> None, snap |-> EmptySnapshot, hash |-> None]

JobRows == [kind: {"none", "async", "sync"},
            pc: {"none", "run", "complete", "snapshot", "upsert",
                 "fail", "check_closed", "mark_closed"},
            hash: Hashes \cup {Empty, None},
            snap: Snapshots]

NoJob == [kind |-> "none", pc |-> "none", hash |-> None, snap |-> EmptySnapshot]

\* todo: ids not fetched yet; got, snaps: the snapshots still to apply;
\* queue, authority: the candidates and the authority the query gave for
\* each; program, signer, source: the candidate at hand and its PDA;
\* examined: history, the stored hash when that PDA was looked up.
SweepRows == [pc: {"idle", "fetch", "apply", "drain", "next",
                   "has_build", "insert", "clear"},
              todo: SUBSET Programs,
              got: SUBSET Programs,
              snaps: [Programs -> Snapshots],
              queue: SUBSET Programs,
              authority: [Programs -> Signers \cup {None}],
              program: Programs \cup {None},
              signer: Signers \cup {None},
              source: Sources \cup {None},
              examined: Hashes \cup {None}]

IdleSweep == [pc |-> "idle", todo |-> {}, got |-> {},
              snaps |-> [p \in Programs |-> EmptySnapshot],
              queue |-> {}, authority |-> [p \in Programs |-> None],
              program |-> None, signer |-> None, source |-> None,
              examined |-> None]

ServerTypeOK ==
    /\ program_state \in [Programs -> StateRows]
    /\ builds \in [BuildIds -> BuildRows]
    /\ task \in [Tasks -> TaskRows]
    /\ job \in [BuildIds -> JobRows]
    /\ sweep \in SweepRows
    /\ calls \in 0..MaxCalls
    /\ crashes \in 0..MaxCrashes

\* A first start on an empty database.
ServerInit ==
    /\ program_state = [p \in Programs |-> NoRow]
    /\ builds = [b \in BuildIds |-> NoBuild]
    /\ task = [t \in Tasks |-> IdleTask]
    /\ job = [b \in BuildIds |-> NoJob]
    /\ sweep = IdleSweep
    /\ calls = 0
    /\ crashes = 0

-----------------------------------------------------------------------------
(* Shared pieces of steps.                                                 *)

DbFails == "db" \in Faults

\* One UPDATE or upsert of a row of program_state.
WriteState(p, row) == program_state' = [program_state EXCEPT ![p] = row]

WriteBuild(b, row) == builds' = [builds EXCEPT ![b] = row]

\* The locals of handler t, or of the process of build b, become `locals`.
Becomes(t, locals) == task' = [task EXCEPT ![t] = locals]
Goto(t, pc) == Becomes(t, [task[t] EXCEPT !.pc = pc])
Finish(t) == Becomes(t, IdleTask)

JobBecomes(b, locals) == job' = [job EXCEPT ![b] = locals]
JobGoto(b, pc) == JobBecomes(b, [job[b] EXCEPT !.pc = pc])
EndJob(b) == JobBecomes(b, NoJob)

\* insert_build succeeds and the process of the new build starts.
InsertAndStart(new, kind) ==
    \E b \in BuildIds :
        /\ IsNextBuild(builds, b)
        /\ WriteBuild(b, InProgress(new))
        /\ JobBecomes(b, [NoJob EXCEPT !.kind = kind, !.pc = "run"])

\* The row is written but the caller never learns of it, so nothing runs.
InsertUnacknowledged(new) ==
    /\ \E b \in BuildIds :
        /\ IsNextBuild(builds, b)
        /\ WriteBuild(b, InProgress(new))
    /\ UNCHANGED job

\* The database refuses the row (or the bound MaxBuilds is reached).
InsertRefused ==
    /\ DbFails \/ \A b \in BuildIds : builds[b].status # "absent"
    /\ UNCHANGED <<builds, job>>

\* A request or an event takes a free slot.
Receive(t, kind) ==
    /\ kind \in CallKinds
    /\ task[t].pc = "idle"
    /\ calls < MaxCalls
    /\ calls' = calls + 1

TaskNew(t) == [program |-> task[t].program, signer |-> task[t].signer,
               source |-> task[t].source]
JobNew(b) == [program |-> builds[b].program, signer |-> builds[b].signer,
              source |-> builds[b].source]

-----------------------------------------------------------------------------
(* main.rs.                                                                *)

\* The process dies at any point and is started again: every handler, build
\* and the sweep are gone, and the startup cleanup fails the builds that were
\* in progress; its error is only logged.
CrashRestart ==
    /\ crashes < MaxCrashes
    /\ crashes' = crashes + 1
    /\ task' = [t \in Tasks |-> IdleTask]
    /\ job' = [b \in BuildIds |-> NoJob]
    /\ sweep' = IdleSweep
    /\ \/ builds' = fail_orphan_builds(builds)
       \/ DbFails /\ UNCHANGED builds
    /\ UNCHANGED <<program_state, calls, chain_vars>>

\* A client disconnects: axum drops the future of its handler wherever it
\* waits.  A sync build runs in the handler and dies with it; an async build
\* has a task of its own and goes on, and so do the webhook tasks.
ClientDisconnects ==
    /\ "cancel" \in Faults
    /\ \/ \E t \in Tasks :
            /\ task[t].kind \in {"verify", "verify_sync"}
            /\ Finish(t)
            /\ UNCHANGED job
       \/ \E b \in BuildIds :
            /\ job[b].kind = "sync"
            /\ EndJob(b)
            /\ UNCHANGED task
    /\ UNCHANGED <<chain_vars, program_state, builds, sweep, calls, crashes>>
=============================================================================
